--------------------------- MODULE ModelCatalogProofs ---------------------------
(***************************************************************************)
(* The catalog beside the drift detector, for every set of rows, names,    *)
(* handlers and processes.  Names stay disjoint: under the lock a handler  *)
(* has seen its names free.  A verified row was tested: a copy's target    *)
(* and its flag travel together.  A cache follows the commits of its own   *)
(* process: it is right, or one of its handlers is about to put it right.  *)
(* A baseline stands on runs: what a sweep has counted can only grow.      *)
(***************************************************************************)
EXTENDS Canary, TLAPS

AnyRow == [names : SUBSET Names, target : Targets, verified : BOOLEAN, chain : Chains]

Work(w) == [pc |-> w.pc, op |-> w.op, row |-> w.row, proc |-> w.proc, mine |-> w.mine,
            want |-> w.want, snap |-> w.snap]

Tables == row \in [Rows -> AnyRow \cup {None}]

Shape == handler = [h \in Handlers |-> Work(handler[h])]

\* An edit leaves the row verified only if its copy was, and on that target.
VerifiedAsCopied(w) ==
    w.want.verified => w.mine.verified /\ w.want.target = w.mine.target

\* What a handler brings to the step its pc names.
Prepared(w) ==
    /\ w.pc = "lock" => w.op \in {"register", "edit"}
    /\ w.pc \in {"lock", "commit", "probe"} => w.row \in Rows
    /\ w.pc \in {"lock", "commit"} /\ w.op \in {"register", "edit"} => w.want \in AnyRow
    /\ w.pc \in {"lock", "commit"} /\ w.op = "edit" => w.mine \in AnyRow
    /\ w.pc = "probe" => w.mine \in AnyRow
    /\ w.pc \in {"lock", "commit"} /\ w.op = "register" => ~w.want.verified
    /\ w.pc \in {"lock", "commit"} /\ w.op = "edit" => VerifiedAsCopied(w)

\* A commit that gives its row names it did not have.
BringsNames(w) == w.op = "register" \/ (w.op = "edit" /\ w.want.names # w.mine.names)

\* The rows whose names the guard looks at have none of those wanted.
Free(w) ==
    \A r \in Rows :
        /\ row[r] # None
        /\ IF w.row \in Customs THEN r \in Hosted ELSE r # w.row
        => w.want.names \cap row[r].names = {}

\* A commit that brings names still has the lock, and what it found is true.
Guarded(h) ==
    handler[h].pc = "commit" /\ BringsNames(handler[h]) => holder = h /\ Free(handler[h])

IInv ==
    /\ Tables /\ Shape
    /\ Clashless(row)
    /\ \A h \in Handlers : Prepared(handler[h]) /\ Guarded(h)

LEMMA InitHolds == Init => IInv
<1> SUFFICES ASSUME Init PROVE IInv
  OBVIOUS
<1> USE CatalogAssumption
<1>1. Row \subseteq AnyRow
  BY DEF Row, CustomModel, SelfHostedProvider, AnyRow
<1>2. Tables /\ Clashless(row)
  BY <1>1 DEF Init, Tables
<1>3. Shape /\ \A h \in Handlers : handler[h].pc = "idle"
  BY DEF Init, Shape, Work, IdleHandler
<1> QED
  BY <1>2, <1>3 DEF IInv, Prepared, Guarded

\* What the guard's two forms look at.
LEMMA FreeIsNamesFree ==
    ASSUME NEW h \in Handlers, Tables, handler[h].row \in Rows
    PROVE  NamesFree(h) <=> Free(handler[h])
<1> DEFINE want == handler[h].want.names
<1>1. ASSUME NEW S \in SUBSET Rows
      PROVE  want \cap Claimed(S) = {}
             <=> \A r \in S : row[r] # None => want \cap row[r].names = {}
  BY <1>1 DEF Claimed, Present
<1>2. Hosted \subseteq Rows /\ Hosted \ {handler[h].row} \subseteq Rows
      /\ Customs \subseteq Rows
  BY DEF Rows
<1>3. CASE handler[h].row \in Customs
  BY <1>1, <1>2, <1>3 DEF NamesFree, CustomNameFree, Free
<1>4. CASE handler[h].row \notin Customs
  <2>1. want \cap Claimed(Hosted \ {handler[h].row}) = {}
        <=> \A r \in Hosted \ {handler[h].row} : row[r] # None => want \cap row[r].names = {}
    BY <1>1, <1>2
  <2>2. want \cap Claimed(Customs) = {}
        <=> \A r \in Customs : row[r] # None => want \cap row[r].names = {}
    BY <1>1, <1>2
  <2>3. HostedNamesFree(h)
        <=> want \cap Claimed(Hosted \ {handler[h].row}) = {} /\ want \cap Claimed(Customs) = {}
    BY DEF HostedNamesFree
  <2> QED
    BY <1>4, <2>1, <2>2, <2>3 DEF NamesFree, Free, Rows
<1> QED
  BY <1>3, <1>4

\* A step after which no row claims a name it did not claim before.
NoNewNames ==
    \A r \in Rows : row'[r] # None => row[r] # None /\ row'[r].names = row[r].names

LEMMA NoNewNamesKeeps ==
    ASSUME NoNewNames
    PROVE  /\ Clashless(row) => Clashless(row')
           /\ \A w : Free(w) => Free(w)'
<1>1. Clashless(row) => Clashless(row')
  BY DEF NoNewNames, Clashless
<1>2. ASSUME NEW w, Free(w) PROVE Free(w)'
  BY <1>2 DEF NoNewNames, Free
<1> QED
  BY <1>1, <1>2

\* One handler's step: the others keep what they have, unless it moves the lock
\* away from one of them or claims names.
LEMMA OneHandlerSteps ==
    ASSUME IInv, NEW h \in Handlers, NEW w,
           handler' = [handler EXCEPT ![h] = w], w = Work(w),
           Prepared(w), Guarded(h)', Tables', NoNewNames,
           \A g \in Handlers \ {h} : holder = g => holder' = g
    PROVE  IInv'
<1>1. handler'[h] = w /\ \A g \in Handlers \ {h} : handler'[g] = handler[g]
  BY DEF IInv, Shape
<1>2. Shape'
  BY <1>1 DEF IInv, Shape
<1>3. ASSUME NEW g \in Handlers \ {h} PROVE Guarded(g)'
  <2>1. Guarded(g) /\ handler'[g] = handler[g]
    BY <1>1 DEF IInv
  <2>2. Free(handler[g]) => Free(handler[g])'
    BY <2>1 DEF Free, NoNewNames
  <2> QED
    BY <2>1, <2>2 DEF Guarded
<1> QED
  BY <1>1, <1>2, <1>3, NoNewNamesKeeps DEF IInv

LEMMA HolderClaims ==
    ASSUME IInv, NEW h \in Handlers, NEW w,
           handler' = [handler EXCEPT ![h] = w], w = Work(w),
           Prepared(w), w.pc # "commit", Tables', Clashless(row'), holder = h
    PROVE  IInv'
<1>1. handler'[h] = w /\ \A g \in Handlers \ {h} : handler'[g] = handler[g]
  BY DEF IInv, Shape
<1>2. Shape'
  BY <1>1 DEF IInv, Shape
<1>3. ASSUME NEW g \in Handlers \ {h} PROVE Guarded(g)'
  <2>1. ~(handler[g].pc = "commit" /\ BringsNames(handler[g]))
    BY <1>3 DEF IInv, Guarded
  <2> QED
    BY <1>1, <2>1 DEF Guarded, BringsNames
<1> QED
  BY <1>1, <1>2, <1>3 DEF IInv, Guarded

LEMMA ClaimDisjoint ==
    ASSUME Tables, Clashless(row), NEW r \in Rows, NEW v \in AnyRow \cup {None},
           row' = [row EXCEPT ![r] = v],
           \A s \in Rows \ {r} : row[s] # None => v.names \cap row[s].names = {}
    PROVE  Clashless(row')
<1>1. row'[r] = v /\ \A s \in Rows \ {r} : row'[s] = row[s]
  BY DEF Tables
<1> QED
  BY <1>1 DEF Clashless

\* The request handlers: what they bring is of its kind, no row changes.
LEMMA EnterKeeps ==
    ASSUME IInv, NEW h \in Handlers, NEW pc, NEW op, NEW p, NEW r, NEW mine, NEW want,
           Enter(h, pc, op, p, r, mine, want),
           Prepared([pc |-> pc, op |-> op, row |-> r, proc |-> p, mine |-> mine,
                     want |-> want, snap |-> None]),
           pc = "commit" => op # "register" /\ (op = "edit" => want.names = mine.names)
    PROVE  IInv'
<1> DEFINE w == [pc |-> pc, op |-> op, row |-> r, proc |-> p, mine |-> mine,
                 want |-> want, snap |-> None]
<1>1. handler' = [handler EXCEPT ![h] = w] /\ UNCHANGED <<row, holder>>
  BY DEF Enter
<1>2. w = Work(w)
  BY DEF Work
<1>3. handler'[h] = w
  BY <1>1 DEF IInv, Shape
<1>4. ~(w.pc = "commit" /\ BringsNames(w))
  BY DEF BringsNames
<1>5. Guarded(h)'
  BY <1>3, <1>4 DEF Guarded, BringsNames
<1>6. NoNewNames /\ Tables'
  BY <1>1 DEF NoNewNames, IInv, Tables
<1>7. \A g \in Handlers \ {h} : holder = g => holder' = g
  BY <1>1
<1>8. Prepared(w)
  OBVIOUS
<1> HIDE DEF w
<1> QED
  BY <1>1, <1>2, <1>5, <1>6, <1>7, <1>8, OneHandlerSteps

LEMMA RetargetedNames ==
    ASSUME NEW r \in Rows, row[r] \in AnyRow
    PROVE  \A want \in Retargeted(r) :
              want \in AnyRow /\ want.names = row[r].names /\ ~want.verified
<1> TAKE want \in Retargeted(r)
<1>1. PICK t \in Targets : want = [row[r] EXCEPT !.target = t, !.verified = FALSE]
  BY DEF Retargeted
<1>2. PICK v \in AnyRow : v = row[r]
  OBVIOUS
<1>3. want = [names |-> v.names, target |-> t, verified |-> FALSE, chain |-> v.chain]
  BY <1>1, <1>2 DEF AnyRow
<1> QED
  BY <1>2, <1>3 DEF AnyRow

LEMMA RequestKeeps ==
    ASSUME IInv, NEW h \in Handlers, NEW p \in Procs, Request(h, p)
    PROVE  IInv'
<1> USE CatalogAssumption
<1>1. Customs \subseteq Rows /\ Hosted \subseteq Rows
  BY DEF Rows
<1>2. \A r \in Present(Rows) : row[r] \in AnyRow
  BY DEF Present, IInv, Tables
<1>3. CASE RegisterCustomModel(h, p)
  <2>1. PICK n \in Names, t \in Targets, chain \in Chains :
          Enter(h, "lock", "register", p, CHOOSE r \in Unused(Customs) : TRUE, None,
                [names |-> {n}, target |-> t, verified |-> FALSE, chain |-> chain])
    BY <1>3 DEF RegisterCustomModel
  <2>2. (CHOOSE r \in Unused(Customs) : TRUE) \in Rows
    BY <1>3, <1>1 DEF RegisterCustomModel, Unused
  <2>3. [names |-> {n}, target |-> t, verified |-> FALSE, chain |-> chain] \in AnyRow
    BY DEF AnyRow
  <2> QED
    BY <2>1, <2>2, <2>3, EnterKeeps DEF Prepared
<1>4. CASE RegisterSelfHosted(h, p)
  <2>1. PICK names \in SUBSET Names \ {{}}, t \in Targets :
          Enter(h, "lock", "register", p, CHOOSE r \in Unused(Hosted) : TRUE, None,
                [names |-> names, target |-> t, verified |-> FALSE, chain |-> <<>>])
    BY <1>4 DEF RegisterSelfHosted
  <2>2. (CHOOSE r \in Unused(Hosted) : TRUE) \in Rows
    BY <1>4, <1>1 DEF RegisterSelfHosted, Unused
  <2>3. [names |-> names, target |-> t, verified |-> FALSE, chain |-> <<>>] \in AnyRow
    BY DEF AnyRow
  <2> QED
    BY <2>1, <2>2, <2>3, EnterKeeps DEF Prepared
<1>5. CASE EditCustomModel(h, p)
  <2>1. PICK r \in Present(Customs) :
          \/ \E want \in EditedCustomModel(r) : Enter(h, "lock", "edit", p, r, row[r], want)
          \/ \E want \in Retargeted(r) : Enter(h, "commit", "edit", p, r, row[r], want)
          \/ \E want \in Retargeted(r), n \in row[r].names :
              Enter(h, "lock", "edit", p, r, row[r], want)
    BY <1>5 DEF EditCustomModel
  <2>2. r \in Rows /\ row[r] \in AnyRow
    BY <1>1, <1>2 DEF Present
  <2>3. \A want \in EditedCustomModel(r) :
          /\ want \in AnyRow
          /\ want.verified = row[r].verified /\ want.target = row[r].target
    BY <2>2 DEF EditedCustomModel, AnyRow
  <2>4. \A want \in Retargeted(r) :
          want \in AnyRow /\ want.names = row[r].names /\ ~want.verified
    BY <2>2, RetargetedNames
  <2>5. ASSUME NEW pc \in {"lock", "commit"}, NEW want \in AnyRow,
               want.verified => row[r].verified /\ want.target = row[r].target,
               pc = "commit" => want.names = row[r].names,
               Enter(h, pc, "edit", p, r, row[r], want)
        PROVE  IInv'
    <3>1. Prepared([pc |-> pc, op |-> "edit", row |-> r, proc |-> p, mine |-> row[r],
                    want |-> want, snap |-> None])
      BY <2>2, <2>5 DEF Prepared, VerifiedAsCopied
    <3> QED
      BY <2>5, <3>1, EnterKeeps
  <2> QED
    BY <2>1, <2>3, <2>4, <2>5
<1>6. CASE EditSelfHosted(h, p)
  <2>1. PICK r \in Present(Hosted) :
          \/ \E names \in SUBSET Names \ {{}} :
              Enter(h, "lock", "edit", p, r, row[r], [row[r] EXCEPT !.names = names])
          \/ \E want \in Retargeted(r) : Enter(h, "commit", "edit", p, r, row[r], want)
    BY <1>6 DEF EditSelfHosted
  <2>2. r \in Rows /\ row[r] \in AnyRow
    BY <1>1, <1>2 DEF Present
  <2>3. ASSUME NEW names \in SUBSET Names
        PROVE  LET want == [row[r] EXCEPT !.names = names]
               IN  /\ want \in AnyRow
                   /\ want.verified = row[r].verified /\ want.target = row[r].target
    BY <2>2 DEF AnyRow
  <2>4. \A want \in Retargeted(r) :
          want \in AnyRow /\ want.names = row[r].names /\ ~want.verified
    BY <2>2, RetargetedNames
  <2>5. ASSUME NEW pc \in {"lock", "commit"}, NEW want \in AnyRow,
               want.verified => row[r].verified /\ want.target = row[r].target,
               pc = "commit" => want.names = row[r].names,
               Enter(h, pc, "edit", p, r, row[r], want)
        PROVE  IInv'
    <3>1. Prepared([pc |-> pc, op |-> "edit", row |-> r, proc |-> p, mine |-> row[r],
                    want |-> want, snap |-> None])
      BY <2>2, <2>5 DEF Prepared, VerifiedAsCopied
    <3> QED
      BY <2>5, <3>1, EnterKeeps
  <2> QED
    BY <2>1, <2>3, <2>4, <2>5
<1>7. CASE RemoveCustomModel(h, p) \/ RemoveSelfHosted(h, p)
  <2>1. PICK r \in Present(Rows) : Enter(h, "commit", "remove", p, r, row[r], None)
    BY <1>7, <1>1 DEF RemoveCustomModel, RemoveSelfHosted, Present
  <2>2. r \in Rows
    BY DEF Present
  <2> QED
    BY <2>1, <2>2, EnterKeeps DEF Prepared
<1>8. CASE VerifyCustomModel(h, p) \/ ReverifySelfHosted(h, p)
  <2>1. \/ \E r \in Present(Rows) : Enter(h, "probe", "verify", p, r, row[r], None)
        \/ UNCHANGED <<row, holder, handler>>
    BY <1>8, <1>1 DEF VerifyCustomModel, ReverifySelfHosted, Present
  <2>2. \A r \in Present(Rows) : r \in Rows /\ row[r] \in AnyRow
    BY <1>2 DEF Present
  <2>3. CASE UNCHANGED <<row, holder, handler>>
    BY <2>3 DEF IInv, Tables, Shape, Guarded, Free
  <2> QED
    BY <2>1, <2>2, <2>3, EnterKeeps DEF Prepared
<1> QED
  BY <1>3, <1>4, <1>5, <1>6, <1>7, <1>8 DEF Request

\* A handler that ends, audits, reloads or publishes brings nothing.
Quiet(w) == w = Work(w) /\ w.pc \in {"idle", "audit", "load", "publish"}

LEMMA QuietSteps ==
    ASSUME IInv, NEW h \in Handlers, NEW w, Quiet(w),
           handler' = [handler EXCEPT ![h] = w], Tables', NoNewNames,
           \A g \in Handlers \ {h} : holder = g => holder' = g
    PROVE  IInv'
<1>1. handler'[h] = w
  BY DEF IInv, Shape
<1>2. Guarded(h)'
  BY <1>1 DEF Guarded, Quiet
<1>3. Prepared(w)
  BY DEF Prepared, Quiet
<1> QED
  BY <1>2, <1>3, OneHandlerSteps DEF Quiet

LEMMA EndsAreQuiet ==
    ASSUME NEW h \in Handlers, NEW pc \in {"audit", "load"}
    PROVE  /\ Quiet(IdleHandler)
           /\ Quiet([IdleHandler EXCEPT !.pc = pc, !.row = handler[h].row,
                                        !.proc = handler[h].proc])
<1>1. Quiet(IdleHandler)
  BY DEF Quiet, Work, IdleHandler
<1>2. PICK r, p : r = handler[h].row /\ p = handler[h].proc
  OBVIOUS
<1> DEFINE u == [pc |-> pc, op |-> None, row |-> None, proc |-> None, mine |-> None,
                 want |-> None, snap |-> None]
           v == [pc |-> pc, op |-> None, row |-> r, proc |-> None, mine |-> None,
                 want |-> None, snap |-> None]
           w == [pc |-> pc, op |-> None, row |-> r, proc |-> p, mine |-> None,
                 want |-> None, snap |-> None]
<1>u. [IdleHandler EXCEPT !.pc = pc] = u
  BY DEF IdleHandler
<1>v. [u EXCEPT !.row = r] = v
  OBVIOUS
<1>w. [v EXCEPT !.proc = p] = w
  OBVIOUS
<1>3. [IdleHandler EXCEPT !.pc = pc, !.row = r, !.proc = p] = w
  <2> HIDE DEF u, v, w
  <2> QED
    BY <1>u, <1>v, <1>w
<1>4. Quiet([IdleHandler EXCEPT !.pc = pc, !.row = r, !.proc = p])
  BY <1>3 DEF Quiet, Work
<1> QED
  BY <1>1, <1>2, <1>4

LEMMA SameRows == Tables /\ UNCHANGED row => Tables' /\ NoNewNames
BY DEF Tables, NoNewNames

LEMMA LockNamesKeeps ==
    ASSUME IInv, NEW h \in Handlers, LockNames(h)
    PROVE  IInv'
<1>1. handler[h].pc = "lock" /\ holder = None /\ UNCHANGED row
  BY DEF LockNames
<1>2. Tables' /\ NoNewNames
  BY <1>1, SameRows DEF IInv
<1>3. None \notin Handlers
  BY CatalogAssumption
<1>4. CASE NamesFree(h)
  <2> DEFINE w == [handler[h] EXCEPT !.pc = "commit"]
  <2>1. handler' = [handler EXCEPT ![h] = w] /\ holder' = h
    BY <1>4 DEF LockNames
  <2>2. PICK v : v = handler[h] /\ v = Work(v)
    BY DEF IInv, Shape
  <2>3. Prepared(v) /\ v.pc = "lock"
    BY <1>1, <2>2 DEF IInv
  <2>4. Free(v)
    BY <1>4, <2>2, <2>3, FreeIsNamesFree DEF IInv, Prepared
  <2>5. w = [pc |-> "commit", op |-> v.op, row |-> v.row, proc |-> v.proc, mine |-> v.mine,
             want |-> v.want, snap |-> v.snap]
    BY <2>2 DEF Work
  <2>6. w = Work(w) /\ Prepared(w)
    BY <2>3, <2>5 DEF Work, Prepared, VerifiedAsCopied
  <2>7. handler'[h] = w
    BY <2>1 DEF IInv, Shape
  <2>8. Guarded(h)'
    BY <1>1, <2>1, <2>4, <2>5, <2>7 DEF Guarded, Free
  <2> HIDE DEF w
  <2> QED
    BY <1>1, <1>2, <1>3, <2>1, <2>6, <2>8, OneHandlerSteps
<1>5. CASE ~NamesFree(h)
  <2>1. handler' = [handler EXCEPT ![h] = IdleHandler]
    BY <1>5 DEF LockNames
  <2> QED
    BY <1>1, <1>2, <1>3, <2>1, EndsAreQuiet, QuietSteps
<1> QED
  BY <1>4, <1>5

LEMMA RefuseKeeps ==
    ASSUME IInv, NEW h \in Handlers, Refuse(h)
    PROVE  IInv'
<1>1. Tables' /\ NoNewNames
  BY SameRows DEF Refuse, IInv
<1>2. \A g \in Handlers \ {h} : holder = g => holder' = g
  BY DEF Refuse, Release
<1>3. handler' = [handler EXCEPT ![h] = IdleHandler]
  BY DEF Refuse, Fail
<1> QED
  BY <1>1, <1>2, <1>3, EndsAreQuiet, QuietSteps

\* A commit that claims names: the lock is the handler's own.
LEMMA ClaimCommits ==
    ASSUME IInv, NEW h \in Handlers, NEW r \in Rows, NEW v \in AnyRow \cup {None},
           NEW pc \in {"audit", "load"}, row' = [row EXCEPT ![r] = v], Goto(h, pc), holder = h,
           \A s \in Rows \ {r} : row[s] # None => v.names \cap row[s].names = {}
    PROVE  IInv'
<1> DEFINE w == [IdleHandler EXCEPT !.pc = pc, !.row = handler[h].row,
                                    !.proc = handler[h].proc]
<1>1. handler' = [handler EXCEPT ![h] = w]
  BY DEF Goto
<1>2. Quiet(w)
  BY EndsAreQuiet
<1>3. Tables'
  BY DEF IInv, Tables
<1>4. Clashless(row')
  BY ClaimDisjoint DEF IInv
<1> HIDE DEF w
<1>5. w = Work(w) /\ Prepared(w) /\ w.pc # "commit"
  BY <1>2 DEF Quiet, Prepared
<1> QED
  BY <1>1, <1>3, <1>4, <1>5, HolderClaims

\* One that claims none.
LEMMA PlainCommits ==
    ASSUME IInv, NEW h \in Handlers, NEW r \in Rows, NEW v \in AnyRow \cup {None},
           NEW pc \in {"audit", "load"}, row' = [row EXCEPT ![r] = v], Goto(h, pc),
           v # None => row[r] # None /\ v.names = row[r].names,
           \A g \in Handlers \ {h} : holder = g => holder' = g
    PROVE  IInv'
<1> DEFINE w == [IdleHandler EXCEPT !.pc = pc, !.row = handler[h].row,
                                    !.proc = handler[h].proc]
<1>1. handler' = [handler EXCEPT ![h] = w]
  BY DEF Goto
<1>2. Quiet(w)
  BY EndsAreQuiet
<1>3. Tables' /\ NoNewNames
  BY DEF IInv, Tables, NoNewNames
<1> HIDE DEF w
<1> QED
  BY <1>1, <1>2, <1>3, QuietSteps

LEMMA RegistrationKeeps ==
    ASSUME IInv, NEW h \in Handlers,
           CommitCustomRegistration(h) \/ CommitHostedRegistration(h)
    PROVE  IInv'
<1> DEFINE r == handler[h].row
           want == handler[h].want
<1>1. handler[h].pc = "commit" /\ handler[h].op = "register"
  BY DEF CommitCustomRegistration, CommitHostedRegistration, Committing
<1>2. r \in Rows /\ want \in AnyRow /\ holder = h /\ Free(handler[h])
  BY <1>1 DEF IInv, Prepared, Guarded, BringsNames
<1>3. CASE Refuse(h)
  BY <1>3, RefuseKeeps
<1>4. CASE Insert(h) /\ (r \in Customs => ~NameTaken(h))
  <2>1. \A s \in Rows \ {r} : row[s] # None => want.names \cap row[s].names = {}
    BY <1>2, <1>4 DEF Free, NameTaken, Claimed, Present, Rows
  <2>2. row' = [row EXCEPT ![r] = want] /\ Goto(h, "load")
    BY <1>4 DEF Insert, Reload
  <2> QED
    BY <1>2, <2>1, <2>2, ClaimCommits
<1> QED
  BY <1>3, <1>4, CatalogAssumption
     DEF CommitCustomRegistration, CommitHostedRegistration, Committing

\* The UPDATE writes the names of the copy if it changed them.
LEMMA FlushedNames ==
    ASSUME NEW now \in AnyRow, NEW mine \in AnyRow, NEW want \in AnyRow
    PROVE  /\ Flushed(now, mine, want) \in AnyRow
           /\ Flushed(now, mine, want).names
                = IF want.names # mine.names THEN want.names ELSE now.names
<1>1. Flushed(now, mine, want) =
        [names |-> IF want.names # mine.names THEN want.names ELSE now.names,
         target |-> IF want.target # mine.target THEN want.target ELSE now.target,
         verified |-> IF want.verified # mine.verified THEN want.verified ELSE now.verified,
         chain |-> IF want.chain # mine.chain THEN want.chain ELSE now.chain]
  BY DEF Flushed, AnyRow
<1> QED
  BY <1>1 DEF AnyRow

LEMMA EditKeeps ==
    ASSUME IInv, NEW h \in Handlers, CommitCustomEdit(h) \/ CommitHostedEdit(h)
    PROVE  IInv'
<1>1. PICK w : w = handler[h] /\ Prepared(w) /\ w.pc = "commit" /\ w.op = "edit"
  BY DEF CommitCustomEdit, CommitHostedEdit, Committing, IInv
<1>2. w.row \in Rows /\ w.want \in AnyRow /\ w.mine \in AnyRow
  BY <1>1 DEF Prepared
<1>3. CASE Refuse(h)
  BY <1>3, RefuseKeeps
<1>4. CASE /\ Update(h) /\ ~Gone(h)
           /\ w.want.names # w.mine.names /\ w.row \in Customs => ~NameTaken(h)
  <2>1. PICK now \in AnyRow : now = row[w.row]
    BY <1>1, <1>2, <1>4 DEF Gone, IInv, Tables
  <2>2. PICK v \in AnyRow :
          /\ v = Flushed(now, w.mine, w.want)
          /\ v.names = IF w.want.names # w.mine.names THEN w.want.names ELSE now.names
    BY <1>2, FlushedNames
  <2>3. row' = [row EXCEPT ![w.row] = v] /\ Goto(h, "load")
    BY <1>1, <1>4, <2>1, <2>2 DEF Update, Reload
  <2>4. CASE w.want.names # w.mine.names
    <3>1. holder = h /\ Free(w)
      BY <1>1, <2>4 DEF IInv, Guarded, BringsNames
    <3>2. \A s \in Rows \ {w.row} : row[s] # None => w.want.names \cap row[s].names = {}
      BY <1>1, <1>4, <2>4, <3>1 DEF Free, NameTaken, Claimed, Present, Rows
    <3>3. row' = [row EXCEPT ![w.row] = v] /\ v.names = w.want.names
      BY <2>2, <2>3, <2>4
    <3>4. \A s \in Rows \ {w.row} : row[s] # None => v.names \cap row[s].names = {}
      BY <3>2, <3>3
    <3>5. Goto(h, "load")
      BY <2>3
    <3> QED
      BY <1>2, <3>1, <3>3, <3>4, <3>5, ClaimCommits
  <2>5. CASE w.want.names = w.mine.names
    <3>1. row[w.row] # None /\ v.names = row[w.row].names
      BY <1>1, <1>4, <2>1, <2>2, <2>5 DEF Gone
    <3>2. \A g \in Handlers \ {h} : holder = g => holder' = g
      BY <1>4 DEF Update, Release
    <3> QED
      BY <1>2, <2>2, <2>3, <3>1, <3>2, PlainCommits
  <2> QED
    BY <2>4, <2>5
<1> QED
  BY <1>1, <1>3, <1>4, CatalogAssumption DEF CommitCustomEdit, CommitHostedEdit, Committing

LEMMA TestKeeps ==
    ASSUME IInv, NEW h \in Handlers,
           CustomTestEnds(h) \/ HostedTestEnds(h) \/ TestOfRemoved(h)
    PROVE  IInv'
<1>1. PICK w : w = handler[h] /\ Prepared(w) /\ w.pc = "probe"
  BY DEF CustomTestEnds, HostedTestEnds, TestOfRemoved, IInv
<1>2. w.row \in Rows /\ w.mine \in AnyRow
  BY <1>1 DEF Prepared
<1>3. CASE TestOfRemoved(h)
  <2>1. Tables' /\ NoNewNames /\ holder' = holder
    BY <1>3, SameRows DEF TestOfRemoved, IInv, tables
  <2>2. \/ handler' = [handler EXCEPT ![h] = IdleHandler]
        \/ handler' = [handler EXCEPT ![h] = [IdleHandler EXCEPT !.pc = "audit",
                          !.row = handler[h].row, !.proc = handler[h].proc]]
    BY <1>3 DEF TestOfRemoved, Fail, Goto
  <2> QED
    BY <2>1, <2>2, EndsAreQuiet, QuietSteps
<1>4. ASSUME NEW answered \in BOOLEAN, Verdict(h, answered), row[w.row] # None
      PROVE  IInv'
  <2>1. PICK now \in AnyRow : now = row[w.row]
    BY <1>2, <1>4 DEF IInv, Tables
  <2>2. PICK u : u = [w.mine EXCEPT !.verified = answered]
    OBVIOUS
  <2>3. u \in AnyRow /\ u.names = w.mine.names
    BY <1>2, <2>2 DEF AnyRow
  <2>4. PICK v \in AnyRow : v = Flushed(now, w.mine, u) /\ v.names = now.names
    BY <1>2, <2>3, FlushedNames
  <2>5. row' = [row EXCEPT ![w.row] = v] /\ Goto(h, "audit") /\ holder' = holder
    BY <1>1, <1>4, <2>1, <2>2, <2>4 DEF Verdict
  <2> QED
    BY <1>2, <1>4, <2>1, <2>4, <2>5, PlainCommits
<1> QED
  BY <1>1, <1>3, <1>4 DEF CustomTestEnds, HostedTestEnds, Present

LEMMA ProceedKeeps ==
    ASSUME IInv, NEW h \in Handlers, Proceed(h)
    PROVE  IInv'
<1>1. CASE CommitRemoval(h)
  <2>1. PICK w : w = handler[h] /\ w.row \in Rows
    BY <1>1 DEF CommitRemoval, IInv, Prepared
  <2>2. row' = [row EXCEPT ![w.row] = None] /\ Goto(h, "load") /\ holder' = holder
    BY <1>1, <2>1 DEF CommitRemoval, Reload
  <2>3. PICK v \in AnyRow \cup {None} : v = None
    OBVIOUS
  <2> QED
    BY <2>1, <2>2, <2>3, PlainCommits
<1>2. CASE LoadSnapshot(h)
  <2> DEFINE w == [handler[h] EXCEPT !.pc = "publish",
                                     !.snap = Snapshot(Kind(handler[h].row))]
  <2> PICK snap : snap = Snapshot(Kind(handler[h].row))
    OBVIOUS
  <2>1. handler' = [handler EXCEPT ![h] = w]
    BY <1>2 DEF LoadSnapshot, IInv, Shape
  <2>2. PICK v : v = handler[h] /\ v = Work(v)
    BY DEF IInv, Shape
  <2>p. PICK u : u = [v EXCEPT !.pc = "publish"]
    OBVIOUS
  <2>u. u = [pc |-> "publish", op |-> v.op, row |-> v.row, proc |-> v.proc,
             mine |-> v.mine, want |-> v.want, snap |-> v.snap]
    BY <2>2, <2>p DEF Work
  <2>v. [u EXCEPT !.snap = snap] = [pc |-> "publish", op |-> v.op, row |-> v.row,
            proc |-> v.proc, mine |-> v.mine, want |-> v.want, snap |-> snap]
    BY <2>u
  <2>3. w = [pc |-> "publish", op |-> v.op, row |-> v.row, proc |-> v.proc,
             mine |-> v.mine, want |-> v.want, snap |-> snap]
    BY <2>2, <2>p, <2>v
  <2>4. Quiet(w)
    BY <2>3 DEF Quiet, Work
  <2>5. Tables' /\ NoNewNames /\ holder' = holder
    BY <1>2, SameRows DEF LoadSnapshot, IInv, tables
  <2> HIDE DEF w
  <2> QED
    BY <2>1, <2>4, <2>5, QuietSteps
<1>3. CASE SetAll(h)
  <2>1. handler' = [handler EXCEPT ![h] = IdleHandler]
    BY <1>3 DEF SetAll, Fail
  <2>2. Tables' /\ NoNewNames /\ holder' = holder
    BY <1>3, SameRows DEF SetAll, IInv, tables
  <2> QED
    BY <2>1, <2>2, EndsAreQuiet, QuietSteps
<1>4. CASE AuditTest(h)
  <2>1. handler' = [handler EXCEPT ![h] = [IdleHandler EXCEPT !.pc = "load",
                       !.row = handler[h].row, !.proc = handler[h].proc]]
    BY <1>4 DEF AuditTest, Reload, Goto
  <2>2. Tables' /\ NoNewNames /\ holder' = holder
    BY <1>4, SameRows DEF AuditTest, IInv, tables
  <2> QED
    BY <2>1, <2>2, EndsAreQuiet, QuietSteps
<1>5. CASE RequestBreaks(h)
  <2>1. handler' = [handler EXCEPT ![h] = IdleHandler]
    BY <1>5 DEF RequestBreaks, Fail
  <2>2. Tables' /\ NoNewNames
    BY <1>5, SameRows DEF RequestBreaks, IInv
  <2>3. \A g \in Handlers \ {h} : holder = g => holder' = g
    BY <1>5 DEF RequestBreaks, Release
  <2> QED
    BY <2>1, <2>2, <2>3, EndsAreQuiet, QuietSteps
<1> QED
  BY <1>1, <1>2, <1>3, <1>4, <1>5, LockNamesKeeps, RegistrationKeeps, EditKeeps, TestKeeps DEF Proceed

LEMMA SameKeeps == IInv /\ UNCHANGED <<row, holder, handler>> => IInv'
BY DEF IInv, Tables, Shape, Guarded, Free

LEMMA RestartKeeps ==
    ASSUME IInv, NEW p, Restart(p)
    PROVE  IInv'
<1>1. handler' = [h \in Handlers |-> IF handler[h].proc = p THEN IdleHandler ELSE handler[h]]
  BY DEF Restart
<1>2. Quiet(IdleHandler)
  BY EndsAreQuiet, <1>1 DEF Quiet, Work, IdleHandler
<1>3. Tables' /\ NoNewNames /\ UNCHANGED row
  BY SameRows DEF Restart, IInv
<1>4. Shape'
  <2>1. \A h \in Handlers : handler'[h] = Work(handler'[h])
    BY <1>1, <1>2 DEF IInv, Shape, Quiet
  <2> QED
    BY <1>1, <2>1 DEF Shape
<1>5. ASSUME NEW h \in Handlers PROVE Prepared(handler[h])' /\ Guarded(h)'
  <2>1. CASE handler[h].proc = p
    <3>1. handler'[h] = IdleHandler
      BY <1>1, <2>1
    <3> QED
      BY <3>1 DEF Prepared, Guarded, IdleHandler
  <2>2. CASE handler[h].proc # p
    <3>1. handler'[h] = handler[h]
      BY <1>1, <2>2
    <3>2. holder = h => holder' = h
      BY <2>2 DEF Restart
    <3> QED
      BY <1>3, <3>1, <3>2 DEF IInv, Prepared, Guarded, Free
  <2> QED
    BY <2>1, <2>2
<1> QED
  BY <1>3, <1>4, <1>5 DEF IInv

LEMMA NextKeeps == IInv /\ [Next]_vars => IInv'
<1> SUFFICES ASSUME IInv, [Next]_vars PROVE IInv'
  OBVIOUS
<1>1. ASSUME NEW c \in Calls, (\E p \in Procs : ReceiveCall(c, p)) \/ CallProceeds(c)
      PROVE  UNCHANGED <<row, holder, handler>>
  BY <1>1 DEF ReceiveCall, CallProceeds, Dispatch, TryCandidate, CandidateAnswers, tables
<1>2. ASSUME NEW p \in Procs, CooldownEnds(p) PROVE UNCHANGED <<row, holder, handler>>
  BY <1>2 DEF CooldownEnds
<1>3. CASE UNCHANGED vars
  BY <1>3, SameKeeps DEF vars
<1> QED
  BY <1>1, <1>2, <1>3, SameKeeps, RequestKeeps, ProceedKeeps, RestartKeeps DEF Next

\* A step of the detector is a step of the catalog, or leaves its rows and
\* handlers alone.
LEMMA CanaryNextKeeps == IInv /\ [CanaryNext]_allVars => IInv'
<1> SUFFICES ASSUME IInv, [CanaryNext]_allVars PROVE IInv'
  OBVIOUS
<1>1. Console \subseteq Procs
  BY CanaryAssumption
<1>2. CASE CatalogStep
  BY <1>1, <1>2, NextKeeps DEF CatalogStep, Next
<1>3. ASSUME NEW p \in Procs, SweepStep(p) \/ DayPasses(p)
      PROVE  UNCHANGED <<row, holder, handler>>
  BY <1>3 DEF SweepStep, StartSweep, PickModel, NoCredential, RunCanaries, CommitModel,
              SweepFails, DayPasses, tables, vars
<1>4. CASE \E p \in Console : RestartAll(p)
  BY <1>4, RestartKeeps DEF RestartAll
<1>5. ASSUME NEW n \in Models, SetCanaryModelSetting(n) \/ ExportDriftAlert(n)
      PROVE  UNCHANGED <<row, holder, handler>>
  BY <1>5 DEF SetCanaryModelSetting, ExportDriftAlert, tables
<1>6. CASE UNCHANGED allVars
  BY <1>6, SameKeeps DEF allVars, vars
<1> QED
  BY <1>2, <1>3, <1>4, <1>5, <1>6, SameKeeps DEF CanaryNext

LEMMA Disjoint == IInv => NamesDisjoint
BY CatalogAssumption DEF IInv, Tables, AnyRow, NamesDisjoint, Present

\* Two rows never claim one name, nor one of the registry's: the guard's lock
\* keeps the other writers of names out from its check to its commit, and the
\* unique constraint the custom models from each other (services/custom_models.py,
\* services/self_hosted_providers.py).
THEOREM NamesStayDisjoint == Spec => []NamesDisjoint
<1>1. Init => IInv
  BY InitHolds
<1>2. IInv /\ [Next]_vars => IInv'
  BY NextKeeps
<1>3. IInv => NamesDisjoint
  BY Disjoint
<1> QED
  BY <1>1, <1>2, <1>3, PTL DEF Spec

\* The same beside the drift detector, which is what the run checks.
THEOREM NamesStayDisjointBesideSweeps == CanarySpec => []NamesDisjoint
<1>1. CanaryInit => IInv
  BY InitHolds DEF CanaryInit
<1>2. IInv /\ [CanaryNext]_allVars => IInv'
  BY CanaryNextKeeps
<1>3. IInv => NamesDisjoint
  BY Disjoint
<1> QED
  BY <1>1, <1>2, <1>3, PTL DEF CanarySpec

-----------------------------------------------------------------------------
(* A verified row was tested.                                              *)

\* One row changes, and if it is verified now it was tested or crossed.
LEMMA OneRowTested ==
    ASSUME Tables, VerifiedWasTested, NEW r \in Rows, NEW v,
           row' = [row EXCEPT ![r] = v],
           tested \ {r} \subseteq tested', crossed \ {r} \subseteq crossed',
           v # None /\ v.verified => r \in tested' \cup crossed'
    PROVE  VerifiedWasTested'
<1>1. row'[r] = v /\ \A s \in Rows \ {r} : row'[s] = row[s]
  BY DEF Tables
<1> SUFFICES ASSUME NEW s \in Rows, row'[s] # None, row'[s].verified
             PROVE  s \in tested' \cup crossed'
  BY DEF VerifiedWasTested, VerifiedRows, Present
<1>2. CASE s = r
  BY <1>1, <1>2
<1>3. CASE s # r
  <2>1. s \in tested \cup crossed
    BY <1>1, <1>3 DEF VerifiedWasTested, VerifiedRows, Present
  <2> QED
    BY <1>3, <2>1
<1> QED
  BY <1>2, <1>3

LEMMA SameTested ==
    VerifiedWasTested /\ UNCHANGED <<row, tested, crossed>> => VerifiedWasTested'
BY DEF VerifiedWasTested, VerifiedRows, Present

LEMMA FlushedColumns ==
    ASSUME NEW now \in AnyRow, NEW mine \in AnyRow, NEW want \in AnyRow
    PROVE  LET v == Flushed(now, mine, want)
           IN  /\ v.target = IF want.target # mine.target THEN want.target ELSE now.target
               /\ v.verified =
                    IF want.verified # mine.verified THEN want.verified ELSE now.verified
<1>1. Flushed(now, mine, want) =
        [names |-> IF want.names # mine.names THEN want.names ELSE now.names,
         target |-> IF want.target # mine.target THEN want.target ELSE now.target,
         verified |-> IF want.verified # mine.verified THEN want.verified ELSE now.verified,
         chain |-> IF want.chain # mine.chain THEN want.chain ELSE now.chain]
  BY DEF Flushed, AnyRow
<1> QED
  BY <1>1

\* The UPDATE of an edit: verified is left, or goes, unless the copy was outdated.
LEMMA EditTested ==
    ASSUME IInv, VerifiedWasTested, NEW h \in Handlers, CommitCustomEdit(h) \/ CommitHostedEdit(h)
    PROVE  VerifiedWasTested'
<1>1. PICK w : w = handler[h] /\ Prepared(w) /\ w.pc = "commit" /\ w.op = "edit"
  BY DEF CommitCustomEdit, CommitHostedEdit, Committing, IInv
<1>2. w.row \in Rows /\ w.want \in AnyRow /\ w.mine \in AnyRow /\ VerifiedAsCopied(w)
  BY <1>1 DEF Prepared
<1>3. CASE Refuse(h)
  BY <1>3, SameTested DEF Refuse, history
<1>4. CASE Update(h) /\ ~Gone(h)
  <2>1. PICK now \in AnyRow : now = row[w.row] /\ row[w.row] # None
    BY <1>1, <1>2, <1>4 DEF Gone, IInv, Tables
  <2>2. PICK v : v = Flushed(now, w.mine, w.want)
    OBVIOUS
  <2>3. /\ v.target = IF w.want.target # w.mine.target THEN w.want.target ELSE now.target
        /\ v.verified = IF w.want.verified # w.mine.verified THEN w.want.verified ELSE now.verified
        /\ now.verified \in BOOLEAN /\ w.mine.verified \in BOOLEAN /\ w.want.verified \in BOOLEAN
    BY <1>2, <2>1, <2>2, FlushedColumns DEF AnyRow
  <2>4. row' = [row EXCEPT ![w.row] = v] /\ row'[w.row] = v
    BY <1>1, <1>2, <1>4, <2>1, <2>2 DEF Update, IInv, Tables
  <2>5. /\ tested' = IF v.target # now.target THEN tested \ {w.row} ELSE tested
        /\ crossed' = IF w.want.target = w.mine.target THEN crossed
                      ELSE IF Outdated(h) THEN crossed \cup {w.row} ELSE crossed \ {w.row}
    BY <1>1, <1>4, <2>1, <2>4 DEF Update
  <2>6. now.verified => w.row \in tested \cup crossed
    BY <1>2, <2>1 DEF VerifiedWasTested, VerifiedRows, Present
  <2>7. ASSUME v.verified PROVE w.row \in tested' \cup crossed'
    <3>1. CASE w.want.target = w.mine.target
      <4>1. v.target = now.target
        BY <2>3, <3>1
      <4>2. now.verified
        BY <1>2, <2>3, <2>7 DEF VerifiedAsCopied
      <4> QED
        BY <2>5, <2>6, <3>1, <4>1, <4>2
    <3>2. CASE w.want.target # w.mine.target
      <4>1. ~w.want.verified
        BY <1>2, <3>2 DEF VerifiedAsCopied
      <4>2. now.verified # w.mine.verified
        BY <2>3, <2>7, <4>1
      <4>3. Outdated(h)
        BY <1>1, <2>1, <4>2 DEF Outdated
      <4> QED
        BY <2>5, <3>2, <4>3
    <3> QED
      BY <3>1, <3>2
  <2>8. tested \ {w.row} \subseteq tested' /\ crossed \ {w.row} \subseteq crossed'
    BY <2>5
  <2> QED
    BY <1>2, <2>4, <2>7, <2>8, OneRowTested DEF IInv
<1> QED
  BY <1>1, <1>3, <1>4 DEF CommitCustomEdit, CommitHostedEdit

\* The test ends on the target it called, unless the copy was outdated.
LEMMA VerdictTested ==
    ASSUME IInv, VerifiedWasTested, NEW h \in Handlers, CustomTestEnds(h) \/ HostedTestEnds(h)
    PROVE  VerifiedWasTested'
<1>1. PICK w : w = handler[h] /\ Prepared(w) /\ w.pc = "probe"
  BY DEF CustomTestEnds, HostedTestEnds, IInv
<1>2. w.row \in Rows /\ w.mine \in AnyRow
  BY <1>1 DEF Prepared
<1>3. PICK answered \in BOOLEAN : Verdict(h, answered)
  BY DEF CustomTestEnds, HostedTestEnds
<1>4. PICK now \in AnyRow : now = row[w.row]
  BY <1>1, <1>2 DEF CustomTestEnds, HostedTestEnds, Present, IInv, Tables
<1>5. PICK u : u = [w.mine EXCEPT !.verified = answered]
  OBVIOUS
<1>6. u \in AnyRow /\ u.verified = answered /\ u.target = w.mine.target
  BY <1>2, <1>5 DEF AnyRow
<1>7. PICK v : v = Flushed(now, w.mine, u)
  OBVIOUS
<1>8. /\ v.verified = IF answered # w.mine.verified THEN answered ELSE now.verified
      /\ now.verified \in BOOLEAN /\ w.mine.verified \in BOOLEAN
  BY <1>2, <1>6, <1>7, FlushedColumns DEF AnyRow
<1>9. /\ row' = [row EXCEPT ![w.row] = v]
      /\ tested' = IF answered /\ w.mine.target = now.target THEN tested \cup {w.row}
                   ELSE tested \ {w.row}
      /\ crossed' = IF Outdated(h) THEN crossed \cup {w.row} ELSE crossed \ {w.row}
  BY <1>1, <1>3, <1>4, <1>5, <1>7 DEF Verdict
<1>10. ASSUME v.verified, ~Outdated(h)
       PROVE  answered /\ w.mine.target = now.target
  BY <1>1, <1>4, <1>8, <1>10 DEF Outdated
<1>11. v.verified => w.row \in tested' \cup crossed'
  BY <1>9, <1>10
<1>12. tested \ {w.row} \subseteq tested' /\ crossed \ {w.row} \subseteq crossed'
  BY <1>9
<1> QED
  BY <1>2, <1>9, <1>11, <1>12, OneRowTested DEF IInv

LEMMA ProceedTested ==
    ASSUME IInv, VerifiedWasTested, NEW h \in Handlers, Proceed(h)
    PROVE  VerifiedWasTested'
<1>1. CASE CommitCustomRegistration(h) \/ CommitHostedRegistration(h)
  <2>1. CASE Refuse(h)
    BY <2>1, SameTested DEF Refuse, history
  <2>2. CASE Insert(h)
    <3>1. PICK w : w = handler[h] /\ Prepared(w) /\ w.pc = "commit" /\ w.op = "register"
      BY <1>1 DEF CommitCustomRegistration, CommitHostedRegistration, Committing, IInv
    <3>2. w.row \in Rows /\ ~w.want.verified
      BY <3>1 DEF Prepared
    <3>3. /\ row' = [row EXCEPT ![w.row] = w.want]
          /\ tested' = tested \ {w.row} /\ crossed' = crossed \ {w.row}
      BY <2>2, <3>1 DEF Insert
    <3> QED
      BY <3>2, <3>3, OneRowTested DEF IInv
  <2> QED
    BY <1>1, <2>1, <2>2 DEF CommitCustomRegistration, CommitHostedRegistration
<1>2. CASE CommitRemoval(h)
  <2>1. PICK w : w = handler[h] /\ w.row \in Rows
    BY <1>2 DEF CommitRemoval, IInv, Prepared
  <2>2. row' = [row EXCEPT ![w.row] = None] /\ UNCHANGED <<tested, crossed>>
    BY <1>2, <2>1 DEF CommitRemoval
  <2>3. PICK v : v = None
    OBVIOUS
  <2> QED
    BY <2>1, <2>2, <2>3, OneRowTested DEF IInv
<1>3. CASE \/ LockNames(h) \/ TestOfRemoved(h) \/ LoadSnapshot(h) \/ SetAll(h)
         \/ AuditTest(h) \/ RequestBreaks(h)
  BY <1>3, SameTested DEF LockNames, TestOfRemoved, LoadSnapshot, SetAll, AuditTest,
     RequestBreaks, history, tables
<1> QED
  BY <1>1, <1>2, <1>3, EditTested, VerdictTested DEF Proceed

LEMMA TestedKept == IInv /\ VerifiedWasTested /\ [Next]_vars => VerifiedWasTested'
<1> SUFFICES ASSUME IInv, VerifiedWasTested, [Next]_vars PROVE VerifiedWasTested'
  OBVIOUS
<1>1. ASSUME NEW h \in Handlers, NEW p \in Procs, Request(h, p)
      PROVE  UNCHANGED <<row, tested, crossed>>
  BY <1>1 DEF Request, RegisterCustomModel, RegisterSelfHosted, EditCustomModel, EditSelfHosted,
     RemoveCustomModel, RemoveSelfHosted, VerifyCustomModel, ReverifySelfHosted, Enter, history
<1>2. ASSUME NEW c \in Calls, (\E p \in Procs : ReceiveCall(c, p)) \/ CallProceeds(c)
      PROVE  UNCHANGED <<row, tested, crossed>>
  BY <1>2 DEF ReceiveCall, CallProceeds, Dispatch, TryCandidate, CandidateAnswers, tables, history
<1>3. ASSUME NEW p \in Procs, CooldownEnds(p) \/ Restart(p)
      PROVE  UNCHANGED <<row, tested, crossed>>
  BY <1>3 DEF CooldownEnds, Restart, history
<1>4. CASE UNCHANGED vars
  BY <1>4, SameTested DEF vars
<1> QED
  BY <1>1, <1>2, <1>3, <1>4, SameTested, ProceedTested DEF Next

-----------------------------------------------------------------------------
(* The route caches.                                                       *)

\* Between a commit and the cache: its handler has still to audit, load or publish.
Behind(w, p) == w.proc = p /\ w.pc \in {"audit", "load", "publish"}

CustomFollows(p) ==
    \/ cache[p].custom = CustomSnapshot
    \/ \E h \in Handlers : Behind(handler[h], p) /\ handler[h].row \in Customs
HostedFollows(p) ==
    \/ cache[p].hosted = HostedSnapshot
    \/ \E h \in Handlers : Behind(handler[h], p) /\ handler[h].row \notin Customs

CacheShape ==
    cache = [p \in Procs |-> [custom |-> cache[p].custom, hosted |-> cache[p].hosted]]

\* A process that no write of another has passed by is right, or will be.
Followed ==
    /\ CacheShape
    /\ \A p \in Procs \ untold : CustomFollows(p) /\ HostedFollows(p)

\* A handler's step that moves no row and no cache keeps who is behind, but for
\* the processes it gives up.
LEMMA HandlerFollows ==
    ASSUME IInv, Followed, NEW h \in Handlers, NEW w,
           handler' = [handler EXCEPT ![h] = w],
           UNCHANGED <<row, cache>>, untold \subseteq untold',
           \A p \in Procs \ untold' :
               Behind(handler[h], p) => Behind(w, p) /\ w.row = handler[h].row
    PROVE  Followed'
<1>1. handler'[h] = w /\ \A g \in Handlers \ {h} : handler'[g] = handler[g]
  BY DEF IInv, Shape
<1>2. UNCHANGED <<CustomSnapshot, HostedSnapshot>>
  BY DEF CustomSnapshot, HostedSnapshot, Owner, VerifiedRows, Present
<1>3. ASSUME NEW p \in Procs \ untold', CustomFollows(p) PROVE CustomFollows(p)'
  <2>1. CASE \E g \in Handlers : Behind(handler[g], p) /\ handler[g].row \in Customs
    <3>1. PICK g \in Handlers : Behind(handler[g], p) /\ handler[g].row \in Customs
      BY <2>1
    <3>2. Behind(handler'[g], p) /\ handler'[g].row \in Customs
      BY <1>1, <3>1
    <3> QED
      BY <3>2 DEF CustomFollows, Behind
  <2> QED
    BY <1>2, <1>3, <2>1 DEF CustomFollows
<1>4. ASSUME NEW p \in Procs \ untold', HostedFollows(p) PROVE HostedFollows(p)'
  <2>1. CASE \E g \in Handlers : Behind(handler[g], p) /\ handler[g].row \notin Customs
    <3>1. PICK g \in Handlers : Behind(handler[g], p) /\ handler[g].row \notin Customs
      BY <2>1
    <3>2. Behind(handler'[g], p) /\ handler'[g].row \notin Customs
      BY <1>1, <3>1
    <3> QED
      BY <3>2 DEF HostedFollows, Behind
  <2> QED
    BY <1>2, <1>4, <2>1 DEF HostedFollows
<1>5. CacheShape'
  BY DEF Followed, CacheShape
<1>6. \A p \in Procs \ untold' : CustomFollows(p) /\ HostedFollows(p)
  BY DEF Followed
<1> QED
  BY <1>3, <1>4, <1>5, <1>6 DEF Followed

\* What a table's snapshot depends on.
LEMMA SnapshotsFrame ==
    /\ (\A r \in Customs : row'[r] = row[r]) => CustomSnapshot' = CustomSnapshot
    /\ (\A r \in Hosted : row'[r] = row[r]) => HostedSnapshot' = HostedSnapshot
<1>1. ASSUME \A r \in Customs : row'[r] = row[r] PROVE CustomSnapshot' = CustomSnapshot
  <2>1. VerifiedRows(Customs)' = VerifiedRows(Customs)
    BY <1>1 DEF VerifiedRows, Present
  <2>2. \A r \in VerifiedRows(Customs) : row'[r] = row[r]
    BY <1>1 DEF VerifiedRows, Present
  <2>3. \A n : Owner(Customs, n)' = Owner(Customs, n)
    BY <2>1, <2>2 DEF Owner
  <2>4. (UNION {row[r].names : r \in VerifiedRows(Customs)})'
          = UNION {row[r].names : r \in VerifiedRows(Customs)}
    BY <2>1, <2>2
  <2>5. ASSUME NEW n \in UNION {row[r].names : r \in VerifiedRows(Customs)}
        PROVE  /\ (CHOOSE r \in Owner(Customs, n)' : TRUE) = (CHOOSE r \in Owner(Customs, n) : TRUE)
               /\ row'[CHOOSE r \in Owner(Customs, n) : TRUE]
                    = row[CHOOSE r \in Owner(Customs, n) : TRUE]
    <3>1. \E r \in Owner(Customs, n) : TRUE
      BY DEF Owner
    <3>2. (CHOOSE r \in Owner(Customs, n) : TRUE) \in VerifiedRows(Customs)
      BY <3>1 DEF Owner
    <3> QED
      BY <2>2, <2>3, <3>2
  <2> QED
    BY <2>1, <2>2, <2>3, <2>4, <2>5 DEF CustomSnapshot
<1>2. ASSUME \A r \in Hosted : row'[r] = row[r] PROVE HostedSnapshot' = HostedSnapshot
  <2>1. VerifiedRows(Hosted)' = VerifiedRows(Hosted)
    BY <1>2 DEF VerifiedRows, Present
  <2>2. \A r \in VerifiedRows(Hosted) : row'[r] = row[r]
    BY <1>2 DEF VerifiedRows, Present
  <2>3. \A n : Owner(Hosted, n)' = Owner(Hosted, n)
    BY <2>1, <2>2 DEF Owner
  <2>4. (UNION {row[r].names : r \in VerifiedRows(Hosted)})'
          = UNION {row[r].names : r \in VerifiedRows(Hosted)}
    BY <2>1, <2>2
  <2>5. \A n : (CHOOSE r \in Owner(Hosted, n)' : TRUE) = (CHOOSE r \in Owner(Hosted, n) : TRUE)
    BY <2>3
  <2> QED
    BY <2>4, <2>5 DEF HostedSnapshot
<1> QED
  BY <1>1, <1>2

LEMMA HostedSnapshotIs == Snapshot(Hosted) = HostedSnapshot /\ Snapshot(Customs) = CustomSnapshot
<1>1. CASE Hosted = Customs
  <2>1. Customs = {} /\ Hosted = {}
    BY <1>1, CatalogAssumption
  <2>2. VerifiedRows(Customs) = {} /\ VerifiedRows(Hosted) = {}
    BY <2>1 DEF VerifiedRows, Present
  <2>3. CustomSnapshot = HostedSnapshot
    BY <2>2 DEF CustomSnapshot, HostedSnapshot
  <2> QED
    BY <1>1, <2>3 DEF Snapshot
<1>2. CASE Hosted # Customs
  BY <1>2 DEF Snapshot
<1> QED
  BY <1>1, <1>2

LEMMA GotoFields ==
    ASSUME IInv, NEW h \in Handlers, NEW pc, Goto(h, pc)
    PROVE  /\ handler'[h].pc = pc /\ handler'[h].row = handler[h].row
           /\ handler'[h].proc = handler[h].proc
           /\ \A g \in Handlers \ {h} : handler'[g] = handler[g]
<1>1. PICK r, p : r = handler[h].row /\ p = handler[h].proc
  OBVIOUS
<1> DEFINE w == [IdleHandler EXCEPT !.pc = pc, !.row = r, !.proc = p]
<1>2. w.pc = pc /\ w.row = r /\ w.proc = p
  BY DEF IdleHandler
<1>3. handler' = [handler EXCEPT ![h] = w]
  BY <1>1 DEF Goto
<1> HIDE DEF w
<1> QED
  BY <1>1, <1>2, <1>3 DEF IInv, Shape

\* A commit: its own process has its handler to come, the others are told nothing.
LEMMA CommitFollows ==
    ASSUME IInv, Followed, NEW h \in Handlers, NEW v,
           row' = [row EXCEPT ![handler[h].row] = v],
           NEW pc \in {"audit", "load"}, Goto(h, pc), Tell(h), UNCHANGED cache,
           \A p : ~Behind(handler[h], p)
    PROVE  Followed'
<1> DEFINE r == handler[h].row
<1>1. \A s \in Rows : s # r => row'[s] = row[s]
  BY DEF IInv, Tables
<1>2. /\ r \in Customs \/ CustomSnapshot' = CustomSnapshot
      /\ r \notin Customs \/ HostedSnapshot' = HostedSnapshot
  <2>1. Customs \subseteq Rows /\ Hosted \subseteq Rows /\ Customs \cap Hosted = {}
    BY CatalogAssumption DEF Rows
  <2>2. r \notin Customs => CustomSnapshot' = CustomSnapshot
    BY <1>1, <2>1, SnapshotsFrame
  <2>3. r \in Customs => HostedSnapshot' = HostedSnapshot
    BY <1>1, <2>1, SnapshotsFrame
  <2> QED
    BY <2>2, <2>3
<1>3. /\ handler'[h].pc = pc /\ handler'[h].row = r /\ handler'[h].proc = handler[h].proc
      /\ \A g \in Handlers \ {h} : handler'[g] = handler[g]
  BY GotoFields
<1>4. ASSUME NEW p \in Procs \ untold' PROVE CustomFollows(p)' /\ HostedFollows(p)'
  <2>1. p = handler[h].proc /\ CustomFollows(p) /\ HostedFollows(p)
    BY <1>4 DEF Tell, Followed
  <2>2. Behind(handler'[h], p)
    BY <1>3, <2>1 DEF Behind
  <2>3. CustomFollows(p)'
    <3>1. CASE r \in Customs
      BY <1>3, <2>2, <3>1 DEF CustomFollows, Behind
    <3>2. CASE r \notin Customs /\ cache[p].custom = CustomSnapshot
      BY <1>2, <3>2 DEF CustomFollows
    <3>3. CASE \E g \in Handlers : Behind(handler[g], p) /\ handler[g].row \in Customs
      <4>1. PICK g \in Handlers : Behind(handler[g], p) /\ handler[g].row \in Customs
        BY <3>3
      <4>2. Behind(handler'[g], p) /\ handler'[g].row \in Customs
        BY <1>3, <4>1
      <4> QED
        BY <4>2 DEF CustomFollows, Behind
    <3> QED
      BY <2>1, <3>1, <3>2, <3>3 DEF CustomFollows
  <2>4. HostedFollows(p)'
    <3>1. CASE r \notin Customs
      BY <1>3, <2>2, <3>1 DEF HostedFollows, Behind
    <3>2. CASE r \in Customs /\ cache[p].hosted = HostedSnapshot
      BY <1>2, <3>2 DEF HostedFollows
    <3>3. CASE \E g \in Handlers : Behind(handler[g], p) /\ handler[g].row \notin Customs
      <4>1. PICK g \in Handlers : Behind(handler[g], p) /\ handler[g].row \notin Customs
        BY <3>3
      <4>2. Behind(handler'[g], p) /\ handler'[g].row \notin Customs
        BY <1>3, <4>1
      <4> QED
        BY <4>2 DEF HostedFollows, Behind
    <3> QED
      BY <2>1, <3>1, <3>2, <3>3 DEF HostedFollows
  <2> QED
    BY <2>3, <2>4
<1>5. CacheShape'
  BY DEF Followed, CacheShape
<1> QED
  BY <1>4, <1>5 DEF Followed

LEMMA SameFollows == Followed /\ UNCHANGED <<row, handler, cache, untold>> => Followed'
<1> SUFFICES ASSUME Followed, UNCHANGED <<row, handler, cache, untold>> PROVE Followed'
  OBVIOUS
<1>1. UNCHANGED <<CustomSnapshot, HostedSnapshot>>
  BY DEF CustomSnapshot, HostedSnapshot, Owner, VerifiedRows, Present
<1>2. \A p : (CustomFollows(p) => CustomFollows(p)') /\ (HostedFollows(p) => HostedFollows(p)')
  BY <1>1 DEF CustomFollows, HostedFollows, Behind
<1> QED
  BY <1>2 DEF Followed, CacheShape

LEMMA ReplacedCache ==
    ASSUME CacheShape, NEW p, NEW c, NEW d,
           cache' = [cache EXCEPT ![p] = [custom |-> c, hosted |-> d]]
    PROVE  /\ CacheShape'
           /\ \A q \in Procs \ {p} : cache'[q] = cache[q]
           /\ p \in Procs => cache'[p].custom = c /\ cache'[p].hosted = d
<1>1. DOMAIN cache = Procs
  BY DEF CacheShape
<1>2. /\ \A q \in Procs \ {p} : cache'[q] = cache[q]
      /\ p \in Procs => cache'[p] = [custom |-> c, hosted |-> d]
  BY <1>1
<1>3. \A q \in Procs : cache[q] = [custom |-> cache[q].custom, hosted |-> cache[q].hosted]
  BY DEF CacheShape
<1>4. \A q \in Procs : cache'[q] = [custom |-> cache'[q].custom, hosted |-> cache'[q].hosted]
  BY <1>2, <1>3
<1>5. cache' = [q \in Procs |-> cache'[q]]
  BY <1>1
<1> QED
  BY <1>2, <1>4, <1>5 DEF CacheShape

\* The publisher's table is as it published it, or its process is untold; the
\* other table is right, or another handler is behind.
LEMMA SetAllFollows ==
    ASSUME IInv, Followed, NEW h \in Handlers, SetAll(h)
    PROVE  Followed'
<1>1. PICK p, s, r : p = handler[h].proc /\ s = handler[h].snap /\ r = handler[h].row
  OBVIOUS
<1> DEFINE c == IF r \in Customs THEN s ELSE cache[p].custom
           d == IF r \in Customs THEN cache[p].hosted ELSE s
           new == [custom |-> c, hosted |-> d]
<1>2. p \in Procs => cache[p] = [custom |-> cache[p].custom, hosted |-> cache[p].hosted]
  BY DEF Followed, CacheShape
<1>3. p \in Procs => new = (IF r \in Customs THEN [cache[p] EXCEPT !.custom = s]
                            ELSE [cache[p] EXCEPT !.hosted = s])
  BY <1>2
<1>4. DOMAIN cache = Procs /\ cache = [q \in Procs |-> cache[q]]
  BY DEF Followed, CacheShape
<1>5. cache' = [cache EXCEPT ![p] = new]
  <2>1. CASE p \in Procs
    BY <1>1, <1>3, <2>1 DEF SetAll
  <2>2. CASE p \notin Procs
    <3>1. PICK u : cache' = [cache EXCEPT ![p] = u]
      BY <1>1 DEF SetAll
    <3>2. cache' = cache
      BY <1>4, <2>2, <3>1
    <3> HIDE DEF new
    <3> QED
      BY <1>4, <2>2, <3>2
  <2> QED
    BY <2>1, <2>2
<1>6. p \in Procs =>
        untold' = (IF new = Caches THEN untold \ {p}
                   ELSE IF s # Snapshot(Kind(r)) THEN untold \cup {p} ELSE untold)
  BY <1>1, <1>3 DEF SetAll
<1>7. \A q : q # p /\ q \in untold => q \in untold'
  BY <1>1 DEF SetAll
<1>8. handler'[h] = IdleHandler /\ \A g \in Handlers \ {h} : handler'[g] = handler[g]
  BY DEF SetAll, Fail, IInv, Shape
<1>9. UNCHANGED <<CustomSnapshot, HostedSnapshot>>
  BY DEF SetAll, tables, CustomSnapshot, HostedSnapshot, Owner, VerifiedRows, Present
<1>10. /\ CacheShape'
       /\ \A q \in Procs \ {p} : cache'[q] = cache[q]
       /\ p \in Procs => cache'[p].custom = c /\ cache'[p].hosted = d
  <2> HIDE DEF c, d
  <2> QED
    BY <1>5, ReplacedCache DEF Followed
<1>11. ASSUME NEW q \in Procs \ untold', q # p PROVE CustomFollows(q)' /\ HostedFollows(q)'
  <2>1. CustomFollows(q) /\ HostedFollows(q) /\ ~Behind(handler[h], q)
    BY <1>1, <1>7, <1>11 DEF Followed, Behind
  <2>2. \A g \in Handlers : Behind(handler[g], q) => handler'[g] = handler[g]
    BY <1>8, <2>1
  <2>3. cache'[q] = cache[q]
    BY <1>10, <1>11
  <2> QED
    BY <1>9, <2>1, <2>2, <2>3 DEF CustomFollows, HostedFollows, Behind
<1>12. ASSUME p \in Procs \ untold' PROVE CustomFollows(p)' /\ HostedFollows(p)'
  <2>1. CASE new = Caches
    BY <1>9, <1>10, <1>12, <2>1 DEF CustomFollows, HostedFollows, Caches
  <2>2. CASE new # Caches
    <3>1. s = Snapshot(Kind(r)) /\ p \notin untold
      BY <1>6, <1>12, <2>2
    <3>2. s = IF r \in Customs THEN CustomSnapshot ELSE HostedSnapshot
      BY <3>1, HostedSnapshotIs DEF Kind
    <3>3. CustomFollows(p) /\ HostedFollows(p)
      BY <1>12, <3>1 DEF Followed
    <3>4. \A g \in Handlers : handler[g].row # r => handler'[g] = handler[g]
      BY <1>1, <1>8
    <3>5. CASE r \in Customs
      <4>1. cache'[p].custom = CustomSnapshot /\ cache'[p].hosted = cache[p].hosted
        BY <1>10, <1>12, <3>2, <3>5
      <4>2. \A g \in Handlers : handler[g].row \notin Customs => handler'[g] = handler[g]
        BY <3>4, <3>5
      <4> QED
        BY <1>9, <3>3, <4>1, <4>2 DEF CustomFollows, HostedFollows, Behind
    <3>6. CASE r \notin Customs
      <4>1. cache'[p].hosted = HostedSnapshot /\ cache'[p].custom = cache[p].custom
        BY <1>10, <1>12, <3>2, <3>6
      <4>2. \A g \in Handlers : handler[g].row \in Customs => handler'[g] = handler[g]
        BY <3>4, <3>6
      <4> QED
        BY <1>9, <3>3, <4>1, <4>2 DEF CustomFollows, HostedFollows, Behind
    <3> QED
      BY <3>5, <3>6
  <2> QED
    BY <2>1, <2>2
<1> QED
  BY <1>10, <1>11, <1>12 DEF Followed

\* A process that starts again has loaded what the tables say, or is untold.
LEMMA RestartFollows ==
    ASSUME IInv, Followed, NEW p \in Procs, Restart(p)
    PROVE  Followed'
<1>1. PICK c, d : /\ cache' = [cache EXCEPT ![p] = [custom |-> c, hosted |-> d]]
                  /\ p \notin untold' => c = CustomSnapshot /\ d = HostedSnapshot
  <2>1. /\ cache' = [cache EXCEPT ![p] = Caches]
        /\ untold' = untold \ {p}
        => \E c, d : /\ cache' = [cache EXCEPT ![p] = [custom |-> c, hosted |-> d]]
                     /\ p \notin untold' => c = CustomSnapshot /\ d = HostedSnapshot
    BY DEF Caches
  <2>2. ASSUME NEW warm \in {Caches, [custom |-> Empty, hosted |-> Empty]}, warm # Caches,
               cache' = [cache EXCEPT ![p] = warm], untold' = untold \cup {p}
        PROVE  \E c, d : /\ cache' = [cache EXCEPT ![p] = [custom |-> c, hosted |-> d]]
                         /\ p \notin untold' => c = CustomSnapshot /\ d = HostedSnapshot
    <3>1. cache' = [cache EXCEPT ![p] = [custom |-> Empty, hosted |-> Empty]] /\ p \in untold'
      BY <2>2
    <3> HIDE DEF Empty
    <3> QED
      BY <3>1
  <2>3. PICK warm \in {Caches, [custom |-> Empty, hosted |-> Empty]} :
          /\ cache' = [cache EXCEPT ![p] = warm]
          /\ untold' = IF warm = Caches THEN untold \ {p} ELSE untold \cup {p}
    BY DEF Restart
  <2> QED
    BY <2>1, <2>2, <2>3
<1>2. /\ CacheShape'
      /\ \A q \in Procs \ {p} : cache'[q] = cache[q]
      /\ cache'[p].custom = c /\ cache'[p].hosted = d
  BY <1>1, ReplacedCache DEF Followed
<1>3. UNCHANGED <<CustomSnapshot, HostedSnapshot>>
  BY DEF Restart, CustomSnapshot, HostedSnapshot, Owner, VerifiedRows, Present
<1>4. \A g \in Handlers : handler[g].proc # p => handler'[g] = handler[g]
  BY DEF Restart
<1>5. \A q : q # p /\ q \in untold => q \in untold'
  BY DEF Restart
<1>6. ASSUME NEW q \in Procs \ untold', q # p PROVE CustomFollows(q)' /\ HostedFollows(q)'
  <2>1. CustomFollows(q) /\ HostedFollows(q)
    BY <1>5, <1>6 DEF Followed
  <2>2. \A g \in Handlers : Behind(handler[g], q) => handler'[g] = handler[g]
    BY <1>4, <1>6 DEF Behind
  <2>3. cache'[q] = cache[q]
    BY <1>2, <1>6
  <2> QED
    BY <1>3, <2>1, <2>2, <2>3 DEF CustomFollows, HostedFollows, Behind
<1>7. p \notin untold' => CustomFollows(p)' /\ HostedFollows(p)'
  BY <1>1, <1>2, <1>3 DEF CustomFollows, HostedFollows
<1> QED
  BY <1>2, <1>6, <1>7 DEF Followed

LEMMA RequestFollows ==
    ASSUME IInv, Followed, NEW h \in Handlers, NEW p \in Procs, Request(h, p)
    PROVE  Followed'
<1>1. ASSUME NEW pc, NEW op, NEW r, NEW mine, NEW want, Enter(h, pc, op, p, r, mine, want)
      PROVE  Followed'
  <2> DEFINE w == [pc |-> pc, op |-> op, row |-> r, proc |-> p, mine |-> mine, want |-> want,
                   snap |-> None]
  <2>1. \A q : ~Behind(handler[h], q)
    BY <1>1 DEF Enter, Behind
  <2>2. handler' = [handler EXCEPT ![h] = w] /\ UNCHANGED <<row, cache, untold>>
    BY <1>1 DEF Enter, history
  <2> HIDE DEF w
  <2> QED
    BY <2>1, <2>2, HandlerFollows
<1>2. CASE UNCHANGED <<row, handler, cache, untold>>
  BY <1>2, SameFollows
<1>3. \/ \E pc, op, r, mine, want : Enter(h, pc, op, p, r, mine, want)
      \/ UNCHANGED <<row, handler, cache, untold>>
  <2>1. CASE RegisterCustomModel(h, p) \/ RegisterSelfHosted(h, p)
    BY <2>1 DEF RegisterCustomModel, RegisterSelfHosted
  <2>2. CASE EditCustomModel(h, p) \/ EditSelfHosted(h, p)
    BY <2>2 DEF EditCustomModel, EditSelfHosted
  <2>3. CASE RemoveCustomModel(h, p) \/ RemoveSelfHosted(h, p) \/ ReverifySelfHosted(h, p)
    BY <2>3 DEF RemoveCustomModel, RemoveSelfHosted, ReverifySelfHosted
  <2>4. CASE VerifyCustomModel(h, p)
    BY <2>4 DEF VerifyCustomModel, history
  <2> QED
    BY <2>1, <2>2, <2>3, <2>4 DEF Request
<1> QED
  BY <1>1, <1>2, <1>3

LEMMA ProceedFollows ==
    ASSUME IInv, Followed, NEW h \in Handlers, Proceed(h)
    PROVE  Followed'
<1>1. CASE LockNames(h)
  <2>1. \A q : ~Behind(handler[h], q)
    BY <1>1 DEF LockNames, Behind
  <2>2. PICK w : handler' = [handler EXCEPT ![h] = w] /\ UNCHANGED <<row, cache, untold>>
    BY <1>1 DEF LockNames, history
  <2> QED
    BY <2>1, <2>2, HandlerFollows
<1>2. ASSUME Refuse(h), handler[h].pc = "commit" PROVE Followed'
  <2>1. \A q : ~Behind(handler[h], q)
    BY <1>2 DEF Behind
  <2>2. handler' = [handler EXCEPT ![h] = IdleHandler] /\ UNCHANGED <<row, cache, untold>>
    BY <1>2 DEF Refuse, Fail, history
  <2> QED
    BY <2>1, <2>2, HandlerFollows
<1>3. ASSUME handler[h].pc \in {"commit", "probe"},
             Insert(h) \/ Update(h) \/ CommitRemoval(h) \/ \E answered \in BOOLEAN : Verdict(h, answered)
      PROVE  Followed'
  <2>1. \A q : ~Behind(handler[h], q)
    BY <1>3 DEF Behind
  <2>2. PICK v : row' = [row EXCEPT ![handler[h].row] = v]
    BY <1>3 DEF Insert, Update, CommitRemoval, Verdict
  <2>3. PICK pc \in {"audit", "load"} : Goto(h, pc) /\ Tell(h) /\ UNCHANGED cache
    BY <1>3 DEF Insert, Update, CommitRemoval, Verdict, Reload
  <2> QED
    BY <2>1, <2>2, <2>3, CommitFollows
<1>4. CASE TestOfRemoved(h)
  <2>1. \A q : ~Behind(handler[h], q)
    BY <1>4 DEF TestOfRemoved, Behind
  <2>2. PICK w : handler' = [handler EXCEPT ![h] = w] /\ UNCHANGED <<row, cache, untold>>
    BY <1>4 DEF TestOfRemoved, Fail, Goto, history, tables
  <2> QED
    BY <2>1, <2>2, HandlerFollows
<1>5. CASE LoadSnapshot(h)
  <2>1. PICK s : s = Snapshot(Kind(handler[h].row))
    OBVIOUS
  <2> DEFINE w == [handler[h] EXCEPT !.pc = "publish", !.snap = s]
  <2>2. handler' = [handler EXCEPT ![h] = w] /\ UNCHANGED <<row, cache, untold>>
    BY <1>5, <2>1 DEF LoadSnapshot, history, tables
  <2>3. w.pc = "publish" /\ w.row = handler[h].row /\ w.proc = handler[h].proc
    BY DEF IInv, Shape, Work
  <2> HIDE DEF w
  <2>4. \A q : Behind(handler[h], q) => Behind(w, q) /\ w.row = handler[h].row
    BY <2>3 DEF Behind
  <2> QED
    BY <2>2, <2>4, HandlerFollows
<1>6. CASE SetAll(h)
  BY <1>6, SetAllFollows
<1>7. CASE CommitCustomRegistration(h) \/ CommitHostedRegistration(h)
  BY <1>2, <1>3, <1>7 DEF CommitCustomRegistration, CommitHostedRegistration, Committing
<1>8. CASE CommitCustomEdit(h) \/ CommitHostedEdit(h)
  BY <1>2, <1>3, <1>8 DEF CommitCustomEdit, CommitHostedEdit, Committing
<1>9. CASE CommitRemoval(h)
  <2>1. handler[h].pc = "commit"
    BY <1>9 DEF CommitRemoval
  <2> QED
    BY <1>3, <1>9, <2>1
<1>10. CASE CustomTestEnds(h) \/ HostedTestEnds(h)
  BY <1>3, <1>10 DEF CustomTestEnds, HostedTestEnds
<1>11. CASE AuditTest(h)
  <2>1. PICK w : /\ w = [IdleHandler EXCEPT !.pc = "load", !.row = handler[h].row,
                                            !.proc = handler[h].proc]
                 /\ handler' = [handler EXCEPT ![h] = w]
    BY <1>11 DEF AuditTest, Reload, Goto
  <2>2. w.pc = "load" /\ w.row = handler[h].row /\ w.proc = handler[h].proc
    BY <1>11, <2>1, GotoFields DEF AuditTest, Reload, IInv, Shape
  <2>3. \A q : Behind(handler[h], q) => Behind(w, q) /\ w.row = handler[h].row
    BY <2>2 DEF Behind
  <2>4. UNCHANGED <<row, cache, untold>>
    BY <1>11 DEF AuditTest, history, tables
  <2> QED
    BY <2>1, <2>3, <2>4, HandlerFollows
<1>12. CASE RequestBreaks(h)
  <2>1. handler' = [handler EXCEPT ![h] = IdleHandler] /\ UNCHANGED <<row, cache>>
    BY <1>12 DEF RequestBreaks, Fail
  <2>2. untold \subseteq untold' /\ \A q \in Procs \ untold' : ~Behind(handler[h], q)
    BY <1>12 DEF RequestBreaks, Behind
  <2> QED
    BY <2>1, <2>2, HandlerFollows
<1> QED
  BY <1>1, <1>4, <1>5, <1>6, <1>7, <1>8, <1>9, <1>10, <1>11, <1>12 DEF Proceed

LEMMA FollowedKept == IInv /\ Followed /\ [Next]_vars => Followed'
<1> SUFFICES ASSUME IInv, Followed, [Next]_vars PROVE Followed'
  OBVIOUS
<1>1. ASSUME NEW c \in Calls, (\E p \in Procs : ReceiveCall(c, p)) \/ CallProceeds(c)
      PROVE  UNCHANGED <<row, handler, cache, untold>>
  BY <1>1 DEF ReceiveCall, CallProceeds, Dispatch, TryCandidate, CandidateAnswers, tables, history
<1>2. ASSUME NEW p \in Procs, CooldownEnds(p) PROVE UNCHANGED <<row, handler, cache, untold>>
  BY <1>2 DEF CooldownEnds, history
<1>3. CASE UNCHANGED vars
  BY <1>3, SameFollows DEF vars
<1> QED
  BY <1>1, <1>2, <1>3, SameFollows, RequestFollows, ProceedFollows, RestartFollows DEF Next

LEMMA FollowedIsCommitted == Followed => CacheAsCommitted
<1> SUFFICES ASSUME Followed, NEW p \in Procs \ untold,
                    \A h \in Handlers : handler[h].proc = p => handler[h].pc \in {"lock", "commit", "probe"}
             PROVE  cache[p] = Caches
  BY DEF CacheAsCommitted
<1>1. \A h \in Handlers : ~Behind(handler[h], p)
  BY DEF Behind
<1>2. cache[p].custom = CustomSnapshot /\ cache[p].hosted = HostedSnapshot
  BY <1>1 DEF Followed, CustomFollows, HostedFollows
<1>3. cache[p] = [custom |-> cache[p].custom, hosted |-> cache[p].hosted]
  BY DEF Followed, CacheShape
<1> QED
  BY <1>2, <1>3 DEF Caches

-----------------------------------------------------------------------------
(* Both hold beside the sweeps.                                            *)

CatalogInv == IInv /\ VerifiedWasTested /\ Followed

LEMMA CatalogInit == Init => CatalogInv
<1> SUFFICES ASSUME Init PROVE VerifiedWasTested /\ Followed
  BY InitHolds DEF CatalogInv
<1>1. VerifiedWasTested
  BY DEF Init, VerifiedWasTested
<1>2. \A p \in Procs : cache[p] = [custom |-> CustomSnapshot, hosted |-> HostedSnapshot]
  BY DEF Init, Caches
<1>3. cache = [p \in Procs |-> cache[p]]
  BY DEF Init
<1>4. CacheShape
  BY <1>2, <1>3 DEF CacheShape
<1> QED
  BY <1>1, <1>2, <1>4 DEF Followed, CustomFollows, HostedFollows

LEMMA CatalogKept == CatalogInv /\ [CanaryNext]_allVars => CatalogInv'
<1> SUFFICES ASSUME CatalogInv, [CanaryNext]_allVars PROVE VerifiedWasTested' /\ Followed'
  BY CanaryNextKeeps DEF CatalogInv
<1>1. CASE CatalogStep \/ \E p \in Console : RestartAll(p)
  <2>1. Console \subseteq Procs
    BY CanaryAssumption
  <2>2. Next
    BY <1>1, <2>1 DEF CatalogStep, RestartAll, Next
  <2> QED
    BY <2>2, TestedKept, FollowedKept DEF CatalogInv
<1>2. ASSUME NEW p \in Procs, SweepStep(p) \/ DayPasses(p)
      PROVE  UNCHANGED <<row, handler, cache, history>>
  <2>1. CASE StartSweep(p)
    BY <2>1 DEF StartSweep, tables
  <2>2. CASE PickModel(p)
    BY <2>2 DEF PickModel, vars, history
  <2>3. CASE NoCredential(p) \/ SweepFails(p)
    BY <2>3 DEF NoCredential, SweepFails, vars, history
  <2>4. CASE RunCanaries(p)
    BY <2>4 DEF RunCanaries, vars, history
  <2>5. CASE CommitModel(p)
    BY <2>5 DEF CommitModel, vars, history
  <2>6. CASE DayPasses(p)
    BY <2>6 DEF DayPasses, tables
  <2> QED
    BY <1>2, <2>1, <2>2, <2>3, <2>4, <2>5, <2>6 DEF SweepStep
<1>3. ASSUME NEW n \in Models, SetCanaryModelSetting(n) \/ ExportDriftAlert(n)
      PROVE  UNCHANGED <<row, handler, cache, history>>
  BY <1>3 DEF SetCanaryModelSetting, ExportDriftAlert, tables
<1>4. CASE UNCHANGED <<row, handler, cache, history>>
  BY <1>4, SameTested, SameFollows DEF CatalogInv, history
<1>5. UNCHANGED allVars => UNCHANGED <<row, handler, cache, history>>
  BY DEF allVars, vars, history
<1> QED
  BY <1>1, <1>2, <1>3, <1>4, <1>5 DEF CanaryNext

\* A verified row's present target answered the last test made of it, unless
\* its last writer worked on an outdated copy: an edit that changes the target
\* clears the flag, and a test's verdict lands on the target it tried.
THEOREM VerifiedRowsWereTested == CanarySpec => []VerifiedWasTested
<1>1. CanaryInit => CatalogInv
  BY CatalogInit DEF CanaryInit
<1>2. CatalogInv => VerifiedWasTested
  BY DEF CatalogInv
<1> QED
  BY <1>1, <1>2, CatalogKept, PTL DEF CanarySpec

\* A process routes what the tables say as soon as none of its handlers is
\* between its commit and set_all, unless another process wrote past it, a
\* handler of its own was overtaken or ended by the database before set_all, or
\* its warm-up found none.
THEOREM CachesFollowCommits == CanarySpec => []CacheAsCommitted
<1>1. CanaryInit => CatalogInv
  BY CatalogInit DEF CanaryInit
<1>2. CatalogInv => CacheAsCommitted
  BY FollowedIsCommitted DEF CatalogInv
<1> QED
  BY <1>1, <1>2, CatalogKept, PTL DEF CanarySpec

-----------------------------------------------------------------------------
(* The detector's baselines.                                               *)

IsSweep(w) == DOMAIN w = DOMAIN AtRest

\* What a transaction about to commit has seen still stands: other sweeps only
\* add runs and baselines.
Ready(w) ==
    LET n == Head(w.todo) IN
    w.pc = "flag" /\ n \in Models =>
        /\ w.new \subseteq Prompts
        /\ \A q \in w.new : runs[n][q] + (IF q \in w.ran THEN 1 ELSE 0) >= Window
        /\ w.alert => baseline[n] \cup w.new # {}

BooksShape ==
    /\ runs \in [Models -> [Prompts -> Nat]]
    /\ baseline \in [Models -> SUBSET Prompts]
    /\ DOMAIN alert = Models
    /\ DOMAIN sweep = Procs /\ \A p \in Procs : IsSweep(sweep[p])

DriftInv ==
    /\ BooksShape
    /\ \A p \in Procs : Ready(sweep[p])
    /\ BaselineStandsOnRuns

LEMMA OneSweepSteps ==
    ASSUME DriftInv, NEW p, NEW w, sweep' = [sweep EXCEPT ![p] = w],
           IsSweep(w), Ready(w), UNCHANGED <<runs, baseline, alert>>
    PROVE  DriftInv'
<1>1. DOMAIN sweep = Procs /\ \A q \in Procs : IsSweep(sweep[q])
  BY DEF DriftInv, BooksShape
<1>2. DOMAIN sweep' = Procs /\ \A q \in Procs : sweep'[q] = (IF q = p THEN w ELSE sweep[q])
  BY <1>1
<1>3. BooksShape'
  BY <1>1, <1>2 DEF DriftInv, BooksShape, IsSweep
<1>4. ASSUME NEW q \in Procs PROVE Ready(sweep[q])'
  <2>1. PICK u : u = sweep'[q] /\ Ready(u)
    BY <1>2 DEF DriftInv
  <2>2. Ready(u)'
    BY <2>1 DEF Ready
  <2> QED
    BY <2>1, <2>2 DEF Ready
<1> QED
  BY <1>3, <1>4 DEF DriftInv, BaselineStandsOnRuns, Ready

LEMMA CommitModelStands ==
    ASSUME DriftInv, NEW p \in Procs, CommitModel(p)
    PROVE  DriftInv'
<1>1. PICK w : w = sweep[p] /\ Ready(w) /\ w.pc = "flag"
  BY DEF CommitModel, DriftInv
<1>2. PICK n : n = Head(w.todo)
  OBVIOUS
<1>3. PICK rest : rest = Tail(w.todo)
  OBVIOUS
<1>4. CASE w.new \cap baseline[n] # {}
  <2>1. IsSweep(AtRest) /\ Ready(AtRest)
    BY DEF AtRest, IsSweep, Ready
  <2>2. sweep' = [sweep EXCEPT ![p] = AtRest] /\ UNCHANGED <<runs, baseline, alert>>
    BY <1>1, <1>2, <1>4 DEF CommitModel
  <2> QED
    BY <2>1, <2>2, OneSweepSteps
<1>5. CASE w.new \cap baseline[n] = {}
  <2> DEFINE v == [AtRest EXCEPT !.pc = "pick", !.todo = rest]
             seen == [q \in Prompts |-> runs[n][q] + (IF q \in w.ran THEN 1 ELSE 0)]
  <2>1. IsSweep(v) /\ Ready(v)
    <3>1. v.pc = "pick" /\ DOMAIN v = DOMAIN AtRest
      BY DEF AtRest
    <3> HIDE DEF v
    <3> QED
      BY <3>1 DEF IsSweep, Ready
  <2>2. /\ sweep' = [sweep EXCEPT ![p] = v]
        /\ runs' = [runs EXCEPT ![n] = seen]
        /\ baseline' = [baseline EXCEPT ![n] = @ \cup w.new]
        /\ alert' = [alert EXCEPT ![n] = IF w.alert THEN "open" ELSE @]
    BY <1>1, <1>2, <1>3, <1>5 DEF CommitModel, RunsSeen
  <2> HIDE DEF v
  <2>3. DOMAIN sweep = Procs /\ \A q \in Procs : IsSweep(sweep[q])
    BY DEF DriftInv, BooksShape
  <2>4. DOMAIN sweep' = Procs /\ \A q \in Procs : sweep'[q] = (IF q = p THEN v ELSE sweep[q])
    BY <2>2, <2>3
  <2>6. /\ runs \in [Models -> [Prompts -> Nat]] /\ baseline \in [Models -> SUBSET Prompts]
        /\ DOMAIN alert = Models
    BY DEF DriftInv, BooksShape
  <2>7. n \in Models => w.new \subseteq Prompts /\ seen \in [Prompts -> Nat]
    BY <1>1, <1>2, <2>6 DEF Ready
  <2>8. /\ runs' \in [Models -> [Prompts -> Nat]] /\ baseline' \in [Models -> SUBSET Prompts]
        /\ DOMAIN alert' = Models
    BY <2>2, <2>6, <2>7
  <2>9. BooksShape'
    BY <2>1, <2>3, <2>4, <2>8 DEF BooksShape, IsSweep
  <2>10. \A m \in Models : /\ baseline[m] \subseteq baseline'[m]
                           /\ \A q \in Prompts : runs[m][q] <= runs'[m][q]
    BY <2>2, <2>6
  <2>11. ASSUME NEW u, Ready(u) PROVE Ready(u)'
    <3>1. PICK m : m = Head(u.todo)
      OBVIOUS
    <3> SUFFICES ASSUME u.pc = "flag", m \in Models
                 PROVE  /\ u.new \subseteq Prompts
                        /\ \A q \in u.new : runs'[m][q] + (IF q \in u.ran THEN 1 ELSE 0) >= Window
                        /\ u.alert => baseline'[m] \cup u.new # {}
      BY <3>1 DEF Ready
    <3>2. /\ u.new \subseteq Prompts
          /\ \A q \in u.new : runs[m][q] + (IF q \in u.ran THEN 1 ELSE 0) >= Window
          /\ u.alert => baseline[m] \cup u.new # {}
      BY <2>11, <3>1 DEF Ready
    <3>3. \A q \in Prompts : runs[m][q] \in Nat /\ runs'[m][q] \in Nat
      BY <2>6, <2>8
    <3>4. Window \in Nat
      BY CanaryAssumption
    <3> QED
      BY <2>10, <3>2, <3>3, <3>4
  <2>12. \A q \in Procs : Ready(sweep[q])'
    <3> SUFFICES ASSUME NEW q \in Procs PROVE Ready(sweep[q])'
      OBVIOUS
    <3>1. PICK u : u = sweep'[q] /\ Ready(u)
      BY <2>1, <2>4 DEF DriftInv
    <3>2. Ready(u)'
      BY <2>11, <3>1
    <3> QED
      BY <3>1, <3>2 DEF Ready
  <2>13. BaselineStandsOnRuns'
    <3> SUFFICES ASSUME NEW m \in Models
                 PROVE  /\ \A q \in baseline'[m] : runs'[m][q] >= Window
                        /\ alert'[m] # "none" => baseline'[m] # {}
      BY DEF BaselineStandsOnRuns
    <3>1. /\ \A q \in baseline[m] : runs[m][q] >= Window
          /\ alert[m] # "none" => baseline[m] # {}
      BY DEF DriftInv, BaselineStandsOnRuns
    <3>2. Window \in Nat /\ \A q \in Prompts : runs[m][q] \in Nat /\ runs'[m][q] \in Nat
      BY <2>6, <2>8, CanaryAssumption
    <3>3. baseline[m] \subseteq Prompts
      BY <2>6
    <3>4. CASE m # n
      <4>1. baseline'[m] = baseline[m] /\ runs'[m] = runs[m] /\ alert'[m] = alert[m]
        BY <2>2, <2>6, <3>4
      <4> QED
        BY <3>1, <4>1
    <3>5. CASE m = n
      <4>1. /\ baseline'[m] = baseline[m] \cup w.new /\ runs'[m] = seen
            /\ alert'[m] = IF w.alert THEN "open" ELSE alert[m]
        BY <2>2, <2>6, <3>5
      <4>2. /\ w.new \subseteq Prompts
            /\ \A q \in w.new : runs[m][q] + (IF q \in w.ran THEN 1 ELSE 0) >= Window
            /\ w.alert => baseline[m] \cup w.new # {}
        BY <1>1, <1>2, <3>5 DEF Ready
      <4>3. \A q \in baseline[m] : runs'[m][q] >= Window
        BY <2>10, <3>1, <3>2, <3>3
      <4>4. \A q \in w.new : runs'[m][q] >= Window
        BY <3>5, <4>1, <4>2
      <4> QED
        BY <3>1, <4>1, <4>2, <4>3, <4>4
    <3> QED
      BY <3>4, <3>5
  <2> QED
    BY <2>9, <2>12, <2>13 DEF DriftInv, Ready
<1> QED
  BY <1>4, <1>5

LEMMA DriftInit == CanaryInit => DriftInv
<1> SUFFICES ASSUME CanaryInit PROVE DriftInv
  OBVIOUS
<1>1. InitialRuns \in Nat
  BY CanaryAssumption
<1>2. \A p \in Procs : sweep[p] = AtRest
  BY DEF CanaryInit
<1>3. IsSweep(AtRest) /\ Ready(AtRest)
  BY DEF AtRest, IsSweep, Ready
<1>4. DOMAIN sweep = Procs /\ \A p \in Procs : IsSweep(sweep[p])
  BY <1>2, <1>3 DEF CanaryInit
<1>5. /\ runs \in [Models -> [Prompts -> Nat]] /\ baseline \in [Models -> SUBSET Prompts]
      /\ DOMAIN alert = Models /\ BaselineStandsOnRuns
  BY <1>1 DEF CanaryInit, BaselineStandsOnRuns
<1> QED
  BY <1>2, <1>3, <1>4, <1>5 DEF DriftInv, BooksShape

\* A sweep that reaches its commit has counted its own runs and the committed ones.
LEMMA SweepStands ==
    ASSUME DriftInv, NEW p \in Procs, SweepStep(p)
    PROVE  DriftInv'
<1>1. PICK w : w = sweep[p] /\ IsSweep(w) /\ Ready(w)
  BY DEF DriftInv, BooksShape
<1>2. ASSUME NEW v, IsSweep(v), v.pc # "flag",
             sweep' = [sweep EXCEPT ![p] = v], UNCHANGED <<runs, baseline, alert>>
      PROVE  DriftInv'
  BY <1>2, OneSweepSteps DEF Ready
<1>3. IsSweep(AtRest) /\ AtRest.pc = "idle"
  BY DEF AtRest, IsSweep
<1>4. CASE StartSweep(p)
  <2>1. PICK s : s = ThisTick
    OBVIOUS
  <2> DEFINE v == [w EXCEPT !.pc = "pick", !.todo = s]
  <2>2. IsSweep(v) /\ v.pc # "flag"
    BY <1>1 DEF IsSweep, AtRest
  <2>3. sweep' = [sweep EXCEPT ![p] = v] /\ UNCHANGED <<runs, baseline, alert>>
    BY <1>1, <1>4, <2>1 DEF StartSweep
  <2> HIDE DEF v
  <2> QED
    BY <1>2, <2>2, <2>3
<1>5. CASE PickModel(p)
  <2>1. PICK v : /\ sweep' = [sweep EXCEPT ![p] = v] /\ UNCHANGED <<runs, baseline, alert>>
                 /\ \/ v = AtRest
                    \/ \E s : v = [w EXCEPT !.todo = s]
                    \/ v = [w EXCEPT !.pc = "ask"]
    BY <1>1, <1>5 DEF PickModel
  <2>2. w.pc = "pick"
    BY <1>1, <1>5 DEF PickModel
  <2>3. IsSweep(v) /\ v.pc # "flag"
    BY <1>1, <1>3, <2>1, <2>2 DEF IsSweep, AtRest
  <2> QED
    BY <1>2, <2>1, <2>3
<1>6. CASE NoCredential(p)
  <2>1. PICK s : s = Tail(w.todo)
    OBVIOUS
  <2> DEFINE v == [w EXCEPT !.pc = "pick", !.todo = s]
  <2>2. IsSweep(v) /\ v.pc # "flag"
    BY <1>1 DEF IsSweep, AtRest
  <2>3. sweep' = [sweep EXCEPT ![p] = v] /\ UNCHANGED <<runs, baseline, alert>>
    BY <1>1, <1>6, <2>1 DEF NoCredential
  <2> HIDE DEF v
  <2> QED
    BY <1>2, <2>2, <2>3
<1>7. CASE SweepFails(p)
  BY <1>2, <1>3, <1>7 DEF SweepFails
<1>8. CASE RunCanaries(p)
  <2>1. PICK n : n = Head(w.todo)
    OBVIOUS
  <2>2. PICK ran, stray, new :
          /\ new = ReadyForBaseline(p, ran)
          /\ stray => MayFlag(p, ran)
          /\ sweep' = [sweep EXCEPT ![p].pc = "flag", ![p].ran = ran,
                                    ![p].new = new, ![p].alert = stray]
    BY <1>8 DEF RunCanaries
  <2> DEFINE v == [w EXCEPT !.pc = "flag", !.ran = ran, !.new = new, !.alert = stray]
  <2>3. sweep' = [sweep EXCEPT ![p] = v] /\ UNCHANGED <<runs, baseline, alert>>
    BY <1>1, <1>8, <2>2 DEF RunCanaries
  <2>4. IsSweep(v) /\ v.todo = w.todo /\ v.ran = ran /\ v.new = new /\ v.alert = stray
    BY <1>1 DEF IsSweep, AtRest
  <2>5. /\ new = {q \in Prompts \ baseline[n] : runs[n][q] + (IF q \in ran THEN 1 ELSE 0) >= Window}
        /\ stray => baseline[n] \cup new # {}
    BY <1>1, <2>1, <2>2 DEF ReadyForBaseline, MayFlag, RunsSeen
  <2> HIDE DEF v
  <2>6. Ready(v)
    BY <2>1, <2>4, <2>5 DEF Ready
  <2> QED
    BY <2>3, <2>4, <2>6, OneSweepSteps
<1> QED
  BY <1>4, <1>5, <1>6, <1>7, <1>8, CommitModelStands DEF SweepStep

LEMMA DriftKept == DriftInv /\ [CanaryNext]_allVars => DriftInv'
<1> SUFFICES ASSUME DriftInv, [CanaryNext]_allVars PROVE DriftInv'
  OBVIOUS
<1>1. ASSUME UNCHANGED <<sweep, runs, baseline, alert>> PROVE DriftInv'
  BY <1>1 DEF DriftInv, BooksShape, IsSweep, Ready, BaselineStandsOnRuns
<1>2. CASE CatalogStep \/ UNCHANGED allVars
  BY <1>1, <1>2 DEF CatalogStep, allVars, canary
<1>3. ASSUME NEW p \in Console, RestartAll(p) PROVE DriftInv'
  <2>1. IsSweep(AtRest) /\ Ready(AtRest)
    BY DEF AtRest, IsSweep, Ready
  <2>2. sweep' = [sweep EXCEPT ![p] = AtRest] /\ UNCHANGED <<runs, baseline, alert>>
    BY <1>3 DEF RestartAll
  <2> QED
    BY <2>1, <2>2, OneSweepSteps
<1>4. ASSUME NEW p \in Procs, DayPasses(p) PROVE DriftInv'
  BY <1>1, <1>4 DEF DayPasses
<1>5. ASSUME NEW n \in Models, SetCanaryModelSetting(n) PROVE DriftInv'
  BY <1>1, <1>5 DEF SetCanaryModelSetting
<1>6. ASSUME NEW n \in Models, ExportDriftAlert(n) PROVE DriftInv'
  <2>1. /\ UNCHANGED <<sweep, runs, baseline>>
        /\ alert[n] = "open" /\ alert' = [alert EXCEPT ![n] = "exported"]
    BY <1>6 DEF ExportDriftAlert
  <2>2. BooksShape'
    BY <2>1 DEF DriftInv, BooksShape, IsSweep
  <2>3. \A p \in Procs : Ready(sweep[p])'
    BY <2>1 DEF DriftInv, Ready
  <2>4. \A m \in Models : alert'[m] # "none" => alert[m] # "none"
    BY <2>1 DEF DriftInv, BooksShape
  <2>5. BaselineStandsOnRuns'
    BY <2>1, <2>4 DEF DriftInv, BaselineStandsOnRuns
  <2> QED
    BY <2>2, <2>3, <2>5 DEF DriftInv, Ready
<1> QED
  BY <1>2, <1>3, <1>4, <1>5, <1>6, SweepStands DEF CanaryNext

\* Sweeps that race for a model's first baselines, fail or die halfway leave no
\* baseline of fewer than Window committed runs, and no alert without one.
THEOREM BaselinesStand == CanarySpec => []BaselineStandsOnRuns
<1>1. DriftInv => BaselineStandsOnRuns
  BY DEF DriftInv
<1> QED
  BY <1>1, DriftInit, DriftKept, PTL DEF CanarySpec
=============================================================================
