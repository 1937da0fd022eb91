---------------------------- MODULE ModelCatalog ----------------------------
(***************************************************************************)
(* The models an organisation adds to the built-in registry: custom models *)
(* (a name for a target of a configured provider) and self-hosted          *)
(* providers (an endpoint that serves several names).  Both tables are     *)
(* edited, tested and cached alike, so one variable holds their rows.      *)
(*                                                                         *)
(* A handler copies the row it works on, waits (for the name lock, for the *)
(* test call), and its commit writes the columns that differ from its      *)
(* copy.  A test's audit entry is a second transaction.  The handler then  *)
(* loads its table's verified rows and puts them in the route cache of its *)
(* own process, unless the database fails it before.  A gateway call       *)
(* resolves names there, and when the provider fails walks the model's     *)
(* fallback chain.                                                         *)
(*                                                                         *)
(* tested, crossed and untold are history: the rows whose target answered  *)
(* its last test, the rows written last from an outdated copy, and the     *)
(* processes whose cache no later write of theirs has put right.           *)
(***************************************************************************)
EXTENDS Naturals, Sequences, FiniteSets

CONSTANTS
    Customs, Hosted,     \* ids of custom_models and self_hosted_providers
    Names, Registry,     \* names an administrator gives, MODEL_REGISTRY's
    Targets,             \* native model ids and base URLs
    Chains,              \* fallback chains an administrator may ask for
    Procs, Handlers, Calls,
    None, Static,        \* no row, the route of a registry name
    InitialTables,       \* what the two tables may hold at the start
    MaxChain,            \* _MODEL_FALLBACK_MAX_CHAIN_LENGTH
    MaxOps               \* bound on console and gateway requests together

Rows == Customs \cup Hosted
CustomModel == [names : {{n} : n \in Names}, target : Targets, verified : BOOLEAN,
                chain : Chains]
SelfHostedProvider == [names : SUBSET Names \ {{}}, target : Targets, verified : BOOLEAN,
                       chain : {<<>>}]
Row == CustomModel \cup SelfHostedProvider
RouteEntry == [row : Rows, chain : Chains]

\* No two rows of a table claim one name.
Clashless(table) ==
    \A r, s \in {x \in Rows : table[x] # None} :
        r # s => table[r].names \cap table[s].names = {}

ASSUME CatalogAssumption ==
    /\ Names \cap Registry = {} /\ Customs \cap Hosted = {}
    /\ None \notin Rows \cup Names \cup Registry \cup Row \cup Handlers /\ Static \notin Rows \cup {None}
    /\ <<>> \in Chains /\ Chains \subseteq Seq(Names \cup Registry)
    /\ \A table \in InitialTables : table \in [Rows -> Row \cup {None}] /\ Clashless(table)
    /\ MaxChain \in Nat /\ MaxOps \in Nat

VARIABLES
    row,       \* the two tables
    holder,    \* the handler that holds the org_settings row lock
    handler,   \* the administrators' requests under way
    cache,     \* the route caches of each process
    cooldown,  \* the custom models each process tested a short while ago
    call,      \* the gateway's requests under way
    ops,
    tested, crossed, untold

tables == <<row, holder, cooldown>>
history == <<tested, crossed, untold>>
vars == <<row, holder, handler, cache, cooldown, call, ops, tested, crossed, untold>>

IdleHandler == [pc |-> "idle", op |-> None, row |-> None, proc |-> None,
                mine |-> None, want |-> None, snap |-> None]
IdleCall == [pc |-> "idle", proc |-> None, model |-> None, route |-> None,
             chain |-> <<>>]

Kind(r) == IF r \in Customs THEN Customs ELSE Hosted
Present(table) == {r \in table : row[r] # None}
Claimed(table) == UNION {row[r].names : r \in Present(table)}
VerifiedRows(table) == {r \in Present(table) : row[r].verified}
Owner(table, n) == {r \in VerifiedRows(table) : n \in row[r].names}

\* A name two verified providers claim would go to the one with the larger id.
CustomSnapshot ==
    [n \in UNION {row[r].names : r \in VerifiedRows(Customs)} |->
        LET r == CHOOSE r \in Owner(Customs, n) : TRUE
        IN [row |-> r, chain |-> row[r].chain]]
HostedSnapshot ==
    [n \in UNION {row[r].names : r \in VerifiedRows(Hosted)} |->
        [row |-> CHOOSE r \in Owner(Hosted, n) : TRUE, chain |-> <<>>]]
Snapshot(table) == IF table = Customs THEN CustomSnapshot ELSE HostedSnapshot
Caches == [custom |-> CustomSnapshot, hosted |-> HostedSnapshot]
Empty == [n \in {} |-> None]

Init ==
    /\ row \in InitialTables
    /\ holder = None
    /\ handler = [h \in Handlers |-> IdleHandler]
    /\ cache = [p \in Procs |-> Caches]
    /\ cooldown = [p \in Procs |-> {}]
    /\ call = [c \in Calls |-> IdleCall]
    /\ ops = 0
    /\ tested = VerifiedRows(Rows) /\ crossed = {} /\ untold = {}

-----------------------------------------------------------------------------
(* A request reaches its handler: it reads the row and runs the checks     *)
(* that need no lock.  One that only fails changes nothing and is left out.*)

Resolvable == Registry \cup UNION {row[r].names : r \in VerifiedRows(Rows)}

ChainAccepted(name, chain) ==
    \/ chain = <<>>
    \/ /\ Len(chain) <= MaxChain
       /\ \A i \in DOMAIN chain : chain[i] # name /\ chain[i] \in Resolvable
       /\ \A i, j \in DOMAIN chain : i # j => chain[i] # chain[j]

\* Ids and handlers are interchangeable.
Unused(table) ==
    {r \in table : row[r] = None /\ \A h \in Handlers : handler[h].row # r}

Enter(h, pc, op, p, r, mine, want) ==
    /\ ops < MaxOps /\ ops' = ops + 1
    /\ handler[h].pc = "idle"
    /\ h = CHOOSE g \in Handlers : handler[g].pc = "idle"
    /\ handler' = [handler EXCEPT ![h] =
           [pc |-> pc, op |-> op, row |-> r, proc |-> p, mine |-> mine, want |-> want,
            snap |-> None]]
    /\ UNCHANGED <<row, holder, cache, call, history>>

RegisterCustomModel(h, p) ==
    /\ Unused(Customs) # {}
    /\ \E n \in Names, t \in Targets, chain \in Chains :
        /\ ChainAccepted(n, chain)
        /\ Enter(h, "lock", "register", p, CHOOSE r \in Unused(Customs) : TRUE, None,
                 [names |-> {n}, target |-> t, verified |-> FALSE, chain |-> chain])
    /\ UNCHANGED cooldown

RegisterSelfHosted(h, p) ==
    /\ Unused(Hosted) # {}
    /\ \E names \in SUBSET Names \ {{}}, t \in Targets :
        Enter(h, "lock", "register", p, CHOOSE r \in Unused(Hosted) : TRUE, None,
              [names |-> names, target |-> t, verified |-> FALSE, chain |-> <<>>])
    /\ UNCHANGED cooldown

EditedCustomModel(r) ==
    LET mine == row[r] IN
    {[mine EXCEPT !.names = {n}] : n \in {m \in Names : ChainAccepted(m, mine.chain)}}
    \cup {[mine EXCEPT !.chain = c] :
            c \in {d \in Chains : \A n \in mine.names : ChainAccepted(n, d)}}

\* Faulty: a new target keeps the old one's test.
Retargeted_StaysVerified(r) == {[row[r] EXCEPT !.target = t] : t \in Targets}

Retargeted(r) == {[row[r] EXCEPT !.target = t, !.verified = FALSE] : t \in Targets}

\* A new native_model_id alone skips the guards, a new provider runs them.
EditCustomModel(h, p) ==
    /\ \E r \in Present(Customs) :
        \/ \E want \in EditedCustomModel(r) : Enter(h, "lock", "edit", p, r, row[r], want)
        \/ \E want \in Retargeted(r) : Enter(h, "commit", "edit", p, r, row[r], want)
        \/ \E want \in Retargeted(r), n \in row[r].names :
            /\ ChainAccepted(n, row[r].chain)
            /\ Enter(h, "lock", "edit", p, r, row[r], want)
    /\ UNCHANGED cooldown

\* A new base_url or bearer_token skips the guard on the model ids.
EditSelfHosted(h, p) ==
    /\ \E r \in Present(Hosted) :
        \/ \E names \in SUBSET Names \ {{}} :
            Enter(h, "lock", "edit", p, r, row[r], [row[r] EXCEPT !.names = names])
        \/ \E want \in Retargeted(r) : Enter(h, "commit", "edit", p, r, row[r], want)
    /\ UNCHANGED cooldown

RemoveCustomModel(h, p) ==
    /\ \E r \in Present(Customs) : Enter(h, "commit", "remove", p, r, row[r], None)
    /\ UNCHANGED cooldown

RemoveSelfHosted(h, p) ==
    /\ \E r \in Present(Hosted) : Enter(h, "commit", "remove", p, r, row[r], None)
    /\ UNCHANGED cooldown

\* The attempt is noted before the credential is looked up, so one that finds
\* no credential starts the cooldown too.
VerifyCustomModel(h, p) ==
    \E r \in Present(Customs) \ cooldown[p] :
        /\ cooldown' = [cooldown EXCEPT ![p] = @ \cup {r}]
        /\ \/ Enter(h, "probe", "verify", p, r, row[r], None)
           \/ ops < MaxOps /\ ops' = ops + 1
              /\ UNCHANGED <<row, holder, handler, cache, call, history>>

ReverifySelfHosted(h, p) ==
    /\ \E r \in Present(Hosted) : Enter(h, "probe", "verify", p, r, row[r], None)
    /\ UNCHANGED cooldown

CooldownEnds(p) ==
    /\ cooldown[p] # {}
    /\ cooldown' = [cooldown EXCEPT ![p] = {}]
    /\ UNCHANGED <<row, holder, handler, cache, call, ops, history>>

-----------------------------------------------------------------------------
(* The name guard: the lock, then the names the other rows claim.          *)

CustomNameFree(h) == handler[h].want.names \cap Claimed(Hosted) = {}

HostedNamesFree(h) ==
    handler[h].want.names
        \cap (Claimed(Hosted \ {handler[h].row}) \cup Claimed(Customs)) = {}

NamesFree(h) ==
    IF handler[h].row \in Customs THEN CustomNameFree(h) ELSE HostedNamesFree(h)

\* Faulty: a writer of the other table is not kept out.
LockNames_NoLock(h) ==
    /\ handler[h].pc = "lock"
    /\ handler' = [handler EXCEPT ![h] =
           IF NamesFree(h) THEN [@ EXCEPT !.pc = "commit"] ELSE IdleHandler]
    /\ UNCHANGED <<row, holder, cooldown, cache, call, ops, history>>

LockNames(h) ==
    /\ handler[h].pc = "lock" /\ holder = None
    /\ IF NamesFree(h)
       THEN /\ holder' = h
            /\ handler' = [handler EXCEPT ![h].pc = "commit"]
       ELSE /\ holder' = None
            /\ handler' = [handler EXCEPT ![h] = IdleHandler]
    /\ UNCHANGED <<row, cooldown, cache, call, ops, history>>

-----------------------------------------------------------------------------
(* The commits.                                                            *)

\* What the UPDATE of a changed copy leaves in the row.
Flushed(now, mine, want) ==
    [f \in DOMAIN now |-> IF want[f] # mine[f] THEN want[f] ELSE now[f]]

Release(h) == holder' = IF holder = h THEN None ELSE holder
Fail(h) == handler' = [handler EXCEPT ![h] = IdleHandler]

\* The transaction is over; what the handler still needs is its row and process.
Goto(h, pc) ==
    handler' = [handler EXCEPT ![h] = [IdleHandler EXCEPT !.pc = pc,
                                           !.row = handler[h].row, !.proc = handler[h].proc]]
Reload(h) == Goto(h, "load")

\* Other processes are never told of a commit.
Tell(h) == untold' = untold \cup (Procs \ {handler[h].proc})

\* The unique constraint of custom_models; hosted names have the lock alone.
NameTaken(h) == handler[h].want.names \cap Claimed(Customs \ {handler[h].row}) # {}

Refuse(h) ==
    /\ Release(h) /\ Fail(h)
    /\ UNCHANGED <<row, cooldown, cache, call, ops, history>>

Insert(h) ==
    LET r == handler[h].row IN
    /\ row' = [row EXCEPT ![r] = handler[h].want]
    /\ Release(h) /\ Reload(h) /\ Tell(h)
    /\ tested' = tested \ {r} /\ crossed' = crossed \ {r}
    /\ UNCHANGED <<cooldown, cache, call, ops>>

Committing(h, op, rows) ==
    handler[h].pc = "commit" /\ handler[h].op = op /\ handler[h].row \in rows

CommitCustomRegistration(h) ==
    /\ Committing(h, "register", Customs)
    /\ IF NameTaken(h) THEN Refuse(h) ELSE Insert(h)

CommitHostedRegistration(h) == Committing(h, "register", Hosted) /\ Insert(h)

\* The copy no longer shows what the row says of its target.
Outdated(h) ==
    LET now == row[handler[h].row]  mine == handler[h].mine
    IN now.target # mine.target \/ now.verified # mine.verified

Update(h) ==
    LET r == handler[h].row  mine == handler[h].mine  want == handler[h].want IN
    /\ row' = [row EXCEPT ![r] = Flushed(@, mine, want)]
    /\ Release(h) /\ Reload(h) /\ Tell(h)
    /\ tested' = IF row'[r].target # row[r].target THEN tested \ {r} ELSE tested
    /\ crossed' = IF want.target = mine.target THEN crossed
                  ELSE IF Outdated(h) THEN crossed \cup {r} ELSE crossed \ {r}
    /\ UNCHANGED <<cooldown, cache, call, ops>>

\* The row may be gone: the UPDATE then matches nothing, or the refresh fails.
Gone(h) == row[handler[h].row] = None

CommitCustomEdit(h) ==
    LET renames == handler[h].want.names # handler[h].mine.names IN
    /\ Committing(h, "edit", Customs)
    /\ IF Gone(h) \/ (renames /\ NameTaken(h)) THEN Refuse(h) ELSE Update(h)

CommitHostedEdit(h) ==
    /\ Committing(h, "edit", Hosted)
    /\ IF Gone(h) THEN Refuse(h) ELSE Update(h)

CommitRemoval(h) ==
    /\ handler[h].pc = "commit" /\ handler[h].op = "remove"
    /\ row' = [row EXCEPT ![handler[h].row] = None]
    /\ Reload(h) /\ Tell(h)
    /\ UNCHANGED <<holder, cooldown, cache, call, ops, tested, crossed>>

Verdict(h, answered) ==
    LET r == handler[h].row  mine == handler[h].mine  now == row[r] IN
    /\ row' = [row EXCEPT ![r] =
           Flushed(now, mine, [mine EXCEPT !.verified = answered])]
    /\ Goto(h, "audit") /\ Tell(h)
    /\ tested' = IF answered /\ mine.target = now.target THEN tested \cup {r} ELSE tested \ {r}
    /\ crossed' = IF Outdated(h) THEN crossed \cup {r} ELSE crossed \ {r}
    /\ UNCHANGED <<holder, cooldown, cache, call, ops>>

\* Faulty: after a failed test the cache is left as it was.
CustomTestEnds_NoReload(h) ==
    /\ handler[h].pc = "probe" /\ handler[h].row \in Present(Customs)
    /\ \/ Verdict(h, TRUE)
       \/ /\ row' = [row EXCEPT ![handler[h].row].verified = FALSE]
          /\ Fail(h) /\ Tell(h)
          /\ UNCHANGED <<holder, cooldown, cache, call, ops, tested, crossed>>

CustomTestEnds(h) ==
    /\ handler[h].pc = "probe" /\ handler[h].row \in Present(Customs)
    /\ \E answered \in BOOLEAN : Verdict(h, answered)

HostedTestEnds(h) ==
    /\ handler[h].pc = "probe" /\ handler[h].row \in Present(Hosted)
    /\ \E answered \in BOOLEAN : Verdict(h, answered)

\* The row went during the test.  Only a failed test of a custom model that
\* was not verified gets as far as the audit entry.
TestOfRemoved(h) ==
    /\ handler[h].pc = "probe" /\ row[handler[h].row] = None
    /\ \/ Fail(h)
       \/ handler[h].row \in Customs /\ ~handler[h].mine.verified /\ Goto(h, "audit")
    /\ UNCHANGED <<tables, cache, call, ops, history>>

\* The verify endpoints write the audit entry in a transaction of its own.
AuditTest(h) ==
    /\ handler[h].pc = "audit"
    /\ Reload(h)
    /\ UNCHANGED <<tables, cache, call, ops, history>>

\* The database fails the request at one of its awaits.  What is not committed
\* is undone; what is stays, and the process is left with its old cache.
RequestBreaks(h) ==
    /\ handler[h].pc # "idle"
    /\ Release(h) /\ Fail(h)
    /\ untold' = IF handler[h].pc \in {"lock", "commit", "probe"} THEN untold
                 ELSE untold \cup {handler[h].proc}
    /\ UNCHANGED <<row, cooldown, cache, call, ops, tested, crossed>>

-----------------------------------------------------------------------------
(* The reload of the route cache, and a restart.                           *)

LoadSnapshot(h) ==
    /\ handler[h].pc = "load"
    /\ handler' = [handler EXCEPT ![h].pc = "publish",
                                  ![h].snap = Snapshot(Kind(handler[h].row))]
    /\ UNCHANGED <<tables, cache, call, ops, history>>

SetAll(h) ==
    LET p == handler[h].proc
        new == IF handler[h].row \in Customs THEN [cache[p] EXCEPT !.custom = handler[h].snap]
               ELSE [cache[p] EXCEPT !.hosted = handler[h].snap]
    IN /\ handler[h].pc = "publish"
       /\ cache' = [cache EXCEPT ![p] = new]
       /\ Fail(h)
       /\ untold' = IF new = Caches THEN untold \ {p}
                    ELSE IF handler[h].snap # Snapshot(Kind(handler[h].row)) THEN untold \cup {p}
                    ELSE untold
       /\ UNCHANGED <<tables, call, ops, tested, crossed>>

\* A process dies and starts again.  With the database away at that moment
\* both warm-ups fail and its caches stay empty.
Restart(p) ==
    /\ handler' = [h \in Handlers |-> IF handler[h].proc = p THEN IdleHandler ELSE handler[h]]
    /\ call' = [c \in Calls |-> IF call[c].proc = p THEN IdleCall ELSE call[c]]
    /\ holder' = IF holder # None /\ handler[holder].proc = p THEN None ELSE holder
    /\ cooldown' = [cooldown EXCEPT ![p] = {}]
    /\ \E warm \in {Caches, [custom |-> Empty, hosted |-> Empty]} :
        /\ cache' = [cache EXCEPT ![p] = warm]
        /\ untold' = IF warm = Caches THEN untold \ {p} ELSE untold \cup {p}
    /\ UNCHANGED <<row, ops, tested, crossed>>

-----------------------------------------------------------------------------
(* Gateway calls.                                                          *)

ResolveRoute(p, n) ==
    IF n \in Registry THEN Static
    ELSE IF n \in DOMAIN cache[p].custom THEN cache[p].custom[n].row
    ELSE IF n \in DOMAIN cache[p].hosted THEN cache[p].hosted[n].row
    ELSE None

ReceiveCall(c, p) ==
    /\ ops < MaxOps /\ ops' = ops + 1
    /\ call[c].pc = "idle" /\ c = CHOOSE d \in Calls : call[d].pc = "idle"
    /\ \E n \in Names :
        /\ ResolveRoute(p, n) # None
        /\ call' = [call EXCEPT ![c] = [pc |-> "dispatch", proc |-> p, model |-> n,
                                        route |-> ResolveRoute(p, n), chain |-> <<>>]]
    /\ UNCHANGED <<tables, handler, cache, history>>

\* The chain is read once, when the first provider has failed, and from the
\* cache as it is then.
FallbackChain(c) ==
    LET entries == cache[call[c].proc].custom IN
    IF call[c].route \in Customs /\ call[c].model \in DOMAIN entries
    THEN entries[call[c].model].chain ELSE <<>>

Walk(c, chain) ==
    call' = [call EXCEPT ![c] =
        IF chain = <<>> THEN IdleCall
        ELSE [@ EXCEPT !.pc = "walk", !.chain = chain]]

\* Answered, refused (no credential, no such provider any more), or failed.
Dispatch(c) ==
    /\ call[c].pc = "dispatch"
    /\ \/ call' = [call EXCEPT ![c] = IdleCall]
       \/ /\ call[c].route \in Hosted => row[call[c].route] # None
          /\ Walk(c, FallbackChain(c))
    /\ UNCHANGED <<tables, handler, cache, ops, history>>

\* A candidate that does not resolve, or that a policy refuses, is skipped.
TryCandidate(c) ==
    LET n == Head(call[c].chain)  route == ResolveRoute(call[c].proc, n) IN
    /\ call[c].pc = "walk"
    /\ \/ Walk(c, Tail(call[c].chain))
       \/ /\ route # None
          /\ call' = [call EXCEPT ![c].pc = "hop", ![c].route = route]
    /\ UNCHANGED <<tables, handler, cache, ops, history>>

CandidateAnswers(c) ==
    /\ call[c].pc = "hop"
    /\ \/ /\ call[c].route \in Hosted => row[call[c].route] # None
          /\ call' = [call EXCEPT ![c] = IdleCall]
       \/ Walk(c, Tail(call[c].chain))
    /\ UNCHANGED <<tables, handler, cache, ops, history>>

-----------------------------------------------------------------------------
Request(h, p) ==
    \/ RegisterCustomModel(h, p) \/ RegisterSelfHosted(h, p)
    \/ EditCustomModel(h, p) \/ EditSelfHosted(h, p)
    \/ RemoveCustomModel(h, p) \/ RemoveSelfHosted(h, p)
    \/ VerifyCustomModel(h, p) \/ ReverifySelfHosted(h, p)

Proceed(h) ==
    \/ LockNames(h)
    \/ CommitCustomRegistration(h) \/ CommitHostedRegistration(h)
    \/ CommitCustomEdit(h) \/ CommitHostedEdit(h) \/ CommitRemoval(h)
    \/ CustomTestEnds(h) \/ HostedTestEnds(h) \/ TestOfRemoved(h)
    \/ AuditTest(h) \/ RequestBreaks(h)
    \/ LoadSnapshot(h) \/ SetAll(h)

CallProceeds(c) == Dispatch(c) \/ TryCandidate(c) \/ CandidateAnswers(c)

Next ==
    \/ \E h \in Handlers, p \in Procs : Request(h, p)
    \/ \E h \in Handlers : Proceed(h)
    \/ \E c \in Calls, p \in Procs : ReceiveCall(c, p)
    \/ \E c \in Calls : CallProceeds(c)
    \/ \E p \in Procs : CooldownEnds(p) \/ Restart(p)

Spec == Init /\ [][Next]_vars

-----------------------------------------------------------------------------
\* Two rows never claim the same name, however their writers interleave: not
\* two custom models, not two providers, not one of each, none a registry name.
NamesDisjoint ==
    Clashless(row) /\ \A r \in Present(Rows) : row[r].names \cap Registry = {}

\* A verified row's present target answered the last test made of it, unless
\* the row was last written by a handler whose copy of it was outdated.
VerifiedWasTested == \A r \in VerifiedRows(Rows) : r \in tested \cup crossed

\* Once its handlers are done a process routes what the tables say, unless
\* another process wrote since, an overtaken handler of its own published last,
\* one of its own died between its commit and its publication, or it started cold.
CacheAsCommitted ==
    \A p \in Procs \ untold :
        (\A h \in Handlers : handler[h].proc = p => handler[h].pc \in {"lock", "commit", "probe"})
        => cache[p] = Caches

=============================================================================
