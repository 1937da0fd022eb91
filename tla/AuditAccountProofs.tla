------------------------- MODULE AuditAccountProofs -------------------------
(***************************************************************************)
(* Two ledgers that outlive the request that writes them.                  *)
(*                                                                         *)
(* The audit chain, for any number of entries, writers and settings        *)
(* requests.  ChainIntact speaks of committed entries only and is not      *)
(* inductive: what is pending must be known to extend the ledger, and to   *)
(* be the lock holder's own.  The strengthening adds both, and that        *)
(* created_at stamps are distinct, which the backfill's numbering relies   *)
(* on.                                                                     *)
(*                                                                         *)
(* The credentials of an account, for any number of calls, keys, teams and *)
(* client processes.  The invariant follows what a call has read and done  *)
(* so far: a call that counted holds the lock of its membership until it   *)
(* mints, a deactivation leaves nothing behind in the tables it has swept  *)
(* but late rows, and a refresh credential waits in one place for its one  *)
(* delivery.                                                               *)
(***************************************************************************)
EXTENDS AuditChain, CliSync, FiniteSetTheorems, TLAPS

-----------------------------------------------------------------------------
(* The inductive invariant.                                                *)

Present == {e \in Entries : place[e] \notin {"unused", "gone"}}

\* created_at stamps lie in the past and no two entries share one.
Stamps ==
    /\ \A e \in Present : row[e].at < clock
    /\ \A e, f \in Present : row[e].at = row[f].at => e = f

\* A request has one pending entry; a chained one is the lock holder's.
Owners ==
    /\ \A e, f \in Entries : place[e] \in Txns /\ place[e] = place[f] => e = f
    /\ \A e \in Entries : place[e] \in Txns /\ row[e].seq # 0 => place[e] = lock

\* What verify_chain accepts, for rows r: the chained entries of S in one chain.
ChainOf(r, S) == {e \in S : r[e].seq # 0}

IsChain(r, S) ==
    LET C == ChainOf(r, S) IN
    /\ \A e, f \in C : r[e].seq = r[f].seq => e = f
    /\ \A e \in C : r[e].hash = ComputeChainHash(r[e].prev, e)
    /\ \A e \in C : (\A f \in C : r[e].seq <= r[f].seq) => r[e].prev = Genesis
    /\ \A e, f \in C :
         (/\ r[f].seq < r[e].seq
          /\ \A g \in C : r[g].seq < r[e].seq => r[g].seq <= r[f].seq)
         => r[e].prev = r[f].hash

\* e continues the chain of S: it comes last and points to the tail.
Continues(r, S, e) ==
    LET C == ChainOf(r, S) IN
    /\ r[e].hash = ComputeChainHash(r[e].prev, e)
    /\ \A f \in C : r[f].seq < r[e].seq
    /\ C = {} => r[e].prev = Genesis
    /\ \A f \in C : (\A g \in C : r[g].seq <= r[f].seq) => r[e].prev = r[f].hash

ChainInv ==
    ~gap => /\ IsChain(row, Ledger)
            /\ \A e \in Entries :
                 place[e] \in Txns /\ row[e].seq # 0 => Continues(row, Ledger, e)

Inv == TypeOK /\ Stamps /\ Owners /\ ChainInv

-----------------------------------------------------------------------------
(* The ledger as a chain.                                                  *)

\* A chain is what verify_chain finds intact, without a fork.
LEMMA ChainVerifies ==
    ASSUME NEW S, IsChain(row, S)
    PROVE  VerifyChain(S) /\ \A e, f \in Chained(S) : row[e].seq = row[f].seq => e = f
<1>1. Chained(S) = ChainOf(row, S)
    BY DEF Chained, ChainOf
<1>2. \A e, f \in Chained(S) : row[e].seq = row[f].seq => e = f
    BY <1>1 DEF IsChain
<1>3. ASSUME NEW e \in Chained(S)
      PROVE  /\ row[e].hash = ComputeChainHash(row[e].prev, e)
             /\ First(S, e) => row[e].prev = Genesis
             /\ \A f \in S : RightBefore(S, f, e) => row[e].prev = row[f].hash
    BY <1>1 DEF IsChain, First, RightBefore
<1> QED
    BY <1>2, <1>3 DEF VerifyChain

\* Only the chained entries of a set matter.
LEMMA SameChain ==
    ASSUME NEW r, NEW q, NEW S, NEW T, ChainOf(r, S) = ChainOf(q, T),
           \A e \in ChainOf(r, S) : q[e] = r[e], IsChain(r, S)
    PROVE  IsChain(q, T)
BY DEF IsChain

LEMMA SameTail ==
    ASSUME NEW r, NEW q, NEW S, NEW T, ChainOf(r, S) = ChainOf(q, T),
           \A e \in ChainOf(r, S) : q[e] = r[e],
           NEW e, q[e] = r[e], Continues(r, S, e)
    PROVE  Continues(q, T, e)
BY DEF Continues

\* Appending an entry that continues the chain leaves a chain.
LEMMA ExtendChain ==
    ASSUME NEW r, NEW S, NEW e, e \notin S, r[e].seq # 0,
           \A x \in S \cup {e} : r[x].seq \in Nat,
           IsChain(r, S), Continues(r, S, e)
    PROVE  IsChain(r, S \cup {e})
<1> DEFINE C == ChainOf(r, S)
           D == ChainOf(r, S \cup {e})
<1>1. D = C \cup {e} /\ e \notin C
    BY DEF ChainOf
<1>2. \A x \in D : r[x].seq \in Nat
    BY DEF ChainOf
<1>3. \A f \in C : r[f].seq < r[e].seq
    BY DEF Continues
<1>4. \A x, y \in D : r[x].seq = r[y].seq => x = y
    BY <1>1, <1>2, <1>3 DEF IsChain
<1>5. \A x \in D : r[x].hash = ComputeChainHash(r[x].prev, x)
    BY <1>1 DEF IsChain, Continues
<1>6. ASSUME NEW x \in D, \A f \in D : r[x].seq <= r[f].seq PROVE r[x].prev = Genesis
    <2>1. CASE x = e
        <3>1. C = {}
            <4> SUFFICES ASSUME NEW f \in C PROVE FALSE
                OBVIOUS
            <4>1. r[f].seq < r[e].seq /\ r[e].seq <= r[f].seq
                BY <1>1, <1>3, <1>6, <2>1
            <4>2. r[f].seq \in Nat /\ r[e].seq \in Nat
                BY <1>1, <1>2
            <4> QED
                BY <4>1, <4>2
        <3> QED
            BY <2>1, <3>1 DEF Continues
    <2>2. CASE x \in C
        BY <1>1, <1>6, <2>2 DEF IsChain
    <2> QED
        BY <1>1, <2>1, <2>2
<1>7. ASSUME NEW x \in D, NEW f \in D, r[f].seq < r[x].seq,
             \A g \in D : r[g].seq < r[x].seq => r[g].seq <= r[f].seq
      PROVE  r[x].prev = r[f].hash
    <2>1. f \in C
        <3> SUFFICES ASSUME f = e PROVE FALSE
            BY <1>1
        <3>1. r[e].seq < r[x].seq /\ (x = e \/ r[x].seq < r[e].seq)
            BY <1>1, <1>3, <1>7
        <3>2. r[e].seq \in Nat /\ r[x].seq \in Nat
            BY <1>1, <1>2
        <3> QED
            BY <3>1, <3>2
    <2>2. CASE x = e
        BY <1>1, <1>3, <1>7, <2>1, <2>2 DEF Continues
    <2>3. CASE x \in C
        BY <1>1, <1>7, <2>1, <2>3 DEF IsChain
    <2> QED
        BY <1>1, <2>2, <2>3
<1> QED
    BY <1>4, <1>5, <1>6, <1>7 DEF IsChain

-----------------------------------------------------------------------------
(* The numbering of the backfill.                                          *)

Distinct(S) == \A e, f \in S : row[e].at = row[f].at => e = f

LEMMA RankSize ==
    ASSUME TypeOK, NEW S \in SUBSET Entries, NEW e \in S
    PROVE  /\ IsFiniteSet(UpTo(S, e)) /\ IsFiniteSet(Before(S, e))
           /\ Rank(S, e) \in Nat /\ Rank(S, e) >= 1
           /\ Cardinality(Before(S, e)) \in Nat
           /\ Rank(S, e) = Cardinality(Before(S, e)) + 1
<1>1. Before(S, e) \in SUBSET Entries
    BY DEF Before
<1>2. IsFiniteSet(Before(S, e))
    BY <1>1, EntriesAssumption, FS_Subset
<1>3. e \notin Before(S, e)
    BY DEF Before, TypeOK
<1>4. Cardinality(Before(S, e)) \in Nat
    BY <1>2, FS_CardinalityType
<1>5. /\ IsFiniteSet(Before(S, e) \cup {e})
      /\ Cardinality(Before(S, e) \cup {e}) = Cardinality(Before(S, e)) + 1
    BY <1>2, <1>3, FS_AddElement
<1>6. IsFiniteSet(UpTo(S, e)) /\ Rank(S, e) = Cardinality(Before(S, e)) + 1
    BY <1>5 DEF Rank, UpTo
<1> HIDE DEF Rank, UpTo
<1> QED
    BY <1>2, <1>4, <1>6

\* An earlier entry has a smaller rank.
LEMMA RankOrder ==
    ASSUME TypeOK, NEW S \in SUBSET Entries, NEW e \in S, NEW f \in S,
           row[e].at < row[f].at
    PROVE  Rank(S, e) < Rank(S, f)
<1>1. UpTo(S, e) \subseteq Before(S, f)
    <2>1. \A g \in S : row[g].at \in Nat
        BY DEF TypeOK
    <2> QED
        BY <2>1 DEF UpTo, Before
<1>2. Rank(S, e) <= Cardinality(Before(S, f))
    BY <1>1, RankSize, FS_Subset DEF Rank
<1> QED
    BY <1>2, RankSize

\* Rank and created_at order the entries alike.
LEMMA RankReflects ==
    ASSUME TypeOK, NEW S \in SUBSET Entries, Distinct(S), NEW e \in S, NEW f \in S
    PROVE  /\ Rank(S, e) < Rank(S, f) <=> row[e].at < row[f].at
           /\ Rank(S, e) = Rank(S, f) => e = f
<1>1. row[e].at \in Nat /\ row[f].at \in Nat
    BY DEF TypeOK
<1>2. Rank(S, e) \in Nat /\ Rank(S, f) \in Nat
    BY RankSize
<1>3. row[e].at < row[f].at => Rank(S, e) < Rank(S, f)
    BY RankOrder
<1>4. row[f].at < row[e].at => Rank(S, f) < Rank(S, e)
    BY RankOrder
<1>5. row[e].at = row[f].at => e = f
    BY DEF Distinct
<1> QED
    BY <1>1, <1>2, <1>3, <1>4, <1>5

\* backfill_chain numbers and hashes the entries of S into one chain.
LEMMA BackfillChains ==
    ASSUME TypeOK, NEW S \in SUBSET Entries, Distinct(S), row' = Backfilled(S)
    PROVE  IsChain(row', S)
<1>1. \A e \in S : row'[e].at = row[e].at /\ row'[e].seq = Rank(S, e)
    BY DEF Backfilled
<1>a. \A e \in S : /\ row'[e].prev = [f \in Before(S, e) |-> Rank(S, f)]
                   /\ row'[e].hash = [f \in UpTo(S, e) |-> Rank(S, f)]
    BY DEF Backfilled
<1>2. \A e \in S : Rank(S, e) \in Nat /\ Rank(S, e) >= 1 /\ row[e].at \in Nat
    BY RankSize DEF TypeOK
<1>3. \A e, f \in S : /\ Rank(S, e) < Rank(S, f) <=> row[e].at < row[f].at
                      /\ Rank(S, e) = Rank(S, f) => e = f
    BY RankReflects
<1>4. \A e \in S : row'[e].seq # 0 /\ row'[e].at = row[e].at
    BY <1>1, <1>2
<1>5. \A e, f \in S : row'[e].seq = row'[f].seq => e = f
    BY <1>1, <1>3
<1>6. ASSUME NEW e \in S PROVE row'[e].hash = ComputeChainHash(row'[e].prev, e)
    <2> DEFINE prev == [f \in Before(S, e) |-> Rank(S, f)]
    <2>1. DOMAIN prev = Before(S, e)
        OBVIOUS
    <2>2. Rank(S, e) = Cardinality(Before(S, e)) + 1
        BY RankSize
    <2>3. e \notin Before(S, e)
        BY <1>2 DEF Before
    <2>4. ComputeChainHash(prev, e) = [f \in UpTo(S, e) |-> Rank(S, f)]
        BY <2>1, <2>2, <2>3 DEF ComputeChainHash, UpTo
    <2> QED
        BY <1>a, <2>4
<1>7. ASSUME NEW e \in S, \A f \in S : row'[e].seq <= row'[f].seq
      PROVE  row'[e].prev = Genesis
    <2>1. Before(S, e) = {}
        <3> SUFFICES ASSUME NEW f \in S, row[f].at < row[e].at PROVE FALSE
            BY DEF Before
        <3>1. Rank(S, f) < Rank(S, e) /\ Rank(S, e) <= Rank(S, f)
            BY <1>1, <1>3, <1>7
        <3> QED
            BY <1>2, <3>1
    <2> QED
        BY <1>a, <2>1 DEF Genesis
<1>8. ASSUME NEW e \in S, NEW f \in S, row'[f].seq < row'[e].seq,
             \A g \in S : row'[g].seq < row'[e].seq => row'[g].seq <= row'[f].seq
      PROVE  row'[e].prev = row'[f].hash
    <2>1. row[f].at < row[e].at
        BY <1>1, <1>3, <1>8
    <2>2. ASSUME NEW g \in S, row[g].at < row[e].at PROVE g = f \/ row[g].at < row[f].at
        <3>1. Rank(S, g) <= Rank(S, f)
            BY <1>1, <1>3, <1>8, <2>2
        <3>2. g = f \/ Rank(S, g) < Rank(S, f)
            BY <1>2, <1>3, <3>1
        <3> QED
            BY <1>3, <3>2
    <2>3. Before(S, e) = UpTo(S, f)
        BY <1>2, <2>1, <2>2 DEF Before, UpTo
    <2> QED
        BY <1>a, <2>3
<1>9. ChainOf(row', S) = S
    BY <1>4 DEF ChainOf
<1> QED
    BY <1>5, <1>6, <1>7, <1>8, <1>9 DEF IsChain

\* The ranks of a finite set of entries are exactly the numbers up to its size.
LEMMA RanksCover ==
    ASSUME TypeOK, NEW S \in SUBSET Entries, Distinct(S)
    PROVE  {Rank(S, e) : e \in S} = 1 .. Cardinality(S)
<1> DEFINE n == Cardinality(S)
           rank == [e \in S |-> Rank(S, e)]
<1>1. IsFiniteSet(S)
    BY EntriesAssumption, FS_Subset
<1>2. n \in Nat /\ IsFiniteSet(1 .. n) /\ Cardinality(1 .. n) = n
    BY <1>1, FS_CardinalityType, FS_Interval
<1>3. \A e \in S : UpTo(S, e) \subseteq S
    BY DEF UpTo, Before
<1>4. \A e \in S : Rank(S, e) \in 1 .. n
    BY <1>1, <1>2, <1>3, RankSize, FS_Subset DEF Rank
<1>5. \A e, f \in S : Rank(S, e) = Rank(S, f) => e = f
    BY RankReflects
<1> HIDE DEF n
<1>6. rank \in Injection(S, 1 .. n)
    BY <1>4, <1>5 DEF Injection, IsInjective
<1>7. Cardinality(S) = Cardinality(1 .. n)
    BY <1>2 DEF n
<1>8. rank \in Surjection(S, 1 .. n)
    BY <1>2, <1>6, <1>7, FS_Injection
<1>9. {Rank(S, e) : e \in S} = 1 .. n
    BY <1>4, <1>8 DEF Surjection
<1> QED
    BY <1>9 DEF n

-----------------------------------------------------------------------------
(* Types.                                                                  *)

LEMMA GenesisType == IsHistory(Genesis)
BY DEF IsHistory, Genesis

\* Hashing one more entry gives a hash.
LEMMA HashType ==
    ASSUME NEW h, IsHistory(h), NEW e \in Entries
    PROVE  IsHistory(ComputeChainHash(h, e))
<1>1. DOMAIN h \in SUBSET Entries /\ \A f \in DOMAIN h : h[f] \in Nat
    BY DEF IsHistory
<1>2. Cardinality(DOMAIN h) \in Nat
    BY <1>1, EntriesAssumption, FS_Subset, FS_CardinalityType
<1> HIDE DEF Cardinality
<1> QED
    BY <1>1, <1>2 DEF IsHistory, ComputeChainHash

\* What AppendToChain puts into the row of an entry.
LEMMA AppendType ==
    ASSUME TypeOK, NEW t \in Txns, NEW e \in Entries, Append(t, e, clock)
    PROVE  /\ row' = [row EXCEPT ![e] = row'[e]]
           /\ row'[e].at = clock /\ row'[e].seq \in Nat /\ row'[e].seq # 0
           /\ IsHistory(row'[e].prev) /\ IsHistory(row'[e].hash)
<1>1. e \in DOMAIN row /\ row = [x \in Entries |-> row[x]]
    BY DEF TypeOK
<1>2. CASE row' = [row EXCEPT ![e] = [at |-> clock, seq |-> 1, prev |-> Genesis,
                                      hash |-> ComputeChainHash(Genesis, e)]]
    BY <1>1, <1>2, GenesisType, HashType
<1>3. CASE \E last \in Visible(t) :
             row' = [row EXCEPT ![e] =
                       [at |-> clock, seq |-> row[last].seq + 1, prev |-> row[last].hash,
                        hash |-> ComputeChainHash(row[last].hash, e)]]
    <2>1. PICK last \in Entries :
             row' = [row EXCEPT ![e] =
                       [at |-> clock, seq |-> row[last].seq + 1, prev |-> row[last].hash,
                        hash |-> ComputeChainHash(row[last].hash, e)]]
        BY <1>3 DEF Visible
    <2>2. row[last].seq \in Nat /\ IsHistory(row[last].hash)
        BY DEF TypeOK
    <2>3. IsHistory(ComputeChainHash(row[last].hash, e))
        BY <2>2, HashType
    <2> QED
        BY <1>1, <2>1, <2>2, <2>3
<1> QED
    BY <1>2, <1>3 DEF Append

\* The parts of TypeOK.
Shapes ==
    /\ place \in [Entries -> {"unused", "committed", "gone"} \cup Txns]
    /\ settings \in [enabled : BOOLEAN, finite : BOOLEAN]
    /\ lock \in Txns \cup {NoTxn}
    /\ txn \in [Txns -> [pc : {"idle", "lock", "work"}, began : Nat, ask : Asks]]
    /\ purge \in [pc : {"idle", "delete"}, cutoff : Nat]
    /\ clock \in Nat /\ gap \in BOOLEAN
Rows ==
    /\ row = [e \in Entries |-> row[e]]
    /\ \A e \in Entries : /\ row[e].at \in Nat /\ row[e].seq \in Nat
                         /\ IsHistory(row[e].prev) /\ IsHistory(row[e].hash)
OwnersWork == \A e \in Entries : place[e] \in Txns => txn[place[e]].pc = "work"

LEMMA TypeParts == TypeOK <=> Shapes /\ Rows /\ OwnersWork
BY DEF TypeOK, Shapes, Rows, OwnersWork

\* Ending a transaction keeps the types.
LEMMA EndTypes ==
    ASSUME Shapes, OwnersWork, NEW t \in Txns, NEW end \in {"committed", "gone"},
           place' = [e \in Entries |-> IF place[e] = t THEN end ELSE place[e]],
           txn' = [txn EXCEPT ![t] = Idle],
           lock' = IF lock = t THEN NoTxn ELSE lock,
           settings' \in [enabled : BOOLEAN, finite : BOOLEAN],
           gap' \in BOOLEAN, UNCHANGED <<purge, clock>>
    PROVE  Shapes' /\ OwnersWork'
<1>1. Idle \in [pc : {"idle", "lock", "work"}, began : Nat, ask : Asks]
    BY DEF Idle, NoAsk, Asks
<1>2. Shapes'
    BY <1>1 DEF Shapes
<1>3. OwnersWork'
    <2>1. end \notin Txns
        BY TxnsAssumption
    <2> SUFFICES ASSUME NEW e \in Entries, place'[e] \in Txns
                 PROVE  txn'[place'[e]].pc = "work"
        BY DEF OwnersWork
    <2>2. place[e] # t /\ place'[e] = place[e]
        BY <2>1
    <2> QED
        BY <2>2 DEF OwnersWork, Shapes
<1> QED
    BY <1>2, <1>3

LEMMA BlankType == \A at \in Nat :
    /\ Unchained(at).at = at /\ Unchained(at).seq = 0
    /\ IsHistory(Unchained(at).prev) /\ IsHistory(Unchained(at).hash)
BY GenesisType DEF Unchained

\* A backfilled row keeps its stamp and holds hashes.
LEMMA BackfillType ==
    ASSUME Rows, TypeOK, NEW S \in SUBSET Entries, row' = Backfilled(S)
    PROVE  Rows' /\ \A e \in Entries : row'[e].at = row[e].at
<1>1. row' = [e \in Entries |-> row'[e]]
    BY DEF Backfilled
<1>2. ASSUME NEW e \in Entries
      PROVE  /\ row'[e].at = row[e].at /\ row'[e].seq \in Nat
             /\ IsHistory(row'[e].prev) /\ IsHistory(row'[e].hash)
    <2>1. CASE e \in S
        <3> DEFINE prev == [f \in Before(S, e) |-> Rank(S, f)]
                   hash == [f \in UpTo(S, e) |-> Rank(S, f)]
        <3>1. row'[e].at = row[e].at /\ row'[e].seq = Rank(S, e)
            BY <2>1 DEF Backfilled
        <3>2. row'[e].prev = prev /\ row'[e].hash = hash
            BY <2>1 DEF Backfilled
        <3>3. \A f \in S : Rank(S, f) \in Nat
            BY RankSize
        <3>4. Before(S, e) \subseteq S /\ UpTo(S, e) \subseteq S
            BY <2>1 DEF Before, UpTo
        <3>5. IsHistory(prev)
            BY <3>3, <3>4 DEF IsHistory
        <3>6. IsHistory(hash)
            BY <3>3, <3>4 DEF IsHistory
        <3> HIDE DEF prev, hash
        <3> QED
            BY <2>1, <3>1, <3>2, <3>3, <3>5, <3>6
    <2>2. CASE e \notin S
        BY <2>2 DEF Backfilled, Rows
    <2> QED
        BY <2>1, <2>2
<1> QED
    BY <1>1, <1>2 DEF Rows

\* A row is blanked or kept.
LEMMA ResetType ==
    ASSUME Rows, NEW D, row' = [e \in Entries |-> IF e \in D THEN Unchained(0) ELSE row[e]]
    PROVE  Rows'
BY BlankType DEF Rows

LEMMA TypeInductive ==
    ASSUME TypeOK, [Next]_vars
    PROVE  TypeOK'
<1> USE DEF Txns
<1>a. Shapes /\ Rows /\ OwnersWork
    BY TypeParts
<1> SUFFICES Shapes' /\ Rows' /\ OwnersWork'
    BY DEF TypeOK, Shapes, Rows, OwnersWork
<1>b. clock + 1 \in Nat
    BY <1>a DEF Shapes
<1>1. ASSUME NEW t \in Txns, NEW ask \in Asks, WriteAuditEntry(t, ask)
      PROVE  Shapes' /\ Rows' /\ OwnersWork'
    <2>1. CASE settings.enabled
        <3>1. /\ txn[t].pc = "idle" /\ UNCHANGED <<place, row, settings, lock, purge, clock, gap>>
              /\ txn' = [txn EXCEPT ![t] = [pc |-> "lock", began |-> clock, ask |-> ask]]
            BY <1>1, <2>1 DEF WriteAuditEntry
        <3>2. Shapes'
            BY <1>a, <3>1 DEF Shapes
        <3>3. OwnersWork'
            BY <1>a, <3>1 DEF OwnersWork, Shapes
        <3> QED
            BY <1>a, <3>1, <3>2, <3>3 DEF Rows
    <2>2. CASE ~settings.enabled
        <3>1. PICK e \in Entries : /\ place[e] = "unused"
                                   /\ place' = [place EXCEPT ![e] = t]
                                   /\ row' = [row EXCEPT ![e] = Unchained(clock)]
            BY <1>1, <2>2 DEF WriteAuditEntry
        <3>2. /\ txn[t].pc = "idle" /\ UNCHANGED <<settings, lock, purge, gap>>
              /\ txn' = [txn EXCEPT ![t] = [pc |-> "work", began |-> clock, ask |-> ask]]
              /\ clock' = clock + 1
            BY <1>1, <2>2 DEF WriteAuditEntry
        <3>3. Shapes'
            BY <1>a, <1>b, <3>1, <3>2 DEF Shapes
        <3>4. Rows'
            BY <1>a, <3>1, BlankType DEF Rows, Shapes
        <3>5. OwnersWork'
            BY <1>a, <3>1, <3>2 DEF OwnersWork, Shapes
        <3> QED
            BY <3>3, <3>4, <3>5
    <2> QED
        BY <2>1, <2>2
<1>2. ASSUME NEW t \in Txns, AppendToChain(t) PROVE Shapes' /\ Rows' /\ OwnersWork'
    <2>1. PICK e \in Entries : /\ place[e] = "unused"
                               /\ place' = [place EXCEPT ![e] = t]
                               /\ Append(t, e, clock)
        BY <1>2 DEF AppendToChain
    <2>2. /\ lock' = t /\ clock' = clock + 1 /\ UNCHANGED <<settings, purge, gap>>
          /\ txn' = [txn EXCEPT ![t].pc = "work"]
        BY <1>2 DEF AppendToChain
    <2>3. Shapes'
        BY <1>a, <1>b, <2>1, <2>2 DEF Shapes
    <2>4. /\ row' = [row EXCEPT ![e] = row'[e]]
          /\ row'[e].at = clock /\ row'[e].seq \in Nat
          /\ IsHistory(row'[e].prev) /\ IsHistory(row'[e].hash)
        BY <2>1, AppendType
    <2>5. Rows'
        BY <1>a, <2>4 DEF Rows, Shapes
    <2>6. OwnersWork'
        BY <1>a, <2>1, <2>2 DEF OwnersWork, Shapes
    <2> QED
        BY <2>3, <2>5, <2>6
<1>3. ASSUME NEW t \in Txns, Undo(t) PROVE Shapes' /\ Rows' /\ OwnersWork'
    <2>1. Shapes' /\ OwnersWork'
        BY <1>a, <1>3, EndTypes DEF Undo, Shapes
    <2>2. row' = [e \in Entries |->
                    IF e \in {f \in Entries : place[f] = t} THEN Unchained(0) ELSE row[e]]
        BY <1>3 DEF Undo
    <2> QED
        BY <1>a, <2>1, <2>2, ResetType
<1>4. ASSUME NEW w \in Writers, CommitMutation(w) PROVE Shapes' /\ Rows' /\ OwnersWork'
    <2>1. Shapes' /\ OwnersWork'
        BY <1>a, <1>4, EndTypes DEF CommitMutation, Publish, Shapes
    <2> QED
        BY <1>a, <1>4, <2>1 DEF CommitMutation, Rows
<1>5. ASSUME NEW a \in Admins, EnableChain(a) PROVE Shapes' /\ Rows' /\ OwnersWork'
    <2>1. Shapes' /\ OwnersWork'
        BY <1>a, <1>5, EndTypes DEF EnableChain, Publish
    <2>2. Visible(a) \in SUBSET Entries /\ row' = Backfilled(Visible(a))
        BY <1>5 DEF EnableChain, Visible
    <2> QED
        BY <1>a, <2>1, <2>2, BackfillType
<1>6. ASSUME NEW a \in Admins, ReplaceSettings(a) PROVE Shapes' /\ Rows' /\ OwnersWork'
    <2>1. txn[a].ask \in Asks
        BY <1>a DEF Shapes
    <2>2. settings' \in [enabled : BOOLEAN, finite : BOOLEAN]
        BY <1>6, <2>1 DEF ReplaceSettings, Asks
    <2>3. Shapes' /\ OwnersWork'
        BY <1>a, <1>6, <2>2, EndTypes DEF ReplaceSettings, Publish, Shapes
    <2> QED
        BY <1>a, <1>6, <2>3 DEF ReplaceSettings, Rows
<1>7. ASSUME DecidePurge PROVE Shapes' /\ Rows' /\ OwnersWork'
    <2>1. PICK c \in 1 .. clock : purge' = [pc |-> "delete", cutoff |-> c]
        BY <1>7 DEF DecidePurge
    <2>2. c \in Nat
        BY <1>a DEF Shapes
    <2> QED
        BY <1>a, <1>7, <2>1, <2>2 DEF DecidePurge, Shapes, Rows, OwnersWork
<1>8. ASSUME PurgeRows PROVE Shapes' /\ Rows' /\ OwnersWork'
    <2>1. NoPurge \in [pc : {"idle", "delete"}, cutoff : Nat]
        BY DEF NoPurge
    <2>2. gap' \in BOOLEAN
        BY <1>a, <1>8 DEF PurgeRows, Shapes
    <2>3. Shapes'
        BY <1>a, <1>8, <2>1, <2>2 DEF PurgeRows, Shapes
    <2>4. OwnersWork'
        BY <1>a, <1>8, TxnsAssumption DEF PurgeRows, OwnersWork
    <2>5. Rows'
        BY <1>a, <1>8, ResetType DEF PurgeRows
    <2> QED
        BY <2>3, <2>4, <2>5
<1>9. ASSUME UNCHANGED vars PROVE Shapes' /\ Rows' /\ OwnersWork'
    BY <1>a, <1>9 DEF vars, Shapes, Rows, OwnersWork
<1>10. NoAsk \in Asks
    BY DEF NoAsk, Asks
<1> QED
    BY <1>1, <1>2, <1>3, <1>4, <1>5, <1>6, <1>7, <1>8, <1>9, <1>10
       DEF Next, Mutation, Settings, Rollback, BackfillFails

-----------------------------------------------------------------------------
(* The invariant, step by step.                                            *)

\* Values of place are told apart from transactions.
LEMMA Places ==
    /\ "unused" \notin Txns /\ "committed" \notin Txns /\ "gone" \notin Txns
    /\ NoTxn \notin Txns
BY TxnsAssumption

\* A fresh entry of t, stamped now: everything but its place in the chain.
LEMMA FreshEntry ==
    ASSUME Inv, NEW t \in Txns, NEW e \in Entries, place[e] = "unused",
           \A f \in Entries : place[f] # t,
           place' = [place EXCEPT ![e] = t],
           row' = [row EXCEPT ![e] = row'[e]], row'[e].at = clock,
           clock' = clock + 1, gap' = gap,
           row'[e].seq # 0 => lock = NoTxn /\ lock' = t /\ (~gap => Continues(row', Ledger, e)),
           row'[e].seq = 0 => lock' = lock
    PROVE  Stamps' /\ Owners' /\ ChainInv'
<1>1. /\ \A f \in Entries : f # e => place'[f] = place[f] /\ row'[f] = row[f]
      /\ place'[e] = t
    BY DEF Inv, TypeOK
<1>2. clock \in Nat /\ \A f \in Entries : row[f].at \in Nat
    BY DEF Inv, TypeOK
<1>3. Stamps'
    <2>1. \A f \in Present' : f = e \/ (f \in Present /\ f # e)
        BY <1>1 DEF Present
    <2>2. \A f \in Present : row[f].at < clock
        BY DEF Inv, Stamps
    <2>3. \A f \in Present' : row'[f].at < clock'
        BY <1>1, <1>2, <2>1, <2>2 DEF Present
    <2>4. \A f, g \in Present' : row'[f].at = row'[g].at => f = g
        BY <1>1, <1>2, <2>1, <2>2 DEF Inv, Stamps, Present
    <2> QED
        BY <2>3, <2>4 DEF Stamps
<1>4. \A f \in Entries : place[f] \in Txns /\ row[f].seq # 0 => place[f] = lock
    BY DEF Inv, Owners
<1>5. Owners'
    <2>1. \A f, g \in Entries : place'[f] \in Txns /\ place'[f] = place'[g] => f = g
        BY <1>1 DEF Inv, Owners
    <2>2. \A f \in Entries : place'[f] \in Txns /\ row'[f].seq # 0 => place'[f] = lock'
        BY <1>1, <1>4, Places
    <2> QED
        BY <2>1, <2>2 DEF Owners
<1>6. ChainInv'
    <2> SUFFICES ASSUME ~gap
                 PROVE  /\ IsChain(row', Ledger')
                        /\ \A f \in Entries : place'[f] \in Txns /\ row'[f].seq # 0
                                                => Continues(row', Ledger', f)
        BY DEF ChainInv
    <2>1. Ledger' = Ledger /\ e \notin Ledger
        BY <1>1, Places DEF Ledger
    <2>2. \A f \in Ledger : row'[f] = row[f]
        BY <1>1, <2>1 DEF Ledger
    <2>3. /\ ChainOf(row, Ledger) = ChainOf(row', Ledger')
          /\ \A f \in ChainOf(row, Ledger) : row'[f] = row[f]
        BY <2>1, <2>2 DEF ChainOf
    <2>4. IsChain(row, Ledger)
        BY DEF Inv, ChainInv
    <2>5. IsChain(row', Ledger')
        BY <2>3, <2>4, SameChain
    <2>6. ASSUME NEW f \in Entries, place'[f] \in Txns, row'[f].seq # 0
          PROVE  Continues(row', Ledger', f)
        <3>1. CASE f = e
            BY <2>1, <2>6, <3>1
        <3>2. CASE f # e
            <4>1. place[f] \in Txns /\ row[f].seq # 0 /\ row'[f] = row[f]
                BY <1>1, <2>6, <3>2
            <4>2. Continues(row, Ledger, f)
                BY <4>1 DEF Inv, ChainInv
            <4> QED
                BY <2>3, <4>1, <4>2, SameTail
        <3> QED
            BY <3>1, <3>2
    <2> QED
        BY <2>5, <2>6
<1> QED
    BY <1>3, <1>5, <1>6

\* The entry AppendToChain writes continues the ledger's chain.
LEMMA AppendContinues ==
    ASSUME Inv, NEW t \in Txns, NEW e \in Entries, e \notin Ledger, Visible(t) = Ledger,
           Append(t, e, clock), IsChain(row, Ledger)
    PROVE  Continues(row', Ledger, e)
<1>1. e \in DOMAIN row
    BY DEF Inv, TypeOK
<1>2. \A f \in Ledger : row'[f] = row[f]
    <2>1. row' = [row EXCEPT ![e] = row'[e]]
        BY AppendType DEF Inv
    <2> QED
        BY <2>1 DEF Ledger, Inv, TypeOK
<1>3. ChainOf(row', Ledger) = ChainOf(row, Ledger) /\ Chained(Ledger) = ChainOf(row, Ledger)
    BY <1>2 DEF ChainOf, Chained
<1>4. \A f \in ChainOf(row, Ledger) : row'[f] = row[f] /\ row[f].seq \in Nat
    BY <1>2 DEF ChainOf, Ledger, Inv, TypeOK
<1>5. CASE Chained(Ledger) = {} /\
           row' = [row EXCEPT ![e] = [at |-> clock, seq |-> 1, prev |-> Genesis,
                                      hash |-> ComputeChainHash(Genesis, e)]]
    <2>1. ChainOf(row', Ledger) = {}
        BY <1>3, <1>5
    <2>2. row'[e].prev = Genesis /\ row'[e].hash = ComputeChainHash(row'[e].prev, e)
        BY <1>1, <1>5
    <2> QED
        BY <2>1, <2>2 DEF Continues
<1>6. ASSUME NEW last \in Ledger, IsTail(last, Ledger),
             row' = [row EXCEPT ![e] =
                       [at |-> clock, seq |-> row[last].seq + 1, prev |-> row[last].hash,
                        hash |-> ComputeChainHash(row[last].hash, e)]]
      PROVE  Continues(row', Ledger, e)
    <2> DEFINE C == ChainOf(row, Ledger)
    <2>1. last \in C /\ \A f \in C : row[f].seq <= row[last].seq
        BY <1>3, <1>6 DEF IsTail
    <2>2. /\ row'[e].seq = row[last].seq + 1 /\ row'[e].prev = row[last].hash
          /\ row'[e].hash = ComputeChainHash(row'[e].prev, e)
        BY <1>1, <1>6
    <2>3. \A f \in C : row'[f].seq < row'[e].seq
        BY <1>4, <2>1, <2>2
    <2>4. ASSUME NEW f \in C, \A g \in C : row'[g].seq <= row'[f].seq
          PROVE  row'[e].prev = row'[f].hash
        <3>1. row[last].seq <= row[f].seq /\ row[f].seq <= row[last].seq
            BY <1>4, <2>1, <2>4
        <3>2. row[last].seq = row[f].seq
            BY <1>4, <2>1, <3>1
        <3>3. last = f
            BY <2>1, <3>2 DEF IsChain
        <3> QED
            BY <1>4, <2>2, <3>3
    <2> HIDE DEF C
    <2>5. ChainOf(row', Ledger) = C
        BY <1>3 DEF C
    <2>6. C # {}
        BY <2>1
    <2> QED
        BY <2>2, <2>3, <2>4, <2>5, <2>6 DEF Continues
<1> QED
    BY <1>5, <1>6 DEF Append

\* Committing t: its entry, if any, joins the ledger.
LEMMA CommitStep ==
    ASSUME Inv, NEW t \in Txns, Publish(t), UNCHANGED <<row, clock, gap>>
    PROVE  Stamps' /\ Owners' /\ ChainInv'
<1>1. \A f \in Entries : place'[f] = IF place[f] = t THEN "committed" ELSE place[f]
    BY DEF Publish
<1>2. Stamps'
    BY <1>1, Places DEF Inv, Stamps, Present
<1>3. \A f \in Entries : place'[f] \in Txns => place'[f] = place[f] /\ place[f] # t
    BY <1>1, Places
<1>4. Owners'
    BY <1>3 DEF Inv, Owners, Publish
<1>5. ChainInv'
    <2> SUFFICES ASSUME ~gap
                 PROVE  /\ IsChain(row, Ledger')
                        /\ \A f \in Entries : place'[f] \in Txns /\ row[f].seq # 0
                                                => Continues(row, Ledger', f)
        BY DEF ChainInv
    <2>1. IsChain(row, Ledger)
        BY DEF Inv, ChainInv
    <2>2. CASE \E e \in Entries : place[e] = t /\ row[e].seq # 0
        <3>1. PICK e \in Entries : place[e] = t /\ row[e].seq # 0
            BY <2>2
        <3>2. Ledger' = Ledger \cup {e} /\ e \notin Ledger
            BY <1>1, <3>1, Places DEF Ledger, Inv, Owners
        <3>3. Continues(row, Ledger, e)
            BY <3>1 DEF Inv, ChainInv
        <3>4. \A x \in Ledger \cup {e} : row[x].seq \in Nat
            BY DEF Inv, TypeOK, Ledger
        <3>5. IsChain(row, Ledger')
            BY <2>1, <3>1, <3>2, <3>3, <3>4, ExtendChain
        <3>6. lock = t
            BY <3>1 DEF Inv, Owners
        <3>7. \A f \in Entries : ~(place'[f] \in Txns /\ row[f].seq # 0)
            BY <1>3, <3>6 DEF Inv, Owners
        <3> QED
            BY <3>5, <3>7
    <2>3. CASE \A e \in Entries : place[e] = t => row[e].seq = 0
        <3>1. ChainOf(row, Ledger') = ChainOf(row, Ledger)
            BY <1>1, <2>3 DEF ChainOf, Ledger
        <3>2. IsChain(row, Ledger')
            BY <2>1, <3>1, SameChain
        <3>3. ASSUME NEW f \in Entries, place'[f] \in Txns, row[f].seq # 0
              PROVE  Continues(row, Ledger', f)
            <4>1. Continues(row, Ledger, f)
                BY <1>3, <3>3 DEF Inv, ChainInv
            <4> QED
                BY <3>1, <4>1, SameTail
        <3> QED
            BY <3>2, <3>3
    <2> QED
        BY <2>2, <2>3
<1> QED
    BY <1>2, <1>4, <1>5

\* Entries leave, none of them a chained one of the ledger.
LEMMA LeaveStep ==
    ASSUME Inv, NEW D \in SUBSET Entries,
           place' = [e \in Entries |-> IF e \in D THEN "gone" ELSE place[e]],
           row' = [e \in Entries |-> IF e \in D THEN Unchained(0) ELSE row[e]],
           clock' = clock,
           \A e \in Entries \ D : place[e] = lock => lock' = lock \/ lock \notin Txns,
           ~gap' => ~gap /\ \A e \in D \cap Ledger : row[e].seq = 0
    PROVE  Stamps' /\ Owners' /\ ChainInv'
<1>1. /\ \A f \in Entries \ D : place'[f] = place[f] /\ row'[f] = row[f]
      /\ \A f \in D : place'[f] = "gone"
    OBVIOUS
<1>2. Stamps'
    <2>1. \A f \in Present' : f \in Present /\ row'[f] = row[f]
        BY <1>1 DEF Present
    <2> QED
        BY <2>1 DEF Stamps, Inv
<1>3. \A f \in Entries : place'[f] \in Txns
                           => f \notin D /\ place'[f] = place[f] /\ row'[f] = row[f]
    BY <1>1, Places
<1>4. Owners'
    <2>1. \A f, g \in Entries : place'[f] \in Txns /\ place'[f] = place'[g] => f = g
        BY <1>3 DEF Inv, Owners
    <2>2. \A f \in Entries : place'[f] \in Txns /\ row'[f].seq # 0 => place'[f] = lock'
        BY <1>3 DEF Inv, Owners
    <2> QED
        BY <2>1, <2>2 DEF Owners
<1>5. ASSUME ~gap'
      PROVE  /\ IsChain(row', Ledger')
             /\ \A f \in Entries : place'[f] \in Txns /\ row'[f].seq # 0
                                     => Continues(row', Ledger', f)
    <2>1. Ledger' = Ledger \ D
        BY <1>1 DEF Ledger
    <2>2. \A f \in Ledger' : row'[f] = row[f]
        BY <1>1, <2>1 DEF Ledger
    <2>3. ChainOf(row', Ledger') = ChainOf(row, Ledger)
        BY <1>5, <2>1, <2>2 DEF ChainOf
    <2>4. \A f \in ChainOf(row, Ledger) : row'[f] = row[f]
        BY <2>2, <2>3 DEF ChainOf
    <2>5. IsChain(row', Ledger')
        BY <1>5, <2>3, <2>4, SameChain DEF Inv, ChainInv
    <2>6. ASSUME NEW f \in Entries, place'[f] \in Txns, row'[f].seq # 0
          PROVE  Continues(row', Ledger', f)
        <3>1. row'[f] = row[f] /\ place'[f] = place[f]
            BY <1>3, <2>6
        <3>2. Continues(row, Ledger, f)
            BY <1>5, <2>6, <3>1 DEF Inv, ChainInv
        <3> QED
            BY <2>3, <2>4, <3>1, <3>2, SameTail
    <2> QED
        BY <2>5, <2>6
<1> QED
    BY <1>2, <1>4, <1>5 DEF ChainInv

\* The backfill chains all that becomes the ledger; nothing chained stays pending.
LEMMA EnableStep ==
    ASSUME Inv, NEW a \in Admins, EnableChain(a)
    PROVE  Stamps' /\ Owners' /\ ChainInv'
<1> DEFINE S == Visible(a)
<1>1. /\ S \in SUBSET Entries /\ row' = Backfilled(S)
      /\ lock \in {NoTxn, a} /\ a \in Txns
    BY DEF EnableChain, MayApply, Visible, Txns
<1>2. /\ \A f \in Entries : place'[f] = IF place[f] = a THEN "committed" ELSE place[f]
      /\ lock' = (IF lock = a THEN NoTxn ELSE lock) /\ clock' = clock
    BY DEF EnableChain, Publish
<1>3. \A f \in Entries : row'[f].at = row[f].at
    BY <1>1, BackfillType, TypeParts DEF Inv
<1>4. Present' \subseteq Present
    BY <1>1, <1>2, Places DEF Present
<1>5. Stamps'
    BY <1>2, <1>3, <1>4 DEF Inv, Stamps, Present
<1>6. \A f \in Entries : place'[f] \in Txns
                           => place'[f] = place[f] /\ f \notin S /\ row'[f] = row[f]
    BY <1>1, <1>2, Places DEF Visible, Backfilled
<1>7. \A f \in Entries : ~(place'[f] \in Txns /\ row'[f].seq # 0)
    <2> SUFFICES ASSUME NEW f \in Entries, place'[f] \in Txns, row'[f].seq # 0
                 PROVE  FALSE
        OBVIOUS
    <2>1. place[f] = lock /\ place[f] \in Txns /\ place[f] # a
        BY <1>1, <1>6 DEF Inv, Owners, Visible
    <2> QED
        BY <1>1, <2>1, Places
<1>8. Owners'
    BY <1>6, <1>7 DEF Inv, Owners
<1>9. Distinct(S)
    BY <1>1, Places DEF Distinct, Inv, Stamps, Present, Visible
<1>10. Ledger' = S
    BY <1>1, <1>2, Places DEF Ledger, Visible
<1>11. IsChain(row', S)
    BY <1>1, <1>9, BackfillChains DEF Inv
<1> HIDE DEF S
<1> QED
    BY <1>5, <1>7, <1>8, <1>10, <1>11 DEF ChainInv

\* AppendToChain writes under the lock, where no other chained entry is pending.
LEMMA AppendStep ==
    ASSUME Inv, NEW t \in Txns, AppendToChain(t)
    PROVE  Stamps' /\ Owners' /\ ChainInv'
<1>1. PICK e \in Entries : /\ place[e] = "unused"
                           /\ place' = [place EXCEPT ![e] = t]
                           /\ Append(t, e, clock)
    BY DEF AppendToChain
<1>2. /\ txn[t].pc = "lock" /\ lock = NoTxn /\ lock' = t
      /\ clock' = clock + 1 /\ gap' = gap
    BY DEF AppendToChain
<1>3. \A f \in Entries : place[f] # t
    BY <1>2 DEF Inv, TypeOK
<1>4. Visible(t) = Ledger /\ e \notin Ledger
    BY <1>1, <1>3 DEF Visible, Ledger
<1>5. /\ row' = [row EXCEPT ![e] = row'[e]]
      /\ row'[e].at = clock /\ row'[e].seq # 0
    BY <1>1, AppendType DEF Inv
<1>6. ~gap => Continues(row', Ledger, e)
    BY <1>1, <1>4, AppendContinues DEF Inv, ChainInv
<1> QED
    BY <1>1, <1>2, <1>3, <1>5, <1>6, FreshEntry

\* WriteAuditEntry asks for the lock or writes an unchained entry.
LEMMA WriteStep ==
    ASSUME Inv, NEW t \in Txns, NEW ask \in Asks, WriteAuditEntry(t, ask)
    PROVE  Stamps' /\ Owners' /\ ChainInv'
<1>1. CASE settings.enabled
    BY <1>1 DEF WriteAuditEntry, Inv, Stamps, Owners, ChainInv, Present, Ledger
<1>2. CASE ~settings.enabled
    <2>1. PICK e \in Entries : /\ place[e] = "unused"
                               /\ place' = [place EXCEPT ![e] = t]
                               /\ row' = [row EXCEPT ![e] = Unchained(clock)]
        BY <1>2 DEF WriteAuditEntry
    <2>2. /\ txn[t].pc = "idle" /\ clock' = clock + 1 /\ gap' = gap /\ lock' = lock
        BY <1>2 DEF WriteAuditEntry
    <2>3. \A f \in Entries : place[f] # t
        BY <2>2 DEF Inv, TypeOK
    <2>4. row'[e] = Unchained(clock) /\ row' = [row EXCEPT ![e] = row'[e]]
        BY <2>1 DEF Inv, TypeOK
    <2>5. row'[e].at = clock /\ row'[e].seq = 0
        BY <2>4 DEF Unchained
    <2> QED
        BY <2>1, <2>2, <2>3, <2>4, <2>5, FreshEntry
<1> QED
    BY <1>1, <1>2

\* A transaction is undone: its entry was not in the ledger.
LEMMA UndoStep ==
    ASSUME Inv, NEW t \in Txns, Undo(t)
    PROVE  Stamps' /\ Owners' /\ ChainInv'
<1> DEFINE D == {e \in Entries : place[e] = t}
<1>1. /\ place' = [e \in Entries |-> IF e \in D THEN "gone" ELSE place[e]]
      /\ row' = [e \in Entries |-> IF e \in D THEN Unchained(0) ELSE row[e]]
      /\ clock' = clock /\ gap' = gap /\ lock' = IF lock = t THEN NoTxn ELSE lock
    BY DEF Undo
<1>2. D \cap Ledger = {}
    BY Places DEF Ledger
<1>3. \A e \in Entries \ D : place[e] = lock => lock' = lock
    BY <1>1
<1> HIDE DEF D
<1>4. D \in SUBSET Entries
    BY DEF D
<1> QED
    BY <1>1, <1>2, <1>3, <1>4, LeaveStep

\* The purge job deletes committed entries; a chained one among them is a gap.
LEMMA PurgeStep ==
    ASSUME Inv, PurgeRows
    PROVE  Stamps' /\ Owners' /\ ChainInv'
<1>1. Expired \in SUBSET Entries /\ Expired \subseteq Ledger
    BY DEF Expired, Ledger
<1>2. ~gap' => ~gap /\ \A e \in Expired \cap Ledger : row[e].seq = 0
    BY DEF PurgeRows, Chained
<1> QED
    BY <1>1, <1>2, LeaveStep DEF PurgeRows

LEMMA InvInductive ==
    ASSUME Inv, [Next]_vars
    PROVE  Inv'
<1>1. TypeOK'
    BY TypeInductive DEF Inv
<1> SUFFICES Stamps' /\ Owners' /\ ChainInv'
    BY <1>1 DEF Inv
<1>2. NoAsk \in Asks
    BY DEF NoAsk, Asks
<1>3. ASSUME NEW w \in Writers, Mutation(w) PROVE Stamps' /\ Owners' /\ ChainInv'
    <2>1. CASE CommitMutation(w)
        BY <2>1, CommitStep DEF CommitMutation, Txns
    <2> QED
        BY <1>2, <1>3, <2>1, WriteStep DEF Mutation, Txns
<1>4. ASSUME NEW a \in Admins, Settings(a) PROVE Stamps' /\ Owners' /\ ChainInv'
    <2>1. CASE \E ask \in Asks : WriteAuditEntry(a, ask)
        BY <2>1, WriteStep DEF Txns
    <2>2. CASE EnableChain(a)
        BY <2>2, EnableStep
    <2>3. CASE BackfillFails(a)
        BY <2>3, UndoStep DEF BackfillFails, Txns
    <2>4. CASE ReplaceSettings(a)
        BY <2>4, CommitStep DEF ReplaceSettings, Txns
    <2> QED
        BY <1>4, <2>1, <2>2, <2>3, <2>4 DEF Settings
<1>5. ASSUME NEW t \in Txns, AppendToChain(t) \/ Rollback(t)
      PROVE  Stamps' /\ Owners' /\ ChainInv'
    BY <1>5, AppendStep, UndoStep DEF Rollback
<1>6. ASSUME DecidePurge PROVE Stamps' /\ Owners' /\ ChainInv'
    BY <1>6 DEF DecidePurge, Inv, Stamps, Owners, ChainInv, Present, Ledger
<1>7. ASSUME UNCHANGED vars PROVE Stamps' /\ Owners' /\ ChainInv'
    BY <1>7 DEF vars, Inv, Stamps, Owners, ChainInv, Present, Ledger
<1> QED
    BY <1>3, <1>4, <1>5, <1>6, <1>7, PurgeStep DEF Next

LEMMA InitInv == Init => Inv
<1> SUFFICES ASSUME Init PROVE Inv
    OBVIOUS
<1>1. \A e \in Entries : place[e] = "unused" /\ row[e] = Unchained(0)
    BY DEF Init
<1>2. TypeOK
    <2>1. Shapes
        BY DEF Init, Shapes, Idle, NoAsk, Asks, NoPurge
    <2>2. Rows
        BY <1>1, BlankType DEF Init, Rows
    <2>3. OwnersWork
        BY <1>1, Places DEF OwnersWork
    <2> QED
        BY <2>1, <2>2, <2>3, TypeParts
<1>3. Stamps /\ Owners
    BY <1>1, Places DEF Stamps, Owners, Present
<1>4. ChainInv
    BY <1>1, Places DEF ChainInv, IsChain, ChainOf, Ledger
<1> QED
    BY <1>2, <1>3, <1>4 DEF Inv

-----------------------------------------------------------------------------
(* The theorems.                                                           *)

\* Every reachable state has the declared shape, and a pending audit entry belongs
\* to a request that is at work.
THEOREM AuditTypes == Spec => []TypeOK
<1>1. Init => TypeOK
    BY InitInv DEF Inv
<1> QED
    BY <1>1, TypeInductive, PTL DEF Spec

\* However many requests audit, switch the chain, fail or are rolled back, the
\* ledger passes verify_chain and has no fork, until the purge job takes a chained
\* entry out of it.
THEOREM ChainStaysIntact == Spec => []ChainIntact
<1>1. Inv => ChainIntact
    BY ChainVerifies DEF Inv, ChainInv, ChainIntact
<1> QED
    BY <1>1, InitInv, InvInductive, PTL DEF Spec

\* Only a settings request switches the chain on, and its backfill numbers every
\* entry that becomes the ledger, its own included, from 1 and without a hole.
THEOREM BackfillIsComplete == Spec => BackfillCoversHistory
<1> DEFINE Covers == settings'.enabled /\ ~settings.enabled
                       => {row'[e].seq : e \in Ledger'} = 1 .. Cardinality(Ledger')
<1>1. ASSUME Inv, [Next]_vars, settings'.enabled, ~settings.enabled
      PROVE  {row'[e].seq : e \in Ledger'} = 1 .. Cardinality(Ledger')
    <2>1. PICK a \in Admins : EnableChain(a) \/ ReplaceSettings(a)
        <3>1. ASSUME NEW t \in Txns, AppendToChain(t) \/ Rollback(t) PROVE UNCHANGED settings
            BY <3>1 DEF AppendToChain, Rollback, Undo
        <3>2. ASSUME NEW w \in Writers, Mutation(w) PROVE UNCHANGED settings
            BY <3>2 DEF Mutation, WriteAuditEntry, CommitMutation
        <3>3. ASSUME NEW a \in Admins, NEW ask \in Asks, WriteAuditEntry(a, ask)
              PROVE  UNCHANGED settings
            BY <3>3 DEF WriteAuditEntry
        <3>4. ASSUME NEW a \in Admins, BackfillFails(a) PROVE UNCHANGED settings
            BY <3>4 DEF BackfillFails, Undo
        <3>5. DecidePurge \/ PurgeRows \/ UNCHANGED vars => UNCHANGED settings
            BY DEF DecidePurge, PurgeRows, vars
        <3> QED
            BY <1>1, <3>1, <3>2, <3>3, <3>4, <3>5 DEF Next, Settings
    <2>2. ~ReplaceSettings(a)
        BY <1>1 DEF ReplaceSettings
    <2>3. EnableChain(a)
        BY <2>1, <2>2
    <2> DEFINE S == Visible(a)
    <2>4. S \in SUBSET Entries /\ row' = Backfilled(S) /\ a \in Txns
        BY <2>3 DEF EnableChain, Visible, Txns
    <2>5. Ledger' = S
        BY <2>3, <2>4, Places DEF EnableChain, Publish, Ledger, Visible
    <2>6. Distinct(S)
        BY <1>1, <2>4, Places DEF Distinct, Inv, Stamps, Present, Visible
    <2>7. \A e \in S : row'[e].seq = Rank(S, e)
        BY <2>4 DEF Backfilled
    <2> HIDE DEF S
    <2>8. {Rank(S, e) : e \in S} = 1 .. Cardinality(S)
        BY <1>1, <2>4, <2>6, RanksCover DEF Inv
    <2>9. {row'[e].seq : e \in S} = {Rank(S, e) : e \in S}
        BY <2>7
    <2> QED
        BY <2>5, <2>8, <2>9
<1>2. Inv /\ [Next]_vars => [Covers]_vars
    BY <1>1
<1> QED
    BY <1>2, InitInv, InvInductive, PTL DEF Spec, BackfillCoversHistory

-----------------------------------------------------------------------------
(* The account's credentials, beside gatekey-sync.                         *)

Minting == {"create", "approve", "signIn"}
Sweeping == {"sweepKeys", "sweepSessions", "sweepCreds"}

\* What a call carries at each of its steps.
CallShape(q) ==
    /\ q.pc \in {"lock", "mint"} => q.team \in Teams /\ q.op \in {"create", "approve"}
    /\ q.pc = "attach" => q.op = "approve" /\ q.cred \in CredIds
    /\ q.op = "approve" => q.code \in Codes
    /\ q.op = "setActive" <=> q.pc \in {"flag"} \cup Sweeping
    /\ q.pc \in Sweeping => ~q.to

AccountTypes ==
    /\ off \in BOOLEAN /\ made \in 0..MaxSecrets
    /\ key \in [KeyIds -> Key] /\ cred \in [CredIds -> Cred] /\ session \in [SessionIds -> Session]
    /\ code \in [Codes -> Code] /\ rowLock \in [Teams -> Calls \cup {None}]
    /\ call \in [Calls -> Call] /\ \A c \in Calls : CallShape(call[c])

ClientTypes ==
    /\ keyring \in CredIds \cup {None} /\ cache \in 0..MaxSecrets
    /\ proc \in [Procs -> Process]
    /\ \A p \in Procs : proc[p].pc = "polling" => proc[p].code \in Codes

\* A call that has counted holds the lock of its membership until it mints.
Taken == {t \in Teams : rowLock[t] # None}
Counted ==
    /\ \A t \in Taken : call[rowLock[t]].pc = "mint" /\ call[rowLock[t]].team = t
    /\ \A c \in Calls : call[c].pc = "mint" => rowLock[call[c].team] = c
    /\ Cardinality(Live(key)) + Cardinality(Taken) <= Cap + (Cardinality(Teams) - 1)

\* What a deactivation has left behind so far: nothing it began with, and
\* nothing minted before it swept.
Swept(q) ==
    /\ q.pc \in Sweeping => /\ q.before.keys \cap Free(key) = {}
                            /\ q.before.sessions \cap Free(session) = {}
    /\ q.pc \in {"sweepSessions", "sweepCreds"} =>
          \A k \in Live(key) \ q.swept.keys : key[k].late /\ k \notin q.before.keys
    /\ q.pc = "sweepCreds" =>
          \A s \in Live(session) \ q.swept.sessions : session[s].late /\ s \notin q.before.sessions
\* A call that mints for a deactivated account.
Excused(q) == q.op \in Minting => q.early \/ q.by = "lead"

CutOff ==
    /\ DeactivationCutsOff
    /\ \A c \in Calls : Swept(call[c]) /\ (off => Excused(call[c]))

\* A refresh credential between its commit and its delivery.
Attaching(c) == call[c].pc = "attach"
Offered ==
    /\ given \in [CredIds -> {0, 1}] /\ \A i \in CredIds : given[i] = 1 => cred[i].status # "free"
    /\ \A d \in Codes : code[d].status = "approved" <=> code[d].cred # None
    /\ \A d \in Codes : code[d].cred # None =>
          /\ given[code[d].cred] = 0 /\ cred[code[d].cred].status # "free"
          /\ \A e \in Codes : code[d].cred = code[e].cred => d = e
    /\ \A c \in Calls : Attaching(c) =>
          /\ given[call[c].cred] = 0 /\ cred[call[c].cred].status # "free"
          /\ \A d \in Codes : code[d].cred # call[c].cred
          /\ \A e \in Calls : Attaching(e) /\ call[c].cred = call[e].cred => c = e

ServerInv == AccountTypes /\ Counted /\ CutOff /\ Offered
AccountInv == ServerInv /\ ClientTypes

-----------------------------------------------------------------------------
(* Calls and tables.                                                       *)

LEMMA RestShape == Rest \in Call /\ CallShape(Rest) /\ Rest.pc = "idle" /\ Rest.op = "none"
BY DEF Rest, Call, CallShape, Tables, NoRows, Sweeping

\* The call of slot c becomes w; the others stay.
Becomes(c, w) ==
    /\ call' = [call EXCEPT ![c] = w]
    /\ w \in Call /\ CallShape(w)

LEMMA BecomesOne ==
    ASSUME call \in [Calls -> Call], \A d \in Calls : CallShape(call[d]), NEW c \in Calls, NEW w,
           Becomes(c, w)
    PROVE  /\ call' \in [Calls -> Call] /\ \A d \in Calls : CallShape(call'[d])
           /\ call'[c] = w /\ \A d \in Calls : d # c => call'[d] = call[d]
BY DEF Becomes

LEMMA DoneBecomes == ASSUME NEW c \in Calls, Done(c) PROVE Becomes(c, Rest)
BY RestShape DEF Done, Becomes

LEMMA OpenAre ==
    ASSUME AccountTypes
    PROVE  Open = {c \in Calls : call[c].pc \in Sweeping}
BY DEF AccountTypes, CallShape, Open, Sweeping

LEMMA TablesAre ==
    ASSUME AccountTypes
    PROVE  /\ Live(key) = {k \in KeyIds : key[k].status = "live"}
           /\ Free(key) = {k \in KeyIds : key[k].status = "free"}
           /\ Live(session) = {s \in SessionIds : session[s].status = "live"}
           /\ Free(session) = {s \in SessionIds : session[s].status = "free"}
           /\ Live(cred) = {i \in CredIds : cred[i].status = "live"}
           /\ Free(cred) = {i \in CredIds : cred[i].status = "free"}
           /\ IsFiniteSet(KeyIds) /\ IsFiniteSet(Teams)
BY CredentialsAssumption DEF AccountTypes, Live, Free

\* No key, no lock and no mint in progress is added.
LEMMA CountedKept ==
    ASSUME AccountTypes, Counted, Live(key)' \subseteq Live(key), rowLock' = rowLock,
           \A d \in Calls : call[d].pc = "mint" <=> call'[d].pc = "mint",
           \A d \in Calls : call[d].pc = "mint" => call'[d].team = call[d].team
    PROVE  Counted'
<1>1. IsFiniteSet(Live(key)) /\ IsFiniteSet(Live(key)')
    <2>1. Live(key) \subseteq KeyIds /\ IsFiniteSet(KeyIds)
        BY TablesAre
    <2> QED BY <2>1, FS_Subset
<1>2. Cardinality(Live(key)') <= Cardinality(Live(key))
    BY <1>1, FS_Subset
<1>3. Taken' = Taken /\ IsFiniteSet(Taken)
    BY TablesAre, FS_Subset DEF Taken
<1>4. /\ Cardinality(Live(key)) \in Nat /\ Cardinality(Live(key)') \in Nat /\ Cardinality(Taken) \in Nat
      /\ Cap \in Nat /\ Cardinality(Teams) \in Nat
    BY <1>1, <1>3, TablesAre, FS_CardinalityType, CredentialsAssumption
<1>5. \A t \in Taken : rowLock[t] \in Calls
    BY DEF Taken, AccountTypes
<1>6. Cardinality(Live(key)') + Cardinality(Taken') <= Cap + (Cardinality(Teams) - 1)
    BY <1>2, <1>3, <1>4 DEF Counted
<1>7. \A t \in Taken' : call'[rowLock'[t]].pc = "mint" /\ call'[rowLock'[t]].team = t
    BY <1>3, <1>5 DEF Counted
<1>8. \A d \in Calls : call'[d].pc = "mint" => rowLock'[call'[d].team] = d
    BY DEF Counted
<1> QED BY <1>6, <1>7, <1>8 DEF Counted

\* The rows stay, and the account is not deactivated.
LEMMA CutOffKept ==
    ASSUME CutOff, UNCHANGED rows, off' => off,
           \A d \in Calls : \/ call'[d] = call[d]
                            \/ /\ call'[d].pc \notin Sweeping
                               /\ off' => Excused(call'[d])
    PROVE  CutOff'
<1>1. \A q : Swept(q) <=> Swept(q)'
    BY DEF Swept, rows, Live, Free
<1>2. \A q : q.pc \notin Sweeping => Swept(q)
    BY DEF Swept, Sweeping
<1>3. DeactivationCutsOff'
    BY DEF CutOff, DeactivationCutsOff, rows, Live
<1>4. ASSUME NEW d \in Calls PROVE Swept(call[d])' /\ (off' => Excused(call'[d]))
    <2>1. PICK q : q = call'[d]
        OBVIOUS
    <2>2. Swept(q)' /\ (off' => Excused(q))
        BY <1>1, <1>2, <2>1 DEF CutOff
    <2>3. Swept(q)' <=> Swept(call[d])'
        BY <2>1 DEF Swept
    <2> QED BY <2>1, <2>2, <2>3
<1> QED BY <1>3, <1>4 DEF CutOff, Excused

\* Nothing is offered, delivered or attached.
LEMMA OfferedKept ==
    ASSUME Offered, UNCHANGED <<code, given>>, AccountTypes,
           \A i \in CredIds : cred'[i].status = "free" => cred[i].status = "free",
           \A d \in Calls : Attaching(d)' => Attaching(d) /\ call'[d].cred = call[d].cred
    PROVE  Offered'
<1>1. \A d \in Codes : code[d].cred \in CredIds \cup {None}
    BY DEF AccountTypes, Code
<1>2. \A d \in Calls : Attaching(d) => call[d].cred \in CredIds
    BY DEF AccountTypes, CallShape, Attaching
<1> QED BY <1>1, <1>2 DEF Offered
\* A call that moves on, ends or begins, and writes nothing.
LEMMA MoveKeeps ==
    ASSUME ServerInv, UNCHANGED <<off, rows, code, rowLock, made, given>>,
           NEW c \in Calls, NEW w, Becomes(c, w), call[c].pc # "mint",
           w.pc \notin {"mint", "attach"} \cup Sweeping, off => Excused(w)
    PROVE  ServerInv'
<1>1. /\ AccountTypes /\ call' \in [Calls -> Call] /\ \A d \in Calls : CallShape(call'[d])
      /\ call'[c] = w /\ \A d \in Calls : d # c => call'[d] = call[d]
    BY BecomesOne DEF ServerInv, AccountTypes
<1>2. AccountTypes'
    BY <1>1 DEF AccountTypes, rows
<1>3. Counted'
    BY <1>1, CountedKept DEF ServerInv, rows, Live
<1>4. CutOff'
    BY <1>1, CutOffKept DEF ServerInv
<1>5. Offered'
    BY <1>1, OfferedKept DEF ServerInv, rows, Attaching
<1> QED BY <1>2, <1>3, <1>4, <1>5 DEF ServerInv

\* A request that is let in while the account is deactivated is not its owner's.
Starts(c) ==
    /\ call[c].pc = "idle"
    /\ \E w : /\ Becomes(c, w) /\ w.pc \in {"lock", "load", "commit", "flag"}
              /\ off => Excused(w)
    /\ UNCHANGED <<off, rows, code, rowLock, made>>

LEMMA StartKeeps == ASSUME ServerInv, NEW c \in Calls, Starts(c), UNCHANGED given PROVE ServerInv'
<1>1. PICK w : Becomes(c, w) /\ w.pc \in {"lock", "load", "commit", "flag"} /\ (off => Excused(w))
    BY DEF Starts
<1> QED BY <1>1, MoveKeeps DEF Starts, Sweeping

LEMMA TakenStarts ==
    ASSUME NEW c \in Calls, NEW op, NEW by, NEW q, Take(c, op, by, q),
           NEW w, w = [q EXCEPT !.op = op, !.by = by],
           w \in Call, CallShape(w), w.pc \in {"lock", "load", "commit", "flag"}, off => Excused(w),
           UNCHANGED <<off, rows, code, rowLock, made>>
    PROVE  Starts(c)
BY DEF Take, Starts, Becomes

LEMMA CallsStart == ASSUME ServerInv, NEW c \in Calls, CallStarts(c) PROVE Starts(c)
<1> DEFINE W(pc, op, by, t, k, d, s, to, saw) ==
        [pc |-> pc, op |-> op, by |-> by, team |-> t, key |-> k, cred |-> None, code |-> d,
         session |-> s, to |-> to, saw |-> saw, early |-> FALSE, swept |-> NoRows, before |-> NoRows]
<1>0. Tables = [keys : SUBSET KeyIds, sessions : SUBSET SessionIds, creds : SUBSET CredIds]
      /\ NoRows \in Tables
    BY DEF Tables, NoRows
<1>1. ASSUME NEW t \in Teams, CreateOwnKey(c, t) \/ CreateMemberKey(c, t) PROVE Starts(c)
    <2>1. PICK by \in {"owner", "lead"} :
             /\ Take(c, "create", by, [Rest EXCEPT !.pc = "lock", !.team = t])
             /\ off /\ AccountTypes => by = "lead"
             /\ UNCHANGED <<off, rows, code, rowLock, made>>
        BY <1>1 DEF CreateOwnKey, CreateMemberKey, Begin, Owner, SignedIn
    <2>2. PICK w : w = [[Rest EXCEPT !.pc = "lock", !.team = t] EXCEPT !.op = "create", !.by = by]
        OBVIOUS
    <2>3. w = W("lock", "create", by, t, None, None, None, FALSE, FALSE)
        BY <2>2 DEF Rest
    <2>4. w \in Call /\ CallShape(w) /\ w.pc = "lock" /\ (off => Excused(w))
        BY <1>0, <2>1, <2>3 DEF Call, CallShape, Sweeping, Excused, Minting, ServerInv
    <2> QED BY <2>1, <2>2, <2>4, TakenStarts
<1>2. ASSUME NEW d \in Codes, NEW t \in Teams, ApproveDevice(c, d, t) PROVE Starts(c)
    <2>1. /\ Take(c, "approve", "owner", [Rest EXCEPT !.pc = "lock", !.team = t, !.code = d])
          /\ ~off /\ UNCHANGED <<off, rows, code, rowLock, made>>
        BY <1>2 DEF ApproveDevice, Begin, Owner, SignedIn
    <2>2. PICK w : w = [[Rest EXCEPT !.pc = "lock", !.team = t, !.code = d] EXCEPT !.op = "approve", !.by = "owner"]
        OBVIOUS
    <2>3. w = W("lock", "approve", "owner", t, None, d, None, FALSE, FALSE)
        BY <2>2 DEF Rest
    <2>4. w \in Call /\ CallShape(w) /\ w.pc = "lock" /\ (off => Excused(w))
        BY <1>0, <2>1, <2>3 DEF Call, CallShape, Sweeping, Excused, Minting
    <2> QED BY <2>1, <2>2, <2>4, TakenStarts
<1>3. ASSUME NEW k \in KeyIds, NEW op \in {"regenerate", "revoke"}, NEW by \in {"owner", "lead"},
             Change(c, op, by, k)
      PROVE  Starts(c)
    <2>1. /\ Take(c, op, by, [Rest EXCEPT !.pc = "load", !.key = k])
          /\ UNCHANGED <<off, rows, code, rowLock, made>>
        BY <1>3 DEF Change, Begin
    <2>2. PICK w : w = [[Rest EXCEPT !.pc = "load", !.key = k] EXCEPT !.op = op, !.by = by]
        OBVIOUS
    <2>3. w = W("load", op, by, None, k, None, None, FALSE, FALSE)
        BY <2>2 DEF Rest
    <2>4. w \in Call /\ CallShape(w) /\ w.pc = "load" /\ (off => Excused(w))
        BY <1>0, <2>1, <2>3 DEF Call, CallShape, Sweeping, Excused, Minting
    <2> QED BY <2>1, <2>2, <2>4, TakenStarts
<1>4. ASSUME SsoCallback(c) PROVE Starts(c)
    <2>1. /\ Take(c, "signIn", "owner", [Rest EXCEPT !.pc = "commit"])
          /\ ~off /\ UNCHANGED <<off, rows, code, rowLock, made>>
        BY <1>4 DEF SsoCallback, Begin
    <2>2. PICK w : w = [[Rest EXCEPT !.pc = "commit"] EXCEPT !.op = "signIn", !.by = "owner"]
        OBVIOUS
    <2>3. w = W("commit", "signIn", "owner", None, None, None, None, FALSE, FALSE)
        BY <2>2 DEF Rest
    <2>4. w \in Call /\ CallShape(w) /\ w.pc = "commit" /\ (off => Excused(w))
        BY <1>0, <2>1, <2>3 DEF Call, CallShape, Sweeping, Excused, Minting
    <2> QED BY <2>1, <2>2, <2>4, TakenStarts
<1>5. ASSUME NEW s \in SessionIds, Logout(c, s) PROVE Starts(c)
    <2>1. /\ Take(c, "logout", "owner", [Rest EXCEPT !.pc = "commit", !.session = s])
          /\ UNCHANGED <<off, rows, code, rowLock, made>>
        BY <1>5 DEF Logout, Begin
    <2>2. PICK w : w = [[Rest EXCEPT !.pc = "commit", !.session = s] EXCEPT !.op = "logout", !.by = "owner"]
        OBVIOUS
    <2>3. w = W("commit", "logout", "owner", None, None, None, s, FALSE, FALSE)
        BY <2>2 DEF Rest
    <2>4. w \in Call /\ CallShape(w) /\ w.pc = "commit" /\ (off => Excused(w))
        BY <1>0, <2>1, <2>3 DEF Call, CallShape, Sweeping, Excused, Minting
    <2> QED BY <2>1, <2>2, <2>4, TakenStarts
<1>6. ASSUME NEW active \in BOOLEAN, LoadUser(c, active) PROVE Starts(c)
    <2>1. /\ Take(c, "setActive", "idp", [Rest EXCEPT !.pc = "flag", !.to = active, !.saw = off])
          /\ UNCHANGED <<off, rows, code, rowLock, made>> /\ off \in BOOLEAN
        BY <1>6 DEF LoadUser, Begin, ServerInv, AccountTypes
    <2>2. PICK w : w = [[Rest EXCEPT !.pc = "flag", !.to = active, !.saw = off] EXCEPT !.op = "setActive", !.by = "idp"]
        OBVIOUS
    <2>3. w = W("flag", "setActive", "idp", None, None, None, None, active, off)
        BY <2>2 DEF Rest
    <2>4. w \in Call /\ CallShape(w) /\ w.pc = "flag" /\ (off => Excused(w))
        BY <1>0, <2>1, <2>3 DEF Call, CallShape, Sweeping, Excused, Minting
    <2> QED BY <2>1, <2>2, <2>4, TakenStarts
<1>7. ASSUME NEW t \in Teams, NEW to \in BOOLEAN, LoadGroup(c, t, to) PROVE Starts(c)
    <2>a. IsMember(t) \in BOOLEAN
        BY DEF IsMember
    <2>0. PICK saw \in BOOLEAN : saw = IsMember(t)
        BY <2>a
    <2>1. /\ Take(c, "setMember", "idp", [Rest EXCEPT !.pc = "commit", !.team = t, !.to = to, !.saw = saw])
          /\ UNCHANGED <<off, rows, code, rowLock, made>>
        BY <1>7, <2>0 DEF LoadGroup, Begin
    <2>2. PICK w : w = [[Rest EXCEPT !.pc = "commit", !.team = t, !.to = to, !.saw = saw] EXCEPT !.op = "setMember", !.by = "idp"]
        OBVIOUS
    <2>3. w = W("commit", "setMember", "idp", t, None, None, None, to, saw)
        BY <2>2 DEF Rest
    <2>4. w \in Call /\ CallShape(w) /\ w.pc = "commit" /\ (off => Excused(w))
        BY <1>0, <2>1, <2>3 DEF Call, CallShape, Sweeping, Excused, Minting
    <2> QED BY <2>1, <2>2, <2>4, TakenStarts
<1> HIDE DEF W
<1> QED BY <1>1, <1>2, <1>3, <1>4, <1>5, <1>6, <1>7
        DEF CallStarts, RegenerateOwnKey, RegenerateMemberKey, AdminRegenerateKey, RevokeOwnKey,
            RevokeMemberKey, AdminRevokeKey, PatchUser, ReplaceUser, DeleteUser, PatchGroup, ReplaceGroup
\* create_personal_key up to the count: the lock is free, and the cap not
\* reached, so that every other lock may still bring its key.
LEMMA LockKeeps == ASSUME ServerInv, NEW c \in Calls, LockMembership(c), UNCHANGED given PROVE ServerInv'
<1>0. PICK t \in Teams : t = call[c].team /\ call[c].pc = "lock" /\ rowLock[t] = None
    BY DEF ServerInv, AccountTypes, CallShape, LockMembership
<1>1. CASE Done(c) /\ UNCHANGED rowLock
    <2>1. Becomes(c, Rest) /\ Rest.pc = "idle" /\ Rest.op = "none"
        BY <1>1, DoneBecomes, RestShape
    <2> QED BY <1>0, <1>1, <2>1, MoveKeeps DEF LockMembership, Sweeping, Excused, Minting
<1>2. CASE Goto(c, "mint") /\ rowLock' = [rowLock EXCEPT ![t] = c] /\ Cardinality(Live(key)) < Cap
    <2>0. PICK w : w = [call[c] EXCEPT !.pc = "mint"]
        OBVIOUS
    <2>1. /\ call' = [call EXCEPT ![c] = w] /\ AccountTypes /\ CallShape(call[c]) /\ call[c] \in Call
          /\ UNCHANGED <<off, rows, code, made>>
        BY <1>2, <2>0 DEF Goto, LockMembership, ServerInv, AccountTypes
    <2>2. w.pc = "mint" /\ w.op = call[c].op /\ w.team = t /\ w.early = call[c].early /\ w.by = call[c].by
          /\ w.code = call[c].code
        BY <1>0, <2>0, <2>1 DEF Call
    <2>3. w \in Call
        BY <2>0, <2>1 DEF Call
    <2>4. CallShape(w)
        BY <1>0, <2>1, <2>2 DEF CallShape, Sweeping
    <2>5. /\ call' \in [Calls -> Call] /\ \A d \in Calls : CallShape(call'[d])
          /\ call'[c] = w /\ \A d \in Calls : d # c => call'[d] = call[d]
        BY <2>1, <2>3, <2>4, BecomesOne DEF AccountTypes, Becomes
    <2>6. rowLock' \in [Teams -> Calls \cup {None}] /\ rowLock'[t] = c
          /\ \A u \in Teams : u # t => rowLock'[u] = rowLock[u]
        BY <1>2, <2>1 DEF AccountTypes
    <2>7. AccountTypes'
        BY <2>1, <2>5, <2>6 DEF AccountTypes, rows
    <2>8. Counted'
        <3>1. None \notin Calls
            BY CredentialsAssumption
        <3>2. \A u \in Taken' : call'[rowLock'[u]].pc = "mint" /\ call'[rowLock'[u]].team = u
            BY <1>0, <2>1, <2>2, <2>5, <2>6 DEF ServerInv, Counted, Taken, AccountTypes
        <3>3. ASSUME NEW d \in Calls, call'[d].pc = "mint" PROVE rowLock'[call'[d].team] = d
            <4>1. CASE d = c
                BY <2>2, <2>5, <2>6, <4>1
            <4>2. CASE d # c
                <5>1. rowLock[call[d].team] = d /\ call[d].team \in Teams
                    BY <2>1, <2>5, <3>3, <4>2 DEF ServerInv, Counted, AccountTypes, CallShape
                <5> QED BY <1>0, <2>5, <2>6, <3>1, <4>2, <5>1
            <4> QED BY <4>1, <4>2
        <3>4. IsFiniteSet(Teams) /\ IsFiniteSet(KeyIds) /\ Live(key) \subseteq KeyIds
            BY <2>1, TablesAre
        <3>5. Cardinality(Taken') <= Cardinality(Teams) /\ IsFiniteSet(Taken') /\ IsFiniteSet(Live(key))
            BY <3>4, FS_Subset DEF Taken
        <3>6. /\ Cardinality(Live(key)) \in Nat /\ Cardinality(Taken') \in Nat
              /\ Cardinality(Teams) \in Nat /\ Cap \in Nat /\ Live(key)' = Live(key)
            BY <2>1, <3>4, <3>5, FS_CardinalityType, CredentialsAssumption DEF rows, Live
        <3>7. Cardinality(Live(key)') + Cardinality(Taken') <= Cap + (Cardinality(Teams) - 1)
            BY <1>2, <3>5, <3>6
        <3> QED BY <3>2, <3>3, <3>7 DEF Counted
    <2>9. CutOff'
        BY <1>0, <2>1, <2>2, <2>5, CutOffKept DEF ServerInv, CutOff, Excused, Sweeping
    <2>10. Offered'
        BY <2>1, <2>2, <2>5, OfferedKept DEF ServerInv, Attaching, rows, LockMembership
    <2> QED BY <2>7, <2>8, <2>9, <2>10 DEF ServerInv
<1> QED BY <1>0, <1>1, <1>2 DEF LockMembership
\* The insert of a key by the holder of a lock, which ends with the commit.
LEMMA MintKeeps ==
    ASSUME ServerInv, NEW c \in Calls, call[c].pc = "mint", NEW k \in Free(key),
           made < MaxSecrets, made' = made + 1, NewKey(c, k), Release(c),
           NEW w, Becomes(c, w), w.pc \notin {"mint"} \cup Sweeping, off => Excused(w),
           UNCHANGED <<off, session, code>>, cred' \in [CredIds -> Cred],
           \A i \in CredIds : cred'[i] = cred[i] \/ cred'[i].late = Survives(c)
    PROVE  AccountTypes' /\ Counted' /\ CutOff'
<1>0. PICK t \in Teams : t = call[c].team /\ call[c].op \in {"create", "approve"}
    BY DEF ServerInv, AccountTypes, CallShape
<1>1. /\ AccountTypes /\ call' \in [Calls -> Call] /\ \A d \in Calls : CallShape(call'[d])
      /\ call'[c] = w /\ \A d \in Calls : d # c => call'[d] = call[d]
    BY BecomesOne DEF ServerInv, AccountTypes
<1>2. PICK late \in BOOLEAN : late = Survives(c)
    <2>1. Survives(c) \in BOOLEAN
        BY DEF Survives
    <2> QED BY <2>1
<1>3. k \in KeyIds /\ key[k].status = "free"
    BY <1>1, TablesAre
<1>4. PICK rec : rec = [status |-> "live", team |-> t, secret |-> made', late |-> late]
    OBVIOUS
<1>5. rec \in Key /\ rec.status = "live" /\ rec.late = late
    BY <1>1, <1>4, CredentialsAssumption DEF Key, Status, AccountTypes
<1>6. key' = [key EXCEPT ![k] = rec]
    BY <1>0, <1>2, <1>4 DEF NewKey
<1>7. key' \in [KeyIds -> Key] /\ key'[k] = rec /\ \A i \in KeyIds : i # k => key'[i] = key[i]
    BY <1>1, <1>3, <1>5, <1>6 DEF AccountTypes
<1>8. /\ Live(key)' = Live(key) \cup {k} /\ Free(key)' = Free(key) \ {k} /\ k \notin Live(key)
      /\ Live(session)' = Live(session) /\ Free(session)' = Free(session)
    <2>1. Live(key)' = {i \in KeyIds : key'[i].status = "live"} /\ Free(key)' = {i \in KeyIds : key'[i].status = "free"}
        BY <1>7 DEF Live, Free
    <2> QED BY <1>1, <1>3, <1>5, <1>7, <2>1, TablesAre DEF Live, Free
<1>9. /\ rowLock' \in [Teams -> Calls \cup {None}]
      /\ \A u \in Teams : rowLock'[u] = IF rowLock[u] = c THEN None ELSE rowLock[u]
    BY <1>1 DEF Release, AccountTypes
<1>10. AccountTypes'
    BY <1>1, <1>7, <1>9, CredentialsAssumption DEF AccountTypes
<1>11. None \notin Calls
    BY CredentialsAssumption
<1>12. Taken' = Taken \ {t} /\ t \in Taken
    <2>1. rowLock[t] = c /\ \A u \in Teams : rowLock[u] = c => u = t
        BY <1>0, <1>11 DEF ServerInv, Counted, Taken
    <2> QED BY <1>9, <1>11, <2>1 DEF Taken
<1>13. Counted'
    <2>1. \A u \in Taken' : call'[rowLock'[u]].pc = "mint" /\ call'[rowLock'[u]].team = u
        BY <1>1, <1>9 DEF ServerInv, Counted, Taken, AccountTypes
    <2>2. \A d \in Calls : call'[d].pc = "mint" => rowLock'[call'[d].team] = d
        BY <1>1, <1>9 DEF ServerInv, Counted, AccountTypes, CallShape
    <2>3. IsFiniteSet(Live(key)) /\ IsFiniteSet(Taken) /\ IsFiniteSet(Teams)
        BY <1>1, TablesAre, FS_Subset DEF Taken
    <2>a. Cardinality(Live(key)') = Cardinality(Live(key)) + 1
        BY <1>8, <2>3, FS_AddElement
    <2>4. /\ Cardinality(Live(key)') = Cardinality(Live(key)) + 1
          /\ Cardinality(Taken') = Cardinality(Taken) - 1
        BY <1>12, <2>a, <2>3, FS_RemoveElement
    <2>5. /\ Cardinality(Live(key)) \in Nat /\ Cardinality(Taken) \in Nat
          /\ Cap \in Nat /\ Cardinality(Teams) \in Nat
        BY <2>3, FS_CardinalityType, CredentialsAssumption
    <2> QED BY <2>1, <2>2, <2>4, <2>5 DEF ServerInv, Counted
<1>14. /\ off => late
       /\ \A d \in Calls : call[d].pc \in Sweeping => late
    BY <1>0, <1>1, <1>2, OpenAre DEF Survives, ServerInv, CutOff, Excused, Minting
<1>15. CutOff'
    <2>1. DeactivationCutsOff'
        <3>1. ASSUME off', NEW i \in Live(cred)' PROVE cred'[i].late
            <4>1. i \in CredIds /\ cred'[i].status = "live"
                BY <3>1 DEF Live
            <4> QED BY <1>1, <1>2, <1>14, <3>1, <4>1, TablesAre DEF ServerInv, CutOff, DeactivationCutsOff
        <3> QED BY <1>1, <1>5, <1>7, <1>8, <1>14, <3>1, TablesAre
                DEF ServerInv, CutOff, DeactivationCutsOff
    <2>2. ASSUME NEW d \in Calls PROVE Swept(call[d])' /\ (off' => Excused(call'[d]))
        <3>1. CASE d = c
            BY <1>1, <3>1 DEF Swept, Sweeping
        <3>2. CASE d # c
            <4>1. call'[d] = call[d] /\ Swept(call[d]) /\ (off => Excused(call[d]))
                BY <1>1, <3>2 DEF ServerInv, CutOff
            <4>2. call[d].pc \in Sweeping => k \notin call[d].before.keys
                BY <4>1 DEF Swept
            <4>3. Swept(call[d])'
                BY <1>1, <1>5, <1>7, <1>8, <1>14, <4>1, <4>2, TablesAre DEF Swept, Sweeping
            <4> QED BY <4>1, <4>3
        <3> QED BY <3>1, <3>2
    <2> QED BY <2>1, <2>2 DEF CutOff, Excused
<1> QED BY <1>10, <1>13, <1>15
LEMMA KeyMints == ASSUME ServerInv, NEW c \in Calls, MintKey(c), UNCHANGED given PROVE ServerInv'
<1>1. PICK k \in Free(key) : NewKey(c, k)
    BY DEF MintKey, Next1
<1>2. /\ Becomes(c, Rest) /\ call[c].pc = "mint" /\ Rest.pc = "idle" /\ ~Attaching(c)'
      /\ off => Excused(Rest)
    <2>1. Becomes(c, Rest) /\ Rest.pc = "idle" /\ Rest.op = "none"
        BY DoneBecomes, RestShape DEF MintKey
    <2> QED BY <2>1, BecomesOne DEF ServerInv, AccountTypes, Attaching, MintKey, Excused, Minting
<1>3. AccountTypes' /\ Counted' /\ CutOff'
    BY <1>1, <1>2, MintKeeps DEF MintKey, Sweeping, ServerInv, AccountTypes
<1>4. Offered'
    BY <1>2, OfferedKept, BecomesOne DEF MintKey, ServerInv, AccountTypes, Attaching
<1> QED BY <1>3, <1>4 DEF ServerInv

\* approve_device_auth's credential belongs to nobody yet.
LEMMA CredentialMints == ASSUME ServerInv, NEW c \in Calls, MintCredential(c), UNCHANGED given PROVE ServerInv'
<1>1. PICK k \in Free(key), i \in Free(cred) :
         /\ NewKey(c, k) /\ NewCred(c, i, k)
         /\ call' = [call EXCEPT ![c].pc = "attach", ![c].cred = i]
    BY DEF MintCredential, Next1
<1>0. AccountTypes /\ i \in CredIds /\ cred[i].status = "free" /\ k \in KeyIds /\ call[c].pc = "mint"
      /\ call[c] \in Call /\ CallShape(call[c]) /\ call[c].op = "approve" /\ None \notin CredIds
      /\ None \notin Codes
    BY TablesAre, CredentialsAssumption DEF ServerInv, AccountTypes, MintCredential
<1>2. PICK w : w = [call[c] EXCEPT !.pc = "attach", !.cred = i]
    OBVIOUS
<1>3. /\ call' = [call EXCEPT ![c] = w] /\ w \in Call /\ CallShape(w) /\ w.pc = "attach" /\ w.cred = i
      /\ off => Excused(w)
    <2>1. w \in Call /\ w.pc = "attach" /\ w.cred = i /\ w.op = call[c].op /\ w.code = call[c].code
          /\ w.early = call[c].early /\ w.by = call[c].by
        BY <1>0, <1>2 DEF Call
    <2>2. call' = [call EXCEPT ![c] = w]
        BY <1>0, <1>1, <1>2 DEF AccountTypes
    <2> QED BY <1>0, <2>1, <2>2 DEF CallShape, Sweeping, Excused, ServerInv, CutOff
<1>4. Becomes(c, w)
    BY <1>3 DEF Becomes
<1>5. /\ call'[c] = w /\ \A d \in Calls : d # c => call'[d] = call[d]
    BY <1>0, <1>4, BecomesOne DEF AccountTypes
<1>6. PICK rec : rec = [status |-> "live", key |-> k, late |-> Survives(c)]
    OBVIOUS
<1>7. rec \in Cred /\ rec.late = Survives(c) /\ rec.status = "live"
    <2>1. Survives(c) \in BOOLEAN
        BY DEF Survives
    <2> QED BY <1>0, <1>6, <2>1 DEF Cred, Status
<1>8. cred' \in [CredIds -> Cred] /\ cred'[i] = rec /\ \A j \in CredIds : j # i => cred'[j] = cred[j]
    BY <1>0, <1>1, <1>6, <1>7 DEF NewCred, AccountTypes
<1>9. AccountTypes' /\ Counted' /\ CutOff'
    BY <1>0, <1>1, <1>3, <1>4, <1>7, <1>8, MintKeeps DEF MintCredential, Sweeping
<1>10. Offered'
    <2>1. \A d \in Codes : code[d].cred # i
        BY <1>0 DEF ServerInv, Offered
    <2>2. given[i] = 0 /\ \A d \in Calls : Attaching(d) => call[d].cred # i
        BY <1>0 DEF ServerInv, Offered
    <2>3. code' = code /\ given' = given
        BY DEF MintCredential
    <2>4. ASSUME NEW j \in CredIds PROVE cred'[j].status = "free" => cred[j].status = "free" /\ j # i
        BY <1>7, <1>8
    <2>5. ASSUME NEW d \in Codes, code[d].cred # None PROVE code[d].cred \in CredIds
        BY <1>0, <2>5 DEF AccountTypes, Code
    <2>6. ASSUME NEW d \in Calls, Attaching(d)'
          PROVE  /\ call'[d].cred \in CredIds /\ given[call'[d].cred] = 0
                 /\ cred'[call'[d].cred].status # "free"
                 /\ \A e \in Codes : code[e].cred # call'[d].cred
                 /\ \A e \in Calls : Attaching(e)' /\ call'[d].cred = call'[e].cred => d = e
        <3>1. CASE d = c
            <4>1. call'[d].cred = i /\ cred'[i].status # "free"
                BY <1>3, <1>5, <1>7, <1>8, <3>1
            <4>2. ASSUME NEW e \in Calls, e # c, Attaching(e)' PROVE call'[e].cred # i
                BY <1>5, <2>2, <4>2 DEF Attaching
            <4> QED BY <1>0, <2>1, <2>2, <3>1, <4>1, <4>2
        <3>2. CASE d # c
            <4>1. Attaching(d) /\ call'[d] = call[d] /\ call[d].cred \in CredIds /\ call[d].cred # i
                BY <1>0, <1>5, <2>2, <2>6, <3>2 DEF Attaching, AccountTypes, CallShape
            <4> QED BY <1>3, <1>5, <2>4, <4>1 DEF ServerInv, Offered, Attaching
        <3> QED BY <3>1, <3>2
    <2> QED BY <2>3, <2>4, <2>5, <2>6 DEF ServerInv, Offered
<1> QED BY <1>9, <1>10 DEF ServerInv
\* DeviceAuthStore.approve
LEMMA AttachKeeps == ASSUME ServerInv, NEW c \in Calls, AttachCredential(c), UNCHANGED given PROVE ServerInv'
<1>0. PICK d \in Codes, i \in CredIds : d = call[c].code /\ i = call[c].cred
    BY DEF ServerInv, AccountTypes, CallShape, AttachCredential
<1>1. AccountTypes /\ Attaching(c) /\ None \notin CredIds /\ UNCHANGED <<off, rows, rowLock, made, given>>
    BY CredentialsAssumption DEF AttachCredential, ServerInv, Attaching
<1>2. Becomes(c, Rest) /\ Rest.pc = "idle" /\ (off => Excused(Rest))
    BY DoneBecomes, RestShape DEF AttachCredential, Excused, Minting
<1>3. /\ call' \in [Calls -> Call] /\ \A e \in Calls : CallShape(call'[e])
      /\ call'[c] = Rest /\ \A e \in Calls : e # c => call'[e] = call[e]
    BY <1>1, <1>2, BecomesOne DEF AccountTypes
<1>4. /\ code' \in [Codes -> Code] /\ \A e \in Codes : e # d => code'[e] = code[e]
      /\ code'[d] = code[d] \/ (code'[d].status = "approved" /\ code'[d].cred = i)
    <2>1. PICK rec : rec = [status |-> "approved", cred |-> i]
        OBVIOUS
    <2>2. rec \in Code /\ rec.status = "approved" /\ rec.cred = i
        BY <2>1 DEF Code
    <2>3. code' = [code EXCEPT ![d] = rec] \/ code' = code
        BY <1>0, <2>1 DEF AttachCredential
    <2> QED BY <1>1, <2>2, <2>3 DEF AccountTypes
<1>5. AccountTypes'
    BY <1>1, <1>3, <1>4 DEF AccountTypes, rows
<1>6. Counted'
    BY <1>1, <1>2, <1>3, CountedKept DEF ServerInv, rows, Live, Attaching
<1>7. CutOff'
    BY <1>1, <1>2, <1>3, CutOffKept DEF ServerInv, Sweeping
<1>8. Offered'
    <2>1. \A e \in Calls : Attaching(e)' => e # c /\ Attaching(e) /\ call'[e] = call[e]
        BY <1>2, <1>3 DEF Attaching
    <2>2. \A e \in Calls : Attaching(e) /\ e # c => call[e].cred # i
        BY <1>0, <1>1 DEF ServerInv, Offered
    <2>3. given[i] = 0 /\ cred[i].status # "free" /\ \A e \in Codes : code[e].cred # i
        BY <1>0, <1>1 DEF ServerInv, Offered
    <2> QED BY <1>1, <1>4, <2>1, <2>2, <2>3 DEF ServerInv, Offered, rows
<1> QED BY <1>5, <1>6, <1>7, <1>8 DEF ServerInv

LEMMA LoadKeeps == ASSUME ServerInv, NEW c \in Calls, LoadKey(c), UNCHANGED given PROVE ServerInv'
<1>1. call[c].pc = "load" /\ call[c] \in Call /\ CallShape(call[c]) /\ (off => Excused(call[c]))
    BY DEF LoadKey, ServerInv, AccountTypes, CutOff
<1>2. CASE Done(c)
    <2>1. Becomes(c, Rest) /\ Rest.pc = "idle" /\ Rest.op = "none"
        BY <1>2, DoneBecomes, RestShape
    <2> QED BY <1>1, <2>1, MoveKeeps DEF LoadKey, Sweeping, Excused, Minting
<1>3. CASE Goto(c, "commit")
    <2>1. PICK w : w = [call[c] EXCEPT !.pc = "commit"]
        OBVIOUS
    <2>2. w \in Call /\ w.pc = "commit" /\ w.op = call[c].op /\ w.code = call[c].code
          /\ w.early = call[c].early /\ w.by = call[c].by
        BY <1>1, <2>1 DEF Call
    <2>3. Becomes(c, w) /\ (off => Excused(w))
        BY <1>1, <1>3, <2>1, <2>2 DEF Goto, Becomes, CallShape, Sweeping, Excused
    <2> QED BY <1>1, <2>2, <2>3, MoveKeeps DEF LoadKey, Sweeping
<1> QED BY <1>2, <1>3 DEF LoadKey

\* What a write may do to a table of rows: revoke some.
RowsEnd(t, S, R) ==
    /\ t' \in [S -> R]
    /\ \A r \in S : /\ t'[r].status = "live" => t[r].status = "live"
                    /\ t'[r].status = "free" => t[r].status = "free"
                    /\ t'[r].late = t[r].late
KeysEnd == RowsEnd(key, KeyIds, Key)
SessionsEnd == RowsEnd(session, SessionIds, Session)

\* A call that ends: what it writes adds no live row, revives none, and forgets
\* no late one.
LEMMA EndKeeps ==
    ASSUME ServerInv, NEW c \in Calls, call[c].pc # "mint", Done(c),
           UNCHANGED <<cred, code, rowLock, given>>, off' => off, off' \in BOOLEAN,
           made' \in 0..MaxSecrets, KeysEnd, SessionsEnd
    PROVE  ServerInv'
<1>1. AccountTypes /\ Becomes(c, Rest) /\ Rest.pc = "idle" /\ Excused(Rest)
    BY DoneBecomes, RestShape DEF ServerInv, Excused, Minting
<1>2. /\ call' \in [Calls -> Call] /\ \A e \in Calls : CallShape(call'[e])
      /\ call'[c] = Rest /\ \A e \in Calls : e # c => call'[e] = call[e]
    BY <1>1, BecomesOne DEF AccountTypes
<1>a. /\ key' \in [KeyIds -> Key] /\ session' \in [SessionIds -> Session]
      /\ \A k \in KeyIds : /\ key'[k].status = "live" => key[k].status = "live"
                           /\ key'[k].status = "free" => key[k].status = "free"
                           /\ key'[k].late = key[k].late
      /\ \A s \in SessionIds : /\ session'[s].status = "live" => session[s].status = "live"
                               /\ session'[s].status = "free" => session[s].status = "free"
                               /\ session'[s].late = session[s].late
    BY DEF KeysEnd, SessionsEnd, RowsEnd
<1>3. AccountTypes'
    BY <1>1, <1>2, <1>a DEF AccountTypes
<1>4. /\ Live(key)' \subseteq Live(key) /\ Free(key)' \subseteq Free(key)
      /\ Live(session)' \subseteq Live(session) /\ Free(session)' \subseteq Free(session)
      /\ Live(cred)' = Live(cred) /\ Live(key) \subseteq KeyIds /\ Live(session) \subseteq SessionIds
    BY <1>1, <1>a, TablesAre DEF Live, Free
<1>5. Counted'
    BY <1>1, <1>2, <1>4, CountedKept DEF ServerInv
<1>6. CutOff'
    <2>1. DeactivationCutsOff'
        BY <1>4, <1>a DEF ServerInv, CutOff, DeactivationCutsOff
    <2>2. ASSUME NEW d \in Calls PROVE Swept(call[d])' /\ (off' => Excused(call'[d]))
        <3>1. CASE d = c
            BY <1>1, <1>2, <3>1 DEF Swept, Sweeping
        <3>2. CASE d # c
            <4>1. call'[d] = call[d] /\ Swept(call[d]) /\ (off => Excused(call[d]))
                BY <1>2, <3>2 DEF ServerInv, CutOff
            <4>2. Swept(call[d])'
                BY <1>4, <1>a, <4>1 DEF Swept
            <4> QED BY <4>1, <4>2
        <3> QED BY <3>1, <3>2
    <2> QED BY <2>1, <2>2 DEF CutOff, Excused
<1>7. Offered'
    BY <1>1, <1>2, OfferedKept DEF ServerInv, Attaching
<1> QED BY <1>3, <1>5, <1>6, <1>7 DEF ServerInv

\* regenerate_personal_key writes a new hash; nothing else of the row changes.
LEMMA SecretKept ==
    ASSUME AccountTypes, NEW k, NewSecret(k)
    PROVE  /\ made' \in 0..MaxSecrets /\ key' \in [KeyIds -> Key]
           /\ \A i \in KeyIds : key'[i].status = key[i].status /\ key'[i].late = key[i].late
<1>1. made' = made + 1 /\ made < MaxSecrets /\ made \in 0..MaxSecrets /\ MaxSecrets \in Nat
      /\ key \in [KeyIds -> Key] /\ key' = [key EXCEPT ![k].secret = made']
    BY CredentialsAssumption DEF NewSecret, AccountTypes
<1>2. made' \in 0..MaxSecrets
    BY <1>1
<1>3. PICK rec : rec = [key[k] EXCEPT !.secret = made']
    OBVIOUS
<1>4. key' = [key EXCEPT ![k] = rec]
    BY <1>1, <1>3
<1>5. CASE k \in KeyIds
    <2>1. rec \in Key /\ rec.status = key[k].status /\ rec.late = key[k].late
        BY <1>1, <1>2, <1>3, <1>5 DEF Key
    <2> QED BY <1>1, <1>2, <1>4, <1>5, <2>1
<1>6. CASE k \notin KeyIds
    BY <1>1, <1>2, <1>4, <1>6
<1> QED BY <1>5, <1>6

LEMMA RegenerateKeeps ==
    ASSUME ServerInv, NEW c \in Calls, CommitRegenerate(c), UNCHANGED given
    PROVE  ServerInv'
<1>0. AccountTypes /\ call[c].pc # "mint" /\ off \in BOOLEAN
    BY DEF ServerInv, CommitRegenerate, AccountTypes
<1>1. KeysEnd /\ made' \in 0..MaxSecrets
    BY <1>0, SecretKept DEF CommitRegenerate, KeysEnd, RowsEnd
<1>2. SessionsEnd
    BY <1>0 DEF CommitRegenerate, SessionsEnd, RowsEnd, AccountTypes
<1>3. Done(c) /\ UNCHANGED <<off, cred, code, rowLock, given>>
    BY DEF CommitRegenerate
<1> QED BY <1>0, <1>1, <1>2, <1>3, EndKeeps

\* A row of a table of records, revoked.
LEMMA RevokeKeeps ==
    ASSUME ServerInv, NEW c \in Calls, CommitRevoke(c) \/ RevokeSession(c), UNCHANGED given
    PROVE  ServerInv'
<1>0. AccountTypes /\ call[c].pc # "mint"
    BY DEF ServerInv, CommitRevoke, RevokeSession
<1>1. CASE CommitRevoke(c)
    <2>1. PICK r : r = [key[call[c].key] EXCEPT !.status = "revoked"]
        OBVIOUS
    <2>2. key' = [key EXCEPT ![call[c].key] = r] /\ key \in [KeyIds -> Key]
        BY <1>0, <1>1, <2>1 DEF CommitRevoke, AccountTypes
    <2>3. ASSUME call[c].key \in KeyIds PROVE KeysEnd
        <3>1. r \in Key /\ r.status = "revoked" /\ r.late = key[call[c].key].late
            BY <2>1, <2>2, <2>3 DEF Key, Status
        <3> QED BY <2>2, <2>3, <3>1 DEF KeysEnd, RowsEnd
    <2>4. ASSUME call[c].key \notin KeyIds PROVE KeysEnd
        BY <2>2, <2>4 DEF KeysEnd, RowsEnd
    <2>5. SessionsEnd /\ off \in BOOLEAN /\ made' \in 0..MaxSecrets
        BY <1>0, <1>1 DEF CommitRevoke, AccountTypes, SessionsEnd, RowsEnd
    <2>6. Done(c) /\ UNCHANGED <<off, cred, code, rowLock, given>>
        BY <1>1 DEF CommitRevoke
    <2>7. KeysEnd
        BY <2>3, <2>4
    <2> QED BY <1>0, <2>5, <2>6, <2>7, EndKeeps
<1>2. CASE RevokeSession(c)
    <2>1. PICK r : r = [session[call[c].session] EXCEPT !.status = "revoked"]
        OBVIOUS
    <2>2. session' = [session EXCEPT ![call[c].session] = r] /\ session \in [SessionIds -> Session]
        BY <1>0, <1>2, <2>1 DEF RevokeSession, AccountTypes
    <2>3. ASSUME call[c].session \in SessionIds PROVE SessionsEnd
        <3>1. r \in Session /\ r.status = "revoked" /\ r.late = session[call[c].session].late
            BY <2>1, <2>2, <2>3 DEF Session, Status
        <3> QED BY <2>2, <2>3, <3>1 DEF SessionsEnd, RowsEnd
    <2>4. ASSUME call[c].session \notin SessionIds PROVE SessionsEnd
        BY <2>2, <2>4 DEF SessionsEnd, RowsEnd
    <2>5. KeysEnd /\ off \in BOOLEAN /\ made' \in 0..MaxSecrets
        BY <1>0, <1>2 DEF RevokeSession, AccountTypes, KeysEnd, RowsEnd
    <2>6. Done(c) /\ UNCHANGED <<off, cred, code, rowLock, given>>
        BY <1>2 DEF RevokeSession
    <2>7. SessionsEnd
        BY <2>3, <2>4
    <2> QED BY <1>0, <2>5, <2>6, <2>7, EndKeeps
<1> QED BY <1>1, <1>2

\* Reactivation clears the flag; a group write changes memberships.
LEMMA ScimEnds ==
    ASSUME ServerInv, NEW c \in Calls, Reactivate(c) \/ CommitGroup(c), UNCHANGED given
    PROVE  ServerInv'
<1>1. AccountTypes /\ call[c].pc # "mint" /\ Done(c) /\ UNCHANGED <<rows, code, rowLock, made, given>>
    BY DEF ServerInv, Reactivate, CommitGroup
<1>2. (off' => off) /\ off' \in BOOLEAN
    <2>1. CASE Reactivate(c)
        BY <1>1, <2>1 DEF Reactivate, AccountTypes
    <2>2. CASE CommitGroup(c)
        BY <1>1, <2>2 DEF CommitGroup, AccountTypes
    <2> QED BY <2>1, <2>2
<1>3. KeysEnd /\ SessionsEnd /\ made' \in 0..MaxSecrets /\ UNCHANGED <<cred, code, rowLock, given>>
    BY <1>1 DEF AccountTypes, rows, KeysEnd, SessionsEnd, RowsEnd
<1> QED BY <1>1, <1>2, <1>3, EndKeeps

\* create_session
LEMMA SessionKeeps ==
    ASSUME ServerInv, NEW c \in Calls, CreateSession(c), UNCHANGED given
    PROVE  ServerInv'
<1>1. PICK s \in Free(session) :
         session' = [session EXCEPT ![s] = [status |-> "live", late |-> Survives(c)]]
    BY DEF CreateSession, Next1
<1>2. /\ AccountTypes /\ call[c].pc = "commit" /\ call[c].op = "signIn" /\ Becomes(c, Rest)
      /\ UNCHANGED <<off, key, cred, code, rowLock, made, given>>
      /\ Rest.pc = "idle" /\ Excused(Rest) /\ s \in SessionIds /\ session[s].status = "free"
    BY DoneBecomes, RestShape, TablesAre DEF ServerInv, CreateSession, Excused, Minting
<1>3. /\ call' \in [Calls -> Call] /\ \A e \in Calls : CallShape(call'[e])
      /\ call'[c] = Rest /\ \A e \in Calls : e # c => call'[e] = call[e]
    BY <1>2, BecomesOne DEF AccountTypes
<1>4. PICK late \in BOOLEAN : late = Survives(c)
    <2>1. Survives(c) \in BOOLEAN
        BY DEF Survives
    <2> QED BY <2>1
<1>5. /\ session' \in [SessionIds -> Session] /\ session'[s].status = "live" /\ session'[s].late = late
      /\ \A i \in SessionIds : i # s => session'[i] = session[i]
    <2>1. PICK rec : rec = [status |-> "live", late |-> late]
        OBVIOUS
    <2>2. rec \in Session /\ rec.status = "live" /\ rec.late = late
        BY <2>1 DEF Session, Status
    <2>3. session' = [session EXCEPT ![s] = rec]
        BY <1>1, <1>4, <2>1
    <2> QED BY <1>2, <2>2, <2>3 DEF AccountTypes
<1>6. AccountTypes'
    BY <1>2, <1>3, <1>5 DEF AccountTypes
<1>7. Counted'
    BY <1>2, <1>3, CountedKept DEF ServerInv, Live
<1>8. /\ off => late
      /\ \A d \in Calls : call[d].pc \in Sweeping => late
    BY <1>2, <1>4, OpenAre DEF Survives, ServerInv, CutOff, Excused, Minting
<1>9. /\ Live(session)' = Live(session) \cup {s} /\ Free(session)' = Free(session) \ {s}
      /\ Live(key)' = Live(key) /\ Free(key)' = Free(key) /\ Live(cred)' = Live(cred)
    <2>1. Live(session)' = {i \in SessionIds : session'[i].status = "live"}
          /\ Free(session)' = {i \in SessionIds : session'[i].status = "free"}
        BY <1>5 DEF Live, Free
    <2> QED BY <1>2, <1>5, <2>1, TablesAre DEF Live, Free
<1>10. CutOff'
    <2>1. DeactivationCutsOff'
        BY <1>2, <1>5, <1>8, <1>9, TablesAre DEF ServerInv, CutOff, DeactivationCutsOff
    <2>2. ASSUME NEW d \in Calls PROVE Swept(call[d])' /\ (off' => Excused(call'[d]))
        <3>1. CASE d = c
            BY <1>2, <1>3, <3>1 DEF Swept, Sweeping
        <3>2. CASE d # c
            <4>1. call'[d] = call[d] /\ Swept(call[d]) /\ (off => Excused(call[d]))
                BY <1>3, <3>2 DEF ServerInv, CutOff
            <4>2. call[d].pc \in Sweeping => s \notin call[d].before.sessions
                BY <1>1, <4>1 DEF Swept
            <4>3. Swept(call[d])'
                BY <1>2, <1>5, <1>8, <1>9, <4>1, <4>2, TablesAre DEF Swept, Sweeping
            <4> QED BY <1>2, <4>1, <4>3
        <3> QED BY <3>1, <3>2
    <2> QED BY <2>1, <2>2 DEF CutOff, Excused
<1>11. Offered'
    BY <1>2, <1>3, OfferedKept DEF ServerInv, Attaching
<1> QED BY <1>6, <1>7, <1>10, <1>11 DEF ServerInv

\* A step of a deactivation before its commit changes that call alone.
LEMMA CascadeKeeps ==
    ASSUME ServerInv, NEW c \in Calls, call[c].pc \in {"flag"} \cup Sweeping, ~call[c].to,
           NEW w, call' = [call EXCEPT ![c] = w], w \in Call, w.op = call[c].op, w.pc \in Sweeping,
           w.to = call[c].to, w.code = call[c].code, Swept(w),
           UNCHANGED <<off, rows, code, rowLock, made, given>>
    PROVE  ServerInv'
<1>1. AccountTypes /\ CallShape(call[c]) /\ call[c].op = "setActive"
    BY DEF ServerInv, AccountTypes, CallShape
<1>2. Becomes(c, w) /\ Excused(w)
    BY <1>1 DEF Becomes, CallShape, Sweeping, Excused, Minting
<1>3. /\ call' \in [Calls -> Call] /\ \A e \in Calls : CallShape(call'[e])
      /\ call'[c] = w /\ \A e \in Calls : e # c => call'[e] = call[e]
    BY <1>1, <1>2, BecomesOne DEF AccountTypes
<1>4. AccountTypes'
    BY <1>1, <1>3 DEF AccountTypes, rows
<1>5. Counted'
    BY <1>1, <1>3, CountedKept DEF ServerInv, Sweeping, rows, Live
<1>6. CutOff'
    <2>1. DeactivationCutsOff'
        BY DEF ServerInv, CutOff, DeactivationCutsOff, rows, Live
    <2>2. \A q : Swept(q) <=> Swept(q)'
        BY DEF Swept, rows, Live, Free
    <2>3. ASSUME NEW d \in Calls PROVE Swept(call[d])' /\ (off' => Excused(call'[d]))
        <3>1. PICK q : q = call'[d]
            OBVIOUS
        <3>2. Swept(q) /\ (off => Excused(q))
            BY <1>2, <1>3, <3>1 DEF ServerInv, CutOff
        <3>3. Swept(q)' <=> Swept(call[d])'
            BY <3>1 DEF Swept
        <3> QED BY <2>2, <3>1, <3>2, <3>3
    <2> QED BY <2>1, <2>3 DEF CutOff, Excused
<1>7. Offered'
    BY <1>1, <1>3, OfferedKept DEF ServerInv, Attaching, Sweeping, rows
<1> QED BY <1>4, <1>5, <1>6, <1>7 DEF ServerInv
LEMMA CascadeGoesOn ==
    ASSUME ServerInv, NEW c \in Calls, FlagInactive(c) \/ SweepKeys(c) \/ SweepSessions(c),
           UNCHANGED given
    PROVE  ServerInv'
<1>1. /\ AccountTypes /\ call[c] \in Call /\ CallShape(call[c]) /\ Swept(call[c])
      /\ UNCHANGED <<off, rows, code, rowLock, made, given>>
    BY DEF ServerInv, AccountTypes, CutOff, FlagInactive, SweepKeys, SweepSessions
<1>2. /\ LiveRows.keys = Live(key) /\ LiveRows.sessions = Live(session)
      /\ Live(key) \subseteq KeyIds /\ Live(session) \subseteq SessionIds /\ Live(cred) \subseteq CredIds
      /\ LiveRows \in Tables /\ Live(key) \cap Free(key) = {} /\ Live(session) \cap Free(session) = {}
    BY <1>1, TablesAre DEF LiveRows, Tables
<1>3. CASE FlagInactive(c)
    <2>1. PICK w : w = [call[c] EXCEPT !.pc = "sweepKeys", !.before = LiveRows]
        OBVIOUS
    <2>2. /\ w \in Call /\ w.op = call[c].op /\ w.to = call[c].to /\ w.code = call[c].code
          /\ w.pc = "sweepKeys" /\ w.before = LiveRows
        BY <1>1, <1>2, <2>1 DEF Call
    <2>3. Swept(w)
        BY <1>2, <2>2 DEF Swept
    <2>4. call' = [call EXCEPT ![c] = w] /\ call[c].pc = "flag" /\ ~call[c].to
        BY <1>1, <1>3, <2>1 DEF FlagInactive, AccountTypes
    <2> QED BY <1>1, <2>2, <2>3, <2>4, CascadeKeeps DEF Sweeping
<1>4. CASE SweepKeys(c)
    <2>0. PICK T : T = [call[c].swept EXCEPT !.keys = Live(key)]
        OBVIOUS
    <2>1. PICK w : w = [call[c] EXCEPT !.pc = "sweepSessions", !.swept = T]
        OBVIOUS
    <2>2. T \in Tables /\ T.keys = Live(key)
        BY <1>1, <1>2, <2>0 DEF Call, Tables
    <2>3. /\ w \in Call /\ w.op = call[c].op /\ w.to = call[c].to /\ w.code = call[c].code
          /\ w.pc = "sweepSessions" /\ w.swept = T /\ w.before = call[c].before
        BY <1>1, <2>1, <2>2 DEF Call
    <2>4. call' = [call EXCEPT ![c] = w] /\ call[c].pc = "sweepKeys"
        BY <1>1, <1>4, <2>0, <2>1 DEF SweepKeys, AccountTypes
    <2>5. Swept(w)
        BY <1>1, <2>2, <2>3, <2>4 DEF Swept, Sweeping
    <2> QED BY <1>1, <2>3, <2>4, <2>5, CascadeKeeps DEF Sweeping, CallShape
<1>5. CASE SweepSessions(c)
    <2>0. PICK T : T = [call[c].swept EXCEPT !.sessions = Live(session)]
        OBVIOUS
    <2>1. PICK w : w = [call[c] EXCEPT !.pc = "sweepCreds", !.swept = T]
        OBVIOUS
    <2>2. T \in Tables /\ T.keys = call[c].swept.keys /\ T.sessions = Live(session)
        BY <1>1, <1>2, <2>0 DEF Call, Tables
    <2>3. /\ w \in Call /\ w.op = call[c].op /\ w.to = call[c].to /\ w.code = call[c].code
          /\ w.pc = "sweepCreds" /\ w.swept = T /\ w.before = call[c].before
        BY <1>1, <2>1, <2>2 DEF Call
    <2>4. call' = [call EXCEPT ![c] = w] /\ call[c].pc = "sweepSessions"
        <3>1. PICK u : u = [call[c] EXCEPT !.pc = "sweepCreds"]
            OBVIOUS
        <3>2. u.swept = call[c].swept /\ call \in [Calls -> Call]
            BY <1>1, <3>1 DEF Call, AccountTypes
        <3>3. [call EXCEPT ![c] = u][c] = u
            BY <3>2
        <3>4. call' = [[call EXCEPT ![c] = u] EXCEPT ![c] = [u EXCEPT !.swept = T]]
            BY <1>5, <2>0, <3>1, <3>2, <3>3 DEF SweepSessions
        <3> QED BY <1>5, <2>1, <3>1, <3>2, <3>4 DEF SweepSessions
    <2>5. Swept(w)
        BY <1>1, <2>2, <2>3, <2>4 DEF Swept, Sweeping
    <2> QED BY <1>1, <2>3, <2>4, <2>5, CascadeKeeps DEF Sweeping, CallShape
<1> QED BY <1>3, <1>4, <1>5

\* What the commit of a cascade makes of a row and of a table.
Gone(r) == [r EXCEPT !.status = "revoked"]
Seen(r) == [r EXCEPT !.late = FALSE]

LEMMA RevokedAre ==
    ASSUME NEW S, NEW R, NEW table \in [S -> R], NEW swept, NEW before,
           \A r \in R : Gone(r) \in R /\ Gone(r).status = "revoked" /\ Gone(r).late = r.late,
           \A r \in R : Seen(r) \in R /\ Seen(r).status = r.status,
           NEW T, T = Revoke(table, swept, before)
    PROVE  /\ T \in [S -> R]
           /\ \A i \in S : /\ T[i].status = "live" => table[i].status = "live" /\ i \notin swept
                           /\ T[i].status = "free" => table[i].status = "free"
                           /\ i \notin before => T[i].late = table[i].late
<1>1. ASSUME NEW i \in S
      PROVE  /\ T[i] \in R
             /\ T[i].status = "live" => table[i].status = "live" /\ i \notin swept
             /\ T[i].status = "free" => table[i].status = "free"
             /\ i \notin before => T[i].late = table[i].late
    <2>1. T[i] = IF i \in swept THEN Gone(table[i]) ELSE IF i \in before THEN Seen(table[i]) ELSE table[i]
        BY DEF Revoke, Gone, Seen
    <2> QED BY <2>1
<1>2. T = [i \in S |-> T[i]]
    BY DEF Revoke
<1> QED BY <1>1, <1>2

\* The commit of a deactivation: what it has not swept is late, and not among
\* what it began with; every other call is marked.
LEMMA InactiveKeeps ==
    ASSUME ServerInv, NEW c \in Calls, CommitInactive(c), UNCHANGED given
    PROVE  ServerInv'
<1>1. PICK q : q = call[c]
    OBVIOUS
<1>2. /\ AccountTypes /\ q \in Call /\ CallShape(q) /\ Swept(q) /\ q.pc = "sweepCreds"
      /\ UNCHANGED <<code, rowLock, made, given>>
      /\ key' = Revoke(key, q.swept.keys, q.before.keys)
      /\ session' = Revoke(session, q.swept.sessions, q.before.sessions)
      /\ cred' = Revoke(cred, Live(cred), q.before.creds)
      /\ off' \in BOOLEAN
    BY <1>1 DEF ServerInv, AccountTypes, CutOff, CommitInactive
<1>3. PICK keys, sessions, creds : keys = key' /\ sessions = session' /\ creds = cred'
    OBVIOUS
<1>4. /\ keys \in [KeyIds -> Key]
      /\ \A k \in KeyIds : /\ keys[k].status = "live" => key[k].status = "live" /\ k \notin q.swept.keys
                           /\ keys[k].status = "free" => key[k].status = "free"
                           /\ k \notin q.before.keys => keys[k].late = key[k].late
    <2>1. \A r \in Key : Gone(r) \in Key /\ Gone(r).status = "revoked" /\ Gone(r).late = r.late
        BY DEF Key, Status, Gone
    <2>2. \A r \in Key : Seen(r) \in Key /\ Seen(r).status = r.status
        BY DEF Key, Status, Seen
    <2>0. PICK swept, before : swept = q.swept.keys /\ before = q.before.keys
        OBVIOUS
    <2>3. key \in [KeyIds -> Key] /\ keys = Revoke(key, swept, before)
        BY <1>2, <1>3, <2>0 DEF AccountTypes
    <2>4. /\ keys \in [KeyIds -> Key]
          /\ \A k \in KeyIds : /\ keys[k].status = "live" => key[k].status = "live" /\ k \notin swept
                               /\ keys[k].status = "free" => key[k].status = "free"
                               /\ k \notin before => keys[k].late = key[k].late
        BY <2>1, <2>2, <2>3, RevokedAre
    <2> QED BY <2>0, <2>4
<1>5. /\ sessions \in [SessionIds -> Session]
      /\ \A s \in SessionIds :
            /\ sessions[s].status = "live" => session[s].status = "live" /\ s \notin q.swept.sessions
            /\ sessions[s].status = "free" => session[s].status = "free"
            /\ s \notin q.before.sessions => sessions[s].late = session[s].late
    <2>1. \A r \in Session : Gone(r) \in Session /\ Gone(r).status = "revoked" /\ Gone(r).late = r.late
        BY DEF Session, Status, Gone
    <2>2. \A r \in Session : Seen(r) \in Session /\ Seen(r).status = r.status
        BY DEF Session, Status, Seen
    <2>0. PICK swept, before : swept = q.swept.sessions /\ before = q.before.sessions
        OBVIOUS
    <2>3. session \in [SessionIds -> Session] /\ sessions = Revoke(session, swept, before)
        BY <1>2, <1>3, <2>0 DEF AccountTypes
    <2>4. /\ sessions \in [SessionIds -> Session]
          /\ \A s \in SessionIds :
                /\ sessions[s].status = "live" => session[s].status = "live" /\ s \notin swept
                /\ sessions[s].status = "free" => session[s].status = "free"
                /\ s \notin before => sessions[s].late = session[s].late
        BY <2>1, <2>2, <2>3, RevokedAre
    <2> QED BY <2>0, <2>4
<1>6. /\ creds \in [CredIds -> Cred]
      /\ \A i \in CredIds : /\ creds[i].status # "live"
                            /\ creds[i].status = "free" => cred[i].status = "free"
    <2>1. \A r \in Cred : Gone(r) \in Cred /\ Gone(r).status = "revoked" /\ Gone(r).late = r.late
        BY DEF Cred, Status, Gone
    <2>2. \A r \in Cred : Seen(r) \in Cred /\ Seen(r).status = r.status
        BY DEF Cred, Status, Seen
    <2>a. cred \in [CredIds -> Cred] /\ creds = Revoke(cred, Live(cred), q.before.creds)
        BY <1>2, <1>3 DEF AccountTypes
    <2>3. /\ creds \in [CredIds -> Cred]
          /\ \A i \in CredIds : /\ creds[i].status = "live" => cred[i].status = "live" /\ i \notin Live(cred)
                                /\ creds[i].status = "free" => cred[i].status = "free"
        BY <2>a, <2>1, <2>2, RevokedAre
    <2> QED BY <1>2, <2>3, TablesAre
<1>7. /\ call' = [d \in Calls |-> call'[d]]
      /\ \A d \in Calls : call'[d] = Rest \/ (d # c /\ call[d].pc # "idle" /\ call'[d] = [call[d] EXCEPT !.early = TRUE])
      /\ \A d \in Calls : call[d].pc # "idle" /\ d # c => call'[d] = [call[d] EXCEPT !.early = TRUE]
    BY DEF CommitInactive
<1>8. ASSUME NEW d \in Calls
      PROVE  /\ call'[d] \in Call /\ CallShape(call'[d]) /\ Excused(call'[d])
             /\ call'[d].pc = "mint" <=> call[d].pc = "mint"
             /\ call'[d].pc \in {"mint", "attach"} => call'[d].cred = call[d].cred /\ call'[d].team = call[d].team
             /\ call'[d].pc = "attach" => call[d].pc = "attach"
             /\ \/ call'[d].pc \notin Sweeping
                \/ /\ call'[d].pc = call[d].pc
                   /\ call'[d].swept = call[d].swept /\ call'[d].before = call[d].before
    <2>1. call[d] \in Call /\ CallShape(call[d])
        BY <1>2 DEF AccountTypes
    <2>2. CASE call'[d] = Rest
        <3>1. call[d].pc # "mint"
            <4>1. PICK u : u = [call[d] EXCEPT !.early = TRUE]
                OBVIOUS
            <4>2. u.pc = call[d].pc
                BY <2>1, <4>1 DEF Call
            <4> QED BY <1>1, <1>2, <1>7, <2>2, <4>1, <4>2, RestShape
        <3>2. Rest \in Call /\ CallShape(Rest) /\ Rest.pc = "idle" /\ Excused(Rest)
            BY RestShape DEF Excused, Minting
        <3> QED BY <2>2, <3>1, <3>2 DEF Sweeping
    <2>3. CASE d # c /\ call[d].pc # "idle" /\ call'[d] = [call[d] EXCEPT !.early = TRUE]
        <3>1. PICK u : u = [call[d] EXCEPT !.early = TRUE]
            OBVIOUS
        <3>2. /\ u \in Call /\ u.early /\ u.pc = call[d].pc /\ u.op = call[d].op /\ u.code = call[d].code
              /\ u.cred = call[d].cred /\ u.team = call[d].team /\ u.to = call[d].to
              /\ u.swept = call[d].swept /\ u.before = call[d].before
            BY <2>1, <3>1 DEF Call
        <3>3. CallShape(u) /\ Excused(u)
            BY <2>1, <3>2 DEF CallShape, Excused
        <3> QED BY <2>3, <3>1, <3>2, <3>3
    <2> QED BY <1>7, <2>2, <2>3
<1>9. AccountTypes'
    BY <1>2, <1>3, <1>4, <1>5, <1>6, <1>7, <1>8 DEF AccountTypes
<1>10. /\ Live(key)' \subseteq Live(key) \ q.swept.keys /\ Free(key)' \subseteq Free(key)
       /\ Live(session)' \subseteq Live(session) \ q.swept.sessions /\ Free(session)' \subseteq Free(session)
       /\ Live(cred)' = {} /\ Live(key) \subseteq KeyIds /\ Live(session) \subseteq SessionIds
    <2>1. /\ Live(key)' = {k \in KeyIds : keys[k].status = "live"} /\ Free(key)' = {k \in KeyIds : keys[k].status = "free"}
          /\ Live(session)' = {s \in SessionIds : sessions[s].status = "live"}
          /\ Free(session)' = {s \in SessionIds : sessions[s].status = "free"}
          /\ Live(cred)' = {i \in CredIds : creds[i].status = "live"}
        BY <1>3, <1>4, <1>5, <1>6 DEF Live, Free
    <2> QED BY <1>2, <1>4, <1>5, <1>6, <2>1, TablesAre
<1>11. Counted'
    <2>1. \A d \in Calls : call[d].pc = "mint" => call'[d].team = call[d].team
        BY <1>8
    <2> QED BY <1>2, <1>8, <1>10, <2>1, CountedKept DEF ServerInv
<1>12. /\ \A k \in Live(key)' : k \in Live(key) /\ key'[k].late /\ key'[k].late = key[k].late
       /\ \A s \in Live(session)' : s \in Live(session) /\ session'[s].late /\ session'[s].late = session[s].late
    BY <1>2, <1>3, <1>4, <1>5, <1>10 DEF Swept
<1>13. CutOff'
    <2>1. DeactivationCutsOff'
        BY <1>10, <1>12 DEF DeactivationCutsOff
    <2>2. ASSUME NEW d \in Calls PROVE Swept(call[d])' /\ Excused(call'[d])
        <3>1. Swept(call[d])
            BY DEF ServerInv, CutOff
        <3>2. Swept(call[d])'
            BY <1>8, <1>10, <1>12, <3>1 DEF Swept, Sweeping
        <3> QED BY <1>8, <3>2
    <2> QED BY <2>1, <2>2 DEF CutOff, Excused
<1>14. Offered'
    BY <1>2, <1>3, <1>6, <1>8, OfferedKept DEF ServerInv, Attaching
<1> QED BY <1>9, <1>11, <1>13, <1>14 DEF ServerInv
-----------------------------------------------------------------------------
(* The device store, a restart and the machine's processes.                *)

\* Records of the store are dropped: what they held is nobody's.
LEMMA DropKeeps ==
    ASSUME ServerInv, UNCHANGED <<off, rows, made, given>>,
           (rowLock' = rowLock /\ call' = call)
              \/ (rowLock' = [t \in Teams |-> None] /\ call' = [c \in Calls |-> Rest]),
           code' \in [Codes -> Code],
           \A d \in Codes : code'[d] = code[d] \/ (code'[d].status # "approved" /\ code'[d].cred = None)
    PROVE  ServerInv'
<1>1. AccountTypes /\ Counted /\ CutOff /\ Offered /\ None \notin CredIds
    BY CredentialsAssumption DEF ServerInv
<1>2. AccountTypes'
    BY <1>1, RestShape DEF AccountTypes, rows
<1>3. \A c \in Calls : call'[c] = call[c] \/ call'[c] = Rest
    BY <1>1 DEF AccountTypes
<1>4. Counted'
    <2>1. CASE rowLock' = rowLock /\ call' = call
        BY <1>1, <2>1, CountedKept DEF rows, Live
    <2>2. CASE rowLock' = [t \in Teams |-> None] /\ call' = [c \in Calls |-> Rest]
        <3>1. Taken' = {} /\ \A c \in Calls : call'[c].pc # "mint"
            BY <2>2, RestShape DEF Taken
        <3>2. Cardinality(Taken) \in Nat /\ Cardinality({}) = 0 /\ Live(key)' = Live(key)
              /\ Cardinality(Live(key)) \in Nat /\ Cardinality(Teams) \in Nat
            <4>1. IsFiniteSet(Teams) /\ IsFiniteSet(KeyIds) /\ Live(key) \subseteq KeyIds /\ Taken \subseteq Teams
                BY <1>1, TablesAre DEF Taken
            <4>2. IsFiniteSet(Live(key)) /\ IsFiniteSet(Taken)
                BY <4>1, FS_Subset
            <4> QED BY <4>1, <4>2, FS_CardinalityType, FS_EmptySet DEF rows, Live
        <3>3. Cardinality(Live(key)') + Cardinality(Taken') <= Cap + (Cardinality(Teams) - 1)
            BY <1>1, <3>1, <3>2, CredentialsAssumption DEF Counted
        <3> QED BY <3>1, <3>3 DEF Counted
    <2> QED BY <2>1, <2>2
<1>5. CutOff'
    <2>1. Rest.pc \notin Sweeping /\ Excused(Rest)
        BY RestShape DEF Sweeping, Excused, Minting
    <2> QED BY <1>1, <1>3, <2>1, CutOffKept
<1>6. Offered'
    <2>1. \A c \in Calls : Attaching(c)' => Attaching(c) /\ call'[c] = call[c]
        BY <1>3, RestShape DEF Attaching
    <2>2. \A c \in Calls : Attaching(c) => call[c].cred \in CredIds
        BY <1>1 DEF AccountTypes, CallShape, Attaching
    <2> QED BY <1>1, <2>1, <2>2 DEF Offered, rows
<1> QED BY <1>2, <1>4, <1>5, <1>6 DEF ServerInv

LEMMA CodesDrop ==
    ASSUME ServerInv, UNCHANGED <<off, rows, made, given>>,
           DropMemory \/ \E d \in Codes : ExpireCode(d)
    PROVE  ServerInv'
<1>1. code \in [Codes -> Code]
    BY DEF ServerInv, AccountTypes
<1>2. PICK rec : rec = [status |-> "gone", cred |-> None]
    OBVIOUS
<1>3. rec \in Code /\ rec.status # "approved" /\ rec.cred = None
    BY <1>2 DEF Code
<1>4. /\ code' \in [Codes -> Code]
      /\ \A d \in Codes : code'[d] = code[d] \/ code'[d] = rec
    <2>1. CASE DropMemory
        <3>1. code' = [d \in Codes |-> IF code[d].status \in {"pending", "approved"} THEN rec ELSE code[d]]
            BY <1>2, <2>1 DEF DropMemory
        <3> QED BY <1>1, <1>3, <3>1
    <2>2. ASSUME NEW d \in Codes, ExpireCode(d)
          PROVE  code' \in [Codes -> Code] /\ \A e \in Codes : code'[e] = code[e] \/ code'[e] = rec
        <3>1. code' = [code EXCEPT ![d] = rec]
            BY <1>2, <2>2 DEF ExpireCode
        <3> QED BY <1>1, <1>3, <3>1
    <2> QED BY <2>1, <2>2
<1>5. \/ rowLock' = rowLock /\ call' = call
      \/ rowLock' = [t \in Teams |-> None] /\ call' = [c \in Calls |-> Rest]
    BY DEF DropMemory, ExpireCode
<1> QED BY <1>3, <1>4, <1>5, DropKeeps
\* start_device_auth
LEMMA LoginKeeps == ASSUME ServerInv, NEW p \in Procs, Login(p) PROVE ServerInv'
<1>1. PICK d \in Free(code) : code' = [code EXCEPT ![d].status = "pending"]
    BY DEF Login, Next1
<1>2. /\ AccountTypes /\ Offered /\ code \in [Codes -> Code] /\ d \in Codes /\ code[d].status = "free"
      /\ UNCHANGED <<off, rows, made, given, rowLock, call>>
    BY <1>1 DEF ServerInv, AccountTypes, Free, Login
<1>3. PICK rec : rec = [code[d] EXCEPT !.status = "pending"]
    OBVIOUS
<1>4. rec \in Code /\ rec.status = "pending" /\ rec.cred = None
    <2>1. code[d].cred = None /\ code[d] \in Code
        BY <1>2 DEF Offered
    <2> QED BY <1>3, <2>1 DEF Code
<1>5. code' \in [Codes -> Code] /\ \A e \in Codes : code'[e] = code[e] \/ code'[e] = rec
    BY <1>1, <1>2, <1>3, <1>4
<1> QED BY <1>2, <1>4, <1>5, DropKeeps

\* DeviceAuthStore.poll: the record goes as its credential is handed out.
LEMMA PollKeeps == ASSUME ServerInv, ClientTypes, NEW p \in Procs, Poll(p) PROVE ServerInv'
<1>a. PICK d \in Codes : d = proc[p].code
    BY DEF Poll, ClientTypes
<1>b. PICK i : i = code[d].cred
    OBVIOUS
<1>0. /\ d = proc[p].code /\ i = code[d].cred /\ code[d].status = "approved"
      /\ code' = [code EXCEPT ![d] = [status |-> "gone", cred |-> None]]
      /\ given' = [given EXCEPT ![i] = @ + 1]
    BY <1>a, <1>b DEF Poll
<1>1. /\ AccountTypes /\ Counted /\ CutOff /\ Offered /\ None \notin CredIds /\ i \in CredIds
      /\ UNCHANGED <<off, rows, call, rowLock, made>>
    <2>1. i # None /\ i \in CredIds \cup {None}
        BY <1>0 DEF ServerInv, Offered, AccountTypes, Code
    <2> QED BY <2>1, CredentialsAssumption DEF ServerInv, Poll
<1>2. PICK rec : rec = [status |-> "gone", cred |-> None]
    OBVIOUS
<1>3. rec \in Code /\ rec.status = "gone" /\ rec.cred = None
    BY <1>2 DEF Code
<1>4. code' \in [Codes -> Code] /\ code'[d] = rec /\ \A e \in Codes : e # d => code'[e] = code[e]
    BY <1>0, <1>1, <1>2, <1>3 DEF AccountTypes
<1>5. given[i] = 0 /\ cred[i].status # "free" /\ \A e \in Codes : e # d => code[e].cred # i
    BY <1>0, <1>1 DEF Offered
<1>6. /\ given' \in [CredIds -> {0, 1}] /\ given'[i] = 1
      /\ \A j \in CredIds : j # i => given'[j] = given[j]
    BY <1>0, <1>1, <1>5 DEF Offered
<1>7. AccountTypes'
    BY <1>1, <1>4 DEF AccountTypes, rows
<1>8. Counted' /\ CutOff'
    BY <1>1, CountedKept, CutOffKept DEF rows, Live
<1>9. Offered'
    <2>1. \A e \in Codes : code[e].cred \in CredIds \cup {None}
        BY <1>1 DEF AccountTypes, Code
    <2>2. ASSUME NEW c \in Calls, Attaching(c)
          PROVE  /\ call[c].cred \in CredIds /\ call[c].cred # i /\ given[call[c].cred] = 0
                 /\ cred[call[c].cred].status # "free"
                 /\ \A e \in Codes : code[e].cred # call[c].cred
                 /\ \A e \in Calls : Attaching(e) /\ call[c].cred = call[e].cred => c = e
        BY <1>0, <1>1, <2>2 DEF AccountTypes, CallShape, Attaching, Offered
    <2>3. ASSUME NEW c \in Calls, Attaching(c)'
          PROVE  /\ given'[call'[c].cred] = 0 /\ cred'[call'[c].cred].status # "free"
                 /\ \A e \in Codes : code'[e].cred # call'[c].cred
                 /\ \A e \in Calls : Attaching(e)' /\ call'[c].cred = call'[e].cred => c = e
        BY <1>1, <1>3, <1>4, <1>6, <2>2, <2>3 DEF Attaching, rows
    <2>4. ASSUME NEW e \in Codes, code'[e].cred # None
          PROVE  /\ given'[code'[e].cred] = 0 /\ cred'[code'[e].cred].status # "free"
                 /\ \A f \in Codes : code'[e].cred = code'[f].cred => e = f
        BY <1>1, <1>3, <1>4, <1>5, <1>6, <2>1, <2>4 DEF Offered, rows
    <2>5. \A j \in CredIds : given'[j] = 1 => cred'[j].status # "free"
        BY <1>1, <1>5, <1>6 DEF Offered, rows
    <2>6. \A e \in Codes : code'[e].status = "approved" <=> code'[e].cred # None
        BY <1>1, <1>3, <1>4 DEF Offered
    <2> QED BY <1>6, <2>3, <2>4, <2>5, <2>6 DEF Offered
<1> QED BY <1>7, <1>8, <1>9 DEF ServerInv

\* get_current_key begins a call of the process's own slot.
LEMMA FetchStarts ==
    ASSUME ServerInv, NEW c \in Calls, NEW i \in CredIds, FetchCurrentKey(c, i)
    PROVE  Starts(c)
<1>1. /\ Take(c, "regenerate", "cli", [Rest EXCEPT !.pc = "load", !.key = cred[i].key])
      /\ UNCHANGED <<off, rows, code, rowLock, made>> /\ cred[i].key \in KeyIds \cup {None}
    BY DEF FetchCurrentKey, ServerInv, AccountTypes, Cred
<1>2. PICK w : w = [[Rest EXCEPT !.pc = "load", !.key = cred[i].key] EXCEPT !.op = "regenerate", !.by = "cli"]
    OBVIOUS
<1>3. w = [pc |-> "load", op |-> "regenerate", by |-> "cli", team |-> None, key |-> cred[i].key,
           cred |-> None, code |-> None, session |-> None, to |-> FALSE, saw |-> FALSE, early |-> FALSE,
           swept |-> NoRows, before |-> NoRows]
    BY <1>2 DEF Rest
<1>4. w \in Call /\ CallShape(w) /\ w.pc = "load" /\ Excused(w)
    BY <1>1, <1>3 DEF Call, CallShape, Tables, NoRows, Sweeping, Excused, Minting
<1> QED BY <1>1, <1>2, <1>4, TakenStarts

\* What a process does to itself.
LEMMA ProcessBecomes ==
    ASSUME ClientTypes, NEW p \in Procs, NEW w \in Process, Become(p, w),
           w.pc = "polling" => w.code \in Codes,
           keyring' \in CredIds \cup {None}, cache' \in 0..MaxSecrets
    PROVE  ClientTypes'
BY DEF Become, ClientTypes

LEMMA ProcessExits ==
    ASSUME ClientTypes, NEW p \in Procs, Exit(p),
           keyring' \in CredIds \cup {None}, cache' \in 0..MaxSecrets
    PROVE  ClientTypes'
<1>1. PICK w : w = Quiet
    OBVIOUS
<1>2. w \in Process /\ w.pc = "idle" /\ Become(p, w)
    BY <1>1, CredentialsAssumption DEF Quiet, Process, Exit
<1> QED BY <1>2, ProcessBecomes

LEMMA CommandKeeps ==
    ASSUME ServerInv, ClientTypes, NEW p \in Procs, Login(p) \/ Exec(p)
    PROVE  ClientTypes'
<1>1. CASE Login(p)
    <2>0. PICK d \in Codes : Become(p, [Quiet EXCEPT !.pc = "polling", !.code = d])
        BY <1>1 DEF Login, Next1, Free, ServerInv, AccountTypes
    <2>1. PICK w : w = [Quiet EXCEPT !.pc = "polling", !.code = d]
        OBVIOUS
    <2>a. w = [pc |-> "polling", code |-> d, used |-> FALSE, secret |-> 0]
        BY <2>1 DEF Quiet
    <2>2. w \in Process /\ w.code \in Codes
        BY <2>a, CredentialsAssumption DEF Process
    <2> QED BY <1>1, <2>0, <2>1, <2>2, ProcessBecomes DEF Login, ClientTypes
<1>2. CASE Exec(p)
    <2>1. CASE valid /\ cache # 0
        <3>1. PICK w : w = [Quiet EXCEPT !.pc = "run", !.used = TRUE, !.secret = cache]
            OBVIOUS
        <3>2. w = [pc |-> "run", code |-> None, used |-> TRUE, secret |-> cache]
            BY <3>1 DEF Quiet
        <3>3. w \in Process /\ w.pc # "polling"
            BY <3>2 DEF Process, ClientTypes
        <3>4. Become(p, w)
            BY <1>2, <2>1, <3>1 DEF Exec
        <3> QED BY <1>2, <3>3, <3>4, ProcessBecomes DEF Exec, ClientTypes
    <2>2. CASE ~(valid /\ cache # 0)
        <3>1. PICK w : w = [Quiet EXCEPT !.pc = "fetch"]
            OBVIOUS
        <3>2. w = [pc |-> "fetch", code |-> None, used |-> FALSE, secret |-> 0]
            BY <3>1 DEF Quiet
        <3>3. 0 \in 0..MaxSecrets
            BY CredentialsAssumption
        <3>4. w \in Process /\ w.pc # "polling"
            BY <3>2, <3>3 DEF Process
        <3>5. Become(p, w)
            BY <1>2, <2>2, <3>1 DEF Exec
        <3> QED BY <1>2, <3>4, <3>5, ProcessBecomes DEF Exec, ClientTypes
    <2> QED BY <2>1, <2>2
<1> QED BY <1>1, <1>2

LEMMA AnswerKeeps ==
    ASSUME ServerInv, ClientTypes, NEW p \in Procs, AnswerFetch(p)
    PROVE  ClientTypes'
<1>1. made' \in 0..MaxSecrets /\ proc[p] \in Process /\ UNCHANGED <<keyring, cache>>
    BY SecretKept DEF AnswerFetch, CommitRegenerate, ServerInv, ClientTypes
<1>2. CASE proc[p].pc = "waiting"
    <2>1. PICK w : w = [proc[p] EXCEPT !.pc = "answered", !.secret = made']
        OBVIOUS
    <2>2. w \in Process /\ w.pc = "answered" /\ Become(p, w)
        BY <1>1, <1>2, <2>1 DEF Process, AnswerFetch
    <2> QED BY <1>1, <2>2, ProcessBecomes DEF ClientTypes
<1>3. CASE proc[p].pc # "waiting"
    BY <1>1, <1>3, ProcessBecomes DEF ClientTypes, AnswerFetch
<1> QED BY <1>2, <1>3

LEMMA ClientStepKeeps ==
    ASSUME ServerInv, ClientTypes, NEW p \in Procs, ClientStep(p)
    PROVE  ClientTypes'
<1>0. /\ proc[p] \in Process /\ 0 \in 0..MaxSecrets /\ None \in CredIds \cup {None}
      /\ keyring \in CredIds \cup {None} /\ cache \in 0..MaxSecrets
    BY CredentialsAssumption DEF ClientTypes
<1>1. CASE \/ Poll(p) \/ StopPolling(p) \/ NotLoggedIn(p) \/ FetchFails(p) \/ ClearLogin(p)
           \/ ChildSucceeds(p)
    <2>1. Exit(p) /\ keyring' \in CredIds \cup {None} /\ cache' \in 0..MaxSecrets
        <3>1. CASE Poll(p)
            <4>1. code[proc[p].code].cred \in CredIds \cup {None}
                BY <3>1 DEF Poll, ClientTypes, ServerInv, AccountTypes, Code
            <4> QED BY <1>0, <3>1, <4>1 DEF Poll
        <3> QED BY <1>0, <1>1, <3>1 DEF StopPolling, NotLoggedIn, FetchFails, ClearLogin, ChildSucceeds,
                accountVars
    <2> QED BY <2>1, ProcessExits
<1>2. CASE SendFetch(p) \/ FetchRejected(p) \/ WriteCache(p)
    <2>1. PICK w : (\/ w = [proc[p] EXCEPT !.pc = "waiting"]
                    \/ w = [proc[p] EXCEPT !.pc = "rejected"]
                    \/ w = [proc[p] EXCEPT !.pc = "run"]) /\ Become(p, w)
        BY <1>2 DEF SendFetch, FetchRejected, WriteCache
    <2>2. w \in Process /\ w.pc # "polling"
        BY <1>0, <2>1 DEF Process
    <2>3. keyring' \in CredIds \cup {None} /\ cache' \in 0..MaxSecrets
        BY <1>0, <1>2 DEF SendFetch, FetchRejected, WriteCache, Process
    <2> QED BY <2>1, <2>2, <2>3, ProcessBecomes
<1>3. CASE ChildFails(p)
    <2>1. CASE proc[p].used
        <3>1. PICK w : w = [Quiet EXCEPT !.pc = "fetch"]
            OBVIOUS
        <3>a. w = [pc |-> "fetch", code |-> None, used |-> FALSE, secret |-> 0]
            BY <3>1 DEF Quiet
        <3>2. w \in Process /\ w.pc = "fetch"
            BY <1>0, <3>a DEF Process
        <3>3. Become(p, w)
            BY <1>3, <2>1, <3>1 DEF ChildFails
        <3> QED BY <1>0, <1>3, <2>1, <3>2, <3>3, ProcessBecomes DEF ChildFails
    <2>2. CASE ~proc[p].used
        BY <1>0, <1>3, <2>2, ProcessExits DEF ChildFails
    <2> QED BY <2>1, <2>2
<1> QED BY <1>1, <1>2, <1>3 DEF ClientStep
-----------------------------------------------------------------------------
(* The theorems.                                                           *)

LEMMA AccountInited == CliInit => AccountInv
<1> SUFFICES ASSUME CliInit PROVE AccountInv
    OBVIOUS
<1>1. PICK k \in KeyIds, t \in Teams : k = Next1(KeyIds) /\ t = Next1(Teams)
    BY CredentialsAssumption DEF Next1
<1>2. PICK i \in CredIds, s \in SessionIds : i = Next1(CredIds) /\ s = Next1(SessionIds)
    BY CredentialsAssumption DEF Next1
<1>3. /\ off = FALSE /\ made = 1 /\ code = [d \in Codes |-> NoCode] /\ call = [c \in Calls |-> Rest]
      /\ rowLock = [u \in Teams |-> None] /\ keyring = i /\ cache = 1
      /\ proc = [p \in Procs |-> Quiet] /\ given = [j \in CredIds |-> IF j = i THEN 1 ELSE 0]
      /\ key = [j \in KeyIds |-> IF j = k THEN [status |-> "live", team |-> t, secret |-> 1, late |-> FALSE]
                                 ELSE NoKey]
      /\ cred = [j \in CredIds |-> IF j = i THEN [status |-> "live", key |-> k, late |-> FALSE] ELSE NoCred]
      /\ session = [j \in SessionIds |-> IF j = s THEN [status |-> "live", late |-> FALSE] ELSE NoSession]
    BY <1>1, <1>2 DEF CliInit, AccountInit
<1>4. MaxSecrets \in Nat /\ {0, 1} \subseteq 0..MaxSecrets /\ None \notin Teams \cup Calls \cup CredIds \cup Codes
    BY CredentialsAssumption, CliSyncAssumption
<1>5. AccountTypes
    <2>1. key \in [KeyIds -> Key]
        BY <1>3, <1>4 DEF Key, NoKey, Status
    <2>2. cred \in [CredIds -> Cred] /\ session \in [SessionIds -> Session]
        BY <1>3 DEF Cred, NoCred, Session, NoSession, Status
    <2>3. code \in [Codes -> Code]
        BY <1>3 DEF Code, NoCode
    <2>4. call \in [Calls -> Call] /\ \A c \in Calls : CallShape(call[c])
        BY <1>3, RestShape
    <2>5. rowLock \in [Teams -> Calls \cup {None}]
        BY <1>3
    <2>6. off \in BOOLEAN /\ made \in 0..MaxSecrets
        <3>1. off \in BOOLEAN /\ made = 1
            BY <1>3
        <3>2. 1 \in 0..MaxSecrets
            BY <1>4
        <3> QED BY <3>1, <3>2
    <2> QED BY <2>1, <2>2, <2>3, <2>4, <2>5, <2>6 DEF AccountTypes
<1>6. ClientTypes
    BY <1>3, <1>4 DEF ClientTypes, Process, Quiet
<1>7. Counted
    <2>1. Live(key) = {k} /\ Taken = {} /\ \A c \in Calls : call[c].pc # "mint"
        <3>1. \A j \in KeyIds : key[j].status = "live" <=> j = k
            BY <1>3 DEF NoKey
        <3> QED BY <1>3, <1>5, <3>1, TablesAre, RestShape DEF Taken
    <2>2. Cardinality(Live(key)) = 1 /\ Cardinality(Taken) = 0
        BY <2>1, FS_Singleton, FS_EmptySet
    <2>3. Cardinality(Teams) \in Nat /\ Cardinality(Teams) # 0 /\ Cap \in Nat \ {0}
        BY CredentialsAssumption, FS_CardinalityType, FS_EmptySet
    <2> QED BY <2>1, <2>2, <2>3 DEF Counted
<1>8. CutOff
    BY <1>3, RestShape DEF CutOff, DeactivationCutsOff, Swept, Sweeping
<1>9. Offered
    BY <1>3, <1>4, RestShape DEF Offered, Attaching, NoCode
<1> QED BY <1>5, <1>6, <1>7, <1>8, <1>9 DEF AccountInv, ServerInv

LEMMA ServerGoesOn == ASSUME ServerInv, Server PROVE ServerInv'
<1>1. UNCHANGED given
    BY DEF Server, clientVars
<1>2. ASSUME NEW c \in Slots, CallStarts(c) PROVE ServerInv'
    BY <1>1, <1>2, CallsStart, StartKeeps DEF Slots
<1>3. ASSUME NEW c \in Calls, CallGoesOn(c) PROVE ServerInv'
    BY <1>1, <1>3, LockKeeps, KeyMints, CredentialMints, AttachKeeps, LoadKeeps, RevokeKeeps, SessionKeeps,
       ScimEnds, CascadeGoesOn, InactiveKeeps DEF CallGoesOn
<1>4. ASSUME NEW c \in Calls, CommitRegenerate(c) PROVE ServerInv'
    BY <1>1, <1>4, RegenerateKeeps
<1>5. CASE \/ \E d \in Codes : ExpireCode(d)
           \/ DropMemory /\ UNCHANGED <<off, member, rows, made, started>>
    BY <1>1, <1>5, CodesDrop DEF ExpireCode
<1>6. Slots # {} => Next1(Slots) \in Slots
    BY DEF Next1
<1> QED BY <1>2, <1>3, <1>4, <1>5, <1>6 DEF Server

LEMMA ServerSame == ASSUME ServerInv, UNCHANGED <<accountVars, given>> PROVE ServerInv'
<1>1. UNCHANGED <<off, rows, code, call, rowLock, made>> /\ code \in [Codes -> Code]
    BY DEF accountVars, ServerInv, AccountTypes
<1> QED BY <1>1, DropKeeps

LEMMA AccountStepped == ASSUME AccountInv, [CliNext]_allVars PROVE AccountInv'
<1>1. CASE Server
    <2>1. ClientTypes'
        BY <1>1 DEF AccountInv, ClientTypes, Server, clientVars
    <2> QED BY <1>1, <2>1, ServerGoesOn DEF AccountInv
<1>2. CASE CacheExpires \/ UNCHANGED allVars
    <2>1. UNCHANGED <<accountVars, given, keyring, cache, proc>>
        BY <1>2 DEF CacheExpires, allVars, clientVars
    <2> QED BY <2>1, ServerSame DEF AccountInv, ClientTypes
<1>3. ASSUME NEW p \in Procs, Login(p) PROVE AccountInv'
    BY <1>3, LoginKeeps, CommandKeeps DEF AccountInv
<1>4. ASSUME NEW p \in Procs, Exec(p) PROVE AccountInv'
    <2>1. UNCHANGED <<off, rows, code, call, rowLock, made, given>> /\ code \in [Codes -> Code]
        BY <1>4 DEF Exec, AccountInv, ServerInv, AccountTypes
    <2> QED BY <1>4, <2>1, DropKeeps, CommandKeeps DEF AccountInv
<1>5. ASSUME NEW p \in Procs, AnswerFetch(p) PROVE AccountInv'
    BY <1>5, AnswerKeeps, RegenerateKeeps, CliSyncAssumption DEF AccountInv, AnswerFetch
<1>6. ASSUME NEW p \in Procs, ClientStep(p) PROVE AccountInv'
    <2>1. ServerInv'
        <3>1. CASE Poll(p)
            BY <3>1, PollKeeps DEF AccountInv
        <3>2. CASE SendFetch(p)
            <4>1. p \in Calls /\ keyring \in CredIds /\ FetchCurrentKey(p, keyring) /\ UNCHANGED given
                BY <3>2, CliSyncAssumption DEF SendFetch, AccountInv, ClientTypes
            <4>2. Starts(p)
                BY <4>1, FetchStarts DEF AccountInv
            <4> QED BY <4>1, <4>2, StartKeeps DEF AccountInv
        <3>3. CASE ~Poll(p) /\ ~SendFetch(p)
            BY <1>6, <3>3, ServerSame DEF ClientStep, AccountInv, StopPolling, NotLoggedIn, FetchRejected,
               ClearLogin, FetchFails, WriteCache, ChildSucceeds, ChildFails
        <3> QED BY <3>1, <3>2, <3>3
    <2> QED BY <1>6, <2>1, ClientStepKeeps DEF AccountInv
<1> QED BY <1>1, <1>2, <1>3, <1>4, <1>5, <1>6 DEF CliNext

\* Keys, credentials, device logins and processes, at any moment of any run.
THEOREM AccountInvariant == CliSpec => []AccountInv
BY AccountInited, AccountStepped, PTL DEF CliSpec

\* create_personal_key counts under one membership's lock: whatever calls race,
\* every further team of the owner brings at most one key past the cap.
THEOREM KeyCapHolds == CliSpec => []KeyCapBounded
<1>1. AccountInv => KeyCapBounded
    <2> SUFFICES ASSUME AccountInv PROVE KeyCapBounded
        OBVIOUS
    <2>1. IsFiniteSet(KeyIds) /\ IsFiniteSet(Teams) /\ Live(key) \subseteq KeyIds /\ Taken \subseteq Teams
        BY TablesAre DEF AccountInv, ServerInv, Taken
    <2>2. IsFiniteSet(Live(key)) /\ IsFiniteSet(Taken)
        BY <2>1, FS_Subset
    <2>3. Cardinality(Live(key)) \in Nat /\ Cardinality(Taken) \in Nat /\ Cardinality(Teams) \in Nat /\ Cap \in Nat
        BY <2>1, <2>2, FS_CardinalityType, CredentialsAssumption
    <2> QED BY <2>3 DEF KeyCapBounded, AccountInv, ServerInv, Counted
<1> QED BY <1>1, AccountInvariant, PTL

\* revoke_scim_deactivated_user_credentials sweeps one table after another: what
\* is live after its commit was minted by a call let in before, or by a lead.
THEOREM DeactivationHolds == CliSpec => []DeactivationCutsOff
<1>1. AccountInv => DeactivationCutsOff
    BY DEF AccountInv, ServerInv, CutOff
<1> QED BY <1>1, AccountInvariant, PTL

\* DeviceAuthStore hands a committed credential out once, however approvals,
\* polls, expiries and restarts fall.
THEOREM DeliveredOnce == CliSpec => []CredentialDeliveredOnce
<1>1. AccountInv => CredentialDeliveredOnce
    <2> SUFFICES ASSUME AccountInv, NEW i \in CredIds
                 PROVE  LET kept == {d \in Codes : code[d].cred = i} IN
                        /\ given[i] + Cardinality(kept) <= 1
                        /\ given[i] > 0 \/ kept # {} => cred[i].status # "free"
        BY DEF CredentialDeliveredOnce
    <2>1. PICK kept : kept = {d \in Codes : code[d].cred = i}
        OBVIOUS
    <2>2. Offered /\ given[i] \in {0, 1} /\ i # None
        BY CredentialsAssumption DEF AccountInv, ServerInv, Offered
    <2>3. CASE kept = {}
        <3>1. Cardinality(kept) = 0
            BY <2>3, FS_EmptySet
        <3>2. given[i] # 1 \/ cred[i].status # "free"
            BY <2>2 DEF Offered
        <3>3. given[i] > 0 => given[i] = 1
            BY <2>2
        <3> QED BY <2>1, <2>2, <2>3, <3>1, <3>2, <3>3
    <2>4. ASSUME NEW d \in kept PROVE given[i] + Cardinality(kept) <= 1 /\ cred[i].status # "free"
        <3>1. kept = {d}
            BY <2>1, <2>2, <2>4 DEF Offered
        <3>2. given[i] = 0 /\ cred[i].status # "free"
            BY <2>1, <2>2, <2>4 DEF Offered
        <3>3. Cardinality(kept) = 1
            BY <3>1, FS_Singleton
        <3> QED BY <3>2, <3>3
    <2> QED BY <2>1, <2>3, <2>4
<1> QED BY <1>1, AccountInvariant, PTL
=============================================================================
