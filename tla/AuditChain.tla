----------------------------- MODULE AuditChain -----------------------------
(***************************************************************************)
(* The hash-chained audit ledger: every mutation writes one entry in its   *)
(* own transaction; while chain_enabled is set the entry is appended to    *)
(* the chain under the lock of the compliance_settings row.  Switching the *)
(* chain on backfills the whole history under the same lock, and a         *)
(* scheduled job deletes old entries for an organisation that asked for it.*)
(*                                                                         *)
(* A step is one statement or one transaction.  A hash stands for what was *)
(* hashed: the function from the entries of the chain so far to their      *)
(* place in it.  Two hashes are equal only if the hashed histories are.    *)
(***************************************************************************)
EXTENDS Naturals, FiniteSets

CONSTANTS
    Entries,    \* audit_entries rows that may ever be written
    Writers,    \* requests whose handler audits its mutation
    Admins,     \* PUT compliance-settings requests
    NoTxn       \* the settings row is not locked

Txns == Writers \cup Admins

ASSUME EntriesAssumption == IsFiniteSet(Entries)
ASSUME TxnsAssumption ==
    /\ NoTxn \notin Txns
    /\ Writers \cap Admins = {}
    /\ {"unused", "committed", "gone"} \cap Txns = {}

VARIABLES
    place,      \* place[e]: not written, pending in a transaction, committed, gone
    row,        \* row[e]: created_at and the chain columns (seq 0 = NULL)
    settings,   \* compliance_settings: chain enabled, finite retention
    lock,       \* holder of the settings row's lock
    txn,        \* txn[t]: where a request is, its entry and what it asks for
    purge,      \* the purge job: what it decided to delete
    clock,      \* time, counted in created_at stamps
    gap         \* chained entries were purged since the last backfill (history)

vars == <<place, row, settings, lock, txn, purge, clock, gap>>

Asks == [chain : BOOLEAN, finite : BOOLEAN]
NoAsk == [chain |-> FALSE, finite |-> FALSE]
Idle == [pc |-> "idle", began |-> 0, ask |-> NoAsk]
NoPurge == [pc |-> "idle", cutoff |-> 0]

\* The values a hash can have.
IsHistory(h) == DOMAIN h \subseteq Entries /\ h \in [DOMAIN h -> Nat]

\* prev_hash of the first entry: the column is NULL, the hash uses "".
Genesis == [f \in {} |-> 0]
Unchained(at) == [at |-> at, seq |-> 0, prev |-> Genesis, hash |-> Genesis]

Init ==
    /\ place = [e \in Entries |-> "unused"]
    /\ row = [e \in Entries |-> Unchained(0)]
    /\ settings = [enabled |-> FALSE, finite |-> FALSE]
    /\ lock = NoTxn
    /\ txn = [t \in Txns |-> Idle]
    /\ purge = NoPurge
    /\ clock = 1
    /\ gap = FALSE

-----------------------------------------------------------------------------

\* compute_chain_hash: the entry takes the place after everything in prev.
ComputeChainHash(prev, e) ==
    [f \in (DOMAIN prev) \cup {e} |->
        IF f = e THEN Cardinality(DOMAIN prev) + 1 ELSE prev[f]]

Visible(t) == {e \in Entries : place[e] \in {"committed", t}}
Ledger == {e \in Entries : place[e] = "committed"}
Chained(S) == {e \in S : row[e].seq # 0}

\* The chained entry of S with the greatest chain_seq.
IsTail(e, S) == e \in Chained(S) /\ \A f \in Chained(S) : row[f].seq <= row[e].seq

\* (created_at, id) order of the backfill; created_at decides here.
Before(S, e) == {f \in S : row[f].at < row[e].at}
UpTo(S, e) == Before(S, e) \cup {e}
Rank(S, e) == Cardinality(UpTo(S, e))

\* Faulty: only entries without a chain_seq are given one, from 1.
Backfilled_SkipsChained(S) ==
    LET new == S \ Chained(S) IN
    [e \in Entries |->
        IF e \in new
        THEN [at |-> row[e].at, seq |-> Rank(new, e),
              prev |-> [f \in Before(new, e) |-> Rank(new, f)],
              hash |-> [f \in UpTo(new, e) |-> Rank(new, f)]]
        ELSE row[e]]

\* backfill_chain: every row of the ledger is numbered and hashed from the
\* organisation's first entry on, whatever it held before.
Backfilled(S) ==
    [e \in Entries |->
        IF e \in S
        THEN [at |-> row[e].at, seq |-> Rank(S, e),
              prev |-> [f \in Before(S, e) |-> Rank(S, f)],
              hash |-> [f \in UpTo(S, e) |-> Rank(S, f)]]
        ELSE row[e]]

\* The rows are updated one by one in primary-key order and the unique index on
\* chain_seq is checked at each: a number another row still holds may fail.
Collides(S) ==
    \E e, f \in S : e # f /\ Rank(S, e) = row[f].seq

\* Commit and rollback of a request's transaction.
Publish(t) ==
    /\ place' = [e \in Entries |-> IF place[e] = t THEN "committed" ELSE place[e]]
    /\ txn' = [txn EXCEPT ![t] = Idle]
    /\ lock' = IF lock = t THEN NoTxn ELSE lock

Undo(t) ==
    /\ place' = [e \in Entries |-> IF place[e] = t THEN "gone" ELSE place[e]]
    /\ row' = [e \in Entries |-> IF place[e] = t THEN Unchained(0) ELSE row[e]]
    /\ txn' = [txn EXCEPT ![t] = Idle]
    /\ lock' = IF lock = t THEN NoTxn ELSE lock
    /\ UNCHANGED <<settings, purge, clock, gap>>

-----------------------------------------------------------------------------
(* Requests.                                                               *)

\* write_audit_entry reads the flag without a lock.  Switched off, the row goes
\* in unchained, stamped with the time its transaction began; switched on, the
\* settings row must be locked first.
WriteAuditEntry(t, ask) ==
    /\ txn[t].pc = "idle"
    /\ IF settings.enabled
       THEN /\ txn' = [txn EXCEPT ![t] = [pc |-> "lock", began |-> clock, ask |-> ask]]
            /\ UNCHANGED <<place, row, clock>>
       ELSE /\ \E e \in Entries :
                /\ place[e] = "unused"
                /\ place' = [place EXCEPT ![e] = t]
                /\ row' = [row EXCEPT ![e] = Unchained(clock)]
            /\ txn' = [txn EXCEPT ![t] = [pc |-> "work", began |-> clock, ask |-> ask]]
            /\ clock' = clock + 1
    /\ UNCHANGED <<settings, lock, purge, gap>>

\* The row appended after the tail the transaction sees, or as the genesis.
Append(t, e, at) ==
    \/ /\ Chained(Visible(t)) = {}
       /\ row' = [row EXCEPT ![e] =
                    [at |-> at, seq |-> 1, prev |-> Genesis,
                     hash |-> ComputeChainHash(Genesis, e)]]
    \/ \E last \in Visible(t) :
       /\ IsTail(last, Visible(t))
       /\ row' = [row EXCEPT ![e] =
                    [at |-> at, seq |-> row[last].seq + 1, prev |-> row[last].hash,
                     hash |-> ComputeChainHash(row[last].hash, e)]]

\* Faulty: the settings row is read without FOR UPDATE.
AppendToChain_NoLock(t) ==
    /\ txn[t].pc = "lock"
    /\ \E e \in Entries :
        /\ place[e] = "unused"
        /\ place' = [place EXCEPT ![e] = t]
        /\ Append(t, e, clock)
    /\ txn' = [txn EXCEPT ![t].pc = "work"]
    /\ clock' = clock + 1
    /\ UNCHANGED <<settings, lock, purge, gap>>

\* The locked half of write_audit_entry: tail, hash, row; the lock stays until
\* the caller's transaction ends.  The flag is not read again.
AppendToChain(t) ==
    /\ txn[t].pc = "lock"
    /\ lock = NoTxn
    /\ lock' = t
    /\ \E e \in Entries :
        /\ place[e] = "unused"
        /\ place' = [place EXCEPT ![e] = t]
        /\ Append(t, e, clock)
    /\ txn' = [txn EXCEPT ![t].pc = "work"]
    /\ clock' = clock + 1
    /\ UNCHANGED <<settings, purge, gap>>

\* The handler commits its mutation together with the entry.
CommitMutation(w) ==
    /\ txn[w].pc = "work"
    /\ Publish(w)
    /\ UNCHANGED <<row, settings, purge, clock, gap>>

\* An error, a crash, or for a settings request the 422 that keeps the chain and
\* a finite retention apart: nothing of the transaction stays.
Rollback(t) ==
    /\ txn[t].pc # "idle"
    /\ Undo(t)

\* What _apply_compliance_settings needs before it writes: a request that does
\* not contradict itself, and the settings row.
MayApply(a) ==
    /\ txn[a].pc = "work"
    /\ ~(txn[a].ask.chain /\ txn[a].ask.finite)
    /\ lock \in {NoTxn, a}

\* The chain goes on: full backfill and the new settings in one transaction.
EnableChain(a) ==
    /\ MayApply(a)
    /\ txn[a].ask.chain /\ ~settings.enabled
    /\ row' = Backfilled(Visible(a))
    /\ gap' = FALSE
    /\ settings' = [enabled |-> TRUE, finite |-> FALSE]
    /\ Publish(a)
    /\ UNCHANGED <<purge, clock>>

\* The backfill runs into the unique index and the request fails.
BackfillFails(a) ==
    /\ MayApply(a)
    /\ txn[a].ask.chain /\ ~settings.enabled
    /\ Collides(Visible(a))
    /\ Undo(a)

\* Every other change: the payload replaces the row.
ReplaceSettings(a) ==
    /\ MayApply(a)
    /\ ~(txn[a].ask.chain /\ ~settings.enabled)
    /\ settings' = [enabled |-> txn[a].ask.chain, finite |-> txn[a].ask.finite]
    /\ Publish(a)
    /\ UNCHANGED <<row, purge, clock, gap>>

-----------------------------------------------------------------------------
(* The scheduler's purge job.                                              *)

\* Whether to purge, and up to when, is decided from one unlocked read.
DecidePurge ==
    /\ purge.pc = "idle"
    /\ ~settings.enabled /\ settings.finite
    /\ \E c \in 1 .. clock : purge' = [pc |-> "delete", cutoff |-> c]
    /\ UNCHANGED <<place, row, settings, lock, txn, clock, gap>>

Expired == {e \in Ledger : row[e].at < purge.cutoff}

\* The batched DELETE, without another look at the settings.
PurgeRows ==
    /\ purge.pc = "delete"
    /\ place' = [e \in Entries |-> IF e \in Expired THEN "gone" ELSE place[e]]
    /\ row' = [e \in Entries |-> IF e \in Expired THEN Unchained(0) ELSE row[e]]
    /\ gap' = (gap \/ Chained(Expired) # {})
    /\ purge' = NoPurge
    /\ UNCHANGED <<settings, lock, txn, clock>>

Settings(a) ==
    \/ \E ask \in Asks : WriteAuditEntry(a, ask)
    \/ EnableChain(a)
    \/ BackfillFails(a)
    \/ ReplaceSettings(a)

Mutation(w) == WriteAuditEntry(w, NoAsk) \/ CommitMutation(w)

Next ==
    \/ \E w \in Writers : Mutation(w)
    \/ \E a \in Admins : Settings(a)
    \/ \E t \in Txns : AppendToChain(t) \/ Rollback(t)
    \/ DecidePurge
    \/ PurgeRows

Spec == Init /\ [][Next]_vars

-----------------------------------------------------------------------------
(* Properties.                                                             *)

\* Rows, requests and the job keep their shape; only a pending request owns a
\* pending entry.
TypeOK ==
    /\ place \in [Entries -> {"unused", "committed", "gone"} \cup Txns]
    /\ row = [e \in Entries |-> row[e]]
    /\ \A e \in Entries : /\ row[e].at \in Nat /\ row[e].seq \in Nat
                         /\ IsHistory(row[e].prev) /\ IsHistory(row[e].hash)
    /\ settings \in [enabled : BOOLEAN, finite : BOOLEAN]
    /\ lock \in Txns \cup {NoTxn}
    /\ txn \in [Txns -> [pc : {"idle", "lock", "work"}, began : Nat, ask : Asks]]
    /\ purge \in [pc : {"idle", "delete"}, cutoff : Nat]
    /\ clock \in Nat /\ gap \in BOOLEAN
    /\ \A e \in Entries : place[e] \in Txns => txn[place[e]].pc = "work"

\* What verify_chain walks: f comes right before e in chain_seq order.
RightBefore(S, f, e) ==
    /\ f \in Chained(S) /\ row[f].seq < row[e].seq
    /\ \A g \in Chained(S) : row[g].seq < row[e].seq => row[g].seq <= row[f].seq
First(S, e) == \A f \in Chained(S) : row[e].seq <= row[f].seq

\* verify_chain reports "intact": every hash recomputes and every prev_hash is
\* the hash of the entry before.
VerifyChain(S) ==
    \A e \in Chained(S) :
        /\ row[e].hash = ComputeChainHash(row[e].prev, e)
        /\ First(S, e) => row[e].prev = Genesis
        /\ \A f \in S : RightBefore(S, f, e) => row[e].prev = row[f].hash

\* However mutations, backfills, rollbacks and switching interleave, the ledger
\* verifies as long as the purge job took no chained entry out of it, and no two
\* entries share a chain_seq (no fork).
ChainIntact ==
    ~gap => /\ VerifyChain(Ledger)
            /\ \A e, f \in Chained(Ledger) : row[e].seq = row[f].seq => e = f

\* Switching the chain on numbers all of the history without a hole, starting
\* from the organisation's first entry (AC5.2.6).
BackfillCoversHistory ==
    [][(settings'.enabled /\ ~settings.enabled)
       => {row'[e].seq : e \in Ledger'} = 1 .. Cardinality(Ledger')]_vars

=============================================================================
