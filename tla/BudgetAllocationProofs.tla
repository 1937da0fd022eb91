----------------------- MODULE BudgetAllocationProofs -----------------------
(***************************************************************************)
(* What holds of BudgetAllocation for any number of calls, teams, users    *)
(* and requests: the decision on a join request is final, calls wait for   *)
(* each other in a circle only where the hash chain is on and one of them  *)
(* wrote its row before its audit entry, and budgets stay within their     *)
(* ceilings.                                                               *)
(*                                                                         *)
(* All rest on what a call at work holds.  `Shaped` says which of its      *)
(* fields a call's operation has filled and where it may hold the          *)
(* organisation's lock; `Linked`, what it found of its request and team    *)
(* and its locks keep true; `OneHolder`, that no lock has two holders.     *)
(* `Fit` adds, for the budgets, that what a call checked under a lock      *)
(* still holds while it has that lock.                                     *)
(***************************************************************************)
EXTENDS BudgetAllocation, Sums

RequestRows == [user : Users \cup {None}, team : Teams \cup {None},
                status : {"none", "pending", "approved", "rejected"}]

CallRows == [pc : Pcs, op : AllOperations \cup {None}, team : Teams \cup {None},
             m : Memberships \cup {None}, to : Memberships \cup {None},
             request : Requests \cup {None}, value : Money,
             seen : Money \cup {Absent}, seenTo : Money,
             orgLock : BOOLEAN, orgCeiling : Money]

MemberOps == {"add", "approve", "update", "reassign", "remove", "restore", "submit"}
RequestOps == {"approve", "reject", "submit"}

\* The fields that k's operation has filled, once it is at work.
Filled(k) ==
    /\ k.op \in AllOperations
    /\ k.op # "org" => k.team \in Teams
    /\ k.op \in MemberOps => k.m \in Memberships /\ k.m[1] = k.team
    /\ k.op \in RequestOps => k.request \in Requests
    /\ k.op = "reassign" => /\ k.to \in Memberships /\ k.to[1] = k.team /\ k.m # k.to
                            /\ k.value \in Nat /\ k.seen \in Money
    /\ k.op = "reassign" /\ k.pc \in {"rows", "flushed"} =>
          k.seen \in Nat /\ k.seenTo \in Nat /\ k.value <= k.seen

Shaped(k) ==
    /\ k \in CallRows
    /\ k.pc \notin RestingPcs => Filled(k)
    /\ k.orgLock => k.pc \in {"team", "flushed"} /\ k.op \in {"ceiling", "create", "org"}
    /\ k.pc \in {"org", "team", "rows"} => k.op \notin RowFirst
    /\ k.pc = "rows" => k.op \notin {"ceiling", "create", "org"}

\* What a call found of its request and its team, and keeps by its locks.
Linked(k) ==
    k.pc \notin RestingPcs =>
        /\ k.op \in {"approve", "reject"} => request[k.request].status # "none"
        /\ k.op = "submit" => request[k.request].status = "none"
        /\ k.op \in {"approve", "reject"} /\ HasRequest(k, k.request) =>
              request[k.request].status = "pending"
        /\ k.op = "create" => ceiling[k.team] = Absent
        /\ k.op # "create" /\ HasTeam(k, k.team) => ceiling[k.team] # Absent

Creates(k, t) == k.pc \notin RestingPcs /\ k.op = "create" /\ k.team = t

\* No lock of k is a lock of h.
Apart(k, h) ==
    /\ ~(HasAudit(k) /\ HasAudit(h))
    /\ \A t \in Teams : ~(HasTeam(k, t) /\ HasTeam(h, t)) /\ ~(Creates(k, t) /\ Creates(h, t))
    /\ \A m \in Memberships : ~(HasRow(k, m) /\ HasRow(h, m))
    /\ \A r \in Requests : ~(HasRequest(k, r) /\ HasRequest(h, r))

OneHolder == \A c, d \in Calls : c # d => Apart(call[c], call[d])

RowTypes ==
    /\ row \in [Memberships -> MembershipRows]
    /\ ceiling \in [Teams -> Money \cup {Absent}]
    /\ org \in [exists : BOOLEAN, ceiling : Money]
    /\ request \in [Requests -> RequestRows]
    /\ \A r \in Requests : request[r].status # "none" =>
          <<request[r].team, request[r].user>> \in Memberships

IInv ==
    /\ RowTypes
    /\ call \in [Calls -> CallRows]
    /\ \A c \in Calls : Shaped(call[c]) /\ Linked(call[c])
    /\ OneHolder

-----------------------------------------------------------------------------
(* What one call does.                                                     *)

LEMMA WritesOf ==
    ASSUME NEW k
    PROVE  /\ k.op \in {"add", "approve"} => Writes(k) = {k.m}
           /\ k.op = "update" => Writes(k) = (IF k.value # k.seen THEN {k.m} ELSE {})
           /\ k.op = "reassign" => Writes(k) = {k.m, k.to}
           /\ k.op \in {"delete", "rollover"} => Writes(k) = {m \in Memberships : m[1] = k.team}
           /\ k.op \in RowFirst \cup {"ceiling", "create", "org"} => Writes(k) = {}
BY DEF Writes, RowFirst

\* A resting call holds nothing, and neither does one that has just arrived.
LEMMA EmptyHanded ==
    ASSUME NEW k, NEW h,
           \/ k.pc \in RestingPcs
           \/ /\ k.pc \in {"row", "audit", "team"} /\ k.op # "create"
              /\ k.op \in RowFirst => k.pc = "row" /\ k.op # "submit"
              /\ k.pc = "team" => k.op = "rollover"
    PROVE  Apart(k, h)
BY DEF Apart, HasAudit, HasTeam, HasRow, HasRequest, Creates, RestingPcs, RowFirst

LEMMA ApartSymmetric == ASSUME NEW k, NEW h, Apart(k, h) PROVE Apart(h, k)
BY DEF Apart

LEMMA ReplyShaped ==
    ASSUME NEW pc \in RestingPcs, NEW m \in Memberships \cup {None}
    PROVE  /\ Shaped(Reply(pc, m)) /\ Linked(Reply(pc, m))
           /\ Reply(pc, m).pc = pc
<1>1. Reply(pc, m) \in CallRows
    BY DEF Reply, CallRows, Pcs, Money
<1>2. Reply(pc, m).pc = pc /\ Reply(pc, m).orgLock = FALSE
    BY DEF Reply
<1> QED BY <1>1, <1>2 DEF Shaped, Linked, RestingPcs

LEMMA Inited == Init => IInv
<1> SUFFICES ASSUME Init PROVE IInv
    OBVIOUS
<1> USE DEF Init
<1>1. RowTypes
    BY AllocationAssumption DEF RowTypes, RequestRows, NoRequest
<1>2. \A c \in Calls : Shaped(call[c]) /\ Linked(call[c]) /\ call[c].pc = "idle"
    BY ReplyShaped DEF RestingPcs
<1>3. call \in [Calls -> CallRows]
    BY <1>2 DEF Shaped
<1>4. OneHolder
    BY <1>2, EmptyHanded DEF OneHolder, RestingPcs
<1> QED BY <1>1, <1>2, <1>3, <1>4 DEF IInv

\* A call that changes by itself keeps the invariant if it fits and takes no
\* lock of another one.
LEMMA CallReplaced ==
    ASSUME IInv, NEW c \in Calls, NEW k,
           call' = [call EXCEPT ![c] = k],
           UNCHANGED <<chain, row, ceiling, org, request>>,
           Shaped(k), Linked(k),
           \A d \in Calls : d # c => Apart(k, call[d])
    PROVE  IInv'
<1>1. call' \in [Calls -> CallRows] /\ call'[c] = k /\ \A d \in Calls : d # c => call'[d] = call[d]
    BY DEF IInv, Shaped
<1>2. RowTypes'
    BY DEF IInv, RowTypes
<1>3. \A d \in Calls : Shaped(call'[d]) /\ Linked(call'[d])
    BY <1>1 DEF IInv
<1>4. \A d \in Calls : (Shaped(call[d]) /\ Linked(call[d]))'
    BY <1>3 DEF Linked, Shaped, HasRequest, HasTeam
<1>5. \A d, e \in Calls : d # e => Apart(call'[d], call'[e])
    BY <1>1, ApartSymmetric DEF IInv, OneHolder
<1>6. OneHolder'
    BY <1>5 DEF OneHolder, Apart, HasAudit, HasTeam, HasRow, HasRequest, Creates, Writes
<1> QED BY <1>1, <1>2, <1>4, <1>6 DEF IInv

LEMMA UndoKeeps ==
    ASSUME IInv, NEW c \in Calls, NEW pc \in RestingPcs, Undo(c, pc)
    PROVE  IInv'
<1> DEFINE k == Reply(pc, call[c].m)
<1>1. call[c].m \in Memberships \cup {None}
    BY DEF IInv, CallRows
<1>2. Shaped(k) /\ Linked(k) /\ k.pc = pc
    BY <1>1, ReplyShaped
<1>3. \A d \in Calls : Apart(k, call[d])
    BY <1>2, EmptyHanded
<1>4. call' = [call EXCEPT ![c] = k] /\ UNCHANGED <<chain, row, ceiling, org, request>>
    BY DEF Undo
<1> HIDE DEF k
<1> QED BY <1>2, <1>3, <1>4, CallReplaced

\* k, at pc.
At(k, pc) == [k EXCEPT !.pc = pc]

LEMMA AtIs ==
    ASSUME NEW k \in CallRows, NEW pc \in Pcs
    PROVE  /\ At(k, pc) \in CallRows /\ At(k, pc).pc = pc
           /\ At(k, pc).op = k.op /\ At(k, pc).team = k.team
           /\ At(k, pc).m = k.m /\ At(k, pc).to = k.to
           /\ At(k, pc).request = k.request /\ At(k, pc).value = k.value
           /\ At(k, pc).seen = k.seen /\ At(k, pc).seenTo = k.seenTo
           /\ At(k, pc).orgLock = k.orgLock /\ At(k, pc).orgCeiling = k.orgCeiling
           /\ Writes(At(k, pc)) = Writes(k)
<1>1. /\ At(k, pc) \in CallRows /\ At(k, pc).pc = pc
      /\ At(k, pc).op = k.op /\ At(k, pc).team = k.team
      /\ At(k, pc).m = k.m /\ At(k, pc).to = k.to
      /\ At(k, pc).request = k.request /\ At(k, pc).value = k.value
      /\ At(k, pc).seen = k.seen /\ At(k, pc).seenTo = k.seenTo
      /\ At(k, pc).orgLock = k.orgLock /\ At(k, pc).orgCeiling = k.orgCeiling
    BY DEF At, CallRows
<1>2. Writes(At(k, pc)) = Writes(k)
    BY <1>1 DEF Writes
<1> QED BY <1>1, <1>2

LEMMA GoOnKeeps ==
    ASSUME IInv, NEW c \in Calls, NEW pc \in Pcs, GoOn(c, pc), pc \notin RestingPcs,
           call[c].pc \notin RestingPcs,
           call[c].orgLock => pc \in {"team", "flushed"},
           pc \in {"org", "team", "rows"} => call[c].op \notin RowFirst,
           pc = "rows" => call[c].op \notin {"ceiling", "create", "org"},
           call[c].op = "reassign" /\ pc \in {"rows", "flushed"} =>
              call[c].seen \in Nat /\ call[c].seenTo \in Nat /\ call[c].value <= call[c].seen,
           Linked(At(call[c], pc)),
           \A d \in Calls : d # c => Apart(At(call[c], pc), call[d])
    PROVE  IInv'
<1> DEFINE k == At(call[c], pc)
<1>1. call[c] \in CallRows /\ Shaped(call[c]) /\ Filled(call[c])
    BY DEF IInv, Shaped
<1>2. /\ k \in CallRows /\ k.pc = pc
      /\ k.op = call[c].op /\ k.team = call[c].team /\ k.m = call[c].m /\ k.to = call[c].to
      /\ k.request = call[c].request /\ k.value = call[c].value
      /\ k.seen = call[c].seen /\ k.seenTo = call[c].seenTo /\ k.orgLock = call[c].orgLock
    BY <1>1, AtIs
<1>3. call' = [call EXCEPT ![c] = k] /\ UNCHANGED <<chain, row, ceiling, org, request>>
    BY DEF GoOn, At
<1> HIDE DEF k
<1>4. Filled(k)
    BY <1>1, <1>2 DEF Filled
<1>5. Shaped(k)
    BY <1>1, <1>2, <1>4 DEF Shaped
<1>6. Linked(k) /\ \A d \in Calls : d # c => Apart(k, call[d])
    BY DEF k
<1> QED BY <1>3, <1>5, <1>6, CallReplaced

\* The statement of a call that writes its own row first.
LEMMA OwnRowKeeps ==
    ASSUME IInv, NEW c \in Calls, NEW op \in RowFirst, NEW found, OwnRow(c, op, found),
           found /\ op = "reject" => request[call[c].request].status = "pending"
    PROVE  IInv'
<1> DEFINE j == call[c]
           k == At(j, "audit")
<1>1. j \in CallRows /\ j.pc = "row" /\ j.op = op /\ Filled(j) /\ Linked(j) /\ Shaped(j)
    BY DEF IInv, OwnRow, Shaped, RestingPcs
<1>2. CASE Undo(c, "refused")
    BY <1>2, UndoKeeps DEF RestingPcs
<1>3. CASE GoOn(c, "audit") /\ found
    <2>1. /\ k.pc = "audit" /\ k.op = op /\ k.request = j.request /\ k.m = j.m /\ k.team = j.team
          /\ Writes(k) = Writes(j)
        BY <1>1, AtIs DEF Pcs
    <2> HIDE DEF k
    <2>2. Linked(k)
        BY <1>1, <1>3, <2>1 DEF Linked, HasTeam, RestingPcs, RowFirst
    <2>3. ASSUME NEW d \in Calls, d # c PROVE Apart(k, call[d])
        <3>1. ~WaitsFor(j, call[d]) /\ Apart(j, call[d])
            BY <2>3 DEF OwnRow, Waiting, IInv, OneHolder
        <3>2. /\ op \in {"remove", "restore"} => ~HasRow(call[d], j.m)
              /\ op = "reject" => ~HasRequest(call[d], j.request)
            BY <1>1, <3>1 DEF WaitsFor, OwnRowTaken
        <3>3. \A m \in Memberships : HasRow(k, m) => ~HasRow(call[d], m)
            BY <2>1, <3>2 DEF HasRow
        <3>4. \A r \in Requests : HasRequest(k, r) => ~HasRequest(call[d], r)
            BY <1>1, <2>1, <3>1, <3>2 DEF HasRequest, Apart
        <3>5. ~HasAudit(k) /\ \A t \in Teams : ~HasTeam(k, t) /\ ~Creates(k, t)
            BY <2>1 DEF HasAudit, HasTeam, Creates, RowFirst
        <3> QED BY <3>3, <3>4, <3>5 DEF Apart
    <2>4. ~j.orgLock
        BY <1>1 DEF Shaped
    <2> QED BY <1>1, <1>3, <2>2, <2>3, <2>4, GoOnKeeps DEF k, Pcs, RestingPcs, RowFirst
<1> QED BY <1>2, <1>3 DEF OwnRow, GoOnIf

LEMMA WriteAuditEntryKeeps == ASSUME IInv, NEW c \in Calls, WriteAuditEntry(c) PROVE IInv'
<1> DEFINE j == call[c]
<1>1. j \in CallRows /\ j.pc = "audit" /\ Filled(j) /\ Linked(j) /\ Shaped(j)
    BY DEF IInv, WriteAuditEntry, Shaped, RestingPcs
<1>2. CASE Undo(c, "refused")
    BY <1>2, UndoKeeps DEF RestingPcs
<1>3. CASE GoOn(c, AfterAudit(j))
    <2>1. PICK pc \in {"flushed", "org", "team"} :
             /\ pc = AfterAudit(j)
             /\ pc = "flushed" => j.op \in RowFirst \cup {"create"}
             /\ pc # "flushed" => j.op \notin RowFirst
        BY DEF AfterAudit
    <2> DEFINE k == At(j, pc)
    <2>2. /\ k.pc = pc /\ k.op = j.op /\ k.request = j.request /\ k.m = j.m /\ k.team = j.team
          /\ Writes(k) = Writes(j)
        BY <1>1, <2>1, AtIs DEF Pcs
    <2> HIDE DEF k
    <2>3. Linked(k)
        BY <1>1, <2>1, <2>2 DEF Linked, HasTeam, HasRequest, RestingPcs, RowFirst
    <2>4. ASSUME NEW d \in Calls, d # c PROVE Apart(k, call[d])
        <3>1. ~WaitsFor(j, call[d]) /\ Apart(j, call[d]) /\ Linked(call[d])
            BY <2>4 DEF WriteAuditEntry, Waiting, IInv, OneHolder
        <3>2. ~HasAudit(call[d])
            BY <1>1, <3>1 DEF WaitsFor
        <3>3. \A m \in Memberships : HasRow(k, m) => HasRow(j, m)
            BY <1>1, <2>1, <2>2, WritesOf DEF HasRow
        <3>4. \A r \in Requests : HasRequest(k, r) => HasRequest(j, r)
            BY <1>1, <2>1, <2>2 DEF HasRequest, RowFirst
        <3>5. \A t \in Teams : Creates(k, t) => Creates(j, t)
            BY <1>1, <2>1, <2>2 DEF Creates, RestingPcs
        <3>6. \A t \in Teams : HasTeam(k, t) => Creates(j, t) /\ ceiling[t] = Absent
            BY <1>1, <2>1, <2>2 DEF HasTeam, Creates, RestingPcs, Linked
        <3>7. \A t \in Teams : HasTeam(call[d], t) => Creates(call[d], t) \/ ceiling[t] # Absent
            BY <3>1 DEF HasTeam, Creates, RestingPcs, Linked
        <3> QED BY <3>1, <3>2, <3>3, <3>4, <3>5, <3>6, <3>7 DEF Apart
    <2>5. ~j.orgLock
        BY <1>1 DEF Shaped
    <2>6. ~(j.op = "reassign" /\ pc \in {"rows", "flushed"}) /\ pc \in Pcs /\ pc \notin RestingPcs
        BY <2>1 DEF RowFirst, Pcs, RestingPcs
    <2>7. j.pc \notin RestingPcs
        BY <1>1 DEF RestingPcs
    <2> QED BY <1>3, <2>1, <2>3, <2>4, <2>5, <2>6, <2>7, GoOnKeeps DEF k
<1> QED BY <1>2, <1>3 DEF WriteAuditEntry, GoOnIf

LEMMA LockOrgKeeps == ASSUME IInv, NEW c \in Calls, LockOrg(c) PROVE IInv'
<1> DEFINE j == call[c]
           k == [j EXCEPT !.pc = "team", !.orgLock = org.exists, !.orgCeiling = org.ceiling]
<1>1. /\ j \in CallRows /\ Shaped(j) /\ Linked(j) /\ j.pc = "org"
      /\ j.op \in {"ceiling", "create"} /\ org \in [exists : BOOLEAN, ceiling : Money]
    BY DEF IInv, LockOrg, RowTypes
<1>2. /\ k \in CallRows /\ k.pc = "team" /\ k.op = j.op /\ k.team = j.team
    BY <1>1 DEF CallRows, Pcs
<1>3. call' = [call EXCEPT ![c] = k] /\ UNCHANGED <<chain, row, ceiling, org, request>>
    BY DEF LockOrg
<1> HIDE DEF k
<1>4. Filled(k)
    BY <1>1, <1>2 DEF Filled, Shaped, RestingPcs, MemberOps, RequestOps
<1>5. Shaped(k)
    BY <1>1, <1>2, <1>4 DEF Shaped
<1>6. Linked(k)
    BY <1>1, <1>2 DEF Linked, HasTeam, RestingPcs
<1>7. ASSUME NEW d \in Calls, d # c PROVE Apart(k, call[d])
    <2>1. Apart(j, call[d])
        BY <1>7 DEF IInv, OneHolder
    <2>2. HasAudit(k) => HasAudit(j)
        BY <1>1, <1>2 DEF HasAudit
    <2>3. \A t \in Teams : ~HasTeam(k, t) /\ (Creates(k, t) => Creates(j, t))
        BY <1>1, <1>2 DEF HasTeam, Creates, RestingPcs
    <2>4. (\A m \in Memberships : ~HasRow(k, m)) /\ (\A r \in Requests : ~HasRequest(k, r))
        BY <1>1, <1>2 DEF HasRow, HasRequest
    <2> QED BY <2>1, <2>2, <2>3, <2>4 DEF Apart
<1> QED BY <1>3, <1>5, <1>6, <1>7, CallReplaced

LEMMA CheckOrgKeeps == ASSUME IInv, NEW c \in Calls, CheckOrg(c) PROVE IInv'
<1>1. CASE Undo(c, "refused")
    BY <1>1, UndoKeeps DEF RestingPcs
<1>2. CASE /\ call' = [call EXCEPT ![c].pc = "flushed", ![c].orgLock = TRUE]
           /\ UNCHANGED <<chain, row, ceiling, org, request, over, started>>
    <2> DEFINE j == call[c]
               k == [j EXCEPT !.pc = "flushed", !.orgLock = TRUE]
    <2>1. j \in CallRows /\ Shaped(j) /\ j.pc = "org" /\ j.op = "org"
        BY DEF IInv, CheckOrg
    <2>2. k \in CallRows /\ k.pc = "flushed" /\ k.op = "org"
        BY <2>1 DEF CallRows, Pcs
    <2>3. call' = [call EXCEPT ![c] = k] /\ UNCHANGED <<chain, row, ceiling, org, request>>
        BY <1>2
    <2> HIDE DEF k
    <2>4. Shaped(k) /\ Linked(k)
        BY <2>1, <2>2 DEF Shaped, Linked, HasTeam, Filled, AllOperations, MemberOps, RequestOps
    <2>5. ASSUME NEW d \in Calls, d # c PROVE Apart(k, call[d])
        <3>1. Apart(j, call[d])
            BY <2>5 DEF IInv, OneHolder
        <3>2. HasAudit(k) => HasAudit(j)
            BY <2>1, <2>2 DEF HasAudit
        <3>3. \A t \in Teams : ~HasTeam(k, t) /\ ~Creates(k, t)
            BY <2>2 DEF HasTeam, Creates
        <3>4. \A m \in Memberships : ~HasRow(k, m)
            BY <2>2, WritesOf DEF HasRow
        <3>5. \A r \in Requests : ~HasRequest(k, r)
            BY <2>2 DEF HasRequest
        <3> QED BY <3>1, <3>2, <3>3, <3>4, <3>5 DEF Apart
    <2> QED BY <2>3, <2>4, <2>5, CallReplaced
<1> QED BY <1>1, <1>2 DEF CheckOrg

\* A call that locks its team, checks and goes on to the rows, or is flushed.
LEMMA TeamKeeps ==
    ASSUME IInv, NEW c \in Calls, NEW op, LockTeam(c, op), op = call[c].op,
           NEW pc \in {"rows", "flushed"}, GoOn(c, pc),
           pc = "flushed" => op \in {"ceiling", "create"},
           pc = "rows" => op \notin {"ceiling", "create", "org"} \cup RowFirst,
           op = "reassign" => call[c].seen \in Nat /\ call[c].seenTo \in Nat
                              /\ call[c].value <= call[c].seen
    PROVE  IInv'
<1> DEFINE j == call[c]
           k == At(j, pc)
<1>1. j \in CallRows /\ j.pc = "team" /\ j.op = op /\ Filled(j) /\ Linked(j) /\ Shaped(j)
    BY DEF IInv, LockTeam, Shaped, RestingPcs
<1>2. /\ k.pc = pc /\ k.op = j.op /\ k.request = j.request /\ k.m = j.m /\ k.team = j.team
      /\ Writes(k) = Writes(j)
    BY <1>1, AtIs DEF Pcs
<1> HIDE DEF k
<1>3. Linked(k)
    BY <1>1, <1>2 DEF Linked, HasTeam, HasRequest, RestingPcs, RowFirst, LockTeam, Exists
<1>4. ASSUME NEW d \in Calls, d # c PROVE Apart(k, call[d])
    <2>1. ~WaitsFor(j, call[d]) /\ Apart(j, call[d])
        BY <1>4 DEF LockTeam, Waiting, IInv, OneHolder
    <2>2. \A t \in Teams : HasTeam(k, t) => ~HasTeam(call[d], t)
        BY <1>1, <1>2, <2>1 DEF WaitsFor, HasTeam
    <2>3. \A t \in Teams : Creates(k, t) => Creates(j, t)
        BY <1>1, <1>2 DEF Creates, RestingPcs
    <2>4. HasAudit(k) => HasAudit(j)
        BY <1>1, <1>2 DEF HasAudit
    <2>5. \A m \in Memberships : ~HasRow(k, m)
        BY <1>1, <1>2, WritesOf DEF HasRow, RowFirst
    <2>6. \A r \in Requests : ~HasRequest(k, r)
        BY <1>1, <1>2 DEF HasRequest, RowFirst
    <2> QED BY <2>1, <2>2, <2>3, <2>4, <2>5, <2>6 DEF Apart
<1>5. j.orgLock => pc = "flushed"
    BY <1>1 DEF Shaped
<1>6. pc \in Pcs /\ pc \notin RestingPcs /\ j.pc \notin RestingPcs
    BY <1>1 DEF Pcs, RestingPcs
<1> QED BY <1>1, <1>3, <1>4, <1>5, <1>6, GoOnKeeps DEF k

LEMMA ChecksKeep ==
    ASSUME IInv, NEW c \in Calls,
           CheckAdd(c) \/ CheckUpdate(c) \/ CheckReassign(c) \/ CheckCeiling(c) \/ LockOnly(c)
    PROVE  IInv'
<1> DEFINE k == call[c]
<1>0. k \in CallRows /\ Shaped(k)
    BY DEF IInv
<1>u. CASE Undo(c, "refused")
    BY <1>u, UndoKeeps DEF RestingPcs
<1>1. CASE CheckAdd(c) /\ GoOn(c, "rows")
    <2>1. LockTeam(c, "add") /\ k.op = "add"
        BY <1>1 DEF CheckAdd, LockTeam
    <2> QED BY <1>1, <2>1, TeamKeeps DEF RowFirst
<1>2. CASE CheckUpdate(c) /\ GoOn(c, "rows")
    <2>1. LockTeam(c, "update") /\ k.op = "update"
        BY <1>2 DEF CheckUpdate, LockTeam
    <2> QED BY <1>2, <2>1, TeamKeeps DEF RowFirst
<1>3. CASE CheckReassign(c) /\ GoOn(c, "rows") /\ ~Undo(c, "refused")
    <2>1. /\ LockTeam(c, "reassign") /\ k.op = "reassign"
          /\ k.seen # None /\ k.seenTo # None /\ k.seen - k.value >= 0
        BY <1>3 DEF CheckReassign, LockTeam, GoOnIf
    <2>2. k.value \in Nat /\ k.seen \in Money /\ k.seenTo \in Money
        BY <1>0, <2>1 DEF LockTeam, Shaped, Filled, RestingPcs, CallRows
    <2>3. k.seen \in Nat /\ k.seenTo \in Nat /\ k.value <= k.seen
        BY <2>1, <2>2 DEF Money
    <2> QED BY <1>3, <2>1, <2>3, TeamKeeps DEF RowFirst
<1>4. CASE CheckCeiling(c) /\ GoOn(c, "flushed")
    <2>1. LockTeam(c, k.op) /\ k.op \in {"ceiling", "create"}
        BY <1>4 DEF CheckCeiling
    <2> QED BY <1>4, <2>1, TeamKeeps DEF RowFirst
<1>5. CASE LockOnly(c)
    <2>1. PICK op \in {"approve", "delete", "rollover"} : LockTeam(c, op) /\ GoOn(c, "rows")
        BY <1>5 DEF LockOnly
    <2>2. op = k.op
        BY <2>1 DEF LockTeam
    <2> QED BY <2>1, <2>2, TeamKeeps DEF RowFirst
<1> QED BY <1>u, <1>1, <1>2, <1>3, <1>4, <1>5
        DEF CheckAdd, CheckUpdate, CheckReassign, CheckCeiling, GoOnIf

LEMMA WriteRowsKeeps == ASSUME IInv, NEW c \in Calls, WriteRows(c) PROVE IInv'
<1> DEFINE j == call[c]
           k == At(j, "flushed")
<1>1. j \in CallRows /\ j.pc = "rows" /\ Filled(j) /\ Linked(j) /\ Shaped(j)
    BY DEF IInv, WriteRows, Shaped, RestingPcs
<1>2. CASE Undo(c, "refused") \/ Undo(c, "conflict")
    BY <1>2, UndoKeeps DEF RestingPcs
<1>3. CASE GoOn(c, "flushed") /\ (j.op = "approve" => request[j.request].status = "pending")
    <2>1. /\ k.pc = "flushed" /\ k.op = j.op /\ k.request = j.request /\ k.m = j.m /\ k.team = j.team
          /\ Writes(k) = Writes(j)
        BY <1>1, AtIs DEF Pcs
    <2> HIDE DEF k
    <2>a. HasTeam(k, k.team) => HasTeam(j, j.team)
        BY <1>1, <2>1 DEF HasTeam
    <2>b. ASSUME NEW d \in Calls, d # c PROVE ~WaitsFor(j, call[d]) /\ Apart(j, call[d])
        BY <2>b DEF WriteRows, Waiting, IInv, OneHolder
    <2>c. j.op \notin {"remove", "restore", "submit", "reject"}
        BY <1>1 DEF Shaped, RowFirst
    <2>2. Linked(k)
        BY <1>1, <1>3, <2>1, <2>a, <2>c DEF Linked, HasRequest, RestingPcs
    <2>3. ASSUME NEW d \in Calls, d # c PROVE Apart(k, call[d])
        <3>1. ~WaitsFor(j, call[d]) /\ Apart(j, call[d])
            BY <2>3, <2>b
        <3>2. \A m \in Memberships : HasRow(k, m) => ~HasRow(call[d], m)
            <4>1. \A m \in Memberships : HasRow(k, m) => m \in Writes(j)
                BY <2>1, <2>c DEF HasRow
            <4> QED BY <1>1, <3>1, <4>1 DEF WaitsFor
        <3>3. \A r \in Requests : HasRequest(k, r) => ~HasRequest(call[d], r)
            <4>1. \A r \in Requests : HasRequest(k, r) => j.op = "approve" /\ r = j.request
                BY <2>1, <2>c DEF HasRequest
            <4> QED BY <1>1, <3>1, <4>1 DEF WaitsFor
        <3>4. /\ HasAudit(k) => HasAudit(j)
              /\ \A t \in Teams : (HasTeam(k, t) => HasTeam(j, t)) /\ (Creates(k, t) => Creates(j, t))
            BY <1>1, <2>1 DEF HasAudit, HasTeam, Creates, RestingPcs
        <3> QED BY <3>1, <3>2, <3>3, <3>4 DEF Apart
    <2>5. j.pc \notin RestingPcs /\ "flushed" \in Pcs /\ "flushed" \notin RestingPcs
        BY <1>1 DEF RestingPcs, Pcs
    <2>6. j.op = "reassign" => j.seen \in Nat /\ j.seenTo \in Nat /\ j.value <= j.seen
        BY <1>1 DEF Filled
    <2> QED BY <1>3, <2>2, <2>3, <2>5, <2>6, GoOnKeeps DEF k
<1> QED BY <1>2, <1>3 DEF WriteRows, GoOnIf

-----------------------------------------------------------------------------
(* A call arrives.                                                         *)

\* k, as the operation op.
As(k, op) == [k EXCEPT !.op = op]

LEMMA AsIs ==
    ASSUME NEW k \in CallRows, NEW op \in AllOperations
    PROVE  /\ As(k, op) \in CallRows /\ As(k, op).op = op
           /\ As(k, op).pc = k.pc /\ As(k, op).team = k.team
           /\ As(k, op).m = k.m /\ As(k, op).to = k.to
           /\ As(k, op).request = k.request /\ As(k, op).value = k.value
           /\ As(k, op).seen = k.seen /\ As(k, op).seenTo = k.seenTo
           /\ As(k, op).orgLock = k.orgLock /\ As(k, op).orgCeiling = k.orgCeiling
BY DEF As, CallRows

LEMMA ArriveKeeps ==
    ASSUME IInv, NEW c \in Calls, NEW op \in AllOperations, NEW k \in CallRows, Arrive(c, op, k),
           k.orgLock = FALSE, k.pc \in {"row", "audit", "team"},
           k.pc = "team" => op \notin RowFirst,
           Filled(As(k, op)), Linked(As(k, op)),
           \A d \in Calls : d # c => Apart(As(k, op), call[d])
    PROVE  IInv'
<1> DEFINE new == As(k, op)
<1>1. new \in CallRows /\ new.pc = k.pc /\ new.op = op /\ new.orgLock = FALSE
    BY AsIs
<1>2. /\ Filled(new) /\ Linked(new)
      /\ \A d \in Calls : d # c => Apart(new, call[d])
    OBVIOUS
<1>3. call' = [call EXCEPT ![c] = new] /\ UNCHANGED <<chain, row, ceiling, org, request>>
    BY DEF Arrive, As
<1> HIDE DEF new
<1>4. Shaped(new)
    BY <1>1, <1>2 DEF Shaped
<1> QED BY <1>2, <1>3, <1>4, CallReplaced

\* The calls that start with the audit entry, and hold nothing before it.
AuditOps == {"add", "update", "reassign", "ceiling", "org", "delete"}

LEMMA PlainArrives ==
    ASSUME IInv, NEW c \in Calls, NEW op \in AuditOps, NEW k \in CallRows, Arrive(c, op, k),
           k.orgLock = FALSE, k.pc = "audit", Filled(As(k, op))
    PROVE  IInv'
<1>1. op \in AllOperations /\ op \notin RowFirst /\ op \notin RequestOps \cup {"create", "rollover"}
    BY DEF AuditOps, AllOperations, RowFirst, RequestOps
<1>2. As(k, op).op = op /\ As(k, op).pc = "audit"
    BY <1>1, AsIs
<1>3. Linked(As(k, op))
    BY <1>1, <1>2 DEF Linked, HasTeam, RequestOps
<1>4. \A d \in Calls : Apart(As(k, op), call[d])
    BY <1>1, <1>2, EmptyHanded
<1> QED BY <1>1, <1>3, <1>4, ArriveKeeps

LEMMA MemberCallsArrive ==
    ASSUME IInv, NEW c \in Calls, AddMember(c) \/ UpdateMember(c) \/ ReassignBudget(c)
    PROVE  IInv'
<1>1. CASE AddMember(c)
    <2>1. PICK m \in Memberships, v \in Amounts \cup {None} :
             Arrive(c, "add", [Reply("audit", m) EXCEPT !.team = m[1], !.value = v])
        BY <1>1 DEF AddMember
    <2> DEFINE k == [Reply("audit", m) EXCEPT !.team = m[1], !.value = v]
    <2>2. m[1] \in Teams /\ v \in Money
        BY AllocationAssumption DEF Money
    <2>3. k \in CallRows /\ k.orgLock = FALSE /\ k.pc = "audit" /\ k.m = m /\ k.team = m[1]
        BY <2>2 DEF Reply, CallRows, Pcs, Money
    <2> HIDE DEF k
    <2>4. "add" \in AllOperations /\ "add" \in AuditOps /\ Arrive(c, "add", k)
        BY <2>1 DEF AllOperations, AuditOps, k
    <2>5. Filled(As(k, "add"))
        BY <2>2, <2>3, <2>4, AsIs DEF Filled, RequestOps
    <2> QED BY <2>3, <2>4, <2>5, PlainArrives
<1>2. CASE UpdateMember(c)
    <2>1. PICK m \in Memberships, v \in Amounts \cup {None} :
             Arrive(c, "update", [Reply("audit", m) EXCEPT !.team = m[1], !.value = v,
                                                           !.seen = row[m].budget])
        BY <1>2 DEF UpdateMember
    <2> DEFINE k == [Reply("audit", m) EXCEPT !.team = m[1], !.value = v, !.seen = row[m].budget]
    <2>2. m[1] \in Teams /\ v \in Money /\ row[m].budget \in Money
        BY AllocationAssumption DEF Money, IInv, RowTypes, MembershipRows
    <2>3. k \in CallRows /\ k.orgLock = FALSE /\ k.pc = "audit" /\ k.m = m /\ k.team = m[1]
        BY <2>2 DEF Reply, CallRows, Pcs, Money
    <2> HIDE DEF k
    <2>4. "update" \in AllOperations /\ "update" \in AuditOps /\ Arrive(c, "update", k)
        BY <2>1 DEF AllOperations, AuditOps, k
    <2>5. Filled(As(k, "update"))
        BY <2>2, <2>3, <2>4, AsIs DEF Filled, RequestOps
    <2> QED BY <2>3, <2>4, <2>5, PlainArrives
<1>3. CASE ReassignBudget(c)
    <2>1. PICK m \in Memberships, n \in Memberships, v \in Amounts :
             /\ m # n /\ m[1] = n[1]
             /\ Arrive(c, "reassign", [Reply("audit", m) EXCEPT !.team = m[1], !.to = n, !.value = v,
                                         !.seen = row[m].budget, !.seenTo = row[n].budget])
        BY <1>3 DEF ReassignBudget
    <2> DEFINE k == [Reply("audit", m) EXCEPT !.team = m[1], !.to = n, !.value = v,
                       !.seen = row[m].budget, !.seenTo = row[n].budget]
    <2>2. m[1] \in Teams /\ v \in Nat /\ row[m].budget \in Money /\ row[n].budget \in Money
        BY AllocationAssumption DEF Money, IInv, RowTypes, MembershipRows
    <2>3. /\ k \in CallRows /\ k.orgLock = FALSE /\ k.pc = "audit" /\ k.m = m /\ k.team = m[1]
          /\ k.to = n /\ k.value = v /\ k.seen = row[m].budget
        BY <2>2 DEF Reply, CallRows, Pcs, Money
    <2> HIDE DEF k
    <2>4. "reassign" \in AllOperations /\ "reassign" \in AuditOps /\ Arrive(c, "reassign", k)
        BY <2>1 DEF AllOperations, AuditOps, k
    <2>5. Filled(As(k, "reassign"))
        BY <2>1, <2>2, <2>3, <2>4, AsIs DEF Filled, RequestOps
    <2> QED BY <2>3, <2>4, <2>5, PlainArrives
<1> QED BY <1>1, <1>2, <1>3

LEMMA CeilingCallsArrive ==
    ASSUME IInv, NEW c \in Calls, SetTeamCeiling(c) \/ SetOrgCeiling(c) \/ DeleteTeam(c)
    PROVE  IInv'
<1>1. CASE SetTeamCeiling(c)
    <2>1. PICK t \in Teams, v \in Amounts \cup {None} :
             Arrive(c, "ceiling", [Reply("audit", None) EXCEPT !.team = t, !.value = v,
                                                               !.seen = ceiling[t]])
        BY <1>1 DEF SetTeamCeiling
    <2> DEFINE k == [Reply("audit", None) EXCEPT !.team = t, !.value = v, !.seen = ceiling[t]]
    <2>2. v \in Money /\ ceiling[t] \in Money \cup {Absent}
        BY AllocationAssumption DEF Money, IInv, RowTypes
    <2>3. k \in CallRows /\ k.orgLock = FALSE /\ k.pc = "audit" /\ k.team = t
        BY <2>2 DEF Reply, CallRows, Pcs, Money
    <2> HIDE DEF k
    <2>4. "ceiling" \in AllOperations /\ "ceiling" \in AuditOps /\ Arrive(c, "ceiling", k)
        BY <2>1 DEF AllOperations, AuditOps, k
    <2>5. Filled(As(k, "ceiling"))
        BY <2>3, <2>4, AsIs DEF Filled, MemberOps, RequestOps
    <2> QED BY <2>3, <2>4, <2>5, PlainArrives
<1>2. CASE SetOrgCeiling(c)
    <2>1. PICK v \in Amounts \cup {None} : Arrive(c, "org", [Reply("audit", None) EXCEPT !.value = v])
        BY <1>2 DEF SetOrgCeiling
    <2> DEFINE k == [Reply("audit", None) EXCEPT !.value = v]
    <2>2. v \in Money
        BY AllocationAssumption DEF Money
    <2>3. k \in CallRows /\ k.orgLock = FALSE /\ k.pc = "audit"
        BY <2>2 DEF Reply, CallRows, Pcs, Money
    <2> HIDE DEF k
    <2>4. "org" \in AllOperations /\ "org" \in AuditOps /\ Arrive(c, "org", k)
        BY <2>1 DEF AllOperations, AuditOps, k
    <2>5. Filled(As(k, "org"))
        BY <2>3, <2>4, AsIs DEF Filled, MemberOps, RequestOps
    <2> QED BY <2>3, <2>4, <2>5, PlainArrives
<1>3. CASE DeleteTeam(c)
    <2>1. PICK t \in Teams : Arrive(c, "delete", [Reply("audit", None) EXCEPT !.team = t])
        BY <1>3 DEF DeleteTeam
    <2> DEFINE k == [Reply("audit", None) EXCEPT !.team = t]
    <2>3. k \in CallRows /\ k.orgLock = FALSE /\ k.pc = "audit" /\ k.team = t
        BY DEF Reply, CallRows, Pcs, Money
    <2> HIDE DEF k
    <2>4. "delete" \in AllOperations /\ "delete" \in AuditOps /\ Arrive(c, "delete", k)
        BY <2>1 DEF AllOperations, AuditOps, k
    <2>5. Filled(As(k, "delete"))
        BY <2>3, <2>4, AsIs DEF Filled, MemberOps, RequestOps
    <2> QED BY <2>3, <2>4, <2>5, PlainArrives
<1> QED BY <1>1, <1>2, <1>3

LEMMA ApproveArrives == ASSUME IInv, NEW c \in Calls, ApproveJoinRequest(c) PROVE IInv'
<1>1. PICK r \in Requests, v \in Amounts \cup {None} :
         /\ request[r].status # "none"
         /\ Arrive(c, "approve", [Reply("audit", <<request[r].team, request[r].user>>) EXCEPT
                                    !.team = request[r].team, !.request = r, !.value = v])
    BY DEF ApproveJoinRequest
<1> DEFINE m == <<request[r].team, request[r].user>>
           k == [Reply("audit", m) EXCEPT !.team = request[r].team, !.request = r, !.value = v]
<1>2. m \in Memberships /\ m[1] = request[r].team /\ request[r].team \in Teams /\ v \in Money
    BY <1>1, AllocationAssumption DEF Money, IInv, RowTypes
<1>3. /\ k \in CallRows /\ k.orgLock = FALSE /\ k.pc = "audit"
      /\ k.m = m /\ k.team = request[r].team /\ k.request = r
    BY <1>2 DEF Reply, CallRows, Pcs, Money
<1> HIDE DEF k, m
<1>4. "approve" \in AllOperations /\ Arrive(c, "approve", k)
    BY <1>1 DEF AllOperations, k, m
<1> DEFINE n == As(k, "approve")
<1>5. n.op = "approve" /\ n.pc = "audit" /\ n.m = m /\ n.team = request[r].team /\ n.request = r
    BY <1>3, <1>4, AsIs
<1> HIDE DEF n
<1>6. Filled(n)
    BY <1>2, <1>4, <1>5 DEF Filled
<1>7. Linked(n)
    BY <1>1, <1>5 DEF Linked, HasTeam, HasRequest
<1>8. \A d \in Calls : Apart(n, call[d])
    BY <1>5, EmptyHanded DEF RowFirst
<1> QED BY <1>3, <1>4, <1>6, <1>7, <1>8, ArriveKeeps DEF n

LEMMA CreateArrives == ASSUME IInv, NEW c \in Calls, CreateTeam(c) PROVE IInv'
<1>1. PICK t \in Teams, v \in Amounts \cup {None} :
         /\ ~Exists(t) /\ \A d \in Calls : AtWork(d) => call[d].team # t
         /\ Arrive(c, "create", [Reply("audit", None) EXCEPT !.team = t, !.value = v])
    BY DEF CreateTeam
<1> DEFINE k == [Reply("audit", None) EXCEPT !.team = t, !.value = v]
<1>2. v \in Money
    BY AllocationAssumption DEF Money
<1>3. k \in CallRows /\ k.orgLock = FALSE /\ k.pc = "audit" /\ k.team = t
    BY <1>2 DEF Reply, CallRows, Pcs, Money
<1> HIDE DEF k
<1>4. "create" \in AllOperations /\ Arrive(c, "create", k)
    BY <1>1 DEF AllOperations, k
<1> DEFINE n == As(k, "create")
<1>5. n.op = "create" /\ n.pc = "audit" /\ n.team = t
    BY <1>3, <1>4, AsIs
<1> HIDE DEF n
<1>6. Filled(n)
    BY <1>4, <1>5 DEF Filled, MemberOps, RequestOps
<1>7. Linked(n)
    BY <1>1, <1>5 DEF Linked, Exists
<1>8. ASSUME NEW d \in Calls PROVE Apart(n, call[d])
    <2>1. \A u \in Teams : Creates(n, u) => ~Creates(call[d], u)
        BY <1>1, <1>5 DEF Creates, AtWork
    <2>2. ~HasAudit(n) /\ \A u \in Teams : ~HasTeam(n, u)
        BY <1>5 DEF HasAudit, HasTeam
    <2>3. (\A m \in Memberships : ~HasRow(n, m)) /\ (\A r \in Requests : ~HasRequest(n, r))
        BY <1>5 DEF HasRow, HasRequest
    <2> QED BY <2>1, <2>2, <2>3 DEF Apart
<1> QED BY <1>3, <1>4, <1>6, <1>7, <1>8, ArriveKeeps DEF n

LEMMA RowFirstArrives ==
    ASSUME IInv, NEW c \in Calls, RemoveMember(c) \/ RestoreMember(c) \/ RejectJoinRequest(c)
    PROVE  IInv'
<1>1. ASSUME NEW op \in {"remove", "restore"}, NEW m \in Memberships,
             Arrive(c, op, [Reply("row", m) EXCEPT !.team = m[1]])
      PROVE  IInv'
    <2> DEFINE k == [Reply("row", m) EXCEPT !.team = m[1]]
    <2>1. m[1] \in Teams
        BY AllocationAssumption
    <2>2. k \in CallRows /\ k.orgLock = FALSE /\ k.pc = "row" /\ k.m = m /\ k.team = m[1]
        BY <2>1 DEF Reply, CallRows, Pcs, Money
    <2>3. op \in AllOperations /\ Arrive(c, op, k)
        BY <1>1 DEF AllOperations
    <2> HIDE DEF k
    <2> DEFINE n == As(k, op)
    <2>4. n.op = op /\ n.pc = "row" /\ n.m = m /\ n.team = m[1]
        BY <2>2, <2>3, AsIs
    <2> HIDE DEF n
    <2>5. Filled(n)
        BY <2>1, <2>3, <2>4 DEF Filled, RequestOps
    <2>6. Linked(n)
        BY <2>4 DEF Linked, HasTeam
    <2>7. \A d \in Calls : Apart(n, call[d])
        BY <2>4, EmptyHanded
    <2> QED BY <2>2, <2>3, <2>5, <2>6, <2>7, ArriveKeeps DEF n
<1>2. CASE RejectJoinRequest(c)
    <2>1. PICK r \in Requests :
             /\ request[r].status # "none"
             /\ Arrive(c, "reject", [Reply("row", None) EXCEPT !.team = request[r].team, !.request = r])
        BY <1>2 DEF RejectJoinRequest
    <2> DEFINE k == [Reply("row", None) EXCEPT !.team = request[r].team, !.request = r]
    <2>2. request[r].team \in Teams
        BY <2>1, AllocationAssumption DEF IInv, RowTypes
    <2>3. k \in CallRows /\ k.orgLock = FALSE /\ k.pc = "row" /\ k.team = request[r].team /\ k.request = r
        BY <2>2 DEF Reply, CallRows, Pcs, Money
    <2>4. "reject" \in AllOperations /\ Arrive(c, "reject", k)
        BY <2>1 DEF AllOperations
    <2> HIDE DEF k
    <2> DEFINE n == As(k, "reject")
    <2>5. n.op = "reject" /\ n.pc = "row" /\ n.team = request[r].team /\ n.request = r
        BY <2>3, <2>4, AsIs
    <2> HIDE DEF n
    <2>6. Filled(n)
        BY <2>2, <2>4, <2>5 DEF Filled, MemberOps
    <2>7. Linked(n)
        BY <2>1, <2>5 DEF Linked, HasTeam, HasRequest
    <2>8. \A d \in Calls : Apart(n, call[d])
        BY <2>5, EmptyHanded
    <2> QED BY <2>3, <2>4, <2>6, <2>7, <2>8, ArriveKeeps DEF n
<1> QED BY <1>1, <1>2 DEF RemoveMember, RestoreMember

LEMMA SubmitArrives == ASSUME IInv, NEW c \in Calls, SubmitJoinRequest(c) PROVE IInv'
<1>1. PICK r \in Requests, m \in Memberships :
         /\ request[r].status = "none" /\ \A d \in Calls : ~HasRequest(call[d], r)
         /\ Arrive(c, "submit", [Reply("row", m) EXCEPT !.team = m[1], !.request = r])
    BY DEF SubmitJoinRequest
<1> DEFINE k == [Reply("row", m) EXCEPT !.team = m[1], !.request = r]
<1>2. m[1] \in Teams
    BY AllocationAssumption
<1>3. /\ k \in CallRows /\ k.orgLock = FALSE /\ k.pc = "row"
      /\ k.m = m /\ k.team = m[1] /\ k.request = r
    BY <1>2 DEF Reply, CallRows, Pcs, Money
<1>4. "submit" \in AllOperations /\ Arrive(c, "submit", k)
    BY <1>1 DEF AllOperations
<1> HIDE DEF k
<1> DEFINE n == As(k, "submit")
<1>5. n.op = "submit" /\ n.pc = "row" /\ n.m = m /\ n.team = m[1] /\ n.request = r
    BY <1>3, <1>4, AsIs
<1> HIDE DEF n
<1>6. Filled(n)
    BY <1>2, <1>4, <1>5 DEF Filled
<1>7. Linked(n)
    BY <1>1, <1>5 DEF Linked, HasTeam, RowFirst
<1>8. ASSUME NEW d \in Calls PROVE Apart(n, call[d])
    BY <1>1, <1>5 DEF Apart, HasAudit, HasTeam, HasRow, HasRequest, Creates
<1> QED BY <1>3, <1>4, <1>6, <1>7, <1>8, ArriveKeeps DEF n

LEMMA TouchArrives == ASSUME IInv, NEW c \in Calls, TouchTeam(c) PROVE IInv'
<1>1. PICK t \in Teams : Arrive(c, "rollover", [Reply("team", None) EXCEPT !.team = t])
    BY DEF TouchTeam
<1> DEFINE k == [Reply("team", None) EXCEPT !.team = t]
<1>2. k \in CallRows /\ k.orgLock = FALSE /\ k.pc = "team" /\ k.team = t
    BY DEF Reply, CallRows, Pcs, Money
<1>3. "rollover" \in AllOperations /\ Arrive(c, "rollover", k)
    BY <1>1 DEF AllOperations
<1> HIDE DEF k
<1> DEFINE n == As(k, "rollover")
<1>4. n.op = "rollover" /\ n.pc = "team" /\ n.team = t
    BY <1>2, <1>3, AsIs
<1> HIDE DEF n
<1>5. Filled(n)
    BY <1>3, <1>4 DEF Filled, MemberOps, RequestOps
<1>6. Linked(n)
    BY <1>4 DEF Linked, HasTeam
<1>7. \A d \in Calls : Apart(n, call[d])
    BY <1>4, EmptyHanded DEF RowFirst
<1> QED BY <1>2, <1>3, <1>5, <1>6, <1>7, ArriveKeeps DEF n, RowFirst

-----------------------------------------------------------------------------
(* A call commits.                                                         *)

LEMMA MoneySum == \A a, b \in Nat : a + b \in Money
BY DEF Money

\* What was written is typed.
LEMMA CommitTyped ==
    ASSUME IInv, NEW c \in Calls, Commit(c)
    PROVE  /\ row' \in [Memberships -> MembershipRows]
           /\ ceiling' \in [Teams -> Money \cup {Absent}]
           /\ org' \in [exists : BOOLEAN, ceiling : Money]
<1> DEFINE k == call[c]
<1>1. /\ k \in CallRows /\ k.pc = "flushed" /\ Filled(k) /\ RowTypes
    BY DEF IInv, Commit, Shaped, RestingPcs
<1>2. row' \in [Memberships -> MembershipRows]
    <2>1. CASE k.op \in {"add", "approve"}
        <3>1. row' = [row EXCEPT ![k.m] = [state |-> "active", budget |-> k.value]]
            BY <2>1 DEF Commit, CommitMember
        <3> QED BY <1>1, <2>1, <3>1 DEF RowTypes, MembershipRows, Filled, CallRows, MemberOps
    <2>2. CASE k.op = "reassign"
        <3>1. k.seen - k.value \in Money /\ k.seenTo + k.value \in Money
            BY <1>1, <2>2 DEF Filled, Money
        <3>2. row' = Moved(k)
            BY <2>2 DEF Commit, CommitBudgets
        <3> QED BY <1>1, <2>2, <3>1, <3>2 DEF Moved, RowTypes, MembershipRows, Filled, MemberOps
    <2>3. CASE k.op = "update"
        <3>1. row' = row \/ row' = [row EXCEPT ![k.m].budget = k.value]
            BY <2>3 DEF Commit, CommitBudgets
        <3> QED BY <1>1, <2>3, <3>1 DEF RowTypes, MembershipRows, Filled, CallRows, MemberOps
    <2>4. CASE k.op = "delete"
        <3>1. row' = [m \in Memberships |->
                        IF m \in Writes(k) THEN [state |-> "none", budget |-> None] ELSE row[m]]
            BY <2>4 DEF Commit, CommitDelete
        <3>2. [state |-> "none", budget |-> None] \in MembershipRows
            BY DEF MembershipRows, Money
        <3> QED BY <1>1, <3>1, <3>2 DEF RowTypes
    <2>5. CASE k.op \in {"remove", "restore"}
        <3>1. \E s \in {"removed", "active"} : row' = [row EXCEPT ![k.m].state = s]
            BY <2>5 DEF Commit, CommitState
        <3> QED BY <1>1, <2>5, <3>1 DEF RowTypes, MembershipRows, Filled, MemberOps
    <2>6. CASE k.op = "rollover"
        <3>1. PICK unspent \in [Users -> Amounts \cup {0}], due \in SUBSET Memberships :
                 /\ \A m \in due : row[m].budget # None
                 /\ row' = [m \in Memberships |->
                              IF m \in due THEN [row[m] EXCEPT !.budget = @ + unspent[m[2]]]
                              ELSE row[m]]
            BY <2>6 DEF Commit, CommitRollover
        <3>2. ASSUME NEW m \in due
              PROVE  [row[m] EXCEPT !.budget = @ + unspent[m[2]]] \in MembershipRows
            <4>1. row[m] \in MembershipRows /\ row[m].budget \in Nat
                BY <1>1, <3>1 DEF RowTypes, MembershipRows, Money
            <4>2. unspent[m[2]] \in Nat
                BY <3>1, AllocationAssumption
            <4>3. row[m].budget + unspent[m[2]] \in Money
                BY <4>1, <4>2, MoneySum
            <4> QED BY <4>1, <4>3 DEF MembershipRows
        <3> QED BY <1>1, <3>1, <3>2 DEF RowTypes
    <2>7. CASE k.op \in {"submit", "reject", "ceiling", "create", "org"}
        <3>1. row' = row
            BY <2>7 DEF Commit, CommitRequest, CommitCeiling, CommitOrg
        <3> QED BY <1>1, <3>1 DEF RowTypes
    <2> QED BY <2>1, <2>2, <2>3, <2>4, <2>5, <2>6, <2>7 DEF Commit
<1>3. /\ ceiling' \in [Teams -> Money \cup {Absent}]
      /\ org' \in [exists : BOOLEAN, ceiling : Money]
    <2>1. \/ UNCHANGED <<ceiling, org>>
          \/ UNCHANGED org /\ \E v \in Money \cup {Absent} : ceiling' = [ceiling EXCEPT ![k.team] = v]
          \/ UNCHANGED ceiling /\ org' = [exists |-> TRUE, ceiling |-> k.value]
        BY <1>1 DEF Commit, CallRows, CommitMember, CommitBudgets, CommitRollover, CommitState,
           CommitRequest, CommitCeiling, CommitDelete, CommitOrg
    <2>2. ceiling \in [Teams -> Money \cup {Absent}] /\ org \in [exists : BOOLEAN, ceiling : Money]
        BY <1>1 DEF RowTypes
    <2>3. [exists |-> TRUE, ceiling |-> k.value] \in [exists : BOOLEAN, ceiling : Money]
        BY <1>1 DEF CallRows
    <2> QED BY <2>1, <2>2, <2>3
<1> QED BY <1>2, <1>3

\* A commit changes one request at most: its own, while that has its lock.
LEMMA CommitRequests ==
    ASSUME IInv, NEW c \in Calls, Commit(c)
    PROVE  /\ request' \in [Requests -> RequestRows]
           /\ \A r \in Requests : request'[r].status # "none" =>
                 <<request'[r].team, request'[r].user>> \in Memberships
           /\ \A r \in Requests :
                 \/ request'[r] = request[r]
                 \/ /\ HasRequest(call[c], r)
                    /\ request[r].status \in {"none", "pending"}
                    /\ request'[r].status # "none"
<1> DEFINE k == call[c]
<1>1. /\ k \in CallRows /\ k.pc = "flushed" /\ Filled(k) /\ Linked(k) /\ RowTypes
    BY DEF IInv, Commit, Shaped, RestingPcs
<1>2. CASE k.op \in RequestOps
    <2>1. PICK r \in Requests : r = k.request
        BY <1>1, <1>2 DEF Filled
    <2>2. HasRequest(k, r)
        BY <1>1, <1>2, <2>1 DEF HasRequest, RequestOps
    <2>3. PICK new \in RequestRows :
             /\ request' = [request EXCEPT ![r] = new]
             /\ new.status # "none"
             /\ <<new.team, new.user>> \in Memberships
        <3>1. request[r] \in RequestRows
            BY <1>1 DEF RowTypes
        <3>2. CASE k.op \in {"approve", "reject"}
            <4>1. <<request[r].team, request[r].user>> \in Memberships
                BY <1>1, <2>1, <3>2 DEF Linked, RowTypes, RestingPcs
            <4>2. PICK s \in {"approved", "rejected"} :
                     request' = [request EXCEPT ![r].status = s]
                BY <1>1, <2>1, <3>2 DEF Commit, CommitMember, CommitRequest
            <4>3. request' = [request EXCEPT ![r] = [request[r] EXCEPT !.status = s]]
                BY <4>2
            <4>4. [request[r] EXCEPT !.status = s] \in RequestRows
                BY <3>1 DEF RequestRows
            <4>5. /\ [request[r] EXCEPT !.status = s].status # "none"
                  /\ [request[r] EXCEPT !.status = s].team = request[r].team
                  /\ [request[r] EXCEPT !.status = s].user = request[r].user
                BY <3>1 DEF RequestRows
            <4> QED BY <4>1, <4>3, <4>4, <4>5
        <3>3. CASE k.op = "submit"
            <4> DEFINE new == [user |-> k.m[2], team |-> k.team, status |-> "pending"]
            <4>1. request' = [request EXCEPT ![r] = new]
                BY <1>1, <2>1, <3>3 DEF Commit, CommitRequest
            <4>2. k.m \in Memberships /\ k.team = k.m[1]
                BY <1>1, <3>3 DEF Filled, MemberOps
            <4>3. k.m[1] \in Teams /\ k.m[2] \in Users /\ k.m = <<k.m[1], k.m[2]>>
                BY <4>2, AllocationAssumption
            <4>4. new \in RequestRows /\ <<new.team, new.user>> \in Memberships
                BY <4>2, <4>3 DEF RequestRows
            <4> QED BY <4>1, <4>4
        <3> QED BY <1>2, <3>2, <3>3 DEF RequestOps
    <2>4. request[r].status \in {"none", "pending"}
        BY <1>1, <1>2, <2>1, <2>2 DEF Linked, RequestOps, RestingPcs
    <2>5. request'[r] = new /\ \A x \in Requests : x # r => request'[x] = request[x]
        BY <1>1, <2>3 DEF RowTypes
    <2>6. request' \in [Requests -> RequestRows]
        BY <1>1, <2>3 DEF RowTypes
    <2> QED BY <1>1, <2>2, <2>3, <2>4, <2>5, <2>6 DEF RowTypes
<1>3. CASE k.op \notin RequestOps
    <2>1. request' = request
        BY <1>1, <1>3 DEF Commit, RequestOps, CommitMember, CommitBudgets, CommitRollover,
           CommitState, CommitRequest, CommitCeiling, CommitDelete, CommitOrg
    <2> QED BY <1>1, <2>1 DEF RowTypes
<1> QED BY <1>2, <1>3

\* It makes or deletes no team but its own, and that under its lock.
LEMMA CommitTeams ==
    ASSUME IInv, NEW c \in Calls, Commit(c), NEW t \in Teams,
           (ceiling'[t] = Absent) # (ceiling[t] = Absent)
    PROVE  /\ HasTeam(call[c], t)
           /\ ceiling[t] = Absent => Creates(call[c], t)
<1> DEFINE k == call[c]
<1>1. /\ k \in CallRows /\ k.pc = "flushed" /\ Filled(k) /\ Linked(k)
      /\ ceiling \in [Teams -> Money \cup {Absent}]
    BY DEF IInv, Commit, Shaped, RestingPcs, RowTypes
<1>2. /\ k.op \in {"ceiling", "create", "delete"}
      /\ \E v \in Money \cup {Absent} :
            /\ ceiling' = [ceiling EXCEPT ![k.team] = v]
            /\ k.op = "delete" => v = Absent
    BY <1>1 DEF Commit, CallRows, CommitMember, CommitBudgets, CommitRollover, CommitState,
       CommitRequest, CommitCeiling, CommitDelete, CommitOrg
<1>3. t = k.team
    BY <1>1, <1>2
<1>4. HasTeam(k, t)
    BY <1>1, <1>2, <1>3 DEF HasTeam, RowFirst
<1>5. ceiling[t] = Absent => k.op = "create"
    BY <1>1, <1>3, <1>4 DEF Linked, RestingPcs
<1> QED BY <1>1, <1>3, <1>4, <1>5 DEF Creates, RestingPcs

LEMMA CommitKeeps == ASSUME IInv, NEW c \in Calls, Commit(c) PROVE IInv'
<1> DEFINE k == call[c]
<1>1. k \in CallRows /\ call \in [Calls -> CallRows] /\ k.pc = "flushed"
    BY DEF IInv, Commit
<1>2. /\ Shaped(Reply("done", k.m)) /\ Reply("done", k.m).pc = "done"
    BY <1>1, ReplyShaped DEF CallRows, RestingPcs
<1>3. /\ call' \in [Calls -> CallRows] /\ call'[c] = Reply("done", k.m)
      /\ \A d \in Calls : d # c => call'[d] = call[d]
    BY <1>1, <1>2 DEF Commit, Shaped
<1>4. chain' = chain
    BY DEF Commit
<1>5. \A d, e \in Calls : d # e => Apart(call'[d], call'[e])
    BY <1>2, <1>3, EmptyHanded, ApartSymmetric DEF IInv, OneHolder, RestingPcs
<1>6. OneHolder'
    BY <1>4, <1>5 DEF OneHolder, Apart, HasAudit, HasTeam, HasRow, HasRequest, Creates, Writes
<1>7. \A d \in Calls : Shaped(call'[d])
    BY <1>2, <1>3 DEF IInv
<1>8. \A d \in Calls : Shaped(call[d])'
    BY <1>7 DEF Shaped
<1>9. RowTypes'
    BY CommitTyped, CommitRequests DEF RowTypes
<1>10. ASSUME NEW d \in Calls PROVE Linked(call[d])'
    <2>1. CASE d = c
        BY <1>2, <1>3, <2>1 DEF Linked, RestingPcs
    <2>2. CASE d # c
        <3> DEFINE j == call[d]
        <3>1. j \in CallRows /\ Linked(j) /\ Shaped(j) /\ call'[d] = j /\ Apart(j, k)
            BY <1>3, <2>2 DEF IInv, OneHolder
        <3> SUFFICES ASSUME j.pc \notin RestingPcs PROVE Linked(call[d])'
            BY <3>1 DEF Linked
        <3>2. Filled(j)
            BY <3>1 DEF Shaped
        <3>3. j.op \in {"approve", "reject"} => request'[j.request].status # "none"
            BY <3>1, <3>2, CommitRequests DEF Filled, RequestOps, Linked
        <3>4. j.op = "submit" => request'[j.request].status = "none"
            <4>1. j.op = "submit" => HasRequest(j, j.request) /\ j.request \in Requests
                BY <3>1, <3>2 DEF HasRequest, Filled, RequestOps, Shaped, RestingPcs, RowFirst, CallRows, Pcs
            <4> QED BY <3>1, <4>1, CommitRequests DEF Linked, Apart
        <3>5. j.op \in {"approve", "reject"} /\ HasRequest(j, j.request) =>
                 request'[j.request].status = "pending"
            <4>1. j.op \in {"approve", "reject"} => j.request \in Requests
                BY <3>2 DEF Filled, RequestOps
            <4> QED BY <3>1, <4>1, CommitRequests DEF Linked, Apart
        <3>6. j.op = "create" => ceiling'[j.team] = Absent
            <4>1. j.op = "create" => j.team \in Teams /\ Creates(j, j.team) /\ ceiling[j.team] = Absent
                BY <3>1, <3>2 DEF Filled, Creates, Linked
            <4> QED BY <3>1, <4>1, CommitTeams DEF Apart
        <3>7. j.op # "create" /\ HasTeam(j, j.team) => ceiling'[j.team] # Absent
            <4>1. HasTeam(j, j.team) => j.team \in Teams
                BY <3>2 DEF Filled, HasTeam
            <4> QED BY <3>1, <4>1, CommitTeams DEF Apart, Linked
        <3> QED BY <3>1, <3>3, <3>4, <3>5, <3>6, <3>7 DEF Linked, HasRequest, HasTeam
    <2> QED BY <2>1, <2>2
<1> QED BY <1>3, <1>6, <1>8, <1>9, <1>10 DEF IInv

LEMMA Stepped == ASSUME IInv, [Next]_vars PROVE IInv'
<1>1. CASE UNCHANGED vars
    BY <1>1 DEF vars, IInv, RowTypes, OneHolder, Apart, Shaped, Filled, Linked, Creates,
       HasAudit, HasTeam, HasRow, HasRequest, Writes
<1>2. ASSUME NEW c \in Calls,
             \/ AddMember(c) \/ UpdateMember(c) \/ ApproveJoinRequest(c)
             \/ ReassignBudget(c) \/ SetTeamCeiling(c) \/ SetOrgCeiling(c)
             \/ CreateTeam(c) \/ DeleteTeam(c)
             \/ RemoveMember(c) \/ RestoreMember(c)
             \/ SubmitJoinRequest(c) \/ RejectJoinRequest(c) \/ TouchTeam(c)
      PROVE  IInv'
    BY <1>2, MemberCallsArrive, CeilingCallsArrive, ApproveArrives, CreateArrives,
       RowFirstArrives, SubmitArrives, TouchArrives
<1>3. ASSUME NEW c \in Calls, Proceed(c) \/ Abort(c)
      PROVE  IInv'
    <2>1. CASE TeamGone(c) \/ Abort(c)
        BY <2>1, UndoKeeps DEF TeamGone, Abort, RestingPcs
    <2>2. CASE LockActiveMember(c) \/ LockRemovedMember(c) \/ LockPendingRequest(c)
               \/ InsertJoinRequest(c)
        <3>1. PICK op \in RowFirst, found \in BOOLEAN :
                 /\ OwnRow(c, op, found)
                 /\ found /\ op = "reject" => request[call[c].request].status = "pending"
            <4>1. CASE LockActiveMember(c)
                BY <4>1 DEF LockActiveMember, RowFirst
            <4>2. CASE LockRemovedMember(c)
                BY <4>2 DEF LockRemovedMember, RowFirst
            <4>3. CASE LockPendingRequest(c)
                BY <4>3 DEF LockPendingRequest, RowFirst
            <4>4. CASE InsertJoinRequest(c)
                <5>1. PICK found \in BOOLEAN : OwnRow(c, "submit", found)
                    BY <4>4 DEF InsertJoinRequest
                <5> QED BY <5>1 DEF RowFirst
            <4> QED BY <2>2, <4>1, <4>2, <4>3, <4>4
        <3> QED BY <3>1, OwnRowKeeps
    <2> QED BY <1>3, <2>1, <2>2, WriteAuditEntryKeeps, LockOrgKeeps, CheckOrgKeeps, ChecksKeep,
            WriteRowsKeeps, CommitKeeps DEF Proceed
<1> QED BY <1>1, <1>2, <1>3 DEF Next

\* The types of every row and call, whatever is called when, and that no two
\* calls hold the same lock: what the other theorems rest on.
THEOREM AllocationInvariant == Spec => []IInv
<1>1. Init => IInv
    BY Inited
<1>2. IInv /\ [Next]_vars => IInv'
    BY Stepped
<1> QED BY <1>1, <1>2, PTL DEF Spec

-----------------------------------------------------------------------------
(* The decision on a join request, and the waiting.                        *)

\* approve_join_request and reject_join_request decide a pending request once:
\* the guarded UPDATE locks its row, and nothing changes it afterwards.
THEOREM DecisionsAreFinal == Spec => ResolutionIsFinal
<1> DEFINE Final == \A r \in Requests :
                      request[r].status \in {"approved", "rejected"} => request'[r] = request[r]
<1>1. IInv /\ [Next]_vars => [Final]_vars
    <2> SUFFICES ASSUME IInv, Next, NEW r \in Requests, request[r].status \in {"approved", "rejected"}
                 PROVE  request'[r] = request[r]
        BY DEF Final
    <2>1. ASSUME NEW c \in Calls, Commit(c)
          PROVE  request'[r] = request[r]
        BY <2>1, CommitRequests
    <2>2. ASSUME NEW c \in Calls, Proceed(c), ~Commit(c)
          PROVE  request'[r] = request[r]
        BY <2>2 DEF Proceed, LockActiveMember, LockRemovedMember, LockPendingRequest,
           InsertJoinRequest, OwnRow, WriteAuditEntry, LockOrg, CheckOrg, CheckAdd, CheckUpdate,
           CheckReassign, CheckCeiling, LockOnly, TeamGone, WriteRows, GoOnIf, GoOn, Undo
    <2>3. ASSUME NEW c \in Calls,
                 \/ AddMember(c) \/ UpdateMember(c) \/ ApproveJoinRequest(c)
                 \/ ReassignBudget(c) \/ SetTeamCeiling(c) \/ SetOrgCeiling(c)
                 \/ CreateTeam(c) \/ DeleteTeam(c)
                 \/ RemoveMember(c) \/ RestoreMember(c)
                 \/ SubmitJoinRequest(c) \/ RejectJoinRequest(c) \/ TouchTeam(c) \/ Abort(c)
          PROVE  request'[r] = request[r]
        BY <2>3 DEF AddMember, UpdateMember, ApproveJoinRequest, ReassignBudget, SetTeamCeiling,
           SetOrgCeiling, CreateTeam, DeleteTeam, RemoveMember, RestoreMember,
           SubmitJoinRequest, RejectJoinRequest, TouchTeam, Abort, Arrive, Undo
    <2> QED BY <2>1, <2>2, <2>3 DEF Next
<1>2. Spec => []IInv
    BY AllocationInvariant
<1> QED BY <1>1, <1>2, PTL DEF Spec, ResolutionIsFinal, Final

\* If every call at work waited: one that waits for the settings row waits for
\* the call that wrote its audit entry, and that one, by way of the
\* organisation's and a team's row, for one that has its own row and waits for
\* the settings row; where nobody waits for the settings row, a call that locks
\* rows waits for nobody, so who waits for a team does not either, and so on up.
LEMMA SomeoneGoesOn == IInv => NoCircularWait
<1> SUFFICES ASSUME IInv, NEW c0 \in Calls, AtWork(c0),
                    \A c \in Calls : AtWork(c) => Waiting(c)
             PROVE  \E r, h \in Calls : /\ chain /\ call[r].op \in RowFirst /\ call[r].pc = "audit"
                                        /\ WaitsFor(call[h], call[r])
    BY DEF NoCircularWait
<1>1. ASSUME NEW c \in Calls
      PROVE  /\ call[c].pc # "flushed"
             /\ Linked(call[c]) /\ Shaped(call[c])
             /\ call[c].pc \notin RestingPcs => Filled(call[c])
    BY <1>1 DEF IInv, Shaped, AtWork, Waiting, WaitsFor, RestingPcs
<1>2. ASSUME NEW h \in Calls, call[h].pc = "rows", \E g \in Calls : WaitsFor(call[h], call[g])
      PROVE  \E f \in Calls : /\ call[f].op \in RowFirst /\ call[f].pc = "audit"
                              /\ WaitsFor(call[h], call[f])
    <2>1. PICK f \in Calls : WaitsFor(call[h], call[f])
        BY <1>2
    <2>2. CASE \E m \in Writes(call[h]) : HasRow(call[f], m)
        BY <1>1, <2>1, <2>2 DEF HasRow, RowFirst
    <2>3. CASE call[h].op = "approve" /\ HasRequest(call[f], call[h].request)
        <3>1. request[call[h].request].status # "none"
            BY <1>1, <1>2, <2>3 DEF Linked, RestingPcs
        <3>2. call[f].pc \notin RestingPcs /\ call[f].request = call[h].request
            BY <2>3 DEF HasRequest, RestingPcs
        <3>3. call[f].op # "submit"
            BY <1>1, <3>1, <3>2 DEF Linked
        <3>4. call[f].op = "reject" /\ call[f].pc = "audit"
            BY <1>1, <2>3, <3>3 DEF HasRequest
        <3> QED BY <2>1, <3>4 DEF RowFirst
    <2> QED BY <1>2, <2>1, <2>2, <2>3 DEF WaitsFor
<1>3. ASSUME NEW h \in Calls, NEW t, call[h].pc = "team"
      PROVE  \E g \in Calls :
                /\ WaitsFor(call[h], call[g])
                /\ \/ call[g].pc = "rows" /\ call[g].op \notin RowFirst
                   \/ call[g].pc = "audit" /\ call[g].op = "submit"
    <2>1. Waiting(h)
        BY <1>3 DEF AtWork, RestingPcs
    <2>2. PICK g \in Calls : WaitsFor(call[h], call[g])
        BY <2>1 DEF Waiting
    <2> QED BY <1>1, <1>3, <2>2 DEF WaitsFor, HasTeam, SharesTeam
<1>4. CASE \E c \in Calls : call[c].pc = "audit"
    <2>1. PICK c \in Calls : call[c].pc = "audit"
        BY <1>4
    <2>2. Waiting(c)
        BY <2>1 DEF AtWork, RestingPcs
    <2>3. PICK h \in Calls : WaitsFor(call[c], call[h])
        BY <2>2 DEF Waiting
    <2>4. HasAudit(call[h])
        BY <2>1, <2>3 DEF WaitsFor
    <2>5. chain /\ call[h].op # "rollover" /\ call[h].pc \in {"org", "team", "rows"}
        BY <1>1, <2>4 DEF HasAudit
    <2>6. Waiting(h)
        BY <2>5 DEF AtWork, RestingPcs
    <2>7. \A g \in Calls : HasAudit(call[g]) => g = h
        BY <2>4 DEF IInv, OneHolder, Apart
    <2>8. CASE call[h].pc = "org"
        <3>1. PICK g \in Calls : call[g].orgLock
            BY <2>6, <2>8 DEF Waiting, WaitsFor
        <3>2. call[g].pc = "team" /\ call[g].op \in {"ceiling", "create", "org"}
            BY <1>1, <3>1 DEF Shaped
        <3>3. HasAudit(call[g])
            BY <2>5, <3>2 DEF HasAudit
        <3> QED BY <2>7, <2>8, <3>2, <3>3
    <2>9. CASE call[h].pc = "rows"
        BY <1>2, <2>5, <2>6, <2>9 DEF Waiting
    <2>10. CASE call[h].pc = "team"
        <3>1. PICK g \in Calls :
                /\ WaitsFor(call[h], call[g])
                /\ \/ call[g].pc = "rows" /\ call[g].op \notin RowFirst
                   \/ call[g].pc = "audit" /\ call[g].op = "submit"
            BY <1>3, <2>10
        <3>2. CASE call[g].pc = "audit" /\ call[g].op = "submit"
            BY <2>5, <3>1, <3>2 DEF RowFirst
        <3>3. CASE call[g].pc = "rows"
            <4>1. Waiting(g)
                BY <3>3 DEF AtWork, RestingPcs
            <4> QED BY <1>2, <2>5, <3>3, <4>1 DEF Waiting
        <3> QED BY <3>1, <3>2, <3>3
    <2> QED BY <2>5, <2>8, <2>9, <2>10
<1>5. CASE \A c \in Calls : call[c].pc # "audit"
    <2>1. ASSUME NEW c \in Calls, call[c].pc = "rows" PROVE FALSE
        <3>1. Waiting(c)
            BY <2>1 DEF AtWork, RestingPcs
        <3> QED BY <1>2, <1>5, <2>1, <3>1 DEF Waiting
    <2>2. ASSUME NEW c \in Calls, call[c].pc = "team" PROVE FALSE
        BY <1>3, <1>5, <2>1, <2>2
    <2>3. ASSUME NEW c \in Calls, call[c].pc = "org" PROVE FALSE
        <3>1. Waiting(c)
            BY <2>3 DEF AtWork, RestingPcs
        <3>2. PICK g \in Calls : call[g].orgLock
            BY <2>3, <3>1 DEF Waiting, WaitsFor
        <3> QED BY <1>1, <2>2, <3>2 DEF Shaped
    <2>4. \A c \in Calls : call[c].pc \in RestingPcs \cup {"row"}
        BY <1>1, <1>5, <2>1, <2>2, <2>3 DEF Shaped, CallRows, Pcs
    <2>5. call[c0].pc = "row"
        BY <2>4 DEF AtWork
    <2>6. PICK h \in Calls : OwnRowTaken(call[c0], call[h])
        BY <2>5 DEF AtWork, RestingPcs, Waiting, WaitsFor
    <2>7. call[h].pc = "row" /\ call[h].op = "submit" /\ call[c0].op = "reject"
          /\ call[h].request = call[c0].request
        BY <2>4, <2>6 DEF OwnRowTaken, HasRow, HasRequest, HasTeam, RestingPcs
    <2> QED BY <1>1, <2>5, <2>7 DEF Linked, RestingPcs
<1> QED BY <1>4, <1>5

\* The settings row before the organisation's, that one before a team's, that
\* one before a member's or a request's: of calls at work, however many, one can
\* always go on, but where the chain is on and remove_member, restore_member,
\* submit or reject has its own row and waits for the settings row.
THEOREM WaitsEnd == Spec => []NoCircularWait
BY AllocationInvariant, SomeoneGoesOn, PTL

-----------------------------------------------------------------------------
(* Budgets within ceilings.  The sums are taken of tables R (memberships),  *)
(* C (ceilings), O (dollars past the check) and G (the organisation's row)  *)
(* so that a lemma serves the state before and the state after a step.      *)

\* What a membership row counts for.
Weight(r) == IF Counted(r) THEN Dollars(r.budget) ELSE 0
MembersOf(t) == {m \in Memberships : m[1] = t}
AllocOf(R, t, X) == SumFunctionOnSet([m \in Memberships |-> Weight(R[m])], MembersOf(t) \ X)
CeilOf(C, X) == SumFunctionOnSet([t \in Teams |-> Dollars(C[t])], Teams \ X)

Tables == [Memberships -> MembershipRows]
Ceilings == [Teams -> Money \cup {Absent}]
Metered(v) == v \notin {None, Absent}

LEMMA FiniteSums ==
    /\ IsFiniteSet(Memberships)
    /\ \A t, X : IsFiniteSet(MembersOf(t) \ X) /\ MembersOf(t) \ X \subseteq Memberships
    /\ \A X : IsFiniteSet(Teams \ X)
<1>1. IsFiniteSet(Teams \X Users)
    BY AllocationAssumption, FS_Product
<1>2. IsFiniteSet(Memberships)
    BY <1>1, AllocationAssumption, FS_Subset
<1>3. ASSUME NEW t, NEW X
      PROVE  IsFiniteSet(MembersOf(t) \ X) /\ MembersOf(t) \ X \subseteq Memberships
    <2>1. MembersOf(t) \ X \subseteq Memberships
        BY DEF MembersOf
    <2> QED BY <1>2, <2>1, FS_Subset
<1>4. ASSUME NEW X PROVE IsFiniteSet(Teams \ X)
    BY AllocationAssumption, FS_Subset
<1> QED BY <1>2, <1>3, <1>4

LEMMA WeightType ==
    ASSUME NEW r \in MembershipRows
    PROVE  /\ Weight(r) \in Nat /\ Dollars(r.budget) \in Nat
           /\ Weight(r) <= Dollars(r.budget)
BY AllocationAssumption DEF Weight, Dollars, MembershipRows, Money

LEMMA DollarsType ==
    ASSUME NEW v \in Money \cup {Absent}
    PROVE  Dollars(v) \in Nat /\ (Metered(v) <=> v \in Nat) /\ (v \in Nat => Dollars(v) = v)
BY AllocationAssumption DEF Dollars, Money, Metered

LEMMA AllocType ==
    ASSUME NEW R \in Tables, NEW t, NEW X
    PROVE  AllocOf(R, t, X) \in Nat
<1> DEFINE f == [m \in Memberships |-> Weight(R[m])]
           S == MembersOf(t) \ X
<1>1. IsFiniteSet(S) /\ \A m \in S : f[m] \in Nat
    BY FiniteSums, WeightType DEF Tables
<1> HIDE DEF f, S
<1>2. SumFunctionOnSet(f, S) \in Nat
    BY <1>1, SumOfNaturals
<1> QED BY <1>2 DEF AllocOf, f, S

LEMMA CeilType ==
    ASSUME NEW C \in Ceilings, NEW X
    PROVE  CeilOf(C, X) \in Nat
<1> DEFINE f == [t \in Teams |-> Dollars(C[t])]
           S == Teams \ X
<1>1. IsFiniteSet(S) /\ \A t \in S : f[t] \in Nat
    BY FiniteSums, DollarsType DEF Ceilings
<1> HIDE DEF f, S
<1>2. SumFunctionOnSet(f, S) \in Nat
    BY <1>1, SumOfNaturals
<1> QED BY <1>2 DEF CeilOf, f, S

\* The SQL sum over the active rows is the sum of all rows' weights.
LEMMA AllocIs ==
    ASSUME NEW R \in Tables, NEW t, NEW X
    PROVE  SumFunctionOnSet([m \in Memberships |-> Dollars(R[m].budget)],
                            {m \in Memberships \ X : m[1] = t /\ Counted(R[m])})
             = AllocOf(R, t, X)
<1> DEFINE f == [m \in Memberships |-> Weight(R[m])]
           g == [m \in Memberships |-> Dollars(R[m].budget)]
           S == MembersOf(t) \ X
           T == {m \in Memberships \ X : m[1] = t /\ Counted(R[m])}
<1>1. /\ IsFiniteSet(S) /\ T \in SUBSET S
      /\ \A m \in S : f[m] \in Int
      /\ \A m \in S \ T : f[m] = 0
      /\ \A m \in T : g[m] = f[m]
    <2>1. IsFiniteSet(S) /\ \A m \in Memberships : Weight(R[m]) \in Int
        BY FiniteSums, WeightType DEF Tables
    <2> QED BY <2>1 DEF MembersOf, Weight
<1>2. IsFiniteSet(T)
    BY <1>1, FS_Subset
<1> HIDE DEF f, g, S, T
<1>3. SumFunctionOnSet(f, S) = SumFunctionOnSet(f, T)
    BY <1>1, SumSupport
<1>4. SumFunctionOnSet(g, T) = SumFunctionOnSet(f, T)
    BY <1>1, <1>2, SumSame
<1>5. SumFunctionOnSet(g, T) = SumFunctionOnSet(f, S)
    BY <1>3, <1>4
<1> QED BY <1>5 DEF AllocOf, f, g, S, T

\* Rows of the team that keep their weight keep the sum.
LEMMA AllocFrame ==
    ASSUME NEW R \in Tables, NEW Q \in Tables, NEW t, NEW X,
           \A m \in MembersOf(t) \ X : Weight(Q[m]) = Weight(R[m])
    PROVE  AllocOf(Q, t, X) = AllocOf(R, t, X)
<1> DEFINE f == [m \in Memberships |-> Weight(R[m])]
           g == [m \in Memberships |-> Weight(Q[m])]
           S == MembersOf(t) \ X
<1>1. IsFiniteSet(S) /\ \A m \in S : f[m] = g[m]
    BY FiniteSums
<1> HIDE DEF f, g, S
<1>2. SumFunctionOnSet(f, S) = SumFunctionOnSet(g, S)
    BY <1>1, SumSame
<1> QED BY <1>2 DEF AllocOf, f, g, S

\* One row changes.
LEMMA AllocUpdate ==
    ASSUME NEW R \in Tables, NEW Q \in Tables, NEW t, NEW X, NEW m \in MembersOf(t) \ X,
           \A n \in Memberships : n # m => Q[n] = R[n]
    PROVE  AllocOf(Q, t, X) = AllocOf(R, t, X) + (Weight(Q[m]) - Weight(R[m]))
<1> DEFINE f == [n \in Memberships |-> Weight(R[n])]
           g == [n \in Memberships |-> Weight(Q[n])]
           S == MembersOf(t) \ X
<1>1. /\ IsFiniteSet(S) /\ m \in S
      /\ \A n \in S : f[n] \in Int /\ g[n] \in Int
      /\ \A n \in S \ {m} : g[n] = f[n]
      /\ f[m] = Weight(R[m]) /\ g[m] = Weight(Q[m])
    <2>1. IsFiniteSet(S) /\ S \subseteq Memberships /\ m \in S
        BY FiniteSums
    <2>2. \A n \in Memberships : Weight(R[n]) \in Int /\ Weight(Q[n]) \in Int
        BY WeightType DEF Tables
    <2> HIDE DEF S
    <2> QED BY <2>1, <2>2
<1> HIDE DEF f, g, S
<1>2. SumFunctionOnSet(g, S) = SumFunctionOnSet(f, S) + (g[m] - f[m])
    BY <1>1, SumUpdate
<1> QED BY <1>1, <1>2 DEF AllocOf, f, g, S

\* A row apart from the others of its team.
LEMMA AllocPart ==
    ASSUME NEW R \in Tables, NEW t, NEW X, NEW m \in MembersOf(t) \ X
    PROVE  AllocOf(R, t, X) = Weight(R[m]) + AllocOf(R, t, X \cup {m})
<1> DEFINE f == [n \in Memberships |-> Weight(R[n])]
           S == MembersOf(t) \ X
<1>1. /\ IsFiniteSet(S) /\ m \in S /\ \A n \in S : f[n] \in Int
      /\ f[m] = Weight(R[m])
    <2>1. IsFiniteSet(S) /\ S \subseteq Memberships /\ m \in S
        BY FiniteSums
    <2>2. \A n \in Memberships : Weight(R[n]) \in Int
        BY WeightType DEF Tables
    <2> HIDE DEF S
    <2> QED BY <2>1, <2>2
<1>2. S \ {m} = MembersOf(t) \ (X \cup {m})
    OBVIOUS
<1> HIDE DEF f, S
<1>3. SumFunctionOnSet(f, S) = f[m] + SumFunctionOnSet(f, S \ {m})
    BY <1>1, SumRemove
<1> QED BY <1>1, <1>2, <1>3 DEF AllocOf, f, S

\* The check of an update leaves the member's own row out.
LEMMA AllocSplit ==
    ASSUME NEW R \in Tables, NEW t, NEW m \in MembersOf(t)
    PROVE  AllocOf(R, t, {}) = Weight(R[m]) + AllocOf(R, t, {m})
<1>1. m \in MembersOf(t) \ {} /\ {} \cup {m} = {m}
    OBVIOUS
<1>2. AllocOf(R, t, {}) = Weight(R[m]) + AllocOf(R, t, {} \cup {m})
    BY <1>1, AllocPart
<1> QED BY <1>1, <1>2

\* A reassignment is between two rows.
LEMMA AllocSplitTwo ==
    ASSUME NEW R \in Tables, NEW t, NEW m \in MembersOf(t), NEW n \in MembersOf(t), m # n
    PROVE  AllocOf(R, t, {}) = Weight(R[m]) + Weight(R[n]) + AllocOf(R, t, {m, n})
<1>1. n \in MembersOf(t) \ {m} /\ {m} \cup {n} = {m, n}
    OBVIOUS
<1>2. AllocOf(R, t, {m}) = Weight(R[n]) + AllocOf(R, t, {m} \cup {n})
    BY <1>1, AllocPart
<1>3. AllocOf(R, t, {}) = Weight(R[m]) + AllocOf(R, t, {m})
    BY AllocSplit
<1>4. Weight(R[m]) \in Nat /\ Weight(R[n]) \in Nat /\ AllocOf(R, t, {m, n}) \in Nat
    BY WeightType, AllocType DEF Tables, MembersOf
<1> QED BY <1>1, <1>2, <1>3, <1>4

\* One ceiling changes: what is left out does not count, the rest does.
LEMMA CeilUpdate ==
    ASSUME NEW C \in Ceilings, NEW D \in Ceilings, NEW t \in Teams, NEW X,
           \A u \in Teams : u # t => D[u] = C[u]
    PROVE  CeilOf(D, X) = CeilOf(C, X) + (IF t \in X THEN 0 ELSE Dollars(D[t]) - Dollars(C[t]))
<1> DEFINE f == [u \in Teams |-> Dollars(C[u])]
           g == [u \in Teams |-> Dollars(D[u])]
           S == Teams \ X
<1>1. IsFiniteSet(S) /\ \A u \in Teams : f[u] \in Int /\ g[u] \in Int
    BY FiniteSums, DollarsType DEF Ceilings
<1>2. \A u \in S \ {t} : g[u] = f[u]
    OBVIOUS
<1>3. f[t] = Dollars(C[t]) /\ g[t] = Dollars(D[t]) /\ S \subseteq Teams
    OBVIOUS
<1>4. CASE t \notin X
    <2>1. t \in S
        BY <1>4
    <2> HIDE DEF f, g, S
    <2>2. SumFunctionOnSet(g, S) = SumFunctionOnSet(f, S) + (g[t] - f[t])
        BY <1>1, <1>2, <1>3, <2>1, SumUpdate
    <2> QED BY <1>3, <1>4, <2>2 DEF CeilOf, f, g, S
<1>5. CASE t \in X
    <2>1. \A u \in S : f[u] = g[u]
        BY <1>2, <1>5
    <2> HIDE DEF f, g, S
    <2>2. SumFunctionOnSet(g, S) = SumFunctionOnSet(f, S) /\ SumFunctionOnSet(f, S) \in Int
        BY <1>1, <1>3, <2>1, SumSame, SumType
    <2>3. SumFunctionOnSet(g, S) = SumFunctionOnSet(f, S) + 0
        BY <2>2
    <2> QED BY <1>5, <2>3 DEF CeilOf, f, g, S
<1> QED BY <1>4, <1>5

LEMMA CeilSplit ==
    ASSUME NEW C \in Ceilings, NEW t \in Teams
    PROVE  CeilOf(C, {}) = Dollars(C[t]) + CeilOf(C, {t})
<1> DEFINE f == [u \in Teams |-> Dollars(C[u])]
           S == Teams \ {}
<1>1. /\ IsFiniteSet(S) /\ t \in S /\ \A u \in S : f[u] \in Int
      /\ f[t] = Dollars(C[t])
    <2>1. IsFiniteSet(S)
        BY FiniteSums
    <2>2. \A u \in Teams : Dollars(C[u]) \in Int
        BY DollarsType DEF Ceilings
    <2> QED BY <2>1, <2>2
<1>2. S \ {t} = Teams \ {t}
    OBVIOUS
<1> HIDE DEF f, S
<1>3. SumFunctionOnSet(f, S) = f[t] + SumFunctionOnSet(f, S \ {t})
    BY <1>1, SumRemove
<1> QED BY <1>1, <1>2, <1>3 DEF CeilOf, f, S

\* The members of t fit under its ceiling.
Within(t, R, C, O) == Metered(C[t]) => AllocOf(R, t, {}) <= C[t] + O[t]

\* k has checked what it asks for, and holds the lock under which it did.
Checked(k) == k.pc = "flushed" \/ (k.pc = "rows" /\ k.op # "approve")

\* What the check under the team's lock found, and still holds while the lock is
\* held: a reassignment that is unchecked takes two rows as they are.
Sound(k, R, C, O) ==
    /\ k.op \in {"add", "approve"} /\ Metered(C[k.team]) =>
          AllocOf(R, k.team, {}) + Dollars(k.value) <= C[k.team] + O[k.team]
    /\ k.op = "update" /\ k.value # k.seen /\ Metered(C[k.team]) =>
          AllocOf(R, k.team, {k.m}) + Dollars(k.value) <= C[k.team] + O[k.team]
    /\ k.op = "reassign" /\ Metered(C[k.team]) =>
          AllocOf(R, k.team, {k.m, k.to}) + Dollars(R[k.m].budget) + Dollars(R[k.to].budget)
             <= C[k.team] + O[k.team]
    /\ k.op \in {"ceiling", "create"} /\ k.value # None =>
          AllocOf(R, k.team, {}) <= k.value + O[k.team]

\* The row that a flushed call inserted was not there.
Fresh(k, R) == k.pc = "flushed" /\ k.op \in {"add", "approve"} => R[k.m].state = "none"

Fits(k, R, C, O) == (Checked(k) => Sound(k, R, C, O)) /\ Fresh(k, R)

\* The same under the organisation's lock.
Paid(k, C, G) ==
    /\ k.op \in {"ceiling", "create"} /\ k.value # None =>
          k.orgLock /\ (G.ceiling # None => CeilOf(C, {k.team}) + k.value <= G.ceiling)
    /\ k.op = "org" => k.orgLock /\ (k.value # None => CeilOf(C, {}) <= k.value)
Priced(k, C, G) ==
    /\ k.pc = "team" /\ k.op \in {"ceiling", "create"} =>
          k.orgLock /\ k.orgCeiling = G.ceiling
    /\ k.pc = "flushed" => Paid(k, C, G)

OneOrgLock == \A c, d \in Calls : call[c].orgLock /\ call[d].orgLock => c = d

Fit ==
    /\ over \in [Teams -> Nat]
    /\ org.exists
    /\ org.ceiling # None => CeilOf(ceiling, {}) <= org.ceiling
    /\ \A t \in Teams : Within(t, row, ceiling, over)
    /\ OneOrgLock
    /\ \A c \in Calls : /\ Fits(call[c], row, ceiling, over)
                        /\ Priced(call[c], ceiling, org)

\* The sums of the code are those of the invariant.
LEMMA SumsAre ==
    ASSUME RowTypes
    PROVE  /\ row \in Tables /\ ceiling \in Ceilings
           /\ \A t, X : AllocatedMemberBudget(t, X) = AllocOf(row, t, X)
           /\ \A X : SiblingCeilings(X) = CeilOf(ceiling, X)
<1>1. row \in Tables /\ ceiling \in Ceilings
    BY DEF RowTypes, Tables, Ceilings
<1>2. ASSUME NEW t, NEW X PROVE AllocatedMemberBudget(t, X) = AllocOf(row, t, X)
    BY <1>1, AllocIs DEF AllocatedMemberBudget
<1>3. ASSUME NEW X PROVE SiblingCeilings(X) = CeilOf(ceiling, X)
    BY DEF SiblingCeilings, CeilOf
<1> QED BY <1>1, <1>2, <1>3

LEMMA FitMeansWithin == IInv /\ Fit => BudgetsWithinCeilings
BY SumsAre DEF IInv, Fit, BudgetsWithinCeilings, Within, Metered

-----------------------------------------------------------------------------
(* One call moves on.                                                      *)
LEMMA FitReplaced ==
    ASSUME IInv, Fit, NEW c \in Calls, NEW k,
           call' = [call EXCEPT ![c] = k],
           UNCHANGED <<row, ceiling, org, over>>,
           Fits(k, row, ceiling, over), Priced(k, ceiling, org),
           k.orgLock => \A d \in Calls : d # c => ~call[d].orgLock
    PROVE  Fit'
<1>1. call'[c] = k /\ \A d \in Calls : d # c => call'[d] = call[d]
    BY DEF IInv
<1>2. OneOrgLock'
    BY <1>1 DEF Fit, OneOrgLock
<1>3. ASSUME NEW d \in Calls
      PROVE  Fits(call'[d], row, ceiling, over) /\ Priced(call'[d], ceiling, org)
    BY <1>1 DEF Fit
<1> QED BY <1>2, <1>3 DEF Fit

LEMMA UndoFits ==
    ASSUME IInv, Fit, NEW c \in Calls, NEW pc \in RestingPcs, Undo(c, pc)
    PROVE  Fit'
<1> DEFINE k == Reply(pc, call[c].m)
<1>1. k.pc = pc /\ k.orgLock = FALSE
    BY DEF Reply
<1>2. call' = [call EXCEPT ![c] = k] /\ UNCHANGED <<row, ceiling, org, over>>
    BY DEF Undo
<1> HIDE DEF k
<1>3. Fits(k, row, ceiling, over) /\ Priced(k, ceiling, org)
    BY <1>1 DEF Fits, Checked, Fresh, Priced, RestingPcs
<1> QED BY <1>1, <1>2, <1>3, FitReplaced

LEMMA GoOnFits ==
    ASSUME IInv, Fit, NEW c \in Calls, NEW pc \in Pcs, GoOn(c, pc),
           Checked(At(call[c], pc)) => Sound(call[c], row, ceiling, over),
           pc = "flushed" /\ call[c].op \in {"add", "approve"} => row[call[c].m].state = "none",
           pc = "team" => call[c].op \notin {"ceiling", "create"},
           pc = "flushed" => Paid(call[c], ceiling, org)
    PROVE  Fit'
<1> DEFINE k == At(call[c], pc)
<1>1. call[c] \in CallRows
    BY DEF IInv
<1>2. /\ k.pc = pc
      /\ k.op = call[c].op /\ k.team = call[c].team /\ k.m = call[c].m /\ k.to = call[c].to
      /\ k.value = call[c].value /\ k.seen = call[c].seen
      /\ k.orgLock = call[c].orgLock /\ k.orgCeiling = call[c].orgCeiling
    BY <1>1, AtIs
<1>3. call' = [call EXCEPT ![c] = k] /\ UNCHANGED <<row, ceiling, org, over>>
    BY DEF GoOn, At
<1>4. Checked(k) => Sound(call[c], row, ceiling, over)
    OBVIOUS
<1> HIDE DEF k
<1>5. Fits(k, row, ceiling, over)
    BY <1>2, <1>4 DEF Fits, Fresh, Sound
<1>6. Priced(k, ceiling, org)
    BY <1>2 DEF Priced, Paid
<1>7. k.orgLock => \A d \in Calls : d # c => ~call[d].orgLock
    BY <1>2 DEF Fit, OneOrgLock
<1> QED BY <1>3, <1>5, <1>6, <1>7, FitReplaced

\* What the ceiling leaves room for.
LEMMA RoomIs ==
    ASSUME NEW v \in Money, NEW top \in Money \cup {Absent}, NEW a \in Nat, NEW b \in Nat, NEW o \in Nat,
           Headroom(top, b, v), b <= a, Metered(top) => a <= top + o
    PROVE  Metered(top) => b + Dollars(v) <= top + o
<1>1. v = None \/ (v \in Nat /\ Dollars(v) = v)
    BY DollarsType DEF Money
<1>2. Dollars(None) = 0
    BY DEF Dollars
<1>3. Metered(top) => top \in Nat /\ top # None
    BY DollarsType DEF Metered
<1>4. CASE v = None
    BY <1>2, <1>3, <1>4
<1>5. CASE v \in Nat /\ Dollars(v) = v
    BY <1>3, <1>5, AllocationAssumption DEF Headroom
<1> QED BY <1>1, <1>4, <1>5

\* Facts of a call at work.
LEMMA AtWorkIs ==
    ASSUME IInv, Fit, NEW c \in Calls, call[c].pc \notin RestingPcs, call[c].op # "org"
    PROVE  /\ call[c] \in CallRows /\ Filled(call[c]) /\ call[c].team \in Teams
           /\ call[c].value \in Money
           /\ row \in Tables /\ ceiling \in Ceilings /\ over[call[c].team] \in Nat
           /\ \A X : /\ AllocatedMemberBudget(call[c].team, X) = AllocOf(row, call[c].team, X)
                     /\ AllocOf(row, call[c].team, X) \in Nat
           /\ Metered(ceiling[call[c].team]) =>
                 AllocOf(row, call[c].team, {}) <= ceiling[call[c].team] + over[call[c].team]
<1>1. call[c] \in CallRows /\ Filled(call[c]) /\ call[c].team \in Teams
    BY DEF IInv, Shaped, Filled
<1>2. row \in Tables /\ ceiling \in Ceilings
    BY SumsAre DEF IInv
<1> QED BY <1>1, <1>2, SumsAre, AllocType DEF IInv, CallRows, Fit, Within

\* The checks under the team's lock, and the rows.
LEMMA AddFits == ASSUME IInv, Fit, NEW c \in Calls, CheckAdd(c) PROVE Fit'
<1> DEFINE k == call[c]
<1>1. k.pc = "team" /\ k.op = "add" /\ k.pc \notin RestingPcs
    BY DEF CheckAdd, LockTeam, RestingPcs
<1>2. CASE Undo(c, "refused")
    BY <1>2, UndoFits DEF RestingPcs
<1>3. CASE GoOn(c, "rows") /\ HasRoom(k, AllocatedMemberBudget(k.team, {}))
    <2>1. PICK t \in Teams : t = k.team
        BY <1>1, AtWorkIs
    <2>2. /\ ceiling[t] \in Money \cup {Absent} /\ over[t] \in Nat /\ AllocOf(row, t, {}) \in Nat
          /\ Metered(ceiling[t]) => AllocOf(row, t, {}) <= ceiling[t] + over[t]
          /\ k.value \in Money /\ Headroom(ceiling[t], AllocOf(row, t, {}), k.value)
        BY <1>1, <1>3, <2>1, AtWorkIs DEF Ceilings, HasRoom
    <2>3. Metered(ceiling[t]) => AllocOf(row, t, {}) + Dollars(k.value) <= ceiling[t] + over[t]
        BY <2>2, RoomIs
    <2>4. Sound(k, row, ceiling, over)
        BY <1>1, <2>1, <2>3 DEF Sound
    <2> QED BY <1>3, <2>4, GoOnFits DEF Pcs
<1> QED BY <1>2, <1>3 DEF CheckAdd, GoOnIf

LEMMA UpdateFits == ASSUME IInv, Fit, NEW c \in Calls, CheckUpdate(c) PROVE Fit'
<1> DEFINE k == call[c]
<1>1. k.pc = "team" /\ k.op = "update" /\ k.pc \notin RestingPcs
    BY DEF CheckUpdate, LockTeam, RestingPcs
<1>2. CASE Undo(c, "refused")
    BY <1>2, UndoFits DEF RestingPcs
<1>3. CASE GoOn(c, "rows") /\ HasRoom(k, AllocatedMemberBudget(k.team, {k.m}))
    <2>1. PICK t \in Teams, m \in Memberships : t = k.team /\ m = k.m /\ m \in MembersOf(t)
        BY <1>1, AtWorkIs DEF Filled, MemberOps, MembersOf
    <2>2. /\ ceiling[t] \in Money \cup {Absent} /\ over[t] \in Nat
          /\ AllocOf(row, t, {}) \in Nat /\ AllocOf(row, t, {m}) \in Nat
          /\ Metered(ceiling[t]) => AllocOf(row, t, {}) <= ceiling[t] + over[t]
          /\ k.value \in Money /\ Headroom(ceiling[t], AllocOf(row, t, {m}), k.value)
          /\ row \in Tables
        BY <1>1, <1>3, <2>1, AtWorkIs DEF Ceilings, HasRoom
    <2>3. AllocOf(row, t, {m}) <= AllocOf(row, t, {})
        <3>1. AllocOf(row, t, {}) = Weight(row[m]) + AllocOf(row, t, {m})
            BY <2>1, <2>2, AllocSplit
        <3>2. Weight(row[m]) \in Nat
            BY <2>1, <2>2, WeightType DEF Tables, MembersOf
        <3> QED BY <2>2, <3>1, <3>2
    <2>4. Metered(ceiling[t]) => AllocOf(row, t, {m}) + Dollars(k.value) <= ceiling[t] + over[t]
        BY <2>2, <2>3, RoomIs
    <2>5. Sound(k, row, ceiling, over)
        BY <1>1, <2>1, <2>4 DEF Sound
    <2> QED BY <1>3, <2>5, GoOnFits DEF Pcs
<1> QED BY <1>2, <1>3 DEF CheckUpdate, GoOnIf

LEMMA ReassignFits == ASSUME IInv, Fit, NEW c \in Calls, CheckReassign(c) PROVE Fit'
<1> DEFINE k == call[c]
<1>1. k.pc = "team" /\ k.op = "reassign" /\ k.pc \notin RestingPcs
    BY DEF CheckReassign, LockTeam, RestingPcs
<1>2. CASE Undo(c, "refused")
    BY <1>2, UndoFits DEF RestingPcs
<1>3. CASE GoOn(c, "rows") /\ row[k.m].state = "active" /\ row[k.to].state = "active"
    <2>1. PICK t \in Teams, m \in Memberships, n \in Memberships :
             /\ t = k.team /\ m = k.m /\ n = k.to /\ m # n
             /\ m \in MembersOf(t) /\ n \in MembersOf(t)
        BY <1>1, AtWorkIs DEF Filled, MemberOps, MembersOf
    <2>2. /\ row \in Tables /\ AllocOf(row, t, {m, n}) \in Nat
          /\ Metered(ceiling[t]) => AllocOf(row, t, {}) <= ceiling[t] + over[t]
        BY <1>1, <2>1, AtWorkIs
    <2>3. AllocOf(row, t, {}) = Weight(row[m]) + Weight(row[n]) + AllocOf(row, t, {m, n})
        BY <2>1, <2>2, AllocSplitTwo
    <2>4. /\ Weight(row[m]) = Dollars(row[m].budget) /\ Weight(row[n]) = Dollars(row[n].budget)
          /\ Weight(row[m]) \in Nat /\ Weight(row[n]) \in Nat
        BY <1>3, <2>1, <2>2, WeightType DEF Weight, Counted, Tables, MembersOf
    <2>5. AllocOf(row, t, {m, n}) + Dollars(row[m].budget) + Dollars(row[n].budget)
             = AllocOf(row, t, {})
        BY <2>2, <2>3, <2>4
    <2>6. Sound(k, row, ceiling, over)
        BY <1>1, <2>1, <2>2, <2>5 DEF Sound
    <2> QED BY <1>3, <2>6, GoOnFits DEF Pcs
<1> QED BY <1>2, <1>3 DEF CheckReassign, GoOnIf

\* set_team_budget_ceiling and create_team under both locks.
LEMMA CeilingFits == ASSUME IInv, Fit, NEW c \in Calls, CheckCeiling(c) PROVE Fit'
<1> DEFINE k == call[c]
<1>1. k.pc = "team" /\ k.op \in {"ceiling", "create"} /\ k.pc \notin RestingPcs
    BY DEF CheckCeiling, LockTeam, RestingPcs
<1>2. CASE Undo(c, "refused")
    BY <1>2, UndoFits DEF RestingPcs
<1>3. CASE /\ GoOn(c, "flushed")
           /\ k.value # None =>
                 /\ k.value >= AllocatedMemberBudget(k.team, {})
                 /\ Headroom(k.orgCeiling, SiblingCeilings({k.team}), k.value)
    <2>1. PICK t \in Teams : t = k.team
        BY <1>1, AtWorkIs
    <2>2. /\ over[t] \in Nat /\ AllocatedMemberBudget(t, {}) = AllocOf(row, t, {})
          /\ AllocOf(row, t, {}) \in Nat /\ k.value \in Money
        BY <1>1, <2>1, AtWorkIs
    <2>3. k.orgLock /\ k.orgCeiling = org.ceiling /\ SiblingCeilings({t}) = CeilOf(ceiling, {t})
        BY <1>1, SumsAre DEF Fit, Priced, IInv
    <2>4. Sound(k, row, ceiling, over)
        <3>1. k.value # None => AllocOf(row, t, {}) <= k.value + over[t]
            BY <1>3, <2>1, <2>2 DEF Money
        <3> QED BY <1>1, <2>1, <3>1 DEF Sound
    <2>5. Paid(k, ceiling, org)
        BY <1>1, <1>3, <2>1, <2>3 DEF Paid, Headroom
    <2> QED BY <1>1, <1>3, <2>4, <2>5, GoOnFits DEF Pcs
<1> QED BY <1>2, <1>3 DEF CheckCeiling, GoOnIf

LEMMA LockOnlyFits == ASSUME IInv, Fit, NEW c \in Calls, LockOnly(c) PROVE Fit'
<1>1. PICK op \in {"approve", "delete", "rollover"} : call[c].op = op /\ GoOn(c, "rows")
    BY DEF LockOnly, LockTeam
<1>2. At(call[c], "rows").pc = "rows" /\ At(call[c], "rows").op = op
    BY <1>1, AtIs DEF IInv, Pcs
<1>3. Checked(At(call[c], "rows")) => Sound(call[c], row, ceiling, over)
    BY <1>1, <1>2 DEF Checked, Sound
<1> QED BY <1>1, <1>3, GoOnFits DEF Pcs

LEMMA WriteRowsFits == ASSUME IInv, Fit, NEW c \in Calls, WriteRows(c) PROVE Fit'
<1> DEFINE k == call[c]
<1>1. /\ k.pc = "rows" /\ k.pc \notin RestingPcs /\ k.op \notin {"ceiling", "create", "org"}
    BY DEF WriteRows, RestingPcs, IInv, Shaped
<1>2. CASE Undo(c, "refused") \/ Undo(c, "conflict")
    BY <1>2, UndoFits DEF RestingPcs
<1>3. CASE /\ GoOn(c, "flushed")
           /\ k.op \in {"add", "approve"} => row[k.m].state = "none"
           /\ k.op = "approve" => HasRoom(k, AllocatedMemberBudget(k.team, {}))
    <2>1. Paid(k, ceiling, org)
        BY <1>1 DEF Paid
    <2>2. Sound(k, row, ceiling, over)
        <3>1. CASE k.op # "approve"
            BY <1>1, <3>1 DEF Fit, Fits, Checked
        <3>2. CASE k.op = "approve"
            <4>1. PICK t \in Teams : t = k.team
                BY <1>1, AtWorkIs
            <4>2. /\ ceiling[t] \in Money \cup {Absent} /\ over[t] \in Nat /\ AllocOf(row, t, {}) \in Nat
                  /\ Metered(ceiling[t]) => AllocOf(row, t, {}) <= ceiling[t] + over[t]
                  /\ k.value \in Money /\ Headroom(ceiling[t], AllocOf(row, t, {}), k.value)
                BY <1>1, <1>3, <3>2, <4>1, AtWorkIs DEF Ceilings, HasRoom
            <4>3. Metered(ceiling[t]) => AllocOf(row, t, {}) + Dollars(k.value) <= ceiling[t] + over[t]
                BY <4>2, RoomIs
            <4> QED BY <3>2, <4>1, <4>3 DEF Sound
        <3> QED BY <3>1, <3>2
    <2> QED BY <1>3, <2>1, <2>2, GoOnFits DEF Pcs
<1> QED BY <1>2, <1>3 DEF WriteRows, GoOnIf

LEMMA LockOrgFits == ASSUME IInv, Fit, NEW c \in Calls, LockOrg(c) PROVE Fit'
<1> DEFINE k == [call[c] EXCEPT !.pc = "team", !.orgLock = org.exists, !.orgCeiling = org.ceiling]
<1>1. /\ k.pc = "team" /\ k.op = call[c].op /\ k.orgLock = TRUE /\ k.orgCeiling = org.ceiling
      /\ k.op \in {"ceiling", "create"}
    BY DEF IInv, CallRows, LockOrg, Fit, RowTypes
<1>2. call' = [call EXCEPT ![c] = k] /\ UNCHANGED <<row, ceiling, org, over>>
    BY DEF LockOrg
<1>3. \A d \in Calls : ~call[d].orgLock
    BY DEF LockOrg, Fit, Waiting, WaitsFor
<1> HIDE DEF k
<1>4. Fits(k, row, ceiling, over) /\ Priced(k, ceiling, org)
    BY <1>1 DEF Fits, Checked, Fresh, Priced
<1> QED BY <1>2, <1>3, <1>4, FitReplaced

LEMMA CheckOrgFits == ASSUME IInv, Fit, NEW c \in Calls, CheckOrg(c) PROVE Fit'
<1>1. CASE Undo(c, "refused")
    BY <1>1, UndoFits DEF RestingPcs
<1>2. CASE ~Undo(c, "refused")
    <2> DEFINE k == [call[c] EXCEPT !.pc = "flushed", !.orgLock = TRUE]
    <2>1. /\ k.pc = "flushed" /\ k.op = "org" /\ k.orgLock = TRUE /\ k.value = call[c].value
        BY DEF IInv, CallRows, CheckOrg
    <2>2. /\ call' = [call EXCEPT ![c] = k] /\ UNCHANGED <<row, ceiling, org, over>>
          /\ call[c].value # None => call[c].value >= SiblingCeilings({})
        BY <1>2 DEF CheckOrg
    <2>3. \A d \in Calls : ~call[d].orgLock
        BY DEF CheckOrg, Waiting, WaitsFor
    <2>4. call[c].value # None => CeilOf(ceiling, {}) <= call[c].value
        <3>1. call[c].value \in Money /\ SiblingCeilings({}) = CeilOf(ceiling, {})
              /\ CeilOf(ceiling, {}) \in Nat
            BY SumsAre, CeilType DEF IInv, CallRows
        <3> QED BY <2>2, <3>1 DEF Money
    <2> HIDE DEF k
    <2>5. Fits(k, row, ceiling, over) /\ Priced(k, ceiling, org)
        BY <2>1, <2>4 DEF Fits, Fresh, Sound, Priced, Paid
    <2> QED BY <2>2, <2>3, <2>5, FitReplaced
<1> QED BY <1>1, <1>2

\* The own row and the audit entry: nothing to check here.
LEMMA NoCheckFits ==
    ASSUME IInv, Fit, NEW c \in Calls,
           \/ LockActiveMember(c) \/ LockRemovedMember(c) \/ LockPendingRequest(c)
           \/ InsertJoinRequest(c) \/ WriteAuditEntry(c)
    PROVE  Fit'
<1> DEFINE k == call[c]
<1>0. k \in CallRows
    BY DEF IInv
<1>1. CASE Undo(c, "refused")
    BY <1>1, UndoFits DEF RestingPcs
<1>2. CASE GoOn(c, "audit")
    <2>1. ~Checked(At(k, "audit"))
        BY <1>0, AtIs DEF Checked, Pcs
    <2> QED BY <1>2, <2>1, GoOnFits DEF Pcs
<1>3. CASE WriteAuditEntry(c) /\ GoOn(c, AfterAudit(k))
    <2>1. PICK pc \in {"flushed", "org", "team"} :
             /\ pc = AfterAudit(k)
             /\ pc = "flushed" => k.op \in RowFirst \/ (k.op = "create" /\ k.value = None)
             /\ pc = "team" => k.op \notin {"ceiling", "create"}
        BY DEF AfterAudit
    <2>2. Checked(At(k, pc)) => pc = "flushed"
        BY <1>0, <2>1, AtIs DEF Checked, Pcs
    <2>3. pc = "flushed" => Sound(k, row, ceiling, over) /\ Paid(k, ceiling, org)
        BY <2>1 DEF Sound, Paid, RowFirst
    <2> QED BY <1>3, <2>1, <2>2, <2>3, GoOnFits DEF Pcs, RowFirst
<1> QED BY <1>1, <1>2, <1>3 DEF LockActiveMember, LockRemovedMember, LockPendingRequest,
        InsertJoinRequest, OwnRow, WriteAuditEntry, GoOnIf

\* A call that arrives has checked nothing yet.
Unchecked(k) ==
    /\ k.pc \in {"row", "audit", "team"} /\ k.orgLock = FALSE
    /\ k.pc = "team" => k.op = "rollover"

LEMMA ArriveFits ==
    ASSUME IInv, Fit, NEW c \in Calls, NEW op, NEW k, Arrive(c, op, k), Unchecked(As(k, op))
    PROVE  Fit'
<1> DEFINE new == As(k, op)
<1>1. call' = [call EXCEPT ![c] = new] /\ UNCHANGED <<row, ceiling, org, over>>
    BY DEF Arrive, As
<1>2. Unchecked(new)
    OBVIOUS
<1> HIDE DEF new
<1>3. Fits(new, row, ceiling, over) /\ Priced(new, ceiling, org) /\ new.orgLock = FALSE
    BY <1>2 DEF Unchecked, Fits, Checked, Fresh, Priced
<1> QED BY <1>1, <1>3, FitReplaced

LEMMA ArrivesFit ==
    ASSUME IInv, Fit, NEW c \in Calls,
           \/ AddMember(c) \/ UpdateMember(c) \/ ApproveJoinRequest(c)
           \/ ReassignBudget(c) \/ SetTeamCeiling(c) \/ SetOrgCeiling(c)
           \/ CreateTeam(c) \/ DeleteTeam(c)
           \/ RemoveMember(c) \/ RestoreMember(c)
           \/ SubmitJoinRequest(c) \/ RejectJoinRequest(c) \/ TouchTeam(c)
    PROVE  Fit'
<1>1. CASE AddMember(c)
    <2>1. PICK m \in Memberships, v \in Amounts \cup {None} :
             Arrive(c, "add",
                [Reply("audit", m) EXCEPT !.team = m[1], !.value = v])
        BY <1>1 DEF AddMember
    <2> DEFINE k ==
                [Reply("audit", m) EXCEPT !.team = m[1], !.value = v]
    <2>2. Unchecked(As(k, "add"))
        BY DEF Unchecked, As, Reply
    <2>3. Arrive(c, "add", k)
        BY <2>1
    <2> HIDE DEF k
    <2> QED BY <2>2, <2>3, ArriveFits
<1>2. CASE UpdateMember(c)
    <2>1. PICK m \in Memberships, v \in Amounts \cup {None} :
             Arrive(c, "update",
                [Reply("audit", m) EXCEPT !.team = m[1], !.value = v,
                                      !.seen = row[m].budget])
        BY <1>2 DEF UpdateMember
    <2> DEFINE k ==
                [Reply("audit", m) EXCEPT !.team = m[1], !.value = v,
                                      !.seen = row[m].budget]
    <2>2. Unchecked(As(k, "update"))
        BY DEF Unchecked, As, Reply
    <2>3. Arrive(c, "update", k)
        BY <2>1
    <2> HIDE DEF k
    <2> QED BY <2>2, <2>3, ArriveFits
<1>3. CASE ApproveJoinRequest(c)
    <2>1. PICK r \in Requests, v \in Amounts \cup {None} :
             Arrive(c, "approve",
                [Reply("audit", <<request[r].team, request[r].user>>) EXCEPT
                  !.team = request[r].team, !.request = r, !.value = v])
        BY <1>3 DEF ApproveJoinRequest
    <2> DEFINE k ==
                [Reply("audit", <<request[r].team, request[r].user>>) EXCEPT
                  !.team = request[r].team, !.request = r, !.value = v]
    <2>2. Unchecked(As(k, "approve"))
        BY DEF Unchecked, As, Reply
    <2>3. Arrive(c, "approve", k)
        BY <2>1
    <2> HIDE DEF k
    <2> QED BY <2>2, <2>3, ArriveFits
<1>4. CASE ReassignBudget(c)
    <2>1. PICK m \in Memberships, n \in Memberships, v \in Amounts :
             Arrive(c, "reassign",
                [Reply("audit", m) EXCEPT !.team = m[1], !.to = n, !.value = v,
                  !.seen = row[m].budget, !.seenTo = row[n].budget])
        BY <1>4 DEF ReassignBudget
    <2> DEFINE k ==
                [Reply("audit", m) EXCEPT !.team = m[1], !.to = n, !.value = v,
                  !.seen = row[m].budget, !.seenTo = row[n].budget]
    <2>2. Unchecked(As(k, "reassign"))
        BY DEF Unchecked, As, Reply
    <2>3. Arrive(c, "reassign", k)
        BY <2>1
    <2> HIDE DEF k
    <2> QED BY <2>2, <2>3, ArriveFits
<1>5. CASE SetTeamCeiling(c)
    <2>1. PICK t \in Teams, v \in Amounts \cup {None} :
             Arrive(c, "ceiling",
                [Reply("audit", None) EXCEPT !.team = t, !.value = v, !.seen = ceiling[t]])
        BY <1>5 DEF SetTeamCeiling
    <2> DEFINE k ==
                [Reply("audit", None) EXCEPT !.team = t, !.value = v, !.seen = ceiling[t]]
    <2>2. Unchecked(As(k, "ceiling"))
        BY DEF Unchecked, As, Reply
    <2>3. Arrive(c, "ceiling", k)
        BY <2>1
    <2> HIDE DEF k
    <2> QED BY <2>2, <2>3, ArriveFits
<1>6. CASE SetOrgCeiling(c)
    <2>1. PICK v \in Amounts \cup {None} :
             Arrive(c, "org",
                [Reply("audit", None) EXCEPT !.value = v])
        BY <1>6 DEF SetOrgCeiling
    <2> DEFINE k ==
                [Reply("audit", None) EXCEPT !.value = v]
    <2>2. Unchecked(As(k, "org"))
        BY DEF Unchecked, As, Reply
    <2>3. Arrive(c, "org", k)
        BY <2>1
    <2> HIDE DEF k
    <2> QED BY <2>2, <2>3, ArriveFits
<1>7. CASE CreateTeam(c)
    <2>1. PICK t \in Teams, v \in Amounts \cup {None} :
             Arrive(c, "create",
                [Reply("audit", None) EXCEPT !.team = t, !.value = v])
        BY <1>7 DEF CreateTeam
    <2> DEFINE k ==
                [Reply("audit", None) EXCEPT !.team = t, !.value = v]
    <2>2. Unchecked(As(k, "create"))
        BY DEF Unchecked, As, Reply
    <2>3. Arrive(c, "create", k)
        BY <2>1
    <2> HIDE DEF k
    <2> QED BY <2>2, <2>3, ArriveFits
<1>8. CASE DeleteTeam(c)
    <2>1. PICK t \in Teams :
             Arrive(c, "delete",
                [Reply("audit", None) EXCEPT !.team = t])
        BY <1>8 DEF DeleteTeam
    <2> DEFINE k ==
                [Reply("audit", None) EXCEPT !.team = t]
    <2>2. Unchecked(As(k, "delete"))
        BY DEF Unchecked, As, Reply
    <2>3. Arrive(c, "delete", k)
        BY <2>1
    <2> HIDE DEF k
    <2> QED BY <2>2, <2>3, ArriveFits
<1>9. CASE RemoveMember(c)
    <2>1. PICK m \in Memberships :
             Arrive(c, "remove",
                [Reply("row", m) EXCEPT !.team = m[1]])
        BY <1>9 DEF RemoveMember
    <2> DEFINE k ==
                [Reply("row", m) EXCEPT !.team = m[1]]
    <2>2. Unchecked(As(k, "remove"))
        BY DEF Unchecked, As, Reply
    <2>3. Arrive(c, "remove", k)
        BY <2>1
    <2> HIDE DEF k
    <2> QED BY <2>2, <2>3, ArriveFits
<1>10. CASE RestoreMember(c)
    <2>1. PICK m \in Memberships :
             Arrive(c, "restore",
                [Reply("row", m) EXCEPT !.team = m[1]])
        BY <1>10 DEF RestoreMember
    <2> DEFINE k ==
                [Reply("row", m) EXCEPT !.team = m[1]]
    <2>2. Unchecked(As(k, "restore"))
        BY DEF Unchecked, As, Reply
    <2>3. Arrive(c, "restore", k)
        BY <2>1
    <2> HIDE DEF k
    <2> QED BY <2>2, <2>3, ArriveFits
<1>11. CASE SubmitJoinRequest(c)
    <2>1. PICK r \in Requests, m \in Memberships :
             Arrive(c, "submit",
                [Reply("row", m) EXCEPT !.team = m[1], !.request = r])
        BY <1>11 DEF SubmitJoinRequest
    <2> DEFINE k ==
                [Reply("row", m) EXCEPT !.team = m[1], !.request = r]
    <2>2. Unchecked(As(k, "submit"))
        BY DEF Unchecked, As, Reply
    <2>3. Arrive(c, "submit", k)
        BY <2>1
    <2> HIDE DEF k
    <2> QED BY <2>2, <2>3, ArriveFits
<1>12. CASE RejectJoinRequest(c)
    <2>1. PICK r \in Requests :
             Arrive(c, "reject",
                [Reply("row", None) EXCEPT !.team = request[r].team, !.request = r])
        BY <1>12 DEF RejectJoinRequest
    <2> DEFINE k ==
                [Reply("row", None) EXCEPT !.team = request[r].team, !.request = r]
    <2>2. Unchecked(As(k, "reject"))
        BY DEF Unchecked, As, Reply
    <2>3. Arrive(c, "reject", k)
        BY <2>1
    <2> HIDE DEF k
    <2> QED BY <2>2, <2>3, ArriveFits
<1>13. CASE TouchTeam(c)
    <2>1. PICK t \in Teams :
             Arrive(c, "rollover",
                [Reply("team", None) EXCEPT !.team = t])
        BY <1>13 DEF TouchTeam
    <2> DEFINE k ==
                [Reply("team", None) EXCEPT !.team = t]
    <2>2. Unchecked(As(k, "rollover"))
        BY DEF Unchecked, As, Reply
    <2>3. Arrive(c, "rollover", k)
        BY <2>1
    <2> HIDE DEF k
    <2> QED BY <2>2, <2>3, ArriveFits
<1> QED BY <1>1, <1>2, <1>3, <1>4, <1>5, <1>6, <1>7, <1>8, <1>9, <1>10, <1>11, <1>12, <1>13


-----------------------------------------------------------------------------
(* Rows change.                                                            *)

\* What a call found stays sound when its team's rows grow by d at most and so
\* does what the team is granted past its ceiling.
LEMMA SoundKept ==
    ASSUME NEW k \in CallRows, k.team \in Teams,
           NEW R \in Tables, NEW Q \in Tables, NEW C \in Ceilings, NEW D \in Ceilings,
           NEW O \in [Teams -> Nat], NEW P \in [Teams -> Nat], NEW d \in Nat,
           D[k.team] = C[k.team], P[k.team] = O[k.team] + d,
           \A X : AllocOf(Q, k.team, X) <= AllocOf(R, k.team, X) + d,
           k.op = "reassign" =>
              /\ k.m \in Memberships /\ k.to \in Memberships
              /\ Q[k.m].budget = R[k.m].budget /\ Q[k.to].budget = R[k.to].budget,
           Sound(k, R, C, O)
    PROVE  Sound(k, Q, D, P)
<1>1. PICK t \in Teams : t = k.team
    OBVIOUS
<1>2. /\ O[t] \in Nat /\ P[t] = O[t] + d /\ D[t] = C[t] /\ C[t] \in Money \cup {Absent}
      /\ k.value \in Money /\ Dollars(k.value) \in Nat
    BY <1>1, DollarsType DEF Ceilings, CallRows
<1>3. \A X : AllocOf(Q, t, X) <= AllocOf(R, t, X) + d
    BY <1>1
<1>4. \A X : AllocOf(Q, t, X) \in Nat /\ AllocOf(R, t, X) \in Nat
    BY AllocType
<1>5. Metered(C[t]) => C[t] \in Nat
    BY <1>2, DollarsType
<1>6. ASSUME k.op \in {"add", "approve"}, Metered(D[t])
      PROVE  AllocOf(Q, t, {}) + Dollars(k.value) <= D[t] + P[t]
    <2>1. AllocOf(R, t, {}) + Dollars(k.value) <= C[t] + O[t]
        BY <1>1, <1>2, <1>6 DEF Sound
    <2> QED BY <1>2, <1>3, <1>4, <1>5, <1>6, <2>1
<1>7. ASSUME k.op = "update", k.value # k.seen, Metered(D[t])
      PROVE  AllocOf(Q, t, {k.m}) + Dollars(k.value) <= D[t] + P[t]
    <2>1. AllocOf(R, t, {k.m}) + Dollars(k.value) <= C[t] + O[t]
        BY <1>1, <1>2, <1>7 DEF Sound
    <2> QED BY <1>2, <1>3, <1>4, <1>5, <1>7, <2>1
<1>8. ASSUME k.op \in {"ceiling", "create"}, k.value # None
      PROVE  AllocOf(Q, t, {}) <= k.value + P[t]
    <2>1. AllocOf(R, t, {}) <= k.value + O[t] /\ k.value \in Nat
        BY <1>1, <1>2, <1>8 DEF Sound, Money
    <2> QED BY <1>2, <1>3, <1>4, <2>1
<1>9. ASSUME k.op = "reassign", Metered(D[t])
      PROVE  AllocOf(Q, t, {k.m, k.to}) + Dollars(Q[k.m].budget) + Dollars(Q[k.to].budget)
                <= D[t] + P[t]
    <2>1. AllocOf(R, t, {k.m, k.to}) + Dollars(R[k.m].budget) + Dollars(R[k.to].budget)
             <= C[t] + O[t]
        BY <1>1, <1>2, <1>9 DEF Sound
    <2>2. PICK x \in Nat, y \in Nat :
             /\ x = Dollars(R[k.m].budget) /\ x = Dollars(Q[k.m].budget)
             /\ y = Dollars(R[k.to].budget) /\ y = Dollars(Q[k.to].budget)
        BY <1>9, WeightType DEF Tables
    <2>3. PICK a \in Nat, b \in Nat :
             a = AllocOf(Q, t, {k.m, k.to}) /\ b = AllocOf(R, t, {k.m, k.to}) /\ a <= b + d
        BY <1>3, <1>4
    <2>4. b + x + y <= C[t] + O[t]
        BY <2>1, <2>2, <2>3
    <2>5. a + x + y <= D[t] + P[t]
        BY <1>2, <1>5, <1>9, <2>2, <2>3, <2>4
    <2> QED BY <2>2, <2>3, <2>5
<1> QED BY <1>1, <1>6, <1>7, <1>8, <1>9 DEF Sound

LEMMA WithinKept ==
    ASSUME NEW t \in Teams,
           NEW R \in Tables, NEW Q \in Tables, NEW C \in Ceilings, NEW D \in Ceilings,
           NEW O \in [Teams -> Nat], NEW P \in [Teams -> Nat], NEW d \in Nat,
           D[t] = C[t], P[t] = O[t] + d,
           AllocOf(Q, t, {}) <= AllocOf(R, t, {}) + d,
           Within(t, R, C, O)
    PROVE  Within(t, Q, D, P)
<1>1. C[t] \in Money \cup {Absent} /\ O[t] \in Nat
    BY DEF Ceilings
<1>2. Metered(C[t]) => C[t] \in Nat
    BY <1>1, DollarsType
<1>3. AllocOf(Q, t, {}) \in Nat /\ AllocOf(R, t, {}) \in Nat
    BY AllocType
<1> QED BY <1>1, <1>2, <1>3 DEF Within

\* One row changes, by d at most.
LEMMA AllocGrows ==
    ASSUME NEW R \in Tables, NEW Q \in Tables, NEW m \in Memberships, NEW d \in Nat,
           \A n \in Memberships : n # m => Q[n] = R[n],
           Weight(Q[m]) <= Weight(R[m]) + d
    PROVE  \A t, X : AllocOf(Q, t, X) <= AllocOf(R, t, X) + d
<1> SUFFICES ASSUME NEW t, NEW X PROVE AllocOf(Q, t, X) <= AllocOf(R, t, X) + d
    OBVIOUS
<1>1. AllocOf(Q, t, X) \in Nat /\ AllocOf(R, t, X) \in Nat
    BY AllocType
<1>2. Weight(Q[m]) \in Nat /\ Weight(R[m]) \in Nat
    BY WeightType DEF Tables
<1>3. CASE m \in MembersOf(t) \ X
    BY <1>1, <1>2, <1>3, AllocUpdate
<1>4. CASE m \notin MembersOf(t) \ X
    <2>1. \A n \in MembersOf(t) \ X : Weight(Q[n]) = Weight(R[n])
        BY <1>4 DEF MembersOf
    <2>2. AllocOf(Q, t, X) = AllocOf(R, t, X)
        BY <2>1, AllocFrame
    <2> QED BY <1>1, <2>2
<1> QED BY <1>3, <1>4

\* Another team's rows do not count.
LEMMA OtherTeams ==
    ASSUME NEW R \in Tables, NEW Q \in Tables, NEW t \in Teams, NEW u \in Teams, u # t, NEW X,
           \A n \in Memberships : n[1] # t => Q[n] = R[n]
    PROVE  AllocOf(Q, u, X) = AllocOf(R, u, X)
<1>1. \A n \in MembersOf(u) \ X : Weight(Q[n]) = Weight(R[n])
    BY DEF MembersOf
<1> QED BY <1>1, AllocFrame

\* Ceilings that only shrink leave room for what was checked against them; one
\* that grows is written under the organisation's lock, which no other call has.
LEMMA PricedKept ==
    ASSUME NEW k \in CallRows, NEW C \in Ceilings, NEW D \in Ceilings,
           NEW G \in [exists : BOOLEAN, ceiling : Money], Priced(k, C, G),
           ~k.orgLock \/ \A X : CeilOf(D, X) <= CeilOf(C, X)
    PROVE  Priced(k, D, G)
<1>1. CASE ~k.orgLock
    BY <1>1 DEF Priced, Paid
<1>2. CASE \A X : CeilOf(D, X) <= CeilOf(C, X)
    <2>1. /\ \A X : CeilOf(D, X) \in Nat /\ CeilOf(C, X) \in Nat
          /\ k.value # None => k.value \in Nat
          /\ G.ceiling # None => G.ceiling \in Nat
        BY CeilType DEF CallRows, Money
    <2>2. ASSUME Paid(k, C, G) PROVE Paid(k, D, G)
        <3>1. ASSUME k.op \in {"ceiling", "create"}, k.value # None, G.ceiling # None
              PROVE  CeilOf(D, {k.team}) + k.value <= G.ceiling
            <4>1. CeilOf(C, {k.team}) + k.value <= G.ceiling
                BY <2>2, <3>1 DEF Paid
            <4> QED BY <1>2, <2>1, <3>1, <4>1
        <3>2. ASSUME k.op = "org", k.value # None
              PROVE  CeilOf(D, {}) <= k.value
            <4>1. CeilOf(C, {}) <= k.value
                BY <2>2, <3>2 DEF Paid
            <4> QED BY <1>2, <2>1, <3>2, <4>1
        <3> QED BY <2>2, <3>1, <3>2 DEF Paid
    <2> QED BY <2>2 DEF Priced
<1> QED BY <1>1, <1>2

\* One ceiling goes down, or to none.
LEMMA CeilingsShrink ==
    ASSUME NEW C \in Ceilings, NEW D \in Ceilings, NEW t \in Teams,
           \A u \in Teams : u # t => D[u] = C[u], Dollars(D[t]) <= Dollars(C[t])
    PROVE  \A X : CeilOf(D, X) <= CeilOf(C, X)
<1> SUFFICES ASSUME NEW X PROVE CeilOf(D, X) <= CeilOf(C, X)
    OBVIOUS
<1>1. CeilOf(D, X) = CeilOf(C, X) + (IF t \in X THEN 0 ELSE Dollars(D[t]) - Dollars(C[t]))
    BY CeilUpdate
<1>2. CeilOf(C, X) \in Nat
    BY CeilType
<1>3. Dollars(D[t]) \in Nat /\ Dollars(C[t]) \in Nat
    BY DollarsType DEF Ceilings
<1> QED BY <1>1, <1>2, <1>3

-----------------------------------------------------------------------------
(* A commit, seen by the others.                                           *)

LEMMA OthersFit ==
    ASSUME IInv, Fit, NEW c \in Calls,
           call' = [call EXCEPT ![c] = Reply("done", call[c].m)],
           UNCHANGED org,
           ceiling' \in Ceilings, over' \in [Teams -> Nat],
           \A t \in Teams : Within(t, row', ceiling', over'),
           org.ceiling # None => CeilOf(ceiling', {}) <= org.ceiling,
           \/ call[c].orgLock
           \/ \A X : CeilOf(ceiling', X) <= CeilOf(ceiling, X),
           \A d \in Calls : d # c => Fits(call[d], row', ceiling', over')
    PROVE  Fit'
<1> DEFINE k == Reply("done", call[c].m)
<1>1. call'[c] = k /\ \A d \in Calls : d # c => call'[d] = call[d]
    BY DEF IInv
<1>2. k.pc = "done" /\ k.orgLock = FALSE
    BY DEF Reply
<1> HIDE DEF k
<1>3. ceiling \in Ceilings /\ org \in [exists : BOOLEAN, ceiling : Money]
    BY DEF IInv, RowTypes, Ceilings
<1>4. OneOrgLock'
    BY <1>1, <1>2 DEF Fit, OneOrgLock
<1>5. ASSUME NEW d \in Calls
      PROVE  Fits(call'[d], row', ceiling', over') /\ Priced(call'[d], ceiling', org)
    <2>1. CASE d = c
        BY <1>1, <1>2, <2>1 DEF Fits, Checked, Fresh, Priced
    <2>2. CASE d # c
        <3>1. PICK j \in CallRows : j = call[d]
            BY DEF IInv
        <3>2. Priced(j, ceiling, org)
            BY <3>1 DEF Fit
        <3>3. call[c].orgLock => ~j.orgLock
            BY <2>2, <3>1 DEF Fit, OneOrgLock
        <3>4. Priced(j, ceiling', org)
            BY <1>3, <3>2, <3>3, PricedKept
        <3> QED BY <1>1, <2>2, <3>1, <3>4
    <2> QED BY <2>1, <2>2
<1> QED BY <1>4, <1>5 DEF Fit

\* A call that has checked has its team's lock, and writes rows of that team.
LEMMA CheckedHolds ==
    ASSUME IInv, NEW d \in Calls, Checked(call[d]),
           call[d].op \notin RowFirst \cup {"org"}
    PROVE  /\ call[d] \in CallRows /\ call[d].team \in Teams /\ HasTeam(call[d], call[d].team)
           /\ call[d].op \in {"add", "approve", "update", "reassign"} =>
                 call[d].m \in Memberships /\ call[d].m[1] = call[d].team
           /\ call[d].op = "reassign" =>
                 call[d].to \in Memberships /\ call[d].to[1] = call[d].team
<1>1. call[d] \in CallRows /\ Filled(call[d])
    BY DEF IInv, Shaped, Checked, RestingPcs
<1>2. call[d].op = "approve" => call[d].pc = "flushed"
    BY DEF Checked
<1> QED BY <1>1, <1>2 DEF Checked, HasTeam, Filled, MemberOps

LEMMA UncheckedFits ==
    ASSUME NEW k, NEW R, NEW C, NEW O,
           ~Checked(k) \/ k.op \in RowFirst \cup {"org"}
    PROVE  Fits(k, R, C, O)
<1>1. ~Fresh(k, R) => Checked(k) /\ k.op \in {"add", "approve"}
    BY DEF Checked, Fresh
<1> QED BY <1>1 DEF Fits, Sound, RowFirst

\* A commit under team t's lock: who else has checked is on another team.
LEMMA TeamCommitFits ==
    ASSUME IInv, Fit, NEW c \in Calls,
           NEW t \in Teams, HasTeam(call[c], t),
           call' = [call EXCEPT ![c] = Reply("done", call[c].m)],
           UNCHANGED org,
           row' \in Tables, ceiling' \in Ceilings, over' \in [Teams -> Nat],
           \A n \in Memberships : n[1] # t => row'[n] = row[n],
           \A u \in Teams : u # t => ceiling'[u] = ceiling[u] /\ over'[u] = over[u],
           Within(t, row', ceiling', over'),
           org.ceiling # None => CeilOf(ceiling', {}) <= org.ceiling,
           \/ call[c].orgLock
           \/ \A X : CeilOf(ceiling', X) <= CeilOf(ceiling, X)
    PROVE  Fit'
<1>1. row \in Tables /\ ceiling \in Ceilings /\ over \in [Teams -> Nat]
    BY DEF IInv, RowTypes, Tables, Ceilings, Fit
<1>2. ASSUME NEW u \in Teams, u # t
      PROVE  /\ \A X : AllocOf(row', u, X) <= AllocOf(row, u, X) + 0
             /\ over'[u] = over[u] + 0 /\ ceiling'[u] = ceiling[u]
    <2>1. \A X : AllocOf(row', u, X) = AllocOf(row, u, X)
        <3>1. PICK R \in Tables, Q \in Tables : R = row /\ Q = row'
            BY <1>1
        <3>2. \A n \in Memberships : n[1] # t => Q[n] = R[n]
            BY <3>1
        <3>3. \A X : AllocOf(Q, u, X) = AllocOf(R, u, X)
            <4>1. ASSUME NEW X PROVE AllocOf(Q, u, X) = AllocOf(R, u, X)
                BY <1>2, <3>2, OtherTeams
            <4> QED BY <4>1
        <3> QED BY <3>1, <3>3
    <2>2. \A X : AllocOf(row, u, X) \in Nat
        BY <1>1, AllocType
    <2>3. over[u] \in Nat /\ over'[u] = over[u] /\ ceiling'[u] = ceiling[u]
        BY <1>1, <1>2
    <2> QED BY <2>1, <2>2, <2>3
<1>3. ASSUME NEW u \in Teams PROVE Within(u, row', ceiling', over')
    <2>1. CASE u # t
        <3>1. Within(u, row, ceiling, over)
            BY DEF Fit
        <3>2. AllocOf(row', u, {}) <= AllocOf(row, u, {}) + 0
            BY <1>2, <2>1
        <3> QED BY <1>1, <1>2, <2>1, <3>1, <3>2, WithinKept
    <2> QED BY <2>1
<1>4. ASSUME NEW d \in Calls, d # c PROVE Fits(call[d], row', ceiling', over')
    <2>1. CASE ~Checked(call[d]) \/ call[d].op \in RowFirst \cup {"org"}
        BY <2>1, UncheckedFits
    <2>2. CASE Checked(call[d]) /\ call[d].op \notin RowFirst \cup {"org"}
        <3>1. PICK j \in CallRows, u \in Teams : j = call[d] /\ u = j.team /\ HasTeam(j, u)
            BY <2>2, CheckedHolds
        <3>2. u # t
            BY <1>4, <3>1 DEF IInv, OneHolder, Apart
        <3>3. /\ j.op \in {"add", "approve", "update", "reassign"} =>
                    j.m \in Memberships /\ row'[j.m] = row[j.m]
              /\ j.op = "reassign" => j.to \in Memberships /\ row'[j.to] = row[j.to]
            BY <2>2, <3>1, <3>2, CheckedHolds
        <3>4. Sound(j, row, ceiling, over) /\ Fresh(j, row)
            BY <2>2, <3>1 DEF Fit, Fits
        <3>5. Fresh(j, row')
            BY <3>3, <3>4 DEF Fresh
        <3>6. Sound(j, row', ceiling', over')
            <4>1. /\ ceiling'[j.team] = ceiling[j.team] /\ over'[j.team] = over[j.team] + 0
                  /\ \A X : AllocOf(row', j.team, X) <= AllocOf(row, j.team, X) + 0
                BY <1>2, <3>1, <3>2
            <4>2. j.op = "reassign" =>
                    /\ j.m \in Memberships /\ j.to \in Memberships
                    /\ row'[j.m].budget = row[j.m].budget /\ row'[j.to].budget = row[j.to].budget
                BY <3>3
            <4>3. PICK R \in Tables, Q \in Tables, C \in Ceilings, D \in Ceilings,
                       O \in [Teams -> Nat], P \in [Teams -> Nat] :
                     R = row /\ Q = row' /\ C = ceiling /\ D = ceiling' /\ O = over /\ P = over'
                BY <1>1
            <4>4. /\ j.team \in Teams /\ D[j.team] = C[j.team] /\ P[j.team] = O[j.team] + 0
                  /\ \A X : AllocOf(Q, j.team, X) <= AllocOf(R, j.team, X) + 0
                  /\ j.op = "reassign" =>
                        /\ j.m \in Memberships /\ j.to \in Memberships
                        /\ Q[j.m].budget = R[j.m].budget /\ Q[j.to].budget = R[j.to].budget
                  /\ Sound(j, R, C, O)
                BY <3>1, <3>4, <4>1, <4>2, <4>3
            <4>5. Sound(j, Q, D, P)
                BY <4>4, SoundKept
            <4> QED BY <4>3, <4>5
        <3> QED BY <3>1, <3>5, <3>6 DEF Fits
    <2> QED BY <2>1, <2>2
<1> QED BY <1>3, <1>4, OthersFit

-----------------------------------------------------------------------------
(* The commits.                                                            *)

\* What every commit has.
LEMMA Committing ==
    ASSUME IInv, Fit, NEW c \in Calls, Commit(c)
    PROVE  /\ call[c] \in CallRows /\ call[c].pc = "flushed" /\ Filled(call[c])
           /\ Fits(call[c], row, ceiling, over) /\ Priced(call[c], ceiling, org)
           /\ row \in Tables /\ ceiling \in Ceilings /\ over \in [Teams -> Nat]
           /\ org.ceiling \in Money
           /\ call' = [call EXCEPT ![c] = Reply("done", call[c].m)]
           /\ \A t \in Teams :
                 t = call[c].team /\ call[c].op \notin RowFirst \cup {"org"} => HasTeam(call[c], t)
<1>1. call[c] \in CallRows /\ call[c].pc = "flushed" /\ Filled(call[c])
    BY DEF IInv, Commit, Shaped, RestingPcs
<1>2. /\ row \in Tables /\ ceiling \in Ceilings /\ over \in [Teams -> Nat]
      /\ org.ceiling \in Money
    BY DEF IInv, RowTypes, Tables, Ceilings, Fit
<1> QED BY <1>1, <1>2 DEF Fit, Commit, HasTeam

\* The ceilings that stay as they are.
LEMMA CeilingsStay ==
    ASSUME IInv, Fit, UNCHANGED <<ceiling, org>>
    PROVE  /\ ceiling' \in Ceilings
           /\ org.ceiling # None => CeilOf(ceiling', {}) <= org.ceiling
           /\ \A X : CeilOf(ceiling', X) <= CeilOf(ceiling, X)
<1>1. ceiling \in Ceilings
    BY DEF IInv, RowTypes, Ceilings
<1>2. \A X : CeilOf(ceiling, X) \in Nat
    BY <1>1, CeilType
<1> QED BY <1>1, <1>2 DEF Fit

LEMMA CommitMemberFits ==
    ASSUME IInv, Fit, NEW c \in Calls, Commit(c), call[c].op \in {"add", "approve"}
    PROVE  Fit'
<1> DEFINE k == call[c]
<1>0. /\ k \in CallRows /\ k.pc = "flushed" /\ Filled(k) /\ Fits(k, row, ceiling, over)
      /\ row \in Tables /\ ceiling \in Ceilings /\ over \in [Teams -> Nat]
    BY Committing
<1>1. PICK t \in Teams, m \in Memberships : t = k.team /\ m = k.m /\ m \in MembersOf(t) /\ m[1] = t
    BY <1>0 DEF Filled, MemberOps, MembersOf
<1>2. /\ k.value \in Money
      /\ UNCHANGED <<ceiling, org, over>>
      /\ row' = [row EXCEPT ![m] = [state |-> "active", budget |-> k.value]]
    BY <1>0, <1>1 DEF Commit, CommitMember, CallRows
<1>4. row' \in Tables /\ \A n \in Memberships : n # m => row'[n] = row[n]
    BY <1>0, <1>2 DEF Tables, MembershipRows
<1>5. Weight(row'[m]) = Dollars(k.value) /\ Weight(row[m]) = 0 /\ Dollars(k.value) \in Nat
    <2>1. row[m].state = "none"
        BY <1>0, <1>1 DEF Fits, Fresh
    <2>2. row'[m] = [state |-> "active", budget |-> k.value]
        BY <1>0, <1>2 DEF Tables
    <2>3. Dollars(k.value) \in Nat
        BY <1>2, DollarsType
    <2> QED BY <2>1, <2>2, <2>3 DEF Weight, Counted
<1>6. AllocOf(row', t, {}) = AllocOf(row, t, {}) + Dollars(k.value)
    <2>1. AllocOf(row', t, {}) = AllocOf(row, t, {}) + (Weight(row'[m]) - Weight(row[m]))
        <3>1. m \in MembersOf(t) \ {} /\ row \in Tables
            BY <1>0, <1>1
        <3> QED BY <1>4, <3>1, AllocUpdate
    <2>2. AllocOf(row, t, {}) \in Nat
        BY <1>0, AllocType
    <2> QED BY <1>5, <2>1, <2>2
<1>7. Within(t, row', ceiling', over')
    BY <1>0, <1>1, <1>2, <1>6 DEF Fits, Checked, Sound, Within
<1>8. /\ \A n \in Memberships : n[1] # t => row'[n] = row[n]
      /\ \A u \in Teams : ceiling'[u] = ceiling[u] /\ over'[u] = over[u]
      /\ over' \in [Teams -> Nat] /\ UNCHANGED org
    BY <1>0, <1>1, <1>2, <1>4
<1>9. HasTeam(k, t) /\ call' = [call EXCEPT ![c] = Reply("done", k.m)]
    BY <1>1, Committing DEF RowFirst
<1> QED BY <1>2, <1>4, <1>7, <1>8, <1>9, CeilingsStay, TeamCommitFits

LEMMA CommitUpdateFits ==
    ASSUME IInv, Fit, NEW c \in Calls, Commit(c), call[c].op = "update"
    PROVE  Fit'
<1> DEFINE k == call[c]
<1>0. /\ k \in CallRows /\ k.pc = "flushed" /\ Filled(k) /\ Fits(k, row, ceiling, over)
      /\ row \in Tables /\ ceiling \in Ceilings /\ over \in [Teams -> Nat]
    BY Committing
<1>1. PICK t \in Teams, m \in Memberships : t = k.team /\ m = k.m /\ m \in MembersOf(t) /\ m[1] = t
    BY <1>0 DEF Filled, MemberOps, MembersOf
<1>2. /\ k.value \in Money
      /\ UNCHANGED <<ceiling, org, over>>
      /\ row' = IF k.value # k.seen THEN [row EXCEPT ![m].budget = k.value] ELSE row
    <2>1. m \in Writes(k) <=> k.value # k.seen
        BY <1>1, WritesOf
    <2> QED BY <1>0, <1>1, <2>1 DEF Commit, CommitBudgets, CallRows
<1>4. row' \in Tables /\ \A n \in Memberships : n # m => row'[n] = row[n]
    BY <1>0, <1>2 DEF Tables, MembershipRows
<1>5. Within(t, row', ceiling', over')
    <2>1. CASE k.value = k.seen
        BY <1>2, <2>1 DEF Fit
    <2>2. CASE k.value # k.seen
        <3>2. Metered(ceiling[t]) =>
                 AllocOf(row, t, {m}) + Dollars(k.value) <= ceiling[t] + over[t]
            BY <1>0, <1>1, <2>2 DEF Fits, Checked, Sound
        <3>3. row'[m] \in MembershipRows /\ row'[m].budget = k.value
            BY <1>0, <1>2, <1>4, <2>2 DEF Tables, MembershipRows
        <3>4. Weight(row'[m]) \in Nat /\ Weight(row'[m]) <= Dollars(k.value) /\ Dollars(k.value) \in Nat
            BY <3>3, WeightType
        <3>5. AllocOf(row', t, {}) = Weight(row'[m]) + AllocOf(row', t, {m})
            BY <1>1, <1>4, AllocSplit
        <3>6. AllocOf(row', t, {m}) = AllocOf(row, t, {m}) /\ AllocOf(row, t, {m}) \in Nat
            <4>1. \A n \in MembersOf(t) \ {m} : Weight(row'[n]) = Weight(row[n])
                BY <1>4 DEF MembersOf
            <4>2. row \in Tables
                BY <1>0
            <4>3. AllocOf(row', t, {m}) = AllocOf(row, t, {m})
                BY <1>4, <4>1, <4>2, AllocFrame
            <4> QED BY <4>2, <4>3, AllocType
        <3>7. Metered(ceiling[t]) => ceiling[t] \in Nat /\ over[t] \in Nat
            BY <1>0, DollarsType DEF Ceilings
        <3> QED BY <1>2, <3>2, <3>4, <3>5, <3>6, <3>7 DEF Within
    <2> QED BY <2>1, <2>2
<1>8. /\ \A n \in Memberships : n[1] # t => row'[n] = row[n]
      /\ \A u \in Teams : ceiling'[u] = ceiling[u] /\ over'[u] = over[u]
      /\ over' \in [Teams -> Nat] /\ UNCHANGED org
    BY <1>0, <1>1, <1>2, <1>4
<1>9. HasTeam(k, t) /\ call' = [call EXCEPT ![c] = Reply("done", k.m)]
    BY <1>1, Committing DEF RowFirst
<1> QED BY <1>2, <1>4, <1>5, <1>8, <1>9, CeilingsStay, TeamCommitFits

\* What was counted of the two rows under the team's lock, and `over` for what
\* has been changed since they were read.
LEMMA CommitReassignFits ==
    ASSUME IInv, Fit, NEW c \in Calls, Commit(c), call[c].op = "reassign"
    PROVE  Fit'
<1> DEFINE k == call[c]
<1>0. /\ k \in CallRows /\ k.pc = "flushed" /\ Filled(k) /\ Fits(k, row, ceiling, over)
      /\ row \in Tables /\ ceiling \in Ceilings /\ over \in [Teams -> Nat]
    BY Committing
<1>1. PICK t \in Teams, m \in Memberships, n \in Memberships :
         /\ t = k.team /\ m = k.m /\ n = k.to /\ m # n
         /\ m \in MembersOf(t) /\ m[1] = t /\ n \in MembersOf(t) /\ n[1] = t
    BY <1>0 DEF Filled, MemberOps, MembersOf
<1>2. PICK a \in Nat, b \in Nat, v \in Nat : a = k.seen /\ b = k.seenTo /\ v = k.value /\ v <= a
    BY <1>0 DEF Filled
<1>3. /\ UNCHANGED <<ceiling, org>>
      /\ row' = [row EXCEPT ![m].budget = a - v, ![n].budget = b + v]
      /\ over' = [over EXCEPT ![t] = @ + Surplus(k)]
    BY <1>1, <1>2 DEF Commit, CommitBudgets, Moved
<1>4. a - v \in Nat /\ b + v \in Nat
    BY <1>2
<1>5. /\ row' \in Tables
      /\ row'[m].budget = a - v /\ row'[n].budget = b + v
      /\ \A x \in Memberships : x \notin {m, n} => row'[x] = row[x]
    <2> DEFINE mid == [row EXCEPT ![m].budget = a - v]
    <2>1. /\ mid \in Tables /\ mid[m].budget = a - v
          /\ \A x \in Memberships : x # m => mid[x] = row[x]
        BY <1>0, <1>4 DEF Tables, MembershipRows, Money
    <2>2. row' = [mid EXCEPT ![n].budget = b + v]
        BY <1>3
    <2> HIDE DEF mid
    <2>3. /\ row' \in Tables /\ row'[n].budget = b + v
          /\ \A x \in Memberships : x # n => row'[x] = mid[x]
        BY <1>4, <2>1, <2>2 DEF Tables, MembershipRows, Money
    <2> QED BY <1>1, <2>1, <2>3
<1>6. PICK p \in Nat, q \in Nat :
         /\ p = Dollars(row[m].budget) /\ q = Dollars(row[n].budget)
    BY <1>0, WeightType DEF Tables
<1>7. PICK d \in Nat : d = Surplus(k) /\ (a - v - p) + (b + v - q) <= d
    <2> DEFINE gain == (a - v - p) + (b + v - q)
    <2>1. gain \in Int
        BY <1>2, <1>6
    <2>2. Surplus(k) = IF gain > 0 THEN gain ELSE 0
        BY <1>1, <1>2, <1>6 DEF Surplus
    <2> HIDE DEF gain
    <2>3. Surplus(k) \in Nat /\ gain <= Surplus(k)
        BY <2>1, <2>2
    <2> QED BY <2>3 DEF gain
<1>8. PICK r \in Nat, s \in Nat, w \in Nat :
         /\ r = AllocOf(row, t, {m, n})
         /\ s = Weight(row'[m]) /\ s <= a - v
         /\ w = Weight(row'[n]) /\ w <= b + v
         /\ AllocOf(row', t, {}) = s + w + r
    <2>1. row \in Tables
        BY <1>0
    <2>2. \A x \in MembersOf(t) \ {m, n} : Weight(row'[x]) = Weight(row[x])
        BY <1>5 DEF MembersOf
    <2>3. AllocOf(row', t, {m, n}) = AllocOf(row, t, {m, n})
        BY <1>5, <2>1, <2>2, AllocFrame
    <2>4. AllocOf(row, t, {m, n}) \in Nat
        BY <2>1, AllocType
    <2>5. AllocOf(row', t, {}) = Weight(row'[m]) + Weight(row'[n]) + AllocOf(row', t, {m, n})
        BY <1>1, <1>5, AllocSplitTwo
    <2>6. /\ Weight(row'[m]) \in Nat /\ Weight(row'[m]) <= Dollars(row'[m].budget)
          /\ Weight(row'[n]) \in Nat /\ Weight(row'[n]) <= Dollars(row'[n].budget)
        BY <1>5, WeightType DEF Tables
    <2>7. Dollars(row'[m].budget) = a - v /\ Dollars(row'[n].budget) = b + v
        BY <1>4, <1>5, DollarsType DEF Money
    <2> QED BY <2>3, <2>4, <2>5, <2>6, <2>7
<1>9. /\ over' \in [Teams -> Nat] /\ over'[t] = over[t] + d
      /\ \A u \in Teams : u # t => over'[u] = over[u]
    BY <1>0, <1>3, <1>7
<1>10. Within(t, row', ceiling', over')
    <2> SUFFICES ASSUME Metered(ceiling[t])
                 PROVE  AllocOf(row', t, {}) <= ceiling[t] + over'[t]
        BY <1>3 DEF Within
    <2>1. ceiling[t] \in Nat /\ over[t] \in Nat
        BY <1>0, DollarsType DEF Ceilings
    <2>2. r + p + q <= ceiling[t] + over[t]
        BY <1>0, <1>1, <1>6, <1>8 DEF Fits, Checked, Sound
    <2>3. s + w <= p + q + d
        BY <1>2, <1>6, <1>7, <1>8
    <2>4. s + w + r <= ceiling[t] + (over[t] + d)
        BY <1>6, <1>7, <1>8, <2>1, <2>2, <2>3
    <2> QED BY <1>8, <1>9, <2>4
<1>11. \A x \in Memberships : x[1] # t => row'[x] = row[x]
    BY <1>1, <1>5
<1>12. HasTeam(k, t) /\ call' = [call EXCEPT ![c] = Reply("done", k.m)]
    BY <1>1, Committing DEF RowFirst
<1>13. UNCHANGED <<ceiling, org>> /\ \A u \in Teams : ceiling'[u] = ceiling[u]
    BY <1>3
<1> QED BY <1>5, <1>9, <1>10, <1>11, <1>12, <1>13, CeilingsStay, TeamCommitFits

\* set_team_budget_ceiling and create_team.
LEMMA CommitCeilingFits ==
    ASSUME IInv, Fit, NEW c \in Calls, Commit(c), call[c].op \in {"ceiling", "create"}
    PROVE  Fit'
<1> DEFINE k == call[c]
<1>0. /\ k \in CallRows /\ k.pc = "flushed" /\ Filled(k)
      /\ Fits(k, row, ceiling, over) /\ Priced(k, ceiling, org)
      /\ row \in Tables /\ ceiling \in Ceilings /\ over \in [Teams -> Nat]
      /\ call' = [call EXCEPT ![c] = Reply("done", k.m)]
    BY Committing
<1>1. PICK t \in Teams, v \in Money : t = k.team /\ v = k.value
    BY <1>0 DEF Filled, CallRows
<1>2. UNCHANGED <<row, org, over>> /\ HasTeam(k, t)
    <2>1. k.op \notin RowFirst \cup {"org"}
        BY DEF RowFirst
    <2> QED BY <1>1, <2>1, Committing DEF Commit, CommitCeiling
<1>3. ceiling' = ceiling \/ ceiling' = [ceiling EXCEPT ![t] = v]
    BY <1>1 DEF Commit, CommitCeiling
<1>4. /\ row' \in Tables /\ over' \in [Teams -> Nat]
      /\ \A n \in Memberships : n[1] # t => row'[n] = row[n]
      /\ \A u \in Teams : over'[u] = over[u]
    BY <1>0, <1>2
<1>5. CASE ceiling' = ceiling
    <2>1. Within(t, row', ceiling', over')
        BY <1>2, <1>5 DEF Fit
    <2>2. \A u \in Teams : ceiling'[u] = ceiling[u]
        BY <1>5
    <2> QED BY <1>0, <1>2, <1>4, <1>5, <2>1, <2>2, CeilingsStay, TeamCommitFits
<1>6. CASE ceiling' = [ceiling EXCEPT ![t] = v]
    <2>1. /\ ceiling' \in Ceilings /\ ceiling'[t] = v
          /\ \A u \in Teams : u # t => ceiling'[u] = ceiling[u]
        BY <1>0, <1>6 DEF Ceilings
    <2>2. Within(t, row', ceiling', over')
        <3>1. v # None => AllocOf(row, t, {}) <= v + over[t]
            BY <1>0, <1>1 DEF Fits, Checked, Sound
        <3> QED BY <1>2, <2>1, <3>1 DEF Within, Metered
    <2>3. ceiling \in Ceilings
        BY <1>0
    <2>4. CASE v = None
        <3>1. Dollars(ceiling'[t]) <= Dollars(ceiling[t])
            <4>1. Dollars(ceiling[t]) \in Nat
                BY <2>3, DollarsType DEF Ceilings
            <4> QED BY <2>1, <2>4, <4>1 DEF Dollars
        <3>2. \A X : CeilOf(ceiling', X) <= CeilOf(ceiling, X)
            BY <2>1, <2>3, <3>1, CeilingsShrink
        <3>3. org.ceiling # None => CeilOf(ceiling', {}) <= org.ceiling
            <4>1. org.ceiling \in Money /\ CeilOf(ceiling, {}) \in Nat /\ CeilOf(ceiling', {}) \in Nat
                BY <2>1, <2>3, CeilType, Committing
            <4>2. org.ceiling # None => CeilOf(ceiling, {}) <= org.ceiling
                BY DEF Fit
            <4>3. CeilOf(ceiling', {}) <= CeilOf(ceiling, {})
                BY <3>2
            <4> QED BY <4>1, <4>2, <4>3 DEF Money
        <3> QED BY <1>0, <1>2, <1>4, <2>1, <2>2, <3>2, <3>3, TeamCommitFits
    <2>5. CASE v # None
        <3>1. k.orgLock /\ (org.ceiling # None => CeilOf(ceiling, {t}) + v <= org.ceiling)
            BY <1>0, <1>1, <2>5 DEF Priced, Paid
        <3>2. CeilOf(ceiling', {}) = Dollars(ceiling'[t]) + CeilOf(ceiling', {t})
            BY <2>1, CeilSplit
        <3>3. CeilOf(ceiling', {t}) = CeilOf(ceiling, {t}) /\ CeilOf(ceiling, {t}) \in Nat
            <4>1. CeilOf(ceiling, {t}) \in Nat
                BY <2>3, CeilType
            <4>2. t \in {t}
                OBVIOUS
            <4>3. CeilOf(ceiling', {t}) = CeilOf(ceiling, {t})
                    + (IF t \in {t} THEN 0 ELSE Dollars(ceiling'[t]) - Dollars(ceiling[t]))
                BY <2>1, <2>3, CeilUpdate
            <4> QED BY <4>1, <4>2, <4>3
        <3>4. v \in Nat /\ Dollars(v) = v
            BY <2>5, DollarsType DEF Money
        <3>5. CeilOf(ceiling', {}) = CeilOf(ceiling, {t}) + v
            BY <2>1, <3>2, <3>3, <3>4
        <3>6. org.ceiling # None => CeilOf(ceiling', {}) <= org.ceiling
            BY <3>1, <3>5
        <3> QED BY <1>0, <1>2, <1>4, <2>1, <2>2, <3>1, <3>6, TeamCommitFits
    <2> QED BY <2>4, <2>5
<1> QED BY <1>3, <1>5, <1>6

LEMMA CommitDeleteFits ==
    ASSUME IInv, Fit, NEW c \in Calls, Commit(c), call[c].op = "delete"
    PROVE  Fit'
<1> DEFINE k == call[c]
<1>0. /\ k \in CallRows /\ Filled(k)
      /\ row \in Tables /\ ceiling \in Ceilings /\ over \in [Teams -> Nat]
      /\ call' = [call EXCEPT ![c] = Reply("done", k.m)]
    BY Committing
<1>1. PICK t \in Teams : t = k.team
    BY <1>0 DEF Filled
<1>2. UNCHANGED org /\ HasTeam(k, t)
    <2>1. k.op \notin RowFirst \cup {"org"}
        BY DEF RowFirst
    <2> QED BY <1>1, <2>1, Committing DEF Commit, CommitDelete
<1>3. /\ ceiling' = [ceiling EXCEPT ![t] = Absent]
      /\ over' = [over EXCEPT ![t] = 0]
      /\ row' = [m \in Memberships |->
                   IF m \in Writes(k) THEN [state |-> "none", budget |-> None] ELSE row[m]]
    BY <1>1 DEF Commit, CommitDelete
<1>4. \A m \in Memberships : m \in Writes(k) <=> m[1] = t
    BY <1>1, WritesOf
<1>5. row' \in Tables /\ \A n \in Memberships : n[1] # t => row'[n] = row[n]
    BY <1>0, <1>3, <1>4 DEF Tables, MembershipRows, Money
<1>6. /\ ceiling' \in Ceilings /\ ceiling'[t] = Absent /\ over' \in [Teams -> Nat]
      /\ \A u \in Teams : u # t => ceiling'[u] = ceiling[u] /\ over'[u] = over[u]
    BY <1>0, <1>3 DEF Ceilings
<1>7. Within(t, row', ceiling', over')
    BY <1>6 DEF Within, Metered
<1>8. \A X : CeilOf(ceiling', X) <= CeilOf(ceiling, X)
    <2>1. ceiling \in Ceilings /\ Dollars(ceiling[t]) \in Nat
        BY <1>0, DollarsType DEF Ceilings
    <2>2. Dollars(ceiling'[t]) <= Dollars(ceiling[t])
        BY <1>6, <2>1 DEF Dollars
    <2> QED BY <1>6, <2>1, <2>2, CeilingsShrink
<1>9. org.ceiling # None => CeilOf(ceiling', {}) <= org.ceiling
    <2>1. org.ceiling \in Money /\ CeilOf(ceiling, {}) \in Nat /\ CeilOf(ceiling', {}) \in Nat
        BY <1>0, <1>6, CeilType, Committing
    <2>2. org.ceiling # None => CeilOf(ceiling, {}) <= org.ceiling
        BY DEF Fit
    <2>3. CeilOf(ceiling', {}) <= CeilOf(ceiling, {})
        BY <1>8
    <2> QED BY <2>1, <2>2, <2>3 DEF Money
<1> QED BY <1>0, <1>2, <1>5, <1>6, <1>7, <1>8, <1>9, TeamCommitFits

\* set_org_budget_ceiling: whoever else checked against the organisation's
\* ceiling would hold its lock.
LEMMA CommitOrgFits ==
    ASSUME IInv, Fit, NEW c \in Calls, Commit(c), call[c].op = "org"
    PROVE  Fit'
<1> DEFINE k == call[c]
           done == Reply("done", k.m)
<1>1. /\ k.pc = "flushed" /\ UNCHANGED <<row, ceiling, over>>
      /\ org' = [exists |-> TRUE, ceiling |-> k.value]
      /\ call' = [call EXCEPT ![c] = done]
    BY DEF Commit, CommitOrg
<1>2. k.orgLock /\ (k.value # None => CeilOf(ceiling, {}) <= k.value)
    BY <1>1 DEF Fit, Priced, Paid
<1>3. org'.exists /\ org'.ceiling = k.value
    BY <1>1
<1>4. done.pc = "done" /\ done.orgLock = FALSE
    BY DEF Reply
<1> HIDE DEF done
<1>5. call'[c] = done /\ \A d \in Calls : d # c => call'[d] = call[d]
    BY <1>1 DEF IInv
<1>6. OneOrgLock'
    BY <1>4, <1>5 DEF Fit, OneOrgLock
<1>7. ASSUME NEW d \in Calls
      PROVE  Fits(call'[d], row, ceiling, over) /\ Priced(call'[d], ceiling, org')
    <2>1. CASE d = c
        BY <1>4, <1>5, <2>1 DEF Fits, Checked, Fresh, Priced
    <2>2. CASE d # c
        <3>1. /\ call'[d] = call[d] /\ ~call[d].orgLock
              /\ Fits(call[d], row, ceiling, over)
              /\ Priced(call[d], ceiling, org)
            BY <1>2, <1>5, <2>2 DEF Fit, OneOrgLock
        <3>2. Priced(call[d], ceiling, org')
            BY <3>1 DEF Priced, Paid
        <3> QED BY <3>1, <3>2
    <2> QED BY <2>1, <2>2
<1>8. /\ over' \in [Teams -> Nat]
      /\ \A t \in Teams : Within(t, row', ceiling', over')
      /\ org'.ceiling # None => CeilOf(ceiling', {}) <= org'.ceiling
    BY <1>1, <1>2, <1>3 DEF Fit
<1>9. \A d \in Calls : (Fits(call[d], row, ceiling, over) /\ Priced(call[d], ceiling, org))'
    BY <1>1, <1>7
<1> QED BY <1>3, <1>6, <1>8, <1>9 DEF Fit

\* submit and reject change no budget.
LEMMA CommitRequestFits ==
    ASSUME IInv, Fit, NEW c \in Calls, Commit(c), call[c].op \in {"submit", "reject"}
    PROVE  Fit'
<1>1. UNCHANGED <<row, ceiling, org, over>>
    BY DEF Commit, CommitRequest
<1>2. call' = [call EXCEPT ![c] = Reply("done", call[c].m)]
    BY DEF Commit
<1>3. /\ over' \in [Teams -> Nat]
      /\ \A t \in Teams : Within(t, row', ceiling', over')
      /\ \A d \in Calls : Fits(call[d], row', ceiling', over')
    BY <1>1 DEF Fit
<1> QED BY <1>1, <1>2, <1>3, CeilingsStay, OthersFit

\* remove_member and restore_member take no team's lock: what others have checked
\* stays sound, for the restored dollars are counted in `over`.
LEMMA CommitStateFits ==
    ASSUME IInv, Fit, NEW c \in Calls, Commit(c), call[c].op \in {"remove", "restore"}
    PROVE  Fit'
<1> DEFINE k == call[c]
<1>0. /\ k \in CallRows /\ k.pc = "flushed" /\ Filled(k)
      /\ row \in Tables /\ ceiling \in Ceilings /\ over \in [Teams -> Nat]
      /\ call' = [call EXCEPT ![c] = Reply("done", k.m)]
    BY Committing
<1>1. PICK t \in Teams, m \in Memberships : t = k.team /\ m = k.m /\ m \in MembersOf(t) /\ m[1] = t
    BY <1>0 DEF Filled, MemberOps, MembersOf
<1>2. UNCHANGED <<ceiling, org>>
    BY DEF Commit, CommitState
<1>3. PICK b \in Nat : b = Dollars(row[m].budget)
    BY <1>0, WeightType DEF Tables
<1>4. /\ row' \in Tables /\ \A n \in Memberships : n # m => row'[n] = row[n]
      /\ row'[m].budget = row[m].budget
      /\ k.op = "remove" => row'[m].state = "removed"
    <2>1. row' = [row EXCEPT ![m].state = IF k.op = "remove" THEN "removed" ELSE "active"]
        BY <1>1 DEF Commit, CommitState
    <2> QED BY <1>0, <2>1 DEF Tables, MembershipRows
<1>5. PICK d \in Nat : /\ d = IF k.op = "remove" THEN 0 ELSE b
                       /\ over' = [over EXCEPT ![t] = @ + d]
    <2>1. CASE k.op = "remove"
        <3>1. over' = over
            BY <2>1 DEF Commit, CommitState
        <3>2. over' = [over EXCEPT ![t] = @ + 0]
            BY <1>0, <3>1
        <3> QED BY <2>1, <3>2
    <2>2. CASE k.op = "restore"
        <3>1. over' = [over EXCEPT ![t] = @ + b]
            BY <1>1, <1>3, <2>2 DEF Commit, CommitState
        <3> QED BY <2>2, <3>1
    <2> QED BY <2>1, <2>2
<1>6. Weight(row'[m]) <= Weight(row[m]) + d
    <2>1. Weight(row[m]) \in Nat
        BY <1>0, WeightType DEF Tables
    <2>2. CASE k.op = "remove"
        <3>1. Weight(row'[m]) = 0
            BY <1>4, <2>2 DEF Weight, Counted
        <3> QED BY <2>1, <3>1
    <2>3. CASE k.op = "restore"
        <3>1. d = b
            BY <1>5, <2>3
        <3>2. Weight(row'[m]) <= b
            BY <1>3, <1>4, WeightType DEF Tables
        <3>3. Weight(row'[m]) \in Nat
            BY <1>4, WeightType DEF Tables
        <3> QED BY <1>3, <2>1, <3>1, <3>2, <3>3
    <2> QED BY <2>2, <2>3
<1>7. \A u, X : AllocOf(row', u, X) <= AllocOf(row, u, X) + d
    <2>1. row \in Tables
        BY <1>0
    <2> QED BY <1>4, <1>6, <2>1, AllocGrows
<1>8. over' \in [Teams -> Nat]
    BY <1>0, <1>5
<1>9. ASSUME NEW u \in Teams
      PROVE  \E x \in Nat : /\ over'[u] = over[u] + x
                            /\ \A X : AllocOf(row', u, X) <= AllocOf(row, u, X) + x
    <2>1. CASE u = t
        <3>1. over'[t] = over[t] + d
            BY <1>0, <1>5
        <3> QED BY <1>7, <2>1, <3>1
    <2>2. CASE u # t
        <3>1. over'[u] = over[u] + 0
            BY <1>0, <1>5, <2>2
        <3>2. \A X : AllocOf(row', u, X) <= AllocOf(row, u, X) + 0
            <4>1. PICK R \in Tables, Q \in Tables : R = row /\ Q = row'
                BY <1>0, <1>4
            <4>2. \A n \in Memberships : n[1] # t => Q[n] = R[n]
                BY <1>1, <1>4, <4>1
            <4>3. ASSUME NEW X PROVE AllocOf(Q, u, X) <= AllocOf(R, u, X) + 0
                <5>1. AllocOf(Q, u, X) = AllocOf(R, u, X)
                    BY <2>2, <4>2, OtherTeams
                <5>2. AllocOf(R, u, X) \in Nat
                    BY AllocType
                <5> QED BY <5>1, <5>2
            <4> QED BY <4>1, <4>3
        <3> QED BY <3>1, <3>2
    <2> QED BY <2>1, <2>2
<1>10. ASSUME NEW u \in Teams PROVE Within(u, row', ceiling', over')
    <2>1. PICK x \in Nat : /\ over'[u] = over[u] + x
                           /\ \A X : AllocOf(row', u, X) <= AllocOf(row, u, X) + x
        BY <1>9
    <2>2. Within(u, row, ceiling, over) /\ ceiling'[u] = ceiling[u]
        BY <1>2 DEF Fit
    <2>3. AllocOf(row', u, {}) <= AllocOf(row, u, {}) + x
        BY <2>1
    <2>4. row \in Tables /\ ceiling \in Ceilings /\ over \in [Teams -> Nat] /\ ceiling' \in Ceilings
        BY <1>0, <1>2
    <2> QED BY <1>4, <1>8, <2>1, <2>2, <2>3, <2>4, WithinKept
<1>11. ASSUME NEW e \in Calls, e # c PROVE Fits(call[e], row', ceiling', over')
    <2>1. CASE ~Checked(call[e]) \/ call[e].op \in RowFirst \cup {"org"}
        BY <2>1, UncheckedFits
    <2>2. CASE Checked(call[e]) /\ call[e].op \notin RowFirst \cup {"org"}
        <3>1. PICK j \in CallRows, u \in Teams : j = call[e] /\ u = j.team
            BY <2>2, CheckedHolds
        <3>2. /\ j.op \in {"add", "approve", "reassign"} => j.m \in Memberships
              /\ j.op = "reassign" => j.to \in Memberships
            BY <2>2, <3>1, CheckedHolds
        <3>3. Sound(j, row, ceiling, over) /\ Fresh(j, row)
            BY <2>2, <3>1 DEF Fit, Fits
        <3>4. Fresh(j, row')
            <4> SUFFICES ASSUME j.pc = "flushed", j.op \in {"add", "approve"}
                         PROVE  row'[j.m].state = "none"
                BY DEF Fresh
            <4>1. HasRow(j, j.m)
                BY WritesOf DEF HasRow
            <4>2. HasRow(k, m)
                BY <1>0, <1>1 DEF HasRow
            <4>3. j.m # m
                BY <1>11, <3>1, <4>1, <4>2 DEF IInv, OneHolder, Apart
            <4> QED BY <1>4, <3>2, <3>3, <4>3 DEF Fresh
        <3>5. PICK x \in Nat : /\ over'[u] = over[u] + x
                               /\ \A X : AllocOf(row', u, X) <= AllocOf(row, u, X) + x
            BY <1>9
        <3>6. Sound(j, row', ceiling', over')
            <4>1. PICK R \in Tables, Q \in Tables, C \in Ceilings,
                       O \in [Teams -> Nat], P \in [Teams -> Nat] :
                     R = row /\ Q = row' /\ C = ceiling /\ C = ceiling' /\ O = over /\ P = over'
                BY <1>0, <1>2, <1>4, <1>8
            <4>2. /\ j.team \in Teams /\ P[j.team] = O[j.team] + x
                  /\ \A X : AllocOf(Q, j.team, X) <= AllocOf(R, j.team, X) + x
                  /\ Sound(j, R, C, O)
                BY <3>1, <3>3, <3>5, <4>1
            <4>3. \A n \in Memberships : Q[n].budget = R[n].budget
                BY <1>4, <4>1
            <4>4. Sound(j, Q, C, P)
                BY <3>2, <4>2, <4>3, SoundKept
            <4> QED BY <4>1, <4>4
        <3> QED BY <3>1, <3>4, <3>6 DEF Fits
    <2> QED BY <2>1, <2>2
<1> QED BY <1>0, <1>2, <1>8, <1>10, <1>11, CeilingsStay, OthersFit

\* What the rollover adds to the rows is what it adds to `over`.
LEMMA CommitRolloverFits ==
    ASSUME IInv, Fit, NEW c \in Calls, Commit(c), call[c].op = "rollover"
    PROVE  Fit'
<1> DEFINE k == call[c]
<1>0. /\ Filled(k) /\ row \in Tables /\ ceiling \in Ceilings /\ over \in [Teams -> Nat]
      /\ call' = [call EXCEPT ![c] = Reply("done", k.m)]
    BY Committing
<1>t. PICK t \in Teams : t = k.team
    BY <1>0 DEF Filled
<1>1. /\ UNCHANGED <<ceiling, org>> /\ HasTeam(k, t)
      /\ row \in Tables /\ over \in [Teams -> Nat]
    <2>1. k.op \notin RowFirst \cup {"org"}
        BY DEF RowFirst
    <2> QED BY <1>0, <1>t, <2>1, Committing DEF Commit, CommitRollover
<1> DEFINE due == {m \in Memberships : /\ m[1] = t /\ row[m].state = "active"
                                       /\ row[m].budget # None}
<1>2. PICK unspent \in [Users -> Amounts \cup {0}] :
         /\ row' = [m \in Memberships |->
                      IF m \in due THEN [row[m] EXCEPT !.budget = @ + unspent[m[2]]] ELSE row[m]]
         /\ over' = [over EXCEPT ![t] =
                       @ + SumFunctionOnSet([m \in Memberships |-> unspent[m[2]]], due)]
    BY <1>t DEF Commit, CommitRollover
<1> DEFINE u == [m \in Memberships |-> unspent[m[2]]]
           h == [m \in Memberships |-> IF m \in due THEN unspent[m[2]] ELSE 0]
<1>3. \A m \in Memberships : unspent[m[2]] \in Nat
    BY <1>2, AllocationAssumption
<1>4. /\ \A m \in Memberships : u[m] \in Nat /\ h[m] \in Nat
      /\ \A m \in due : h[m] = u[m]
      /\ \A m \in Memberships : m \notin due => h[m] = 0
    BY <1>3
<1>5. IsFiniteSet(MembersOf(t)) /\ MembersOf(t) \subseteq Memberships /\ due \subseteq MembersOf(t)
    <2>1. due \subseteq MembersOf(t)
        BY DEF MembersOf
    <2>2. MembersOf(t) \subseteq Memberships
        BY DEF MembersOf
    <2> QED BY <2>1, <2>2, FiniteSums, FS_Subset
<1>6. ASSUME NEW m \in Memberships
      PROVE  /\ row'[m] \in MembershipRows /\ row'[m].state = row[m].state
             /\ Weight(row'[m]) = Weight(row[m]) + h[m]
             /\ m[1] # t => row'[m] = row[m]
    <2>1. row[m] \in MembershipRows /\ Weight(row[m]) \in Nat
        BY <1>1, WeightType DEF Tables
    <2>2. CASE m \notin due
        <3>1. row'[m] = row[m] /\ h[m] = 0
            BY <1>2, <2>2
        <3> QED BY <2>1, <3>1
    <2>3. CASE m \in due
        <3>1. row[m].state = "active" /\ row[m].budget \in Nat /\ m[1] = t /\ h[m] = unspent[m[2]]
            BY <2>1, <2>3 DEF MembershipRows, Money
        <3>2. PICK x \in Nat : x = unspent[m[2]]
            BY <1>3
        <3>3. row'[m] = [row[m] EXCEPT !.budget = @ + x]
            BY <1>2, <2>3, <3>2
        <3>4. row[m].budget + x \in Nat
            BY <3>1, <3>2
        <3>5. row'[m] \in MembershipRows /\ row'[m].state = "active" /\ row'[m].budget = row[m].budget + x
            BY <2>1, <3>1, <3>3, <3>4 DEF MembershipRows, Money
        <3>6. Weight(row'[m]) = row[m].budget + x /\ Weight(row[m]) = row[m].budget
            <4>1. Dollars(row[m].budget + x) = row[m].budget + x /\ Dollars(row[m].budget) = row[m].budget
                BY <3>1, <3>4, DollarsType DEF Money
            <4> QED BY <3>1, <3>5, <4>1 DEF Weight, Counted
        <3> QED BY <3>1, <3>2, <3>5, <3>6
    <2> QED BY <2>2, <2>3
<1>7. row' \in Tables
    <2>1. row' = [m \in Memberships |-> row'[m]]
        BY <1>2
    <2> QED BY <1>6, <2>1 DEF Tables
<1> HIDE DEF u, h, due
<1>8. PICK d \in Nat : d = SumFunctionOnSet(u, due)
    <2>1. IsFiniteSet(due) /\ \A m \in due : u[m] \in Nat
        BY <1>4, <1>5, FS_Subset
    <2>2. SumFunctionOnSet(u, due) \in Nat
        BY <2>1, SumOfNaturals
    <2> QED BY <2>2
<1>9. over' = [over EXCEPT ![t] = @ + d]
    BY <1>2, <1>8 DEF u
<1>10. ASSUME NEW X PROVE AllocOf(row', t, X) <= AllocOf(row, t, X) + d
    <2> DEFINE f == [m \in Memberships |-> Weight(row[m])]
               g == [m \in Memberships |-> Weight(row'[m])]
               S == MembersOf(t) \ X
               all == MembersOf(t)
    <2>1. /\ IsFiniteSet(S) /\ S \subseteq all /\ S \subseteq Memberships
        BY <1>5, FiniteSums
    <2>2. \A m \in Memberships : f[m] \in Int /\ h[m] \in Int /\ g[m] = f[m] + h[m]
        BY <1>1, <1>4, <1>6, WeightType DEF Tables
    <2>3. all \subseteq Memberships /\ IsFiniteSet(all) /\ due \subseteq all
        BY <1>5
    <2> HIDE DEF f, g, S, all
    <2>4. SumFunctionOnSet(g, S) = SumFunctionOnSet(f, S) + SumFunctionOnSet(h, S)
        <3>1. \A m \in S : f[m] \in Int /\ h[m] \in Int /\ g[m] = f[m] + h[m]
            BY <2>1, <2>2
        <3> QED BY <2>1, <3>1, SumPlus
    <2>5. SumFunctionOnSet(h, all) = SumFunctionOnSet(h, due)
        <3>1. due \in SUBSET all /\ \A m \in all : h[m] \in Int
            BY <2>2, <2>3
        <3>2. \A m \in all \ due : h[m] = 0
            BY <1>4, <2>3
        <3> QED BY <2>3, <3>1, <3>2, SumSupport
    <2>6. SumFunctionOnSet(h, due) = d
        <3>1. IsFiniteSet(due) /\ \A m \in due : h[m] = u[m]
            BY <1>4, <2>3, FS_Subset
        <3>2. SumFunctionOnSet(h, due) = SumFunctionOnSet(u, due)
            BY <3>1, SumSame
        <3> QED BY <1>8, <3>2
    <2>7. SumFunctionOnSet(h, S) <= SumFunctionOnSet(h, all)
        <3> DEFINE hs == [m \in Memberships |-> IF m \in S THEN h[m] ELSE 0]
        <3>1. /\ \A m \in all : hs[m] \in Int /\ h[m] \in Int /\ hs[m] <= h[m]
              /\ \A m \in all \ S : hs[m] = 0
              /\ \A m \in S : hs[m] = h[m]
              /\ S \in SUBSET all
            BY <1>4, <2>1, <2>3
        <3> HIDE DEF hs
        <3>2. SumFunctionOnSet(hs, all) <= SumFunctionOnSet(h, all)
            BY <2>3, <3>1, SumMonotone
        <3>3. SumFunctionOnSet(hs, all) = SumFunctionOnSet(hs, S)
            BY <2>3, <3>1, SumSupport
        <3>4. SumFunctionOnSet(hs, S) = SumFunctionOnSet(h, S)
            BY <2>1, <3>1, SumSame
        <3> QED BY <3>2, <3>3, <3>4
    <2>8. SumFunctionOnSet(f, S) \in Int /\ SumFunctionOnSet(h, S) \in Int
        <3>1. \A m \in S : f[m] \in Int /\ h[m] \in Int
            BY <2>1, <2>2
        <3> QED BY <2>1, <3>1, SumType
    <2>9. SumFunctionOnSet(g, S) <= SumFunctionOnSet(f, S) + d
        BY <2>4, <2>5, <2>6, <2>7, <2>8
    <2> QED BY <2>9 DEF AllocOf, f, g, S
<1>11. \A n \in Memberships : n[1] # t => row'[n] = row[n]
    BY <1>6
<1>12. /\ over' \in [Teams -> Nat] /\ over'[t] = over[t] + d
       /\ \A x \in Teams : x # t => over'[x] = over[x] /\ ceiling'[x] = ceiling[x]
    BY <1>1, <1>9
<1>13. Within(t, row', ceiling', over')
    <2>1. Within(t, row, ceiling, over) /\ ceiling'[t] = ceiling[t] /\ ceiling' \in Ceilings
        BY <1>0, <1>1 DEF Fit
    <2>2. AllocOf(row', t, {}) <= AllocOf(row, t, {}) + d
        BY <1>10
    <2>3. row \in Tables /\ ceiling \in Ceilings /\ over \in [Teams -> Nat]
        BY <1>0
    <2> QED BY <1>7, <1>12, <2>1, <2>2, <2>3, WithinKept
<1> QED BY <1>0, <1>1, <1>7, <1>11, <1>12, <1>13, CeilingsStay, TeamCommitFits

LEMMA FitKept == ASSUME IInv, Fit, [Next]_vars PROVE Fit'
<1>1. CASE UNCHANGED vars
    BY <1>1 DEF vars, Fit, OneOrgLock
<1>2. ASSUME NEW c \in Calls, Proceed(c) \/ Abort(c) PROVE Fit'
    <2>1. CASE TeamGone(c) \/ Abort(c)
        BY <2>1, UndoFits DEF TeamGone, Abort, RestingPcs
    <2>2. CASE Commit(c)
        <3>1. call[c].op \in {"add", "approve", "update", "reassign", "rollover", "remove",
                              "restore", "submit", "reject", "ceiling", "create", "delete", "org"}
            BY <2>2 DEF Commit
        <3> QED BY <2>2, <3>1, CommitMemberFits, CommitUpdateFits, CommitReassignFits,
                CommitRolloverFits, CommitStateFits, CommitRequestFits,
                CommitCeilingFits, CommitDeleteFits, CommitOrgFits
    <2> QED BY <1>2, <2>1, <2>2, NoCheckFits, LockOrgFits, CheckOrgFits, AddFits, UpdateFits,
            ReassignFits, CeilingFits, LockOnlyFits, WriteRowsFits DEF Proceed
<1> QED BY <1>1, <1>2, ArrivesFit DEF Next

LEMMA FitInited ==
    ASSUME Init, InitialOrg.exists, BudgetsWithinCeilings
    PROVE  Fit
<1>1. IInv /\ RowTypes
    BY Inited DEF IInv
<1>2. over \in [Teams -> Nat] /\ org.exists
    BY DEF Init
<1>3. \A c \in Calls : call[c].pc = "idle" /\ call[c].orgLock = FALSE
    BY DEF Init, Reply
<1>4. OneOrgLock
    BY <1>3 DEF OneOrgLock
<1>5. \A c \in Calls : Fits(call[c], row, ceiling, over) /\ Priced(call[c], ceiling, org)
    BY <1>3 DEF Fits, Checked, Fresh, Priced
<1>6. /\ org.ceiling # None => CeilOf(ceiling, {}) <= org.ceiling
      /\ \A t \in Teams : Within(t, row, ceiling, over)
    BY <1>1, SumsAre DEF BudgetsWithinCeilings, Within, Metered
<1> QED BY <1>2, <1>4, <1>5, <1>6 DEF Fit

\* Where there is an organisation's row to lock and the books start within the
\* ceilings, they stay so, whatever the calls race on: a check is still right at
\* the commit because nothing it looked at grows without the lock it holds, but
\* for what `over` counts.  Without the organisation's row, set_team_budget_ceiling
\* locks nothing there and the second half need not hold.
THEOREM BudgetsFit ==
    ASSUME InitialOrg.exists
    PROVE  BudgetsWithinCeilings /\ Spec => []BudgetsWithinCeilings
<1>1. Init /\ BudgetsWithinCeilings => IInv /\ Fit
    BY Inited, FitInited
<1>2. (IInv /\ Fit) /\ [Next]_vars => (IInv /\ Fit)'
    BY Stepped, FitKept
<1>3. IInv /\ Fit => BudgetsWithinCeilings
    BY FitMeansWithin
<1> QED BY <1>1, <1>2, <1>3, PTL DEF Spec
=============================================================================
