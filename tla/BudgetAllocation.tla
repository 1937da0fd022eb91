-------------------------- MODULE BudgetAllocation --------------------------
(***************************************************************************)
(* Who may spend how much: the member budgets under a team's ceiling and   *)
(* the team ceilings under the organisation's, with the join requests      *)
(* whose approval assigns a budget.                                        *)
(*                                                                         *)
(* A call is one console request, or a touch of a team whose period ended. *)
(* Most write their audit entry first (with the hash chain on that locks   *)
(* the settings row), then lock the constraining parents, check, and write *)
(* their rows; removing, restoring, rejecting and submitting write their   *)
(* own row first and their audit entry after it.  The commit publishes and *)
(* releases the locks.  A row the request already holds as an object is    *)
(* not refreshed by a later SELECT: `seen` and `seenTo` are those values.  *)
(* A team that is created or deleted keeps its name in Teams: one there is *)
(* no row of has the ceiling Absent.                                       *)
(***************************************************************************)
EXTENDS Integers, FiniteSets, Functions

CONSTANTS
    Calls,            \* console requests at work at once
    Teams, Users,
    Memberships,      \* the (team, user) pairs that may have a row
    Requests,         \* join_requests rows
    None,             \* NULL: unmetered, unconstrained, or not applicable
    Absent,           \* no such row
    Amounts,          \* the amounts an administrator types
    Operations,       \* what administrators do in this instance
    InitialRows,      \* memberships at the start
    InitialCeiling,   \* teams.budget_ceiling_usd at the start
    InitialOrg,       \* org_settings at the start
    MaxCalls          \* bound on the calls started

Money == Nat \cup {None}
AllOperations == {"add", "update", "approve", "reassign", "ceiling", "org",
                  "create", "delete", "remove", "restore", "rollover", "submit", "reject"}
RowFirst == {"remove", "restore", "submit", "reject"}
MembershipRows == [state : {"none", "active", "removed"}, budget : Money]

ASSUME AllocationAssumption ==
    /\ IsFiniteSet(Teams) /\ IsFiniteSet(Users)
    /\ Memberships \subseteq Teams \X Users
    /\ None \notin Int \cup Memberships \cup Teams \cup Requests
    /\ Absent \notin Int \cup {None}
    /\ Amounts \subseteq Nat
    /\ Operations \subseteq AllOperations
    /\ InitialRows \in [Memberships -> MembershipRows]
    /\ InitialCeiling \in [Teams -> Money \cup {Absent}]
    /\ InitialOrg \in [exists : BOOLEAN, ceiling : Money]
    /\ ~InitialOrg.exists => InitialOrg.ceiling = None
    /\ MaxCalls \in Nat

VARIABLES
    chain,     \* is the audit trail hash-chained?
    row,       \* team_memberships by (team, user); "none" = no such row
    ceiling,   \* teams.budget_ceiling_usd
    org,       \* org_settings: does the row exist, and its ceiling
    request,   \* join_requests
    call,      \* the console requests
    over,      \* dollars a team got past its ceiling check (history)
    started

vars == <<chain, row, ceiling, org, request, call, over, started>>

RestingPcs == {"idle", "done", "refused", "conflict"}
Pcs == RestingPcs \cup {"row", "audit", "org", "team", "rows", "flushed"}

\* What a call keeps: the reply once it rests, its rows and input until then.
Reply(pc, m) == [pc |-> pc, op |-> None, team |-> None, m |-> m, to |-> None,
                 request |-> None, value |-> None, seen |-> None, seenTo |-> None,
                 orgLock |-> FALSE, orgCeiling |-> None]
NoRequest == [user |-> None, team |-> None, status |-> "none"]

Init ==
    /\ chain \in BOOLEAN
    /\ row = InitialRows
    /\ ceiling = InitialCeiling
    /\ org = InitialOrg
    /\ request = [r \in Requests |-> NoRequest]
    /\ call = [c \in Calls |-> Reply("idle", None)]
    /\ over = [t \in Teams |-> 0]
    /\ started = 0

-----------------------------------------------------------------------------
(* Sums and locks.                                                         *)

Dollars(v) == IF v \in {None, Absent} THEN 0 ELSE v

Exists(t) == ceiling[t] # Absent

\* A removed member's budget is headroom for the others.
Counted(r) == r.state = "active"

AllocatedMemberBudget(t, except) ==
    LET rows == {m \in Memberships \ except : m[1] = t /\ Counted(row[m])}
    IN  SumFunctionOnSet([m \in Memberships |-> Dollars(row[m].budget)], rows)

SiblingCeilings(except) ==
    SumFunctionOnSet([t \in Teams |-> Dollars(ceiling[t])], Teams \ except)

Headroom(top, allocated, asked) ==
    top # None /\ asked # None => allocated + asked <= top

AtWork(c) == call[c].pc \notin RestingPcs

\* The membership rows a call writes; assigning an ORM attribute the value it
\* was loaded with is no change and emits no UPDATE.
Writes(k) ==
    CASE k.op \in {"add", "approve"} -> {k.m}
      [] k.op = "update" /\ k.value # k.seen -> {k.m}
      [] k.op = "reassign" -> {k.m, k.to}
      [] k.op \in {"delete", "rollover"} -> {m \in Memberships : m[1] = k.team}
      [] OTHER -> {}

\* The locks a call has.  Submitting shares the team's row (its foreign key).
HasAudit(k) ==
    chain /\ k.op # "rollover" /\ k.pc \in {"org", "team", "rows", "flushed"}
HasTeam(k, t) ==
    k.team = t /\ k.op \notin RowFirst \cup {"org"} /\ k.pc \in {"rows", "flushed"}
SharesTeam(k, t) ==
    k.team = t /\ k.op = "submit" /\ k.pc \in {"audit", "flushed"}
HasRow(k, m) ==
    \/ k.op \in {"remove", "restore"} /\ k.m = m /\ k.pc \in {"audit", "flushed"}
    \/ k.pc = "flushed" /\ m \in Writes(k)
HasRequest(k, r) ==
    /\ k.request = r
    /\ \/ k.op = "submit" /\ k.pc \in {"row", "audit", "flushed"}
       \/ k.op = "reject" /\ k.pc \in {"audit", "flushed"}
       \/ k.op = "approve" /\ k.pc = "flushed"

\* Does k need a lock that h has?  Two pending requests of one user would be the
\* same entry of a unique index.
OwnRowTaken(k, h) ==
    \/ k.op \in {"remove", "restore"} /\ HasRow(h, k.m)
    \/ k.op = "reject" /\ HasRequest(h, k.request)
    \/ /\ k.op = "submit"
       /\ \/ HasTeam(h, k.team)
          \/ h.op = "submit" /\ h.m[2] = k.m[2] /\ h.pc \in {"audit", "flushed"}
WaitsFor(k, h) ==
    \/ k.pc = "row" /\ OwnRowTaken(k, h)
    \/ k.pc = "audit" /\ HasAudit(h)
    \/ k.pc = "org" /\ h.orgLock /\ (org.exists \/ k.op = "org")
    \/ k.pc = "team" /\ (HasTeam(h, k.team) \/ SharesTeam(h, k.team))
    \/ k.pc = "rows" /\ (\/ \E m \in Writes(k) : HasRow(h, m)
                         \/ k.op = "approve" /\ HasRequest(h, k.request))
Waiting(c) == \E d \in Calls : WaitsFor(call[c], call[d])

-----------------------------------------------------------------------------
(* A call arrives and finds its rows (else 404).                           *)

Arrive(c, op, k) ==
    /\ op \in Operations
    /\ ~AtWork(c)
    /\ started < MaxCalls
    /\ started' = started + 1
    /\ call' = [call EXCEPT ![c] = [k EXCEPT !.op = op]]
    /\ UNCHANGED <<chain, row, ceiling, org, request, over>>

AddMember(c) ==
    \E m \in Memberships, v \in Amounts \cup {None} :
        Exists(m[1]) /\ Arrive(c, "add", [Reply("audit", m) EXCEPT !.team = m[1], !.value = v])

UpdateMember(c) ==
    \E m \in Memberships, v \in Amounts \cup {None} :
        /\ row[m].state = "active"
        /\ Arrive(c, "update", [Reply("audit", m) EXCEPT !.team = m[1], !.value = v,
                                                         !.seen = row[m].budget])

ApproveJoinRequest(c) ==
    \E r \in Requests, v \in Amounts \cup {None} :
        /\ request[r].status # "none"
        /\ Arrive(c, "approve",
                  [Reply("audit", <<request[r].team, request[r].user>>) EXCEPT
                     !.team = request[r].team, !.request = r, !.value = v])

ReassignBudget(c) ==
    \E m, n \in Memberships, v \in Amounts :
        /\ m # n /\ m[1] = n[1] /\ v > 0
        /\ row[m].state = "active" /\ row[n].state = "active"
        /\ Arrive(c, "reassign", [Reply("audit", m) EXCEPT
                     !.team = m[1], !.to = n, !.value = v,
                     !.seen = row[m].budget, !.seenTo = row[n].budget])

SetTeamCeiling(c) ==
    \E t \in Teams, v \in Amounts \cup {None} :
        /\ Exists(t)
        /\ Arrive(c, "ceiling", [Reply("audit", None) EXCEPT
                     !.team = t, !.value = v, !.seen = ceiling[t]])

\* The new row is its creator's alone until the commit; names are unique.
CreateTeam(c) ==
    \E t \in Teams, v \in Amounts \cup {None} :
        /\ ~Exists(t) /\ \A d \in Calls : AtWork(d) => call[d].team # t
        /\ Arrive(c, "create", [Reply("audit", None) EXCEPT !.team = t, !.value = v])

DeleteTeam(c) ==
    \E t \in Teams :
        Exists(t) /\ Arrive(c, "delete", [Reply("audit", None) EXCEPT !.team = t])

SetOrgCeiling(c) ==
    \E v \in Amounts \cup {None} :
        Arrive(c, "org", [Reply("audit", None) EXCEPT !.value = v])

RemoveMember(c) ==
    \E m \in Memberships :
        Arrive(c, "remove", [Reply("row", m) EXCEPT !.team = m[1]])

RestoreMember(c) ==
    \E m \in Memberships :
        Arrive(c, "restore", [Reply("row", m) EXCEPT !.team = m[1]])

SubmitJoinRequest(c) ==
    \E r \in Requests, m \in Memberships :
        /\ request[r].status = "none" /\ \A d \in Calls : ~HasRequest(call[d], r)
        /\ Exists(m[1])
        /\ Arrive(c, "submit", [Reply("row", m) EXCEPT !.team = m[1], !.request = r])

RejectJoinRequest(c) ==
    \E r \in Requests :
        /\ request[r].status # "none"
        /\ Arrive(c, "reject", [Reply("row", None) EXCEPT !.team = request[r].team, !.request = r])

\* A gateway request or a console page finds the team's period over.
TouchTeam(c) ==
    \E t \in Teams :
        Exists(t) /\ Arrive(c, "rollover", [Reply("team", None) EXCEPT !.team = t])

-----------------------------------------------------------------------------
(* It waits for its locks, checks under them, and flushes, or rolls back.  *)

\* Faulty: a refused call's session stays open, and with it its lock.
Undo_KeepsOrgLock(c, pc) ==
    /\ call' = [call EXCEPT ![c] = [Reply(pc, call[c].m) EXCEPT !.orgLock = call[c].orgLock]]
    /\ UNCHANGED <<chain, row, ceiling, org, request, over, started>>

Undo(c, pc) ==
    /\ call' = [call EXCEPT ![c] = Reply(pc, call[c].m)]
    /\ UNCHANGED <<chain, row, ceiling, org, request, over, started>>

GoOn(c, pc) ==
    /\ call' = [call EXCEPT ![c].pc = pc]
    /\ UNCHANGED <<chain, row, ceiling, org, request, over, started>>

GoOnIf(c, check, pc) == IF check THEN GoOn(c, pc) ELSE Undo(c, "refused")

\* The guarded statement of a call that writes its own row first.
OwnRow(c, op, found) ==
    /\ call[c].pc = "row" /\ call[c].op = op
    /\ ~Waiting(c)
    /\ GoOnIf(c, found, "audit")

LockActiveMember(c) == OwnRow(c, "remove", row[call[c].m].state = "active")
LockRemovedMember(c) == OwnRow(c, "restore", row[call[c].m].state = "removed")

\* Faulty: an approved request may be rejected afterwards.
LockPendingRequest_Unguarded(c) ==
    OwnRow(c, "reject", request[call[c].request].status # "none")

LockPendingRequest(c) ==
    OwnRow(c, "reject", request[call[c].request].status = "pending")

\* At most one pending request per user (partial unique index).
InsertJoinRequest(c) ==
    LET k == call[c] IN
    OwnRow(c, "submit", /\ Exists(k.team)
                        /\ \A r \in Requests :
                              ~(request[r].status = "pending" /\ request[r].user = k.m[2]))

HasRequests(t) == \E r \in Requests : request[r].team = t

\* A team that is created without a ceiling has none to check.
AfterAudit(k) ==
    IF k.op \in RowFirst \/ (k.op = "create" /\ k.value = None) THEN "flushed"
    ELSE IF k.op \in {"org", "ceiling", "create"} THEN "org"
    ELSE "team"

\* delete_team looks for members and requests without a lock.
WriteAuditEntry(c) ==
    LET k == call[c] IN
    /\ k.pc = "audit" /\ ~Waiting(c)
    /\ GoOnIf(c, k.op = "delete" =>
                    /\ ~HasRequests(k.team)
                    /\ \A m \in Memberships : m[1] = k.team => row[m].state # "active",
              AfterAudit(k))

\* The organisation's row is locked before the team's, if there is one to lock.
LockOrg(c) ==
    /\ call[c].pc = "org" /\ call[c].op \in {"ceiling", "create"}
    /\ ~Waiting(c)
    /\ call' = [call EXCEPT ![c].pc = "team", ![c].orgLock = org.exists,
                            ![c].orgCeiling = org.ceiling]
    /\ UNCHANGED <<chain, row, ceiling, org, request, over, started>>

\* The row is inserted if there is none; two such inserts exclude each other.
CheckOrg(c) ==
    /\ call[c].pc = "org" /\ call[c].op = "org"
    /\ ~Waiting(c)
    /\ IF call[c].value # None => call[c].value >= SiblingCeilings({})
       THEN /\ call' = [call EXCEPT ![c].pc = "flushed", ![c].orgLock = TRUE]
            /\ UNCHANGED <<chain, row, ceiling, org, request, over, started>>
       ELSE Undo(c, "refused")

\* Faulty: the team row is read without FOR UPDATE.
LockTeam_Unlocked(c, op) ==
    /\ call[c].pc = "team" /\ call[c].op = op
    /\ op = "create" \/ Exists(call[c].team)

LockTeam(c, op) ==
    /\ call[c].pc = "team" /\ call[c].op = op
    /\ ~Waiting(c)
    /\ op = "create" \/ Exists(call[c].team)

\* Deleted meanwhile: 404.
TeamGone(c) ==
    /\ call[c].pc = "team" /\ call[c].op # "create"
    /\ ~Exists(call[c].team)
    /\ Undo(c, "refused")

HasRoom(k, allocated) == Headroom(ceiling[k.team], allocated, k.value)

CheckAdd(c) ==
    LET k == call[c] IN
    LockTeam(c, "add") /\ GoOnIf(c, HasRoom(k, AllocatedMemberBudget(k.team, {})), "rows")

CheckUpdate(c) ==
    LET k == call[c] IN
    /\ LockTeam(c, "update")
    /\ GoOnIf(c, row[k.m].state = "active" /\ HasRoom(k, AllocatedMemberBudget(k.team, {k.m})),
              "rows")

\* No ceiling check; the balance tested is the one the endpoint loaded.
CheckReassign(c) ==
    LET k == call[c] IN
    /\ LockTeam(c, "reassign")
    /\ GoOnIf(c, /\ row[k.m].state = "active" /\ row[k.to].state = "active"
                 /\ k.seen # None /\ k.seenTo # None
                 /\ k.seen - k.value >= 0, "rows")

\* Nothing to check before the rows.
LockOnly(c) ==
    \E op \in {"approve", "delete", "rollover"} : LockTeam(c, op) /\ GoOn(c, "rows")

CheckCeiling(c) ==
    LET k == call[c] IN
    /\ LockTeam(c, k.op) /\ k.op \in {"ceiling", "create"}
    /\ GoOnIf(c, k.value # None =>
                    /\ k.value >= AllocatedMemberBudget(k.team, {})
                    /\ Headroom(k.orgCeiling, SiblingCeilings({k.team}), k.value), "flushed")

\* The rows, under the team's lock.  Only a request that is still pending
\* becomes approved, and then its budget is checked; a second row for a user is
\* a conflict with the unique constraint; a join request pins its team's row.
WriteRows(c) ==
    LET k == call[c]
        allowed == k.op = "approve" =>
                      /\ request[k.request].status = "pending"
                      /\ HasRoom(k, AllocatedMemberBudget(k.team, {}))
    IN  /\ k.pc = "rows" /\ ~Waiting(c)
        /\ IF allowed /\ k.op \in {"add", "approve"} /\ row[k.m].state # "none"
           THEN Undo(c, "conflict")
           ELSE GoOnIf(c, allowed /\ (k.op = "delete" => ~HasRequests(k.team)), "flushed")

-----------------------------------------------------------------------------
(* The commit publishes what was flushed and releases the locks.           *)

Moved(k) == [row EXCEPT ![k.m].budget = k.seen - k.value,
                        ![k.to].budget = k.seenTo + k.value]

Surplus(k) ==  \* what a reassignment adds to the team's allocation
    LET gain == (k.seen - k.value - Dollars(row[k.m].budget))
                + (k.seenTo + k.value - Dollars(row[k.to].budget))
    IN  IF gain > 0 THEN gain ELSE 0

CommitMember(k) ==
    /\ row' = [row EXCEPT ![k.m] = [state |-> "active", budget |-> k.value]]
    /\ request' = IF k.op = "approve" THEN [request EXCEPT ![k.request].status = "approved"]
                  ELSE request
    /\ UNCHANGED <<ceiling, org, over>>

CommitBudgets(k) ==
    /\ row' = IF k.op = "reassign" THEN Moved(k)
              ELSE IF k.m \in Writes(k) THEN [row EXCEPT ![k.m].budget = k.value]
              ELSE row
    /\ over' = IF k.op = "reassign" THEN [over EXCEPT ![k.team] = @ + Surplus(k)] ELSE over
    /\ UNCHANGED <<ceiling, org, request>>

\* What m did not spend is added to its budget, beyond the team's ceiling.
CommitRollover(k) ==
    \E unspent \in [Users -> Amounts \cup {0}] :
        LET due == {m \in Memberships : /\ m[1] = k.team /\ row[m].state = "active"
                                        /\ row[m].budget # None}
        IN  /\ \A m \in due : unspent[m[2]] <= row[m].budget
            /\ row' = [m \in Memberships |->
                         IF m \in due THEN [row[m] EXCEPT !.budget = @ + unspent[m[2]]]
                         ELSE row[m]]
            /\ over' = [over EXCEPT ![k.team] =
                          @ + SumFunctionOnSet([m \in Memberships |-> unspent[m[2]]], due)]
            /\ UNCHANGED <<ceiling, org, request>>

\* No look at the ceiling: a restored budget comes back as it was.
CommitState(k) ==
    /\ row' = [row EXCEPT ![k.m].state = IF k.op = "remove" THEN "removed" ELSE "active"]
    /\ over' = IF k.op = "restore" THEN [over EXCEPT ![k.team] = @ + Dollars(row[k.m].budget)]
               ELSE over
    /\ UNCHANGED <<ceiling, org, request>>

CommitRequest(k) ==
    /\ request' = IF k.op = "reject" THEN [request EXCEPT ![k.request].status = "rejected"]
                  ELSE [request EXCEPT ![k.request] = [user |-> k.m[2], team |-> k.team,
                                                       status |-> "pending"]]
    /\ UNCHANGED <<row, ceiling, org, over>>

CommitCeiling(k) ==
    /\ ceiling' = IF k.op = "create" \/ k.value # k.seen THEN [ceiling EXCEPT ![k.team] = k.value]
                  ELSE ceiling
    /\ UNCHANGED <<row, org, request, over>>

CommitDelete(k) ==
    /\ ceiling' = [ceiling EXCEPT ![k.team] = Absent]
    /\ row' = [m \in Memberships |->
                 IF m \in Writes(k) THEN [state |-> "none", budget |-> None] ELSE row[m]]
    /\ over' = [over EXCEPT ![k.team] = 0]
    /\ UNCHANGED <<org, request>>

CommitOrg(k) ==
    /\ org' = [exists |-> TRUE, ceiling |-> k.value]
    /\ UNCHANGED <<row, ceiling, request, over>>

Commit(c) ==
    LET k == call[c] IN
    /\ k.pc = "flushed"
    /\ call' = [call EXCEPT ![c] = Reply("done", k.m)]
    /\ UNCHANGED <<chain, started>>
    /\ \/ k.op \in {"add", "approve"} /\ CommitMember(k)
       \/ k.op \in {"update", "reassign"} /\ CommitBudgets(k)
       \/ k.op = "rollover" /\ CommitRollover(k)
       \/ k.op \in {"remove", "restore"} /\ CommitState(k)
       \/ k.op \in {"submit", "reject"} /\ CommitRequest(k)
       \/ k.op \in {"ceiling", "create"} /\ CommitCeiling(k)
       \/ k.op = "delete" /\ CommitDelete(k)
       \/ k.op = "org" /\ CommitOrg(k)

\* Any failure, a lost client, or the database breaking a deadlock: the session
\* is closed.
Abort(c) == AtWork(c) /\ Undo(c, "refused")

-----------------------------------------------------------------------------
Proceed(c) ==
    \/ LockActiveMember(c) \/ LockRemovedMember(c) \/ LockPendingRequest(c)
    \/ InsertJoinRequest(c) \/ WriteAuditEntry(c)
    \/ LockOrg(c) \/ CheckOrg(c)
    \/ CheckAdd(c) \/ CheckUpdate(c) \/ CheckReassign(c) \/ CheckCeiling(c)
    \/ LockOnly(c) \/ TeamGone(c)
    \/ WriteRows(c) \/ Commit(c)

Next ==
    \E c \in Calls :
        \/ AddMember(c) \/ UpdateMember(c) \/ ApproveJoinRequest(c)
        \/ ReassignBudget(c) \/ SetTeamCeiling(c) \/ SetOrgCeiling(c)
        \/ CreateTeam(c) \/ DeleteTeam(c)
        \/ RemoveMember(c) \/ RestoreMember(c)
        \/ SubmitJoinRequest(c) \/ RejectJoinRequest(c) \/ TouchTeam(c)
        \/ Proceed(c) \/ Abort(c)

Spec == Init /\ [][Next]_vars

-----------------------------------------------------------------------------
(* Properties.                                                             *)

\* _check_headroom under the team lock, set_team_budget_ceiling and
\* set_org_budget_ceiling: whatever the calls race on, a team's members hold no
\* more than its ceiling, but for the dollars that restores, rollovers and
\* reassignments of outdated rows brought past the check; and the team ceilings
\* never add up to more than the organisation's.
BudgetsWithinCeilings ==
    /\ \A t \in Teams : ceiling[t] \notin {None, Absent} =>
          AllocatedMemberBudget(t, {}) <= ceiling[t] + over[t]
    /\ org.ceiling # None => SiblingCeilings({}) <= org.ceiling

\* The guarded UPDATEs of approve and reject: a resolved request stays as it
\* was resolved.
ResolutionIsFinal ==
    [][\A r \in Requests : request[r].status \in {"approved", "rejected"} =>
          request'[r] = request[r]]_vars

\* The audit entry before the organisation's row, that one before a team's, and
\* a session that ends gives its locks back: whenever calls are at work, one of
\* them can go on.  But with the hash chain on a call that wrote its own row
\* first (remove_member, restore_member, submit, reject) may wait for the
\* settings row while another call waits for what the first one holds.
NoCircularWait ==
    (\E c \in Calls : AtWork(c)) =>
        \/ \E c \in Calls : AtWork(c) /\ ~Waiting(c)
        \/ \E r, h \in Calls : /\ chain /\ call[r].op \in RowFirst /\ call[r].pc = "audit"
                               /\ WaitsFor(call[h], call[r])

=============================================================================
