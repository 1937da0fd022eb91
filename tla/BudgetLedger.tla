---------------------------- MODULE BudgetLedger ----------------------------
(***************************************************************************)
(* The spend counters behind every gateway request: the pre-request        *)
(* cutoff, the charge after the provider answered, the lazy period         *)
(* boundary of a team, soft removal of a member and the manual reset of    *)
(* the organisation's total.                                               *)
(*                                                                         *)
(* One team with its Members, the legacy flat users (no team), and the     *)
(* organisation row.  A slot is one request the gateway works on; it is    *)
(* reused for the next request once it rests.  A step is one statement or  *)
(* one transaction against Postgres (READ COMMITTED): what a request read  *)
(* in one step may be out of date in the next.  Money is an integer number *)
(* of the smallest amount numeric(20,10) stores; time is a month number,   *)
(* month 0 being a January.                                                *)
(***************************************************************************)
EXTENDS Integers, FiniteSets, Functions

CONSTANTS
    Slots,          \* requests the gateway may have in flight at once
    Members,        \* team_memberships rows of the team, by owner
    FlatUsers,      \* owners of keys without a team
    NoCaller,       \* a slot at rest serves nobody
    NoBudget,       \* budget_usd IS NULL: unmetered
    InitialBudget,  \* budget of every counter
    OrgCeiling,     \* org_settings.budget_ceiling_usd
    TeamCeiling,    \* teams.budget_ceiling_usd, which only alerts
    MaxCost,        \* bound: the dearest single request
    PeriodMonths,   \* 1 = monthly, 3 = quarterly
    OnPeriodEnd,    \* "rollover" or "reset"
    Cached,         \* members with a warm response-cache entry
    Removable,      \* members a team lead may remove and restore
    Viewers,        \* console GET requests that touch the team
    MaxMonth,       \* bound on the clock
    MaxRequests     \* bound on the requests that arrive

Callers == Members \cup FlatUsers
Budgets == Nat \cup {NoBudget}

ASSUME SlotsAssumption == IsFiniteSet(Slots) /\ Slots # {}
ASSUME CallersAssumption ==
    /\ IsFiniteSet(Members)
    /\ Members \cap FlatUsers = {}
    /\ NoCaller \notin Callers
    /\ Cached \subseteq Members
    /\ Removable \subseteq Members
ASSUME MoneyAssumption ==
    /\ NoBudget \notin Int
    /\ InitialBudget \in [Callers -> Budgets]
    /\ OrgCeiling \in Budgets
    /\ TeamCeiling \in Budgets
    /\ MaxCost \in Nat \ {0}
ASSUME ClockAssumption ==
    /\ PeriodMonths \in {1, 3}
    /\ OnPeriodEnd \in {"rollover", "reset"}
    /\ MaxMonth \in Nat
    /\ MaxRequests \in Nat

VARIABLES
    row,        \* row[c]: budget, spend and removed_at of c's counter
    teamSpend,  \* teams.current_spend_usd (ADR-7 aggregate)
    started,    \* teams.current_period_started_at, as a month
    orgSpend,   \* org_settings.current_spend_usd
    month,      \* the clock
    req,        \* req[s]: the request in slot s and what it has read
    view,       \* view[v]: a console GET and the ORM row it holds
    reset,      \* the organisation reset in progress
    arrived,    \* requests so far (bounded by MaxRequests)
    alerts,     \* 100% alerts scheduled since the last boundary
    booked      \* what the organisation total should be (history)

dbVars    == <<row, teamSpend, started, orgSpend>>
vars      == <<row, teamSpend, started, orgSpend, month, req, view, reset,
               arrived, alerts, booked>>

RestingPcs == {"idle", "blocked", "forbidden", "answered"}
Pcs == RestingPcs \cup {"lookup", "org", "counter", "period", "lock",
                        "reread", "calling", "charging", "charged"}
Requests == [pc : Pcs, caller : Callers \cup {NoCaller}, budget : Budgets, spend : Nat,
             started : Nat, now : Nat, cost : 0 .. MaxCost, late : BOOLEAN]
Resting(pc) == [pc |-> pc, caller |-> NoCaller, budget |-> NoBudget, spend |-> 0,
                started |-> 0, now |-> 0, cost |-> 0, late |-> FALSE]
NotViewing == [pc |-> "idle", started |-> 0, spend |-> 0, now |-> 0]
NotResetting == [pc |-> "idle", spend |-> 0]

Init ==
    /\ row = [c \in Callers |->
                [budget |-> InitialBudget[c], spend |-> 0, removed |-> FALSE]]
    /\ teamSpend = 0
    /\ started = 0
    /\ orgSpend = 0
    /\ month = 0
    /\ req = [s \in Slots |-> Resting("idle")]
    /\ view = [v \in Viewers |-> NotViewing]
    /\ reset = NotResetting
    /\ arrived = 0
    /\ alerts = 0
    /\ booked = 0

-----------------------------------------------------------------------------
(* The arithmetic the steps share.                                         *)

\* Faulty: the balance that equals the budget still passes.
IsBudgetExhausted_OffByOne(budget, spend) == budget # NoBudget /\ spend > budget

\* Fully used means spend >= budget; an unmetered counter is never exhausted.
IsBudgetExhausted(budget, spend) == budget # NoBudget /\ spend >= budget

\* First month of the calendar period after the one that holds month m.
ComputePeriodEnd(m) == (m \div PeriodMonths + 1) * PeriodMonths

\* The start the catch-up loop ends on: the last boundary not after now.
AdvancePeriodStart(m, now) ==
    IF ComputePeriodEnd(m) <= now THEN (now \div PeriodMonths) * PeriodMonths ELSE m

\* A membership's budget after a boundary; rollover adds what was unspent.
ApplyPeriodEnd(budget, spend) ==
    IF budget # NoBudget /\ OnPeriodEnd = "rollover" /\ spend < budget
    THEN budget + (budget - spend)
    ELSE budget

SpendOf(c) == row[c].spend
TotalMemberSpend == SumFunctionOnSet([c \in Callers |-> SpendOf(c)], Members)

\* Faulty: a charge that starts at the ceiling fires again.
Crosses_Inclusive(ceiling, old, new) ==
    ceiling # NoBudget /\ ceiling > 0 /\ old <= ceiling /\ ceiling <= new

\* The old total is below pct% of the ceiling and the new one is not (100%).
Crosses(ceiling, old, new) ==
    ceiling # NoBudget /\ ceiling > 0 /\ old < ceiling /\ ceiling <= new

\* Faulty: unmetered members are skipped altogether.
Cross_SkipsUnmetered(oldStart, oldSpend, now) ==
    /\ started' = AdvancePeriodStart(oldStart, now)
    /\ row' = [c \in Callers |->
                 IF c \in Members /\ ~row[c].removed /\ row[c].budget # NoBudget
                 THEN [row[c] EXCEPT !.budget = ApplyPeriodEnd(@, row[c].spend),
                                     !.spend = 0]
                 ELSE row[c]]
    /\ teamSpend' = IF TotalMemberSpend = 0 THEN teamSpend
                    ELSE oldSpend - TotalMemberSpend
    /\ alerts' = 0
    /\ UNCHANGED orgSpend

\* The boundary transaction: all membership rows are read under lock, those of
\* removed members stay frozen, and the aggregate is written from the team row
\* the session holds (oldSpend, oldStart).  Assigning an attribute the value the
\* session loaded emits no UPDATE of that column.
Cross(oldStart, oldSpend, now) ==
    /\ started' = AdvancePeriodStart(oldStart, now)
    /\ row' = [c \in Callers |->
                 IF c \in Members /\ ~row[c].removed
                 THEN [row[c] EXCEPT !.budget = ApplyPeriodEnd(@, row[c].spend),
                                     !.spend = 0]
                 ELSE row[c]]
    /\ teamSpend' = IF TotalMemberSpend = 0 THEN teamSpend
                    ELSE oldSpend - TotalMemberSpend
    /\ alerts' = 0
    /\ UNCHANGED orgSpend

-----------------------------------------------------------------------------
(* A gateway request.                                                      *)

Moves(s, r) == req' = [req EXCEPT ![s] = r]

\* A request arrives, rate limit and model policy behind it.
Arrive(s, c) ==
    /\ req[s].pc \in RestingPcs
    /\ arrived < MaxRequests
    /\ arrived' = arrived + 1
    /\ Moves(s, [Resting("lookup") EXCEPT !.caller = c, !.late = row[c].removed])
    /\ UNCHANGED <<dbVars, month, view, reset, alerts, booked>>

\* A cache hit answers at no cost, before the budget check is reached; a caller
\* without a team, or without a warm entry, misses.
CheckResponseCache(s) ==
    /\ req[s].pc = "lookup"
    /\ \/ /\ req[s].caller \in Cached
          /\ Moves(s, [Resting("answered") EXCEPT !.late = req[s].late])
       \/ Moves(s, [req[s] EXCEPT !.pc = "org"])
    /\ UNCHANGED <<dbVars, month, view, reset, arrived, alerts, booked>>

\* Faulty: the organisation-wide cutoff is left to the team path.
CheckOrgBudget_TeamOnly(s) ==
    /\ req[s].pc = "org"
    /\ IF req[s].caller \notin Members /\ IsBudgetExhausted(OrgCeiling, orgSpend)
       THEN Moves(s, Resting("blocked"))
       ELSE Moves(s, [req[s] EXCEPT !.pc = "counter"])
    /\ UNCHANGED <<dbVars, month, view, reset, arrived, alerts, booked>>

\* The organisation-wide cutoff comes first.
CheckOrgBudget(s) ==
    /\ req[s].pc = "org"
    /\ IF IsBudgetExhausted(OrgCeiling, orgSpend)
       THEN Moves(s, Resting("blocked"))
       ELSE Moves(s, [req[s] EXCEPT !.pc = "counter"])
    /\ UNCHANGED <<dbVars, month, view, reset, arrived, alerts, booked>>

\* The verdict on a budget and spend the request read earlier or just now.
Decide(s, budget, spend) ==
    IF IsBudgetExhausted(budget, spend)
    THEN Moves(s, Resting("blocked"))
    ELSE Moves(s, [req[s] EXCEPT !.pc = "calling", !.budget = NoBudget,
                                 !.spend = 0, !.started = 0, !.now = 0])

\* Faulty: the SELECT lacks its removed_at filter.
ReadCounter_IgnoresRemoval(s) ==
    LET c == req[s].caller IN
    /\ req[s].pc = "counter"
    /\ \/ /\ c \in FlatUsers
          /\ Decide(s, row[c].budget, row[c].spend)
       \/ /\ c \in Members
          /\ Moves(s, [req[s] EXCEPT !.pc = "period", !.budget = row[c].budget,
                                     !.spend = row[c].spend, !.started = started])
    /\ UNCHANGED <<dbVars, month, view, reset, arrived, alerts, booked>>

\* One joined SELECT: the counter and, for a member, the team's period.
ReadCounter(s) ==
    LET c == req[s].caller IN
    /\ req[s].pc = "counter"
    /\ \/ /\ c \in FlatUsers
          /\ Decide(s, row[c].budget, row[c].spend)
       \/ /\ c \in Members
          /\ row[c].removed
          /\ Moves(s, Resting("forbidden"))
       \/ /\ c \in Members
          /\ ~row[c].removed
          /\ Moves(s, [req[s] EXCEPT !.pc = "period", !.budget = row[c].budget,
                                     !.spend = row[c].spend, !.started = started])
    /\ UNCHANGED <<dbVars, month, view, reset, arrived, alerts, booked>>

\* Faulty: the first instant of the next period still counts as this one.
CheckPeriod_OffByOne(s) ==
    /\ req[s].pc = "period"
    /\ IF month <= ComputePeriodEnd(req[s].started)
       THEN Decide(s, req[s].budget, req[s].spend)
       ELSE Moves(s, [req[s] EXCEPT !.pc = "lock", !.now = month])
    /\ UNCHANGED <<dbVars, month, view, reset, arrived, alerts, booked>>

\* The cheap comparison; the clock is read here and not again.
CheckPeriod(s) ==
    /\ req[s].pc = "period"
    /\ IF month < ComputePeriodEnd(req[s].started)
       THEN Decide(s, req[s].budget, req[s].spend)
       ELSE Moves(s, [req[s] EXCEPT !.pc = "lock", !.now = month])
    /\ UNCHANGED <<dbVars, month, view, reset, arrived, alerts, booked>>

\* Faulty: no second look at the period once the lock is held.
EnsureCurrentPeriod_NoRecheck(s) ==
    /\ req[s].pc = "lock"
    /\ Cross(started, teamSpend, req[s].now)
    /\ Moves(s, [req[s] EXCEPT !.pc = "reread", !.budget = NoBudget,
                               !.spend = 0, !.started = 0])
    /\ UNCHANGED <<month, view, reset, arrived, booked>>

\* The team row is locked and read afresh.  If another request has applied the
\* boundary meanwhile, nothing is done and the caller is told so: it goes on
\* with the counter it read before.
EnsureCurrentPeriod(s) ==
    /\ req[s].pc = "lock"
    /\ \/ /\ req[s].now < ComputePeriodEnd(started)
          /\ Decide(s, req[s].budget, req[s].spend)
          /\ UNCHANGED <<dbVars, alerts>>
       \/ /\ req[s].now >= ComputePeriodEnd(started)
          /\ Cross(started, teamSpend, req[s].now)
          /\ Moves(s, [req[s] EXCEPT !.pc = "reread", !.budget = NoBudget,
                                     !.spend = 0, !.started = 0])
    /\ UNCHANGED <<month, view, reset, arrived, booked>>

\* After a crossing of its own the request reads its counter again.
RereadCounter(s) ==
    LET c == req[s].caller IN
    /\ req[s].pc = "reread"
    /\ IF row[c].removed
       THEN Moves(s, Resting("forbidden"))
       ELSE Decide(s, row[c].budget, row[c].spend)
    /\ UNCHANGED <<dbVars, month, view, reset, arrived, alerts, booked>>

\* The provider answers with usage that costs `cost`.
ProviderAnswers(s) ==
    /\ req[s].pc = "calling"
    /\ \E cost \in 0 .. MaxCost : Moves(s, [req[s] EXCEPT !.pc = "charging", !.cost = cost])
    /\ UNCHANGED <<dbVars, month, view, reset, arrived, alerts, booked>>

\* The provider fails, the client hangs up or no usage came: never charged.
ProviderFails(s) ==
    /\ req[s].pc = "calling"
    /\ Moves(s, Resting("idle"))
    /\ UNCHANGED <<dbVars, month, view, reset, arrived, alerts, booked>>

\* First transaction of the charge: team aggregate and membership together, or
\* the flat user's row.  The membership is charged whether removed or not.
RecordUsageCharge(s) ==
    LET c == req[s].caller
        cost == req[s].cost IN
    /\ req[s].pc = "charging"
    /\ row' = [row EXCEPT ![c].spend = @ + cost]
    /\ IF c \in Members
       THEN /\ teamSpend' = teamSpend + cost
            /\ alerts' = IF Crosses(TeamCeiling, teamSpend, teamSpend + cost)
                         THEN alerts + 1 ELSE alerts
       ELSE UNCHANGED <<teamSpend, alerts>>
    /\ booked' = booked + cost
    /\ Moves(s, [req[s] EXCEPT !.pc = "charged"])
    /\ UNCHANGED <<started, orgSpend, month, view, reset, arrived>>

\* Faulty: only the team path counts against the organisation.
RecordOrgUsageCharge_TeamOnly(s) ==
    /\ req[s].pc = "charged"
    /\ orgSpend' = IF req[s].caller \in Members THEN orgSpend + req[s].cost ELSE orgSpend
    /\ Moves(s, Resting("idle"))
    /\ UNCHANGED <<row, teamSpend, started, month, view, reset, arrived, alerts, booked>>

\* Second transaction: the organisation's total.
RecordOrgUsageCharge(s) ==
    /\ req[s].pc = "charged"
    /\ orgSpend' = orgSpend + req[s].cost
    /\ Moves(s, Resting("idle"))
    /\ UNCHANGED <<row, teamSpend, started, month, view, reset, arrived, alerts, booked>>

\* The process dies, or the request is cancelled; between the two transactions
\* of a charge the organisation's total stays short by this cost.
Abort(s) ==
    /\ req[s].pc \notin RestingPcs
    /\ Moves(s, Resting("idle"))
    /\ booked' = IF req[s].pc = "charged" THEN booked - req[s].cost ELSE booked
    /\ UNCHANGED <<dbVars, month, view, reset, arrived, alerts>>

-----------------------------------------------------------------------------
(* Everybody else.                                                         *)

\* A console GET loads the Team row and keeps the object.
LoadTeam(v) ==
    /\ view[v].pc = "idle"
    /\ view' = [view EXCEPT ![v] = [NotViewing EXCEPT !.pc = "period",
                                        !.started = started, !.spend = teamSpend]]
    /\ UNCHANGED <<dbVars, month, req, reset, arrived, alerts, booked>>

CheckViewedPeriod(v) ==
    /\ view[v].pc = "period"
    /\ view' = [view EXCEPT ![v] =
                  IF month < ComputePeriodEnd(view[v].started)
                  THEN NotViewing ELSE [@ EXCEPT !.pc = "lock", !.now = month]]
    /\ UNCHANGED <<dbVars, month, req, reset, arrived, alerts, booked>>

\* The locked SELECT returns the object the session already holds, unrefreshed:
\* the check under the lock and the new values come from what LoadTeam read.
EnsureViewedPeriod(v) ==
    /\ view[v].pc = "lock"
    /\ Cross(view[v].started, view[v].spend, view[v].now)
    /\ view' = [view EXCEPT ![v] = NotViewing]
    /\ UNCHANGED <<month, req, reset, arrived, booked>>

\* Soft delete and its undo touch the membership row only.
RemoveTeamMember(c) ==
    /\ ~row[c].removed
    /\ row' = [row EXCEPT ![c].removed = TRUE]
    /\ UNCHANGED <<teamSpend, started, orgSpend, month, req, view, reset,
                   arrived, alerts, booked>>

RestoreTeamMember(c) ==
    /\ row[c].removed
    /\ row' = [row EXCEPT ![c].removed = FALSE]
    /\ req' = [s \in Slots |->
                 IF req[s].caller = c THEN [req[s] EXCEPT !.late = FALSE] ELSE req[s]]
    /\ UNCHANGED <<teamSpend, started, orgSpend, month, view, reset,
                   arrived, alerts, booked>>

\* The reset reads the row, then writes zero over whatever is there by then;
\* having read zero it writes nothing.
ReadOrgSpend ==
    /\ reset.pc = "idle"
    /\ reset' = [pc |-> "write", spend |-> orgSpend]
    /\ UNCHANGED <<dbVars, month, req, view, arrived, alerts, booked>>

ResetOrgSpend ==
    /\ reset.pc = "write"
    /\ orgSpend' = IF reset.spend = 0 THEN orgSpend ELSE 0
    /\ booked' = booked - (orgSpend - orgSpend')
    /\ reset' = NotResetting
    /\ UNCHANGED <<row, teamSpend, started, month, req, view, arrived, alerts>>

\* Time passes.
Tick ==
    /\ month < MaxMonth
    /\ month' = month + 1
    /\ UNCHANGED <<dbVars, req, view, reset, arrived, alerts, booked>>

Request(s) ==
    \/ \E c \in Callers : Arrive(s, c)
    \/ CheckResponseCache(s)
    \/ CheckOrgBudget(s)
    \/ ReadCounter(s)
    \/ CheckPeriod(s)
    \/ EnsureCurrentPeriod(s)
    \/ RereadCounter(s)
    \/ ProviderAnswers(s)
    \/ ProviderFails(s)
    \/ RecordUsageCharge(s)
    \/ RecordOrgUsageCharge(s)
    \/ Abort(s)

View(v) == LoadTeam(v) \/ CheckViewedPeriod(v) \/ EnsureViewedPeriod(v)

Next ==
    \/ \E s \in Slots : Request(s)
    \/ \E v \in Viewers : View(v)
    \/ \E c \in Removable : RemoveTeamMember(c) \/ RestoreTeamMember(c)
    \/ ReadOrgSpend
    \/ ResetOrgSpend
    \/ Tick

Spec == Init /\ [][Next]_vars

-----------------------------------------------------------------------------
(* Properties.                                                             *)

\* Every row, request and counter keeps the shape the tables give it.
TypeOK ==
    /\ row \in [Callers -> [budget : Budgets, spend : Nat, removed : BOOLEAN]]
    /\ started \in Nat /\ orgSpend \in Nat /\ month \in Nat
    /\ req \in [Slots -> Requests]
    /\ \A s \in Slots : req[s].pc \notin RestingPcs => req[s].caller \in Callers
    /\ \A v \in Viewers : view[v].started \in Nat /\ view[v].now \in Nat
    /\ reset \in [pc : {"idle", "write"}, spend : Nat]
    /\ arrived \in Nat /\ alerts \in Nat /\ booked \in Int

\* Hard cutoff (check_budget_available): the check can only see earlier
\* charges, so requests already past it may still be charged, but never more
\* than one dearest request per slot past the last unexhausted balance.
MemberOvershootBounded ==
    \A c \in Callers : row[c].budget # NoBudget =>
        row[c].spend <= row[c].budget - 1 + Cardinality(Slots) * MaxCost

\* Requests that may still be charged to c: past the check, or on their way with
\* a balance they read when it was not exhausted.
MayBeCharged(r) ==
    \/ r.pc \in {"calling", "charging"}
    \/ r.pc \in {"period", "lock"} /\ ~IsBudgetExhausted(r.budget, r.spend)
PastCheck(c) == {s \in Slots : req[s].caller = c /\ MayBeCharged(req[s])}

\* The inductive form: one dearest request is set aside for each of those.
MemberReserveKept ==
    \A c \in Callers : row[c].budget # NoBudget =>
        row[c].spend + Cardinality(PastCheck(c)) * MaxCost
            <= row[c].budget - 1 + Cardinality(Slots) * MaxCost

\* The same for the organisation-wide circuit breaker, whatever the path.
OrgOvershootBounded ==
    OrgCeiling # NoBudget => orgSpend <= OrgCeiling - 1 + Cardinality(Slots) * MaxCost

\* Its inductive form: every request past the organisation's check counts.
PastOrgCheck ==
    {s \in Slots : req[s].pc \in {"counter", "period", "lock", "reread",
                                   "calling", "charging", "charged"}}
OrgReserveKept ==
    OrgCeiling # NoBudget =>
        orgSpend + Cardinality(PastOrgCheck) * MaxCost
            <= OrgCeiling - 1 + Cardinality(Slots) * MaxCost

\* ADR-7: the team's aggregate is the sum of what its members spent.
TeamAddsUp == teamSpend = TotalMemberSpend

\* record_org_usage_charge: the organisation's total misses exactly what a crash
\* between the two commits lost and what charges in progress still owe.
Owed(r) == IF r.pc = "charged" THEN r.cost ELSE 0
OrgAddsUp == booked = orgSpend + SumFunctionOnSet([s \in Slots |-> Owed(req[s])], Slots)

\* Both at once: no interleaving of charges, boundaries, resets and crashes makes
\* a total drift from what it adds up.
CountersAddUp == TeamAddsUp /\ OrgAddsUp

\* Over any interleaving the 100% alert is scheduled once per period, and only
\* when the aggregate really is at the ceiling (crossed_thresholds).
AlertOncePerPeriod ==
    TeamCeiling \notin {NoBudget, 0} =>
        alerts = IF teamSpend >= TeamCeiling THEN 1 ELSE 0

\* ensure_current_period: counters are zeroed and budgets credited only by a step
\* that moves the period on, so no boundary is applied twice.
BoundaryAppliedOnce ==
    [][(\E c \in Members : \/ row'[c].spend < row[c].spend
                           \/ row'[c].budget # row[c].budget)
       => started' > started]_vars

\* A member's request is let through only in a team whose period was current
\* when the request looked at the clock: dormant teams catch up in one pass.
AdmittedInCurrentPeriod ==
    [][\A s \in Slots :
         (req'[s].pc = "calling" /\ req[s].pc \in {"period", "lock", "reread"})
         => (IF req[s].pc = "period" THEN month ELSE req[s].now)
                < ComputePeriodEnd(started)]_vars

\* Removal takes effect at once: a request whose member is removed from its
\* arrival on is neither answered from the cache nor sent to a provider.
RemovalCutsAccess ==
    [][\A s \in Slots :
         (req[s].late /\ req[s].pc \notin RestingPcs)
         => req'[s].pc \notin {"answered", "calling"}]_vars

=============================================================================
