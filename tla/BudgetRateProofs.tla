-------------------------- MODULE BudgetRateProofs --------------------------
(***************************************************************************)
(* What limits a caller: the spend cutoff of BudgetLedger, for every       *)
(* number of slots, members, budgets, costs and months, and the bursts of  *)
(* RateLimit, for every window, rule and number of calls.                  *)
(*                                                                         *)
(* MemberOvershootBounded is not inductive: a counter just below its       *)
(* budget may be charged by every request that has already passed the      *)
(* check.  The strengthening counts those requests and sets one dearest    *)
(* request aside for each.  BurstBounded is not either: what is inductive  *)
(* is how much of a stretch the meter's counter accounts for.              *)
(***************************************************************************)
EXTENDS BudgetLedger, RateLimit, Sums

USE DEF Budgets, Callers

-----------------------------------------------------------------------------
(* Arithmetic.                                                             *)

\* A product grows with its factor (the reserve of one MaxCost per slot).
LEMMA ReserveMonotone ==
    ASSUME NEW k \in Nat, NEW n \in Nat, k <= n
    PROVE  k * MaxCost <= n * MaxCost /\ k * MaxCost \in Nat
<1>1. MaxCost \in Nat
    BY MoneyAssumption
<1> QED
    BY <1>1

\* One request less frees one MaxCost.
LEMMA ReserveStep ==
    ASSUME NEW k \in Nat, k >= 1
    PROVE  (k - 1) * MaxCost = k * MaxCost - MaxCost
<1>1. MaxCost \in Nat
    BY MoneyAssumption
<1> QED
    BY <1>1

\* compute_period_end and advance_period_start stay month numbers.
LEMMA AdvanceType ==
    ASSUME NEW m \in Nat, NEW now \in Nat
    PROVE  AdvancePeriodStart(m, now) \in Nat
<1>1. PeriodMonths \in {1, 3}
    BY ClockAssumption
<1>2. CASE PeriodMonths = 1
    BY <1>2 DEF AdvancePeriodStart
<1>3. CASE PeriodMonths = 3
    BY <1>3 DEF AdvancePeriodStart
<1> QED
    BY <1>1, <1>2, <1>3

\* apply_period_end never lowers a budget and keeps an unmetered one unmetered.
LEMMA ApplyPeriodEndGrows ==
    ASSUME NEW b \in Budgets, NEW x \in Nat
    PROVE  /\ ApplyPeriodEnd(b, x) \in Budgets
           /\ (ApplyPeriodEnd(b, x) = NoBudget) <=> (b = NoBudget)
           /\ b # NoBudget => ApplyPeriodEnd(b, x) >= b
BY MoneyAssumption DEF ApplyPeriodEnd

-----------------------------------------------------------------------------
(* Types.                                                                  *)

\* What TypeOK asks of one request.
WellFormed(r) == r \in Requests /\ (r.pc \notin RestingPcs => r.caller \in Callers)

LEMMA RestingWellFormed ==
    ASSUME NEW pc \in RestingPcs
    PROVE  /\ WellFormed(Resting(pc))
           /\ \A late \in BOOLEAN : WellFormed([Resting(pc) EXCEPT !.late = late])
BY MoneyAssumption DEF Resting, WellFormed, Requests, Pcs, RestingPcs

\* A request with a caller goes on well-formed, whatever it has read.
LEMMA GoesOnWellFormed ==
    ASSUME NEW r \in Requests, r.caller \in Callers, NEW pc \in Pcs
    PROVE  /\ WellFormed([r EXCEPT !.pc = pc])
           /\ \A n \in Nat : WellFormed([r EXCEPT !.pc = pc, !.now = n])
           /\ \A n \in 0 .. MaxCost : WellFormed([r EXCEPT !.pc = pc, !.cost = n])
           /\ \A b \in Budgets, x, y \in Nat :
                WellFormed([r EXCEPT !.pc = pc, !.budget = b, !.spend = x, !.started = y])
           /\ \A b \in Budgets, x, y, n \in Nat :
                WellFormed([r EXCEPT !.pc = pc, !.budget = b, !.spend = x, !.started = y, !.now = n])
<1>1. WellFormed([r EXCEPT !.pc = pc])
    BY DEF WellFormed, Requests
<1>2. \A n \in Nat : WellFormed([r EXCEPT !.pc = pc, !.now = n])
    BY DEF WellFormed, Requests
<1>3. \A n \in 0 .. MaxCost : WellFormed([r EXCEPT !.pc = pc, !.cost = n])
    BY DEF WellFormed, Requests
<1>4. \A b \in Budgets, x, y \in Nat :
        WellFormed([r EXCEPT !.pc = pc, !.budget = b, !.spend = x, !.started = y])
    BY DEF WellFormed, Requests
<1>5. ASSUME NEW b \in Budgets, NEW x \in Nat, NEW y \in Nat, NEW n \in Nat
      PROVE  WellFormed([r EXCEPT !.pc = pc, !.budget = b, !.spend = x, !.started = y, !.now = n])
    <2>1. PICK v : /\ v = [r EXCEPT !.pc = pc, !.budget = b, !.spend = x, !.started = y]
                   /\ WellFormed(v)
        BY <1>4
    <2>2. v \in Requests /\ (v.pc \notin RestingPcs => v.caller \in Callers)
        BY <2>1 DEF WellFormed
    <2>3. PICK w : w = [v EXCEPT !.now = n]
        OBVIOUS
    <2>4. w \in Requests /\ w.pc = v.pc /\ w.caller = v.caller
        BY <2>2, <2>3 DEF Requests
    <2>5. w = [r EXCEPT !.pc = pc, !.budget = b, !.spend = x, !.started = y, !.now = n]
        BY <2>1, <2>3 DEF Requests
    <2> QED
        BY <2>2, <2>4, <2>5 DEF WellFormed
<1> QED BY <1>1, <1>2, <1>3, <1>4, <1>5

LEMMA CallerOfRequest ==
    ASSUME TypeOK, NEW s \in Slots, req[s].pc \notin RestingPcs
    PROVE  req[s] \in Requests /\ req[s].caller \in Callers
BY DEF TypeOK

\* The verdict leaves a well-formed request behind.
LEMMA DecideWellFormed ==
    ASSUME TypeOK, NEW s \in Slots, req[s].pc \notin RestingPcs,
           NEW b, NEW x, Decide(s, b, x)
    PROVE  \E r : WellFormed(r) /\ Moves(s, r)
<1>1. WellFormed(Resting("blocked"))
    BY RestingWellFormed DEF RestingPcs
<1>2. WellFormed([req[s] EXCEPT !.pc = "calling", !.budget = NoBudget,
                                !.spend = 0, !.started = 0, !.now = 0])
    BY CallerOfRequest, GoesOnWellFormed, MoneyAssumption DEF Pcs
<1> QED
    BY <1>1, <1>2 DEF Decide

\* A step that only moves one request on keeps the types.
LEMMA MovesType ==
    ASSUME TypeOK, NEW s \in Slots, \E r : WellFormed(r) /\ Moves(s, r),
           row' \in [Callers -> [budget : Budgets, spend : Nat, removed : BOOLEAN]],
           started' \in Nat, orgSpend' \in Nat, arrived' \in Nat, alerts' \in Nat,
           booked' \in Int, UNCHANGED <<month, view, reset>>
    PROVE  TypeOK'
BY DEF Moves, TypeOK, WellFormed

\* The boundary transaction keeps the types of what it writes.
LEMMA CrossType ==
    ASSUME TypeOK, NEW m \in Nat, NEW now \in Nat, NEW x, Cross(m, x, now)
    PROVE  /\ row' \in [Callers -> [budget : Budgets, spend : Nat, removed : BOOLEAN]]
           /\ started' \in Nat /\ orgSpend' \in Nat /\ alerts' \in Nat
<1>1. \A c \in Callers : ApplyPeriodEnd(row[c].budget, row[c].spend) \in Budgets
    BY ApplyPeriodEndGrows DEF TypeOK
<1>2. started' \in Nat
    BY AdvanceType DEF Cross
<1> QED
    BY <1>1, <1>2 DEF Cross, TypeOK

\* Every step keeps the types.
LEMMA TypeInductive == TypeOK /\ [Next]_vars => TypeOK'
<1> SUFFICES ASSUME TypeOK, [Next]_vars PROVE TypeOK'
    OBVIOUS
<1>a. MaxCost \in Nat /\ NoBudget \in Budgets
    BY MoneyAssumption
<1>b. \A s \in Slots : WellFormed(req[s])
    BY DEF TypeOK, WellFormed
<1>1. ASSUME NEW s \in Slots, NEW c \in Callers, Arrive(s, c) PROVE TypeOK'
    <2> DEFINE r(late) == [Resting("lookup") EXCEPT !.caller = c, !.late = late]
    <2>1. row[c].removed \in BOOLEAN
        BY DEF TypeOK
    <2>2. Moves(s, r(row[c].removed))
        BY <1>1 DEF Arrive
    <2>3. ASSUME NEW late \in BOOLEAN PROVE WellFormed(r(late))
        <3>1. Resting("lookup") \in Requests /\ c \in Callers
            BY <1>a, MoneyAssumption DEF Resting, Requests, Pcs
        <3>2. r(late) \in Requests /\ r(late).caller = c
            BY <3>1 DEF Requests
        <3> QED
            BY <3>1, <3>2 DEF WellFormed
    <2>4. \E q : WellFormed(q) /\ Moves(s, q)
        BY <2>1, <2>2, <2>3
    <2>5. /\ UNCHANGED <<dbVars, month, view, reset, alerts, booked>>
          /\ arrived' = arrived + 1
        BY <1>1 DEF Arrive
    <2> QED
        BY <2>4, <2>5, MovesType DEF dbVars, TypeOK
<1>2. ASSUME NEW s \in Slots, CheckResponseCache(s) PROVE TypeOK'
    <2>1. WellFormed([Resting("answered") EXCEPT !.late = req[s].late])
        BY RestingWellFormed DEF RestingPcs, TypeOK, Requests
    <2>2. WellFormed([req[s] EXCEPT !.pc = "org"])
        BY <1>2, CallerOfRequest, GoesOnWellFormed DEF CheckResponseCache, Pcs, RestingPcs
    <2> QED
        BY <1>2, <2>1, <2>2, MovesType DEF CheckResponseCache, dbVars, TypeOK
<1>3. ASSUME NEW s \in Slots, CheckOrgBudget(s) PROVE TypeOK'
    <2>1. WellFormed(Resting("blocked"))
        BY RestingWellFormed DEF RestingPcs
    <2>2. WellFormed([req[s] EXCEPT !.pc = "counter"])
        BY <1>3, CallerOfRequest, GoesOnWellFormed DEF CheckOrgBudget, Pcs, RestingPcs
    <2> QED
        BY <1>3, <2>1, <2>2, MovesType DEF CheckOrgBudget, dbVars, TypeOK
<1>4. ASSUME NEW s \in Slots, ReadCounter(s) PROVE TypeOK'
    <2>1. req[s].pc \notin RestingPcs
        BY <1>4 DEF ReadCounter, RestingPcs
    <2>2. WellFormed(Resting("forbidden"))
        BY RestingWellFormed DEF RestingPcs
    <2>3. req[s].caller \in Callers =>
            WellFormed([req[s] EXCEPT !.pc = "period", !.budget = row[req[s].caller].budget,
                          !.spend = row[req[s].caller].spend, !.started = started])
        <3>1. req[s] \in Requests /\ req[s].caller \in Callers /\ "period" \in Pcs
            BY <2>1, CallerOfRequest DEF Pcs
        <3>2. /\ row[req[s].caller].budget \in Budgets /\ row[req[s].caller].spend \in Nat
              /\ started \in Nat
            BY <3>1 DEF TypeOK
        <3> QED
            BY <3>1, <3>2, GoesOnWellFormed
    <2>4. \E r : WellFormed(r) /\ Moves(s, r)
        BY <1>4, <2>1, <2>2, <2>3, DecideWellFormed DEF ReadCounter
    <2> QED
        BY <1>4, <2>4, MovesType DEF ReadCounter, dbVars, TypeOK
<1>5. ASSUME NEW s \in Slots, CheckPeriod(s) PROVE TypeOK'
    <2>1. req[s].pc \notin RestingPcs
        BY <1>5 DEF CheckPeriod, RestingPcs
    <2>2. WellFormed([req[s] EXCEPT !.pc = "lock", !.now = month])
        BY <2>1, CallerOfRequest, GoesOnWellFormed DEF TypeOK, Pcs
    <2>3. \E r : WellFormed(r) /\ Moves(s, r)
        BY <1>5, <2>1, <2>2, DecideWellFormed DEF CheckPeriod
    <2> QED
        BY <1>5, <2>3, MovesType DEF CheckPeriod, dbVars, TypeOK
<1>6. ASSUME NEW s \in Slots, EnsureCurrentPeriod(s) PROVE TypeOK'
    <2>1. req[s].pc \notin RestingPcs /\ req[s].now \in Nat /\ started \in Nat
        BY <1>6 DEF EnsureCurrentPeriod, RestingPcs, TypeOK, Requests
    <2>2. WellFormed([req[s] EXCEPT !.pc = "reread", !.budget = NoBudget,
                                    !.spend = 0, !.started = 0])
        BY <1>a, <2>1, CallerOfRequest, GoesOnWellFormed DEF Pcs
    <2>3. \E r : WellFormed(r) /\ Moves(s, r)
        BY <1>6, <2>1, <2>2, DecideWellFormed DEF EnsureCurrentPeriod
    <2>4. CASE UNCHANGED <<dbVars, alerts>>
        BY <1>6, <2>3, <2>4, MovesType DEF EnsureCurrentPeriod, dbVars, TypeOK
    <2>5. CASE Cross(started, teamSpend, req[s].now)
        BY <1>6, <2>1, <2>3, <2>5, CrossType, MovesType DEF EnsureCurrentPeriod, TypeOK
    <2> QED
        BY <1>6, <2>4, <2>5 DEF EnsureCurrentPeriod
<1>7. ASSUME NEW s \in Slots, RereadCounter(s) PROVE TypeOK'
    <2>1. req[s].pc \notin RestingPcs
        BY <1>7 DEF RereadCounter, RestingPcs
    <2>2. WellFormed(Resting("forbidden"))
        BY RestingWellFormed DEF RestingPcs
    <2>3. \E r : WellFormed(r) /\ Moves(s, r)
        BY <1>7, <2>1, <2>2, DecideWellFormed DEF RereadCounter
    <2> QED
        BY <1>7, <2>3, MovesType DEF RereadCounter, dbVars, TypeOK
<1>8. ASSUME NEW s \in Slots, ProviderAnswers(s) PROVE TypeOK'
    <2>1. \A cost \in 0 .. MaxCost : WellFormed([req[s] EXCEPT !.pc = "charging", !.cost = cost])
        BY <1>8, <1>a, CallerOfRequest, GoesOnWellFormed DEF ProviderAnswers, Pcs, RestingPcs
    <2> QED
        BY <1>8, <2>1, MovesType DEF ProviderAnswers, dbVars, TypeOK
<1>9. ASSUME NEW s \in Slots, ProviderFails(s) PROVE TypeOK'
    <2>1. WellFormed(Resting("idle"))
        BY RestingWellFormed DEF RestingPcs
    <2> QED
        BY <1>9, <2>1, MovesType DEF ProviderFails, dbVars, TypeOK
<1>10. ASSUME NEW s \in Slots, RecordUsageCharge(s) PROVE TypeOK'
    <2>1. req[s].caller \in Callers /\ req[s].cost \in Nat
        BY <1>10, <1>a DEF RecordUsageCharge, RestingPcs, TypeOK, Requests
    <2>2. WellFormed([req[s] EXCEPT !.pc = "charged"])
        BY <2>1 DEF TypeOK, WellFormed, Requests, Pcs
    <2>3. /\ row' \in [Callers -> [budget : Budgets, spend : Nat, removed : BOOLEAN]]
          /\ booked' \in Int /\ alerts' \in Nat
        BY <1>10, <2>1 DEF RecordUsageCharge, TypeOK
    <2> QED
        BY <1>10, <2>2, <2>3, MovesType DEF RecordUsageCharge, TypeOK
<1>11. ASSUME NEW s \in Slots, RecordOrgUsageCharge(s) PROVE TypeOK'
    <2>1. WellFormed(Resting("idle"))
        BY RestingWellFormed DEF RestingPcs
    <2>2. req[s].cost \in Nat
        BY <1>a DEF TypeOK, Requests
    <2> QED
        BY <1>11, <2>1, <2>2, MovesType DEF RecordOrgUsageCharge, TypeOK
<1>12. ASSUME NEW s \in Slots, Abort(s) PROVE TypeOK'
    <2>1. WellFormed(Resting("idle"))
        BY RestingWellFormed DEF RestingPcs
    <2>2. booked' \in Int
        BY <1>12, <1>a DEF Abort, TypeOK, Requests
    <2> QED
        BY <1>12, <2>1, <2>2, MovesType DEF Abort, dbVars, TypeOK
<1>13. ASSUME NEW v \in Viewers, View(v) PROVE TypeOK'
    <2>1. CASE LoadTeam(v)
        BY <2>1 DEF LoadTeam, NotViewing, dbVars, TypeOK
    <2>2. CASE CheckViewedPeriod(v)
        BY <2>2 DEF CheckViewedPeriod, NotViewing, dbVars, TypeOK
    <2>3. CASE EnsureViewedPeriod(v)
        <3>1. view[v].started \in Nat /\ view[v].now \in Nat
            BY DEF TypeOK
        <3>2. /\ row' \in [Callers -> [budget : Budgets, spend : Nat, removed : BOOLEAN]]
              /\ started' \in Nat /\ orgSpend' \in Nat /\ alerts' \in Nat
            BY <2>3, <3>1, CrossType DEF EnsureViewedPeriod
        <3> QED
            BY <2>3, <3>2 DEF EnsureViewedPeriod, NotViewing, TypeOK
    <2> QED
        BY <1>13, <2>1, <2>2, <2>3 DEF View
<1>14. ASSUME NEW c \in Removable, RemoveTeamMember(c) PROVE TypeOK'
    BY <1>14 DEF RemoveTeamMember, TypeOK
<1>15. ASSUME NEW c \in Removable, RestoreTeamMember(c) PROVE TypeOK'
    <2>1. row' \in [Callers -> [budget : Budgets, spend : Nat, removed : BOOLEAN]]
        BY <1>15 DEF RestoreTeamMember, TypeOK
    <2>2. ASSUME NEW s \in Slots
          PROVE  /\ req'[s] \in Requests
                 /\ req'[s].pc = req[s].pc /\ req'[s].caller = req[s].caller
        <3>1. req[s] \in Requests /\ [req[s] EXCEPT !.late = FALSE] \in Requests
            BY DEF TypeOK, Requests
        <3>2. req'[s] = req[s] \/ req'[s] = [req[s] EXCEPT !.late = FALSE]
            BY <1>15 DEF RestoreTeamMember
        <3> QED
            BY <3>1, <3>2 DEF Requests
    <2>3. req' \in [Slots -> Requests]
        BY <1>15, <2>2 DEF RestoreTeamMember
    <2> QED
        BY <1>15, <2>1, <2>2, <2>3 DEF RestoreTeamMember, TypeOK
<1>16. CASE ReadOrgSpend
    BY <1>16 DEF ReadOrgSpend, dbVars, TypeOK
<1>17. CASE ResetOrgSpend
    <2>1. orgSpend' \in Nat /\ booked' \in Int
        BY <1>17 DEF ResetOrgSpend, TypeOK
    <2> QED
        BY <1>17, <2>1 DEF ResetOrgSpend, NotResetting, TypeOK
<1>18. CASE Tick
    BY <1>18 DEF Tick, dbVars, TypeOK
<1>19. CASE UNCHANGED vars
    BY <1>19 DEF vars, TypeOK
<1> QED
    BY <1>1, <1>2, <1>3, <1>4, <1>5, <1>6, <1>7, <1>8, <1>9, <1>10, <1>11,
       <1>12, <1>13, <1>14, <1>15, <1>16, <1>17, <1>18, <1>19 DEF Next, Request

\* The tables, requests and counters keep their shape in every behaviour.
THEOREM TypeCorrect == Spec => []TypeOK
<1>1. Init => TypeOK
    BY MoneyAssumption, ClockAssumption
    DEF Init, TypeOK, Requests, Resting, NotViewing, NotResetting, Pcs, RestingPcs
<1> QED
    BY <1>1, TypeInductive, PTL DEF Spec

-----------------------------------------------------------------------------
(* The reserve of every counter.                                           *)

\* The requests that count are some of the slots.
LEMMA PastCheckSize ==
    ASSUME NEW c
    PROVE  /\ IsFiniteSet(PastCheck(c))
           /\ Cardinality(PastCheck(c)) \in Nat
           /\ Cardinality(Slots) \in Nat
           /\ Cardinality(PastCheck(c)) <= Cardinality(Slots)
BY SlotsAssumption, FS_Subset, FS_CardinalityType DEF PastCheck

\* A step that moves one slot on changes at most that slot's membership.
LEMMA MovesPast ==
    ASSUME TypeOK, NEW s \in Slots, NEW r, Moves(s, r), NEW c
    PROVE  /\ PastCheck(c)' \subseteq PastCheck(c) \cup {s}
           /\ s \in PastCheck(c)' <=> (r.caller = c /\ MayBeCharged(r))
BY DEF Moves, PastCheck, TypeOK

\* No counter is charged and no budget lowered.
RowsEase ==
    \A c \in Callers : row'[c].budget # NoBudget =>
        /\ row[c].budget # NoBudget
        /\ row[c].budget <= row'[c].budget
        /\ row'[c].spend <= row[c].spend

\* If fewer requests count and the rows ease, the reserve is still there.
LEMMA ReserveShrinks ==
    ASSUME TypeOK, TypeOK', MemberReserveKept, RowsEase,
           \A c \in Callers : PastCheck(c)' \subseteq PastCheck(c)
    PROVE  MemberReserveKept'
<1> SUFFICES ASSUME NEW c \in Callers, row'[c].budget # NoBudget
             PROVE  row'[c].spend + Cardinality(PastCheck(c)') * MaxCost
                      <= row'[c].budget - 1 + Cardinality(Slots) * MaxCost
    BY DEF MemberReserveKept
<1> DEFINE k == Cardinality(PastCheck(c))
           j == Cardinality(PastCheck(c)')
           n == Cardinality(Slots)
<1>1. k \in Nat /\ n \in Nat /\ j \in Nat /\ j <= k
    <2>1. PastCheck(c)' \subseteq PastCheck(c)
        OBVIOUS
    <2>2. IsFiniteSet(PastCheck(c)) /\ k \in Nat /\ n \in Nat
        BY PastCheckSize
    <2> QED
        BY <2>1, <2>2, FS_Subset, FS_CardinalityType
<1>2. j * MaxCost <= k * MaxCost /\ j * MaxCost \in Nat /\ k * MaxCost \in Nat
      /\ n * MaxCost \in Nat
    BY <1>1, ReserveMonotone
<1>3. /\ row[c].budget \in Nat /\ row'[c].budget \in Nat
      /\ row[c].spend \in Nat /\ row'[c].spend \in Nat
      /\ row[c].budget <= row'[c].budget /\ row'[c].spend <= row[c].spend
    BY DEF RowsEase, TypeOK
<1>4. row[c].spend + k * MaxCost <= row[c].budget - 1 + n * MaxCost
    BY DEF MemberReserveKept, RowsEase
<1> HIDE DEF k, j, n
<1>5. row'[c].spend + j * MaxCost <= row'[c].budget - 1 + n * MaxCost
    BY <1>2, <1>3, <1>4
<1> QED
    BY <1>5 DEF j, n

\* A slot that moves on without beginning to count.
LEMMA QuietMove ==
    ASSUME TypeOK, TypeOK', MemberReserveKept, RowsEase,
           NEW s \in Slots, NEW r, Moves(s, r),
           MayBeCharged(r) => MayBeCharged(req[s]) /\ r.caller = req[s].caller
    PROVE  MemberReserveKept'
<1>1. ASSUME NEW c \in Callers PROVE PastCheck(c)' \subseteq PastCheck(c)
    <2>1. s \in PastCheck(c)' => s \in PastCheck(c)
        BY MovesPast DEF PastCheck
    <2> QED
        BY <2>1, MovesPast
<1> QED
    BY <1>1, ReserveShrinks

\* A slot whose request reads an unexhausted counter: with at least one unit left
\* all slots together fit into the bound.
LEMMA FreshMove ==
    ASSUME TypeOK, TypeOK', MemberReserveKept, UNCHANGED row,
           NEW s \in Slots, NEW r, Moves(s, r), r.caller \in Callers,
           ~IsBudgetExhausted(row[r.caller].budget, row[r.caller].spend)
    PROVE  MemberReserveKept'
<1> SUFFICES ASSUME NEW c \in Callers, row[c].budget # NoBudget
             PROVE  row[c].spend + Cardinality(PastCheck(c)') * MaxCost
                      <= row[c].budget - 1 + Cardinality(Slots) * MaxCost
    BY DEF MemberReserveKept
<1> DEFINE k == Cardinality(PastCheck(c))
           j == Cardinality(PastCheck(c)')
           n == Cardinality(Slots)
<1>1. k \in Nat /\ n \in Nat /\ j \in Nat /\ j <= n
    <2>1. PastCheck(c)' \subseteq Slots
        BY DEF PastCheck
    <2> QED
        BY <2>1, PastCheckSize, SlotsAssumption, FS_Subset, FS_CardinalityType
<1>2. j * MaxCost <= n * MaxCost /\ j * MaxCost \in Nat /\ n * MaxCost \in Nat
      /\ k * MaxCost \in Nat
    BY <1>1, ReserveMonotone
<1>3. row[c].budget \in Nat /\ row[c].spend \in Nat
    BY DEF TypeOK
<1>4. row[c].spend + k * MaxCost <= row[c].budget - 1 + n * MaxCost
    BY DEF MemberReserveKept
<1>5. CASE c = r.caller
    <2>1. row[c].spend <= row[c].budget - 1
        BY <1>3, <1>5 DEF IsBudgetExhausted
    <2> HIDE DEF j, n
    <2>2. row[c].spend + j * MaxCost <= row[c].budget - 1 + n * MaxCost
        BY <1>2, <1>3, <2>1
    <2> QED
        BY <2>2 DEF j, n
<1>6. CASE c # r.caller
    <2>1. PastCheck(c)' \subseteq PastCheck(c)
        BY <1>6, MovesPast
    <2>2. j <= k
        BY <2>1, PastCheckSize, FS_Subset
    <2>3. j * MaxCost <= k * MaxCost
        BY <1>1, <2>2, ReserveMonotone
    <2> HIDE DEF j, n, k
    <2>4. row[c].spend + j * MaxCost <= row[c].budget - 1 + n * MaxCost
        BY <1>2, <1>3, <1>4, <2>3
    <2> QED
        BY <2>4 DEF j, n
<1> QED
    BY <1>5, <1>6

\* The charge takes its slot out of the count and spends at most the reserve
\* that frees.
LEMMA ChargeStep ==
    ASSUME TypeOK, TypeOK', MemberReserveKept, NEW s \in Slots, RecordUsageCharge(s)
    PROVE  MemberReserveKept'
<1> DEFINE d == req[s].caller
           cost == req[s].cost
<1>a. /\ d \in Callers /\ cost \in Nat /\ cost <= MaxCost /\ MaxCost \in Nat
    BY MoneyAssumption DEF RecordUsageCharge, RestingPcs, TypeOK, Requests
<1>b. /\ \A c \in Callers : /\ row'[c].budget = row[c].budget
                            /\ row'[c].spend = row[c].spend + (IF c = d THEN cost ELSE 0)
    BY <1>a DEF RecordUsageCharge, TypeOK
<1>c. Moves(s, [req[s] EXCEPT !.pc = "charged"])
    BY DEF RecordUsageCharge
<1>d. /\ ~MayBeCharged([req[s] EXCEPT !.pc = "charged"])
      /\ MayBeCharged(req[s])
    BY DEF MayBeCharged, RecordUsageCharge, TypeOK, Requests
<1> SUFFICES ASSUME NEW c \in Callers, row'[c].budget # NoBudget
             PROVE  row'[c].spend + Cardinality(PastCheck(c)') * MaxCost
                      <= row'[c].budget - 1 + Cardinality(Slots) * MaxCost
    BY DEF MemberReserveKept
<1> DEFINE k == Cardinality(PastCheck(c))
           j == Cardinality(PastCheck(c)')
           n == Cardinality(Slots)
<1>1. PastCheck(c)' \subseteq PastCheck(c) \ {s}
    BY <1>c, <1>d, MovesPast
<1>2. IsFiniteSet(PastCheck(c)) /\ k \in Nat /\ n \in Nat
    BY PastCheckSize
<1>3. row[c].budget \in Nat /\ row[c].spend \in Nat /\ row[c].budget # NoBudget
    BY <1>b DEF TypeOK
<1>4. row[c].spend + k * MaxCost <= row[c].budget - 1 + n * MaxCost
    BY <1>3 DEF MemberReserveKept
<1>5. CASE c # d
    <2>1. j \in Nat /\ j <= k
        <3>1. PastCheck(c)' \subseteq PastCheck(c)
            BY <1>1
        <3> QED
            BY <3>1, <1>2, FS_Subset, FS_CardinalityType
    <2>2. /\ j * MaxCost <= k * MaxCost /\ j * MaxCost \in Nat
          /\ k * MaxCost \in Nat /\ n * MaxCost \in Nat
        BY <1>2, <2>1, ReserveMonotone
    <2>3. row'[c].spend = row[c].spend /\ row'[c].budget = row[c].budget
        BY <1>3, <1>5, <1>b
    <2> HIDE DEF k, j, n
    <2>4. row'[c].spend + j * MaxCost <= row'[c].budget - 1 + n * MaxCost
        BY <1>3, <1>4, <2>2, <2>3
    <2> QED
        BY <2>4 DEF j, n
<1>6. CASE c = d
    <2>1. s \in PastCheck(c)
        BY <1>6, <1>d DEF PastCheck
    <2>2. /\ IsFiniteSet(PastCheck(c) \ {s})
          /\ Cardinality(PastCheck(c) \ {s}) = k - 1
          /\ Cardinality(PastCheck(c) \ {s}) \in Nat
        BY <1>2, <2>1, FS_RemoveElement, FS_CardinalityType
    <2>3. j \in Nat /\ j <= k - 1 /\ k >= 1 /\ k - 1 \in Nat
        BY <1>1, <1>2, <2>2, FS_Subset, FS_CardinalityType
    <2> DEFINE i == k - 1
    <2>4. /\ j * MaxCost <= i * MaxCost /\ j * MaxCost \in Nat
          /\ i * MaxCost \in Nat /\ k * MaxCost \in Nat /\ n * MaxCost \in Nat
        BY <1>2, <2>3, ReserveMonotone
    <2>5. i * MaxCost = k * MaxCost - MaxCost
        BY <1>2, <2>3, ReserveStep
    <2>6. row'[c].spend = row[c].spend + cost /\ row'[c].budget = row[c].budget
        BY <1>6, <1>b
    <2> HIDE DEF i, k, j, n, cost
    <2>7. row'[c].spend + j * MaxCost <= row'[c].budget - 1 + n * MaxCost
        BY <1>a, <1>3, <1>4, <2>4, <2>5, <2>6
    <2> QED
        BY <2>7 DEF j, n
<1> QED
    BY <1>5, <1>6

\* The boundary never lowers a budget and only zeroes spend.
LEMMA CrossEases ==
    ASSUME TypeOK, NEW m, NEW now, NEW x, Cross(m, x, now)
    PROVE  RowsEase
<1> SUFFICES ASSUME NEW c \in Callers, row'[c].budget # NoBudget
             PROVE  /\ row[c].budget # NoBudget
                    /\ row[c].budget <= row'[c].budget
                    /\ row'[c].spend <= row[c].spend
    BY DEF RowsEase
<1>1. row[c].budget \in Budgets /\ row[c].spend \in Nat
    BY DEF TypeOK
<1>2. \/ row'[c] = row[c]
      \/ row'[c] = [row[c] EXCEPT !.budget = ApplyPeriodEnd(@, row[c].spend), !.spend = 0]
    BY DEF Cross
<1>3. CASE row'[c] = row[c]
    BY <1>1, <1>3, MoneyAssumption
<1>4. CASE row'[c] = [row[c] EXCEPT !.budget = ApplyPeriodEnd(@, row[c].spend), !.spend = 0]
    <2>1. row'[c].budget = ApplyPeriodEnd(row[c].budget, row[c].spend) /\ row'[c].spend = 0
        BY <1>4 DEF TypeOK
    <2> DEFINE b == row[c].budget
               e == ApplyPeriodEnd(b, row[c].spend)
    <2>2. (e = NoBudget <=> b = NoBudget) /\ (b # NoBudget => e >= b) /\ e \in Budgets
        BY <1>1, ApplyPeriodEndGrows
    <2>3. b # NoBudget /\ b \in Nat /\ e \in Nat
        BY <1>1, <2>1, <2>2
    <2>4. e >= b
        BY <2>2, <2>3
    <2> QED
        BY <1>1, <2>1, <2>3, <2>4
<1> QED
    BY <1>2, <1>3, <1>4

\* Rows that are left alone ease trivially.
LEMMA SameRowsEase == ASSUME TypeOK, UNCHANGED row PROVE RowsEase
BY MoneyAssumption DEF RowsEase, TypeOK

-----------------------------------------------------------------------------
(* Every step keeps the reserve.                                           *)

\* The verdict lets a request through only on a counter that is not exhausted:
\* one just read, or one read when it counted already.
LEMMA DecideKeepsReserve ==
    ASSUME TypeOK, TypeOK', MemberReserveKept, UNCHANGED row,
           NEW s \in Slots, req[s].pc \notin RestingPcs,
           NEW b, NEW x, Decide(s, b, x),
           \/ b = row[req[s].caller].budget /\ x = row[req[s].caller].spend
           \/ ~IsBudgetExhausted(b, x) => MayBeCharged(req[s])
    PROVE  MemberReserveKept'
<1> DEFINE r == [req[s] EXCEPT !.pc = "calling", !.budget = NoBudget,
                               !.spend = 0, !.started = 0, !.now = 0]
<1>1. RowsEase
    BY SameRowsEase
<1>2. req[s].caller \in Callers /\ req[s] \in Requests
    BY DEF TypeOK
<1>3. r.caller = req[s].caller
    BY <1>2 DEF Requests
<1>4. ~MayBeCharged(Resting("blocked"))
    BY DEF MayBeCharged, Resting
<1>5. CASE IsBudgetExhausted(b, x)
    <2>1. Moves(s, Resting("blocked"))
        BY <1>5 DEF Decide
    <2> QED
        BY <1>1, <1>4, <2>1, QuietMove
<1>6. CASE ~IsBudgetExhausted(b, x)
    <2>1. Moves(s, r)
        BY <1>6 DEF Decide
    <2> HIDE DEF r
    <2>2. CASE MayBeCharged(req[s])
        BY <1>1, <1>3, <2>1, <2>2, QuietMove
    <2>3. CASE b = row[req[s].caller].budget /\ x = row[req[s].caller].spend
        BY <1>2, <1>3, <1>6, <2>1, <2>3, FreshMove
    <2> QED
        BY <1>6, <2>2, <2>3
<1> QED
    BY <1>5, <1>6

\* Steps that leave the requests alone, or change only whether they are late.
LEMMA OthersKeepReserve ==
    ASSUME TypeOK, TypeOK', MemberReserveKept, RowsEase,
           \A s \in Slots : /\ req'[s].caller = req[s].caller /\ req'[s].pc = req[s].pc
                            /\ req'[s].budget = req[s].budget /\ req'[s].spend = req[s].spend
    PROVE  MemberReserveKept'
<1>1. \A c \in Callers : PastCheck(c)' \subseteq PastCheck(c)
    BY DEF PastCheck, MayBeCharged
<1> QED
    BY <1>1, ReserveShrinks

\* One step per action: MemberReserveKept is inductive relative to TypeOK.
LEMMA ReserveInductive == TypeOK /\ TypeOK' /\ MemberReserveKept /\ [Next]_vars
                            => MemberReserveKept'
<1> SUFFICES ASSUME TypeOK, TypeOK', MemberReserveKept, [Next]_vars
             PROVE  MemberReserveKept'
    OBVIOUS
<1>a. UNCHANGED row => RowsEase
    BY SameRowsEase
<1>b. \A pc \in RestingPcs : ~MayBeCharged(Resting(pc))
    BY DEF MayBeCharged, Resting, RestingPcs
<1>1. ASSUME NEW s \in Slots, NEW c \in Callers, Arrive(s, c) PROVE MemberReserveKept'
    <2>1. ~MayBeCharged([Resting("lookup") EXCEPT !.caller = c, !.late = row[c].removed])
        BY DEF MayBeCharged, Resting
    <2>2. /\ Moves(s, [Resting("lookup") EXCEPT !.caller = c, !.late = row[c].removed])
          /\ UNCHANGED row
        BY <1>1 DEF Arrive, dbVars
    <2> QED
        BY <1>a, <2>1, <2>2, QuietMove
<1>2. ASSUME NEW s \in Slots, CheckResponseCache(s) PROVE MemberReserveKept'
    <2>1. /\ ~MayBeCharged([Resting("answered") EXCEPT !.late = req[s].late])
          /\ ~MayBeCharged([req[s] EXCEPT !.pc = "org"])
        BY DEF MayBeCharged, Resting, TypeOK, Requests
    <2>2. UNCHANGED row
        BY <1>2 DEF CheckResponseCache, dbVars
    <2>3. CASE Moves(s, [Resting("answered") EXCEPT !.late = req[s].late])
        BY <1>a, <2>1, <2>2, <2>3, QuietMove
    <2>4. CASE Moves(s, [req[s] EXCEPT !.pc = "org"])
        BY <1>a, <2>1, <2>2, <2>4, QuietMove
    <2> QED
        BY <1>2, <2>3, <2>4 DEF CheckResponseCache
<1>3. ASSUME NEW s \in Slots, CheckOrgBudget(s) PROVE MemberReserveKept'
    <2>1. ~MayBeCharged(Resting("blocked")) /\ ~MayBeCharged([req[s] EXCEPT !.pc = "counter"])
        BY DEF MayBeCharged, Resting, TypeOK, Requests
    <2>2. UNCHANGED row
        BY <1>3 DEF CheckOrgBudget, dbVars
    <2>3. CASE Moves(s, Resting("blocked"))
        BY <1>a, <2>1, <2>2, <2>3, QuietMove
    <2>4. CASE Moves(s, [req[s] EXCEPT !.pc = "counter"])
        BY <1>a, <2>1, <2>2, <2>4, QuietMove
    <2> QED
        BY <1>3, <2>3, <2>4 DEF CheckOrgBudget
<1>4. ASSUME NEW s \in Slots, ReadCounter(s) PROVE MemberReserveKept'
    <2> DEFINE c == req[s].caller
               r == [req[s] EXCEPT !.pc = "period", !.budget = row[c].budget,
                                   !.spend = row[c].spend, !.started = started]
    <2>1. req[s].pc \notin RestingPcs /\ UNCHANGED row
        BY <1>4 DEF ReadCounter, RestingPcs, dbVars
    <2>2. c \in Callers /\ r.caller = c /\ r.pc = "period"
          /\ r.budget = row[c].budget /\ r.spend = row[c].spend
        BY <2>1 DEF TypeOK, Requests
    <2>3. MayBeCharged(r) <=> ~IsBudgetExhausted(row[c].budget, row[c].spend)
        BY <2>2 DEF MayBeCharged
    <2>4. CASE Decide(s, row[c].budget, row[c].spend)
        BY <2>1, <2>4, DecideKeepsReserve
    <2>5. CASE Moves(s, Resting("forbidden"))
        BY <1>a, <1>b, <2>1, <2>5, QuietMove DEF RestingPcs
    <2>6. CASE Moves(s, r)
        <3> HIDE DEF r, c
        <3>1. CASE MayBeCharged(r)
            BY <2>1, <2>2, <2>3, <2>6, <3>1, FreshMove
        <3>2. CASE ~MayBeCharged(r)
            BY <1>a, <2>1, <2>6, <3>2, QuietMove
        <3> QED
            BY <3>1, <3>2
    <2> QED
        BY <1>4, <2>4, <2>5, <2>6 DEF ReadCounter
<1>5. ASSUME NEW s \in Slots, CheckPeriod(s) PROVE MemberReserveKept'
    <2> DEFINE r == [req[s] EXCEPT !.pc = "lock", !.now = month]
    <2>1. req[s].pc = "period" /\ req[s].pc \notin RestingPcs /\ UNCHANGED row
        BY <1>5 DEF CheckPeriod, RestingPcs, dbVars
    <2>2. r.pc = "lock" /\ r.caller = req[s].caller /\ r.budget = req[s].budget
          /\ r.spend = req[s].spend
        BY DEF TypeOK, Requests
    <2>3. MayBeCharged(r) => MayBeCharged(req[s]) /\ r.caller = req[s].caller
        BY <2>1, <2>2 DEF MayBeCharged
    <2>4. ~IsBudgetExhausted(req[s].budget, req[s].spend) => MayBeCharged(req[s])
        BY <2>1 DEF MayBeCharged
    <2>5. CASE Decide(s, req[s].budget, req[s].spend)
        BY <2>1, <2>4, <2>5, DecideKeepsReserve
    <2>6. CASE Moves(s, r)
        <3> HIDE DEF r
        <3> QED
            BY <1>a, <2>1, <2>3, <2>6, QuietMove
    <2> QED
        BY <1>5, <2>5, <2>6 DEF CheckPeriod
<1>6. ASSUME NEW s \in Slots, EnsureCurrentPeriod(s) PROVE MemberReserveKept'
    <2>1. req[s].pc = "lock" /\ req[s].pc \notin RestingPcs
        BY <1>6 DEF EnsureCurrentPeriod, RestingPcs
    <2>2. ~IsBudgetExhausted(req[s].budget, req[s].spend) => MayBeCharged(req[s])
        BY <2>1 DEF MayBeCharged
    <2>3. CASE Decide(s, req[s].budget, req[s].spend) /\ UNCHANGED dbVars
        BY <2>1, <2>2, <2>3, DecideKeepsReserve DEF dbVars
    <2>4. CASE /\ Cross(started, teamSpend, req[s].now)
               /\ Moves(s, [req[s] EXCEPT !.pc = "reread", !.budget = NoBudget,
                                          !.spend = 0, !.started = 0])
        <3>1. ~MayBeCharged([req[s] EXCEPT !.pc = "reread", !.budget = NoBudget,
                                           !.spend = 0, !.started = 0])
            BY DEF MayBeCharged, TypeOK, Requests
        <3>2. RowsEase
            BY <2>4, CrossEases
        <3> QED
            BY <2>4, <3>1, <3>2, QuietMove
    <2> QED
        BY <1>6, <2>3, <2>4 DEF EnsureCurrentPeriod
<1>7. ASSUME NEW s \in Slots, RereadCounter(s) PROVE MemberReserveKept'
    <2>1. req[s].pc \notin RestingPcs /\ UNCHANGED row
        BY <1>7 DEF RereadCounter, RestingPcs, dbVars
    <2>2. CASE Moves(s, Resting("forbidden"))
        BY <1>a, <1>b, <2>1, <2>2, QuietMove DEF RestingPcs
    <2>3. CASE Decide(s, row[req[s].caller].budget, row[req[s].caller].spend)
        BY <2>1, <2>3, DecideKeepsReserve
    <2> QED
        BY <1>7, <2>2, <2>3 DEF RereadCounter
<1>8. ASSUME NEW s \in Slots, ProviderAnswers(s) PROVE MemberReserveKept'
    <2>1. PICK cost \in 0 .. MaxCost : Moves(s, [req[s] EXCEPT !.pc = "charging", !.cost = cost])
        BY <1>8 DEF ProviderAnswers
    <2>2. /\ [req[s] EXCEPT !.pc = "charging", !.cost = cost].caller = req[s].caller
          /\ MayBeCharged(req[s])
        BY <1>8 DEF ProviderAnswers, MayBeCharged, TypeOK, Requests
    <2>3. UNCHANGED row
        BY <1>8 DEF ProviderAnswers, dbVars
    <2> QED
        BY <1>a, <2>1, <2>2, <2>3, QuietMove
<1>9. ASSUME NEW s \in Slots, ProviderFails(s) PROVE MemberReserveKept'
    <2>1. Moves(s, Resting("idle")) /\ UNCHANGED row
        BY <1>9 DEF ProviderFails, dbVars
    <2> QED
        BY <1>a, <1>b, <2>1, QuietMove DEF RestingPcs
<1>10. ASSUME NEW s \in Slots, RecordUsageCharge(s) PROVE MemberReserveKept'
    BY <1>10, ChargeStep
<1>11. ASSUME NEW s \in Slots, RecordOrgUsageCharge(s) PROVE MemberReserveKept'
    <2>1. Moves(s, Resting("idle")) /\ UNCHANGED row
        BY <1>11 DEF RecordOrgUsageCharge
    <2> QED
        BY <1>a, <1>b, <2>1, QuietMove DEF RestingPcs
<1>12. ASSUME NEW s \in Slots, Abort(s) PROVE MemberReserveKept'
    <2>1. Moves(s, Resting("idle")) /\ UNCHANGED row
        BY <1>12 DEF Abort, dbVars
    <2> QED
        BY <1>a, <1>b, <2>1, QuietMove DEF RestingPcs
<1>13. ASSUME NEW v \in Viewers, View(v) PROVE MemberReserveKept'
    <2>1. UNCHANGED req
        BY <1>13 DEF View, LoadTeam, CheckViewedPeriod, EnsureViewedPeriod
    <2>2. RowsEase
        BY <1>13, <1>a, CrossEases
        DEF View, LoadTeam, CheckViewedPeriod, EnsureViewedPeriod, dbVars
    <2> QED
        BY <2>1, <2>2, OthersKeepReserve
<1>14. ASSUME NEW c \in Removable, RemoveTeamMember(c) PROVE MemberReserveKept'
    <2>1. UNCHANGED req
        BY <1>14 DEF RemoveTeamMember
    <2>2. RowsEase
        BY <1>14, MoneyAssumption DEF RemoveTeamMember, RowsEase, TypeOK
    <2> QED
        BY <2>1, <2>2, OthersKeepReserve
<1>15. ASSUME NEW c \in Removable, RestoreTeamMember(c) PROVE MemberReserveKept'
    <2>1. RowsEase
        BY <1>15, MoneyAssumption DEF RestoreTeamMember, RowsEase, TypeOK
    <2>2. ASSUME NEW s \in Slots
          PROVE  /\ req'[s].caller = req[s].caller /\ req'[s].pc = req[s].pc
                 /\ req'[s].budget = req[s].budget /\ req'[s].spend = req[s].spend
        <3>1. req'[s] = req[s] \/ req'[s] = [req[s] EXCEPT !.late = FALSE]
            BY <1>15 DEF RestoreTeamMember
        <3> QED
            BY <3>1 DEF TypeOK, Requests
    <2> QED
        BY <2>1, <2>2, OthersKeepReserve
<1>16. CASE ReadOrgSpend
    BY <1>16, <1>a, OthersKeepReserve DEF ReadOrgSpend, dbVars
<1>17. CASE ResetOrgSpend
    BY <1>17, <1>a, OthersKeepReserve DEF ResetOrgSpend
<1>18. CASE Tick
    BY <1>18, <1>a, OthersKeepReserve DEF Tick, dbVars
<1>19. CASE UNCHANGED vars
    BY <1>19, <1>a, OthersKeepReserve DEF vars
<1> QED
    BY <1>1, <1>2, <1>3, <1>4, <1>5, <1>6, <1>7, <1>8, <1>9, <1>10, <1>11,
       <1>12, <1>13, <1>14, <1>15, <1>16, <1>17, <1>18, <1>19 DEF Next, Request

LEMMA ReserveInit == Init => MemberReserveKept
<1> SUFFICES ASSUME Init, NEW c \in Callers, row[c].budget # NoBudget
             PROVE  row[c].spend + Cardinality(PastCheck(c)) * MaxCost
                      <= row[c].budget - 1 + Cardinality(Slots) * MaxCost
    BY DEF MemberReserveKept
<1> DEFINE n == Cardinality(Slots)
<1>1. PastCheck(c) = {}
    BY DEF Init, PastCheck, MayBeCharged, Resting
<1>2. Cardinality(PastCheck(c)) = 0
    BY <1>1, FS_EmptySet
<1>3. n \in Nat /\ n >= 1
    BY SlotsAssumption, FS_CardinalityType, FS_EmptySet
<1>4. /\ 1 * MaxCost <= n * MaxCost /\ n * MaxCost \in Nat
      /\ MaxCost \in Nat /\ MaxCost >= 1
    BY <1>3, ReserveMonotone, MoneyAssumption
<1>5. row[c].spend = 0 /\ row[c].budget \in Nat
    BY MoneyAssumption DEF Init
<1> HIDE DEF n
<1>6. row[c].spend + 0 * MaxCost <= row[c].budget - 1 + n * MaxCost
    BY <1>4, <1>5
<1> QED
    BY <1>2, <1>6 DEF n

\* The reserve of every member and flat user is kept in every behaviour: the
\* sum of what is spent and what requests past check_budget_available may still
\* cost never exceeds the bound.
THEOREM MemberReserve == Spec => []MemberReserveKept
<1> QED
    BY TypeCorrect, ReserveInit, ReserveInductive, PTL DEF Spec

\* The hard cutoff of check_budget_available: no counter ever ends more than one
\* dearest request per slot above the last balance that still passes.
THEOREM MemberCutoff == Spec => []MemberOvershootBounded
<1>1. TypeOK /\ MemberReserveKept => MemberOvershootBounded
    <2> SUFFICES ASSUME TypeOK, MemberReserveKept, NEW c \in Callers, row[c].budget # NoBudget
                 PROVE  row[c].spend <= row[c].budget - 1 + Cardinality(Slots) * MaxCost
        BY DEF MemberOvershootBounded
    <2> DEFINE k == Cardinality(PastCheck(c))
               n == Cardinality(Slots)
    <2>1. k \in Nat /\ n \in Nat
        BY PastCheckSize
    <2>2. k * MaxCost \in Nat /\ n * MaxCost \in Nat
        BY <2>1, ReserveMonotone
    <2>3. row[c].spend + k * MaxCost <= row[c].budget - 1 + n * MaxCost
        BY DEF MemberReserveKept
    <2>4. row[c].spend \in Nat /\ row[c].budget \in Nat
        BY DEF TypeOK
    <2> HIDE DEF k, n
    <2>5. row[c].spend <= row[c].budget - 1 + n * MaxCost
        BY <2>2, <2>3, <2>4
    <2> QED
        BY <2>5 DEF n
<1> QED
    BY <1>1, TypeCorrect, MemberReserve, PTL

-----------------------------------------------------------------------------
(* The same argument for the organisation's total: it counts the slots past *)
(* the organisation-wide check instead of those past a member's.            *)

LEMMA PastOrgSize ==
    /\ IsFiniteSet(PastOrgCheck)
    /\ Cardinality(PastOrgCheck) \in Nat
    /\ Cardinality(Slots) \in Nat
    /\ Cardinality(PastOrgCheck) <= Cardinality(Slots)
BY SlotsAssumption, FS_Subset, FS_CardinalityType DEF PastOrgCheck

\* Fewer requests past the check and no charge: the reserve is still there.
LEMMA OrgReserveShrinks ==
    ASSUME TypeOK, TypeOK', OrgReserveKept, orgSpend' <= orgSpend,
           PastOrgCheck' \subseteq PastOrgCheck
    PROVE  OrgReserveKept'
<1> SUFFICES ASSUME OrgCeiling # NoBudget
             PROVE  orgSpend' + Cardinality(PastOrgCheck') * MaxCost
                      <= OrgCeiling - 1 + Cardinality(Slots) * MaxCost
    BY DEF OrgReserveKept
<1> DEFINE k == Cardinality(PastOrgCheck)
           j == Cardinality(PastOrgCheck')
           n == Cardinality(Slots)
<1>1. k \in Nat /\ n \in Nat /\ j \in Nat /\ j <= k
    BY PastOrgSize, FS_Subset, FS_CardinalityType
<1>2. j * MaxCost <= k * MaxCost /\ j * MaxCost \in Nat /\ k * MaxCost \in Nat
      /\ n * MaxCost \in Nat
    BY <1>1, ReserveMonotone
<1>3. orgSpend \in Nat /\ orgSpend' \in Nat /\ OrgCeiling \in Nat
    BY MoneyAssumption DEF TypeOK
<1>4. orgSpend + k * MaxCost <= OrgCeiling - 1 + n * MaxCost
    BY DEF OrgReserveKept
<1> HIDE DEF k, j, n
<1>5. orgSpend' + j * MaxCost <= OrgCeiling - 1 + n * MaxCost
    BY <1>2, <1>3, <1>4
<1> QED
    BY <1>5 DEF j, n

\* The slots past the organisation's check, by the state of their request.
OrgPcs == {"counter", "period", "lock", "reread", "calling", "charging", "charged"}

\* A slot that moves on without passing the organisation's check.
LEMMA OrgQuietMove ==
    ASSUME TypeOK, TypeOK', OrgReserveKept, orgSpend' <= orgSpend,
           NEW s \in Slots, NEW r, Moves(s, r), r.pc \in OrgPcs => req[s].pc \in OrgPcs
    PROVE  OrgReserveKept'
<1>1. PastOrgCheck' \subseteq PastOrgCheck
    BY DEF Moves, PastOrgCheck, OrgPcs, TypeOK
<1> QED
    BY <1>1, OrgReserveShrinks

\* The check itself: below the ceiling all slots together fit into the bound.
LEMMA OrgCheckStep ==
    ASSUME TypeOK, TypeOK', NEW s \in Slots, CheckOrgBudget(s), OrgReserveKept
    PROVE  OrgReserveKept'
<1>1. orgSpend' = orgSpend /\ orgSpend \in Nat
    BY DEF CheckOrgBudget, dbVars, TypeOK
<1>2. CASE IsBudgetExhausted(OrgCeiling, orgSpend)
    <2>1. Moves(s, Resting("blocked"))
        BY <1>2 DEF CheckOrgBudget
    <2>2. Resting("blocked").pc \notin OrgPcs
        BY DEF Resting, OrgPcs
    <2> QED
        BY <1>1, <2>1, <2>2, OrgQuietMove
<1>3. CASE ~IsBudgetExhausted(OrgCeiling, orgSpend)
    <2> SUFFICES ASSUME OrgCeiling # NoBudget
                 PROVE  orgSpend' + Cardinality(PastOrgCheck') * MaxCost
                          <= OrgCeiling - 1 + Cardinality(Slots) * MaxCost
        BY DEF OrgReserveKept
    <2> DEFINE j == Cardinality(PastOrgCheck')
               n == Cardinality(Slots)
    <2>1. n \in Nat /\ j \in Nat /\ j <= n
        <3>1. PastOrgCheck' \subseteq Slots
            BY DEF PastOrgCheck
        <3> QED
            BY <3>1, SlotsAssumption, FS_Subset, FS_CardinalityType
    <2>2. j * MaxCost <= n * MaxCost /\ j * MaxCost \in Nat /\ n * MaxCost \in Nat
        BY <2>1, ReserveMonotone
    <2>3. OrgCeiling \in Nat /\ orgSpend <= OrgCeiling - 1
        BY <1>1, <1>3, MoneyAssumption DEF IsBudgetExhausted
    <2> HIDE DEF j, n
    <2>4. orgSpend' + j * MaxCost <= OrgCeiling - 1 + n * MaxCost
        BY <1>1, <2>2, <2>3
    <2> QED
        BY <2>4 DEF j, n
<1> QED
    BY <1>2, <1>3

\* The charge to the organisation takes its slot out of the count.
LEMMA OrgChargeStep ==
    ASSUME TypeOK, TypeOK', OrgReserveKept, NEW s \in Slots, RecordOrgUsageCharge(s)
    PROVE  OrgReserveKept'
<1> SUFFICES ASSUME OrgCeiling # NoBudget
             PROVE  orgSpend' + Cardinality(PastOrgCheck') * MaxCost
                      <= OrgCeiling - 1 + Cardinality(Slots) * MaxCost
    BY DEF OrgReserveKept
<1> DEFINE k == Cardinality(PastOrgCheck)
           j == Cardinality(PastOrgCheck')
           n == Cardinality(Slots)
           i == k - 1
           cost == req[s].cost
<1>1. cost \in Nat /\ cost <= MaxCost /\ MaxCost \in Nat /\ OrgCeiling \in Nat
      /\ orgSpend \in Nat /\ orgSpend' = orgSpend + cost
    BY MoneyAssumption DEF RecordOrgUsageCharge, TypeOK, Requests
<1>2. s \in PastOrgCheck
    BY DEF RecordOrgUsageCharge, PastOrgCheck
<1>3. PastOrgCheck' \subseteq PastOrgCheck \ {s}
    BY DEF RecordOrgUsageCharge, Moves, Resting, PastOrgCheck, TypeOK
<1>4. IsFiniteSet(PastOrgCheck) /\ k \in Nat /\ n \in Nat
    BY PastOrgSize
<1>5. /\ IsFiniteSet(PastOrgCheck \ {s})
      /\ Cardinality(PastOrgCheck \ {s}) = i
      /\ Cardinality(PastOrgCheck \ {s}) \in Nat
    BY <1>2, <1>4, FS_RemoveElement, FS_CardinalityType
<1>6. j \in Nat /\ j <= i /\ i \in Nat /\ k >= 1
    BY <1>3, <1>4, <1>5, FS_Subset, FS_CardinalityType
<1>7. j * MaxCost <= i * MaxCost /\ j * MaxCost \in Nat
      /\ k * MaxCost \in Nat /\ n * MaxCost \in Nat
    BY <1>4, <1>6, ReserveMonotone
<1>8. i * MaxCost = k * MaxCost - MaxCost
    BY <1>4, <1>6, ReserveStep
<1>9. orgSpend + k * MaxCost <= OrgCeiling - 1 + n * MaxCost
    BY DEF OrgReserveKept
<1> HIDE DEF i, k, j, n, cost
<1>10. orgSpend' + j * MaxCost <= OrgCeiling - 1 + n * MaxCost
    BY <1>1, <1>7, <1>8, <1>9
<1> QED
    BY <1>10 DEF j, n

\* A verdict keeps a request that was past the organisation's check there, or
\* ends it.
LEMMA OrgDecideStep ==
    ASSUME TypeOK, TypeOK', OrgReserveKept, UNCHANGED orgSpend,
           NEW s \in Slots, req[s].pc \in OrgPcs, NEW b, NEW x, Decide(s, b, x)
    PROVE  OrgReserveKept'
<1>1. orgSpend' <= orgSpend
    BY DEF TypeOK
<1>2. \E r : Moves(s, r)
    BY DEF Decide
<1> QED
    BY <1>1, <1>2, OrgQuietMove

\* Steps of everybody but the gateway leave every request where it is.
LEMMA OrgOthers ==
    ASSUME TypeOK, TypeOK', OrgReserveKept, orgSpend' <= orgSpend,
           \A s \in Slots : req'[s].pc = req[s].pc
    PROVE  OrgReserveKept'
<1>1. PastOrgCheck' \subseteq PastOrgCheck
    BY DEF PastOrgCheck
<1> QED
    BY <1>1, OrgReserveShrinks

\* One step per action: OrgReserveKept is inductive relative to TypeOK.
LEMMA OrgReserveInductive == TypeOK /\ TypeOK' /\ OrgReserveKept /\ [Next]_vars
                                => OrgReserveKept'
<1> SUFFICES ASSUME TypeOK, TypeOK', OrgReserveKept, [Next]_vars
             PROVE  OrgReserveKept'
    OBVIOUS
<1>a. UNCHANGED orgSpend => orgSpend' <= orgSpend
    BY DEF TypeOK
<1>b. \A pc \in RestingPcs : Resting(pc).pc \notin OrgPcs
    BY DEF Resting, RestingPcs, OrgPcs
<1>1. ASSUME NEW s \in Slots, NEW c \in Callers, Arrive(s, c) PROVE OrgReserveKept'
    <2>1. [Resting("lookup") EXCEPT !.caller = c, !.late = row[c].removed].pc \notin OrgPcs
        BY DEF Resting, OrgPcs
    <2>2. /\ Moves(s, [Resting("lookup") EXCEPT !.caller = c, !.late = row[c].removed])
          /\ UNCHANGED orgSpend
        BY <1>1 DEF Arrive, dbVars
    <2> QED
        BY <1>a, <2>1, <2>2, OrgQuietMove
<1>2. ASSUME NEW s \in Slots, CheckResponseCache(s) PROVE OrgReserveKept'
    <2>1. /\ [Resting("answered") EXCEPT !.late = req[s].late].pc \notin OrgPcs
          /\ [req[s] EXCEPT !.pc = "org"].pc \notin OrgPcs
        BY DEF Resting, OrgPcs, TypeOK, Requests
    <2>2. UNCHANGED orgSpend
        BY <1>2 DEF CheckResponseCache, dbVars
    <2>3. CASE Moves(s, [Resting("answered") EXCEPT !.late = req[s].late])
        BY <1>a, <2>1, <2>2, <2>3, OrgQuietMove
    <2>4. CASE Moves(s, [req[s] EXCEPT !.pc = "org"])
        BY <1>a, <2>1, <2>2, <2>4, OrgQuietMove
    <2> QED
        BY <1>2, <2>3, <2>4 DEF CheckResponseCache
<1>3. ASSUME NEW s \in Slots, CheckOrgBudget(s) PROVE OrgReserveKept'
    BY <1>3, OrgCheckStep
<1>4. ASSUME NEW s \in Slots, ReadCounter(s) PROVE OrgReserveKept'
    <2>1. req[s].pc \in OrgPcs /\ UNCHANGED orgSpend
        BY <1>4 DEF ReadCounter, OrgPcs, dbVars
    <2>2. \E r : Moves(s, r)
        BY <1>4 DEF ReadCounter, Decide
    <2> QED
        BY <1>a, <2>1, <2>2, OrgQuietMove
<1>5. ASSUME NEW s \in Slots, CheckPeriod(s) PROVE OrgReserveKept'
    <2>1. req[s].pc \in OrgPcs /\ UNCHANGED orgSpend
        BY <1>5 DEF CheckPeriod, OrgPcs, dbVars
    <2>2. \E r : Moves(s, r)
        BY <1>5 DEF CheckPeriod, Decide
    <2> QED
        BY <1>a, <2>1, <2>2, OrgQuietMove
<1>6. ASSUME NEW s \in Slots, EnsureCurrentPeriod(s) PROVE OrgReserveKept'
    <2>1. req[s].pc \in OrgPcs /\ UNCHANGED orgSpend
        BY <1>6 DEF EnsureCurrentPeriod, Cross, OrgPcs, dbVars
    <2>2. \E r : Moves(s, r)
        BY <1>6 DEF EnsureCurrentPeriod, Decide
    <2> QED
        BY <1>a, <2>1, <2>2, OrgQuietMove
<1>7. ASSUME NEW s \in Slots, RereadCounter(s) PROVE OrgReserveKept'
    <2>1. req[s].pc \in OrgPcs /\ UNCHANGED orgSpend
        BY <1>7 DEF RereadCounter, OrgPcs, dbVars
    <2>2. \E r : Moves(s, r)
        BY <1>7 DEF RereadCounter, Decide
    <2> QED
        BY <1>a, <2>1, <2>2, OrgQuietMove
<1>8. ASSUME NEW s \in Slots, ProviderAnswers(s) PROVE OrgReserveKept'
    <2>1. req[s].pc \in OrgPcs /\ UNCHANGED orgSpend /\ \E r : Moves(s, r)
        BY <1>8 DEF ProviderAnswers, OrgPcs, dbVars
    <2> QED
        BY <1>a, <2>1, OrgQuietMove
<1>9. ASSUME NEW s \in Slots, ProviderFails(s) PROVE OrgReserveKept'
    <2>1. Moves(s, Resting("idle")) /\ UNCHANGED orgSpend
        BY <1>9 DEF ProviderFails, dbVars
    <2> QED
        BY <1>a, <1>b, <2>1, OrgQuietMove DEF RestingPcs
<1>10. ASSUME NEW s \in Slots, RecordUsageCharge(s) PROVE OrgReserveKept'
    <2>1. req[s].pc \in OrgPcs /\ UNCHANGED orgSpend /\ \E r : Moves(s, r)
        BY <1>10 DEF RecordUsageCharge, OrgPcs
    <2> QED
        BY <1>a, <2>1, OrgQuietMove
<1>11. ASSUME NEW s \in Slots, RecordOrgUsageCharge(s) PROVE OrgReserveKept'
    BY <1>11, OrgChargeStep
<1>12. ASSUME NEW s \in Slots, Abort(s) PROVE OrgReserveKept'
    <2>1. Moves(s, Resting("idle")) /\ UNCHANGED orgSpend
        BY <1>12 DEF Abort, dbVars
    <2> QED
        BY <1>a, <1>b, <2>1, OrgQuietMove DEF RestingPcs
<1>13. ASSUME NEW v \in Viewers, View(v) PROVE OrgReserveKept'
    BY <1>13, <1>a, OrgOthers
    DEF View, LoadTeam, CheckViewedPeriod, EnsureViewedPeriod, Cross, dbVars
<1>14. ASSUME NEW c \in Removable, RemoveTeamMember(c) PROVE OrgReserveKept'
    BY <1>14, <1>a, OrgOthers DEF RemoveTeamMember
<1>15. ASSUME NEW c \in Removable, RestoreTeamMember(c) PROVE OrgReserveKept'
    <2>1. ASSUME NEW s \in Slots PROVE req'[s].pc = req[s].pc
        <3>1. req'[s] = req[s] \/ req'[s] = [req[s] EXCEPT !.late = FALSE]
            BY <1>15 DEF RestoreTeamMember
        <3> QED
            BY <3>1 DEF TypeOK, Requests
    <2> QED
        BY <1>15, <1>a, <2>1, OrgOthers DEF RestoreTeamMember
<1>16. CASE ReadOrgSpend
    BY <1>16, <1>a, OrgOthers DEF ReadOrgSpend, dbVars
<1>17. CASE ResetOrgSpend
    <2>1. orgSpend' <= orgSpend /\ UNCHANGED req
        BY <1>17 DEF ResetOrgSpend, TypeOK
    <2> QED
        BY <2>1, OrgOthers
<1>18. CASE Tick
    BY <1>18, <1>a, OrgOthers DEF Tick, dbVars
<1>19. CASE UNCHANGED vars
    BY <1>19, <1>a, OrgOthers DEF vars
<1> QED
    BY <1>1, <1>2, <1>3, <1>4, <1>5, <1>6, <1>7, <1>8, <1>9, <1>10, <1>11,
       <1>12, <1>13, <1>14, <1>15, <1>16, <1>17, <1>18, <1>19 DEF Next, Request

LEMMA OrgReserveInit == Init => OrgReserveKept
<1> SUFFICES ASSUME Init, OrgCeiling # NoBudget
             PROVE  orgSpend + Cardinality(PastOrgCheck) * MaxCost
                      <= OrgCeiling - 1 + Cardinality(Slots) * MaxCost
    BY DEF OrgReserveKept
<1> DEFINE n == Cardinality(Slots)
<1>1. PastOrgCheck = {}
    BY DEF Init, PastOrgCheck, Resting
<1>2. Cardinality(PastOrgCheck) = 0
    BY <1>1, FS_EmptySet
<1>3. n \in Nat /\ n >= 1
    BY SlotsAssumption, FS_CardinalityType, FS_EmptySet
<1>4. /\ 1 * MaxCost <= n * MaxCost /\ n * MaxCost \in Nat
      /\ MaxCost \in Nat /\ MaxCost >= 1
    BY <1>3, ReserveMonotone, MoneyAssumption
<1>5. orgSpend = 0 /\ OrgCeiling \in Nat
    BY MoneyAssumption DEF Init
<1> HIDE DEF n
<1>6. orgSpend + 0 * MaxCost <= OrgCeiling - 1 + n * MaxCost
    BY <1>4, <1>5
<1> QED
    BY <1>2, <1>6 DEF n

\* The organisation-wide reserve is kept, resets, crashes and removals included.
THEOREM OrgReserve == Spec => []OrgReserveKept
<1> QED
    BY TypeCorrect, OrgReserveInit, OrgReserveInductive, PTL DEF Spec

\* The organisation-wide circuit breaker: whichever path a request takes, the
\* total ends at most one dearest request per slot above the ceiling.
THEOREM OrgCutoff == Spec => []OrgOvershootBounded
<1>1. TypeOK /\ OrgReserveKept => OrgOvershootBounded
    <2> SUFFICES ASSUME TypeOK, OrgReserveKept, OrgCeiling # NoBudget
                 PROVE  orgSpend <= OrgCeiling - 1 + Cardinality(Slots) * MaxCost
        BY DEF OrgOvershootBounded
    <2> DEFINE k == Cardinality(PastOrgCheck)
               n == Cardinality(Slots)
    <2>1. k * MaxCost \in Nat /\ n * MaxCost \in Nat
        BY PastOrgSize, ReserveMonotone
    <2>2. orgSpend + k * MaxCost <= OrgCeiling - 1 + n * MaxCost
        BY DEF OrgReserveKept
    <2>3. orgSpend \in Nat /\ OrgCeiling \in Nat
        BY MoneyAssumption DEF TypeOK
    <2> HIDE DEF k, n
    <2>4. orgSpend <= OrgCeiling - 1 + n * MaxCost
        BY <2>1, <2>2, <2>3
    <2> QED
        BY <2>4 DEF n
<1> QED
    BY <1>1, TypeCorrect, OrgReserve, PTL

-----------------------------------------------------------------------------
(* The organisation's books: booked is what was committed to the members'  *)
(* and users' counters and not lost since.                                 *)

\* A slot that moves from one request to another changes what is owed by the
\* difference.
LEMMA OwedMoves ==
    ASSUME TypeOK, TypeOK', NEW s \in Slots, NEW r, Moves(s, r)
    PROVE  /\ Owed(req[s]) \in Int /\ Owed(r) \in Int
           /\ SumFunctionOnSet([x \in Slots |-> Owed(req[x])], Slots) \in Int
           /\ SumFunctionOnSet([x \in Slots |-> Owed(req[x])], Slots)'
                = SumFunctionOnSet([x \in Slots |-> Owed(req[x])], Slots)
                    + (Owed(r) - Owed(req[s]))
<1> DEFINE f == [x \in Slots |-> Owed(req[x])]
           g == [x \in Slots |-> Owed(req'[x])]
<1>1. \A x \in Slots : Owed(req[x]) \in Int /\ Owed(req'[x]) \in Int
    BY MoneyAssumption DEF TypeOK, Requests, Owed
<1>2. req'[s] = r /\ \A x \in Slots \ {s} : req'[x] = req[x]
    BY DEF Moves, TypeOK
<1>3. /\ \A x \in Slots : f[x] \in Int /\ g[x] \in Int
      /\ \A x \in Slots \ {s} : g[x] = f[x]
      /\ f[s] = Owed(req[s]) /\ g[s] = Owed(r)
    BY <1>1, <1>2
<1> HIDE DEF f, g
<1>4. /\ SumFunctionOnSet(f, Slots) \in Int
      /\ SumFunctionOnSet(g, Slots) = SumFunctionOnSet(f, Slots) + (g[s] - f[s])
    BY <1>3, SlotsAssumption, SumUpdate
<1> QED
    BY <1>1, <1>2, <1>3, <1>4 DEF f, g

\* A slot that moves while the total and booked change by what it owed before
\* and owes after keeps the books.
LEMMA OrgBooksMove ==
    ASSUME TypeOK, TypeOK', OrgAddsUp, NEW s \in Slots, NEW r, Moves(s, r),
           booked' - booked = (orgSpend' - orgSpend) + (Owed(r) - Owed(req[s]))
    PROVE  OrgAddsUp'
<1>1. PICK a, b : /\ a = SumFunctionOnSet([x \in Slots |-> Owed(req[x])], Slots)
                  /\ b = SumFunctionOnSet([x \in Slots |-> Owed(req[x])], Slots)'
    OBVIOUS
<1>2. /\ a \in Int /\ Owed(r) \in Int /\ Owed(req[s]) \in Int
      /\ b = a + (Owed(r) - Owed(req[s]))
    BY <1>1, OwedMoves
<1>3. booked \in Int /\ booked' \in Int /\ orgSpend \in Int /\ orgSpend' \in Int
    BY DEF TypeOK
<1>4. booked = orgSpend + a
    BY <1>1 DEF OrgAddsUp
<1>5. booked' = orgSpend' + b
    BY <1>2, <1>3, <1>4
<1> QED
    BY <1>1, <1>5 DEF OrgAddsUp

\* A slot that owes nothing before and after, nothing booked.
LEMMA OrgBooksQuiet ==
    ASSUME TypeOK, TypeOK', OrgAddsUp, NEW s \in Slots, NEW r, Moves(s, r),
           Owed(req[s]) = 0, Owed(r) = 0, UNCHANGED <<orgSpend, booked>>
    PROVE  OrgAddsUp'
<1>1. booked' - booked = (orgSpend' - orgSpend) + (Owed(r) - Owed(req[s]))
    BY DEF TypeOK
<1> QED
    BY <1>1, OrgBooksMove

\* The requests keep what they owe.
LEMMA OrgBooksElsewhere ==
    ASSUME TypeOK, TypeOK', OrgAddsUp, \A s \in Slots : Owed(req'[s]) = Owed(req[s]),
           booked' - booked = orgSpend' - orgSpend
    PROVE  OrgAddsUp'
<1> DEFINE f == [x \in Slots |-> Owed(req[x])]
           g == [x \in Slots |-> Owed(req'[x])]
<1>1. \A x \in Slots : f[x] \in Int /\ f[x] = g[x]
    BY MoneyAssumption DEF TypeOK, Requests, Owed
<1> HIDE DEF f, g
<1>2. SumFunctionOnSet(f, Slots) \in Int /\ SumFunctionOnSet(g, Slots) = SumFunctionOnSet(f, Slots)
    <2>1. IsFiniteSet(Slots)
        BY SlotsAssumption
    <2>2. SumFunctionOnSet(f, Slots) \in Int
        BY <1>1, <2>1, SumType
    <2>3. SumFunctionOnSet(f, Slots) = SumFunctionOnSet(g, Slots)
        BY <1>1, <2>1, SumSame
    <2> QED
        BY <2>2, <2>3
<1>3. booked = orgSpend + SumFunctionOnSet(f, Slots)
    BY DEF f, OrgAddsUp
<1>4. booked \in Int /\ booked' \in Int /\ orgSpend \in Int /\ orgSpend' \in Int
    BY DEF TypeOK
<1>5. booked' = orgSpend' + SumFunctionOnSet(g, Slots)
    <2>1. PICK x \in Int, b \in Int, o \in Int, c \in Int, p \in Int :
             /\ x = SumFunctionOnSet(f, Slots) /\ b = booked /\ o = orgSpend
             /\ c = booked' /\ p = orgSpend'
        BY <1>2, <1>4
    <2>2. c - b = p - o /\ b = o + x
        BY <1>3, <2>1
    <2>3. c = p + x
        BY <2>2
    <2> QED
        BY <1>2, <2>1, <2>3
<1> QED
    BY <1>5 DEF g, OrgAddsUp

\* A verdict leaves nothing owed.
LEMMA DecideOwes ==
    ASSUME TypeOK, NEW s \in Slots, NEW b, NEW x, Decide(s, b, x)
    PROVE  \E r : Moves(s, r) /\ Owed(r) = 0
<1>1. Owed(Resting("blocked")) = 0
    BY DEF Owed, Resting
<1>2. Owed([req[s] EXCEPT !.pc = "calling", !.budget = NoBudget,
                          !.spend = 0, !.started = 0, !.now = 0]) = 0
    BY DEF Owed, TypeOK, Requests
<1> QED
    BY <1>1, <1>2 DEF Decide

\* One step per action: OrgAddsUp is inductive relative to TypeOK.
LEMMA OrgBooksInductive == TypeOK /\ TypeOK' /\ OrgAddsUp /\ [Next]_vars => OrgAddsUp'
<1> SUFFICES ASSUME TypeOK, TypeOK', OrgAddsUp, [Next]_vars
             PROVE  OrgAddsUp'
    OBVIOUS
<1>a. \A pc \in RestingPcs : Owed(Resting(pc)) = 0
    BY DEF Owed, Resting, RestingPcs
<1>b. UNCHANGED <<orgSpend, booked>> => booked' - booked = orgSpend' - orgSpend
    BY DEF TypeOK
<1>1. ASSUME NEW s \in Slots, NEW c \in Callers, Arrive(s, c) PROVE OrgAddsUp'
    <2>1. Owed([Resting("lookup") EXCEPT !.caller = c, !.late = row[c].removed]) = 0
        BY DEF Resting, Owed
    <2>2. Owed(req[s]) = 0
        BY <1>1 DEF Arrive, Owed, RestingPcs
    <2> QED
        BY <1>1, <2>1, <2>2, OrgBooksQuiet DEF Arrive, dbVars
<1>2. ASSUME NEW s \in Slots, CheckResponseCache(s) PROVE OrgAddsUp'
    <2>1. /\ Owed([Resting("answered") EXCEPT !.late = req[s].late]) = 0
          /\ Owed([req[s] EXCEPT !.pc = "org"]) = 0
        BY DEF Resting, Owed, TypeOK, Requests
    <2>2. Owed(req[s]) = 0
        BY <1>2 DEF CheckResponseCache, Owed
    <2> QED
        BY <1>2, <2>1, <2>2, OrgBooksQuiet DEF CheckResponseCache, dbVars
<1>3. ASSUME NEW s \in Slots, CheckOrgBudget(s) PROVE OrgAddsUp'
    <2>1. Owed([req[s] EXCEPT !.pc = "counter"]) = 0
        BY DEF Owed, TypeOK, Requests
    <2>2. Owed(req[s]) = 0 /\ Owed(Resting("blocked")) = 0
        BY <1>3, <1>a DEF CheckOrgBudget, Owed, RestingPcs
    <2> QED
        BY <1>3, <2>1, <2>2, OrgBooksQuiet DEF CheckOrgBudget, dbVars
<1>4. ASSUME NEW s \in Slots, ReadCounter(s) PROVE OrgAddsUp'
    <2> DEFINE c == req[s].caller
               q == [req[s] EXCEPT !.pc = "period", !.budget = row[c].budget,
                                   !.spend = row[c].spend, !.started = started]
    <2>1. Owed(q) = 0 /\ Owed(Resting("forbidden")) = 0
        BY <1>a DEF Owed, TypeOK, Requests, RestingPcs
    <2>2. Owed(req[s]) = 0 /\ UNCHANGED <<orgSpend, booked>>
        BY <1>4 DEF ReadCounter, Owed, dbVars
    <2>3. \E r : Moves(s, r) /\ Owed(r) = 0
        BY <1>4, <2>1, DecideOwes DEF ReadCounter
    <2> QED
        BY <2>2, <2>3, OrgBooksQuiet
<1>5. ASSUME NEW s \in Slots, CheckPeriod(s) PROVE OrgAddsUp'
    <2>1. Owed([req[s] EXCEPT !.pc = "lock", !.now = month]) = 0
        BY DEF Owed, TypeOK, Requests
    <2>2. Owed(req[s]) = 0 /\ UNCHANGED <<orgSpend, booked>>
        BY <1>5 DEF CheckPeriod, Owed, dbVars
    <2>3. \E r : Moves(s, r) /\ Owed(r) = 0
        BY <1>5, <2>1, DecideOwes DEF CheckPeriod
    <2> QED
        BY <2>2, <2>3, OrgBooksQuiet
<1>6. ASSUME NEW s \in Slots, EnsureCurrentPeriod(s) PROVE OrgAddsUp'
    <2>1. Owed([req[s] EXCEPT !.pc = "reread", !.budget = NoBudget,
                              !.spend = 0, !.started = 0]) = 0
        BY DEF Owed, TypeOK, Requests
    <2>2. Owed(req[s]) = 0 /\ UNCHANGED <<orgSpend, booked>>
        BY <1>6 DEF EnsureCurrentPeriod, Cross, Owed, dbVars
    <2>3. \E r : Moves(s, r) /\ Owed(r) = 0
        BY <1>6, <2>1, DecideOwes DEF EnsureCurrentPeriod
    <2> QED
        BY <2>2, <2>3, OrgBooksQuiet
<1>7. ASSUME NEW s \in Slots, RereadCounter(s) PROVE OrgAddsUp'
    <2>1. Owed(Resting("forbidden")) = 0
        BY <1>a DEF RestingPcs
    <2>2. Owed(req[s]) = 0 /\ UNCHANGED <<orgSpend, booked>>
        BY <1>7 DEF RereadCounter, Owed, dbVars
    <2>3. \E r : Moves(s, r) /\ Owed(r) = 0
        BY <1>7, <2>1, DecideOwes DEF RereadCounter
    <2> QED
        BY <2>2, <2>3, OrgBooksQuiet
<1>8. ASSUME NEW s \in Slots, ProviderAnswers(s) PROVE OrgAddsUp'
    <2>1. PICK cost \in 0 .. MaxCost : Moves(s, [req[s] EXCEPT !.pc = "charging", !.cost = cost])
        BY <1>8 DEF ProviderAnswers
    <2>2. Owed([req[s] EXCEPT !.pc = "charging", !.cost = cost]) = 0
        BY DEF Owed, TypeOK, Requests
    <2>3. Owed(req[s]) = 0 /\ UNCHANGED <<orgSpend, booked>>
        BY <1>8 DEF ProviderAnswers, Owed, dbVars
    <2> QED
        BY <2>1, <2>2, <2>3, OrgBooksQuiet
<1>9. ASSUME NEW s \in Slots, ProviderFails(s) PROVE OrgAddsUp'
    <2>1. Owed(req[s]) = 0 /\ Owed(Resting("idle")) = 0
        BY <1>9, <1>a DEF ProviderFails, Owed, RestingPcs
    <2> QED
        BY <1>9, <2>1, OrgBooksQuiet DEF ProviderFails, dbVars
<1>10. ASSUME NEW s \in Slots, RecordUsageCharge(s) PROVE OrgAddsUp'
    <2>1. /\ Owed([req[s] EXCEPT !.pc = "charged"]) = req[s].cost
          /\ Owed(req[s]) = 0 /\ req[s].cost \in Int
        BY <1>10, MoneyAssumption DEF RecordUsageCharge, Owed, TypeOK, Requests
    <2>2. /\ booked' = booked + req[s].cost /\ orgSpend' = orgSpend
          /\ booked \in Int /\ orgSpend \in Int
        BY <1>10 DEF RecordUsageCharge, TypeOK
    <2> QED
        BY <1>10, <2>1, <2>2, OrgBooksMove DEF RecordUsageCharge
<1>11. ASSUME NEW s \in Slots, RecordOrgUsageCharge(s) PROVE OrgAddsUp'
    <2>1. /\ Owed(req[s]) = req[s].cost /\ Owed(Resting("idle")) = 0 /\ req[s].cost \in Int
        BY <1>11, <1>a, MoneyAssumption DEF RecordOrgUsageCharge, Owed, TypeOK, Requests, RestingPcs
    <2>2. /\ orgSpend' = orgSpend + req[s].cost /\ booked' = booked
          /\ booked \in Int /\ orgSpend \in Int
        BY <1>11 DEF RecordOrgUsageCharge, TypeOK
    <2> QED
        BY <1>11, <2>1, <2>2, OrgBooksMove DEF RecordOrgUsageCharge
<1>12. ASSUME NEW s \in Slots, Abort(s) PROVE OrgAddsUp'
    <2>1. Owed(Resting("idle")) = 0 /\ Owed(req[s]) \in Int
        BY <1>a, MoneyAssumption DEF Owed, TypeOK, Requests, RestingPcs
    <2>2. /\ booked' = booked - Owed(req[s]) /\ orgSpend' = orgSpend
          /\ booked \in Int /\ orgSpend \in Int
        BY <1>12 DEF Abort, TypeOK, dbVars, Owed
    <2> QED
        BY <1>12, <2>1, <2>2, OrgBooksMove DEF Abort
<1>13. ASSUME NEW v \in Viewers, View(v) PROVE OrgAddsUp'
    BY <1>13, <1>b, OrgBooksElsewhere
    DEF View, LoadTeam, CheckViewedPeriod, EnsureViewedPeriod, Cross, dbVars
<1>14. ASSUME NEW c \in Removable, RemoveTeamMember(c) PROVE OrgAddsUp'
    BY <1>14, <1>b, OrgBooksElsewhere DEF RemoveTeamMember
<1>15. ASSUME NEW c \in Removable, RestoreTeamMember(c) PROVE OrgAddsUp'
    <2>1. ASSUME NEW s \in Slots PROVE Owed(req'[s]) = Owed(req[s])
        <3>1. req'[s] = req[s] \/ req'[s] = [req[s] EXCEPT !.late = FALSE]
            BY <1>15 DEF RestoreTeamMember
        <3> QED
            BY <3>1 DEF TypeOK, Requests, Owed
    <2> QED
        BY <1>15, <1>b, <2>1, OrgBooksElsewhere DEF RestoreTeamMember
<1>16. CASE ReadOrgSpend
    BY <1>16, <1>b, OrgBooksElsewhere DEF ReadOrgSpend, dbVars
<1>17. CASE ResetOrgSpend
    <2>1. booked' - booked = orgSpend' - orgSpend /\ UNCHANGED req
        BY <1>17 DEF ResetOrgSpend, TypeOK
    <2> QED
        BY <2>1, OrgBooksElsewhere
<1>18. CASE Tick
    BY <1>18, <1>b, OrgBooksElsewhere DEF Tick, dbVars
<1>19. CASE UNCHANGED vars
    BY <1>19, <1>b, OrgBooksElsewhere DEF vars
<1> QED
    BY <1>1, <1>2, <1>3, <1>4, <1>5, <1>6, <1>7, <1>8, <1>9, <1>10, <1>11,
       <1>12, <1>13, <1>14, <1>15, <1>16, <1>17, <1>18, <1>19 DEF Next, Request

LEMMA OrgBooksInit == Init => OrgAddsUp
<1> SUFFICES ASSUME Init PROVE OrgAddsUp
    OBVIOUS
<1> DEFINE f == [x \in Slots |-> Owed(req[x])]
<1>1. \A x \in Slots : f[x] = 0
    BY DEF Init, Owed, Resting
<1> HIDE DEF f
<1>2. SumFunctionOnSet(f, Slots) = 0
    BY <1>1, SlotsAssumption, SumOfZeros
<1>3. booked = orgSpend + SumFunctionOnSet(f, Slots)
    BY <1>2 DEF Init
<1> QED
    BY <1>3 DEF f, OrgAddsUp

\* With any number of requests, console readers, removals, resets and crashes,
\* the organisation's total is exactly what was charged, less what charges in
\* progress still owe (record_org_usage_charge, the second transaction).
THEOREM OrgBooksBalance == Spec => []OrgAddsUp
<1> QED
    BY TypeCorrect, OrgBooksInit, OrgBooksInductive, PTL DEF Spec

-----------------------------------------------------------------------------
(* The team's books and its alert.  They need what the gateway alone       *)
(* guarantees: no console GET crosses a boundary with a team row it read   *)
(* before (Viewers), and no row is frozen by a removal (Removable).        *)

NoneRemoved == \A c \in Callers : ~row[c].removed

\* The books of the team, its alert and what they rest on.
TeamBooks == NoneRemoved /\ TeamAddsUp /\ AlertOncePerPeriod

\* The team's total is an integer, whatever the members spent.
LEMMA MemberSpendType ==
    ASSUME TypeOK
    PROVE  TotalMemberSpend \in Int
<1> DEFINE f == [c \in Callers |-> SpendOf(c)]
<1>1. \A c \in Members : f[c] \in Int
    BY DEF TypeOK, SpendOf
<1> HIDE DEF f
<1>2. SumFunctionOnSet(f, Members) \in Int
    BY <1>1, CallersAssumption, SumType
<1> QED
    BY <1>2 DEF f, TotalMemberSpend

\* Rows that keep spend and removed_at keep the total.
LEMMA TeamBooksElsewhere ==
    ASSUME TypeOK, TypeOK', TeamBooks, UNCHANGED <<row, teamSpend, alerts>>
    PROVE  TeamBooks'
BY DEF TeamBooks, NoneRemoved, TeamAddsUp, AlertOncePerPeriod, TotalMemberSpend, SpendOf

\* record_usage_charge moves the member's counter and the aggregate together,
\* and alerts in the one transaction that takes the aggregate over the ceiling.
LEMMA ChargeKeepsTeamBooks ==
    ASSUME TypeOK, TypeOK', TeamBooks, NEW s \in Slots, RecordUsageCharge(s)
    PROVE  TeamBooks'
<1>1. PICK c \in Callers, cost \in Nat : c = req[s].caller /\ cost = req[s].cost
    BY MoneyAssumption DEF RecordUsageCharge, TypeOK, Requests, RestingPcs
<1>2. /\ row' = [row EXCEPT ![c].spend = @ + cost]
      /\ \A x \in Callers : row[x].spend \in Nat
      /\ row \in [Callers -> [budget : Budgets, spend : Nat, removed : BOOLEAN]]
    BY <1>1 DEF RecordUsageCharge, TypeOK
<1>3. /\ row'[c].spend = row[c].spend + cost /\ row'[c].removed = row[c].removed
      /\ \A x \in Callers \ {c} : row'[x] = row[x]
    BY <1>2
<1>4. NoneRemoved'
    BY <1>3 DEF TeamBooks, NoneRemoved
<1> DEFINE f == [x \in Callers |-> row[x].spend]
           g == [x \in Callers |-> row'[x].spend]
<1>5. /\ \A x \in Members : f[x] \in Int /\ g[x] \in Int
      /\ \A x \in Members \ {c} : g[x] = f[x]
      /\ c \in Members => g[c] - f[c] = cost
    BY <1>2, <1>3
<1>6. /\ TotalMemberSpend = SumFunctionOnSet(f, Members)
      /\ TotalMemberSpend' = SumFunctionOnSet(g, Members)
    BY DEF TotalMemberSpend, SpendOf
<1> HIDE DEF f, g
<1>7. teamSpend \in Int /\ teamSpend = SumFunctionOnSet(f, Members)
    BY <1>6, MemberSpendType DEF TeamBooks, TeamAddsUp
<1>8. CASE c \in Members
    <2>1. SumFunctionOnSet(g, Members) = SumFunctionOnSet(f, Members) + (g[c] - f[c])
        BY <1>5, <1>8, CallersAssumption, SumUpdate
    <2>2. teamSpend' = teamSpend + cost
        BY <1>1, <1>8 DEF RecordUsageCharge
    <2>3. TeamAddsUp'
        BY <1>5, <1>6, <1>7, <1>8, <2>1, <2>2 DEF TeamAddsUp
    <2>4. alerts' = IF Crosses(TeamCeiling, teamSpend, teamSpend + cost)
                    THEN alerts + 1 ELSE alerts
        BY <1>1, <1>8 DEF RecordUsageCharge
    <2>5. AlertOncePerPeriod'
        <3> SUFFICES ASSUME TeamCeiling \notin {NoBudget, 0}
                     PROVE  alerts' = IF teamSpend' >= TeamCeiling THEN 1 ELSE 0
            BY DEF AlertOncePerPeriod
        <3>1. TeamCeiling \in Nat \ {0} /\ alerts = IF teamSpend >= TeamCeiling THEN 1 ELSE 0
            BY MoneyAssumption DEF TeamBooks, AlertOncePerPeriod
        <3> QED
            BY <1>1, <1>7, <2>2, <2>4, <3>1 DEF Crosses
    <2> QED
        BY <1>4, <2>3, <2>5 DEF TeamBooks
<1>9. CASE c \notin Members
    <2>1. SumFunctionOnSet(g, Members) = SumFunctionOnSet(f, Members)
        BY <1>5, <1>9, CallersAssumption, SumSame
    <2>2. UNCHANGED <<teamSpend, alerts>>
        BY <1>1, <1>9 DEF RecordUsageCharge
    <2> QED
        BY <1>4, <1>6, <1>7, <2>1, <2>2 DEF TeamBooks, TeamAddsUp, AlertOncePerPeriod
<1> QED
    BY <1>8, <1>9

\* The boundary takes exactly the members' total out of the aggregate: both are
\* zero afterwards, and the alert may fire again.
LEMMA CrossKeepsTeamBooks ==
    ASSUME TypeOK, TypeOK', TeamBooks, NEW now, Cross(started, teamSpend, now)
    PROVE  TeamBooks'
<1>1. ASSUME NEW c \in Callers
      PROVE  ~row'[c].removed /\ (c \in Members => row'[c].spend = 0)
    <2>1. row[c] \in [budget : Budgets, spend : Nat, removed : BOOLEAN] /\ ~row[c].removed
        BY DEF TypeOK, TeamBooks, NoneRemoved
    <2>2. row'[c] = IF c \in Members
                    THEN [row[c] EXCEPT !.budget = ApplyPeriodEnd(@, row[c].spend), !.spend = 0]
                    ELSE row[c]
        BY <2>1 DEF Cross
    <2> QED
        BY <2>1, <2>2
<1> DEFINE g == [c \in Callers |-> row'[c].spend]
<1>2. \A c \in Members : g[c] = 0
    BY <1>1
<1>3. TotalMemberSpend' = SumFunctionOnSet(g, Members)
    BY DEF TotalMemberSpend, SpendOf
<1> HIDE DEF g
<1>4. TotalMemberSpend' = 0
    BY <1>2, <1>3, CallersAssumption, SumOfZeros
<1>5. teamSpend = TotalMemberSpend /\ TotalMemberSpend \in Int
    BY MemberSpendType DEF TeamBooks, TeamAddsUp
<1>a. /\ teamSpend' = IF TotalMemberSpend = 0 THEN teamSpend ELSE teamSpend - TotalMemberSpend
      /\ alerts' = 0
    BY DEF Cross
<1>6. teamSpend' = 0
    BY <1>5, <1>a
<1>7. AlertOncePerPeriod'
    BY <1>6, <1>a, MoneyAssumption DEF AlertOncePerPeriod
<1> QED
    BY <1>1, <1>4, <1>6, <1>7 DEF TeamBooks, NoneRemoved, TeamAddsUp

\* One step per action that writes a counter; the others leave the books alone.
LEMMA TeamBooksInductive ==
    ASSUME Viewers = {}, Removable = {}
    PROVE  TypeOK /\ TypeOK' /\ TeamBooks /\ [Next]_vars => TeamBooks'
<1> SUFFICES ASSUME TypeOK, TypeOK', TeamBooks, [Next]_vars
             PROVE  TeamBooks'
    OBVIOUS
<1>1. ASSUME NEW s \in Slots, RecordUsageCharge(s) PROVE TeamBooks'
    BY <1>1, ChargeKeepsTeamBooks
<1>2. ASSUME NEW s \in Slots, EnsureCurrentPeriod(s) PROVE TeamBooks'
    BY <1>2, CrossKeepsTeamBooks, TeamBooksElsewhere DEF EnsureCurrentPeriod, dbVars
<1>3. ASSUME NEW s \in Slots, Request(s), ~RecordUsageCharge(s), ~EnsureCurrentPeriod(s)
      PROVE  TeamBooks'
    BY <1>3, TeamBooksElsewhere
    DEF Request, Arrive, CheckResponseCache, CheckOrgBudget, ReadCounter, CheckPeriod,
        RereadCounter, ProviderAnswers, ProviderFails, RecordOrgUsageCharge, Abort, dbVars
<1>4. CASE ReadOrgSpend \/ ResetOrgSpend \/ Tick \/ UNCHANGED vars
    BY <1>4, TeamBooksElsewhere DEF ReadOrgSpend, ResetOrgSpend, Tick, dbVars, vars
<1> QED
    BY <1>1, <1>2, <1>3, <1>4 DEF Next

LEMMA TeamBooksInit == Init => TeamBooks
<1> SUFFICES ASSUME Init PROVE TeamBooks
    OBVIOUS
<1> DEFINE f == [c \in Callers |-> SpendOf(c)]
<1>1. \A c \in Members : f[c] = 0
    BY DEF Init, SpendOf
<1> HIDE DEF f
<1>2. SumFunctionOnSet(f, Members) = 0
    BY <1>1, CallersAssumption, SumOfZeros
<1>3. TeamAddsUp
    BY <1>2 DEF f, TeamAddsUp, TotalMemberSpend, Init
<1>4. AlertOncePerPeriod /\ NoneRemoved
    BY MoneyAssumption DEF Init, AlertOncePerPeriod, NoneRemoved
<1> QED
    BY <1>3, <1>4 DEF TeamBooks

\* The books balance on the gateway's own paths: whatever requests, boundaries,
\* resets and crashes interleave, the aggregate is the sum of the members'
\* counters and the organisation's total is what was charged.
THEOREM BooksBalance ==
    ASSUME Viewers = {}, Removable = {}
    PROVE  Spec => []CountersAddUp
<1>1. TeamBooks /\ OrgAddsUp => CountersAddUp
    BY DEF TeamBooks, CountersAddUp
<1>2. TypeOK /\ TypeOK' /\ TeamBooks /\ [Next]_vars => TeamBooks'
    BY TeamBooksInductive
<1> QED
    BY <1>1, <1>2, TypeCorrect, TeamBooksInit, OrgBooksBalance, PTL DEF Spec

\* crossed_thresholds under concurrency: one alert per period, however the
\* charges of that period interleave, and none below the ceiling.
THEOREM OneAlertPerPeriod ==
    ASSUME Viewers = {}, Removable = {}
    PROVE  Spec => []AlertOncePerPeriod
<1>1. TeamBooks => AlertOncePerPeriod
    BY DEF TeamBooks
<1>2. TypeOK /\ TypeOK' /\ TeamBooks /\ [Next]_vars => TeamBooks'
    BY TeamBooksInductive
<1> QED
    BY <1>1, <1>2, TypeCorrect, TeamBooksInit, PTL DEF Spec

-----------------------------------------------------------------------------
(* Period boundaries on the gateway's path.  The team's period only moves   *)
(* forward there, so a period a request found current stays behind.         *)

\* compute_period_end lies after the month and grows with it.
LEMMA PeriodEndGrows ==
    ASSUME NEW m \in Nat, NEW n \in Nat
    PROVE  /\ ComputePeriodEnd(m) \in Nat /\ m < ComputePeriodEnd(m)
           /\ m <= n => ComputePeriodEnd(m) <= ComputePeriodEnd(n)
<1>1. CASE PeriodMonths = 1
    BY <1>1 DEF ComputePeriodEnd
<1>2. CASE PeriodMonths = 3
    BY <1>2 DEF ComputePeriodEnd
<1> QED
    BY <1>1, <1>2, ClockAssumption

\* advance_period_start catches up in one pass: the period it ends on holds now.
LEMMA AdvanceCatchesUp ==
    ASSUME NEW m \in Nat, NEW now \in Nat, ComputePeriodEnd(m) <= now
    PROVE  /\ AdvancePeriodStart(m, now) > m
           /\ now < ComputePeriodEnd(AdvancePeriodStart(m, now))
<1>1. CASE PeriodMonths = 1
    BY <1>1 DEF ComputePeriodEnd, AdvancePeriodStart
<1>2. CASE PeriodMonths = 3
    BY <1>2 DEF ComputePeriodEnd, AdvancePeriodStart
<1> QED
    BY <1>1, <1>2, ClockAssumption

\* A slot's request on either side of ensure_current_period.
Crossing(s) ==
    /\ req[s].pc = "lock"
    /\ req[s].now >= ComputePeriodEnd(started)
    /\ Cross(started, teamSpend, req[s].now)
    /\ Moves(s, [req[s] EXCEPT !.pc = "reread", !.budget = NoBudget, !.spend = 0, !.started = 0])

\* A boundary moves the period on, to the one that holds the request's clock.
LEMMA CrossingAdvances ==
    ASSUME TypeOK, NEW s \in Slots, Crossing(s)
    PROVE  started' > started /\ req[s].now < ComputePeriodEnd(started')
<1>1. started \in Nat /\ req[s].now \in Nat /\ ComputePeriodEnd(started) <= req[s].now
    <2>1. started \in Nat /\ req[s].now \in Nat
        BY DEF TypeOK, Requests
    <2> QED
        BY <2>1, PeriodEndGrows DEF Crossing
<1>2. started' = AdvancePeriodStart(started, req[s].now)
    BY DEF Crossing, Cross
<1> QED
    BY <1>1, <1>2, AdvanceCatchesUp

\* Nothing but a crossing moves the period of a team without console readers.
LEMMA OnlyCrossingsAdvance ==
    ASSUME Viewers = {}, [Next]_vars
    PROVE  UNCHANGED started \/ \E s \in Slots : Crossing(s)
<1>1. ASSUME NEW s \in Slots, EnsureCurrentPeriod(s) PROVE UNCHANGED started \/ Crossing(s)
    BY <1>1 DEF EnsureCurrentPeriod, Crossing, dbVars
<1>2. ASSUME NEW s \in Slots, Request(s), ~EnsureCurrentPeriod(s) PROVE UNCHANGED started
    BY <1>2
    DEF Request, Arrive, CheckResponseCache, CheckOrgBudget, ReadCounter, CheckPeriod,
        RereadCounter, ProviderAnswers, ProviderFails, RecordUsageCharge,
        RecordOrgUsageCharge, Abort, dbVars
<1>3. ASSUME NEW c \in Removable, RemoveTeamMember(c) \/ RestoreTeamMember(c)
      PROVE  UNCHANGED started
    BY <1>3 DEF RemoveTeamMember, RestoreTeamMember
<1>4. CASE ReadOrgSpend \/ ResetOrgSpend \/ Tick \/ UNCHANGED vars
    BY <1>4 DEF ReadOrgSpend, ResetOrgSpend, Tick, dbVars, vars
<1> QED
    BY <1>1, <1>2, <1>3, <1>4 DEF Next

\* Budgets are credited and counters zeroed by crossings alone.
LEMMA OnlyCrossingsCredit ==
    ASSUME TypeOK, Viewers = {}, [Next]_vars, NEW c \in Members,
           row'[c].spend < row[c].spend \/ row'[c].budget # row[c].budget
    PROVE  \E s \in Slots : Crossing(s)
<1>a. row[c].spend \in Nat /\ ~(row[c].spend < row[c].spend)
    BY DEF TypeOK
<1>b. ASSUME UNCHANGED row PROVE FALSE
    BY <1>a, <1>b
<1>1. ASSUME NEW s \in Slots, EnsureCurrentPeriod(s) PROVE Crossing(s)
    BY <1>1, <1>b DEF EnsureCurrentPeriod, Crossing, dbVars
<1>2. ASSUME NEW s \in Slots, RecordUsageCharge(s) PROVE FALSE
    <2>1. PICK d, cost : /\ d = req[s].caller /\ cost = req[s].cost
                         /\ row' = [row EXCEPT ![d].spend = @ + cost]
        BY <1>2 DEF RecordUsageCharge
    <2>2. cost \in Nat /\ row \in [Callers -> [budget : Budgets, spend : Nat, removed : BOOLEAN]]
        BY <2>1, MoneyAssumption DEF TypeOK, Requests
    <2>3. row'[c].budget = row[c].budget /\ row'[c].spend \in {row[c].spend, row[c].spend + cost}
        BY <2>1, <2>2
    <2> QED
        BY <1>a, <2>2, <2>3
<1>3. ASSUME NEW s \in Slots, Request(s), ~EnsureCurrentPeriod(s), ~RecordUsageCharge(s)
      PROVE  UNCHANGED row
    BY <1>3
    DEF Request, Arrive, CheckResponseCache, CheckOrgBudget, ReadCounter, CheckPeriod,
        RereadCounter, ProviderAnswers, ProviderFails, RecordOrgUsageCharge, Abort, dbVars
<1>4. ASSUME NEW d \in Removable, RemoveTeamMember(d) \/ RestoreTeamMember(d)
      PROVE  FALSE
    <2>1. PICK b : row' = [row EXCEPT ![d].removed = b]
        BY <1>4 DEF RemoveTeamMember, RestoreTeamMember
    <2>2. row'[c].budget = row[c].budget /\ row'[c].spend = row[c].spend
        BY <2>1 DEF TypeOK
    <2> QED
        BY <1>a, <2>2
<1>5. CASE ReadOrgSpend \/ ResetOrgSpend \/ Tick \/ UNCHANGED vars
    BY <1>5, <1>b DEF ReadOrgSpend, ResetOrgSpend, Tick, dbVars, vars
<1> QED
    BY <1>1, <1>2, <1>3, <1>4, <1>5, <1>b DEF Next

\* ensure_current_period under concurrency: with any number of requests racing
\* for the same boundary, members removed and restored meanwhile, no budget is
\* credited and no counter zeroed twice for one boundary.
THEOREM BoundaryOnce ==
    ASSUME Viewers = {}
    PROVE  Spec => BoundaryAppliedOnce
<1>1. ASSUME TypeOK, [Next]_vars, NEW c \in Members,
             row'[c].spend < row[c].spend \/ row'[c].budget # row[c].budget
      PROVE  started' > started
    BY <1>1, OnlyCrossingsCredit, CrossingAdvances
<1>2. TypeOK /\ [Next]_vars =>
        [(\E c \in Members : \/ row'[c].spend < row[c].spend
                             \/ row'[c].budget # row[c].budget)
         => started' > started]_vars
    BY <1>1
<1> QED
    BY <1>2, TypeCorrect, PTL DEF Spec, BoundaryAppliedOnce

\* What a request knows of the period: the start it read is not after the
\* team's, and after a crossing of its own the period holds its clock.
Abreast(r, st) ==
    /\ r.pc = "period" => r.started <= st
    /\ r.pc = "reread" => r.now < ComputePeriodEnd(st)
PeriodsKnown == \A s \in Slots : Abreast(req[s], started)

\* A period that moves on leaves what the requests know true.
LEMMA AbreastLater ==
    ASSUME NEW r \in Requests, NEW m \in Nat, NEW n \in Nat, m <= n, Abreast(r, m)
    PROVE  Abreast(r, n)
<1>1. ComputePeriodEnd(m) \in Nat /\ ComputePeriodEnd(n) \in Nat
      /\ ComputePeriodEnd(m) <= ComputePeriodEnd(n)
    BY PeriodEndGrows
<1>2. r.started \in Nat /\ r.now \in Nat
    BY DEF Requests
<1> QED
    BY <1>1, <1>2 DEF Abreast

\* Requests at any other place know nothing of it.
LEMMA AbreastElsewhere ==
    ASSUME NEW r, NEW m, r.pc \notin {"period", "reread"}
    PROVE  Abreast(r, m)
BY DEF Abreast

\* A step of one slot that leaves the period alone.
LEMMA MovesAbreast ==
    ASSUME TypeOK, PeriodsKnown, NEW s \in Slots, NEW r, Moves(s, r),
           UNCHANGED started, Abreast(r, started)
    PROVE  PeriodsKnown'
BY DEF Moves, PeriodsKnown, TypeOK

\* A verdict is the last a request hears of the period.
LEMMA DecideAbreast ==
    ASSUME TypeOK, NEW s \in Slots, NEW b, NEW x, Decide(s, b, x)
    PROVE  \E r : Moves(s, r) /\ Abreast(r, started)
<1>1. /\ [req[s] EXCEPT !.pc = "calling", !.budget = NoBudget,
                        !.spend = 0, !.started = 0, !.now = 0].pc = "calling"
      /\ Resting("blocked").pc = "blocked"
    BY DEF TypeOK, Requests, Resting
<1> QED
    BY <1>1, AbreastElsewhere DEF Decide

\* PeriodsKnown is inductive on the gateway's path.
LEMMA PeriodsInductive ==
    ASSUME Viewers = {}
    PROVE  TypeOK /\ TypeOK' /\ PeriodsKnown /\ [Next]_vars => PeriodsKnown'
<1> SUFFICES ASSUME TypeOK, TypeOK', PeriodsKnown, [Next]_vars
             PROVE  PeriodsKnown'
    OBVIOUS
<1>a. \A pc \in RestingPcs : \A m : Abreast(Resting(pc), m)
    BY AbreastElsewhere DEF Resting, RestingPcs
<1>1. ASSUME NEW s \in Slots, NEW c \in Callers, Arrive(s, c) PROVE PeriodsKnown'
    <2>1. [Resting("lookup") EXCEPT !.caller = c, !.late = row[c].removed].pc = "lookup"
        BY DEF Resting
    <2> QED
        BY <1>1, <2>1, AbreastElsewhere, MovesAbreast DEF Arrive, dbVars
<1>2. ASSUME NEW s \in Slots, CheckResponseCache(s) PROVE PeriodsKnown'
    <2>1. /\ [Resting("answered") EXCEPT !.late = req[s].late].pc = "answered"
          /\ [req[s] EXCEPT !.pc = "org"].pc = "org"
        BY DEF Resting, TypeOK, Requests
    <2> QED
        BY <1>2, <2>1, AbreastElsewhere, MovesAbreast DEF CheckResponseCache, dbVars
<1>3. ASSUME NEW s \in Slots, CheckOrgBudget(s) PROVE PeriodsKnown'
    <2>1. [req[s] EXCEPT !.pc = "counter"].pc = "counter" /\ Abreast(Resting("blocked"), started)
        BY <1>a DEF TypeOK, Requests, RestingPcs
    <2> QED
        BY <1>3, <2>1, AbreastElsewhere, MovesAbreast DEF CheckOrgBudget, dbVars
<1>4. ASSUME NEW s \in Slots, ReadCounter(s) PROVE PeriodsKnown'
    <2> DEFINE q == [req[s] EXCEPT !.pc = "period", !.budget = row[req[s].caller].budget,
                                   !.spend = row[req[s].caller].spend, !.started = started]
    <2>1. Abreast(q, started) /\ Abreast(Resting("forbidden"), started)
        <3>1. q.pc = "period" /\ q.started = started /\ started \in Nat
            BY DEF TypeOK, Requests
        <3> HIDE DEF q
        <3> QED
            BY <1>a, <3>1 DEF Abreast, RestingPcs
    <2>2. \E r : Moves(s, r) /\ Abreast(r, started)
        BY <1>4, <2>1, DecideAbreast DEF ReadCounter
    <2> QED
        BY <1>4, <2>2, MovesAbreast DEF ReadCounter, dbVars
<1>5. ASSUME NEW s \in Slots, CheckPeriod(s) PROVE PeriodsKnown'
    <2>1. [req[s] EXCEPT !.pc = "lock", !.now = month].pc = "lock"
        BY DEF TypeOK, Requests
    <2>2. \E r : Moves(s, r) /\ Abreast(r, started)
        BY <1>5, <2>1, AbreastElsewhere, DecideAbreast DEF CheckPeriod
    <2> QED
        BY <1>5, <2>2, MovesAbreast DEF CheckPeriod, dbVars
<1>6. ASSUME NEW s \in Slots, EnsureCurrentPeriod(s) PROVE PeriodsKnown'
    <2>1. CASE Decide(s, req[s].budget, req[s].spend) /\ UNCHANGED dbVars
        BY <2>1, DecideAbreast, MovesAbreast DEF dbVars
    <2>2. CASE Crossing(s)
        <3>1. started \in Nat /\ started' \in Nat /\ started <= started'
            BY <2>2, CrossingAdvances DEF TypeOK
        <3>2. ASSUME NEW x \in Slots, x # s PROVE Abreast(req'[x], started')
            <4>1. req'[x] = req[x] /\ req[x] \in Requests /\ Abreast(req[x], started)
                BY <2>2, <3>2 DEF Crossing, Moves, TypeOK, PeriodsKnown
            <4> QED
                BY <3>1, <4>1, AbreastLater
        <3>3. Abreast(req'[s], started')
            <4>1. req'[s] = [req[s] EXCEPT !.pc = "reread", !.budget = NoBudget,
                                           !.spend = 0, !.started = 0]
                BY <2>2 DEF Crossing, Moves, TypeOK
            <4>2. req'[s].pc = "reread" /\ req'[s].now = req[s].now
                BY <4>1 DEF TypeOK, Requests
            <4> QED
                BY <2>2, <4>2, CrossingAdvances DEF Abreast
        <3> QED
            BY <3>2, <3>3 DEF PeriodsKnown
    <2> QED
        BY <1>6, <2>1, <2>2 DEF EnsureCurrentPeriod, Crossing
<1>7. ASSUME NEW s \in Slots, RereadCounter(s) PROVE PeriodsKnown'
    <2>1. Abreast(Resting("forbidden"), started)
        BY <1>a DEF RestingPcs
    <2>2. \E r : Moves(s, r) /\ Abreast(r, started)
        BY <1>7, <2>1, DecideAbreast DEF RereadCounter
    <2> QED
        BY <1>7, <2>2, MovesAbreast DEF RereadCounter, dbVars
<1>8. ASSUME NEW s \in Slots, ProviderAnswers(s) PROVE PeriodsKnown'
    <2>1. PICK cost \in 0 .. MaxCost : Moves(s, [req[s] EXCEPT !.pc = "charging", !.cost = cost])
        BY <1>8 DEF ProviderAnswers
    <2>2. [req[s] EXCEPT !.pc = "charging", !.cost = cost].pc = "charging" /\ UNCHANGED started
        BY <1>8 DEF ProviderAnswers, dbVars, TypeOK, Requests
    <2> QED
        BY <2>1, <2>2, AbreastElsewhere, MovesAbreast
<1>12. ASSUME NEW s \in Slots, RecordUsageCharge(s) PROVE PeriodsKnown'
    <2>1. [req[s] EXCEPT !.pc = "charged"].pc = "charged"
        BY DEF TypeOK, Requests
    <2> QED
        BY <1>12, <2>1, AbreastElsewhere, MovesAbreast DEF RecordUsageCharge
<1>9. ASSUME NEW s \in Slots, ProviderFails(s) \/ RecordOrgUsageCharge(s) \/ Abort(s)
      PROVE  PeriodsKnown'
    <2>1. Moves(s, Resting("idle")) /\ UNCHANGED started
        BY <1>9 DEF ProviderFails, RecordOrgUsageCharge, Abort, dbVars
    <2> QED
        BY <1>a, <2>1, MovesAbreast DEF RestingPcs
<1>10. ASSUME NEW c \in Removable, RemoveTeamMember(c) \/ RestoreTeamMember(c)
       PROVE  PeriodsKnown'
    <2>1. UNCHANGED started
        BY <1>10 DEF RemoveTeamMember, RestoreTeamMember
    <2>2. ASSUME NEW s \in Slots PROVE Abreast(req'[s], started)
        <3>1. req'[s] = req[s] \/ req'[s] = [req[s] EXCEPT !.late = FALSE]
            BY <1>10 DEF RemoveTeamMember, RestoreTeamMember
        <3>2. /\ req'[s].pc = req[s].pc /\ req'[s].started = req[s].started
              /\ req'[s].now = req[s].now
            BY <3>1 DEF TypeOK, Requests
        <3> QED
            BY <3>2 DEF PeriodsKnown, Abreast
    <2> QED
        BY <2>1, <2>2 DEF PeriodsKnown
<1>11. CASE ReadOrgSpend \/ ResetOrgSpend \/ Tick \/ UNCHANGED vars
    BY <1>11 DEF ReadOrgSpend, ResetOrgSpend, Tick, dbVars, vars, PeriodsKnown
<1> QED
    BY <1>1, <1>2, <1>3, <1>4, <1>5, <1>6, <1>7, <1>8, <1>9, <1>10, <1>11, <1>12 DEF Next, Request

\* Every step of a request writes its own slot.
LEMMA RequestMoves ==
    ASSUME NEW s \in Slots, Request(s)
    PROVE  \E r : Moves(s, r)
BY DEF Request, Arrive, CheckResponseCache, CheckOrgBudget, ReadCounter, CheckPeriod,
       EnsureCurrentPeriod, RereadCounter, ProviderAnswers, ProviderFails, Decide,
       RecordUsageCharge, RecordOrgUsageCharge, Abort

\* So a request that changes place took a step itself.
LEMMA OwnStep ==
    ASSUME TypeOK, [Next]_vars, NEW s \in Slots, req'[s].pc # req[s].pc
    PROVE  Request(s)
<1>1. ASSUME NEW x \in Slots, Request(x), x # s PROVE FALSE
    BY <1>1, RequestMoves DEF Moves, TypeOK
<1>2. ASSUME NEW c \in Removable, RestoreTeamMember(c) PROVE FALSE
    <2>1. req'[s] = req[s] \/ req'[s] = [req[s] EXCEPT !.late = FALSE]
        BY <1>2 DEF RestoreTeamMember
    <2> QED
        BY <2>1 DEF TypeOK, Requests
<1>3. ASSUME NEW v \in Viewers, View(v) PROVE FALSE
    BY <1>3 DEF View, LoadTeam, CheckViewedPeriod, EnsureViewedPeriod
<1>4. ASSUME NEW c \in Removable, RemoveTeamMember(c) PROVE FALSE
    BY <1>4 DEF RemoveTeamMember
<1>5. CASE ReadOrgSpend \/ ResetOrgSpend \/ Tick \/ UNCHANGED vars
    BY <1>5 DEF ReadOrgSpend, ResetOrgSpend, Tick, vars
<1> QED
    BY <1>1, <1>2, <1>3, <1>4, <1>5 DEF Next

\* The clock a request compared the period with.
ClockOf(s) == IF req[s].pc = "period" THEN month ELSE req[s].now

\* A verdict that lets a request through comes after a look at the period.
LEMMA AdmittedStep ==
    ASSUME TypeOK, PeriodsKnown, [Next]_vars, NEW s \in Slots,
           req'[s].pc = "calling", req[s].pc \in {"period", "lock", "reread"}
    PROVE  ClockOf(s) < ComputePeriodEnd(started)
<1>1. Request(s)
    BY OwnStep
<1>2. started \in Nat /\ month \in Nat /\ req[s] \in Requests /\ Abreast(req[s], started)
    BY DEF TypeOK, PeriodsKnown
<1>3. CASE req[s].pc = "period"
    <2>1. CheckPeriod(s) \/ Abort(s)
        BY <1>1, <1>3
        DEF Request, Arrive, CheckResponseCache, CheckOrgBudget, ReadCounter, RestingPcs,
            EnsureCurrentPeriod, RereadCounter, ProviderAnswers, ProviderFails,
            RecordUsageCharge, RecordOrgUsageCharge
    <2>2. \A r : Moves(s, r) => r.pc = "calling"
        BY DEF Moves, TypeOK
    <2>3. month < ComputePeriodEnd(req[s].started)
        <3>a. /\ Resting("idle").pc # "calling"
              /\ [req[s] EXCEPT !.pc = "lock", !.now = month].pc # "calling"
            BY <1>2 DEF Resting, Requests
        <3>1. /\ ~Moves(s, Resting("idle"))
              /\ ~Moves(s, [req[s] EXCEPT !.pc = "lock", !.now = month])
            BY <2>2, <3>a
        <3> QED
            BY <2>1, <3>1 DEF CheckPeriod, Abort
    <2>4. req[s].started <= started /\ req[s].started \in Nat
        BY <1>2, <1>3 DEF Abreast, Requests
    <2>5. /\ ComputePeriodEnd(req[s].started) \in Nat /\ ComputePeriodEnd(started) \in Nat
          /\ ComputePeriodEnd(req[s].started) <= ComputePeriodEnd(started)
        BY <1>2, <2>4, PeriodEndGrows
    <2> QED
        BY <1>2, <1>3, <2>3, <2>5 DEF ClockOf
<1>4. CASE req[s].pc = "lock"
    <2>1. EnsureCurrentPeriod(s) \/ Abort(s)
        BY <1>1, <1>4
        DEF Request, Arrive, CheckResponseCache, CheckOrgBudget, ReadCounter, RestingPcs,
            CheckPeriod, RereadCounter, ProviderAnswers, ProviderFails,
            RecordUsageCharge, RecordOrgUsageCharge
    <2>2. \A r : Moves(s, r) => r.pc = "calling"
        BY DEF Moves, TypeOK
    <2>3. req[s].now < ComputePeriodEnd(started)
        <3>a. /\ Resting("idle").pc # "calling"
              /\ [req[s] EXCEPT !.pc = "reread", !.budget = NoBudget,
                                  !.spend = 0, !.started = 0].pc # "calling"
            BY <1>2 DEF Resting, Requests
        <3>1. /\ ~Moves(s, Resting("idle"))
              /\ ~Moves(s, [req[s] EXCEPT !.pc = "reread", !.budget = NoBudget,
                                          !.spend = 0, !.started = 0])
            BY <2>2, <3>a
        <3> QED
            BY <2>1, <3>1 DEF EnsureCurrentPeriod, Abort
    <2> QED
        BY <1>4, <2>3 DEF ClockOf
<1>5. CASE req[s].pc = "reread"
    BY <1>2, <1>5 DEF ClockOf, Abreast
<1> QED
    BY <1>3, <1>4, <1>5

\* check_budget_available on a team path: however the boundaries race, a request
\* is let through only when the team's period holds the month it looked at.
THEOREM AdmittedOnTime ==
    ASSUME Viewers = {}
    PROVE  Spec => AdmittedInCurrentPeriod
<1>1. Init => PeriodsKnown
    BY DEF Init, PeriodsKnown, Abreast, Resting
<1>2. TypeOK /\ TypeOK' /\ PeriodsKnown /\ [Next]_vars => PeriodsKnown'
    BY PeriodsInductive
<1>3. TypeOK /\ PeriodsKnown /\ [Next]_vars =>
        [\A s \in Slots :
           (req'[s].pc = "calling" /\ req[s].pc \in {"period", "lock", "reread"})
           => (IF req[s].pc = "period" THEN month ELSE req[s].now)
                  < ComputePeriodEnd(started)]_vars
    BY AdmittedStep DEF ClockOf
<1> QED
    BY <1>1, <1>2, <1>3, TypeCorrect, PTL DEF Spec, AdmittedInCurrentPeriod

-----------------------------------------------------------------------------
(* Removal.                                                                *)

\* A request that arrived after the removal of its member has not got past the
\* counter: the member is removed still, or late would have been cleared.
HeldBack(r) ==
    r.late /\ r.pc \notin RestingPcs =>
        /\ row[r.caller].removed
        /\ r.pc \in {"lookup", "org", "counter"}
Removals ==
    /\ \A c \in Callers : row[c].removed => c \in Removable
    /\ \A s \in Slots : HeldBack(req[s])

\* A step that moves one request on and removes or restores nobody.
LEMMA MovesRemovals ==
    ASSUME TypeOK, TypeOK', Removals, NEW s \in Slots, NEW r, Moves(s, r),
           \A c \in Callers : row'[c].removed = row[c].removed, HeldBack(r)
    PROVE  Removals'
<1>1. \A c \in Callers : row'[c].removed => c \in Removable
    BY DEF Removals
<1>2. req'[s] = r /\ \A x \in Slots \ {s} : req'[x] = req[x]
    BY DEF Moves, TypeOK
<1>3. ASSUME NEW x \in Slots, req'[x].late, req'[x].pc \notin RestingPcs
      PROVE  row'[req'[x].caller].removed /\ req'[x].pc \in {"lookup", "org", "counter"}
    <2>1. HeldBack(req'[x])
        BY <1>2 DEF Removals
    <2>2. req'[x].caller \in Callers
        BY <1>3 DEF TypeOK
    <2> QED
        BY <1>3, <2>1, <2>2 DEF HeldBack
<1> QED
    BY <1>1, <1>3 DEF Removals, HeldBack

\* A request that is not late, or rests, is not held back.
LEMMA FreeToGo ==
    ASSUME NEW r, ~r.late \/ r.pc \in RestingPcs
    PROVE  HeldBack(r)
BY DEF HeldBack

\* After the counter no request is late.
LEMMA OnTime ==
    ASSUME Removals, NEW s \in Slots, req[s].pc \notin RestingPcs,
           req[s].pc \notin {"lookup", "org", "counter"}
    PROVE  ~req[s].late
BY DEF Removals, HeldBack

\* A verdict for a request that is not late.
LEMMA DecideRemovals ==
    ASSUME TypeOK, NEW s \in Slots, ~req[s].late, NEW b, NEW x, Decide(s, b, x)
    PROVE  \E r : Moves(s, r) /\ HeldBack(r)
<1>1. ~[req[s] EXCEPT !.pc = "calling", !.budget = NoBudget,
                      !.spend = 0, !.started = 0, !.now = 0].late
    BY DEF TypeOK, Requests
<1>2. Resting("blocked").pc \in RestingPcs
    BY DEF Resting, RestingPcs
<1> QED
    BY <1>1, <1>2, FreeToGo DEF Decide

\* Removals is inductive: one step per action.
LEMMA RemovalsInductive == TypeOK /\ TypeOK' /\ Removals /\ [Next]_vars => Removals'
<1> SUFFICES ASSUME TypeOK, TypeOK', Removals, [Next]_vars
             PROVE  Removals'
    OBVIOUS
<1>a. \A pc \in RestingPcs : HeldBack(Resting(pc))
    BY FreeToGo DEF Resting, RestingPcs
<1>b. UNCHANGED row => \A c \in Callers : row'[c].removed = row[c].removed
    OBVIOUS
<1>c. ASSUME NEW m, NEW x, NEW now, Cross(m, x, now), NEW c \in Callers
      PROVE  row'[c].removed = row[c].removed
    <2>1. \/ row'[c] = row[c]
          \/ row'[c] = [row[c] EXCEPT !.budget = ApplyPeriodEnd(@, row[c].spend), !.spend = 0]
        BY <1>c DEF Cross
    <2> QED
        BY <2>1 DEF TypeOK
<1>1. ASSUME NEW s \in Slots, NEW c \in Callers, Arrive(s, c) PROVE Removals'
    <2> DEFINE r == [Resting("lookup") EXCEPT !.caller = c, !.late = row[c].removed]
    <2>1. r.pc = "lookup" /\ r.caller = c /\ r.late = row[c].removed
        BY DEF Resting
    <2>2. Moves(s, r) /\ UNCHANGED row
        BY <1>1 DEF Arrive, dbVars
    <2> HIDE DEF r
    <2> QED
        BY <1>b, <2>1, <2>2, MovesRemovals DEF HeldBack
<1>2. ASSUME NEW s \in Slots, CheckResponseCache(s) PROVE Removals'
    <2> DEFINE r == [req[s] EXCEPT !.pc = "org"]
               q == [Resting("answered") EXCEPT !.late = req[s].late]
    <2>1. r.pc = "org" /\ r.caller = req[s].caller /\ r.late = req[s].late /\ q.pc = "answered"
        BY DEF Resting, TypeOK, Requests
    <2>2. (Moves(s, r) \/ Moves(s, q)) /\ UNCHANGED row /\ req[s].pc = "lookup"
        BY <1>2 DEF CheckResponseCache, dbVars
    <2> HIDE DEF r, q
    <2>3. HeldBack(r) /\ HeldBack(q)
        BY <2>1, <2>2, FreeToGo DEF HeldBack, Removals, RestingPcs
    <2> QED
        BY <1>b, <2>2, <2>3, MovesRemovals
<1>3. ASSUME NEW s \in Slots, CheckOrgBudget(s) PROVE Removals'
    <2> DEFINE r == [req[s] EXCEPT !.pc = "counter"]
    <2>1. r.pc = "counter" /\ r.caller = req[s].caller /\ r.late = req[s].late
        BY DEF TypeOK, Requests
    <2>2. (Moves(s, r) \/ Moves(s, Resting("blocked"))) /\ UNCHANGED row /\ req[s].pc = "org"
        BY <1>3 DEF CheckOrgBudget, dbVars
    <2> HIDE DEF r
    <2>3. HeldBack(r) /\ HeldBack(Resting("blocked"))
        BY <1>a, <2>1, <2>2 DEF HeldBack, Removals, RestingPcs
    <2> QED
        BY <1>b, <2>2, <2>3, MovesRemovals
<1>4. ASSUME NEW s \in Slots, ReadCounter(s) PROVE Removals'
    <2>1. PICK c \in Callers : c = req[s].caller
        BY <1>4 DEF ReadCounter, TypeOK, RestingPcs
    <2> DEFINE r == [req[s] EXCEPT !.pc = "period", !.budget = row[c].budget,
                                   !.spend = row[c].spend, !.started = started]
    <2>2. UNCHANGED row /\ req[s].pc = "counter"
        BY <1>4 DEF ReadCounter, dbVars
    <2>3. r.late = req[s].late
        BY DEF TypeOK, Requests
    <2>4. ~row[c].removed => ~req[s].late
        BY <2>1, <2>2 DEF Removals, HeldBack, RestingPcs
    <2>5. c \in FlatUsers => ~row[c].removed
        BY CallersAssumption DEF Removals
    <2>6. \/ c \in FlatUsers /\ Decide(s, row[c].budget, row[c].spend)
          \/ Moves(s, Resting("forbidden"))
          \/ ~row[c].removed /\ Moves(s, r)
        BY <1>4, <2>1 DEF ReadCounter
    <2> HIDE DEF r
    <2>7. \E q : Moves(s, q) /\ HeldBack(q)
        BY <1>a, <2>3, <2>4, <2>5, <2>6, FreeToGo, DecideRemovals DEF RestingPcs
    <2> QED
        BY <1>b, <2>2, <2>7, MovesRemovals
<1>5. ASSUME NEW s \in Slots, CheckPeriod(s) PROVE Removals'
    <2>1. ~req[s].late /\ UNCHANGED row
        BY <1>5, OnTime DEF CheckPeriod, RestingPcs, dbVars
    <2>2. ~[req[s] EXCEPT !.pc = "lock", !.now = month].late
        BY <2>1 DEF TypeOK, Requests
    <2>3. \E r : Moves(s, r) /\ HeldBack(r)
        BY <1>5, <2>1, <2>2, FreeToGo, DecideRemovals DEF CheckPeriod
    <2> QED
        BY <1>b, <2>1, <2>3, MovesRemovals
<1>6. ASSUME NEW s \in Slots, EnsureCurrentPeriod(s) PROVE Removals'
    <2>1. ~req[s].late
        BY <1>6, OnTime DEF EnsureCurrentPeriod, RestingPcs
    <2>2. ~[req[s] EXCEPT !.pc = "reread", !.budget = NoBudget, !.spend = 0, !.started = 0].late
        BY <2>1 DEF TypeOK, Requests
    <2>3. \E r : Moves(s, r) /\ HeldBack(r)
        BY <1>6, <2>1, <2>2, FreeToGo, DecideRemovals DEF EnsureCurrentPeriod
    <2>4. \A c \in Callers : row'[c].removed = row[c].removed
        BY <1>6, <1>b, <1>c DEF EnsureCurrentPeriod, dbVars
    <2> QED
        BY <2>3, <2>4, MovesRemovals
<1>7. ASSUME NEW s \in Slots, RereadCounter(s) PROVE Removals'
    <2>1. ~req[s].late /\ UNCHANGED row
        BY <1>7, OnTime DEF RereadCounter, RestingPcs, dbVars
    <2>2. HeldBack(Resting("forbidden"))
        BY <1>a DEF RestingPcs
    <2>3. \E r : Moves(s, r) /\ HeldBack(r)
        BY <1>7, <2>1, <2>2, DecideRemovals DEF RereadCounter
    <2> QED
        BY <1>b, <2>1, <2>3, MovesRemovals
<1>8. ASSUME NEW s \in Slots, ProviderAnswers(s) PROVE Removals'
    <2>1. ~req[s].late /\ UNCHANGED row
        BY <1>8, OnTime DEF ProviderAnswers, RestingPcs, dbVars
    <2>2. PICK cost \in 0 .. MaxCost : Moves(s, [req[s] EXCEPT !.pc = "charging", !.cost = cost])
        BY <1>8 DEF ProviderAnswers
    <2>3. ~[req[s] EXCEPT !.pc = "charging", !.cost = cost].late
        BY <2>1 DEF TypeOK, Requests
    <2> QED
        BY <1>b, <2>1, <2>2, <2>3, FreeToGo, MovesRemovals
<1>9. ASSUME NEW s \in Slots, RecordUsageCharge(s) PROVE Removals'
    <2>1. ~req[s].late
        BY <1>9, OnTime DEF RecordUsageCharge, RestingPcs
    <2>2. ~[req[s] EXCEPT !.pc = "charged"].late
        BY <2>1 DEF TypeOK, Requests
    <2>3. PICK d, cost : row' = [row EXCEPT ![d].spend = @ + cost]
        BY <1>9 DEF RecordUsageCharge
    <2>4. \A c \in Callers : row'[c].removed = row[c].removed
        BY <2>3 DEF TypeOK
    <2> QED
        BY <1>9, <2>2, <2>4, FreeToGo, MovesRemovals DEF RecordUsageCharge
<1>10. ASSUME NEW s \in Slots, ProviderFails(s) \/ RecordOrgUsageCharge(s) \/ Abort(s)
       PROVE  Removals'
    <2>1. Moves(s, Resting("idle")) /\ UNCHANGED row
        BY <1>10 DEF ProviderFails, RecordOrgUsageCharge, Abort, dbVars
    <2> QED
        BY <1>a, <1>b, <2>1, MovesRemovals DEF RestingPcs
<1>d. ASSUME UNCHANGED req, \A c \in Callers : row'[c].removed = row[c].removed PROVE Removals'
    <2>1. ASSUME NEW s \in Slots, req[s].late, req[s].pc \notin RestingPcs
          PROVE  row'[req[s].caller].removed /\ req[s].pc \in {"lookup", "org", "counter"}
        BY <1>d, <2>1 DEF Removals, HeldBack, TypeOK
    <2> QED
        BY <1>d, <2>1 DEF Removals, HeldBack
<1>11. ASSUME NEW v \in Viewers, View(v) PROVE Removals'
    BY <1>11, <1>b, <1>c, <1>d
    DEF View, LoadTeam, CheckViewedPeriod, EnsureViewedPeriod, dbVars
<1>12. ASSUME NEW d \in Removable, RemoveTeamMember(d) PROVE Removals'
    <2>1. ASSUME NEW c \in Callers
          PROVE  (row[c].removed => row'[c].removed) /\ (row'[c].removed => c = d \/ row[c].removed)
        BY <1>12 DEF RemoveTeamMember, TypeOK
    <2>2. ASSUME NEW s \in Slots, req[s].late, req[s].pc \notin RestingPcs
          PROVE  row'[req[s].caller].removed /\ req[s].pc \in {"lookup", "org", "counter"}
        BY <2>1, <2>2 DEF Removals, HeldBack, TypeOK
    <2>3. UNCHANGED req
        BY <1>12 DEF RemoveTeamMember
    <2> QED
        BY <2>1, <2>2, <2>3 DEF Removals, HeldBack
<1>13. ASSUME NEW d \in Removable, RestoreTeamMember(d) PROVE Removals'
    <2>1. ASSUME NEW c \in Callers PROVE row'[c].removed = (c # d /\ row[c].removed)
        BY <1>13 DEF RestoreTeamMember, TypeOK
    <2>2. ASSUME NEW s \in Slots PROVE HeldBack(req[s])'
        <3>1. CASE req[s].caller = d
            <4>1. req'[s] = [req[s] EXCEPT !.late = FALSE]
                BY <1>13, <3>1 DEF RestoreTeamMember
            <4>2. ~req'[s].late
                BY <4>1 DEF TypeOK, Requests
            <4> QED
                BY <4>2 DEF HeldBack
        <3>2. CASE req[s].caller # d
            <4>1. req'[s] = req[s]
                BY <1>13, <3>2 DEF RestoreTeamMember
            <4> QED
                BY <2>1, <3>2, <4>1 DEF HeldBack, Removals, TypeOK
        <3> QED
            BY <3>1, <3>2
    <2> QED
        BY <2>1, <2>2 DEF Removals
<1>14. CASE ReadOrgSpend \/ ResetOrgSpend \/ Tick \/ UNCHANGED vars
    BY <1>14, <1>b, <1>d DEF ReadOrgSpend, ResetOrgSpend, Tick, dbVars, vars
<1> QED
    BY <1>1, <1>2, <1>3, <1>4, <1>5, <1>6, <1>7, <1>8, <1>9, <1>10,
       <1>11, <1>12, <1>13, <1>14 DEF Next, Request

\* A late request goes to the next check or ends unanswered.
LEMMA LateStep ==
    ASSUME TypeOK, Removals, Removable \cap Cached = {}, [Next]_vars, NEW s \in Slots,
           req[s].late, req[s].pc \notin RestingPcs
    PROVE  req'[s].pc \notin {"answered", "calling"}
<1> SUFFICES ASSUME req'[s].pc \in {"answered", "calling"}
             PROVE  FALSE
    OBVIOUS
<1>1. PICK c \in Callers : c = req[s].caller
    BY DEF TypeOK
<1>2. /\ row[c].removed /\ c \in Removable /\ c \notin Cached
      /\ c \in Members /\ c \notin FlatUsers
      /\ req[s].pc \in {"lookup", "org", "counter"}
    BY <1>1, CallersAssumption DEF Removals, HeldBack
<1>3. Request(s)
    BY <1>2, OwnStep
<1>4. CheckResponseCache(s) \/ CheckOrgBudget(s) \/ ReadCounter(s) \/ Abort(s)
    BY <1>2, <1>3
    DEF Request, Arrive, RestingPcs, CheckPeriod, EnsureCurrentPeriod, RereadCounter,
        ProviderAnswers, ProviderFails, RecordUsageCharge, RecordOrgUsageCharge
<1>5. \A r : Moves(s, r) => r.pc \in {"answered", "calling"}
    BY DEF Moves, TypeOK
<1>6. /\ [req[s] EXCEPT !.pc = "org"].pc = "org"
      /\ [req[s] EXCEPT !.pc = "counter"].pc = "counter"
      /\ \A pc \in RestingPcs : Resting(pc).pc = pc
    BY DEF TypeOK, Requests, Resting
<1>7. /\ ~Moves(s, [req[s] EXCEPT !.pc = "org"])
      /\ ~Moves(s, [req[s] EXCEPT !.pc = "counter"])
      /\ ~Moves(s, Resting("idle")) /\ ~Moves(s, Resting("blocked"))
      /\ ~Moves(s, Resting("forbidden"))
    BY <1>5, <1>6 DEF RestingPcs
<1> QED
    BY <1>1, <1>2, <1>4, <1>7 DEF CheckResponseCache, CheckOrgBudget, ReadCounter, Abort

\* remove_team_member takes effect on the next request, races included: with no
\* warm cache entry to answer from, a request that arrived after the removal
\* reaches no provider unless the member is restored meanwhile.
THEOREM RemovalIsImmediate ==
    ASSUME Removable \cap Cached = {}
    PROVE  Spec => RemovalCutsAccess
<1>1. Init => Removals
    BY DEF Init, Removals, HeldBack, Resting, RestingPcs
<1>2. TypeOK /\ Removals /\ [Next]_vars =>
        [\A s \in Slots :
           (req[s].late /\ req[s].pc \notin RestingPcs)
           => req'[s].pc \notin {"answered", "calling"}]_vars
    BY LateStep
<1> QED
    BY <1>1, <1>2, RemovalsInductive, TypeCorrect, PTL DEF Spec, RemovalCutsAccess

-----------------------------------------------------------------------------
(* Rate limits.  What is inductive is how far the counter of a meter       *)
(* accounts for what passed lately: all of it that is younger than the     *)
(* counter's window, and before that no more than one window lets pass,    *)
(* and one more for each restart that lost a counter.                      *)

CheckType == [scope : Scopes, key : Keys, axis : Axes, limit : Nat, queue : BOOLEAN]
ChecksOf(u) == {c \in CheckType : /\ c.key = <<Meter(c.scope, u), c.axis>>
                                  /\ c.axis = "requests" => c.limit <= LargestLimit(c.scope)}
TokenChecks(u) == {c \in ChecksOf(u) : c.axis = "tokens"}
CallType == [pc : {"rest", "refused", "check", "call", "queue", "charge"},
             user : Users \cup {None}, team : Teams \cup {None}, todo : Seq(CheckType),
             queued : BOOLEAN, polls : Nat]

\* A request's store calls are for meters of its own user.
CallOk(q) ==
    /\ q \in CallType
    /\ q.pc \notin Outcomes => q.user \in Users
    /\ q.pc \in {"check", "charge"} => q.todo # <<>>
    /\ q.pc \notin {"check", "charge"} => q.todo = <<>>
    /\ q.pc = "check" => q.todo \in Seq(ChecksOf(q.user))
    /\ q.pc = "charge" => q.todo \in Seq(TokenChecks(q.user))

RuleTypes ==
    /\ rule \in [Scopes -> Rules \cup {None}] /\ cached \in [Scopes -> Rules \cup {None}]
    /\ admin \in [Admins -> {Idle} \cup [scope : Scopes, value : Rules \cup {None}]]
CallTypes == DOMAIN call = Calls /\ \A r \in Calls : CallOk(call[r])
Counter == [count : Nat, until : Nat]
CounterTypes ==
    /\ counter \in [Keys -> {None} \cup Counter]
    /\ clock \in Time /\ restarts \in Nat
    /\ passed \in [Meters -> [Time -> Nat]]

\* What passed since t until n, and the times whose stretch has not ended at n.
Since(f, t, n) == SumFunctionOnSet(f, t..n)
Late(n) == {t \in Time : t <= n /\ n < t + Window}

\* The counter c accounts for what f says passed until n, after R restarts.
Accounts(c, f, L, n, R) ==
    IF c = None
    THEN \A t \in Late(n) : Since(f, t, n) = 0 \/ Since(f, t, n) < (1 + R) * L
    ELSE /\ 1 <= c.count /\ c.count <= L /\ c.until <= n + Window
         /\ \A t \in Late(n) :
              /\ c.until < t + Window => Since(f, t, n) < c.count
              /\ t + Window <= c.until => Since(f, t, n) < (1 + R) * L + c.count
ReqKey(m) == <<m, "requests">>
WindowsCount ==
    \A m \in Meters : Accounts(counter[ReqKey(m)], passed[m], LargestLimit(m[1]), clock, restarts)
NothingAhead == \A m \in Meters, t \in Time : t > clock => passed[m][t] = 0


\* A finite set of rules has a largest limit.
LEMMA LargestRequests ==
    ASSUME NEW D, IsFiniteSet(D), \A x \in D : x.requests \in Nat
    PROVE  \E b \in Nat : /\ b \in {0} \cup {x.requests : x \in D}
                          /\ \A x \in D : x.requests <= b
<1> DEFINE Good(T) == \E b \in Nat : /\ b \in {0} \cup {x.requests : x \in T}
                                     /\ \A x \in T : x.requests <= b
           Bad == {T \in SUBSET D : ~Good(T)}
<1>1. ASSUME Bad # {} PROVE FALSE
  <2>1. PICK T \in Bad : \A U \in Bad : U \subseteq T => U = T
    <3>1. Bad \in SUBSET (SUBSET D)
      OBVIOUS
    <3> HIDE DEF Bad
    <3> QED
      BY <1>1, <3>1, SmallestSubset
  <2>2. T # {}
    <3>1. Good({})
      OBVIOUS
    <3> QED
      BY <2>1, <3>1
  <2>3. PICK p \in T : TRUE
    BY <2>2
  <2>4. Good(T \ {p})
    <3>1. T \ {p} \in SUBSET D /\ T \ {p} \subseteq T /\ T \ {p} # T
      BY <2>1, <2>3
    <3> HIDE DEF Good
    <3> QED
      BY <2>1, <3>1
  <2>5. PICK b \in Nat : /\ b \in {0} \cup {x.requests : x \in T \ {p}}
                         /\ \A x \in T \ {p} : x.requests <= b
    BY <2>4
  <2>6. T \in SUBSET D /\ p.requests \in Nat
    BY <2>1, <2>3
  <2>7. CASE p.requests <= b
    <3>1. /\ b \in {0} \cup {x.requests : x \in T}
          /\ \A x \in T : x.requests <= b
      BY <2>5, <2>7
    <3>2. Good(T)
      BY <3>1
    <3> QED
      BY <2>1, <3>2
  <2>8. CASE ~(p.requests <= b)
    <3>1. /\ p.requests \in {0} \cup {x.requests : x \in T}
          /\ \A x \in T : x.requests <= p.requests
      BY <2>3, <2>5, <2>6, <2>8
    <3>2. Good(T)
      BY <2>6, <3>1
    <3> QED
      BY <2>1, <3>2
  <2> QED
    BY <2>7, <2>8
<1>2. D \notin Bad
  BY <1>1
<1> QED
  BY <1>2

\* LargestLimit is a number, and no limit of the scope's rules is larger.
LEMMA LargestLimitIs ==
    ASSUME NEW s \in Scopes
    PROVE  /\ LargestLimit(s) \in Nat
           /\ \A x \in Rules \cup {InitialRule[s]} :
                 x # None /\ x.requests # None => x.requests <= LargestLimit(s)
<1> DEFINE D == {x \in Rules \cup {InitialRule[s]} : x # None /\ x.requests # None}
           M == {0} \cup {rl.requests : rl \in D}
<1>1. D \subseteq Rules /\ \A x \in D : x.requests \in Nat
  <2>1. InitialRule[s] \in Rules \cup {None} /\ Rules \subseteq RateLimitRules
    BY RateAssumption
  <2> QED
    BY <2>1 DEF RateLimitRules, Limits
<1>2. IsFiniteSet(D)
  BY <1>1, RateAssumption, FS_Subset
<1>3. PICK b \in Nat : b \in M /\ \A x \in D : x.requests <= b
  <2> HIDE DEF D
  <2> QED
    BY <1>1, <1>2, LargestRequests
<1>4. M \subseteq Nat
  BY <1>1
<1>5. \A y \in M : b >= y
  BY <1>3
<1>6. LargestLimit(s) = Max(M)
  BY DEF LargestLimit
<1>7. Max(M) \in M /\ \A y \in M : Max(M) >= y
  <2> HIDE DEF M
  <2> QED
    BY <1>3, <1>5 DEF Max
<1>8. \A x \in D : x.requests \in M
  OBVIOUS
<1> QED
  <2> HIDE DEF M
  <2>1. LargestLimit(s) \in Nat /\ \A x \in D : LargestLimit(s) >= x.requests
    BY <1>4, <1>6, <1>7, <1>8
  <2> QED
    BY <1>1, <2>1

\* A rule's meter is one of the meters, and known by its scope.
LEMMA MeterIs ==
    ASSUME NEW s \in Scopes, NEW u \in Users
    PROVE  Meter(s, u) \in Meters /\ Meter(s, u)[1] = s
BY DEF Meter, Meters, Scopes

\* The store call that a rule asks for is for a meter of its scope, within its limit.
LEMMA LimitOk ==
    ASSUME cached \in [Scopes -> Rules \cup {None}],
           NEW s \in Scopes, NEW u \in Users, NEW axis \in Axes
    PROVE  /\ cached[s] # None => cached[s].requests \in Nat \cup {None}
           /\ Limit(s, <<Meter(s, u), axis>>, axis, LimitsOf(s, axis))
                 \in Seq({c \in ChecksOf(u) : c.axis = axis})
<1> DEFINE n == LimitsOf(s, axis)
           c == [scope |-> s, key |-> <<Meter(s, u), axis>>, axis |-> axis, limit |-> n,
                 queue |-> cached[s].queue]
<1>1. cached[s] # None => cached[s] \in Rules /\ cached[s] \in RateLimitRules
  BY RateAssumption
<1>2. cached[s] # None => cached[s].requests \in Nat \cup {None}
  BY <1>1 DEF RateLimitRules, Limits
<1>3. CASE cached[s] = None \/ n = None
  <2>1. Limit(s, <<Meter(s, u), axis>>, axis, n) = <<>>
    BY <1>3 DEF Limit
  <2> QED
    BY <1>2, <2>1
<1>4. CASE ~(cached[s] = None \/ n = None)
  <2>1. n \in Nat /\ cached[s].queue \in BOOLEAN
    BY <1>1, <1>4 DEF LimitsOf, RateLimitRules, Limits, Axes
  <2>2. axis = "requests" => n <= LargestLimit(s)
    <3>1. axis = "requests" => n = cached[s].requests
      BY <1>4 DEF LimitsOf
    <3> HIDE DEF n
    <3> QED
      BY <1>1, <1>4, <2>1, <3>1, LargestLimitIs
  <2>3. <<Meter(s, u), axis>> \in Keys
    BY MeterIs DEF Keys
  <2>4. PICK d : d = c
    OBVIOUS
  <2>5. d \in CheckType
    <3> HIDE DEF n
    <3> QED
      BY <2>1, <2>3, <2>4 DEF CheckType
  <2>6. d \in {e \in ChecksOf(u) : e.axis = axis}
    <3>1. /\ d.key = <<Meter(d.scope, u), d.axis>> /\ d.axis = axis
          /\ d.scope = s /\ d.limit = n
      <4> HIDE DEF n
      <4> QED
        BY <2>4
    <3>2. d.axis = "requests" => d.limit <= LargestLimit(d.scope)
      <4> HIDE DEF n
      <4> QED
        BY <2>2, <3>1
    <3> HIDE DEF n, c
    <3> QED
      BY <2>5, <3>1, <3>2 DEF ChecksOf
  <2>7. Limit(s, <<Meter(s, u), axis>>, axis, n) = <<d>>
    BY <1>4, <2>4 DEF Limit
  <2>8. <<d>> \in Seq({e \in ChecksOf(u) : e.axis = axis})
    <3>1. \A D : d \in D => <<d>> \in Seq(D)
      OBVIOUS
    <3> HIDE DEF n, c
    <3> QED
      BY <2>6, <3>1
  <2> HIDE DEF n
  <2>9. Limit(s, <<Meter(s, u), axis>>, axis, n) \in Seq({e \in ChecksOf(u) : e.axis = axis})
    BY <2>7, <2>8
  <2> QED
    BY <1>2, <2>9 DEF n
<1> QED
  BY <1>3, <1>4

\* The store calls of an attempt, and those that charge its tokens.
LEMMA ChecksOk ==
    ASSUME cached \in [Scopes -> Rules \cup {None}],
           NEW u \in Users, NEW t \in Teams \cup {None}
    PROVE  Checks(u, t) \in Seq(ChecksOf(u)) /\ Charges(u, t) \in Seq(TokenChecks(u))
<1> DEFINE On(axis) == {c \in ChecksOf(u) : c.axis = axis}
<1>1. PoolScope(t) \in Scopes /\ u \in Scopes
  BY DEF PoolScope, Scopes
<1>2. ASSUME NEW axis \in Axes
      PROVE  PoolLimit(u, t, axis) \in Seq(On(axis)) /\ OwnLimit(u, axis) \in Seq(On(axis))
  <2>1. PICK s \in Scopes : s = PoolScope(t)
    BY <1>1
  <2>2. Limit(s, <<Meter(s, u), axis>>, axis, LimitsOf(s, axis)) \in Seq(On(axis))
    BY <2>1, LimitOk
  <2>3. Limit(u, <<Meter(u, u), axis>>, axis, LimitsOf(u, axis)) \in Seq(On(axis))
    BY <1>1, LimitOk
  <2>4. PoolLimit(u, t, axis) = Limit(s, <<Meter(s, u), axis>>, axis, LimitsOf(s, axis))
    BY <2>1 DEF PoolLimit, PoolKey
  <2>5. OwnLimit(u, axis) = Limit(u, <<Meter(u, u), axis>>, axis, LimitsOf(u, axis))
    BY DEF OwnLimit, PersonalKey
  <2> QED
    BY <2>2, <2>3, <2>4, <2>5
<1>3. /\ PoolLimit(u, t, "requests") \in Seq(ChecksOf(u))
      /\ OwnLimit(u, "requests") \in Seq(ChecksOf(u))
  <2>1. On("requests") \subseteq ChecksOf(u) /\ "requests" \in Axes
    BY DEF Axes
  <2> HIDE DEF On
  <2>2. Seq(On("requests")) \subseteq Seq(ChecksOf(u))
    BY <2>1
  <2> QED
    BY <1>2, <2>1, <2>2
<1>4. /\ PoolLimit(u, t, "tokens") \in Seq(TokenChecks(u))
      /\ OwnLimit(u, "tokens") \in Seq(TokenChecks(u))
  BY <1>2 DEF TokenChecks, Axes
<1>5. Seq(TokenChecks(u)) \subseteq Seq(ChecksOf(u))
  <2>1. TokenChecks(u) \subseteq ChecksOf(u)
    BY DEF TokenChecks
  <2> QED
    BY <2>1
<1>6. /\ PoolLimit(u, t, "tokens") \in Seq(ChecksOf(u))
      /\ OwnLimit(u, "tokens") \in Seq(ChecksOf(u))
  BY <1>4, <1>5
<1>7. Checks(u, t) \in Seq(ChecksOf(u))
  BY <1>3, <1>6 DEF Checks
<1>8. Charges(u, t) \in Seq(TokenChecks(u))
  BY <1>4 DEF Charges
<1> QED
  BY <1>7, <1>8

\* A request at rest, and one that has these store calls left.
LEMMA RestOk == ASSUME NEW o \in Outcomes PROVE CallOk(Rest(o))
BY DEF CallOk, CallType, Rest, Outcomes

LEMMA LeftOk ==
    ASSUME NEW q \in CallType, q.user \in Users, q.pc \in {"check", "charge"},
           NEW todo, q.pc = "check" => todo \in Seq(ChecksOf(q.user)),
           q.pc = "charge" => todo \in Seq(TokenChecks(q.user))
    PROVE  CallOk(Left(q, todo))
<1>1. ChecksOf(q.user) \subseteq CheckType /\ TokenChecks(q.user) \subseteq CheckType
  BY DEF TokenChecks, ChecksOf
<1>2. /\ Seq(ChecksOf(q.user)) \subseteq Seq(CheckType)
      /\ Seq(TokenChecks(q.user)) \subseteq Seq(CheckType)
  BY <1>1
<1>3. todo \in Seq(CheckType)
  BY <1>2
<1>4. CASE todo # <<>>
  <2>1. PICK w : w = [q EXCEPT !.todo = todo]
    OBVIOUS
  <2>2. w \in CallType
    BY <1>3, <2>1 DEF CallType
  <2>3. w.pc = q.pc /\ w.user = q.user /\ w.todo = todo
    BY <2>1 DEF CallType
  <2>4. w.pc \in {"check", "charge"} /\ w.pc \notin Outcomes
    BY <2>3 DEF Outcomes
  <2>5. CallOk(w)
    BY <1>4, <2>2, <2>3, <2>4 DEF CallOk
  <2> QED
    BY <1>4, <2>1, <2>5 DEF Left
<1>5. CASE todo = <<>> /\ q.pc = "check"
  <2>1. PICK w : w = [q EXCEPT !.pc = "call", !.todo = <<>>]
    OBVIOUS
  <2>a. PICK v : v = [q EXCEPT !.pc = "call"]
    OBVIOUS
  <2>b. v \in CallType /\ v.pc = "call" /\ v.user = q.user
    BY <2>a DEF CallType
  <2>c. w = [v EXCEPT !.todo = <<>>]
    BY <2>1, <2>a DEF CallType
  <2>2. w \in CallType
    <3>a. <<>> \in Seq(CheckType)
      OBVIOUS
    <3>1. PICK e : e = <<>> /\ e \in Seq(CheckType)
      BY <3>a
    <3>2. w = [v EXCEPT !.todo = e]
      BY <2>c, <3>1
    <3> QED
      BY <2>b, <3>1, <3>2 DEF CallType
  <2>3. w.pc = "call" /\ w.user = q.user /\ w.todo = <<>>
    BY <2>b, <2>c DEF CallType
  <2>4. CallOk(w)
    BY <2>2, <2>3 DEF CallOk
  <2> QED
    BY <1>5, <2>1, <2>4 DEF Left
<1>6. CASE todo = <<>> /\ q.pc # "check"
  BY <1>6, RestOk DEF Left, Outcomes
<1> QED
  BY <1>4, <1>5, <1>6

-----------------------------------------------------------------------------
(* The initial states.                                                     *)

LEMMA LimitInitTypes == LimitInit => RuleTypes /\ CallTypes /\ CounterTypes /\ NothingAhead
<1> SUFFICES ASSUME LimitInit PROVE RuleTypes /\ CallTypes /\ CounterTypes /\ NothingAhead
  OBVIOUS
<1>1. RuleTypes
  BY RateAssumption DEF LimitInit, RuleTypes
<1>2. CallTypes
  <2>1. CallOk(Rest("rest"))
    BY RestOk DEF Outcomes
  <2> QED
    BY <2>1 DEF LimitInit, CallTypes
<1>3. CounterTypes
  <2>1. counter \in [Keys -> {None} \cup Counter]
    BY DEF LimitInit
  <2>2. clock \in Time /\ restarts \in Nat
    BY RateAssumption DEF LimitInit, Time
  <2>3. passed \in [Meters -> [Time -> Nat]]
    BY DEF LimitInit
  <2> QED
    BY <2>1, <2>2, <2>3 DEF CounterTypes
<1>4. NothingAhead
  BY DEF LimitInit, NothingAhead
<1> QED
  BY <1>1, <1>2, <1>3, <1>4

\* An interval of times is finite, and a stretch is one.
LEMMA StretchIs ==
    ASSUME NEW t \in Time
    PROVE  /\ IsFiniteSet(Stretch(t)) /\ Stretch(t) \subseteq Time
           /\ Stretch(t) = {x \in Time : t <= x /\ x < t + Window}
<1> DEFINE a == t + Window - 1
<1>1. t \in Nat /\ t <= MaxTime /\ MaxTime \in Nat /\ Window \in Nat /\ Window > 0 /\ a \in Nat
  BY RateAssumption DEF Time
<1>2. Min({a, MaxTime}) = IF a <= MaxTime THEN a ELSE MaxTime
  <2> HIDE DEF a
  <2>1. PICK b : b = Min({a, MaxTime})
    OBVIOUS
  <2>2. \E x \in {a, MaxTime} : \A y \in {a, MaxTime} : x <= y
    BY <1>1
  <2>3. b \in {a, MaxTime} /\ \A y \in {a, MaxTime} : b <= y
    BY <2>1, <2>2 DEF Min
  <2> QED
    BY <1>1, <2>1, <2>3
<1>3. PICK b : b = Min({a, MaxTime})
  OBVIOUS
<1>4. b \in Nat /\ b <= MaxTime /\ (b = a \/ (b = MaxTime /\ MaxTime < a))
  BY <1>1, <1>2, <1>3
<1>5. Stretch(t) = t..b
  BY <1>3 DEF Stretch
<1>6. t..b = {x \in Time : t <= x /\ x < t + Window}
  BY <1>1, <1>4 DEF Time
<1>7. IsFiniteSet(t..b)
  BY <1>1, <1>4, FS_Interval
<1> QED
  BY <1>5, <1>6, <1>7

\* The times between two times.
LEMMA TimesBetween ==
    ASSUME NEW t \in Time, NEW n \in Time
    PROVE  IsFiniteSet(t..n) /\ t..n \subseteq Time
<1>1. t \in Int /\ n \in Int /\ t >= 0 /\ n <= MaxTime /\ MaxTime \in Int
  BY RateAssumption DEF Time
<1>2. IsFiniteSet(t..n)
  BY <1>1, FS_Interval
<1>3. t..n \subseteq Time
  BY <1>1 DEF Time
<1> QED
  BY <1>2, <1>3

\* What passed in a stretch is a number; of one that has not ended, it is what
\* passed since its start.
LEMMA BurstIs ==
    ASSUME NEW f \in [Time -> Nat], NEW n \in Time, \A x \in Time : x > n => f[x] = 0,
           NEW t \in Time
    PROVE  /\ SumFunctionOnSet(f, Stretch(t)) \in Nat /\ Since(f, t, n) \in Nat
           /\ t <= n /\ n < t + Window => SumFunctionOnSet(f, Stretch(t)) = Since(f, t, n)
           /\ t > n => SumFunctionOnSet(f, Stretch(t)) = 0
<1>3. IsFiniteSet(Stretch(t)) /\ Stretch(t) \subseteq Time
      /\ Stretch(t) = {x \in Time : t <= x /\ x < t + Window}
  BY StretchIs
<1>4. \A x \in Stretch(t) : f[x] \in Nat /\ f[x] \in Int
  BY <1>3
<1>5. n \in Nat /\ t \in Nat /\ n <= MaxTime /\ t <= MaxTime
  BY RateAssumption DEF Time
<1>6. IsFiniteSet(t..n) /\ t..n \subseteq Time
  BY TimesBetween
<1>7. SumFunctionOnSet(f, Stretch(t)) \in Nat
  BY <1>3, <1>4, SumOfNaturals
<1>8. SumFunctionOnSet(f, t..n) \in Nat
  BY <1>6, SumOfNaturals
<1>9. ASSUME t <= n, n < t + Window
      PROVE  SumFunctionOnSet(f, Stretch(t)) = SumFunctionOnSet(f, t..n)
  <2>1. t..n \subseteq Stretch(t) /\ \A x \in Stretch(t) \ (t..n) : f[x] = 0
    BY <1>3, <1>5, <1>6, <1>9, RateAssumption DEF Time
  <2> QED
    BY <1>3, <1>4, <2>1, SumSupport
<1>a. ASSUME t > n
      PROVE  SumFunctionOnSet(f, Stretch(t)) = 0
  <2>1. \A x \in Stretch(t) : f[x] = 0
    BY <1>3, <1>5, <1>a, RateAssumption DEF Time
  <2> QED
    BY <1>3, <2>1, SumOfZeros
<1> QED
  BY <1>7, <1>8, <1>9, <1>a DEF Since

\* Products with a limit, for the provers.
LEMMA Products ==
    ASSUME NEW R \in Nat, NEW L \in Nat
    PROVE  /\ (2 + R) * L = (1 + R) * L + L /\ (1 + R) * L \in Nat /\ (2 + R) * L \in Nat
           /\ (1 + (R + 1)) * L = (1 + R) * L + L /\ (2 + (R + 1)) * L = (2 + R) * L + L
           /\ L <= (1 + R) * L
<1>1. (2 + R) * L = (1 + R) * L + L
  BY SMT
<1>2. (1 + (R + 1)) * L = (1 + R) * L + L
  BY SMT
<1>3. (2 + (R + 1)) * L = (2 + R) * L + L
  BY SMT
<1>4. (1 + R) * L \in Nat /\ (2 + R) * L \in Nat /\ R * L \in Nat
  BY SMT
<1>5. (1 + R) * L = L + R * L
  BY SMT
<1> QED
  BY <1>1, <1>2, <1>3, <1>4, <1>5

LEMMA ProductGrows ==
    ASSUME NEW R \in Nat, NEW R2 \in Nat, R2 >= R, NEW L \in Nat
    PROVE  (2 + R) * L <= (2 + R2) * L
<1>1. PICK d \in Nat : R2 = R + d
  <2>1. R2 - R \in Nat /\ R2 = R + (R2 - R)
    OBVIOUS
  <2> QED
    BY <2>1
<1>2. d * L \in Nat /\ (2 + R) * L \in Nat
  BY SMT
<1>3. (2 + (R + d)) * L = (2 + R) * L + d * L
  BY SMT
<1> QED
  BY <1>1, <1>2, <1>3

\* The accounts bound the stretches that have not ended.
LEMMA LateBursts ==
    ASSUME NEW c \in {None} \cup Counter, NEW f \in [Time -> Nat], NEW L \in Nat,
           NEW n \in Time, NEW R \in Nat, \A x \in Time : x > n => f[x] = 0,
           Accounts(c, f, L, n, R), NEW t \in Time, n < t + Window
    PROVE  SumFunctionOnSet(f, Stretch(t)) = 0 \/ SumFunctionOnSet(f, Stretch(t)) < (2 + R) * L
<1>3. PICK b \in Nat : b = SumFunctionOnSet(f, Stretch(t))
  BY BurstIs
<1>4. PICK lo, hi : /\ lo = (1 + R) * L /\ hi = (2 + R) * L
                    /\ lo \in Nat /\ hi \in Nat /\ hi = lo + L /\ L <= lo
  BY Products
<1>5. CASE t > n
  BY <1>5, BurstIs
<1>6. CASE ~(t > n)
  <2>1. t \in Late(n) /\ t <= n
    BY <1>6, RateAssumption DEF Late, Time
  <2>2. b = Since(f, t, n)
    BY <1>3, <2>1, BurstIs
  <2>4. CASE c = None
    <3>1. b = 0 \/ b < lo
      BY <1>4, <2>1, <2>2, <2>4 DEF Accounts
    <3>2. b = 0 \/ b < hi
      BY <1>4, <3>1
    <3> QED
      BY <1>3, <1>4, <3>2
  <2>5. CASE c # None
    <3>1. c.count \in Nat /\ c.until \in Nat
      BY <2>5 DEF Counter
    <3>2. /\ c.count <= L
          /\ c.until < t + Window => b < c.count
          /\ t + Window <= c.until => b < lo + c.count
      BY <1>4, <2>1, <2>2, <2>5 DEF Accounts
    <3>3. t + Window \in Nat
      BY RateAssumption DEF Time
    <3>4. b < hi
      BY <1>4, <3>1, <3>2, <3>3
    <3> QED
      BY <1>3, <1>4, <3>4
  <2> QED
    BY <2>4, <2>5
<1> QED
  BY <1>5, <1>6

-----------------------------------------------------------------------------
(* What steps do to the accounts.                                          *)

\* A request that passes at n: the counter is live and gains one, or begins.
LEMMA PassAccounts ==
    ASSUME NEW c \in {None} \cup Counter, NEW f \in [Time -> Nat], NEW L \in Nat,
           NEW n \in Time, NEW R \in Nat, Accounts(c, f, L, n, R),
           NEW d \in Counter, NEW g \in [Time -> Nat], g = [f EXCEPT ![n] = @ + 1],
           \/ c # None /\ n < c.until /\ c.count < L /\ d = [count |-> c.count + 1, until |-> c.until]
           \/ ~(c # None /\ n < c.until) /\ 0 < L /\ d = [count |-> 1, until |-> n + Window]
    PROVE  Accounts(d, g, L, n, R)
<1>1. n \in Nat /\ n <= MaxTime /\ Window \in Nat /\ Window > 0
  BY RateAssumption DEF Time
<1>2. d # None
  BY RateAssumption DEF Counter
<1>3. ASSUME NEW t \in Late(n)
      PROVE  /\ t \in Nat /\ t <= n /\ n < t + Window /\ Since(f, t, n) \in Nat
             /\ Since(g, t, n) = Since(f, t, n) + 1
  <2>1. t \in Time /\ t \in Nat /\ t <= n /\ n < t + Window
    BY <1>1 DEF Late, Time
  <2>2. IsFiniteSet(t..n) /\ t..n \subseteq Time /\ n \in t..n
    BY <1>1, <2>1, TimesBetween
  <2>3. \A x \in t..n : f[x] \in Nat /\ f[x] \in Int /\ g[x] \in Int
    BY <2>2
  <2>4. g[n] = f[n] + 1 /\ \A x \in (t..n) \ {n} : g[x] = f[x]
    BY <2>2
  <2>5. Since(f, t, n) \in Nat
    BY <2>2, <2>3, SumOfNaturals DEF Since
  <2>6. Since(g, t, n) = Since(f, t, n) + (g[n] - f[n])
    <3>1. \A y \in t..n : f[y] \in Int /\ g[y] \in Int
      BY <2>3
    <3>a. PICK S, h : S = t..n /\ h = g
      OBVIOUS
    <3>b. IsFiniteSet(S) /\ n \in S /\ \A y \in S : f[y] \in Int /\ h[y] \in Int
      BY <2>2, <3>1, <3>a
    <3>c. \A y \in S \ {n} : h[y] = f[y]
      BY <2>4, <3>a
    <3>d. SumFunctionOnSet(h, S) = SumFunctionOnSet(f, S) + (h[n] - f[n])
      BY <3>b, <3>c, SumUpdate
    <3>2. SumFunctionOnSet(g, t..n) = SumFunctionOnSet(f, t..n) + (g[n] - f[n])
      BY <3>a, <3>d
    <3> QED
      BY <3>2 DEF Since
  <2> QED
    BY <2>1, <2>2, <2>3, <2>4, <2>5, <2>6
<1>4. PICK lo \in Nat : lo = (1 + R) * L /\ L <= lo
  BY Products
<1>5. CASE c # None /\ n < c.until /\ c.count < L /\ d = [count |-> c.count + 1, until |-> c.until]
  <2>1. c.count \in Nat /\ c.until \in Nat
    BY <1>5 DEF Counter
  <2>2. /\ 1 <= c.count /\ c.count <= L /\ c.until <= n + Window
        /\ \A t \in Late(n) : /\ c.until < t + Window => Since(f, t, n) < c.count
                              /\ t + Window <= c.until => Since(f, t, n) < lo + c.count
    BY <1>4, <1>5 DEF Accounts
  <2>3. d.count = c.count + 1 /\ d.until = c.until
    BY <1>5
  <2>4. 1 <= d.count /\ d.count <= L /\ d.until <= n + Window
    BY <1>5, <2>1, <2>2, <2>3
  <2>5. ASSUME NEW t \in Late(n)
        PROVE  /\ d.until < t + Window => Since(g, t, n) < d.count
               /\ t + Window <= d.until => Since(g, t, n) < lo + d.count
    <3>1. /\ c.until < t + Window => Since(f, t, n) < c.count
          /\ t + Window <= c.until => Since(f, t, n) < lo + c.count
      BY <2>2
    <3>a. /\ t \in Nat /\ Since(f, t, n) \in Nat
          /\ Since(g, t, n) = Since(f, t, n) + 1
      BY <1>3
    <3>b. t + Window \in Nat /\ Since(g, t, n) \in Nat
      BY <1>1, <3>a
    <3>2. PICK a \in Nat, b \in Nat, w \in Nat :
             a = Since(f, t, n) /\ b = Since(g, t, n) /\ b = a + 1 /\ w = t + Window
      BY <3>a, <3>b
    <3>3. /\ c.until < w => b < c.count + 1
          /\ w <= c.until => b < lo + (c.count + 1)
      BY <2>1, <3>1, <3>2
    <3> QED
      BY <2>3, <3>2, <3>3
  <2> QED
    BY <1>2, <1>4, <2>4, <2>5 DEF Accounts
<1>6. CASE ~(c # None /\ n < c.until) /\ 0 < L /\ d = [count |-> 1, until |-> n + Window]
  <2>1. d.count = 1 /\ d.until = n + Window
    BY <1>6
  <2>2. ASSUME NEW t \in Late(n)
        PROVE  Since(f, t, n) < lo
    <3>1. CASE c = None
      <4>1. Since(f, t, n) = 0 \/ Since(f, t, n) < lo
        BY <1>4, <3>1 DEF Accounts
      <4> QED
        BY <1>4, <1>6, <4>1
    <3>2. CASE c # None
      <4>1. c.count \in Nat /\ c.until \in Nat /\ c.until <= n
        BY <1>1, <1>6, <3>2 DEF Counter
      <4>2. c.until < t + Window
        BY <1>1, <1>3, <4>1
      <4>3. Since(f, t, n) < c.count /\ c.count <= L
        BY <3>2, <4>2 DEF Accounts
      <4> QED
        BY <1>3, <1>4, <4>1, <4>3
    <3> QED
      BY <3>1, <3>2
  <2>3. ASSUME NEW t \in Late(n)
        PROVE  /\ d.until < t + Window => Since(g, t, n) < d.count
               /\ t + Window <= d.until => Since(g, t, n) < lo + d.count
    <3>1. Since(f, t, n) < lo
      BY <2>2
    <3>2. t + Window <= d.until
      BY <1>1, <1>3, <2>1
    <3>a. /\ t \in Nat /\ t <= n /\ Since(f, t, n) \in Nat
          /\ Since(g, t, n) = Since(f, t, n) + 1
      BY <1>3
    <3>3. PICK b \in Nat : b = Since(g, t, n) /\ b < lo + 1
      <4>1. Since(g, t, n) \in Nat /\ Since(g, t, n) < lo + 1
        BY <3>1, <3>a
      <4> QED
        BY <4>1
    <3>4. PICK w \in Nat : w = t + Window /\ w <= n + Window
      BY <1>1, <1>3
    <3>5. ~(n + Window < w)
      BY <1>1, <3>4
    <3> QED
      BY <2>1, <3>3, <3>4, <3>5
  <2>4. 1 <= d.count /\ d.count <= L /\ d.until <= n + Window
    BY <1>1, <1>6, <2>1
  <2> QED
    BY <1>2, <1>4, <2>3, <2>4 DEF Accounts
<1> QED
  BY <1>5, <1>6

\* The clock advances: some stretches end, and one begins in which nothing has passed.
LEMMA TickAccounts ==
    ASSUME NEW c \in {None} \cup Counter, NEW f \in [Time -> Nat], NEW L \in Nat,
           NEW n \in Time, NEW R \in Nat, Accounts(c, f, L, n, R), n + 1 \in Time,
           f[n + 1] = 0
    PROVE  Accounts(c, f, L, n + 1, R)
<1>1. n \in Nat /\ n + 1 <= MaxTime /\ Window \in Nat /\ Window > 0
  BY RateAssumption DEF Time
<1>2. ASSUME NEW t \in Late(n + 1)
      PROVE  /\ t \in Nat /\ (t \in Late(n) \/ t = n + 1)
             /\ t \in Late(n) => Since(f, t, n + 1) = Since(f, t, n)
             /\ t = n + 1 => Since(f, t, n + 1) = 0
  <2>1. t \in Time /\ t \in Nat /\ t <= n + 1 /\ n + 1 < t + Window
    BY DEF Late, Time
  <2>2. IsFiniteSet(t..(n + 1)) /\ t..(n + 1) \subseteq Time
    BY <2>1, TimesBetween
  <2>3. t \in Late(n) \/ t = n + 1
    BY <1>1, <2>1 DEF Late
  <2>4. \A x \in t..(n + 1) : f[x] \in Int
    BY <2>2
  <2>5. ASSUME t \in Late(n) PROVE Since(f, t, n + 1) = Since(f, t, n)
    <3>1. t..n \subseteq t..(n + 1) /\ \A x \in (t..(n + 1)) \ (t..n) : f[x] = 0
      BY <1>1, <2>1
    <3> QED
      BY <2>2, <2>4, <3>1, SumSupport DEF Since
  <2>6. ASSUME t = n + 1 PROVE Since(f, t, n + 1) = 0
    <3>1. \A x \in t..(n + 1) : f[x] = 0
      BY <1>1, <2>6
    <3> QED
      BY <2>2, <3>1, SumOfZeros DEF Since
  <2> QED
    BY <2>1, <2>3, <2>5, <2>6
<1>3. PICK lo \in Nat : lo = (1 + R) * L
  BY Products
<1>4. CASE c = None
  <2>1. \A t \in Late(n) : Since(f, t, n) = 0 \/ Since(f, t, n) < lo
    BY <1>3, <1>4 DEF Accounts
  <2>2. \A t \in Late(n + 1) : Since(f, t, n + 1) = 0 \/ Since(f, t, n + 1) < lo
    BY <1>2, <2>1
  <2> QED
    BY <1>3, <1>4, <2>2 DEF Accounts
<1>5. CASE c # None
  <2>1. c.count \in Nat /\ c.until \in Nat
    BY <1>5 DEF Counter
  <2>2. /\ 1 <= c.count /\ c.count <= L /\ c.until <= n + Window
        /\ \A t \in Late(n) : /\ c.until < t + Window => Since(f, t, n) < c.count
                              /\ t + Window <= c.until => Since(f, t, n) < lo + c.count
    BY <1>3, <1>5 DEF Accounts
  <2>3. \A t \in Late(n + 1) : /\ c.until < t + Window => Since(f, t, n + 1) < c.count
                               /\ t + Window <= c.until => Since(f, t, n + 1) < lo + c.count
    BY <1>1, <1>2, <1>3, <2>1, <2>2
  <2>4. c.until <= (n + 1) + Window
    BY <1>1, <2>1, <2>2
  <2> QED
    BY <1>3, <1>5, <2>2, <2>3, <2>4 DEF Accounts
<1> QED
  BY <1>4, <1>5

\* A restart, which may lose the counter.
LEMMA RestartAccounts ==
    ASSUME NEW c \in {None} \cup Counter, NEW f \in [Time -> Nat], NEW L \in Nat,
           NEW n \in Time, NEW R \in Nat, Accounts(c, f, L, n, R), NEW d \in {c, None}
    PROVE  Accounts(d, f, L, n, R + 1)
<1>1. PICK lo \in Nat, hi \in Nat : lo = (1 + R) * L /\ hi = (1 + (R + 1)) * L /\ hi = lo + L
  <2>1. R + 1 \in Nat
    OBVIOUS
  <2> QED
    BY <2>1, Products
<1>2. ASSUME NEW t \in Late(n) PROVE Since(f, t, n) \in Nat /\ t + Window \in Nat
  <2>1. IsFiniteSet(t..n) /\ t..n \subseteq Time /\ t + Window \in Nat
    <3>1. t \in Time /\ t + Window \in Nat
      BY RateAssumption DEF Late, Time
    <3> QED
      BY <3>1, TimesBetween
  <2>2. \A x \in t..n : f[x] \in Nat
    BY <2>1
  <2> QED
    BY <2>1, <2>2, SumOfNaturals DEF Since
<1>3. CASE c = None
  <2>1. \A t \in Late(n) : Since(f, t, n) = 0 \/ Since(f, t, n) < lo
    BY <1>1, <1>3 DEF Accounts
  <2>2. \A t \in Late(n) : Since(f, t, n) = 0 \/ Since(f, t, n) < hi
    BY <1>1, <1>2, <2>1
  <2> QED
    BY <1>1, <1>3, <2>2 DEF Accounts
<1>4. CASE c # None
  <2>1. c.count \in Nat /\ c.until \in Nat
    BY <1>4 DEF Counter
  <2>2. /\ 1 <= c.count /\ c.count <= L /\ c.until <= n + Window
        /\ \A t \in Late(n) : /\ c.until < t + Window => Since(f, t, n) < c.count
                              /\ t + Window <= c.until => Since(f, t, n) < lo + c.count
    BY <1>1, <1>4 DEF Accounts
  <2>3. \A t \in Late(n) : /\ Since(f, t, n) < hi
                           /\ t + Window <= c.until => Since(f, t, n) < hi + c.count
    BY <1>1, <1>2, <2>1, <2>2
  <2> QED
    BY <1>1, <1>4, <2>2, <2>3 DEF Accounts
<1> QED
  BY <1>3, <1>4

-----------------------------------------------------------------------------
(* What steps do to the requests.                                          *)

LEMMA CallMoves ==
    ASSUME CallTypes, NEW r \in Calls, NEW w, CallOk(w), call' = [call EXCEPT ![r] = w]
    PROVE  CallTypes'
<1>1. DOMAIN call' = Calls
  BY DEF CallTypes
<1>2. ASSUME NEW x \in Calls PROVE CallOk(call'[x])
  <2>1. call'[x] = IF x = r THEN w ELSE call[x]
    BY DEF CallTypes
  <2> QED
    BY <2>1 DEF CallTypes
<1> QED
  BY <1>1, <1>2 DEF CallTypes, CallOk

\* A field changes.
LEMMA FieldOk ==
    ASSUME NEW q \in CallType
    PROVE  /\ \A p \in {"check", "charge", "queue"} :
                 [q EXCEPT !.pc = p] \in CallType /\ [q EXCEPT !.pc = p].pc = p
                 /\ [q EXCEPT !.pc = p].user = q.user /\ [q EXCEPT !.pc = p].team = q.team
                 /\ [q EXCEPT !.pc = p].polls = q.polls /\ [q EXCEPT !.pc = p].todo = q.todo
           /\ \A n \in Nat : CallOk(q) => CallOk([q EXCEPT !.polls = n])
           /\ CallOk(q) => CallOk([q EXCEPT !.queued = TRUE])
<1>1. ASSUME NEW p \in {"check", "charge", "queue"}
      PROVE  [q EXCEPT !.pc = p] \in CallType /\ [q EXCEPT !.pc = p].pc = p
             /\ [q EXCEPT !.pc = p].user = q.user /\ [q EXCEPT !.pc = p].team = q.team
             /\ [q EXCEPT !.pc = p].polls = q.polls /\ [q EXCEPT !.pc = p].todo = q.todo
  <2>1. PICK w : w = [q EXCEPT !.pc = p]
    OBVIOUS
  <2>2. w \in CallType /\ w.pc = p /\ w.user = q.user /\ w.team = q.team /\ w.polls = q.polls
        /\ w.todo = q.todo
    BY <2>1 DEF CallType
  <2> QED
    BY <2>1, <2>2
<1>2. ASSUME NEW n \in Nat, CallOk(q) PROVE CallOk([q EXCEPT !.polls = n])
  <2>1. PICK w : w = [q EXCEPT !.polls = n]
    OBVIOUS
  <2>2. w \in CallType /\ w.pc = q.pc /\ w.user = q.user /\ w.todo = q.todo
    BY <2>1 DEF CallType
  <2>3. CallOk(w)
    BY <1>2, <2>2 DEF CallOk
  <2> QED
    BY <2>1, <2>3
<1>3. ASSUME CallOk(q) PROVE CallOk([q EXCEPT !.queued = TRUE])
  <2>1. PICK w : w = [q EXCEPT !.queued = TRUE]
    OBVIOUS
  <2>2. w \in CallType /\ w.pc = q.pc /\ w.user = q.user /\ w.todo = q.todo
    BY <2>1 DEF CallType
  <2>3. CallOk(w)
    BY <1>3, <2>2 DEF CallOk
  <2> QED
    BY <2>1, <2>3
<1> QED
  BY <1>1, <1>2, <1>3

\* An attempt looks its limits up, and keeps the time it has left to wait.
LEMMA AttemptOk ==
    ASSUME RuleTypes, NEW q \in CallType, q.user \in Users
    PROVE  CallOk(Attempt(q)) /\ Attempt(q).polls = q.polls
<1>1. PICK v : v = [q EXCEPT !.pc = "check"]
  OBVIOUS
<1>2. v \in CallType /\ v.pc = "check" /\ v.user = q.user /\ v.polls = q.polls
  BY <1>1, FieldOk
<1>3. PICK todo : todo = Checks(q.user, q.team)
  OBVIOUS
<1>4. todo \in Seq(ChecksOf(q.user))
  <2>1. q.team \in Teams \cup {None}
    BY DEF CallType
  <2> QED
    BY <1>3, <2>1, ChecksOk DEF RuleTypes
<1>5. Attempt(q) = Left(v, todo)
  BY <1>1, <1>3 DEF Attempt
<1>6. CallOk(Left(v, todo))
  BY <1>2, <1>4, LeftOk
<1>7. Left(v, todo).polls = v.polls
  BY <1>2 DEF Left, CallType
<1> QED
  BY <1>2, <1>5, <1>6, <1>7

\* A request whose limit trips waits with nothing left to call.
LEMMA QueueOk ==
    ASSUME NEW q \in CallType, q.user \in Users
    PROVE  /\ CallOk([q EXCEPT !.pc = "queue", !.todo = <<>>])
           /\ \A n \in Nat :
                 CallOk([q EXCEPT !.pc = "queue", !.todo = <<>>, !.queued = TRUE, !.polls = n])
<1>1. PICK v : v = [q EXCEPT !.pc = "queue"]
  OBVIOUS
<1>2. v \in CallType /\ v.pc = "queue" /\ v.user = q.user
  BY <1>1, FieldOk
<1>3. PICK e : e = <<>> /\ e \in Seq(CheckType)
  <2>1. <<>> \in Seq(CheckType)
    OBVIOUS
  <2> QED
    BY <2>1
<1>4. PICK w : w = [v EXCEPT !.todo = e]
  OBVIOUS
<1>5. w \in CallType /\ w.pc = "queue" /\ w.user = q.user /\ w.todo = <<>>
  BY <1>2, <1>3, <1>4 DEF CallType
<1>6. CallOk(w)
  BY <1>5 DEF CallOk, Outcomes
<1>7. w = [q EXCEPT !.pc = "queue", !.todo = <<>>]
  BY <1>1, <1>3, <1>4 DEF CallType
<1>8. ASSUME NEW n \in Nat
      PROVE  CallOk([q EXCEPT !.pc = "queue", !.todo = <<>>, !.queued = TRUE, !.polls = n])
  <2>1. PICK x : x = [w EXCEPT !.queued = TRUE]
    OBVIOUS
  <2>2. CallOk(x) /\ x \in CallType
    BY <1>5, <1>6, <2>1, FieldOk DEF CallOk
  <2>3. PICK y : y = [x EXCEPT !.polls = n]
    OBVIOUS
  <2>4. CallOk(y)
    BY <2>2, <2>3, FieldOk
  <2>5. y = [q EXCEPT !.pc = "queue", !.todo = <<>>, !.queued = TRUE, !.polls = n]
    BY <1>7, <2>1, <2>3 DEF CallType
  <2> QED
    BY <2>4, <2>5
<1> QED
  BY <1>6, <1>7, <1>8

LEMMA HeadAndTail ==
    ASSUME NEW S, NEW s \in Seq(S), s # <<>>
    PROVE  Head(s) \in S /\ Tail(s) \in Seq(S)
OBVIOUS

\* The next store call of a request, and those after it.
LEMMA TodoIs ==
    ASSUME NEW q, CallOk(q), q.pc \in {"check", "charge"}
    PROVE  /\ q \in CallType /\ q.user \in Users /\ Head(q.todo) \in ChecksOf(q.user)
           /\ q.pc = "charge" => Head(q.todo).axis = "tokens"
           /\ CallOk(Left(q, Tail(q.todo)))
<1>1. q \in CallType /\ q.user \in Users /\ q.todo # <<>>
  BY DEF CallOk, Outcomes
<1>2. CASE q.pc = "check"
  <2>1. q.todo \in Seq(ChecksOf(q.user))
    BY <1>2 DEF CallOk
  <2>2. Head(q.todo) \in ChecksOf(q.user) /\ Tail(q.todo) \in Seq(ChecksOf(q.user))
    BY <1>1, <2>1, HeadAndTail
  <2>3. CallOk(Left(q, Tail(q.todo)))
    BY <1>1, <1>2, <2>2, LeftOk
  <2> QED
    BY <1>1, <1>2, <2>2, <2>3
<1>3. CASE q.pc = "charge"
  <2>1. q.todo \in Seq(TokenChecks(q.user))
    BY <1>3 DEF CallOk
  <2>2. Head(q.todo) \in TokenChecks(q.user) /\ Tail(q.todo) \in Seq(TokenChecks(q.user))
    BY <1>1, <2>1, HeadAndTail
  <2>3. CallOk(Left(q, Tail(q.todo)))
    BY <1>1, <1>3, <2>2, LeftOk
  <2>4. Head(q.todo) \in ChecksOf(q.user) /\ Head(q.todo).axis = "tokens"
    BY <2>2 DEF TokenChecks
  <2> QED
    BY <1>1, <1>3, <2>3, <2>4
<1> QED
  BY <1>2, <1>3

\* Whatever a request does, it stays well formed.
LEMMA StepsKeepCalls ==
    ASSUME RuleTypes, CallTypes, NEW r \in Calls,
           Step(r) \/ \E c \in UserTeams : CheckRateLimit(r, c[1], c[2])
    PROVE  CallTypes'
<1>1. PICK q : q = call[r] /\ CallOk(q) /\ q \in CallType
  BY DEF CallTypes, CallOk
<1>2. ASSUME NEW c \in UserTeams, CheckRateLimit(r, c[1], c[2]) PROVE CallTypes'
  <2>1. PICK v : v = [Rest("rest") EXCEPT !.user = c[1], !.team = c[2]]
    OBVIOUS
  <2>2. c[1] \in Users /\ c[2] \in Teams \cup {None}
    BY RateAssumption
  <2>3. v = [pc |-> "rest", user |-> c[1], team |-> c[2], todo |-> <<>>, queued |-> FALSE,
             polls |-> 0]
    BY <2>1 DEF Rest
  <2>4. <<>> \in Seq(CheckType)
    OBVIOUS
  <2>5. v \in CallType /\ v.user \in Users
    BY <2>2, <2>3, <2>4 DEF CallType
  <2>6. CallOk(Attempt(v))
    BY <2>5, AttemptOk
  <2>7. call' = [call EXCEPT ![r] = Attempt(v)]
    BY <1>2, <2>1 DEF CheckRateLimit
  <2> QED
    BY <2>6, <2>7, CallMoves
<1>3. ASSUME PassLimit(r) PROVE CallTypes'
  <2>1. q.pc = "check" /\ call' = [call EXCEPT ![r] = Left(q, Tail(q.todo))]
    BY <1>1, <1>3 DEF PassLimit
  <2> QED
    BY <1>1, <2>1, TodoIs, CallMoves
<1>4. ASSUME TripLimit(r) PROVE CallTypes'
  <2>1. q.pc = "check" /\ q.user \in Users
    BY <1>1, <1>4, TodoIs DEF TripLimit
  <2>2. PICK w : /\ call' = [call EXCEPT ![r] = w]
                 /\ \/ w = [q EXCEPT !.pc = "queue", !.todo = <<>>]
                    \/ w = [q EXCEPT !.pc = "queue", !.todo = <<>>, !.queued = TRUE, !.polls = MaxPolls]
                    \/ w = Rest("refused")
    BY <1>1, <1>4 DEF TripLimit
  <2>3. CallOk(w)
    <3>1. MaxPolls \in Nat /\ CallOk(Rest("refused"))
      BY RestOk, RateAssumption DEF Outcomes
    <3>2. /\ CallOk([q EXCEPT !.pc = "queue", !.todo = <<>>])
          /\ CallOk([q EXCEPT !.pc = "queue", !.todo = <<>>, !.queued = TRUE, !.polls = MaxPolls])
      BY <1>1, <2>1, <3>1, QueueOk
    <3> QED
      BY <2>2, <3>1, <3>2
  <2> QED
    BY <2>2, <2>3, CallMoves
<1>5. ASSUME Poll(r) PROVE CallTypes'
  <2>1. q.pc = "queue" /\ q.user \in Users /\ q.polls \in Nat
    BY <1>1, <1>5 DEF Poll, CallOk, CallType, Outcomes
  <2>2. PICK w : w = Attempt(q)
    OBVIOUS
  <2>3. CallOk(w) /\ w \in CallType /\ w.polls = q.polls
    BY <1>1, <2>1, <2>2, AttemptOk DEF CallOk
  <2>4. CASE q.polls = 0
    <3>1. call' = [call EXCEPT ![r] = Rest("refused")]
      BY <1>1, <1>5, <2>4 DEF Poll
    <3> QED
      BY <3>1, RestOk, CallMoves DEF Outcomes
  <2>5. CASE q.polls # 0
    <3>1. call' = [call EXCEPT ![r] = [w EXCEPT !.polls = w.polls - 1]]
      BY <1>1, <1>5, <2>2, <2>5 DEF Poll
    <3>2. PICK n \in Nat : n = w.polls - 1
      BY <2>1, <2>3, <2>5
    <3>3. CallOk([w EXCEPT !.polls = n])
      BY <2>3, FieldOk
    <3> QED
      BY <3>1, <3>2, <3>3, CallMoves
  <2> QED
    BY <2>4, <2>5
<1>6. ASSUME Answer(r) PROVE CallTypes'
  <2>1. q.pc = "call" /\ q.user \in Users /\ q.team \in Teams \cup {None}
    BY <1>1, <1>6 DEF Answer, CallOk, CallType, Outcomes
  <2>2. PICK v : v = [q EXCEPT !.pc = "charge"]
    OBVIOUS
  <2>3. v \in CallType /\ v.pc = "charge" /\ v.user = q.user
    BY <1>1, <2>2, FieldOk
  <2>4. PICK todo : todo = Charges(q.user, q.team)
    OBVIOUS
  <2>5. todo \in Seq(TokenChecks(q.user))
    BY <2>1, <2>4, ChecksOk DEF RuleTypes
  <2>6. CallOk(Left(v, todo))
    BY <2>1, <2>3, <2>5, LeftOk
  <2>7. \/ call' = [call EXCEPT ![r] = Rest("rest")]
        \/ call' = [call EXCEPT ![r] = Left(v, todo)]
    BY <1>1, <1>6, <2>2, <2>4 DEF Answer
  <2> QED
    BY <2>6, <2>7, RestOk, CallMoves DEF Outcomes
<1>7. ASSUME RecordTokenUsage(r) PROVE CallTypes'
  <2>1. q.pc = "charge" /\ call' = [call EXCEPT ![r] = Left(q, Tail(q.todo))]
    BY <1>1, <1>7 DEF RecordTokenUsage
  <2> QED
    BY <1>1, <2>1, TodoIs, CallMoves
<1>8. ASSUME StoreFails(r) PROVE CallTypes'
  <2>1. CASE q.pc = "check"
    <3>1. call' = [call EXCEPT ![r] = Left(q, Tail(q.todo))]
      BY <1>1, <1>8, <2>1 DEF StoreFails
    <3> QED
      BY <1>1, <2>1, <3>1, TodoIs, CallMoves
  <2>2. CASE q.pc # "check"
    <3>1. call' = [call EXCEPT ![r] = Rest("rest")]
      BY <1>1, <1>8, <2>2 DEF StoreFails
    <3> QED
      BY <3>1, RestOk, CallMoves DEF Outcomes
  <2> QED
    BY <2>1, <2>2
<1> QED
  BY <1>2, <1>3, <1>4, <1>5, <1>6, <1>7, <1>8 DEF Step

-----------------------------------------------------------------------------
(* What steps do to the counters.                                          *)

CounterInv == CounterTypes /\ WindowsCount /\ NothingAhead /\ BurstBounded

LEMMA MetersHaveLimits ==
    ASSUME NEW m \in Meters
    PROVE  LargestLimit(m[1]) \in Nat /\ ReqKey(m) \in Keys
<1>1. m[1] \in Scopes
  BY DEF Meters, Scopes
<1> QED
  BY <1>1, LargestLimitIs DEF ReqKey, Keys, Axes

\* It is enough to keep the accounts: a stretch that has ended does not change.
LEMMA AccountsSuffice ==
    ASSUME CounterInv, CounterTypes', NothingAhead', WindowsCount',
           restarts' >= restarts, clock' >= clock,
           \A m \in Meters, t \in Time : t < clock' => passed'[m][t] = passed[m][t]
    PROVE  CounterInv'
<1>1. ASSUME NEW m \in Meters, NEW t \in Time
      PROVE  LET burst == SumFunctionOnSet(passed'[m], Stretch(t)) IN
             burst = 0 \/ burst < (2 + restarts') * LargestLimit(m[1])
  <2>1. PICK f \in [Time -> Nat], g \in [Time -> Nat] : f = passed[m] /\ g = passed'[m]
    BY DEF CounterTypes, CounterInv
  <2>2. PICK L \in Nat : L = LargestLimit(m[1])
    BY MetersHaveLimits
  <2>3. PICK R \in Nat, R2 \in Nat, n \in Time, n2 \in Time :
           R = restarts /\ R2 = restarts' /\ n = clock /\ n2 = clock' /\ R2 >= R /\ n2 >= n
    BY DEF CounterTypes, CounterInv
  <2>4. CASE n2 < t + Window
    <3>1. PICK c \in {None} \cup Counter : c = counter'[ReqKey(m)]
      BY MetersHaveLimits DEF CounterTypes
    <3>2. Accounts(c, g, L, n2, R2)
      <4>1. Accounts(counter'[ReqKey(m)], passed'[m], LargestLimit(m[1]), clock', restarts')
        BY DEF WindowsCount
      <4> QED
        BY <4>1, <2>1, <2>2, <2>3, <3>1
    <3>3. \A x \in Time : x > n2 => g[x] = 0
      BY <2>1, <2>3 DEF NothingAhead
    <3>4. SumFunctionOnSet(g, Stretch(t)) = 0 \/ SumFunctionOnSet(g, Stretch(t)) < (2 + R2) * L
      BY <2>4, <3>2, <3>3, LateBursts
    <3> QED
      BY <2>1, <2>2, <2>3, <3>4
  <2>5. CASE ~(n2 < t + Window)
    <3>1. n2 \in Nat /\ n \in Nat /\ t \in Nat /\ Window \in Nat /\ Window > 0
      BY RateAssumption DEF Time
    <3>2. SumFunctionOnSet(f, Stretch(t)) = 0 \/ SumFunctionOnSet(f, Stretch(t)) < (2 + R) * L
      BY <2>1, <2>2, <2>3 DEF CounterInv, BurstBounded
    <3>3. SumFunctionOnSet(g, Stretch(t)) = SumFunctionOnSet(f, Stretch(t))
      <4>1. PICK S : S = Stretch(t)
        OBVIOUS
      <4>2. IsFiniteSet(S) /\ S = {x \in Time : t <= x /\ x < t + Window}
        BY <4>1, StretchIs
      <4>3. \A x \in S : x \in Time /\ x < n2
        BY <2>5, <3>1, <4>2 DEF Time
      <4>4. \A x \in S : f[x] = g[x]
        BY <2>1, <2>3, <4>3
      <4> QED
        BY <4>1, <4>2, <4>4, SumSame
    <3>4. PICK b \in Nat : b = SumFunctionOnSet(f, Stretch(t))
      <4>1. \A x \in Stretch(t) : f[x] \in Nat
        BY StretchIs
      <4> QED
        BY <4>1, StretchIs, SumOfNaturals
    <3>5. PICK lo \in Nat, hi \in Nat : lo = (2 + R) * L /\ hi = (2 + R2) * L /\ lo <= hi
      <4>1. (2 + R) * L \in Nat /\ (2 + R2) * L \in Nat
        BY Products
      <4>2. (2 + R) * L <= (2 + R2) * L
        BY <2>3, ProductGrows
      <4> QED
        BY <4>1, <4>2
    <3>6. b = 0 \/ b < hi
      BY <3>2, <3>4, <3>5
    <3> QED
      BY <2>1, <2>2, <2>3, <3>3, <3>4, <3>5, <3>6
  <2> QED
    BY <2>4, <2>5
<1>2. BurstBounded'
  BY <1>1 DEF BurstBounded, LargestLimit, Stretch
<1> QED
  BY <1>2 DEF CounterInv

\* A step that touches no counter of requests.
LEMMA QuietSteps ==
    ASSUME CounterInv, UNCHANGED <<clock, restarts, passed>>,
           counter' \in [Keys -> {None} \cup Counter],
           \A m \in Meters : counter'[ReqKey(m)] = counter[ReqKey(m)]
    PROVE  CounterInv'
<1>1. CounterTypes'
  BY DEF CounterInv, CounterTypes
<1>2. NothingAhead'
  BY DEF CounterInv, NothingAhead
<1>3. WindowsCount'
  <2>1. ASSUME NEW m \in Meters
        PROVE  Accounts(counter'[ReqKey(m)], passed'[m], LargestLimit(m[1]), clock', restarts')
    BY DEF CounterInv, WindowsCount
  <2> QED
    BY <2>1 DEF WindowsCount, Accounts, Since, Late, LargestLimit, ReqKey
<1>4. restarts' >= restarts /\ clock' >= clock
  BY DEF CounterInv, CounterTypes, Time
<1> QED
  BY <1>1, <1>2, <1>3, <1>4, AccountsSuffice

LEMMA TickKeepsBooks ==
    ASSUME CounterInv, ClockTick
    PROVE  CounterInv'
<1>1. /\ clock \in Nat /\ clock' = clock + 1 /\ clock' \in Time
      /\ counter' = counter /\ passed' = passed /\ restarts' = restarts
  BY RateAssumption DEF ClockTick, CounterInv, CounterTypes, Time
<1>2. CounterTypes'
  BY <1>1 DEF CounterInv, CounterTypes
<1>3. NothingAhead'
  BY <1>1 DEF CounterInv, NothingAhead, Time
<1>4. WindowsCount'
  <2>1. ASSUME NEW m \in Meters
        PROVE  Accounts(counter'[ReqKey(m)], passed'[m], LargestLimit(m[1]), clock', restarts')
    <3>1. PICK c \in {None} \cup Counter, f \in [Time -> Nat], L \in Nat, n \in Time, R \in Nat :
             /\ c = counter[ReqKey(m)] /\ f = passed[m] /\ L = LargestLimit(m[1])
             /\ n = clock /\ R = restarts
      BY MetersHaveLimits DEF CounterInv, CounterTypes
    <3>2. Accounts(c, f, L, n, R)
      BY <3>1 DEF CounterInv, WindowsCount
    <3>3. n + 1 \in Time /\ f[n + 1] = 0
      BY <1>1, <3>1 DEF CounterInv, NothingAhead
    <3>4. Accounts(c, f, L, n + 1, R)
      BY <3>2, <3>3, TickAccounts
    <3> QED
      BY <1>1, <3>1, <3>4
  <2> QED
    BY <2>1 DEF WindowsCount, Accounts, Since, Late, LargestLimit, ReqKey
<1>5. restarts' >= restarts /\ clock' >= clock
  BY <1>1 DEF CounterInv, CounterTypes
<1> QED
  BY <1>1, <1>2, <1>3, <1>4, <1>5, AccountsSuffice

LEMMA RestartKeepsBooks ==
    ASSUME CounterInv, Restart
    PROVE  CounterInv'
<1>1. /\ clock' = clock /\ clock \in Nat /\ passed' = passed /\ restarts' = restarts + 1 /\ restarts \in Nat
      /\ counter' \in {counter, [k \in Keys |-> None]}
  BY DEF Restart, CounterInv, CounterTypes, Time
<1>2. CounterTypes'
  BY <1>1 DEF CounterInv, CounterTypes
<1>3. NothingAhead'
  BY <1>1 DEF CounterInv, NothingAhead
<1>4. WindowsCount'
  <2>1. ASSUME NEW m \in Meters
        PROVE  Accounts(counter'[ReqKey(m)], passed'[m], LargestLimit(m[1]), clock', restarts')
    <3>1. PICK c \in {None} \cup Counter, f \in [Time -> Nat], L \in Nat, n \in Time, R \in Nat :
             /\ c = counter[ReqKey(m)] /\ f = passed[m] /\ L = LargestLimit(m[1])
             /\ n = clock /\ R = restarts
      BY MetersHaveLimits DEF CounterInv, CounterTypes
    <3>2. Accounts(c, f, L, n, R)
      BY <3>1 DEF CounterInv, WindowsCount
    <3>3. PICK d \in {c, None} : d = counter'[ReqKey(m)]
      BY <1>1, <3>1, MetersHaveLimits
    <3>4. Accounts(d, f, L, n, R + 1)
      BY <3>2, RestartAccounts
    <3> QED
      BY <1>1, <3>1, <3>3, <3>4
  <2> QED
    BY <2>1 DEF WindowsCount, Accounts, Since, Late, LargestLimit, ReqKey
<1>5. restarts' >= restarts /\ clock' >= clock
  BY <1>1
<1> QED
  BY <1>1, <1>2, <1>3, <1>4, <1>5, AccountsSuffice

\* The counter of a request that passes.
LEMMA ConsumeIs ==
    ASSUME CounterTypes, NEW m \in Meters, NEW limit \in Nat, GetInt(ReqKey(m)) < limit,
           limit <= LargestLimit(m[1]), TryConsume(ReqKey(m), limit)
    PROVE  \E d \in Counter :
              LET c == counter[ReqKey(m)]  L == LargestLimit(m[1]) IN
              /\ counter' = [counter EXCEPT ![ReqKey(m)] = d]
              /\ \/ /\ c # None /\ clock < c.until /\ c.count < L
                    /\ d = [count |-> c.count + 1, until |-> c.until]
                 \/ /\ ~(c # None /\ clock < c.until) /\ 0 < L
                    /\ d = [count |-> 1, until |-> clock + Window]
<1>1. PICK k \in Keys : k = ReqKey(m)
  BY MetersHaveLimits
<1>2. PICK c \in {None} \cup Counter, L \in Nat : c = counter[k] /\ L = LargestLimit(m[1])
  BY MetersHaveLimits DEF CounterTypes
<1>3. clock \in Nat /\ Window \in Nat
  BY RateAssumption DEF CounterTypes, Time
<1>4. GetInt(k) \in Nat
  BY <1>2 DEF GetInt, Live, Counter
<1>5. IncrBy(k, 1)
  BY <1>1, <1>4 DEF TryConsume
<1>6. CASE Live(k)
  <2>1. c # None /\ clock < c.until /\ GetInt(k) = c.count
    BY <1>2, <1>6 DEF Live, GetInt
  <2>2. c.count \in Nat /\ c.until \in Nat /\ c.count < L
    BY <1>1, <1>2, <2>1 DEF Counter
  <2>3. PICK d : d = [count |-> c.count + 1, until |-> c.until]
    OBVIOUS
  <2>4. d \in Counter
    BY <2>2, <2>3 DEF Counter
  <2>5. counter' = [counter EXCEPT ![k] = d]
    BY <1>2, <1>5, <1>6, <2>1, <2>3 DEF IncrBy
  <2> QED
    BY <1>1, <1>2, <2>1, <2>2, <2>3, <2>4, <2>5
<1>7. CASE ~Live(k)
  <2>1. ~(c # None /\ clock < c.until) /\ GetInt(k) = 0
    BY <1>2, <1>7 DEF Live, GetInt
  <2>2. 0 < L
    BY <1>1, <1>2, <2>1
  <2>3. PICK d : d = [count |-> 1, until |-> clock + Window]
    OBVIOUS
  <2>4. d \in Counter
    BY <1>3, <2>3 DEF Counter
  <2>5. counter' = [counter EXCEPT ![k] = d]
    BY <1>5, <1>7, <2>1, <2>3 DEF IncrBy
  <2> QED
    BY <1>1, <1>2, <2>1, <2>2, <2>3, <2>4, <2>5
<1> QED
  BY <1>6, <1>7

LEMMA PassKeepsBooks ==
    ASSUME CounterInv, CallTypes, NEW r \in Calls, PassLimit(r)
    PROVE  CounterInv'
<1>1. PICK q, c : q = call[r] /\ CallOk(q) /\ q.pc = "check" /\ c = Head(q.todo)
  BY DEF CallTypes, PassLimit
<1>2. q.user \in Users /\ c \in ChecksOf(q.user)
  BY <1>1, TodoIs
<1>3. clock' = clock /\ restarts' = restarts /\ Passes(c)
  BY <1>1 DEF PassLimit
<1>4. CASE c.axis # "requests"
  <2>1. counter' = counter /\ passed' = passed
    BY <1>1, <1>4 DEF PassLimit
  <2> QED
    BY <1>3, <2>1, QuietSteps DEF CounterInv, CounterTypes
<1>5. CASE c.axis = "requests"
  <2>1. PICK m \in Meters : /\ m = Meter(c.scope, q.user) /\ m[1] = c.scope
                            /\ c.key = ReqKey(m)
    BY <1>2, <1>5, MeterIs DEF ChecksOf, CheckType, ReqKey
  <2>2. PICK limit \in Nat : limit = c.limit /\ limit <= LargestLimit(m[1])
    BY <1>2, <1>5, <2>1 DEF ChecksOf, CheckType
  <2>3. TryConsume(ReqKey(m), limit) /\ passed' = [passed EXCEPT ![m][clock] = @ + 1]
    BY <1>1, <1>5, <2>1, <2>2 DEF PassLimit
  <2>4. GetInt(ReqKey(m)) < limit
    BY <1>3, <2>1, <2>2 DEF Passes
  <2>5. PICK d \in Counter :
           LET e == counter[ReqKey(m)]  L == LargestLimit(m[1]) IN
           /\ counter' = [counter EXCEPT ![ReqKey(m)] = d]
           /\ \/ /\ e # None /\ clock < e.until /\ e.count < L
                 /\ d = [count |-> e.count + 1, until |-> e.until]
              \/ /\ ~(e # None /\ clock < e.until) /\ 0 < L
                 /\ d = [count |-> 1, until |-> clock + Window]
    BY <2>2, <2>3, <2>4, ConsumeIs DEF CounterInv
  <2>6. PICK g : g = [passed[m] EXCEPT ![clock] = @ + 1]
    OBVIOUS
  <2>7. g \in [Time -> Nat] /\ \A t \in Time : t # clock => g[t] = passed[m][t]
    BY <2>6 DEF CounterInv, CounterTypes
  <2>8. passed' = [passed EXCEPT ![m] = g]
    BY <2>3, <2>6 DEF CounterInv, CounterTypes
  <2>9. CounterTypes'
    <3>1. counter' \in [Keys -> {None} \cup Counter]
      BY <2>5 DEF CounterInv, CounterTypes
    <3>2. passed' \in [Meters -> [Time -> Nat]]
      BY <2>7, <2>8 DEF CounterInv, CounterTypes
    <3> QED
      BY <1>3, <3>1, <3>2 DEF CounterInv, CounterTypes
  <2>a. ASSUME NEW x \in Meters, NEW t \in Time, t # clock
        PROVE  passed'[x][t] = passed[x][t]
    <3>1. passed'[x] = IF x = m THEN g ELSE passed[x]
      BY <2>8 DEF CounterInv, CounterTypes
    <3> QED
      BY <2>7, <2>a, <3>1
  <2>b. NothingAhead'
    <3>1. ASSUME NEW x \in Meters, NEW t \in Time, t > clock PROVE passed'[x][t] = 0
      <4>1. t # clock
        BY <3>1 DEF CounterInv, CounterTypes, Time
      <4>2. passed[x][t] = 0
        BY <3>1 DEF CounterInv, NothingAhead
      <4> QED
        BY <2>a, <4>1, <4>2
    <3> QED
      BY <1>3, <3>1 DEF NothingAhead
  <2>c. ASSUME NEW x \in Meters
        PROVE  Accounts(counter'[ReqKey(x)], passed'[x], LargestLimit(x[1]), clock', restarts')
    <3>1. PICK e \in {None} \cup Counter, f \in [Time -> Nat], L \in Nat, n \in Time, R \in Nat :
             /\ e = counter[ReqKey(x)] /\ f = passed[x] /\ L = LargestLimit(x[1])
             /\ n = clock /\ R = restarts
      BY MetersHaveLimits DEF CounterInv, CounterTypes
    <3>2. Accounts(e, f, L, n, R)
      BY <3>1 DEF CounterInv, WindowsCount
    <3>3. CASE x = m
      <4>1. g \in [Time -> Nat] /\ g = [f EXCEPT ![n] = @ + 1]
        BY <2>6, <2>7, <3>1, <3>3
      <4>2. \/ e # None /\ n < e.until /\ e.count < L /\ d = [count |-> e.count + 1, until |-> e.until]
            \/ ~(e # None /\ n < e.until) /\ 0 < L /\ d = [count |-> 1, until |-> n + Window]
        BY <2>5, <3>1, <3>3
      <4>3. Accounts(d, g, L, n, R)
        BY <3>2, <4>1, <4>2, PassAccounts
      <4>4. counter'[ReqKey(x)] = d /\ passed'[x] = g
        BY <2>5, <2>8, <3>3, MetersHaveLimits DEF CounterInv, CounterTypes
      <4> QED
        BY <1>3, <3>1, <4>3, <4>4
    <3>4. CASE x # m
      <4>1. ReqKey(x) # ReqKey(m)
        BY <3>4 DEF ReqKey
      <4>2. counter'[ReqKey(x)] = e /\ passed'[x] = f
        BY <2>5, <2>8, <3>1, <3>4, <4>1, MetersHaveLimits DEF CounterInv, CounterTypes
      <4> QED
        BY <1>3, <3>1, <3>2, <4>2
    <3> QED
      BY <3>3, <3>4
  <2>d. WindowsCount'
    BY <2>c DEF WindowsCount, Accounts, Since, Late, LargestLimit, ReqKey
  <2>e. restarts' >= restarts /\ clock' >= clock
    BY <1>3 DEF CounterInv, CounterTypes, Time
  <2>f. \A x \in Meters, t \in Time : t < clock' => passed'[x][t] = passed[x][t]
    BY <1>3, <2>a DEF CounterInv, CounterTypes, Time
  <2> QED
    BY <2>9, <2>b, <2>d, <2>e, <2>f, AccountsSuffice
<1> QED
  BY <1>4, <1>5

LEMMA ChargeKeepsBooks ==
    ASSUME CounterInv, CallTypes, NEW r \in Calls, RecordTokenUsage(r)
    PROVE  CounterInv'
<1>1. PICK q, c : q = call[r] /\ CallOk(q) /\ q.pc = "charge" /\ c = Head(q.todo)
  BY DEF CallTypes, RecordTokenUsage
<1>2. c \in ChecksOf(q.user) /\ c.axis = "tokens"
  BY <1>1, TodoIs
<1>3. PICK k \in Keys : k = c.key /\ \A m \in Meters : k # ReqKey(m)
  BY <1>2 DEF ChecksOf, CheckType, ReqKey
<1>4. PICK n \in TokensUsed : IncrBy(k, n)
  BY <1>1, <1>3 DEF RecordTokenUsage
<1>5. PICK d : counter' = [counter EXCEPT ![k] = d] /\ d \in Counter
  <2>1. PICK e \in {None} \cup Counter : e = counter[k]
    BY DEF CounterInv, CounterTypes
  <2>2. clock \in Nat /\ Window \in Nat /\ n \in Nat
    BY RateAssumption DEF CounterInv, CounterTypes, Time
  <2>3. GetInt(k) \in Nat
    BY <2>1 DEF GetInt, Live, Counter
  <2>4. Live(k) => e.until \in Nat
    BY <2>1 DEF Live, Counter
  <2>5. PICK d : d = [count |-> GetInt(k) + n, until |-> IF Live(k) THEN e.until ELSE clock + Window]
    OBVIOUS
  <2>6. d \in Counter
    <3>1. (IF Live(k) THEN e.until ELSE clock + Window) \in Nat
      BY <2>2, <2>4
    <3> QED
      BY <2>2, <2>3, <2>5, <3>1 DEF Counter
  <2>7. counter' = [counter EXCEPT ![k] = d]
    BY <1>4, <2>1, <2>5 DEF IncrBy
  <2> QED
    BY <2>6, <2>7
<1>6. counter' \in [Keys -> {None} \cup Counter]
  BY <1>5 DEF CounterInv, CounterTypes
<1>7. \A m \in Meters : counter'[ReqKey(m)] = counter[ReqKey(m)]
  BY <1>3, <1>5, MetersHaveLimits DEF CounterInv, CounterTypes
<1>8. UNCHANGED <<clock, restarts, passed>>
  BY DEF RecordTokenUsage
<1> QED
  BY <1>6, <1>7, <1>8, QuietSteps

-----------------------------------------------------------------------------
(* The invariant.                                                          *)

LimitInv == RuleTypes /\ CallTypes /\ CounterInv

LEMMA LimitInitInv == LimitInit => LimitInv
<1> SUFFICES ASSUME LimitInit PROVE LimitInv
  OBVIOUS
<1>1. RuleTypes /\ CallTypes /\ CounterTypes /\ NothingAhead
  BY LimitInitTypes
<1>2. ASSUME NEW m \in Meters
      PROVE  /\ Accounts(counter[ReqKey(m)], passed[m], LargestLimit(m[1]), clock, restarts)
             /\ \A t \in Time : SumFunctionOnSet(passed[m], Stretch(t)) = 0
  <2>1. PICK f \in [Time -> Nat], n \in Time : f = passed[m] /\ n = clock
    BY <1>1 DEF CounterTypes
  <2>2. counter[ReqKey(m)] = None
    BY MetersHaveLimits DEF LimitInit
  <2>3. \A t \in Time : f[t] = 0
    BY <2>1 DEF LimitInit
  <2>4. ASSUME NEW t \in Late(n) PROVE Since(f, t, n) = 0
    <3>1. IsFiniteSet(t..n) /\ t..n \subseteq Time
      BY TimesBetween DEF Late
    <3>2. \A x \in t..n : f[x] = 0
      BY <2>3, <3>1
    <3> QED
      BY <3>1, <3>2, SumOfZeros DEF Since
  <2>5. ASSUME NEW t \in Time PROVE SumFunctionOnSet(f, Stretch(t)) = 0
    <3>1. IsFiniteSet(Stretch(t)) /\ \A x \in Stretch(t) : f[x] = 0
      BY <2>3, StretchIs
    <3> QED
      BY <3>1, SumOfZeros
  <2>6. Accounts(None, f, LargestLimit(m[1]), n, restarts)
    BY <2>4 DEF Accounts
  <2> QED
    BY <2>1, <2>2, <2>5, <2>6
<1>3. WindowsCount /\ BurstBounded
  BY <1>2 DEF WindowsCount, BurstBounded
<1> QED
  BY <1>1, <1>3 DEF LimitInv, CounterInv

LEMMA RuleStep ==
    ASSUME RuleTypes, LimitNext
    PROVE  RuleTypes'
<1>1. CASE UNCHANGED ruleVars
  BY <1>1 DEF RuleTypes, ruleVars
<1>2. ASSUME NEW a \in Admins, NEW s \in Scopes, NEW value \in Rules \cup {None},
             WriteRule(a, s, value)
      PROVE  RuleTypes'
  <2>1. PICK job : job = [scope |-> s, value |-> value]
    OBVIOUS
  <2>2. job \in [scope : Scopes, value : Rules \cup {None}]
    BY <2>1
  <2>3. rule' = [rule EXCEPT ![s] = value] /\ admin' = [admin EXCEPT ![a] = job] /\ cached' = cached
    BY <1>2, <2>1 DEF WriteRule
  <2> QED
    BY <2>2, <2>3 DEF RuleTypes
<1>3. ASSUME NEW a \in Admins, RefreshCache(a) PROVE RuleTypes'
  <2>1. PICK job : job = admin[a] /\ job \in [scope : Scopes, value : Rules \cup {None}]
    BY <1>3 DEF RefreshCache, RuleTypes
  <2>2. /\ cached' = [cached EXCEPT ![job.scope] = job.value]
        /\ admin' = [admin EXCEPT ![a] = Idle] /\ rule' = rule
    BY <1>3, <2>1 DEF RefreshCache, SetRule
  <2> QED
    BY <2>1, <2>2 DEF RuleTypes
<1>4. ASSUME Restart PROVE RuleTypes'
  <2>1. /\ cached' \in {rule, [s \in Scopes |-> None]} /\ rule' = rule
        /\ admin' = [a \in Admins |-> Idle]
    BY <1>4 DEF Restart
  <2> QED
    BY <2>1 DEF RuleTypes
<1>5. ASSUME NEW r \in Calls, Step(r) \/ \E c \in UserTeams : CheckRateLimit(r, c[1], c[2])
      PROVE  UNCHANGED ruleVars
  BY <1>5 DEF Step, PassLimit, TripLimit, Poll, Answer, RecordTokenUsage, StoreFails, CheckRateLimit
<1>6. ASSUME ClockTick PROVE UNCHANGED ruleVars
  BY <1>6 DEF ClockTick
<1>7. ASSUME NEW a \in Admins, NEW s \in Writable,
             \/ DeleteRule(a, s)
             \/ \E value \in Rules : InsertRule(a, s, value) \/ UpdateRule(a, s, value)
      PROVE  RuleTypes'
  <2>1. s \in Scopes
    BY RateAssumption
  <2>2. \E value \in Rules \cup {None} : WriteRule(a, s, value)
    BY <1>7 DEF DeleteRule, InsertRule, UpdateRule
  <2> QED
    BY <1>2, <2>1, <2>2
<1> QED
  BY <1>1, <1>3, <1>4, <1>5, <1>6, <1>7 DEF LimitNext

\* Requests move by their own steps, and a restart ends them all.
LEMMA CallStep ==
    ASSUME RuleTypes, CallTypes, LimitNext
    PROVE  CallTypes'
<1>1. CASE UNCHANGED call
  BY <1>1 DEF CallTypes, CallOk
<1>2. ASSUME Restart PROVE CallTypes'
  <2>1. call' = [r \in Calls |-> Rest("rest")] /\ CallOk(Rest("rest"))
    BY <1>2, RestOk DEF Restart, Outcomes
  <2>2. DOMAIN call' = Calls /\ \A r \in Calls : CallOk(call'[r])
    BY <2>1
  <2> QED
    BY <2>2 DEF CallTypes, CallOk
<1>3. ASSUME NEW a \in Admins,
             \/ RefreshCache(a)
             \/ \E s \in Writable :
                  \/ DeleteRule(a, s)
                  \/ \E value \in Rules : InsertRule(a, s, value) \/ UpdateRule(a, s, value)
      PROVE  UNCHANGED call
  BY <1>3 DEF RefreshCache, DeleteRule, InsertRule, UpdateRule, WriteRule
<1>4. ASSUME ClockTick PROVE UNCHANGED call
  BY <1>4 DEF ClockTick
<1> QED
  BY <1>1, <1>2, <1>3, <1>4, StepsKeepCalls DEF LimitNext

LEMMA CounterStep ==
    ASSUME CounterInv, CallTypes, LimitNext
    PROVE  CounterInv'
<1>1. CASE UNCHANGED <<counter, clock, restarts, passed>>
  BY <1>1, QuietSteps DEF CounterInv, CounterTypes
<1>2. ASSUME NEW r \in Calls, Step(r) \/ \E c \in UserTeams : CheckRateLimit(r, c[1], c[2])
      PROVE  \/ UNCHANGED <<counter, clock, restarts, passed>>
             \/ PassLimit(r) \/ RecordTokenUsage(r)
  BY <1>2 DEF Step, TripLimit, Poll, Answer, StoreFails, CheckRateLimit
<1>3. ASSUME NEW a \in Admins,
             \/ RefreshCache(a)
             \/ \E s \in Writable :
                  \/ DeleteRule(a, s)
                  \/ \E value \in Rules : InsertRule(a, s, value) \/ UpdateRule(a, s, value)
      PROVE  UNCHANGED <<counter, clock, restarts, passed>>
  BY <1>3 DEF RefreshCache, DeleteRule, InsertRule, UpdateRule, WriteRule
<1> QED
  BY <1>1, <1>2, <1>3, PassKeepsBooks, ChargeKeepsBooks, TickKeepsBooks, RestartKeepsBooks
     DEF LimitNext

LEMMA LimitNextInv == LimitInv /\ [LimitNext]_limitVars => LimitInv'
<1>1. ASSUME LimitInv, LimitNext PROVE LimitInv'
  BY <1>1, RuleStep, CallStep, CounterStep DEF LimitInv
<1>2. ASSUME LimitInv, UNCHANGED limitVars PROVE LimitInv'
  <2>1. UNCHANGED <<ruleVars, call, counter, clock, restarts, passed>>
    BY <1>2 DEF limitVars
  <2>2. RuleTypes'
    BY <1>2, <2>1 DEF LimitInv, RuleTypes, ruleVars
  <2>3. CallTypes'
    BY <1>2, <2>1 DEF LimitInv, CallTypes, CallOk
  <2>4. CounterInv'
    BY <1>2, <2>1, QuietSteps DEF LimitInv, CounterInv, CounterTypes
  <2> QED
    BY <2>2, <2>3, <2>4 DEF LimitInv
<1> QED
  BY <1>1, <1>2

THEOREM LimitInvariant == LimitSpec => []LimitInv
<1>1. LimitInit => LimitInv
  BY LimitInitInv
<1>2. LimitInv /\ [LimitNext]_limitVars => LimitInv'
  BY LimitNextInv
<1> QED
  BY <1>1, <1>2, PTL DEF LimitSpec

\* try_consume and _pool_rate_limit_key: whoever shares a limit, however their
\* calls interleave, whatever the rules become and however often the store loses
\* its counters, a stretch of one window's length sees fewer requests of a meter
\* pass than two windows of its largest limit allow, and one more per restart.
THEOREM BurstsStayBounded == LimitSpec => []BurstBounded
<1>1. LimitInv => BurstBounded
  BY DEF LimitInv, CounterInv
<1> QED
  BY <1>1, LimitInvariant, PTL
=============================================================================
