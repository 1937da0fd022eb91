--------------------------- MODULE MCBudgetLedger ---------------------------
(***************************************************************************)
(* Small instances of BudgetLedger: two members of one team, one flat user *)
(* and model values for the requests.                                      *)
(***************************************************************************)
EXTENDS BudgetLedger, TLC

CONSTANTS s1, s2, m1, m2, u1, v1

\* m1 has the budget, m2 spends unmetered, the flat user has the least budget.
MeteredAndNot == (m1 :> 2) @@ (m2 :> NoBudget) @@ (u1 :> 1)
OneMember     == (m1 :> 2)
TwoMembers    == (m1 :> 2) @@ (m2 :> NoBudget)

Symmetric == Permutations(Slots)

\* The closed form of AdvancePeriodStart is what the loop of
\* advance_period_start computes, whatever month the period started in.
CatchUp[m \in 0 .. 40, now \in 0 .. 40] ==
    IF ComputePeriodEnd(m) <= now THEN CatchUp[ComputePeriodEnd(m), now] ELSE m
ASSUME CatchUpIsClosedForm ==
    \A m, now \in 0 .. 24 : AdvancePeriodStart(m, now) = CatchUp[m, now]
=============================================================================
