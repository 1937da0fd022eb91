---------------------------- MODULE UsageReport -----------------------------
(***************************************************************************)
(* The usage dashboard: sums over whatever usage_logs holds by now, read   *)
(* while calls go on being charged and logged.  Every panel is a query of  *)
(* its own over the same rows; one of them stands for all.                 *)
(***************************************************************************)
EXTENDS Metering, Functions

\* A row without a cost adds nothing to a sum.
CostOf(r) == IF r.cost = Absent THEN 0 ELSE r.cost
TotalSpend == SumFunctionOnSet([i \in DOMAIN rows |-> CostOf(rows[i])], DOMAIN rows)

\* get_usage_summary against check_budget_available's counters: what finance is
\* shown was taken from the organisation's budget, and what was taken there had
\* been taken from a team's first; the reports may lag, never run ahead.
SummaryWithinBooks == TotalSpend <= spend["org"] /\ spend["org"] <= spend["team"]
=============================================================================
