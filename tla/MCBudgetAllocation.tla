------------------------- MODULE MCBudgetAllocation -------------------------
(***************************************************************************)
(* Two teams under the organisation's ceiling, one of them with two users  *)
(* and a ceiling of its own.                                               *)
(***************************************************************************)
EXTENDS BudgetAllocation, TLC

CONSTANTS c1, c2, c3, t1, t2, u1, u2, r1

Row(state, budget) == [state |-> state, budget |-> budget]

OneTeam == {<<t1, u1>>, <<t1, u2>>}

\* u1 is a member, u2 may still join.
OneMember  == (<<t1, u1>> :> Row("active", 2)) @@ (<<t1, u2>> :> Row("none", None))
SecondOpen == (t1 :> 3) @@ (t2 :> None)
OrgRow     == [exists |-> TRUE, ceiling |-> 3]

Symmetric == Permutations(Calls)
=============================================================================
