--------------------------- MODULE MCAccessSchedule ---------------------------
(* One service account of one team, two dates of three hours. *)
EXTENDS AccessSchedule, TLC

CONSTANTS t1, s1, a1, a2

MCTeamOf == s1 :> t1
Window(on, days, start, end) == [enabled |-> on, days |-> days, start |-> start, end |-> end]
AllDay    == Window(TRUE, Days, Unset, Unset)
Morning   == Window(TRUE, {0, 1}, 0, 1)
Overnight == Window(TRUE, {0, 1}, 2, 0)
Off       == Window(FALSE, {}, Unset, Unset)
MCWindows == {AllDay, Morning, Overnight, Off}

\* The account may call all day; nobody else has a schedule.
MCRow == [s \in Slots |-> IF s = s1 THEN AllDay ELSE Unset]
=============================================================================
