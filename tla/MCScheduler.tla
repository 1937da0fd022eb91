----------------------------- MODULE MCScheduler -----------------------------
(* Two processes, a key that is due and one to be created, days of two ticks. *)
EXTENDS Scheduler

CONSTANTS k1, k2

\* k1 is due on the first day.
MCInitialPolicy ==
    [k \in {k1, k2} |->
        IF k = k1 THEN [enabled |-> TRUE, interval |-> 1, next |-> 1, overlap |-> 2]
        ELSE [enabled |-> FALSE, interval |-> None, next |-> None, overlap |-> 1]]
=============================================================================
