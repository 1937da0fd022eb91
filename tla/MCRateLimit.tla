----------------------------- MODULE MCRateLimit -----------------------------
(* Two users of one team, whose requests share the team's limit. *)
EXTENDS RateLimit, TLC

CONSTANTS u1, u2, t1

Rule(requests, tokens, queue) == [requests |-> requests, tokens |-> tokens, queue |-> queue]
MCRules == {Rule(2, None, TRUE), Rule(None, 1, FALSE)}
MCRule == [s \in Scopes |-> IF s = t1 THEN Rule(2, None, TRUE) ELSE None]
MCUserTeams == {<<u1, t1>>, <<u2, t1>>}
=============================================================================
