---------------------------- MODULE MCAuditChain ----------------------------
(***************************************************************************)
(* Small instances of AuditChain with model values for rows and requests.  *)
(***************************************************************************)
EXTENDS AuditChain, TLC

CONSTANTS e1, e2, e3, e4, w1, w2, a1, a2

Symmetric == Permutations(Entries) \cup Permutations(Writers) \cup Permutations(Admins)
=============================================================================
