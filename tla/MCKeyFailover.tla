---------------------------- MODULE MCKeyFailover ----------------------------
(* One provider: with no key yet, or with a primary and its backup. *)
EXTENDS KeyFailover, TLC

CONSTANTS k1, k2, k3

MCLabel == k1 :> "A" @@ k2 :> "B" @@ k3 :> "C"
KeyRow(primary, target) ==
    [primary |-> primary, enabled |-> primary, target |-> target, group |-> TRUE, version |-> 0]
NoKeys  == [k \in Keys |-> None]
TwoKeys == k1 :> KeyRow(TRUE, k2) @@ k2 :> KeyRow(FALSE, None) @@ k3 :> None
MCTables == {NoKeys, TwoKeys}
=============================================================================
