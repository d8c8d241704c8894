------------------------------- MODULE MCHeal -------------------------------
(***************************************************************************)
(* Two nodes.  With a replication factor of 2 both hold the blob; with one *)
(* of 1 CRUSH places it on node 1, and node 2 holds it from earlier on.    *)
(***************************************************************************)
EXTENDS Heal

C == INSTANCE Crush

Placed(rf) == C!Placement(<<1, 1>>, <<"", "">>, <<2, 1>>, rf)

MCLayouts ==
  { [members |-> Placed(2), target |-> 2, holders |-> {1, 2}],
    [members |-> Placed(1), target |-> 1, holders |-> {2}] }
=============================================================================
