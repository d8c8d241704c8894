------------------------------ MODULE MCLease -------------------------------
(* Lease for TLC: the nodes that ask for one and for two leases.           *)
EXTENDS Lease, TLC

CONSTANTS Once, Twice

MCBudget == [n \in Nodes |-> IF n \in Twice THEN 2 ELSE IF n \in Once THEN 1 ELSE 0]

\* Sound when every node asks equally often.
Symmetry == Permutations(Nodes)
=============================================================================
