------------------------------- MODULE Crush --------------------------------
(***************************************************************************)
(* Where the replicas of an object go (common/crush.go, Placement).  The   *)
(* score of a node for an object, -weight / log(hash), is a number here:   *)
(* only its order matters.  Nodes are 1 .. n in the order of the map.      *)
(***************************************************************************)
EXTENDS Integers, FiniteSets, FiniteSetsExt, Sequences, SequencesExt

\* Nodes that may receive data at all.
Eligible(weight) == {n \in DOMAIN weight : weight[n] > 0}

\* sort.SliceStable by descending score: nodes that sort before n.
Above(S, score, n) ==
  {m \in S : score[m] > score[n] \/ (score[m] = score[n] /\ m < n)}

\* Nodes of S in that order.
Ranked(S, score) ==
  SetToSortSeq(S, LAMBDA m, n : m \in Above(S, score, n))

\* A slip that FirstOfDomain avoids: a domain may be taken twice in a row.
AnyOfDomain(S, score, domain) == S

\* The greedy pass takes the best node of every failure domain.
FirstOfDomain(S, score, domain) ==
  {n \in S : \A m \in Above(S, score, n) : domain[m] # domain[n]}

\* Without failure domains the best nodes; with them, the best of each domain
\* first and then, sharing domains, the others.  Too large a factor is capped.
Placement(weight, domain, score, rf) ==
  LET nodes == Eligible(weight)
      size == Min({rf, Cardinality(nodes)})
      first == IF \A n \in nodes : domain[n] = "" THEN nodes
               ELSE FirstOfDomain(nodes, score, domain)
  IN SubSeq(Ranked(first, score) \o Ranked(nodes \ first, score), 1, size)

----------------------------------------------------------------------------
(* The reference: what the comment of Placement claims of the greedy pass. *)

Domains(S, domain) == {domain[n] : n \in S}

\* Of the replica sets of the right size, those with most failure domains,
\* and of these the one whose nodes have the best ranks, in order.
Best(weight, domain, score, rf) ==
  LET nodes == Eligible(weight)
      size == Min({rf, Cardinality(nodes)})
      spread(S) == IF \A n \in nodes : domain[n] = "" THEN 0
                   ELSE Cardinality(Domains(S, domain))
      sets == {S \in SUBSET nodes : Cardinality(S) = size}
      widest == {S \in sets : \A T \in sets : spread(T) <= spread(S)}
      beats(S, T) == \* the best node that is in one only is in S
        \A n \in T \ S : \E m \in S \ T : m \in Above(nodes, score, n)
  IN CHOOSE S \in widest : \A T \in widest : beats(S, T)
=============================================================================
