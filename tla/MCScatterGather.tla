--------------------------- MODULE MCScatterGather ---------------------------
(* Two peers and two callers at once, in the situations of MCStarts.       *)
EXTENDS ScatterGather, TLC

View(a1, c1, a2, c2) ==
    "p1" :> [alive |-> a1, conn |-> c1] @@ "p2" :> [alive |-> a2, conn |-> c2]
BothAlive == View(TRUE, TRUE, TRUE, TRUE)
OneSuspect == View(TRUE, TRUE, FALSE, TRUE)
OneUnconnected == View(TRUE, FALSE, TRUE, TRUE)
NoneAlive == View(FALSE, TRUE, FALSE, FALSE)

Holding(m, s1, s2) == "me" :> m @@ "p1" :> s1 @@ "p2" :> s2
Asking(k1, k2) == "q1" :> k1 @@ "q2" :> k2

Situations(views, s, p, e) ==
    {[view |-> v, store |-> s, plan |-> p, may |-> e] : v \in views}

MCStarts ==
    LET everywhere == Holding({"a"}, {"a", "long"}, {"a"})
        scattered  == Holding({"a", "long"}, {"a"}, {"long"})
    IN  UNION {
          Situations({BothAlive, OneSuspect, OneUnconnected, NoneAlive},
                     everywhere, Asking("list", "delete"), {}),
          Situations({BothAlive, OneUnconnected}, scattered, Asking("list", "none"), {"fault", "put", "restart"}),
          Situations({BothAlive, OneSuspect}, scattered, Asking("delete", "delete"), {}),
          Situations({BothAlive, OneSuspect}, everywhere, Asking("delete", "none"), {"fault", "put", "restart"}),
          Situations({BothAlive, OneSuspect}, everywhere, Asking("oprf", "none"), {"restart", "fault"}),
          Situations({BothAlive}, everywhere, Asking("oprf", "oprf"), {}),
          Situations({BothAlive, OneUnconnected}, everywhere, Asking("delete", "version"), {})}
=============================================================================
