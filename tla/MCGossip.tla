------------------------------ MODULE MCGossip ------------------------------
(***************************************************************************)
(* Three daemons, in five situations: two starting at the same time (their *)
(* dials may cross); two settled ones with faults; three settled ones of   *)
(* which one pings; two joining a third that learns of one by gossip; a    *)
(* third that has died, of which the other two keep gossiping.             *)
(***************************************************************************)
EXTENDS Gossip

MCStarts ==
    {[settled |-> {}, lost |-> {}, joining |-> {1, 2}, beaters |-> {1, 2}, pingers |-> {}, events |-> 2],
     [settled |-> {1, 2}, lost |-> {}, joining |-> {}, beaters |-> {1, 2}, pingers |-> {1}, events |-> 3],
     [settled |-> {1, 2, 3}, lost |-> {}, joining |-> {}, beaters |-> {}, pingers |-> {1}, events |-> 1],
     [settled |-> {3}, lost |-> {}, joining |-> {1, 2}, beaters |-> {1}, pingers |-> {}, events |-> 0],
     [settled |-> {1, 2, 3}, lost |-> {3}, joining |-> {}, beaters |-> {1, 2}, pingers |-> {}, events |-> 0]}
=============================================================================
