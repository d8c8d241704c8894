------------------------------ MODULE NodeCore ------------------------------
(***************************************************************************)
(* The services of a node that keep state between requests: the S3 object  *)
(* surface, which this module extends, the replication mode and the key    *)
(* registry.  They run in one process and share no state: a step of the    *)
(* node is a step of one of them, and none reads what another writes.      *)
(***************************************************************************)
EXTENDS S3Gateway

CONSTANTS
  N, Modes, None, Order, Factors, Floors, MaxChanges, MaxLosses, MaxTicks,
  Purposes, Workers, NoKey, MaxKeys, MaxFailures

\* loadGlobalConfig refuses an empty order, a factor below 1 and a negative floor.
ASSUME ModesAssumption ==
  /\ N \in Nat \ {0}
  /\ None \in Modes
  /\ Order \in Seq(Modes) \ {<<>>}
  /\ Factors \subseteq Nat \ {0} /\ Floors \subseteq Nat
  /\ MaxChanges \in Nat /\ MaxLosses \in Nat /\ MaxTicks \in Nat

VARIABLES
  state, sending, factor, floor, index, switched, agreed, changes, losses, ticks,
  keys, nextID, job, latest, failures

Mode == INSTANCE ReplicationMode
Registry == INSTANCE KeyRegistry

ASSUME KeysAssumption ==
  /\ Purposes \in Seq(STRING) \ {<<>>}
  /\ MaxKeys \in Nat /\ MaxFailures \in Nat
  /\ NoKey \notin Registry!KeyIds \cup Registry!Entries

modeVars == <<state, sending, factor, floor, index, switched, agreed, changes, losses, ticks>>
registryVars == <<keys, nextID, job, latest, failures>>
coreVars == <<vars, modeVars, registryVars>>

CoreInit == Init /\ Mode!Init /\ Registry!Init

CoreNext ==
  \/ Next /\ UNCHANGED <<modeVars, registryVars>>
  \/ Mode!Next /\ UNCHANGED <<vars, registryVars>>
  \/ Registry!Next /\ UNCHANGED <<vars, modeVars>>

CoreSpec == CoreInit /\ [][CoreNext]_coreVars

----------------------------------------------------------------------------
\* Settled changes of the replication mode reach every node (see ReplicationMode).
ModesAgree == Mode!ModesAgree

\* The controller's switches respect the durability floor (see ReplicationMode).
FloorKept == Mode!FloorKept

\* The last rotation or reload decides the key in use (see KeyRegistry).
LatestKeyActive == Registry!LatestKeyActive

\* A purpose never loses its active key (see KeyRegistry).
ActiveKept == [][Registry!KeepsActive]_registryVars
====
