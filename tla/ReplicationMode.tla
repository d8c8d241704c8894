-------------------------- MODULE ReplicationMode ---------------------------
(***************************************************************************)
(* The replication mode of a cluster: the change servers of                *)
(* server/replication.go, where node 0 passes a change on to its peers,    *)
(* and the controller of metrics/metrics.go, which node 0 runs to step     *)
(* through the configured order of modes with the load.                    *)
(*                                                                         *)
(* A change is applied by SetReplicationState in the order in which        *)
(* changes arrive; its timestamp is recorded and never compared.  A        *)
(* propagation that fails is logged and not repeated.  The controller's    *)
(* push (metrics/replication.go) sends the token and the JSON data without *)
(* the timestamp and the mode that HandshakeServer reads in between, so    *)
(* every receiver refuses it: a push changes no node's mode.               *)
(***************************************************************************)
EXTENDS Integers, FiniteSets, Sequences

CONSTANTS
  N,             \* number of daemons; node 0 is the primary
  Modes,         \* replication modes
  None,          \* ReplicationNone, the mode of a fresh process
  Order,         \* cfg.Global.ReplicationOrder
  Factors,       \* values of cfg.Global.ReplicationFactor
  Floors,        \* values of cfg.Global.MinimumDurabilityFactor; 0 is no floor
  MaxChanges,    \* bound on changes sent by operators
  MaxLosses,     \* bound on lost propagations and restarts
  MaxTicks       \* bound on ticks of the controller

VARIABLES
  state,         \* replicationState of each node: [old, new]
  sending,       \* propagations under way from node 0: [to, mode, change]
  factor, floor, \* the configuration
  index,         \* currentIndex of the controller
  switched,      \* modes the controller's switches selected (ghost)
  agreed,        \* no overlap, loss, restart or detour since the last change (ghost)
  changes, losses, ticks

modeVars == <<state, sending, agreed, changes, losses>>
controlVars == <<index, switched, ticks>>
vars == <<modeVars, controlVars, factor, floor>>

Nodes == 0 .. N - 1

TypeOK ==
  /\ state \in [Nodes -> [old : Modes, new : Modes]]
  /\ sending \subseteq [to : Nodes \ {0}, mode : Modes, change : 1 .. MaxChanges]
  /\ factor \in Factors /\ floor \in Floors
  /\ index \in DOMAIN Order
  /\ switched \subseteq Modes
  /\ agreed \in BOOLEAN
  /\ changes \in 0 .. MaxChanges /\ losses \in 0 .. MaxLosses /\ ticks \in 0 .. MaxTicks

Init ==
  /\ state = [n \in Nodes |-> [old |-> None, new |-> None]]
  /\ sending = {}
  /\ factor \in Factors
  /\ floor \in Floors /\ floor <= factor
  /\ index = 1
  /\ switched = {}
  /\ agreed = TRUE
  /\ changes = 0
  /\ losses = 0
  /\ ticks = 0

----------------------------------------------------------------------------
SetReplicationState(n, m) == state' = [state EXCEPT ![n] = [old |-> @.new, new |-> m]]

\* A slip that Propagation avoids: the state captured before the change is sent.
PropagationStale(m, id) == [to : Nodes \ {0}, mode : {state[0].new}, change : {id}]

\* One client goroutine per peer, each with the state this handler set.
Propagation(m, id) == [to : Nodes \ {0}, mode : {m}, change : {id}]

\* An operator's change reaches the change server of node n.
ChangeReplicationMode(n, m) ==
  /\ changes < MaxChanges
  /\ changes' = changes + 1
  /\ SetReplicationState(n, m)
  /\ sending' = IF n = 0 THEN sending \cup Propagation(m, changes + 1) ELSE sending
  /\ agreed' = (n = 0 /\ sending = {})
  /\ UNCHANGED <<losses, controlVars, factor, floor>>

\* A propagation reaches a peer, which is not the primary and passes nothing on.
Propagated(s) ==
  /\ SetReplicationState(s.to, s.mode)
  /\ sending' = sending \ {s}
  /\ UNCHANGED <<agreed, changes, losses, controlVars, factor, floor>>

\* A dial, handshake or write of ChangeReplicationModeClient fails.
PropagationLost(s) ==
  /\ losses < MaxLosses
  /\ losses' = losses + 1
  /\ sending' = sending \ {s}
  /\ agreed' = FALSE
  /\ UNCHANGED <<state, changes, controlVars, factor, floor>>

\* The mode is not stored: a process starts with the default, and a primary that
\* stops takes its propagations with it.
RestartNode(n) ==
  /\ losses < MaxLosses
  /\ losses' = losses + 1
  /\ state' = [state EXCEPT ![n] = [old |-> None, new |-> None]]
  /\ sending' = IF n = 0 THEN {} ELSE sending
  /\ agreed' = FALSE
  /\ IF n = 0 THEN index' = 1 ELSE UNCHANGED index
  /\ UNCHANGED <<changes, switched, ticks, factor, floor>>

----------------------------------------------------------------------------
\* The index checkMetricsAndSwap asks for; no reading keeps it.
checkMetricsAndSwap(load) ==
  CASE load = "high" -> IF index < Len(Order) THEN index + 1 ELSE index
    [] load = "low" -> IF index > 1 THEN index - 1 ELSE index
    [] OTHER -> index

effectiveModeDurability(m) ==
  IF m = None THEN 1 ELSE IF factor < N THEN factor ELSE N

\* A slip that shouldSwitchMode avoids: the wanted copies, not the possible ones.
shouldSwitchModeWanted(i) == floor <= 0 \/ (IF Order[i] = None THEN 1 ELSE factor) >= floor

shouldSwitchMode(i) == floor <= 0 \/ effectiveModeDurability(Order[i]) >= floor

\* One tick of GetMetrics: a switch by load, then one by the fallback timeout,
\* which both respect the floor.
Tick(load, overdue) ==
  LET wanted == checkMetricsAndSwap(load)
      moved == wanted # index /\ shouldSwitchMode(wanted)
      first == IF moved THEN wanted ELSE index
      back == overdue /\ first > 1 /\ shouldSwitchMode(first - 1)
      second == IF back THEN first - 1 ELSE first IN
  /\ ticks < MaxTicks
  /\ ticks' = ticks + 1
  /\ index' = second
  /\ switched' = switched \cup (IF moved THEN {Order[first]} ELSE {})
                          \cup (IF back THEN {Order[second]} ELSE {})
  /\ UNCHANGED <<modeVars, factor, floor>>

Next ==
  \/ \E n \in Nodes :
       \/ \E m \in Modes : ChangeReplicationMode(n, m)
       \/ RestartNode(n)
  \/ \E s \in sending : Propagated(s) \/ PropagationLost(s)
  \/ \E load \in {"high", "low", "between"}, overdue \in BOOLEAN : Tick(load, overdue)

Spec == Init /\ [][Next]_vars

----------------------------------------------------------------------------
\* Once a change made at the primary has settled, every node runs the
\* primary's mode.  The cases the code does not order are left out: a change
\* that began before the last one had reached everybody, one made at another
\* node, a lost propagation, a restart (ChangeReplicationModeServer,
\* SetReplicationState).
ModesAgree == agreed /\ sending = {} => \A n \in Nodes : state[n].new = state[0].new

\* No switch of the controller, by load or by timeout, selects a mode of which
\* this cluster can keep fewer copies than the configured minimum.  The mode
\* pushed when the controller starts is not a switch and is not checked
\* (shouldSwitchMode, GetMetrics).
FloorKept ==
  \A m \in switched :
    Cardinality({n \in Nodes : n < factor /\ (m = None => n = 0)}) >= floor
====
