-------------------------- MODULE NodeCoreProofs ----------------------------
(***************************************************************************)
(* Proofs about the mode and the keys of NodeCore.  Each service has an    *)
(* inductive invariant of its own; a step of the node is a step of one     *)
(* service and leaves the variables of the others alone.                   *)
(***************************************************************************)
EXTENDS NodeCore, FiniteSetTheorems, WellFoundedInduction, TLAPS

(***************************************************************************)
(* The replication mode.                                                   *)
(***************************************************************************)

\* While the changes are in order, what is under way is the primary's mode, and a
\* node that does not run that mode yet is still to be told.
Underway ==
  agreed =>
    /\ \A s \in sending : s.mode = state[0].new
    /\ \A n \in Mode!Nodes :
         state[n].new = state[0].new \/ \E s \in sending : s.to = n

\* Every mode that was switched to had passed shouldSwitchMode.
FloorPassed == \A m \in switched : floor <= 0 \/ Mode!effectiveModeDurability(m) >= floor

ModeInv == Mode!TypeOK /\ Underway /\ FloorPassed

(* The start. *)
LEMMA ModeInit == Mode!Init => ModeInv
<1> SUFFICES ASSUME Mode!Init PROVE ModeInv
  OBVIOUS
<1>1. Mode!TypeOK
  BY ModesAssumption DEF Mode!Init, Mode!TypeOK, Mode!Nodes
<1>2. Underway
  BY ModesAssumption DEF Mode!Init, Underway, Mode!Nodes
<1>3. FloorPassed
  BY DEF Mode!Init, FloorPassed
<1> QED BY <1>1, <1>2, <1>3 DEF ModeInv

(* A change at the primary finds nobody else being told, and tells everyone;  *)
(* any other change ends the agreement.                                    *)
LEMMA ChangeReplicationModeStep ==
  ASSUME ModeInv, NEW n \in Mode!Nodes, NEW m \in Modes, Mode!ChangeReplicationMode(n, m)
  PROVE  ModeInv'
<1>1. /\ changes < MaxChanges /\ changes' = changes + 1
      /\ state' = [state EXCEPT ![n] = [old |-> @.new, new |-> m]]
      /\ sending' = IF n = 0 THEN sending \cup Mode!Propagation(m, changes + 1) ELSE sending
      /\ agreed' <=> (n = 0 /\ sending = {})
      /\ UNCHANGED <<losses, index, switched, ticks, factor, floor>>
  BY Zenon DEF Mode!ChangeReplicationMode, Mode!SetReplicationState, Mode!controlVars
<1>2. Mode!Propagation(m, changes + 1)
        \subseteq [to : Mode!Nodes \ {0}, mode : Modes, change : 1 .. MaxChanges]
  BY <1>1, ModesAssumption DEF ModeInv, Mode!TypeOK, Mode!Propagation
<1>3. Mode!TypeOK'
  <2>1. state' \in [Mode!Nodes -> [old : Modes, new : Modes]]
    BY <1>1 DEF ModeInv, Mode!TypeOK
  <2>2. sending' \subseteq [to : Mode!Nodes \ {0}, mode : Modes, change : 1 .. MaxChanges]
    BY <1>1, <1>2 DEF ModeInv, Mode!TypeOK
  <2>3. changes' \in 0 .. MaxChanges
    BY <1>1, ModesAssumption DEF ModeInv, Mode!TypeOK
  <2>4. agreed' \in BOOLEAN
    BY DEF Mode!ChangeReplicationMode
  <2> QED BY <1>1, <2>1, <2>2, <2>3, <2>4 DEF ModeInv, Mode!TypeOK, Mode!Nodes
<1>4. Underway'
  <2> SUFFICES ASSUME agreed'
               PROVE  /\ \A s \in sending' : s.mode = state'[0].new
                      /\ \A k \in Mode!Nodes :
                           state'[k].new = state'[0].new \/ \E s \in sending' : s.to = k
    BY DEF Underway, Mode!Nodes
  <2>1. n = 0 /\ sending' = Mode!Propagation(m, changes + 1)
    BY <1>1
  <2>2. state'[0].new = m
    BY <1>1, <2>1 DEF ModeInv, Mode!TypeOK
  <2>3. \A s \in sending' : s.mode = m
    BY <2>1 DEF Mode!Propagation
  <2>4. ASSUME NEW k \in Mode!Nodes, k # 0
        PROVE  \E s \in sending' : s.to = k
    <3>1. [to |-> k, mode |-> m, change |-> changes + 1] \in sending'
      BY <2>1, <2>4 DEF Mode!Propagation
    <3> QED BY <3>1
  <2> QED BY <2>2, <2>3, <2>4
<1>5. FloorPassed'
  BY <1>1 DEF ModeInv, FloorPassed, Mode!effectiveModeDurability
<1> QED BY <1>3, <1>4, <1>5 DEF ModeInv

(* A node that is told runs the primary's mode, and nobody else is told less. *)
LEMMA PropagatedStep ==
  ASSUME ModeInv, NEW s \in sending, Mode!Propagated(s)
  PROVE  ModeInv'
<1>1. /\ state' = [state EXCEPT ![s.to] = [old |-> @.new, new |-> s.mode]]
      /\ sending' = sending \ {s}
      /\ UNCHANGED <<agreed, changes, losses, index, switched, ticks, factor, floor>>
  BY DEF Mode!Propagated, Mode!SetReplicationState, Mode!controlVars
<1>2. s.to \in Mode!Nodes \ {0} /\ s.mode \in Modes
  BY DEF ModeInv, Mode!TypeOK
<1>3. Mode!TypeOK'
  <2>1. state' \in [Mode!Nodes -> [old : Modes, new : Modes]]
    BY <1>1, <1>2 DEF ModeInv, Mode!TypeOK
  <2> QED BY <1>1, <2>1 DEF ModeInv, Mode!TypeOK, Mode!Nodes
<1>4. Underway'
  <2> SUFFICES ASSUME agreed
               PROVE  /\ \A r \in sending' : r.mode = state'[0].new
                      /\ \A k \in Mode!Nodes :
                           state'[k].new = state'[0].new \/ \E r \in sending' : r.to = k
    BY <1>1 DEF Underway, Mode!Nodes
  <2>1. 0 \in Mode!Nodes /\ state'[0] = state[0]
    BY <1>1, <1>2, ModesAssumption DEF ModeInv, Mode!TypeOK, Mode!Nodes
  <2>2. state'[s.to].new = state[0].new
    BY <1>1, <1>2 DEF ModeInv, Underway, Mode!TypeOK
  <2>3. ASSUME NEW k \in Mode!Nodes, k # s.to
        PROVE  state'[k].new = state[0].new \/ \E r \in sending' : r.to = k
    BY <1>1, <2>3 DEF ModeInv, Underway, Mode!TypeOK
  <2> QED BY <1>1, <2>1, <2>2, <2>3 DEF ModeInv, Underway
<1>5. FloorPassed'
  BY <1>1 DEF ModeInv, FloorPassed, Mode!effectiveModeDurability
<1> QED BY <1>3, <1>4, <1>5 DEF ModeInv

(* A lost propagation or a restart ends the agreement.                     *)
LEMMA ModeLossStep ==
  ASSUME ModeInv,
         \/ \E s \in sending : Mode!PropagationLost(s)
         \/ \E n \in Mode!Nodes : Mode!RestartNode(n)
  PROVE  ModeInv'
<1>1. /\ losses < MaxLosses /\ losses' = losses + 1
      /\ sending' \subseteq sending
      /\ ~agreed'
      /\ UNCHANGED <<changes, switched, ticks, factor, floor>>
  BY DEF Mode!PropagationLost, Mode!RestartNode, Mode!controlVars
<1>2. index' = index \/ index' = 1
  BY DEF Mode!PropagationLost, Mode!RestartNode, Mode!controlVars
<1>3. state' \in [Mode!Nodes -> [old : Modes, new : Modes]]
  BY ModesAssumption DEF Mode!PropagationLost, Mode!RestartNode, ModeInv, Mode!TypeOK
<1>4. agreed' \in BOOLEAN
  BY Zenon DEF Mode!PropagationLost, Mode!RestartNode
<1>5. index' \in DOMAIN Order
  BY <1>2, ModesAssumption DEF ModeInv, Mode!TypeOK
<1>6. losses' \in 0 .. MaxLosses
  BY <1>1, ModesAssumption DEF ModeInv, Mode!TypeOK
<1>7. Mode!TypeOK'
  BY <1>1, <1>3, <1>4, <1>5, <1>6 DEF ModeInv, Mode!TypeOK, Mode!Nodes
<1>8. Underway' /\ FloorPassed'
  BY <1>1 DEF ModeInv, Underway, FloorPassed, Mode!effectiveModeDurability
<1> QED BY <1>7, <1>8 DEF ModeInv

(* A tick of the controller switches to modes that passed the check only.  *)
LEMMA TickStep ==
  ASSUME ModeInv, NEW load \in {"high", "low", "between"}, NEW overdue \in BOOLEAN,
         Mode!Tick(load, overdue)
  PROVE  ModeInv'
<1> DEFINE wanted == Mode!checkMetricsAndSwap(load)
           moved == wanted # index /\ Mode!shouldSwitchMode(wanted)
           first == IF moved THEN wanted ELSE index
           back == overdue /\ first > 1 /\ Mode!shouldSwitchMode(first - 1)
           second == IF back THEN first - 1 ELSE first
<1>1. /\ ticks < MaxTicks /\ ticks' = ticks + 1
      /\ index' = second
      /\ switched' = switched \cup (IF moved THEN {Order[first]} ELSE {})
                              \cup (IF back THEN {Order[second]} ELSE {})
      /\ UNCHANGED <<state, sending, agreed, changes, losses, factor, floor>>
  BY DEF Mode!Tick, Mode!modeVars
<1>2. /\ Len(Order) \in Nat \ {0} /\ DOMAIN Order = 1 .. Len(Order)
      /\ \A i \in DOMAIN Order : Order[i] \in Modes
  BY ModesAssumption
<1>3. wanted \in DOMAIN Order
  BY <1>2 DEF ModeInv, Mode!TypeOK, Mode!checkMetricsAndSwap
<1> HIDE DEF wanted
<1>4. first \in DOMAIN Order /\ (moved => Mode!shouldSwitchMode(first))
  BY <1>3 DEF ModeInv, Mode!TypeOK
<1> HIDE DEF moved, first
<1>5. second \in DOMAIN Order /\ (back => Mode!shouldSwitchMode(second))
  BY <1>2, <1>4
<1> HIDE DEF back, second
<1>6. Mode!TypeOK'
  <2>1. switched' \subseteq Modes
    BY <1>1, <1>2, <1>4, <1>5 DEF ModeInv, Mode!TypeOK
  <2>2. ticks' \in 0 .. MaxTicks
    BY <1>1, ModesAssumption DEF ModeInv, Mode!TypeOK
  <2> QED BY <1>1, <1>5, <2>1, <2>2 DEF ModeInv, Mode!TypeOK, Mode!Nodes
<1>7. Underway'
  BY <1>1 DEF ModeInv, Underway, Mode!Nodes
<1>8. FloorPassed'
  BY <1>1, <1>4, <1>5
     DEF ModeInv, FloorPassed, Mode!effectiveModeDurability, Mode!shouldSwitchMode
<1> QED BY <1>6, <1>7, <1>8 DEF ModeInv

LEMMA ModeStep == ModeInv /\ Mode!Next => ModeInv'
<1> SUFFICES ASSUME ModeInv, Mode!Next PROVE ModeInv'
  OBVIOUS
<1>1. CASE \E n \in Mode!Nodes, m \in Modes : Mode!ChangeReplicationMode(n, m)
  BY <1>1, ChangeReplicationModeStep
<1>2. CASE \E s \in sending : Mode!Propagated(s)
  BY <1>2, PropagatedStep
<1>3. CASE \/ \E s \in sending : Mode!PropagationLost(s)
           \/ \E n \in Mode!Nodes : Mode!RestartNode(n)
  BY <1>3, ModeLossStep
<1>4. CASE \E load \in {"high", "low", "between"}, overdue \in BOOLEAN : Mode!Tick(load, overdue)
  BY <1>4, TickStep
<1> QED BY <1>1, <1>2, <1>3, <1>4 DEF Mode!Next

LEMMA ModeQuiet == ModeInv /\ UNCHANGED modeVars => ModeInv'
BY DEF ModeInv, modeVars, Mode!TypeOK, Mode!Nodes, Underway, FloorPassed,
       Mode!effectiveModeDurability

(* The copies a cluster of N nodes can keep of an object in mode m are     *)
(* those effectiveModeDurability computes.                                 *)
LEMMA DurabilityCounted ==
  ASSUME ModeInv, NEW m \in Modes
  PROVE  Cardinality({n \in Mode!Nodes : n < factor /\ (m = None => n = 0)})
           = Mode!effectiveModeDurability(m)
<1> DEFINE d == Mode!effectiveModeDurability(m)
<1>1. factor \in Nat \ {0} /\ N \in Nat \ {0}
  BY ModesAssumption DEF ModeInv, Mode!TypeOK
<1>2. d \in Nat \ {0}
  BY <1>1 DEF Mode!effectiveModeDurability
<1>3. {n \in Mode!Nodes : n < factor /\ (m = None => n = 0)} = 0 .. d - 1
  BY <1>1 DEF Mode!effectiveModeDurability, Mode!Nodes
<1> HIDE DEF d
<1>4. Cardinality(0 .. d - 1) = d
  BY <1>2, FS_Interval
<1> QED BY <1>3, <1>4, Zenon DEF d

(***************************************************************************)
(* The key registry.                                                       *)
(***************************************************************************)

(* A bounded set of numbers that is not empty has a greatest member.       *)
LEMMA Greatest ==
  ASSUME NEW b \in Nat, NEW S \in SUBSET (0 .. b), S # {}
  PROVE  Registry!Max(S) \in S /\ \A y \in S : y <= Registry!Max(S)
<1> DEFINE R == OpToRel(<, Nat)
           T == {t \in Nat : b - t \in S}
<1>1. \A x, y \in Nat : <<x, y>> \in R <=> x < y
  BY DEF OpToRel
<1>2. \A x \in S : x \in Nat /\ b - x \in Nat /\ b - (b - x) = x
  <2> SUFFICES ASSUME NEW x \in S PROVE x \in Nat /\ b - x \in Nat /\ b - (b - x) = x
    OBVIOUS
  <2>1. x \in 0 .. b
    OBVIOUS
  <2> QED BY <2>1
<1>3. \A x \in S : b - x \in T
  BY <1>2
<1>4. T \subseteq Nat /\ T # {}
  BY <1>3, Zenon
<1> HIDE DEF R
<1>5. IsWellFoundedOn(R, Nat)
  BY NatLessThanWellFounded, Zenon DEF R
<1>6. PICK t \in T : \A u \in T : ~(<<u, t>> \in R)
  <2> HIDE DEF T
  <2> QED BY <1>4, <1>5, WFMin, Zenon
<1>7. t \in Nat /\ b - t \in S
  BY <1>6
<1>8. ASSUME NEW y \in S PROVE b - t >= y
  <2>1. b - y \in T /\ b - y \in Nat /\ y \in Nat
    BY <1>2, <1>3
  <2>2. ~(b - y < t)
    BY <1>1, <1>6, <1>7, <2>1, Zenon
  <2> QED BY <1>7, <2>1, <2>2
<1>9. \E x \in S : \A y \in S : x >= y
  BY <1>7, <1>8
<1>10. Registry!Max(S) \in S /\ \A y \in S : Registry!Max(S) >= y
  BY <1>9, ZenonT(60) DEF Registry!Max
<1> QED BY <1>2, <1>10

\* A stored key has an id that was given out, and its version counts keys that
\* were given out before it.
KeysIssued == \A k \in Registry!Stored : k < nextID /\ keys[k].version <= k

\* A worker that is storing a key has an id for it: free until the key is put,
\* the worker's own pending key after that.
JobsIssued ==
  \A w \in Workers : Registry!InStore(w) =>
    /\ job[w].id \in Registry!KeyIds /\ job[w].id < nextID
    /\ job[w].version \in 1 .. job[w].id
    /\ job[w].step = "put" => keys[job[w].id] = NoKey
    /\ job[w].step = "activate" =>
         keys[job[w].id] # NoKey /\ keys[job[w].id].purpose = Registry!Purpose(w)

OwnIds ==
  \A v, w \in Workers :
    Registry!InStore(v) /\ Registry!InStore(w) /\ v # w => job[v].id # job[w].id

\* While a worker is alone with its purpose, nobody else stores a key of that
\* purpose, and its own id is the newest.
AloneNewest ==
  \A w \in Workers : Registry!InStore(w) /\ job[w].alone =>
    /\ \A v \in Workers \ {w} : Registry!InStore(v) => Registry!Purpose(v) # Registry!Purpose(w)
    /\ \A k \in Registry!Of(Registry!Purpose(w)) : k <= job[w].id

\* The key of the last rotation or reload is active, and no newer one is.
LatestNewest ==
  \A p \in Registry!PurposeSet : latest[p] # NoKey =>
    latest[p] \in Registry!Active(p) /\ \A k \in Registry!Active(p) : k <= latest[p]

RegistryInv ==
  Registry!TypeOK /\ KeysIssued /\ JobsIssued /\ OwnIds /\ AloneNewest /\ LatestNewest

LEMMA RegistryInit == Registry!Init => RegistryInv
<1> SUFFICES ASSUME Registry!Init PROVE RegistryInv
  OBVIOUS
<1>1. Registry!Idle \in Registry!Jobs /\ ~(Registry!Idle.step \in {"put", "activate"})
  BY KeysAssumption DEF Registry!Idle, Registry!Jobs
<1>2. Registry!TypeOK
  BY <1>1, KeysAssumption DEF Registry!Init, Registry!TypeOK
<1>3. Registry!Stored = {}
  BY DEF Registry!Init, Registry!Stored
<1>4. \A w \in Workers : ~Registry!InStore(w)
  BY <1>1 DEF Registry!Init, Registry!InStore
<1>5. LatestNewest
  BY DEF Registry!Init, LatestNewest
<1> QED BY <1>2, <1>3, <1>4, <1>5 DEF RegistryInv, KeysIssued, JobsIssued, OwnIds, AloneNewest

(* The next purpose of a loop, or its end, is no longer in StoreKey.       *)
LEMMA FollowingJob ==
  ASSUME RegistryInv, NEW w \in Workers
  PROVE  /\ Registry!Following(w) \in Registry!Jobs
         /\ Registry!Following(w).step \notin {"put", "activate"}
         /\ Registry!Purpose(w) \in Registry!PurposeSet
<1>1. Len(Purposes) \in Nat \ {0} /\ DOMAIN Purposes = 1 .. Len(Purposes)
  BY KeysAssumption
<1>2. job[w].at \in 1 .. Len(Purposes) /\ job[w].op \in {"idle", "reload", "rotate"}
  BY Zenon DEF RegistryInv, Registry!TypeOK, Registry!Jobs
<1>3. Registry!Purpose(w) \in Registry!PurposeSet
  BY <1>1, <1>2 DEF Registry!Purpose, Registry!PurposeSet
<1>4. CASE job[w].at = Len(Purposes)
  BY <1>1, <1>3, <1>4, KeysAssumption DEF Registry!Following, Registry!Idle, Registry!Jobs
<1>5. CASE job[w].at # Len(Purposes)
  <2>1. job[w].at + 1 \in 1 .. Len(Purposes)
    BY <1>1, <1>2, <1>5
  <2>2. Registry!Following(w) =
          [op |-> job[w].op, step |-> "store", at |-> job[w].at + 1, id |-> NoKey,
           version |-> 0, alone |-> TRUE]
    BY <1>5, ZenonT(60) DEF Registry!Following, Registry!Idle
  <2> QED BY <1>2, <1>3, <2>1, <2>2, KeysAssumption DEF Registry!Jobs
<1> QED BY <1>4, <1>5

(* What a step leaves of a worker that is not the one moving.              *)
SameStore(v) ==
  /\ Registry!InStore(v)' <=> Registry!InStore(v)
  /\ job'[v].step = job[v].step /\ job'[v].id = job[v].id
  /\ job'[v].version = job[v].version /\ job'[v].at = job[v].at
  /\ job'[v].alone => job[v].alone

Leaves(v) == ~Registry!InStore(v)'

(* Workers leave StoreKey, or stay where they are, and the bucket stays as *)
(* it is.  A promise may be dropped.                                       *)
LEMMA LeaveStep ==
  ASSUME RegistryInv,
         UNCHANGED <<keys, nextID>>,
         job' \in [Workers -> Registry!Jobs],
         \A v \in Workers : Leaves(v) \/ SameStore(v),
         latest' \in [Registry!PurposeSet -> Registry!KeyIds \cup {NoKey}],
         \A p \in Registry!PurposeSet : latest'[p] \in {latest[p], NoKey},
         failures' \in 0 .. MaxFailures
  PROVE  RegistryInv'
<1>1. Registry!TypeOK'
  BY DEF RegistryInv, Registry!TypeOK, Registry!KeyIds
<1>2. /\ Registry!Stored' = Registry!Stored
      /\ \A p : Registry!Of(p)' = Registry!Of(p) /\ Registry!Active(p)' = Registry!Active(p)
  BY DEF Registry!Stored, Registry!Of, Registry!Active, Registry!KeyIds
<1>3. KeysIssued'
  BY <1>2, Zenon DEF RegistryInv, KeysIssued
<1>4. \A v \in Workers : Registry!InStore(v)' =>
         SameStore(v) /\ Registry!InStore(v) /\ Registry!Purpose(v)' = Registry!Purpose(v)
  BY Zenon DEF Leaves, SameStore, Registry!Purpose
<1>5. JobsIssued'
  BY <1>4, ZenonT(60) DEF RegistryInv, JobsIssued, SameStore, Registry!KeyIds
<1>6. OwnIds'
  BY <1>4 DEF RegistryInv, OwnIds, SameStore
<1>7. AloneNewest'
  <2> SUFFICES ASSUME NEW w \in Workers, Registry!InStore(w)', job'[w].alone
               PROVE  /\ \A v \in Workers \ {w} : Registry!InStore(v)' =>
                           Registry!Purpose(v)' # Registry!Purpose(w)'
                      /\ \A k \in Registry!Of(Registry!Purpose(w))' : k <= job'[w].id
    BY Zenon DEF AloneNewest
  <2>1. /\ Registry!InStore(w) /\ job[w].alone /\ job'[w].id = job[w].id
        /\ Registry!Purpose(w)' = Registry!Purpose(w)
    BY <1>4, Zenon DEF SameStore
  <2>2. /\ \A v \in Workers \ {w} :
             Registry!InStore(v) => Registry!Purpose(v) # Registry!Purpose(w)
        /\ \A k \in Registry!Of(Registry!Purpose(w)) : k <= job[w].id
    BY <2>1, Zenon DEF RegistryInv, AloneNewest
  <2>3. \A v \in Workers \ {w} : Registry!InStore(v)' =>
          Registry!Purpose(v)' # Registry!Purpose(w)'
    BY <1>4, <2>1, <2>2, Zenon
  <2>4. Registry!Of(Registry!Purpose(w))' = Registry!Of(Registry!Purpose(w))
    BY <2>1 DEF Registry!Of, Registry!Stored
  <2> QED BY <2>1, <2>2, <2>3, <2>4, Zenon
<1>8. LatestNewest'
  BY <1>2 DEF RegistryInv, LatestNewest, Registry!PurposeSet
<1> QED BY <1>1, <1>3, <1>5, <1>6, <1>7, <1>8 DEF RegistryInv

(* Beginning a job, passing over a purpose, a restart.                     *)
LEMMA JobStep ==
  ASSUME RegistryInv,
         \/ \E w \in Workers, op \in {"reload", "rotate"} : Registry!StartJob(w, op)
         \/ \E w \in Workers : Registry!SkipPurpose(w)
         \/ Registry!RestartRegistry
  PROVE  RegistryInv'
<1>1. UNCHANGED <<keys, nextID, latest>>
  BY Zenon DEF Registry!StartJob, Registry!SkipPurpose, Registry!RestartRegistry
<1>2. failures' \in 0 .. MaxFailures
  <2>1. failures' = failures \/ (failures < MaxFailures /\ failures' = failures + 1)
    BY Zenon DEF Registry!StartJob, Registry!SkipPurpose, Registry!RestartRegistry, Registry!Fail
  <2> QED BY <2>1, KeysAssumption DEF RegistryInv, Registry!TypeOK
<1>3. job \in [Workers -> Registry!Jobs] /\ latest \in [Registry!PurposeSet -> Registry!KeyIds \cup {NoKey}]
  BY DEF RegistryInv, Registry!TypeOK
<1>4. \A v \in Workers : job'[v] = job[v] => SameStore(v)
  BY DEF SameStore, Registry!InStore
<1>5. job' \in [Workers -> Registry!Jobs] /\ \A v \in Workers : Leaves(v) \/ SameStore(v)
  <2>1. CASE \E w \in Workers, op \in {"reload", "rotate"} : Registry!StartJob(w, op)
    <3>1. PICK w \in Workers, op \in {"reload", "rotate"} : Registry!StartJob(w, op)
      BY <2>1
    <3>2. job' = [job EXCEPT ![w].op = op, ![w].step = "store"]
      BY <3>1 DEF Registry!StartJob
    <3>3. job'[w] = [[job[w] EXCEPT !.op = op] EXCEPT !.step = "store"]
      BY <1>3, <3>2
    <3>4. job'[w] \in Registry!Jobs /\ job'[w].step = "store"
      <4>1. [job[w] EXCEPT !.op = op] \in Registry!Jobs
        BY <1>3, ZenonT(60) DEF Registry!Jobs
      <4> QED BY <3>3, <4>1, Zenon DEF Registry!Jobs
    <3>5. \A v \in Workers : v # w => job'[v] = job[v]
      BY <1>3, <3>2
    <3>6. job' \in [Workers -> Registry!Jobs]
      BY <1>3, <3>2, <3>4, <3>5
    <3> QED BY <1>4, <3>4, <3>5, <3>6 DEF Leaves, Registry!InStore
  <2>2. CASE \E w \in Workers : Registry!SkipPurpose(w)
    <3>1. PICK w \in Workers : Registry!SkipPurpose(w)
      BY <2>2
    <3>2. job' = [job EXCEPT ![w] = Registry!Following(w)]
      BY <3>1 DEF Registry!SkipPurpose
    <3> QED BY <1>3, <1>4, <3>2, FollowingJob DEF Leaves, Registry!InStore
  <2>3. CASE Registry!RestartRegistry
    <3>1. job' = [w \in Workers |-> Registry!Idle]
      BY <2>3 DEF Registry!RestartRegistry
    <3>2. Registry!Idle \in Registry!Jobs /\ Registry!Idle.step = ""
      BY KeysAssumption DEF Registry!Idle, Registry!Jobs
    <3> QED BY <3>1, <3>2, Zenon DEF Leaves, Registry!InStore
  <2> QED BY <2>1, <2>2, <2>3
<1> QED BY <1>1, <1>2, <1>3, <1>5, LeaveStep

(* A transaction that fails: the worker goes on with the next purpose, and *)
(* the key in use stays as it was.                                         *)
LEMMA FailedStep ==
  ASSUME RegistryInv, NEW w \in Workers,
         Registry!Fail, Registry!Settle(w, latest[Registry!Purpose(w)]),
         job' = [job EXCEPT ![w] = Registry!Following(w)], UNCHANGED <<keys, nextID>>
  PROVE  RegistryInv'
<1>1. /\ job \in [Workers -> Registry!Jobs]
      /\ latest \in [Registry!PurposeSet -> Registry!KeyIds \cup {NoKey}]
  BY DEF RegistryInv, Registry!TypeOK
<1>2. failures' \in 0 .. MaxFailures
  BY KeysAssumption DEF Registry!Fail, RegistryInv, Registry!TypeOK
<1>3. /\ latest' \in [Registry!PurposeSet -> Registry!KeyIds \cup {NoKey}]
      /\ \A p \in Registry!PurposeSet : latest'[p] \in {latest[p], NoKey}
  BY <1>1, FollowingJob DEF Registry!Settle
<1>4. job' \in [Workers -> Registry!Jobs] /\ Leaves(w)
  BY <1>1, FollowingJob DEF Leaves, Registry!InStore
<1>5. \A v \in Workers : v # w => SameStore(v)
  BY <1>1 DEF SameStore, Registry!InStore
<1> QED BY <1>2, <1>3, <1>4, <1>5, LeaveStep

(* The version of a new key: greater than those of its purpose, and not    *)
(* greater than its id.                                                    *)
LEMMA VersionBound ==
  ASSUME RegistryInv, NEW p, nextID <= MaxKeys
  PROVE  Registry!nextVersion(p) \in 1 .. nextID
<1> DEFINE S == {keys[k].version : k \in Registry!Of(p)} \cup {0}
<1>1. nextID \in 1 .. MaxKeys
  BY KeysAssumption DEF RegistryInv, Registry!TypeOK
<1>2. \A k \in Registry!Of(p) : keys[k].version \in 0 .. nextID - 1
  <2> SUFFICES ASSUME NEW k \in Registry!Of(p) PROVE keys[k].version \in 0 .. nextID - 1
    OBVIOUS
  <2>1. k \in Registry!Stored /\ k \in 1 .. MaxKeys /\ keys[k] # NoKey
    BY DEF Registry!Of, Registry!Stored, Registry!KeyIds
  <2>2. k < nextID /\ keys[k].version <= k
    BY <2>1 DEF RegistryInv, KeysIssued
  <2>3. keys[k].version \in 1 .. MaxKeys
    BY <2>1 DEF RegistryInv, Registry!TypeOK, Registry!Entries, Registry!KeyIds
  <2> QED BY <1>1, <2>1, <2>2, <2>3, KeysAssumption
<1>3. S \in SUBSET (0 .. nextID - 1) /\ S # {} /\ nextID - 1 \in Nat
  BY <1>1, <1>2, KeysAssumption
<1> HIDE DEF S
<1>4. Registry!Max(S) \in 0 .. nextID - 1
  BY <1>3, Greatest, ZenonT(60)
<1> QED BY <1>1, <1>4, KeysAssumption DEF Registry!nextVersion, S

(* StoreKey gives out an id.  Workers storing a key of the same purpose    *)
(* are no longer alone, and neither is the one that enters.                *)
LEMMA StoreKeyStep ==
  ASSUME RegistryInv, NEW w \in Workers, Registry!StoreKey(w)
  PROVE  RegistryInv'
<1> DEFINE version == Registry!nextVersion(Registry!Purpose(w))
           first == Registry!Others(w) = {}
<1>1. /\ job[w].step = "store"
      /\ nextID <= MaxKeys /\ nextID' = nextID + 1
      /\ UNCHANGED <<keys, latest, failures>>
  BY Zenon DEF Registry!StoreKey
<1>2. /\ job \in [Workers -> Registry!Jobs] /\ nextID \in Registry!KeyIds
      /\ nextID' \in 1 .. MaxKeys + 1
  <2>1. job \in [Workers -> Registry!Jobs] /\ nextID \in 1 .. MaxKeys + 1
    BY DEF RegistryInv, Registry!TypeOK
  <2>2. nextID \in 1 .. MaxKeys /\ nextID' \in 1 .. MaxKeys + 1
    BY <1>1, <2>1, KeysAssumption
  <2> QED BY <2>1, <2>2 DEF Registry!KeyIds
<1>3. version \in 1 .. nextID /\ first \in BOOLEAN
  BY <1>1, VersionBound
<1>4. job' = [v \in Workers |->
           IF v = w THEN [job[w] EXCEPT !.step = "put", !.id = nextID,
                            !.version = version, !.alone = first]
           ELSE [job[v] EXCEPT !.alone = @ /\ v \notin Registry!Others(w)]]
  BY Zenon DEF Registry!StoreKey
<1> HIDE DEF version, first
<1>5. /\ job'[w] = [job[w] EXCEPT !.step = "put", !.id = nextID, !.version = version,
                                  !.alone = first]
      /\ job'[w].step = "put" /\ job'[w].at = job[w].at /\ job'[w].id = nextID
      /\ job'[w].version = version /\ (job'[w].alone <=> first)
  BY <1>2, <1>4, ZenonT(60) DEF Registry!Jobs
<1>6. ASSUME NEW v \in Workers, v # w
      PROVE  /\ job'[v] \in Registry!Jobs
             /\ SameStore(v)
             /\ job'[v].alone <=> (job[v].alone /\ v \notin Registry!Others(w))
  <2>1. job'[v] = [job[v] EXCEPT !.alone = job[v].alone /\ v \notin Registry!Others(w)]
    BY <1>4, <1>6
  <2>2. job[v] \in Registry!Jobs
    BY <1>2
  <2> QED BY <2>1, <2>2, Zenon DEF SameStore, Registry!InStore, Registry!Jobs
<1>7. job' \in [Workers -> Registry!Jobs]
  <2>1. version \in 0 .. MaxKeys
    BY <1>1, <1>2, <1>3, KeysAssumption DEF Registry!KeyIds
  <2>2. job'[w] \in Registry!Jobs
    <3> DEFINE j1 == [job[w] EXCEPT !.step = "put"]
               j2 == [j1 EXCEPT !.id = nextID]
               j3 == [j2 EXCEPT !.version = version]
    <3>1. j1 \in Registry!Jobs
      BY <1>2, ZenonT(60) DEF Registry!Jobs
    <3>2. j2 \in Registry!Jobs
      BY <1>2, <3>1, Zenon DEF Registry!Jobs
    <3>3. j3 \in Registry!Jobs
      BY <2>1, <3>2, Zenon DEF Registry!Jobs
    <3>4. job'[w] = [j3 EXCEPT !.alone = first]
      BY <1>5
    <3> HIDE DEF j3
    <3> QED BY <1>3, <3>3, <3>4, ZenonT(60) DEF Registry!Jobs
  <2>3. DOMAIN job' = Workers /\ job' = [v \in Workers |-> job'[v]]
    BY <1>4
  <2> QED BY <1>6, <2>2, <2>3
<1>8. Registry!TypeOK'
  BY <1>1, <1>2, <1>7 DEF RegistryInv, Registry!TypeOK, Registry!KeyIds
<1>9. /\ Registry!Stored' = Registry!Stored
      /\ \A p : Registry!Of(p)' = Registry!Of(p) /\ Registry!Active(p)' = Registry!Active(p)
  BY <1>1 DEF Registry!Stored, Registry!Of, Registry!Active, Registry!KeyIds
<1>10. Registry!Purpose(w)' = Registry!Purpose(w) /\ Registry!InStore(w)' /\ ~Registry!InStore(w)
  BY <1>1, <1>5 DEF Registry!Purpose, Registry!InStore
<1>11. \A v \in Workers : v # w =>
          /\ Registry!InStore(v)' <=> Registry!InStore(v)
          /\ Registry!Purpose(v)' = Registry!Purpose(v)
  BY <1>6 DEF SameStore, Registry!Purpose
<1>12. \A k \in Registry!Stored : k < nextID /\ k \in Registry!KeyIds
  BY DEF RegistryInv, KeysIssued, Registry!Stored
<1>13. KeysIssued'
  BY <1>1, <1>2, <1>9, KeysAssumption
     DEF RegistryInv, KeysIssued, Registry!Stored, Registry!KeyIds
<1>14. JobsIssued'
  <2>1. ASSUME NEW v \in Workers, v # w, Registry!InStore(v)
        PROVE  /\ job'[v].id \in Registry!KeyIds /\ job'[v].id < nextID'
               /\ job'[v].version \in 1 .. job'[v].id
               /\ job'[v].step = "put" => keys'[job'[v].id] = NoKey
               /\ job'[v].step = "activate" =>
                    keys'[job'[v].id] # NoKey /\ keys'[job'[v].id].purpose = Registry!Purpose(v)'
    <3>1. /\ job[v].id \in Registry!KeyIds /\ job[v].id < nextID
          /\ job[v].version \in 1 .. job[v].id
          /\ job[v].step = "put" => keys[job[v].id] = NoKey
          /\ job[v].step = "activate" =>
               keys[job[v].id] # NoKey /\ keys[job[v].id].purpose = Registry!Purpose(v)
      BY <2>1 DEF RegistryInv, JobsIssued
    <3>2. SameStore(v)
      BY <1>6, <2>1
    <3>3. job[v].id < nextID'
      BY <1>1, <1>2, <3>1, KeysAssumption DEF Registry!KeyIds
    <3> QED BY <1>1, <1>11, <2>1, <3>1, <3>2, <3>3, ZenonT(60) DEF SameStore
  <2>2. keys'[nextID] = NoKey /\ nextID < nextID'
    BY <1>1, <1>2, <1>12, KeysAssumption DEF Registry!Stored, Registry!KeyIds
  <2> QED BY <1>2, <1>3, <1>5, <1>10, <1>11, <2>1, <2>2, ZenonT(60) DEF JobsIssued, Registry!KeyIds
<1>15. OwnIds'
  <2>1. \A v \in Workers : v # w /\ Registry!InStore(v) => job'[v].id = job[v].id /\ job[v].id # nextID
    BY <1>2, <1>6, KeysAssumption DEF RegistryInv, JobsIssued, SameStore, Registry!KeyIds
  <2>2. job'[w].id = nextID
    BY <1>5, Zenon
  <2> QED BY <1>11, <2>1, <2>2, ZenonT(60) DEF RegistryInv, OwnIds
<1>16. AloneNewest'
  <2>1. \A v \in Workers \ {w} : Registry!InStore(v) /\ Registry!Purpose(v) = Registry!Purpose(w)
                                   <=> v \in Registry!Others(w)
    BY Zenon DEF Registry!Others
  <2>2. ASSUME NEW v \in Workers, v # w, Registry!InStore(v), job'[v].alone
        PROVE  /\ \A u \in Workers \ {v} : Registry!InStore(u)' =>
                    Registry!Purpose(u)' # Registry!Purpose(v)'
               /\ \A k \in Registry!Of(Registry!Purpose(v)') : k <= job'[v].id
    <3>1. job[v].alone /\ v \notin Registry!Others(w) /\ job'[v].id = job[v].id
      BY <1>6, <2>2, Zenon DEF SameStore
    <3>2. /\ \A u \in Workers \ {v} : Registry!InStore(u) => Registry!Purpose(u) # Registry!Purpose(v)
          /\ \A k \in Registry!Of(Registry!Purpose(v)) : k <= job[v].id
      BY <2>2, <3>1, ZenonT(60) DEF RegistryInv, AloneNewest
    <3> QED BY <1>10, <1>11, <2>1, <2>2, <3>1, <3>2, ZenonT(60)
  <2>3. ASSUME job'[w].alone
        PROVE  /\ \A u \in Workers \ {w} : Registry!InStore(u)' =>
                    Registry!Purpose(u)' # Registry!Purpose(w)'
               /\ \A k \in Registry!Of(Registry!Purpose(w)') : k <= job'[w].id
    <3>1. Registry!Others(w) = {} /\ job'[w].id = nextID
      BY <1>5, <2>3 DEF first
    <3>2. \A k \in Registry!Of(Registry!Purpose(w)) : k <= nextID
      BY <1>2, <1>12, KeysAssumption DEF Registry!Of, Registry!KeyIds
    <3> QED BY <1>10, <1>11, <2>1, <3>1, <3>2
  <2> QED BY <1>9, <1>11, <2>2, <2>3, ZenonT(60) DEF AloneNewest
<1>17. LatestNewest'
  BY <1>1, <1>9 DEF RegistryInv, LatestNewest, Registry!PurposeSet
<1> QED BY <1>8, <1>13, <1>14, <1>15, <1>16, <1>17 DEF RegistryInv

(* A transaction of worker w on the bucket: its own key is there after it, *)
(* and of the others only the status may change.                           *)
Keyed(w) ==
  /\ Registry!InStore(w)
  /\ keys' \in [Registry!KeyIds -> Registry!Entries \cup {NoKey}]
  /\ \A k \in Registry!KeyIds \ {job[w].id} :
       /\ keys'[k] = NoKey <=> keys[k] = NoKey
       /\ keys[k] # NoKey =>
            keys'[k].purpose = keys[k].purpose /\ keys'[k].version = keys[k].version
  /\ keys'[job[w].id] # NoKey /\ keys'[job[w].id].purpose = Registry!Purpose(w)
  /\ keys'[job[w].id].version <= job[w].id
  /\ nextID' = nextID

(* The worker leaves StoreKey, or goes on to activate the key it has put.  *)
Onward(w) ==
  \/ Leaves(w)
  \/ /\ job'[w].step = "activate" /\ job'[w].id = job[w].id /\ job'[w].at = job[w].at
     /\ job'[w].version = job[w].version /\ (job'[w].alone => job[w].alone)

(* The ids of the bucket are numbers.                                      *)
LEMMA KeyOrder == \A k \in Registry!KeyIds : k <= k
BY KeysAssumption DEF Registry!KeyIds

(* The step that puts a key into the bucket, or rewrites the entry of one. *)
LEMMA KeyedStep ==
  ASSUME RegistryInv, NEW w \in Workers, Keyed(w), Onward(w),
         job' \in [Workers -> Registry!Jobs],
         \A v \in Workers : v # w => job'[v] = job[v],
         latest' \in [Registry!PurposeSet -> Registry!KeyIds \cup {NoKey}],
         LatestNewest',
         failures' \in 0 .. MaxFailures
  PROVE  RegistryInv'
<1> DEFINE id == job[w].id
<1>1. Registry!TypeOK'
  BY ZenonT(60) DEF RegistryInv, Registry!TypeOK, Registry!KeyIds, Keyed
<1>2. /\ id \in Registry!KeyIds /\ id < nextID /\ job[w].version \in 1 .. id
      /\ \A v \in Workers : v # w /\ Registry!InStore(v) => job[v].id # id
  BY DEF Keyed, RegistryInv, JobsIssued, OwnIds
<1>3. Registry!Stored' = Registry!Stored \cup {id}
  BY <1>2, ZenonT(60) DEF Keyed, Registry!Stored, Registry!KeyIds
<1>4. \A k \in Registry!KeyIds : k \in Registry!Stored /\ k # id =>
        keys'[k].purpose = keys[k].purpose /\ keys'[k].version = keys[k].version
  BY Zenon DEF Keyed, Registry!Stored
<1>5. \A p : Registry!Of(p)' \subseteq Registry!Of(p) \cup {id}
  BY <1>3, <1>4, ZenonT(60) DEF Registry!Of, Registry!Stored
<1>6. \A p : p # Registry!Purpose(w) => Registry!Of(p)' \subseteq Registry!Of(p)
  BY <1>3, <1>4, Zenon DEF Keyed, Registry!Of, Registry!Stored
<1>7. KeysIssued'
  <2> SUFFICES ASSUME NEW k \in Registry!Stored' PROVE k < nextID' /\ keys'[k].version <= k
    BY Zenon DEF KeysIssued
  <2>1. CASE k = id
    BY <1>2, <2>1, ZenonT(60) DEF Keyed
  <2>2. CASE k # id
    <3>1. k \in Registry!Stored /\ k \in Registry!KeyIds
      BY <1>3, <2>2 DEF Registry!Stored
    <3>2. k < nextID /\ keys[k].version <= k
      BY <3>1 DEF RegistryInv, KeysIssued
    <3> QED BY <1>4, <2>2, <3>1, <3>2, ZenonT(60) DEF Keyed
  <2> QED BY <2>1, <2>2
<1>8. \A v \in Workers : v # w =>
         /\ Registry!InStore(v)' <=> Registry!InStore(v)
         /\ Registry!Purpose(v)' = Registry!Purpose(v)
  BY ZenonT(60) DEF Registry!InStore, Registry!Purpose
<1>9. Registry!InStore(w)' =>
        /\ job'[w].step = "activate" /\ job'[w].id = id /\ job'[w].version = job[w].version
        /\ job'[w].alone => job[w].alone
        /\ Registry!Purpose(w)' = Registry!Purpose(w)
  BY DEF Onward, Leaves, Registry!InStore, Registry!Purpose
<1>10. JobsIssued'
  <2> SUFFICES ASSUME NEW v \in Workers, Registry!InStore(v)'
               PROVE  /\ job'[v].id \in Registry!KeyIds /\ job'[v].id < nextID'
                      /\ job'[v].version \in 1 .. job'[v].id
                      /\ job'[v].step = "put" => keys'[job'[v].id] = NoKey
                      /\ job'[v].step = "activate" =>
                           /\ keys'[job'[v].id] # NoKey
                           /\ keys'[job'[v].id].purpose = Registry!Purpose(v)'
    BY DEF JobsIssued, Registry!KeyIds
  <2>1. CASE v = w
    BY <1>2, <1>9, <2>1, ZenonT(60) DEF Keyed
  <2>2. CASE v # w
    <3>1. job'[v] = job[v] /\ Registry!InStore(v) /\ Registry!Purpose(v)' = Registry!Purpose(v)
      BY <1>8, <2>2
    <3>2. /\ job[v].id \in Registry!KeyIds /\ job[v].id # id /\ job[v].id < nextID
          /\ job[v].version \in 1 .. job[v].id
          /\ job[v].step = "put" => keys[job[v].id] = NoKey
          /\ job[v].step = "activate" =>
               keys[job[v].id] # NoKey /\ keys[job[v].id].purpose = Registry!Purpose(v)
      BY <1>2, <2>2, <3>1, ZenonT(60) DEF RegistryInv, JobsIssued
    <3> QED BY <3>1, <3>2, ZenonT(60) DEF Keyed
  <2> QED BY <2>1, <2>2, ZenonT(60)
<1>11. OwnIds'
  BY <1>2, <1>8, <1>9, ZenonT(60) DEF RegistryInv, OwnIds
<1>12. AloneNewest'
  <2> SUFFICES ASSUME NEW v \in Workers, Registry!InStore(v)', job'[v].alone
               PROVE  /\ \A u \in Workers \ {v} : Registry!InStore(u)' =>
                           Registry!Purpose(u)' # Registry!Purpose(v)'
                      /\ \A k \in Registry!Of(Registry!Purpose(v))' : k <= job'[v].id
    BY Zenon DEF AloneNewest
  <2>1. Registry!InStore(v) /\ job[v].alone /\ Registry!Purpose(v)' = Registry!Purpose(v)
        /\ job'[v].id = job[v].id
    BY <1>8, <1>9, ZenonT(60) DEF Keyed
  <2>2. /\ \A u \in Workers \ {v} : Registry!InStore(u) => Registry!Purpose(u) # Registry!Purpose(v)
        /\ \A k \in Registry!Of(Registry!Purpose(v)) : k <= job[v].id
    BY <2>1, ZenonT(60) DEF RegistryInv, AloneNewest
  <2>3. \A u \in Workers \ {v} : Registry!InStore(u)' => Registry!Purpose(u)' # Registry!Purpose(v)'
    <3> SUFFICES ASSUME NEW u \in Workers \ {v}, Registry!InStore(u)'
                 PROVE  Registry!Purpose(u)' # Registry!Purpose(v)'
      OBVIOUS
    <3>1. Registry!InStore(u) /\ Registry!Purpose(u)' = Registry!Purpose(u)
      <4>1. CASE u = w
        BY <1>9, <4>1, ZenonT(60) DEF Keyed
      <4>2. CASE u # w
        BY <1>8, <4>2, ZenonT(60)
      <4> QED BY <4>1, <4>2, Zenon
    <3> QED BY <2>1, <2>2, <3>1, ZenonT(60)
  <2>4. \A k \in Registry!Of(Registry!Purpose(v))' : k <= job'[v].id
    <3> SUFFICES ASSUME NEW k \in Registry!Of(Registry!Purpose(v))' PROVE k <= job[v].id
      BY <2>1, Zenon
    <3>1. CASE v = w
      <4>1. k \in Registry!Of(Registry!Purpose(v)) \cup {id}
        BY <1>5, <2>1, ZenonT(60)
      <4>2. id <= job[v].id
        BY <1>2, <3>1, KeyOrder, Zenon
      <4> QED BY <2>2, <4>1, <4>2, ZenonT(60)
    <3>2. CASE v # w
      <4>1. Registry!Purpose(v) # Registry!Purpose(w)
        BY <2>2, <3>2, ZenonT(60) DEF Keyed
      <4>2. k \in Registry!Of(Registry!Purpose(v))
        BY <1>6, <2>1, <4>1, ZenonT(60)
      <4> QED BY <2>2, <4>2, Zenon
    <3> QED BY <3>1, <3>2, Zenon
  <2> QED BY <2>3, <2>4, Zenon
<1> QED BY <1>1, <1>7, <1>10, <1>11, <1>12, ZenonT(60) DEF RegistryInv

(* The entry a worker puts is one of the bucket's, and new.                *)
LEMMA EntryPut ==
  ASSUME RegistryInv, NEW w \in Workers, job[w].step = "put",
         NEW status \in {"active", "retired", "pending_rotation"},
         keys' = [keys EXCEPT ![job[w].id] = Registry!Entry(w, status)], nextID' = nextID
  PROVE  /\ Keyed(w)
         /\ keys[job[w].id] = NoKey /\ job[w].id \in Registry!KeyIds
         /\ keys'[job[w].id].status = status
         /\ \A k \in Registry!KeyIds : k # job[w].id => keys'[k] = keys[k]
<1> DEFINE e == Registry!Entry(w, status)
<1>1. keys \in [Registry!KeyIds -> Registry!Entries \cup {NoKey}]
  BY DEF RegistryInv, Registry!TypeOK
<1>2. Registry!InStore(w)
  BY ZenonT(60) DEF Registry!InStore
<1>3. /\ job[w].id \in Registry!KeyIds /\ job[w].version \in 1 .. job[w].id
      /\ keys[job[w].id] = NoKey
  BY <1>2 DEF RegistryInv, JobsIssued
<1>4. e \in Registry!Entries /\ e # NoKey
  <2>1. job[w].version \in 1 .. MaxKeys
    BY <1>3, KeysAssumption DEF Registry!KeyIds
  <2>2. Registry!Purpose(w) \in Registry!PurposeSet
    BY FollowingJob
  <2>3. e \in Registry!Entries
    BY <2>1, <2>2, ZenonT(60) DEF Registry!Entry, Registry!Entries
  <2> QED BY <2>3, KeysAssumption
<1>5. /\ e.purpose = Registry!Purpose(w) /\ e.status = status /\ e.version = job[w].version
      /\ job[w].version <= job[w].id
  BY <1>3 DEF Registry!Entry, Registry!KeyIds
<1> HIDE DEF e
<1>6. keys' = [keys EXCEPT ![job[w].id] = e]
  BY Zenon DEF e
<1> QED BY <1>1, <1>2, <1>3, <1>4, <1>5, <1>6, ZenonT(60) DEF Keyed

(* A reload puts an active key beside the others.                          *)
LEMMA ReloadPutStep ==
  ASSUME RegistryInv, NEW w \in Workers, Registry!ReloadPut(w)
  PROVE  RegistryInv' /\ Registry!KeepsActive
<1> DEFINE id == job[w].id
           p == Registry!Purpose(w)
<1>1. /\ job[w].step = "put" /\ nextID' = nextID
      /\ job' = [job EXCEPT ![w] = Registry!Following(w)]
  BY DEF Registry!ReloadPut
<1>2. CASE Registry!Fail /\ Registry!Settle(w, latest[p]) /\ UNCHANGED keys
  <2>1. RegistryInv'
    BY <1>1, <1>2, FailedStep, ZenonT(60)
  <2>2. Registry!KeepsActive
    BY <1>2 DEF Registry!KeepsActive, Registry!Active, Registry!Of, Registry!Stored,
                Registry!KeyIds, Registry!PurposeSet
  <2> QED BY <2>1, <2>2
<1>3. CASE /\ keys' = [keys EXCEPT ![id] = Registry!Entry(w, "active")]
           /\ Registry!Settle(w, id) /\ UNCHANGED failures
  <2>1. /\ Keyed(w) /\ keys[id] = NoKey /\ id \in Registry!KeyIds
        /\ keys'[id].status = "active"
        /\ \A k \in Registry!KeyIds : k # id => keys'[k] = keys[k]
    BY <1>1, <1>3, EntryPut, ZenonT(60)
  <2>2. /\ job \in [Workers -> Registry!Jobs]
        /\ latest \in [Registry!PurposeSet -> Registry!KeyIds \cup {NoKey}]
        /\ failures \in 0 .. MaxFailures
    BY DEF RegistryInv, Registry!TypeOK
  <2>3. /\ job' \in [Workers -> Registry!Jobs] /\ Onward(w)
        /\ \A v \in Workers : v # w => job'[v] = job[v]
        /\ p \in Registry!PurposeSet
    BY <1>1, <2>2, FollowingJob, ZenonT(60) DEF Onward, Leaves, Registry!InStore
  <2>4. \A q : Registry!Active(q)' = Registry!Active(q) \cup (IF q = p THEN {id} ELSE {})
    BY <2>1 DEF Keyed, Registry!Active, Registry!Of, Registry!Stored, Registry!KeyIds
  <2>5. latest' = [latest EXCEPT ![p] = IF job[w].alone THEN id ELSE NoKey]
    BY <1>3 DEF Registry!Settle
  <2>6. latest' \in [Registry!PurposeSet -> Registry!KeyIds \cup {NoKey}]
    BY <2>1, <2>2, <2>5, ZenonT(60)
  <2>7. job[w].alone => \A k \in Registry!Active(p) : k <= id
    BY <2>1 DEF Keyed, RegistryInv, AloneNewest, Registry!Active
  <2>8. LatestNewest'
    <3> SUFFICES ASSUME NEW q \in Registry!PurposeSet, latest'[q] # NoKey
                 PROVE  /\ latest'[q] \in Registry!Active(q)'
                        /\ \A k \in Registry!Active(q)' : k <= latest'[q]
      BY ZenonT(60) DEF LatestNewest, Registry!PurposeSet
    <3>1. CASE q = p
      BY <2>1, <2>2, <2>4, <2>5, <2>7, <3>1 DEF Registry!KeyIds
    <3>2. CASE q # p
      BY <2>2, <2>4, <2>5, <3>2 DEF RegistryInv, LatestNewest
    <3> QED BY <3>1, <3>2
  <2>9. RegistryInv'
    BY <1>3, <2>1, <2>2, <2>3, <2>6, <2>8, KeyedStep, ZenonT(60)
  <2> QED BY <2>4, <2>9 DEF Registry!KeepsActive
<1> QED BY <1>2, <1>3, ZenonT(60) DEF Registry!ReloadPut

(* A rotation puts a pending key: the keys in use stay as they are.        *)
LEMMA RotatePutStep ==
  ASSUME RegistryInv, NEW w \in Workers, Registry!RotatePut(w)
  PROVE  RegistryInv' /\ Registry!KeepsActive
<1> DEFINE id == job[w].id
<1>1. job[w].step = "put" /\ nextID' = nextID
  BY DEF Registry!RotatePut
<1>2. CASE /\ Registry!Fail /\ Registry!Settle(w, latest[Registry!Purpose(w)]) /\ UNCHANGED keys
           /\ job' = [job EXCEPT ![w] = Registry!Following(w)]
  <2>1. RegistryInv'
    BY <1>1, <1>2, FailedStep, ZenonT(60)
  <2>2. Registry!KeepsActive
    BY <1>2 DEF Registry!KeepsActive, Registry!Active, Registry!Of, Registry!Stored,
                Registry!KeyIds, Registry!PurposeSet
  <2> QED BY <2>1, <2>2
<1>3. CASE /\ keys' = [keys EXCEPT ![id] = Registry!Entry(w, "pending_rotation")]
           /\ job' = [job EXCEPT ![w].step = "activate"]
           /\ UNCHANGED <<latest, failures>>
  <2>1. /\ Keyed(w) /\ keys[id] = NoKey /\ id \in Registry!KeyIds
        /\ keys'[id].status = "pending_rotation"
        /\ \A k \in Registry!KeyIds : k # id => keys'[k] = keys[k]
    BY <1>1, <1>3, EntryPut, ZenonT(60)
  <2>2. /\ job \in [Workers -> Registry!Jobs]
        /\ latest \in [Registry!PurposeSet -> Registry!KeyIds \cup {NoKey}]
        /\ failures \in 0 .. MaxFailures
    BY DEF RegistryInv, Registry!TypeOK
  <2>3. job' \in [Workers -> Registry!Jobs] /\ \A v \in Workers : v # w => job'[v] = job[v]
    BY <1>3, <2>2, ZenonT(60) DEF Registry!Jobs
  <2>4. Onward(w)
    BY <1>3, <2>2, ZenonT(60) DEF Onward, Registry!Jobs
  <2>5. \A q : Registry!Active(q)' = Registry!Active(q)
    BY <2>1 DEF Registry!Active, Registry!Of, Registry!Stored, Registry!KeyIds
  <2>6. LatestNewest'
    BY <1>3, <2>5 DEF RegistryInv, LatestNewest, Registry!PurposeSet
  <2>7. RegistryInv'
    BY <1>3, <2>1, <2>2, <2>3, <2>4, <2>6, KeyedStep, ZenonT(60)
  <2> QED BY <2>5, <2>7 DEF Registry!KeepsActive
<1> QED BY <1>2, <1>3 DEF Registry!RotatePut

(* The new key becomes active in the transaction that retires the others.  *)
LEMMA SetActiveStep ==
  ASSUME RegistryInv, NEW w \in Workers, Registry!SetActive(w)
  PROVE  RegistryInv' /\ Registry!KeepsActive
<1> DEFINE id == job[w].id
           p == Registry!Purpose(w)
<1>1. /\ job[w].step = "activate" /\ nextID' = nextID
      /\ job' = [job EXCEPT ![w] = Registry!Following(w)]
  BY DEF Registry!SetActive
<1>2. CASE Registry!Fail /\ Registry!Settle(w, latest[p]) /\ UNCHANGED keys
  <2>1. RegistryInv'
    BY <1>1, <1>2, FailedStep, ZenonT(60)
  <2>2. Registry!KeepsActive
    BY <1>2 DEF Registry!KeepsActive, Registry!Active, Registry!Of, Registry!Stored,
                Registry!KeyIds, Registry!PurposeSet
  <2> QED BY <2>1, <2>2
<1>3. CASE /\ keys' = [k \in Registry!KeyIds |->
                IF k = id THEN [keys[k] EXCEPT !.status = "active"]
                ELSE IF k \in Registry!Active(p) THEN [keys[k] EXCEPT !.status = "retired"]
                ELSE keys[k]]
           /\ Registry!Settle(w, id) /\ UNCHANGED failures
  <2>1. /\ Registry!InStore(w) /\ id \in Registry!KeyIds
        /\ keys[id] # NoKey /\ keys[id].purpose = p
    BY <1>1 DEF RegistryInv, JobsIssued, Registry!InStore
  <2>2. /\ keys \in [Registry!KeyIds -> Registry!Entries \cup {NoKey}]
        /\ job \in [Workers -> Registry!Jobs]
        /\ latest \in [Registry!PurposeSet -> Registry!KeyIds \cup {NoKey}]
        /\ failures \in 0 .. MaxFailures
    BY DEF RegistryInv, Registry!TypeOK
  <2>3. ASSUME NEW k \in Registry!KeyIds, keys[k] # NoKey
        PROVE  /\ keys'[k] \in Registry!Entries /\ keys'[k] # NoKey
               /\ keys'[k].purpose = keys[k].purpose /\ keys'[k].version = keys[k].version
               /\ keys'[k].status = IF k = id THEN "active"
                                    ELSE IF k \in Registry!Active(p) THEN "retired"
                                    ELSE keys[k].status
    <3>1. keys[k] \in Registry!Entries
      BY <2>2, <2>3
    <3>2. /\ [keys[k] EXCEPT !.status = "active"] \in Registry!Entries
          /\ [keys[k] EXCEPT !.status = "retired"] \in Registry!Entries
      BY <3>1 DEF Registry!Entries
    <3>3. keys'[k] \in Registry!Entries /\ keys'[k] # NoKey
      BY <1>3, <3>1, <3>2, KeysAssumption
    <3> QED BY <1>3, <3>1, <3>3 DEF Registry!Entries
  <2>4. \A k \in Registry!KeyIds : keys[k] = NoKey => keys'[k] = NoKey
    BY <1>3, <2>1 DEF Registry!Active, Registry!Of, Registry!Stored
  <2>5. Keyed(w)
    <3>1. keys' \in [Registry!KeyIds -> Registry!Entries \cup {NoKey}]
      <4>1. keys' = [k \in Registry!KeyIds |-> keys'[k]]
        BY <1>3
      <4> QED BY <2>3, <2>4, <4>1
    <3>2. keys[id].version <= id
      BY <2>1 DEF RegistryInv, KeysIssued, Registry!Stored
    <3> QED BY <1>1, <2>1, <2>3, <2>4, <3>1, <3>2, ZenonT(60) DEF Keyed
  <2>6. /\ job' \in [Workers -> Registry!Jobs] /\ Onward(w)
        /\ \A v \in Workers : v # w => job'[v] = job[v]
        /\ p \in Registry!PurposeSet
    BY <1>1, <2>2, FollowingJob DEF Onward, Leaves, Registry!InStore
  <2>7. Registry!Stored' = Registry!Stored
    BY <2>3, <2>4 DEF Registry!Stored, Registry!KeyIds
  <2>8. \A q : Registry!Of(q)' = Registry!Of(q)
    BY <2>3, <2>7 DEF Registry!Of, Registry!Stored
  <2>9. \A k \in Registry!Of(p) : k # id => keys'[k].status # "active"
    BY <2>3 DEF Registry!Active, Registry!Of, Registry!Stored
  <2>10. \A q : q = p => Registry!Active(q)' = {id}
    <3>1. id \in Registry!Of(p) /\ keys'[id].status = "active"
      BY <2>1, <2>3, Zenon DEF Registry!Of, Registry!Stored
    <3> QED BY <2>8, <2>9, <3>1, Zenon DEF Registry!Active
  <2>11. \A q : q # p => Registry!Active(q)' = Registry!Active(q)
    <3>1. ASSUME NEW q, q # p, NEW k \in Registry!Of(q)
          PROVE  keys'[k].status = keys[k].status
      BY <2>1, <2>3, <3>1 DEF Registry!Active, Registry!Of, Registry!Stored
    <3> QED BY <2>8, <3>1, ZenonT(60) DEF Registry!Active
  <2>12. latest' = [latest EXCEPT ![p] = IF job[w].alone THEN id ELSE NoKey]
    BY <1>3 DEF Registry!Settle
  <2>13. latest' \in [Registry!PurposeSet -> Registry!KeyIds \cup {NoKey}]
    BY <2>1, <2>2, <2>12, ZenonT(60)
  <2>14. LatestNewest'
    <3> SUFFICES ASSUME NEW q \in Registry!PurposeSet, latest'[q] # NoKey
                 PROVE  /\ latest'[q] \in Registry!Active(q)'
                        /\ \A k \in Registry!Active(q)' : k <= latest'[q]
      BY DEF LatestNewest, Registry!PurposeSet
    <3>1. CASE q = p
      BY <2>1, <2>2, <2>10, <2>12, <3>1 DEF Registry!KeyIds
    <3>2. CASE q # p
      BY <2>2, <2>11, <2>12, <3>2 DEF RegistryInv, LatestNewest
    <3> QED BY <3>1, <3>2
  <2>15. RegistryInv'
    BY <1>3, <2>2, <2>5, <2>6, <2>13, <2>14, KeyedStep, ZenonT(60)
  <2>16. \A q : Registry!Active(q) # {} => Registry!Active(q)' # {}
    BY <2>10, <2>11
  <2> QED BY <2>15, <2>16 DEF Registry!KeepsActive
<1> QED BY <1>2, <1>3 DEF Registry!SetActive

LEMMA RegistryStep == RegistryInv /\ Registry!Next => RegistryInv' /\ Registry!KeepsActive
<1> SUFFICES ASSUME RegistryInv, Registry!Next PROVE RegistryInv' /\ Registry!KeepsActive
  OBVIOUS
<1>1. CASE \/ \E w \in Workers, op \in {"reload", "rotate"} : Registry!StartJob(w, op)
           \/ \E w \in Workers : Registry!SkipPurpose(w)
           \/ Registry!RestartRegistry
  <2>1. UNCHANGED keys
    BY <1>1, ZenonT(60) DEF Registry!StartJob, Registry!SkipPurpose, Registry!RestartRegistry
  <2>2. Registry!KeepsActive
    BY <2>1 DEF Registry!KeepsActive, Registry!Active, Registry!Of, Registry!Stored,
                Registry!KeyIds, Registry!PurposeSet
  <2> QED BY <1>1, <2>2, JobStep
<1>2. CASE \E w \in Workers : Registry!StoreKey(w)
  <2>1. UNCHANGED keys
    BY <1>2, Zenon DEF Registry!StoreKey
  <2>2. Registry!KeepsActive
    BY <2>1 DEF Registry!KeepsActive, Registry!Active, Registry!Of, Registry!Stored,
                Registry!KeyIds, Registry!PurposeSet
  <2> QED BY <1>2, <2>2, StoreKeyStep
<1>3. CASE \E w \in Workers : Registry!ReloadPut(w)
  BY <1>3, ReloadPutStep
<1>4. CASE \E w \in Workers : Registry!RotatePut(w)
  BY <1>4, RotatePutStep
<1>5. CASE \E w \in Workers : Registry!SetActive(w)
  BY <1>5, SetActiveStep
<1> QED BY <1>1, <1>2, <1>3, <1>4, <1>5 DEF Registry!Next

LEMMA RegistryQuiet ==
  RegistryInv /\ UNCHANGED registryVars => RegistryInv' /\ Registry!KeepsActive
<1> SUFFICES ASSUME RegistryInv, UNCHANGED registryVars
             PROVE  RegistryInv' /\ Registry!KeepsActive
  OBVIOUS
<1>1. UNCHANGED <<keys, nextID, job, latest, failures>>
  BY DEF registryVars
<1>2. \A v \in Workers : SameStore(v)
  BY <1>1 DEF SameStore, Registry!InStore
<1>3. /\ job' \in [Workers -> Registry!Jobs]
      /\ latest' \in [Registry!PurposeSet -> Registry!KeyIds \cup {NoKey}]
      /\ failures' \in 0 .. MaxFailures
  BY <1>1 DEF RegistryInv, Registry!TypeOK
<1>4. RegistryInv'
  BY <1>1, <1>2, <1>3, LeaveStep, ZenonT(60)
<1>5. Registry!KeepsActive
  BY <1>1 DEF Registry!KeepsActive, Registry!Active, Registry!Of, Registry!Stored,
              Registry!KeyIds, Registry!PurposeSet
<1> QED BY <1>4, <1>5

(***************************************************************************)
(* The node.                                                               *)
(***************************************************************************)

CoreInv == ModeInv /\ RegistryInv

\* In every reachable state of the node, whatever the services interleave, the
\* replication mode and the key registry are in the states their invariants
\* describe: what is being propagated is the primary's mode and every node that
\* lacks it is still to be told (ReplicationModeState, propagation), every
\* switch passed shouldSwitchMode, and key ids, versions and the newest active
\* key are those Reload, Rotate and SetActive leave.
THEOREM CoreInvariant == CoreSpec => []CoreInv
<1>1. CoreInit => CoreInv
  BY ModeInit, RegistryInit DEF CoreInit, CoreInv
<1>2. CoreInv /\ [CoreNext]_coreVars => CoreInv'
  BY ModeStep, ModeQuiet, RegistryStep, RegistryQuiet DEF CoreInv, CoreNext, coreVars
<1> QED BY <1>1, <1>2, PTL DEF CoreSpec

\* Once the primary's last change was made with nothing under way and everything
\* sent has arrived, all nodes run the same mode (ChangeReplicationModeServer,
\* pushNewReplicationMode).
THEOREM ModesOfNodesAgree == CoreSpec => []ModesAgree
<1>1. CoreInv => ModesAgree
  BY DEF CoreInv, ModeInv, Underway, ModesAgree, Mode!ModesAgree
<1> QED BY <1>1, CoreInvariant, PTL

\* No switch of the controller selects a mode of which a cluster of N nodes
\* keeps fewer copies than the configured floor (shouldSwitchMode, GetMetrics).
THEOREM SwitchesKeepFloor == CoreSpec => []FloorKept
<1>1. CoreInv => FloorKept
  <2> SUFFICES ASSUME CoreInv PROVE Mode!FloorKept
    BY DEF FloorKept
  <2> DEFINE Copies(m) == Cardinality({n \in Mode!Nodes : n < factor /\ (m = None => n = 0)})
  <2>1. ASSUME NEW m \in switched PROVE Copies(m) >= floor
    <3>1. m \in Modes
      BY DEF CoreInv, ModeInv, Mode!TypeOK
    <3>2. factor \in Nat \ {0} /\ floor \in Nat /\ N \in Nat \ {0}
      BY ModesAssumption DEF CoreInv, ModeInv, Mode!TypeOK
    <3>3. floor <= 0 \/ Mode!effectiveModeDurability(m) >= floor
      BY DEF CoreInv, ModeInv, FloorPassed
    <3>4. Mode!effectiveModeDurability(m) >= floor
      BY <3>2, <3>3 DEF Mode!effectiveModeDurability
    <3>5. Copies(m) = Mode!effectiveModeDurability(m)
      BY <3>1, DurabilityCounted DEF CoreInv
    <3> QED BY <3>4, <3>5
  <2>2. ASSUME NEW m PROVE Mode!Cardinality({n \in Mode!Nodes : n < factor /\ (m = None => n = 0)}) = Copies(m)
    BY DEF Mode!Cardinality, Cardinality
  <2> HIDE DEF Copies
  <2> QED BY <2>1, <2>2 DEF Mode!FloorKept
<1> QED BY <1>1, CoreInvariant, PTL

\* After a rotation or a reload that ran alone for its purpose, the key it made
\* is the one GetActiveKey returns, until the next one (Rotate, Reload,
\* GetActiveKey).
THEOREM LatestKeyInUse == CoreSpec => []LatestKeyActive
<1>1. CoreInv => LatestKeyActive
  <2> SUFFICES ASSUME CoreInv, NEW p \in Registry!PurposeSet, latest[p] # NoKey
               PROVE  Registry!GetActiveKey(p) = latest[p]
    BY DEF LatestKeyActive, Registry!LatestKeyActive
  <2>1. /\ latest[p] \in Registry!Active(p)
        /\ \A k \in Registry!Active(p) : k <= latest[p]
    BY DEF CoreInv, RegistryInv, LatestNewest
  <2>2. Registry!Active(p) \subseteq Nat
    BY KeysAssumption DEF Registry!Active, Registry!Of, Registry!Stored, Registry!KeyIds
  <2>3. \A x \in Registry!Active(p) :
          (\A y \in Registry!Active(p) : x >= y) => x = latest[p]
    BY <2>1, <2>2
  <2>4. \E x \in Registry!Active(p) : \A y \in Registry!Active(p) : x >= y
    BY <2>1, <2>2
  <2>5. Registry!Max(Registry!Active(p)) = latest[p]
    BY <2>3, <2>4 DEF Registry!Max
  <2> QED BY <2>1, <2>5 DEF Registry!GetActiveKey
<1> QED BY <1>1, CoreInvariant, PTL

\* No step of the node leaves a purpose that has an active key without one
\* (SetActive, Rotate).
THEOREM ActiveKeyKept == CoreSpec => ActiveKept
<1>1. CoreInv /\ [CoreNext]_coreVars => [Registry!KeepsActive]_registryVars
  BY RegistryStep DEF CoreInv, CoreNext, coreVars, registryVars
<1> QED BY <1>1, CoreInvariant, PTL DEF CoreSpec, ActiveKept
====
