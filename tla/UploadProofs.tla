---------------------------- MODULE UploadProofs ----------------------------
(***************************************************************************)
(* Proofs about Upload: an acknowledgement speaks for every copy that the  *)
(* replication mode puts behind the node, for any cluster, any number of   *)
(* uploads and contents, any placement and any number of faults.           *)
(***************************************************************************)
EXTENDS Upload, TLAPS

Parent(id) ==
  [up |-> id.up, path |-> SubSeq(id.path, 1, Len(id.path) - 1)]

\* The mapping of a name holds a reference.
Counted ==
  \A n \in Nodes : mapping[n] # NoHash => refCount[n][mapping[n]] > 0

\* Handlers and nodes left to dial belong to uploads that have started.
Started ==
  /\ \A id \in DOMAIN handlers : Hash(id) \in Hashes
  /\ \A u \in Uploads : upload[u].splay # {} => upload[u].hash \in Hashes

\* The client dials a node once.
Undialled ==
  \A u \in Uploads : \A t \in upload[u].splay :
    [up |-> u, path |-> <<t>>] \notin DOMAIN handlers

\* A forwarded handler has the handler that forwards to it, and its mode.
Inherited ==
  \A id \in DOMAIN handlers :
    Len(id.path) # 1 =>
      /\ Parent(id) \in DOMAIN handlers
      /\ handlers[id].mode = handlers[Parent(id)].mode

\* Only a handler whose store took the object forwards and acknowledges.
Taken ==
  \A id \in DOMAIN handlers :
    handlers[id].step \in {"forward", "acked"} => Node(id) \in stored[id.up]

\* As long as no forwarder failed, each target is pending or has acknowledged.
Awaited ==
  ~panicked =>
    \A id \in DOMAIN handlers :
      handlers[id].step = "forward" /\ ~handlers[id].failed =>
        \A t \in Targets(id) :
          \/ t \in handlers[id].pending
          \/ /\ Child(id, t) \in DOMAIN handlers
             /\ handlers[Child(id, t)].step = "acked"

IInv ==
  /\ TypeOK
  /\ Counted
  /\ Started
  /\ Undialled
  /\ Inherited
  /\ Taken
  /\ Awaited
  /\ AckedIsReplicated

----------------------------------------------------------------------------
(* Handler ids.                                                            *)

\* The node and the upload of a handler.
LEMMA IdFacts ==
  ASSUME NEW id \in Ids
  PROVE  /\ id.up \in Uploads
         /\ Len(id.path) \in Nat \ {0}
         /\ Node(id) \in Nodes
BY DEF Ids, Node

\* The connection of a client.
LEMMA RootFacts ==
  ASSUME NEW u \in Uploads, NEW n \in Nodes
  PROVE  LET id == [up |-> u, path |-> <<n>>]
         IN /\ id \in Ids
            /\ Node(id) = n
            /\ Len(id.path) = 1
BY DEF Ids, Node

\* The connection that a forwarder opens.
LEMMA ChildFacts ==
  ASSUME NEW id \in Ids, NEW t \in Nodes
  PROVE  /\ Child(id, t) \in Ids
         /\ Child(id, t).up = id.up
         /\ Node(Child(id, t)) = t
         /\ Len(Child(id, t).path) # 1
         /\ Parent(Child(id, t)) = id
<1> DEFINE c == Child(id, t)
<1>1. id.path \in Seq(Nodes) /\ id.path # << >> /\ id.up \in Uploads
  BY DEF Ids
<1>2. id = [up |-> id.up, path |-> id.path]
  BY DEF Ids
<1>3. c.up = id.up /\ c.path = Append(id.path, t)
  BY DEF Child
<1>4. Append(id.path, t) \in Seq(Nodes) /\ Len(Append(id.path, t)) = Len(id.path) + 1
  BY <1>1
<1>5. SubSeq(Append(id.path, t), 1, Len(id.path)) = id.path
  BY <1>1
<1>6. Parent(c) = [up |-> id.up, path |-> SubSeq(Append(id.path, t), 1, Len(id.path))]
  BY <1>1, <1>3, <1>4 DEF Parent
<1>7. Node(c) = t
  BY <1>1, <1>3, <1>4 DEF Node
<1>8. Len(id.path) \in Nat \ {0}
  BY <1>1
<1>9. c \in Ids
  BY <1>1, <1>4, <1>8 DEF Ids, Child
<1>10. Parent(c) = id
  BY <1>2, <1>5, <1>6
<1>11. Len(c.path) # 1
  BY <1>3, <1>4, <1>8
<1> QED BY <1>3, <1>7, <1>9, <1>10, <1>11

\* A mode is downgraded to a mode.
LEMMA DowngradeType ==
  ASSUME NEW m \in Modes
  PROVE  Downgrade(m) \in Modes
<1> DEFINE order == ReplicationOrder
           at == Least({i \in DOMAIN order : order[i] = m})
           serverSide == {i \in DOMAIN order : order[i] \notin ClientSide}
           after == {i \in serverSide : \E k \in at : k < i}
           pick == Least(IF after = {} THEN serverSide ELSE after)
<1>1. pick \subseteq DOMAIN order
  BY DEF Least
<1>2. order \in Seq(Modes)
  BY OrderAssumption
<1>3. CASE pick = {}
  BY <1>3 DEF Downgrade, Modes
<1>4. CASE pick # {}
  <2>1. (CHOOSE i \in pick : TRUE) \in DOMAIN order
    BY <1>1, <1>4, Zenon
  <2>2. order[CHOOSE i \in pick : TRUE] \in Modes
    BY <1>2, <2>1
  <2> QED BY <1>4, <2>2, Zenon DEF Downgrade
<1> QED BY <1>3, <1>4, Zenon

----------------------------------------------------------------------------
(* Types.                                                                  *)

HandlersOK ==
  /\ DOMAIN handlers \subseteq Ids
  /\ \A id \in DOMAIN handlers : handlers[id] \in Handler

StoreOK ==
  /\ mapping \in [Nodes -> Hashes \cup {NoHash}]
  /\ refCount \in [Nodes -> [Hashes -> Nat]]
  /\ blobs \in [Nodes -> [Hashes -> {"absent", "good", "bad"}]]
  /\ Counted

\* The store's operations keep its types, and a reference for the mapping.
LEMMA PutStore ==
  ASSUME StoreOK, NEW n \in Nodes, NEW h \in Hashes,
         NEW payload \in {"none", "good", "bad"}, Put(n, h, payload)
  PROVE  StoreOK'
<1>1. mapping' \in [Nodes -> Hashes \cup {NoHash}]
  BY DEF StoreOK, Put
<1>2. refCount' \in [Nodes -> [Hashes -> Nat]]
  BY DEF StoreOK, Put
<1>3. blobs' \in [Nodes -> [Hashes -> {"absent", "good", "bad"}]]
  <2>1. blobs[n][h] \in {"absent", "good", "bad"}
    BY DEF StoreOK
  <2> QED BY <2>1 DEF StoreOK, Put
<1>4. Counted'
  <2> SUFFICES ASSUME NEW m \in Nodes, mapping'[m] # NoHash
               PROVE  refCount'[m][mapping'[m]] > 0
    BY DEF Counted
  <2>1. CASE m = n
    BY <2>1 DEF StoreOK, Put
  <2>2. CASE m # n
    BY <2>2 DEF StoreOK, Put, Counted
  <2> QED BY <2>1, <2>2
<1> QED BY <1>1, <1>2, <1>3, <1>4 DEF StoreOK

\* Delete, too: the name it removes held a reference.
LEMMA DeleteStore ==
  ASSUME StoreOK, NEW n \in Nodes, Delete(n)
  PROVE  StoreOK'
<1>1. mapping' = [mapping EXCEPT ![n] = NoHash]
  BY DEF Delete
<1>2. mapping' \in [Nodes -> Hashes \cup {NoHash}]
  BY <1>1 DEF StoreOK
<1>3. CASE mapping[n] = NoHash
  <2>1. refCount' = refCount /\ blobs' = blobs
    BY <1>3 DEF Delete
  <2> QED BY <1>1, <1>2, <2>1 DEF StoreOK, Counted
<1>4. CASE mapping[n] # NoHash
  <2> DEFINE h == mapping[n]
  <2>1. h \in Hashes /\ refCount[n][h] \in Nat /\ refCount[n][h] > 0
    BY <1>4 DEF StoreOK, Counted
  <2>2. /\ refCount' = [refCount EXCEPT ![n][h] = @ - 1]
        /\ blobs' = IF refCount[n][h] = 1
                    THEN [blobs EXCEPT ![n][h] = "absent"] ELSE blobs
    BY <1>4 DEF Delete
  <2>3. refCount' \in [Nodes -> [Hashes -> Nat]]
    BY <2>1, <2>2 DEF StoreOK
  <2>4. blobs' \in [Nodes -> [Hashes -> {"absent", "good", "bad"}]]
    BY <2>1, <2>2 DEF StoreOK
  <2>5. Counted'
    BY <1>1, <2>2 DEF StoreOK, Counted
  <2> QED BY <1>2, <2>3, <2>4, <2>5 DEF StoreOK
<1> QED BY <1>3, <1>4

\* A new handler.
LEMMA WithHandlers ==
  ASSUME HandlersOK, NEW id \in Ids, NEW step \in Steps, NEW mode \in Modes,
         NEW good \in BOOLEAN,
         handlers' = With(handlers, id, NewHandler(step, mode, good))
  PROVE  HandlersOK'
<1>1. NewHandler(step, mode, good) \in Handler
  BY DEF NewHandler, Handler
<1>2. DOMAIN handlers' = DOMAIN handlers \cup {id}
  BY DEF With
<1>3. \A i \in DOMAIN handlers' :
        handlers'[i] = IF i = id THEN NewHandler(step, mode, good) ELSE handlers[i]
  BY DEF With
<1> QED BY <1>1, <1>2, <1>3 DEF HandlersOK

----------------------------------------------------------------------------
(* What a step does to the handlers, whatever the action.                  *)

\* A handler that is there stays, and what it promises stays the same.
Stays(id) ==
  /\ id \in DOMAIN handlers'
  /\ handlers'[id].mode = handlers[id].mode
  /\ upload'[id.up].hash = upload[id.up].hash
  /\ upload'[id.up].external = upload[id.up].external
  /\ handlers[id].step = "acked" => handlers'[id].step = "acked"

\* It acknowledges once its forwarders are through and none failed.
AcksInTurn(id) ==
  handlers'[id].step = "acked" =>
    \/ handlers[id].step = "acked"
    \/ /\ handlers[id].step = "forward"
       /\ handlers[id].pending = {}
       /\ ~handlers[id].failed

\* It forwards to all targets; one that drops out failed, panicked or has the
\* ACK of the target.
ForwardsOn(id) ==
  handlers'[id].step = "forward" =>
    \/ /\ handlers[id].step = "forward"
       /\ handlers[id].failed => handlers'[id].failed
       /\ \A t \in handlers[id].pending :
            \/ t \in handlers'[id].pending
            \/ handlers'[id].failed
            \/ panicked'
            \/ /\ Child(id, t) \in DOMAIN handlers
               /\ handlers[Child(id, t)].step = "acked"
    \/ /\ handlers'[id].pending = Targets(id)
       /\ Node(id) \in stored'[id.up]

Evolve ==
  /\ HandlersOK'
  /\ \A id \in DOMAIN handlers : Stays(id) /\ AcksInTurn(id) /\ ForwardsOn(id)
  /\ \A id \in DOMAIN handlers' \ DOMAIN handlers :
       handlers'[id].step \in {"check", "failed"}
  /\ \A u \in Uploads : stored[u] \subseteq stored'[u]
  /\ panicked => panicked'

\* A handler that a step leaves alone.
LEMMA Untouched ==
  ASSUME HandlersOK, NEW id \in DOMAIN handlers, id \in DOMAIN handlers',
         handlers'[id] = handlers[id],
         upload'[id.up].hash = upload[id.up].hash,
         upload'[id.up].external = upload[id.up].external
  PROVE  Stays(id) /\ AcksInTurn(id) /\ ForwardsOn(id)
BY DEF Stays, AcksInTurn, ForwardsOn

\* A step that adds a handler.
LEMMA EvolveNew ==
  ASSUME HandlersOK, NEW new \in Ids, new \notin DOMAIN handlers,
         NEW step \in {"check", "failed"}, NEW mode \in Modes, NEW good \in BOOLEAN,
         handlers' = With(handlers, new, NewHandler(step, mode, good)),
         \A id \in DOMAIN handlers :
            /\ upload'[id.up].hash = upload[id.up].hash
            /\ upload'[id.up].external = upload[id.up].external,
         stored' = stored, panicked' = panicked
  PROVE  Evolve
<1>1. HandlersOK'
  BY WithHandlers DEF Steps, Active
<1>2. /\ DOMAIN handlers' = DOMAIN handlers \cup {new}
      /\ \A id \in DOMAIN handlers : handlers'[id] = handlers[id]
      /\ handlers'[new].step = step
  BY DEF With, NewHandler
<1>3. \A id \in DOMAIN handlers : Stays(id) /\ AcksInTurn(id) /\ ForwardsOn(id)
  BY <1>2, Untouched
<1> QED BY <1>1, <1>2, <1>3 DEF Evolve

\* A step of one handler.
LEMMA EvolveOne ==
  ASSUME HandlersOK, NEW id \in DOMAIN handlers, NEW r \in Handler,
         DOMAIN handlers' = DOMAIN handlers,
         handlers'[id] = r,
         \A i \in DOMAIN handlers : i # id => handlers'[i] = handlers[i],
         r.mode = handlers[id].mode,
         handlers[id].step = "acked" => r.step = "acked",
         AcksInTurn(id), ForwardsOn(id),
         upload' = upload,
         \A u \in Uploads : stored[u] \subseteq stored'[u],
         panicked => panicked'
  PROVE  Evolve
<1>1. HandlersOK'
  BY DEF HandlersOK
<1>2. Stays(id)
  BY DEF Stays
<1>3. \A i \in DOMAIN handlers : i # id => Stays(i) /\ AcksInTurn(i) /\ ForwardsOn(i)
  BY Untouched
<1> QED BY <1>1, <1>2, <1>3 DEF Evolve

\* What a handler forwards to and promises does not change.
LEMMA SamePromise ==
  ASSUME NEW id \in DOMAIN handlers, Stays(id)
  PROVE  Targets(id)' = Targets(id) /\ Promised(id)' = Promised(id)
<1>1. Hash(id)' = Hash(id) /\ handlers'[id].mode = handlers[id].mode
  BY DEF Stays, Hash
<1>2. Targets(id)' = Targets(id)
  BY <1>1 DEF Stays, Targets, Node, FromClient, PlacementSet
<1> QED BY <1>1, <1>2 DEF Promised, Node

\* A handler that forwards to nobody any more, and of which every target has
\* acknowledged, may acknowledge for all of them: the targets of a splay took
\* the object themselves, and the next node of a chain speaks for the rest.
LEMMA AckPromise ==
  ASSUME IInv, ~panicked, NEW id \in DOMAIN handlers,
         handlers[id].step = "forward",
         \A t \in Targets(id) : /\ Child(id, t) \in DOMAIN handlers
                                /\ handlers[Child(id, t)].step = "acked"
  PROVE  Promised(id) \subseteq stored[id.up]
<1> DEFINE n == Node(id)
           p == Placement[Hash(id)]
<1>1. id \in Ids /\ n \in Nodes /\ Hash(id) \in Hashes /\ p \in Seq(Nodes)
  BY IdFacts, PlacementAssumption DEF IInv, TypeOK, Started
<1>2. n \in stored[id.up]
  BY DEF IInv, Taken
<1>3. ASSUME NEW t \in Nodes, t \in Targets(id)
      PROVE  /\ Node(Child(id, t)) = t
             /\ Child(id, t).up = id.up
             /\ handlers[Child(id, t)].mode = handlers[id].mode
             /\ t \in stored[id.up]
             /\ Promised(Child(id, t)) \subseteq stored[id.up]
  <2> DEFINE c == Child(id, t)
  <2>1. c \in DOMAIN handlers /\ handlers[c].step = "acked"
    BY <1>3
  <2>2. Node(c) = t /\ c.up = id.up /\ Len(c.path) # 1 /\ Parent(c) = id
    BY <1>1, ChildFacts
  <2>3. handlers[c].mode = handlers[id].mode
    BY <2>1, <2>2 DEF IInv, Inherited
  <2>4. t \in stored[id.up]
    BY <2>1, <2>2 DEF IInv, Taken
  <2>5. Promised(c) \subseteq stored[id.up]
    BY <2>1, <2>2 DEF IInv, AckedIsReplicated
  <2> QED BY <2>2, <2>3, <2>4, <2>5
<1>4. CASE handlers[id].mode = "chain"
  <2> SUFFICES ASSUME NEW k \in DOMAIN p, NEW i \in 1 .. k, p[i] = n
               PROVE  p[k] \in stored[id.up]
    BY <1>2, <1>4 DEF Promised
  <2>1. CASE i = k
    BY <2>1, <1>2
  <2>2. CASE i # k
    <3>1. i \in 1 .. Len(p) - 1 /\ i + 1 \in 1 .. k /\ i + 1 \in DOMAIN p
      BY <1>1, <2>2
    <3> DEFINE t == p[i + 1]
    <3>2. t \in Nodes /\ t \in Targets(id)
      BY <1>1, <1>4, <3>1 DEF Targets
    <3>3. Hash(Child(id, t)) = Hash(id)
      BY <1>3, <3>2 DEF Hash
    <3>4. p[k] \in Promised(Child(id, t))
      BY <1>3, <1>4, <3>1, <3>2, <3>3 DEF Promised
    <3> QED BY <1>3, <3>2, <3>4
  <2> QED BY <2>1, <2>2
<1>5. CASE handlers[id].mode # "chain"
  <2>1. Targets(id) \subseteq Nodes
    BY <1>1, <1>5 DEF Targets, PlacementSet
  <2>2. Promised(id) = {n} \cup Targets(id)
    BY <1>5 DEF Promised
  <2> QED BY <1>2, <1>3, <2>1, <2>2
<1> QED BY <1>4, <1>5

\* A step that evolves the handlers keeps the acknowledgements honest.
LEMMA EvolveReplicated ==
  ASSUME IInv, Evolve
  PROVE  Taken' /\ Awaited' /\ AckedIsReplicated'
<1>1. \A id \in DOMAIN handlers : Targets(id)' = Targets(id) /\ Promised(id)' = Promised(id)
  BY SamePromise DEF Evolve
<1>2. \A id \in DOMAIN handlers : id \in Ids /\ id.up \in Uploads
  BY IdFacts DEF IInv, TypeOK
<1>3. \A id \in DOMAIN handlers' :
        handlers'[id].step \in {"forward", "acked"} => id \in DOMAIN handlers
  BY DEF Evolve
<1>4. Taken'
  <2> SUFFICES ASSUME NEW id \in DOMAIN handlers',
                      handlers'[id].step \in {"forward", "acked"}
               PROVE  Node(id) \in stored'[id.up]
    BY DEF Taken, Node
  <2>1. id \in DOMAIN handlers /\ stored[id.up] \subseteq stored'[id.up]
    BY <1>2, <1>3 DEF Evolve
  <2>2. AcksInTurn(id) /\ ForwardsOn(id)
    BY <2>1 DEF Evolve
  <2>3. \/ handlers[id].step \in {"forward", "acked"}
        \/ Node(id) \in stored'[id.up]
    BY <2>2 DEF AcksInTurn, ForwardsOn
  <2> QED BY <2>1, <2>3 DEF IInv, Taken
<1>5. Awaited'
  <2> SUFFICES ASSUME ~panicked', NEW id \in DOMAIN handlers',
                      handlers'[id].step = "forward", ~handlers'[id].failed,
                      NEW t, t \in Targets(id)'
               PROVE  \/ t \in handlers'[id].pending
                      \/ /\ Child(id, t) \in DOMAIN handlers'
                         /\ handlers'[Child(id, t)].step = "acked"
    BY DEF Awaited, Child
  <2>1. id \in DOMAIN handlers /\ t \in Targets(id) /\ ~panicked
    BY <1>1, <1>3 DEF Evolve
  <2>2. ForwardsOn(id)
    BY <2>1 DEF Evolve
  <2>3. Child(id, t) \in DOMAIN handlers /\ handlers[Child(id, t)].step = "acked"
        => Child(id, t) \in DOMAIN handlers' /\ handlers'[Child(id, t)].step = "acked"
    BY DEF Evolve, Stays
  <2>4. CASE handlers'[id].pending = Targets(id)
    BY <2>1, <2>4
  <2>5. CASE handlers'[id].pending # Targets(id)
    <3>1. /\ handlers[id].step = "forward"
          /\ ~handlers[id].failed
          /\ t \in handlers[id].pending =>
               \/ t \in handlers'[id].pending
               \/ /\ Child(id, t) \in DOMAIN handlers
                  /\ handlers[Child(id, t)].step = "acked"
      BY <2>2, <2>5 DEF ForwardsOn
    <3>2. \/ t \in handlers[id].pending
          \/ /\ Child(id, t) \in DOMAIN handlers
             /\ handlers[Child(id, t)].step = "acked"
      BY <2>1, <3>1 DEF IInv, Awaited
    <3> QED BY <2>3, <3>1, <3>2
  <2> QED BY <2>4, <2>5
<1>6. AckedIsReplicated'
  <2> SUFFICES ASSUME ~panicked', NEW id \in DOMAIN handlers',
                      handlers'[id].step = "acked"
               PROVE  Promised(id)' \subseteq stored'[id.up]
    BY DEF AckedIsReplicated
  <2>1. /\ id \in DOMAIN handlers
        /\ ~panicked
        /\ stored[id.up] \subseteq stored'[id.up]
        /\ AcksInTurn(id)
    BY <1>2, <1>3 DEF Evolve
  <2>2. Promised(id) \subseteq stored[id.up]
    <3>1. CASE handlers[id].step = "acked"
      BY <2>1, <3>1 DEF IInv, AckedIsReplicated
    <3>2. CASE handlers[id].step # "acked"
      <4>1. /\ handlers[id].step = "forward"
            /\ handlers[id].pending = {}
            /\ ~handlers[id].failed
        BY <2>1, <3>2 DEF AcksInTurn
      <4>2. \A t \in Targets(id) : /\ Child(id, t) \in DOMAIN handlers
                                   /\ handlers[Child(id, t)].step = "acked"
        BY <2>1, <4>1 DEF IInv, Awaited
      <4> QED BY <2>1, <4>1, <4>2, AckPromise
    <3> QED BY <3>1, <3>2
  <2> QED BY <1>1, <2>1, <2>2
<1> QED BY <1>4, <1>5, <1>6

----------------------------------------------------------------------------
(* Every action keeps the invariant.                                       *)

RestOK ==
  /\ upload \in [Uploads -> [hash: Hashes \cup {NoHash}, external: BOOLEAN,
                             splay: SUBSET Nodes]]
  /\ serving \in SUBSET Nodes
  /\ faults \in 0 .. MaxFaults
  /\ stored \in [Uploads -> SUBSET Nodes]
  /\ panicked \in BOOLEAN

\* The type invariant, by handlers, store and the rest.
LEMMA TypeParts ==
  TypeOK /\ Counted <=> HandlersOK /\ StoreOK /\ RestOK
BY DEF TypeOK, HandlersOK, StoreOK, RestOK

\* The invariant from its parts.
LEMMA Assemble ==
  ASSUME IInv, Evolve, StoreOK', RestOK', Started', Undialled', Inherited'
  PROVE  IInv'
<1>1. HandlersOK'
  BY DEF Evolve
<1>2. TypeOK' /\ Counted'
  BY <1>1, TypeParts DEF TypeOK, HandlersOK, StoreOK, RestOK
<1> QED BY <1>2, EvolveReplicated DEF IInv

\* A step that adds no handler and touches no upload keeps the tree of
\* handlers.
LEMMA SameTree ==
  ASSUME IInv, Evolve, DOMAIN handlers' = DOMAIN handlers, upload' = upload
  PROVE  Started' /\ Undialled' /\ Inherited'
<1>1. Started'
  BY DEF IInv, Started, Hash
<1>2. Undialled'
  BY Zenon DEF IInv, Undialled
<1>3. Inherited'
  BY ZenonT(60) DEF IInv, Inherited, Evolve, Stays, Parent
<1> QED BY <1>1, <1>2, <1>3

\* A new handler that a client or a forwarder opened fits into the tree.
LEMMA NewInherited ==
  ASSUME IInv, NEW new \in Ids, new \notin DOMAIN handlers,
         NEW step, NEW mode, NEW good,
         handlers' = With(handlers, new, NewHandler(step, mode, good)),
         \/ Len(new.path) = 1
         \/ Parent(new) \in DOMAIN handlers /\ mode = handlers[Parent(new)].mode
  PROVE  Inherited'
<1>1. /\ DOMAIN handlers' = DOMAIN handlers \cup {new}
      /\ \A id \in DOMAIN handlers : handlers'[id] = handlers[id]
      /\ handlers'[new].mode = mode
  BY DEF With, NewHandler
<1> SUFFICES ASSUME NEW id \in DOMAIN handlers', Len(id.path) # 1
             PROVE  /\ Parent(id) \in DOMAIN handlers'
                    /\ handlers'[id].mode = handlers'[Parent(id)].mode
  BY Zenon DEF Inherited, Parent
<1>2. CASE id = new
  <2>1. Len(new.path) # 1
    BY <1>2
  <2>2. Parent(new) \in DOMAIN handlers /\ mode = handlers[Parent(new)].mode
    BY <2>1
  <2>3. handlers'[Parent(new)] = handlers[Parent(new)]
    BY <1>1, <2>2
  <2> QED BY <1>1, <1>2, <2>2, <2>3
<1>3. CASE id # new
  BY <1>1, <1>3 DEF IInv, Inherited
<1> QED BY <1>2, <1>3

\* A client connects: its upload is new, so no handler of it exists.
LEMMA StartUploadStep ==
  ASSUME IInv, NEW u \in Uploads, NEW n \in Nodes, NEW h \in Hashes,
         NEW external \in BOOLEAN, NEW m \in Modes, NEW reached \in BOOLEAN,
         StartUpload(u, n, h, external, m, reached)
  PROVE  IInv'
<1> DEFINE mode == IF external THEN Downgrade(m) ELSE m
           new == [up |-> u, path |-> <<n>>]
           step == IF Accepted(n, reached) THEN "check" ELSE "failed"
<1>1. HandlersOK /\ StoreOK /\ RestOK
  BY TypeParts DEF IInv
<1>2. new \in Ids /\ Len(new.path) = 1 /\ new.up = u
  BY RootFacts
<1>3. \A id \in DOMAIN handlers : id.up # u
  BY NoHashAssumption DEF IInv, Started, Hash, StartUpload
<1>4. new \notin DOMAIN handlers
  BY <1>2, <1>3
<1>5. mode \in Modes
  BY DowngradeType
<1>6. handlers' = With(handlers, new, NewHandler(step, mode, TRUE))
  BY DEF StartUpload
<1>7. /\ DOMAIN handlers' = DOMAIN handlers \cup {new}
      /\ upload'[u].hash = h
      /\ upload'[u].splay \subseteq PlacementSet(h) \ {n}
      /\ \A v \in Uploads : v # u => upload'[v] = upload[v]
  <2>1. DOMAIN handlers' = DOMAIN handlers \cup {new}
    BY <1>6 DEF With
  <2> QED BY <1>1, <2>1, Zenon DEF StartUpload, RestOK
<1>8. \A id \in DOMAIN handlers : id \in Ids /\ id.up \in Uploads /\ upload'[id.up] = upload[id.up]
  BY <1>1, <1>3, <1>7, IdFacts DEF HandlersOK
<1>9. Evolve
  <2>1. stored' = stored /\ panicked' = panicked
    BY DEF StartUpload
  <2>2. step \in {"check", "failed"}
    OBVIOUS
  <2> HIDE DEF step, mode, new
  <2> QED BY <1>1, <1>2, <1>4, <1>5, <1>6, <1>8, <2>1, <2>2, EvolveNew, Zenon
<1>10. StoreOK'
  BY <1>1 DEF StartUpload, store, StoreOK, Counted
<1>11. RestOK'
  <2>1. PlacementSet(h) \subseteq Nodes
    BY PlacementAssumption DEF PlacementSet
  <2>2. upload' \in [Uploads -> [hash: Hashes \cup {NoHash}, external: BOOLEAN,
                                splay: SUBSET Nodes]]
    BY <1>1, <2>1 DEF StartUpload, RestOK
  <2>3. serving' \in SUBSET Nodes
    BY <1>1 DEF StartUpload, RestOK, AcceptLoop
  <2> QED BY <1>1, <2>2, <2>3 DEF StartUpload, RestOK
<1>12. Started'
  <2>1. \A id \in DOMAIN handlers' : upload'[id.up].hash \in Hashes
    BY <1>2, <1>7, <1>8 DEF IInv, Started, Hash
  <2>2. \A v \in Uploads : upload'[v].splay # {} => upload'[v].hash \in Hashes
    BY <1>7 DEF IInv, Started
  <2> QED BY <2>1, <2>2 DEF Started, Hash
<1>13. Undialled'
  <2> SUFFICES ASSUME NEW v \in Uploads, NEW t \in upload'[v].splay
               PROVE  [up |-> v, path |-> <<t>>] \notin DOMAIN handlers'
    BY Zenon DEF Undialled
  <2>1. CASE v = u
    <3>1. t # n
      BY <1>7, <2>1
    <3>2. [up |-> v, path |-> <<t>>] # new
      BY <3>1
    <3> QED BY <1>3, <1>7, <2>1, <3>2
  <2>2. CASE v # u
    <3>1. t \in upload[v].splay
      BY <1>7, <2>2
    <3> QED BY <1>7, <2>2, <3>1 DEF IInv, Undialled
  <2> QED BY <2>1, <2>2
<1>14. Inherited'
  <2> HIDE DEF step, mode, new
  <2> QED BY <1>2, <1>4, <1>6, NewInherited, Zenon
<1> QED BY <1>9, <1>10, <1>11, <1>12, <1>13, <1>14, Assemble

\* The client of a primary-splay dials one more node.
LEMMA SplayConnectStep ==
  ASSUME IInv, NEW u \in Uploads, NEW t \in Nodes, NEW m \in Modes,
         NEW reached \in BOOLEAN, SplayConnect(u, t, m, reached)
  PROVE  IInv'
<1> DEFINE new == [up |-> u, path |-> <<t>>]
           step == IF Accepted(t, reached) THEN "check" ELSE "failed"
<1>1. HandlersOK /\ StoreOK /\ RestOK
  BY TypeParts DEF IInv
<1>2. new \in Ids /\ Len(new.path) = 1 /\ new.up = u
  BY RootFacts
<1>3. t \in upload[u].splay /\ upload[u].hash \in Hashes
  BY DEF SplayConnect, IInv, Started
<1>4. new \notin DOMAIN handlers
  BY <1>3 DEF IInv, Undialled
<1>5. handlers' = With(handlers, new, NewHandler(step, m, TRUE))
  BY DEF SplayConnect
<1>6. /\ DOMAIN handlers' = DOMAIN handlers \cup {new}
      /\ upload'[u].splay = upload[u].splay \ {t}
      /\ \A v \in Uploads : /\ upload'[v].hash = upload[v].hash
                            /\ upload'[v].external = upload[v].external
                            /\ upload'[v].splay \subseteq upload[v].splay
  <2>1. DOMAIN handlers' = DOMAIN handlers \cup {new}
    BY <1>5 DEF With
  <2> QED BY <1>1, <2>1, Zenon DEF SplayConnect, RestOK
<1>7. \A id \in DOMAIN handlers : id.up \in Uploads
  BY <1>1, IdFacts DEF HandlersOK
<1>8. Evolve
  <2>1. stored' = stored /\ panicked' = panicked
    BY DEF SplayConnect
  <2>2. step \in {"check", "failed"}
    OBVIOUS
  <2> HIDE DEF step, new
  <2> QED BY <1>1, <1>2, <1>4, <1>5, <1>6, <1>7, <2>1, <2>2, EvolveNew, Zenon
<1>9. StoreOK'
  BY <1>1 DEF SplayConnect, store, StoreOK, Counted
<1>10. RestOK'
  BY <1>1 DEF SplayConnect, RestOK, AcceptLoop
<1>11. Started'
  <2>1. \A id \in DOMAIN handlers' : upload'[id.up].hash \in Hashes
    BY <1>2, <1>3, <1>6, <1>7 DEF IInv, Started, Hash
  <2>2. \A v \in Uploads : upload'[v].splay # {} => upload'[v].hash \in Hashes
    BY <1>6 DEF IInv, Started
  <2> QED BY <2>1, <2>2 DEF Started, Hash
<1>12. Undialled'
  <2> SUFFICES ASSUME NEW v \in Uploads, NEW s \in upload'[v].splay
               PROVE  [up |-> v, path |-> <<s>>] \notin DOMAIN handlers'
    BY Zenon DEF Undialled
  <2>1. [up |-> v, path |-> <<s>>] \notin DOMAIN handlers
    BY <1>6 DEF IInv, Undialled
  <2>2. v = u => s # t
    BY <1>6
  <2>3. [up |-> v, path |-> <<s>>] # new
    BY <2>2
  <2> QED BY <1>6, <2>1, <2>3
<1>13. Inherited'
  <2> HIDE DEF step, new
  <2> QED BY <1>2, <1>4, <1>5, NewInherited, ZenonT(60)
<1> QED BY <1>8, <1>9, <1>10, <1>11, <1>12, <1>13, Assemble

\* A forwarder opens a connection: the new handler inherits the mode.
LEMMA ForwardStep ==
  ASSUME IInv, NEW id \in DOMAIN handlers, NEW t \in Nodes,
         NEW reached \in BOOLEAN, Forward(id, t, reached)
  PROVE  IInv'
<1> DEFINE n == Node(id)
           h == mapping[n]
           dialled == h # NoHash /\ blobs[n][h] # "absent" /\ reached
           new == Child(id, t)
           step == IF Accepted(t, dialled) THEN "check" ELSE "failed"
           good == h = Hash(id) /\ blobs[n][h] = "good"
<1>1. HandlersOK /\ StoreOK /\ RestOK
  BY TypeParts DEF IInv
<1>2. id \in Ids /\ handlers[id].mode \in Modes
  BY <1>1 DEF HandlersOK, Handler
<1>3. /\ new \in Ids
      /\ Len(new.path) # 1
      /\ new.up = id.up
      /\ Parent(new) = id
  BY <1>2, ChildFacts
<1>4. /\ new \notin DOMAIN handlers
      /\ handlers' = With(handlers, new, NewHandler(step, handlers[id].mode, good))
      /\ serving' = AcceptLoop(t, dialled)
      /\ UNCHANGED <<upload, store, faults, stored, panicked>>
  BY DEF Forward
<1>5. DOMAIN handlers' = DOMAIN handlers \cup {new}
  BY <1>4 DEF With
<1>6. Evolve
  <2>1. step \in {"check", "failed"} /\ good \in BOOLEAN
    OBVIOUS
  <2> HIDE DEF step, good, new
  <2> QED BY <1>1, <1>2, <1>3, <1>4, <2>1, EvolveNew
<1>7. StoreOK'
  BY <1>1, <1>4 DEF store, StoreOK, Counted
<1>8. RestOK'
  BY <1>1, <1>4 DEF RestOK, AcceptLoop
<1>9. Started'
  BY <1>3, <1>4, <1>5 DEF IInv, Started, Hash
<1>10. Undialled'
  <2> SUFFICES ASSUME NEW v \in Uploads, NEW s \in upload[v].splay
               PROVE  [up |-> v, path |-> <<s>>] \notin DOMAIN handlers'
    BY <1>4, Zenon DEF Undialled
  <2>1. s \in Nodes
    BY <1>1 DEF RestOK
  <2>2. [up |-> v, path |-> <<s>>] # new
    <3>1. Len([up |-> v, path |-> <<s>>].path) = 1
      BY <2>1, RootFacts
    <3> HIDE DEF new
    <3> QED BY <1>3, <3>1
  <2> QED BY <1>5, <2>2 DEF IInv, Undialled
<1>11. Inherited'
  <2> HIDE DEF step, good, new
  <2> QED BY <1>3, <1>4, NewInherited
<1> QED BY <1>6, <1>7, <1>8, <1>9, <1>10, <1>11, Assemble

\* A step of one handler that is neither an ACK nor the start of forwarding.
LEMMA PlainStep ==
  ASSUME IInv, NEW id \in DOMAIN handlers, NEW r \in Handler,
         DOMAIN handlers' = DOMAIN handlers,
         handlers'[id] = r,
         \A i \in DOMAIN handlers : i # id => handlers'[i] = handlers[i],
         r.mode = handlers[id].mode,
         handlers[id].step # "acked", r.step \notin {"acked", "forward"},
         upload' = upload, stored' = stored, panicked' = panicked,
         StoreOK', RestOK'
  PROVE  IInv'
<1>1. HandlersOK
  BY TypeParts DEF IInv
<1>2. AcksInTurn(id) /\ ForwardsOn(id)
  BY DEF AcksInTurn, ForwardsOn
<1>3. Evolve
  BY <1>1, <1>2, EvolveOne
<1> QED BY <1>3, SameTree, Assemble

\* The deduplication check.
LEMMA CheckDedupStep ==
  ASSUME IInv, NEW id \in DOMAIN handlers, NEW hit \in BOOLEAN, CheckDedup(id, hit)
  PROVE  IInv'
<1> DEFINE r == [handlers[id] EXCEPT !.step = "put", !.dedup = hit]
<1>1. HandlersOK /\ StoreOK /\ RestOK
  BY TypeParts DEF IInv
<1>2. handlers[id] \in Handler /\ handlers[id].step = "check"
  BY <1>1 DEF HandlersOK, CheckDedup, At
<1>3. r \in Handler /\ r.step = "put" /\ r.mode = handlers[id].mode
  BY <1>2, Zenon DEF Handler, Steps, Active
<1>4. /\ DOMAIN handlers' = DOMAIN handlers
      /\ handlers'[id] = r
      /\ \A i \in DOMAIN handlers : i # id => handlers'[i] = handlers[i]
  BY DEF CheckDedup
<1>5. UNCHANGED <<upload, store, serving, faults, stored, panicked>>
  BY DEF CheckDedup
<1>6. StoreOK' /\ RestOK'
  BY <1>1, <1>5 DEF store, StoreOK, Counted, RestOK
<1> HIDE DEF r
<1> QED BY <1>2, <1>3, <1>4, <1>5, <1>6, PlainStep

\* A handler gives up.
LEMMA AbandonStep ==
  ASSUME IInv, NEW id \in DOMAIN handlers, Abandon(id)
  PROVE  IInv'
<1> DEFINE r == [handlers[id] EXCEPT !.step = "failed"]
<1>1. HandlersOK /\ StoreOK /\ RestOK
  BY TypeParts DEF IInv
<1>2. handlers[id] \in Handler /\ handlers[id].step # "acked"
  BY <1>1 DEF HandlersOK, Abandon, At
<1>3. r \in Handler /\ r.step = "failed" /\ r.mode = handlers[id].mode
  BY <1>2 DEF Handler, Steps
<1>4. /\ DOMAIN handlers' = DOMAIN handlers
      /\ handlers'[id] = r
      /\ \A i \in DOMAIN handlers : i # id => handlers'[i] = handlers[i]
  BY DEF Abandon
<1>5. UNCHANGED <<upload, store, serving, faults, stored, panicked>>
  BY DEF Abandon
<1>6. StoreOK' /\ RestOK'
  BY <1>1, <1>5 DEF store, StoreOK, Counted, RestOK
<1> HIDE DEF r
<1> QED BY <1>2, <1>3, <1>4, <1>5, <1>6, PlainStep

\* waitForForwarders times out: the handler fails.
LEMMA ForwardTimeoutStep ==
  ASSUME IInv, NEW id \in DOMAIN handlers, ForwardTimeout(id)
  PROVE  IInv'
<1> DEFINE r == [handlers[id] EXCEPT !.step = "failed", !.failed = TRUE]
<1>1. HandlersOK /\ StoreOK /\ RestOK
  BY TypeParts DEF IInv
<1>2. handlers[id] \in Handler /\ handlers[id].step = "forward"
  BY <1>1 DEF HandlersOK, ForwardTimeout, At
<1>3. r \in Handler /\ r.step = "failed" /\ r.mode = handlers[id].mode
  BY <1>2, Zenon DEF Handler, Steps
<1>4. /\ DOMAIN handlers' = DOMAIN handlers
      /\ handlers'[id] = r
      /\ \A i \in DOMAIN handlers : i # id => handlers'[i] = handlers[i]
  BY DEF ForwardTimeout
<1>5. UNCHANGED <<upload, store, serving, faults, stored, panicked>>
  BY DEF ForwardTimeout
<1>6. StoreOK' /\ RestOK'
  BY <1>1, <1>5 DEF store, StoreOK, Counted, RestOK
<1> HIDE DEF r
<1> QED BY <1>2, <1>3, <1>4, <1>5, <1>6, PlainStep

\* A payload is cut short.
LEMMA TruncateStep ==
  ASSUME IInv, NEW id \in DOMAIN handlers, Truncate(id)
  PROVE  IInv'
<1> DEFINE r == [handlers[id] EXCEPT !.good = FALSE]
<1>1. HandlersOK /\ StoreOK /\ RestOK
  BY TypeParts DEF IInv
<1>2. handlers[id] \in Handler /\ handlers[id].step = "put"
  BY <1>1 DEF HandlersOK, Truncate, At
<1>3. r \in Handler /\ r.step = "put" /\ r.mode = handlers[id].mode
  BY <1>2, Zenon DEF Handler
<1>4. /\ DOMAIN handlers' = DOMAIN handlers
      /\ handlers'[id] = r
      /\ \A i \in DOMAIN handlers : i # id => handlers'[i] = handlers[i]
  BY DEF Truncate
<1>5. /\ UNCHANGED <<upload, store, serving, stored, panicked>>
      /\ faults' \in 0 .. MaxFaults
  BY <1>1, BoundsAssumption DEF Truncate, RestOK
<1>6. StoreOK' /\ RestOK'
  BY <1>1, <1>5 DEF store, StoreOK, Counted, RestOK
<1> HIDE DEF r
<1> QED BY <1>2, <1>3, <1>4, <1>5, <1>6, PlainStep

\* The store took the object: the handler starts to forward.
LEMMA StartForwardingStep ==
  ASSUME IInv, NEW id \in DOMAIN handlers, handlers[id].step \in {"put", "verify"},
         StartForwarding(id), StoreOK',
         UNCHANGED <<upload, serving, faults, panicked>>
  PROVE  IInv'
<1> DEFINE r == [handlers[id] EXCEPT !.step = "forward", !.pending = Targets(id)]
<1>1. HandlersOK /\ RestOK
  BY TypeParts DEF IInv
<1>2. id \in Ids /\ id.up \in Uploads /\ Node(id) \in Nodes /\ handlers[id] \in Handler
  BY <1>1, IdFacts DEF HandlersOK
<1>3. Targets(id) \subseteq Nodes
  <2>1. Placement[Hash(id)] \in Seq(Nodes)
    BY PlacementAssumption DEF IInv, Started
  <2> QED BY <2>1 DEF Targets, PlacementSet
<1>4. /\ r \in Handler
      /\ r.step = "forward"
      /\ r.pending = Targets(id)
      /\ r.mode = handlers[id].mode
  BY <1>2, <1>3, Zenon DEF Handler, Steps, Active
<1>5. /\ DOMAIN handlers' = DOMAIN handlers
      /\ handlers'[id] = r
      /\ \A i \in DOMAIN handlers : i # id => handlers'[i] = handlers[i]
  BY DEF StartForwarding
<1>6. /\ Node(id) \in stored'[id.up]
      /\ \A u \in Uploads : stored[u] \subseteq stored'[u]
      /\ stored' \in [Uploads -> SUBSET Nodes]
  BY <1>1, <1>2 DEF StartForwarding, RestOK
<1> HIDE DEF r
<1>7. AcksInTurn(id) /\ ForwardsOn(id)
  BY <1>4, <1>5, <1>6 DEF AcksInTurn, ForwardsOn
<1>8. Evolve
  <2>1. upload' = upload /\ (panicked => panicked')
    OBVIOUS
  <2> QED BY <1>1, <1>4, <1>5, <1>6, <1>7, <2>1, EvolveOne
<1>9. RestOK'
  BY <1>1, <1>6 DEF RestOK
<1> QED BY <1>5, <1>8, <1>9, SameTree, Assemble

\* store.Put, with or without a payload.
LEMMA StorePayloadStep ==
  ASSUME IInv, NEW id \in DOMAIN handlers, StorePayload(id)
  PROVE  IInv'
<1> DEFINE r == [handlers[id] EXCEPT !.step = "verify"]
           payload == IF handlers[id].dedup THEN "none"
                      ELSE IF handlers[id].good THEN "good" ELSE "bad"
<1>1. HandlersOK /\ StoreOK /\ RestOK
  BY TypeParts DEF IInv
<1>2. handlers[id] \in Handler /\ handlers[id].step = "put"
  BY <1>1 DEF HandlersOK, StorePayload, At
<1>3. Node(id) \in Nodes /\ Hash(id) \in Hashes
  BY <1>1, IdFacts DEF HandlersOK, IInv, Started
<1>4. StoreOK'
  <2>1. payload \in {"none", "good", "bad"} /\ Put(Node(id), Hash(id), payload)
    BY DEF StorePayload
  <2> HIDE DEF payload
  <2> QED BY <1>1, <1>3, <2>1, PutStore
<1>5. UNCHANGED <<upload, serving, faults, panicked>>
  BY DEF StorePayload
<1>6. CASE handlers[id].dedup
  BY <1>2, <1>4, <1>5, <1>6, StartForwardingStep DEF StorePayload
<1>7. CASE ~handlers[id].dedup
  <2>1. r \in Handler /\ r.step = "verify" /\ r.mode = handlers[id].mode
    BY <1>2 DEF Handler, Steps, Active
  <2>2. /\ DOMAIN handlers' = DOMAIN handlers
        /\ handlers'[id] = r
        /\ \A i \in DOMAIN handlers : i # id => handlers'[i] = handlers[i]
        /\ stored' = stored
    BY <1>7 DEF StorePayload
  <2>3. RestOK'
    BY <1>1, <1>5, <2>2 DEF RestOK
  <2> HIDE DEF r
  <2> QED BY <1>2, <1>4, <1>5, <2>1, <2>2, <2>3, PlainStep
<1> QED BY <1>6, <1>7

\* getFile's comparison of the hash, and its rollback.
LEMMA VerifyHashStep ==
  ASSUME IInv, NEW id \in DOMAIN handlers, VerifyHash(id)
  PROVE  IInv'
<1> DEFINE r == [handlers[id] EXCEPT !.step = "failed"]
<1>1. HandlersOK /\ StoreOK /\ RestOK
  BY TypeParts DEF IInv
<1>2. handlers[id] \in Handler /\ handlers[id].step = "verify" /\ Node(id) \in Nodes
  BY <1>1, IdFacts DEF HandlersOK, VerifyHash, At
<1>3. UNCHANGED <<upload, serving, faults, panicked>>
  BY DEF VerifyHash
<1>4. CASE handlers[id].good
  <2>1. StartForwarding(id) /\ UNCHANGED store
    BY <1>4 DEF VerifyHash
  <2>2. StoreOK'
    BY <1>1, <2>1 DEF store, StoreOK, Counted
  <2> QED BY <1>2, <1>3, <2>1, <2>2, StartForwardingStep
<1>5. CASE ~handlers[id].good
  <2>1. r \in Handler /\ r.step = "failed" /\ r.mode = handlers[id].mode
    BY <1>2 DEF Handler, Steps
  <2>2. /\ DOMAIN handlers' = DOMAIN handlers
        /\ handlers'[id] = r
        /\ \A i \in DOMAIN handlers : i # id => handlers'[i] = handlers[i]
        /\ stored' = stored
        /\ Delete(Node(id))
    BY <1>5 DEF VerifyHash
  <2>3. StoreOK'
    BY <1>1, <1>2, <2>2, DeleteStore
  <2>4. RestOK'
    BY <1>1, <1>3, <2>2 DEF RestOK
  <2> HIDE DEF r
  <2> QED BY <1>2, <1>3, <2>1, <2>2, <2>3, <2>4, PlainStep
<1> QED BY <1>4, <1>5

\* A step of one handler's forwarders, or its end.
LEMMA ForwardingStep ==
  ASSUME IInv, NEW id \in DOMAIN handlers, NEW r \in Handler,
         handlers' = [handlers EXCEPT ![id] = r],
         r.mode = handlers[id].mode,
         handlers[id].step = "acked" => r.step = "acked",
         AcksInTurn(id), ForwardsOn(id),
         UNCHANGED <<upload, store, serving, faults, stored>>,
         panicked => panicked', panicked' \in BOOLEAN
  PROVE  IInv'
<1>1. HandlersOK /\ StoreOK /\ RestOK
  BY TypeParts DEF IInv
<1>2. /\ DOMAIN handlers' = DOMAIN handlers
      /\ handlers'[id] = r
      /\ \A i \in DOMAIN handlers : i # id => handlers'[i] = handlers[i]
  OBVIOUS
<1>3. Evolve
  BY <1>1, <1>2, EvolveOne
<1>4. StoreOK' /\ RestOK'
  BY <1>1 DEF store, StoreOK, Counted, RestOK
<1> QED BY <1>2, <1>3, <1>4, SameTree, Assemble

\* A forwarder returns: only with the ACK of the other side without an error.
LEMMA ForwardedStep ==
  ASSUME IInv, NEW id \in DOMAIN handlers, NEW t \in Nodes, NEW ack \in BOOLEAN,
         Forwarded(id, t, ack)
  PROVE  IInv'
<1> DEFINE r == [handlers[id] EXCEPT !.pending = @ \ {t}, !.failed = @ \/ ~ack]
<1>1. handlers[id] \in Handler
  BY DEF IInv, TypeOK
<1>2. /\ r \in Handler
      /\ r.step = handlers[id].step
      /\ r.mode = handlers[id].mode
      /\ r.pending = handlers[id].pending \ {t}
      /\ r.failed = (handlers[id].failed \/ ~ack)
  BY <1>1, Zenon DEF Handler
<1>3. /\ handlers' = [handlers EXCEPT ![id] = r]
      /\ handlers'[id] = r
      /\ Child(id, t) \in DOMAIN handlers
      /\ ack => handlers[Child(id, t)].step = "acked"
      /\ UNCHANGED <<upload, store, serving, faults, stored, panicked>>
  BY Zenon DEF Forwarded
<1> HIDE DEF r
<1>4. AcksInTurn(id)
  <2>1. handlers[id].step = handlers'[id].step
    BY <1>2, <1>3
  <2> QED BY <2>1 DEF AcksInTurn
<1>5. ForwardsOn(id)
  BY <1>2, <1>3, Zenon DEF ForwardsOn
<1>6. panicked' \in BOOLEAN
  BY <1>3 DEF IInv, TypeOK
<1> QED BY <1>2, <1>3, <1>4, <1>5, <1>6, ForwardingStep, Zenon

\* A forwarder panics.
LEMMA PanicForwardStep ==
  ASSUME IInv, NEW id \in DOMAIN handlers, NEW t \in Nodes, PanicForward(id, t)
  PROVE  IInv'
<1> DEFINE r == [handlers[id] EXCEPT !.pending = @ \ {t}]
<1>1. handlers[id] \in Handler
  BY DEF IInv, TypeOK
<1>2. /\ r \in Handler
      /\ r.step = handlers[id].step
      /\ r.mode = handlers[id].mode
      /\ r.failed = handlers[id].failed
  BY <1>1 DEF Handler
<1>3. /\ handlers' = [handlers EXCEPT ![id] = r]
      /\ handlers'[id] = r
      /\ panicked'
      /\ panicked' \in BOOLEAN
      /\ UNCHANGED <<upload, store, serving, faults, stored>>
  BY DEF PanicForward
<1> HIDE DEF r
<1>4. AcksInTurn(id)
  BY <1>2, <1>3 DEF AcksInTurn
<1>5. ForwardsOn(id)
  BY <1>2, <1>3 DEF ForwardsOn
<1> QED BY <1>2, <1>3, <1>4, <1>5, ForwardingStep, Zenon

\* The handler ends: it acknowledges only if no forwarder failed.
LEMMA FinishStep ==
  ASSUME IInv, NEW id \in DOMAIN handlers, Finish(id)
  PROVE  IInv'
<1> DEFINE end == IF handlers[id].failed THEN "failed" ELSE "acked"
           r == [handlers[id] EXCEPT !.step = end]
<1>1. /\ handlers[id] \in Handler
      /\ handlers[id].step = "forward"
      /\ handlers[id].pending = {}
  BY DEF IInv, TypeOK, Finish, At
<1>2. r \in Handler /\ r.step = end /\ r.mode = handlers[id].mode
  BY <1>1 DEF Handler, Steps
<1>3. /\ handlers' = [handlers EXCEPT ![id] = r]
      /\ handlers'[id] = r
      /\ UNCHANGED <<upload, store, serving, faults, stored, panicked>>
  BY DEF Finish
<1>4. panicked' \in BOOLEAN
  BY <1>3 DEF IInv, TypeOK
<1> HIDE DEF r
<1>5. AcksInTurn(id) /\ ForwardsOn(id)
  BY <1>1, <1>2, <1>3 DEF AcksInTurn, ForwardsOn
<1> QED BY <1>1, <1>2, <1>3, <1>4, <1>5, ForwardingStep, ZenonT(60)

\* A delete of the name touches no handler.
LEMMA DeleteNameStep ==
  ASSUME IInv, NEW n \in Nodes, DeleteName(n)
  PROVE  IInv'
<1>1. HandlersOK /\ StoreOK /\ RestOK
  BY TypeParts DEF IInv
<1>2. /\ Delete(n)
      /\ UNCHANGED <<upload, handlers, serving, stored, panicked>>
      /\ faults' \in 0 .. MaxFaults
  BY <1>1, BoundsAssumption DEF DeleteName, RestOK
<1>3. StoreOK'
  BY <1>1, <1>2, DeleteStore
<1>4. RestOK'
  BY <1>1, <1>2 DEF RestOK
<1>5. Evolve
  <2>1. HandlersOK'
    BY <1>1, <1>2 DEF HandlersOK
  <2>2. \A id \in DOMAIN handlers : Stays(id) /\ AcksInTurn(id) /\ ForwardsOn(id)
    BY <1>1, <1>2, Untouched
  <2> QED BY <1>2, <2>1, <2>2 DEF Evolve
<1> QED BY <1>2, <1>3, <1>4, <1>5, SameTree, Assemble

\* A restart ends the handlers of the node; what was acknowledged stays so.
LEMMA RestartStep ==
  ASSUME IInv, NEW n \in Nodes, Restart(n)
  PROVE  IInv'
<1> DEFINE gone(id) == [handlers[id] EXCEPT !.pending = {},
                          !.step = IF @ \in Active THEN "failed" ELSE @]
<1>1. HandlersOK /\ StoreOK /\ RestOK
  BY TypeParts DEF IInv
<1>2. /\ DOMAIN handlers' = DOMAIN handlers
      /\ \A id \in DOMAIN handlers :
           handlers'[id] = IF Node(id) # n THEN handlers[id] ELSE gone(id)
      /\ UNCHANGED <<upload, store, stored, panicked>>
      /\ serving' \in SUBSET Nodes
      /\ faults' \in 0 .. MaxFaults
  <2>1. /\ handlers' = [id \in DOMAIN handlers |->
                         IF Node(id) # n THEN handlers[id] ELSE gone(id)]
        /\ UNCHANGED <<upload, store, stored, panicked>>
        /\ serving' = serving \cup {n}
        /\ faults < MaxFaults /\ faults' = faults + 1
    BY Zenon DEF Restart
  <2> HIDE DEF gone
  <2>2. faults' \in 0 .. MaxFaults
    BY <1>1, <2>1, BoundsAssumption DEF RestOK
  <2>3. serving' \in SUBSET Nodes
    BY <1>1, <2>1 DEF RestOK
  <2> QED BY <2>1, <2>2, <2>3
<1>3. \A id \in DOMAIN handlers :
        /\ gone(id) \in Handler
        /\ gone(id).mode = handlers[id].mode
        /\ gone(id).step # "forward"
        /\ gone(id).step = "acked" <=> handlers[id].step = "acked"
  <2> TAKE id \in DOMAIN handlers
  <2>1. handlers[id] \in Handler
    BY <1>1 DEF HandlersOK
  <2>2. /\ gone(id).mode = handlers[id].mode
        /\ gone(id).step = IF handlers[id].step \in Active THEN "failed" ELSE handlers[id].step
    BY <2>1 DEF Handler
  <2>3. gone(id) \in Handler
    BY <2>1, Zenon DEF Handler, Steps
  <2>4. gone(id).step # "forward" /\ (gone(id).step = "acked" <=> handlers[id].step = "acked")
    <3> HIDE DEF gone
    <3> QED BY <2>2 DEF Active
  <2> QED BY <2>2, <2>3, <2>4
<1> HIDE DEF gone
<1>4. HandlersOK'
  BY <1>1, <1>2, <1>3 DEF HandlersOK
<1>5. ASSUME NEW id \in DOMAIN handlers
      PROVE  Stays(id) /\ AcksInTurn(id) /\ ForwardsOn(id)
  <2>1. CASE Node(id) # n
    <3>1. handlers'[id] = handlers[id] /\ id \in DOMAIN handlers' /\ upload' = upload
      BY <1>2, <2>1
    <3> QED BY <1>1, <3>1, Untouched
  <2>2. CASE Node(id) = n
    <3>1. handlers'[id] = gone(id) /\ id \in DOMAIN handlers' /\ upload' = upload
      BY <1>2, <2>2
    <3>2. Stays(id)
      BY <1>3, <3>1 DEF Stays
    <3>3. AcksInTurn(id) /\ ForwardsOn(id)
      BY <1>3, <3>1 DEF AcksInTurn, ForwardsOn
    <3> QED BY <3>2, <3>3
  <2> QED BY <2>1, <2>2
<1>6. Evolve
  BY <1>2, <1>4, <1>5 DEF Evolve
<1>7. StoreOK' /\ RestOK'
  BY <1>1, <1>2 DEF store, StoreOK, Counted, RestOK
<1> QED BY <1>2, <1>6, <1>7, SameTree, Assemble

----------------------------------------------------------------------------
\* The invariant holds when no client has connected yet.
LEMMA InitInvariant == Init => IInv
<1> SUFFICES ASSUME Init PROVE IInv
  OBVIOUS
<1>1. DOMAIN handlers = {}
  BY DEF Init
<1>2. TypeOK
  <2>1. RestOK
    <3>1. upload \in [Uploads -> [hash: Hashes \cup {NoHash}, external: BOOLEAN,
                                 splay: SUBSET Nodes]]
      BY DEF Init
    <3>2. faults \in 0 .. MaxFaults
      BY BoundsAssumption DEF Init
    <3>3. panicked \in BOOLEAN
      BY Zenon DEF Init
    <3>4. serving \in SUBSET Nodes /\ stored \in [Uploads -> SUBSET Nodes]
      BY DEF Init
    <3> QED BY <3>1, <3>2, <3>3, <3>4 DEF RestOK
  <2>2. /\ mapping \in [Nodes -> Hashes \cup {NoHash}]
        /\ refCount \in [Nodes -> [Hashes -> Nat]]
        /\ blobs \in [Nodes -> [Hashes -> {"absent", "good", "bad"}]]
    BY DEF Init
  <2> QED BY <1>1, <2>1, <2>2 DEF RestOK, TypeOK
<1>3. Counted
  BY DEF Init, Counted
<1>4. Started /\ Undialled
  BY <1>1 DEF Init, Started, Undialled
<1> QED BY <1>1, <1>2, <1>3, <1>4
     DEF IInv, Inherited, Taken, Awaited, AckedIsReplicated

\* Every step of clients, handlers, forwarders and faults keeps the invariant.
LEMMA NextInvariant == IInv /\ [Next]_vars => IInv'
<1> SUFFICES ASSUME IInv, [Next]_vars PROVE IInv'
  OBVIOUS
<1>1. ASSUME ClientStep PROVE IInv'
  <2>1. \A i \in DOMAIN ReplicationOrder : ReplicationOrder[i] \in Modes
    BY OrderAssumption
  <2> QED BY <1>1, <2>1, StartUploadStep, SplayConnectStep DEF ClientStep
<1>2. ASSUME NEW id \in DOMAIN handlers, HandlerStep(id) PROVE IInv'
  BY <1>2, CheckDedupStep, StorePayloadStep, VerifyHashStep, AbandonStep,
     FinishStep, ForwardTimeoutStep DEF HandlerStep
<1>3. ASSUME NEW id \in DOMAIN handlers, ForwarderStep(id) PROVE IInv'
  BY <1>3, ForwardStep, ForwardedStep, PanicForwardStep DEF ForwarderStep
<1>4. ASSUME Fault PROVE IInv'
  BY <1>4, TruncateStep, DeleteNameStep, RestartStep DEF Fault
<1>5. ASSUME UNCHANGED vars PROVE IInv'
  <2>1. HandlersOK /\ StoreOK /\ RestOK
    BY TypeParts DEF IInv
  <2>2. UNCHANGED <<upload, handlers, mapping, refCount, blobs, serving, faults,
                    stored, panicked>>
    BY <1>5 DEF vars, store
  <2>3. HandlersOK' /\ StoreOK' /\ RestOK'
    BY <2>1, <2>2 DEF HandlersOK, StoreOK, Counted, RestOK
  <2>4. \A id \in DOMAIN handlers : Stays(id) /\ AcksInTurn(id) /\ ForwardsOn(id)
    BY <2>1, <2>2, Untouched
  <2>5. Evolve
    BY <2>2, <2>3, <2>4 DEF Evolve
  <2> QED BY <2>2, <2>3, <2>5, SameTree, Assemble
<1> QED BY <1>1, <1>2, <1>3, <1>4, <1>5 DEF Next

\* The inductive invariant of Upload.
THEOREM UploadInvariant == Spec => []IInv
BY InitInvariant, NextInvariant, PTL DEF Spec

\* The types hold; in particular no delete and no rollback of a failed upload
\* takes a reference count below zero.
THEOREM UploadTypes == Spec => []TypeOK
<1>1. IInv => TypeOK
  BY DEF IInv
<1> QED BY <1>1, UploadInvariant, PTL

\* The handler's ACK (server.go, issue #627) is given only when every node that
\* the replication mode puts behind the handler took the object, whatever breaks,
\* hangs, restarts, is deleted or is uploaded at the same time, unless a
\* forwarder panicked.
THEOREM AcknowledgedIsReplicated == Spec => []AckedIsReplicated
<1>1. IInv => AckedIsReplicated
  BY DEF IInv
<1> QED BY <1>1, UploadInvariant, PTL
=============================================================================
