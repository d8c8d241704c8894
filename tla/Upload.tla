------------------------------- MODULE Upload -------------------------------
(***************************************************************************)
(* Uploads of one object name to a momo cluster: the connection handler of *)
(* server/server.go with getFile (server/file.go) and the slots of         *)
(* server/concurrency.go, the client (client/client.go), and as much of    *)
(* each node's content store as they use.                                  *)
(*                                                                         *)
(* A handler is one connection: a client's, or one that another handler    *)
(* opened to forward the object.  It is named by the upload and the path   *)
(* of nodes from the client to here.  Handlers of all nodes interleave     *)
(* between their calls into the stores; connections break, payloads are    *)
(* cut short, answers get lost, forwarders time out and panic, nodes       *)
(* restart, and other clients delete the name.                             *)
(***************************************************************************)
EXTENDS Integers, FiniteSets, Sequences

CONSTANTS
  Nodes,             \* the cluster
  Uploads,           \* client uploads
  Hashes,            \* content hashes
  NoHash,            \* no mapping; an upload that has not started
  Placement,         \* CRUSH: hash -> the nodes for it, primary first
  ReplicationOrder,  \* cfg.Global.ReplicationOrder
  ClientSide,        \* cfg.Global.ClientSideReplicationModes
  Limit,             \* connection slots of a node
  MaxFaults,         \* bound on deletes, restarts and damaged payloads
  Panics             \* forwarders may panic

Modes == {"none", "chain", "splay", "primarySplay"}

\* A handler: the upload, and the nodes from the client to here.
Ids == {id \in [up: Uploads, path: Seq(Nodes)] : id.path # << >>}

ASSUME NoHashAssumption == NoHash \notin Hashes
ASSUME PlacementAssumption ==
  \A h \in Hashes :
    /\ Placement[h] \in Seq(Nodes)
    /\ \A i, j \in DOMAIN Placement[h] : Placement[h][i] = Placement[h][j] => i = j
ASSUME OrderAssumption == ReplicationOrder \in Seq(Modes) /\ ClientSide \subseteq Modes
ASSUME BoundsAssumption ==
  Limit \in Nat \ {0} /\ MaxFaults \in Nat /\ Panics \in BOOLEAN

VARIABLES
  upload,        \* each upload: its hash, external (S3), nodes left to dial
  handlers,      \* the handlers so far, by id
  mapping,       \* the namespace of each node's store
  refCount,      \* node -> hash -> RefCount, 0 when absent
  blobs,         \* node -> hash -> the bytes held
  serving,       \* the nodes whose accept loop runs
  faults,        \* number of faults so far
  stored,        \* history: upload -> the nodes that took it (see StartForwarding)
  panicked       \* history: a forwarder panicked

store == <<mapping, refCount, blobs>>
vars == <<upload, handlers, store, serving, faults, stored, panicked>>

Active == {"check", "put", "verify", "forward"}
Steps == Active \cup {"acked", "failed"}

\* pending: the targets whose forwarders still run; failed: forwardFailed.
Handler == [step: Steps, mode: Modes, dedup: BOOLEAN, good: BOOLEAN,
            pending: SUBSET Nodes, failed: BOOLEAN]

TypeOK ==
  /\ upload \in [Uploads -> [hash: Hashes \cup {NoHash}, external: BOOLEAN,
                             splay: SUBSET Nodes]]
  /\ DOMAIN handlers \subseteq Ids
  /\ \A id \in DOMAIN handlers : handlers[id] \in Handler
  /\ mapping \in [Nodes -> Hashes \cup {NoHash}]
  /\ refCount \in [Nodes -> [Hashes -> Nat]]
  /\ blobs \in [Nodes -> [Hashes -> {"absent", "good", "bad"}]]
  /\ serving \in SUBSET Nodes
  /\ faults \in 0 .. MaxFaults
  /\ stored \in [Uploads -> SUBSET Nodes]
  /\ panicked \in BOOLEAN

Init ==
  /\ upload = [u \in Uploads |->
                 [hash |-> NoHash, external |-> FALSE, splay |-> {}]]
  /\ handlers = [id \in {} |-> {}]
  /\ mapping = [n \in Nodes |-> NoHash]
  /\ refCount = [n \in Nodes |-> [h \in Hashes |-> 0]]
  /\ blobs = [n \in Nodes |-> [h \in Hashes |-> "absent"]]
  /\ serving = Nodes
  /\ faults = 0
  /\ stored = [u \in Uploads |-> {}]
  /\ panicked = FALSE

----------------------------------------------------------------------------
(* The content store of node n, for the one name (module CASStore).        *)

\* A slip that Put avoids: no reference is counted.
PutUncounted(n, h, payload) ==
  /\ mapping' = [mapping EXCEPT ![n] = h]
  /\ blobs' = [blobs EXCEPT ![n][h] =
       IF @ = "absent" /\ payload # "none" THEN payload ELSE @]
  /\ UNCHANGED refCount

\* Put of a payload, or of none on a deduplication hit; bytes that are there
\* are kept.
Put(n, h, payload) ==
  /\ mapping' = [mapping EXCEPT ![n] = h]
  /\ refCount' = [refCount EXCEPT ![n][h] = @ + 1]
  /\ blobs' = [blobs EXCEPT ![n][h] =
       IF @ = "absent" \/ refCount[n][h] = 0
       THEN IF payload = "none" THEN @ ELSE payload
       ELSE @]

\* Delete of the name; the last reference takes the bytes.
Delete(n) ==
  LET h == mapping[n]
  IN /\ mapping' = [mapping EXCEPT ![n] = NoHash]
     /\ IF h = NoHash THEN UNCHANGED <<refCount, blobs>>
        ELSE /\ refCount' = [refCount EXCEPT ![n][h] = @ - 1]
             /\ blobs' = IF refCount[n][h] = 1
                         THEN [blobs EXCEPT ![n][h] = "absent"] ELSE blobs

----------------------------------------------------------------------------
(* Connections.                                                            *)

Node(id) == id.path[Len(id.path)]

FromClient(id) == Len(id.path) = 1

Child(id, t) == [up |-> id.up, path |-> Append(id.path, t)]

ActiveAt(n) ==
  {id \in DOMAIN handlers : Node(id) = n /\ handlers[id].step \in Active}

NewHandler(step, mode, good) ==
  [step |-> step, mode |-> mode, dedup |-> FALSE, good |-> good,
   pending |-> {}, failed |-> FALSE]

With(H, id, r) ==
  [i \in DOMAIN H \cup {id} |-> IF i = id THEN r ELSE H[i]]

\* A connection to n is accepted.  Without a free slot the connection is closed
\* and Daemon returns: the node accepts no more.
Accepted(n, reached) ==
  /\ reached
  /\ n \in serving
  /\ Cardinality(ActiveAt(n)) < Limit

AcceptLoop(n, reached) ==
  IF reached /\ n \in serving /\ ~Accepted(n, reached) THEN serving \ {n} ELSE serving

----------------------------------------------------------------------------
(* The client.                                                             *)

PlacementSet(h) == {Placement[h][i] : i \in DOMAIN Placement[h]}

Least(S) == {i \in S : \A j \in S : i <= j}

\* downgradeToServerSideMode: the next server-side mode in the order, else the
\* first one, else none.
Downgrade(mode) ==
  LET order == ReplicationOrder
      at == Least({i \in DOMAIN order : order[i] = mode})
      serverSide == {i \in DOMAIN order : order[i] \notin ClientSide}
      after == {i \in serverSide : \E k \in at : k < i}
      pick == Least(IF after = {} THEN serverSide ELSE after)
  IN IF mode \notin ClientSide THEN mode
     ELSE IF pick = {} THEN "none"
     ELSE order[CHOOSE i \in pick : TRUE]

\* A client connects to node n, which is in mode m; an S3 client is external.
\* In primary-splay the native client goes on to dial the placement.
StartUpload(u, n, h, external, m, reached) ==
  LET mode == IF external THEN Downgrade(m) ELSE m
      id == [up |-> u, path |-> <<n>>]
  IN /\ upload[u].hash = NoHash
     /\ upload' = [upload EXCEPT ![u] =
          [hash |-> h, external |-> external,
           splay |-> IF mode = "primarySplay" /\ ~external /\ Accepted(n, reached)
                     THEN PlacementSet(h) \ {n} ELSE {}]]
     /\ handlers' = With(handlers, id,
          NewHandler(IF Accepted(n, reached) THEN "check" ELSE "failed", mode, TRUE))
     /\ serving' = AcceptLoop(n, reached)
     /\ UNCHANGED <<store, faults, stored, panicked>>

\* The client dials one more node, which takes the client for a new one and
\* goes by its own mode.  A failure is logged.
SplayConnect(u, t, m, reached) ==
  /\ t \in upload[u].splay
  /\ upload' = [upload EXCEPT ![u].splay = @ \ {t}]
  /\ handlers' = With(handlers, [up |-> u, path |-> <<t>>],
       NewHandler(IF Accepted(t, reached) THEN "check" ELSE "failed", m, TRUE))
  /\ serving' = AcceptLoop(t, reached)
  /\ UNCHANGED <<store, faults, stored, panicked>>

----------------------------------------------------------------------------
(* The handler.                                                            *)

Hash(id) == upload[id.up].hash

At(id, step) == id \in DOMAIN handlers /\ handlers[id].step = step

\* The metadata arrives.  The payload is skipped when the store has the hash
\* and the name maps to it; the two are looked up one after the other, so a
\* concurrent Put may go unnoticed.
CheckDedup(id, hit) ==
  /\ At(id, "check")
  /\ FromClient(id) => upload[id.up].splay = {}
  /\ hit => mapping[Node(id)] = Hash(id)
  /\ handlers' = [handlers EXCEPT ![id].step = "put", ![id].dedup = hit]
  /\ UNCHANGED <<upload, store, serving, faults, stored, panicked>>

\* The nodes this handler forwards to.
Targets(id) ==
  LET n == Node(id)
      p == Placement[Hash(id)]
      mode == handlers[id].mode
  IN IF mode = "chain"
     THEN {p[i + 1] : i \in {j \in 1 .. Len(p) - 1 : p[j] = n}}
     ELSE IF mode = "splay" /\ Len(p) > 0
             /\ (p[1] = n \/ (FromClient(id) /\ upload[id.up].external))
     THEN PlacementSet(Hash(id)) \ {n}
     ELSE {}

\* The store took the object, under a hash that was verified here or is the one
\* the name mapped to; the forwarders start.
StartForwarding(id) ==
  /\ handlers' = [handlers EXCEPT ![id].step = "forward", ![id].pending = Targets(id)]
  /\ stored' = [stored EXCEPT ![id.up] = @ \cup {Node(id)}]

\* store.Put: of nothing on a deduplication hit, else inside getFile.
StorePayload(id) ==
  /\ At(id, "put")
  /\ Put(Node(id), Hash(id), IF handlers[id].dedup THEN "none"
                             ELSE IF handlers[id].good THEN "good" ELSE "bad")
  /\ IF handlers[id].dedup THEN StartForwarding(id)
     ELSE /\ handlers' = [handlers EXCEPT ![id].step = "verify"]
          /\ UNCHANGED stored
  /\ UNCHANGED <<upload, serving, faults, panicked>>

\* getFile compares the hash of what it received; on a mismatch it deletes the
\* name.
VerifyHash(id) ==
  /\ At(id, "verify")
  /\ IF handlers[id].good
     THEN StartForwarding(id) /\ UNCHANGED store
     ELSE /\ Delete(Node(id))
          /\ handlers' = [handlers EXCEPT ![id].step = "failed"]
          /\ UNCHANGED stored
  /\ UNCHANGED <<upload, serving, faults, panicked>>

\* A deadline passes, the connection breaks or the store reports an error.
Abandon(id) ==
  /\ At(id, "check") \/ At(id, "put")
  /\ handlers' = [handlers EXCEPT ![id].step = "failed"]
  /\ UNCHANGED <<upload, store, serving, faults, stored, panicked>>

\* A forwarder opens what the NAME maps to now and sends it under the hash of
\* its upload.  It is not tied to the handler, which may have timed out.
Forward(id, t, reached) ==
  LET n == Node(id)
      h == mapping[n]
      readable == h # NoHash /\ blobs[n][h] # "absent"
      dialled == readable /\ reached
  IN /\ id \in DOMAIN handlers
     /\ t \in handlers[id].pending
     /\ Child(id, t) \notin DOMAIN handlers
     /\ handlers' = With(handlers, Child(id, t),
          NewHandler(IF Accepted(t, dialled) THEN "check" ELSE "failed",
                     handlers[id].mode,
                     h = Hash(id) /\ blobs[n][h] = "good"))
     /\ serving' = AcceptLoop(t, dialled)
     /\ UNCHANGED <<upload, store, faults, stored, panicked>>

\* The forwarder returns: with the ACK of the other side, or with an error.
Forwarded(id, t, ack) ==
  /\ id \in DOMAIN handlers
  /\ t \in handlers[id].pending
  /\ Child(id, t) \in DOMAIN handlers
  /\ ack => handlers[Child(id, t)].step = "acked"
  /\ handlers' = [handlers EXCEPT ![id].pending = @ \ {t},
                                  ![id].failed = @ \/ ~ack]
  /\ UNCHANGED <<upload, store, serving, faults, stored, panicked>>

\* The recover of a forwarder that panics does not call markForwardFail.
PanicForward(id, t) ==
  /\ Panics
  /\ id \in DOMAIN handlers
  /\ t \in handlers[id].pending
  /\ Child(id, t) \notin DOMAIN handlers
  /\ handlers' = [handlers EXCEPT ![id].pending = @ \ {t}]
  /\ panicked' = TRUE
  /\ UNCHANGED <<upload, store, serving, faults, stored>>

\* A slip that Finish avoids: acknowledge whatever the forwarders say.
FinishAlways(id) ==
  /\ At(id, "forward")
  /\ handlers[id].pending = {}
  /\ handlers' = [handlers EXCEPT ![id].step = "acked"]
  /\ UNCHANGED <<upload, store, serving, faults, stored, panicked>>

\* waitForForwarders returns; the ACK is suppressed if a forwarder failed.
Finish(id) ==
  /\ At(id, "forward")
  /\ handlers[id].pending = {}
  /\ handlers' = [handlers EXCEPT ![id].step =
                    IF handlers[id].failed THEN "failed" ELSE "acked"]
  /\ UNCHANGED <<upload, store, serving, faults, stored, panicked>>

\* A slip that ForwardTimeout avoids: wait for the forwarders alone.
NoTimeout(id) ==
  /\ At(id, "forward")
  /\ handlers[id].pending = {}
  /\ UNCHANGED vars

\* Or it gives up; the forwarders go on by themselves.
ForwardTimeout(id) ==
  /\ At(id, "forward")
  /\ handlers[id].pending # {}
  /\ handlers' = [handlers EXCEPT ![id].step = "failed", ![id].failed = TRUE]
  /\ UNCHANGED <<upload, store, serving, faults, stored, panicked>>

----------------------------------------------------------------------------
(* The environment.                                                        *)

\* The sender dies in the middle of the payload.
Truncate(id) ==
  /\ faults < MaxFaults
  /\ At(id, "put")
  /\ ~handlers[id].dedup
  /\ handlers' = [handlers EXCEPT ![id].good = FALSE]
  /\ faults' = faults + 1
  /\ UNCHANGED <<upload, store, serving, stored, panicked>>

\* A client deletes the name on node n.
DeleteName(n) ==
  /\ faults < MaxFaults
  /\ mapping[n] # NoHash
  /\ Delete(n)
  /\ faults' = faults + 1
  /\ UNCHANGED <<upload, handlers, serving, stored, panicked>>

\* Node n restarts: its handlers and forwarders are gone, its store is not.
Restart(n) ==
  /\ faults < MaxFaults
  /\ handlers' = [id \in DOMAIN handlers |->
       IF Node(id) # n THEN handlers[id]
       ELSE [handlers[id] EXCEPT !.pending = {},
               !.step = IF @ \in Active THEN "failed" ELSE @]]
  /\ serving' = serving \cup {n}
  /\ faults' = faults + 1
  /\ UNCHANGED <<upload, store, stored, panicked>>

----------------------------------------------------------------------------
ClientStep ==
  \/ \E u \in Uploads, n \in Nodes, h \in Hashes, external \in BOOLEAN,
        i \in DOMAIN ReplicationOrder, reached \in BOOLEAN :
       StartUpload(u, n, h, external, ReplicationOrder[i], reached)
  \/ \E u \in Uploads, t \in Nodes, i \in DOMAIN ReplicationOrder, reached \in BOOLEAN :
       SplayConnect(u, t, ReplicationOrder[i], reached)

\* What a handler does by itself, and when its deadlines pass.
HandlerStep(id) ==
  \/ \E hit \in BOOLEAN : CheckDedup(id, hit)
  \/ StorePayload(id)
  \/ VerifyHash(id)
  \/ Abandon(id)
  \/ Finish(id)
  \/ ForwardTimeout(id)

ForwarderStep(id) ==
  \/ \E t \in Nodes, reached \in BOOLEAN : Forward(id, t, reached)
  \/ \E t \in Nodes, ack \in BOOLEAN : Forwarded(id, t, ack)
  \/ \E t \in Nodes : PanicForward(id, t)

Fault ==
  \/ \E id \in DOMAIN handlers : Truncate(id)
  \/ \E n \in Nodes : DeleteName(n)
  \/ \E n \in Nodes : Restart(n)

Next ==
  \/ ClientStep
  \/ \E id \in DOMAIN handlers : HandlerStep(id)
  \/ \E id \in DOMAIN handlers : ForwarderStep(id)
  \/ Fault

Spec == Init /\ [][Next]_vars

\* Go runs every handler, the deadlines of its connection and of
\* waitForForwarders pass, and the client dials one node after the other.
\* Nothing is assumed of the forwarders and of the network.
FairSpec ==
  /\ Spec
  /\ WF_vars(\E id \in DOMAIN handlers : HandlerStep(id))
  /\ WF_vars(\E u \in Uploads, t \in Nodes, i \in DOMAIN ReplicationOrder,
                reached \in BOOLEAN : SplayConnect(u, t, ReplicationOrder[i], reached))

----------------------------------------------------------------------------
(* Properties.                                                             *)

\* The nodes that an acknowledgement of handler id speaks for: the rest of the
\* chain, the whole placement from where a splay is driven, else the node.
Promised(id) ==
  LET n == Node(id)
      p == Placement[Hash(id)]
  IN {n} \cup
     (IF handlers[id].mode = "chain"
      THEN {p[j] : j \in {k \in DOMAIN p : \E i \in 1 .. k : p[i] = n}}
      ELSE Targets(id))

\* "No silent data loss goes undetected" (server.go, issue #627): an upload is
\* acknowledged only when every node that its replication mode puts behind this
\* one has taken it into its store, whatever fails, hangs, restarts or is
\* deleted, unless a forwarder panics.
AckedIsReplicated ==
  ~panicked =>
    \A id \in DOMAIN handlers :
      handlers[id].step = "acked" => Promised(id) \subseteq stored[id.up]

\* "The connection-handler goroutine is never leaked forever" (server.go,
\* issue #628): even when forwarders hang, every handler ends and gives back its
\* slot, so that a node's slots are all free once the uploads are over.
SlotsFreed ==
  \A n \in Nodes : ActiveAt(n) # {} ~> ActiveAt(n) = {}
=============================================================================
