---------------------------- MODULE ScatterGather ----------------------------
(***************************************************************************)
(* Questions one daemon puts to the others over the P2P transport:         *)
(* ScatterGather.Query behind GlobalList and PropagateDelete               *)
(* (p2p/scatter_gather.go, server/p2p_adapters.go, server/query_handler.go)*)
(* OPRFProvider.Evaluate behind EvaluateOPRF (p2p/oprf_rpc.go,             *)
(* server/oprf_service.go), and the fan-out of version records             *)
(* (server/version_replication.go, p2p/metadata_rpc.go).                   *)
(*                                                                         *)
(* A caller registers a request ID, broadcasts, and collects answers from  *)
(* a channel as long as the number of peers it believed alive.  Broadcast  *)
(* writes to every peer with a connection, alive or not.  IDs start again  *)
(* from 1 when the daemon restarts, and a peer sends its answer over       *)
(* whatever connection it has by then.                                     *)
(***************************************************************************)
EXTENDS Integers, Sequences, FiniteSets

CONSTANTS
    Peers,        \* the other daemons
    Callers,      \* goroutines of the asking daemon
    Names,        \* object names
    LongNames,    \* those longer than FileInfoLength
    Points,       \* blinded OPRF points
    Threshold,    \* evaluations an OPRF result needs
    Starts,       \* situations to begin in: [view, store, plan, may]
    MaxEvents     \* restarts of the asking daemon, RPCs lost with a connection,
                  \* failures of a peer's store, uploads under way meanwhile

Me == "me"
Nodes == Peers \cup {Me}

Kinds == {"list", "delete", "oprf", "version"}
Situation ==
    [view : [Peers -> [alive : BOOLEAN, conn : BOOLEAN]], store : [Nodes -> SUBSET Names],
     plan : [Callers -> Kinds \cup {"none"}], may : SUBSET {"restart", "fault", "put"}]

ASSUME PeersAssumption == IsFiniteSet(Peers) /\ Me \notin Peers
ASSUME BoundsAssumption == Threshold \in Nat /\ MaxEvents \in Nat
ASSUME StartsAssumption == Starts \subseteq Situation

VARIABLES
    view,      \* view[p]: [alive, conn] in the asking daemon's peer map
    store,     \* store[n]: the names its store holds
    plan,      \* what each caller asks, "none" if nothing
    may,       \* the events that may happen: restart, fault, put
    call,      \* the callers
    next,      \* nextRequestID of ScatterGather, OPRFProvider, MetadataRPCProvider
    wire,      \* RPCs written and not handled
    life,      \* restarts of the asking daemon
    events     \* against MaxEvents

vars == <<view, store, plan, may, call, next, wire, life, events>>

Class(kind) == IF kind \in {"list", "delete"} THEN "query" ELSE kind
Args(kind) == CASE kind = "delete" -> Names [] kind = "oprf" -> Points 
                [] kind = "none" -> {} [] OTHER -> {""}

\* want is peerCount and chan the answers of pendingQuery; todo the replicas a
\* fan-out still has to send to.  held and kept are history: every name some
\* node has held, and the names each node has kept, since the call began.
Idle == [pc |-> "idle", arg |-> "", id |-> 0, want |-> 0, chan |-> <<>>, local |-> {},
         todo |-> {}, ok |-> FALSE, data |-> {}, held |-> {}, kept |-> [n \in Nodes |-> {}]]

\* The history of the calls under way when a node loses names or gains one.
Waiting(q) == call[q].pc = "wait" /\ plan[q] # "version"
Lost(n, names) == [q \in Callers |->
    IF Waiting(q) THEN [call[q] EXCEPT !.kept[n] = @ \ names] ELSE call[q]]
Gained(name) == [q \in Callers |->
    IF Waiting(q) /\ plan[q] = "list" THEN [call[q] EXCEPT !.held = @ \cup {name}] ELSE call[q]]

Alive == {p \in Peers : view[p].alive}
Connected == {p \in Peers : view[p].conn}

\* life and arg of an answer say which question it answers; the wire carries
\* only the ID, and no definition that models code looks at them.
Question(p, kind, id, arg) ==
    [type |-> "question", peer |-> p, kind |-> kind, id |-> id, arg |-> arg, life |-> life]
Answer(m, ok, data) ==
    [type |-> "answer", peer |-> m.peer, kind |-> m.kind, id |-> m.id, arg |-> m.arg,
     life |-> m.life, ok |-> ok, data |-> data]

-----------------------------------------------------------------------------
Init ==
    /\ \E s \in Starts : view = s.view /\ store = s.store /\ plan = s.plan /\ may = s.may
    /\ call = [q \in Callers |-> Idle]
    /\ next = [c \in {"query", "oprf", "version"} |-> 0]
    /\ wire = {}
    /\ life = 0 /\ events = 0

-----------------------------------------------------------------------------
(* How a caller turns its answers into a result                            *)

\* GlobalList: the local list and every list that came without an error; an
\* entry that several nodes list appears once.
Merged(lists) == UNION lists
ListResult(c, answers) ==
    [ok |-> TRUE, data |-> Merged({c.local} \cup {answers[i].data : i \in DOMAIN answers})]

\* PropagateDelete: an error if nobody answered or any answer is an error.
DeleteResultAny(c, answers) ==
    [ok |-> \E i \in DOMAIN answers : answers[i].ok, data |-> {}]
DeleteResult(c, answers) ==
    [ok |-> Len(answers) > 0 /\ \A i \in DOMAIN answers : answers[i].ok, data |-> {}]

\* EvaluateOPRF: the own evaluation and, of every share index not yet seen,
\* the first that came; an error below the threshold.
\* A daemon stands for its share index, which the configuration keeps unique.
Own(c) == [by |-> Me, point |-> c.arg]
EnoughOnly(evals) ==
    [ok |-> Cardinality(evals) >= Threshold,
     data |-> IF Cardinality(evals) >= Threshold THEN evals ELSE {}]
OprfResultRepeats(c, answers) ==
    EnoughOnly({Own(c)} \cup UNION {answers[i].data : i \in DOMAIN answers})
OprfResult(c, answers) ==
    LET unseen(i) == {e \in answers[i].data :
                        e.by # Me /\ \A j \in 1 .. i - 1 : \A s \in answers[j].data : s.by # e.by}
    IN  EnoughOnly({Own(c)} \cup UNION {unseen(i) : i \in DOMAIN answers})

Finish(q, c, answers) ==
    LET r == CASE plan[q] = "list" -> ListResult(c, answers)
               [] plan[q] = "delete" -> DeleteResult(c, answers)
               [] plan[q] = "oprf" -> OprfResult(c, answers)
    IN  [c EXCEPT !.pc = "done", !.chan = answers, !.ok = r.ok, !.data = r.data]

-----------------------------------------------------------------------------
(* The asking daemon                                                       *)

\* With no peer alive the call returns at once; otherwise its request is
\* registered under a new ID and broadcast.
Scatter(q, c, calls) ==
    LET class == Class(plan[q])
        id    == next[class] + 1
    IN  IF Alive = {}
        THEN /\ call' = [calls EXCEPT ![q] = Finish(q, c, <<>>)]
             /\ UNCHANGED <<next, wire>>
        ELSE /\ call' = [calls EXCEPT ![q] = [c EXCEPT !.pc = "wait", !.id = id, !.want = Cardinality(Alive)]]
             /\ next' = [next EXCEPT ![class] = id]
             /\ wire' = wire \cup {Question(p, plan[q], id, c.arg) : p \in Connected}

\* Query: GlobalList lists the local store first; a delete is propagated once
\* the local store has deleted the name.
Query(q, arg) ==
    LET gone == IF plan[q] = "delete" THEN {arg} ELSE {}
        now  == [store EXCEPT ![Me] = @ \ gone]
        list == plan[q] = "list"
        c    == [Idle EXCEPT !.arg = arg, !.kept = now,
                             !.local = IF list THEN store[Me] ELSE {},
                             !.held = IF list THEN UNION {store[n] : n \in Nodes} ELSE {}]
    IN  /\ call[q].pc = "idle"
        /\ plan[q] \in {"list", "delete"}
        /\ gone \subseteq store[Me]
        /\ store' = now
        /\ Scatter(q, c, Lost(Me, gone))
        /\ UNCHANGED <<view, plan, may, life, events>>

\* EvaluateOPRF asks the peers for their evaluations of a blinded point.
Evaluate(q, point) ==
    /\ call[q].pc = "idle"
    /\ plan[q] = "oprf"
    /\ Scatter(q, [Idle EXCEPT !.arg = point], call)
    /\ UNCHANGED <<view, store, plan, may, life, events>>

\* The request an answer belongs to: its ID in the provider's pending map.
PendingAny(q, m) == call[q].pc = "wait" /\ Class(plan[q]) = Class(m.kind)
Pending(q, m) == call[q].pc = "wait" /\ Class(plan[q]) = Class(m.kind) /\ call[q].id = m.id

\* handleQueryResponse and handleEvalResponse: into the channel of the pending
\* request unless that is full; dropped when nobody waits.
HandleAnswer(m) ==
    /\ m.type = "answer"
    /\ wire' = wire \ {m}
    /\ call' = [q \in Callers |->
                  IF Pending(q, m) /\ Len(call[q].chan) < call[q].want
                  THEN [call[q] EXCEPT !.chan = Append(@, m)] ELSE call[q]]
    /\ UNCHANGED <<view, store, plan, may, next, life, events>>

\* The collecting loop: it has want answers, or the timer fires after some of
\* those in the channel have been taken.
TimedOutEmpty(q) ==
    /\ Waiting(q)
    /\ Len(call[q].chan) > 0
    /\ call' = [call EXCEPT ![q] = Finish(q, @, @.chan)]
    /\ UNCHANGED <<view, store, plan, may, next, wire, life, events>>
Collected(q) ==
    /\ Waiting(q)
    /\ Len(call[q].chan) = call[q].want
    /\ call' = [call EXCEPT ![q] = Finish(q, @, @.chan)]
    /\ UNCHANGED <<view, store, plan, may, next, wire, life, events>>
TimedOut(q) ==
    /\ Waiting(q)
    /\ \E k \in 0 .. Len(call[q].chan) :
          /\ k < call[q].want
          /\ call' = [call EXCEPT ![q] = Finish(q, @, SubSeq(@.chan, 1, k))]
    /\ UNCHANGED <<view, store, plan, may, next, wire, life, events>>

\* fanOut calls ReplicateVersion for one replica after the other: Send fails
\* without a connection, otherwise it waits for the reply or the timeout.
FanOut(q, p) ==
    LET todo == IF call[q].pc = "idle" THEN Peers ELSE call[q].todo
        id   == next["version"] + 1
        sent == p \in Connected
    IN  /\ plan[q] = "version"
        /\ call[q].pc \in {"idle", "next"}
        /\ p \in todo
        /\ call' = [call EXCEPT ![q] =
                      [Idle EXCEPT !.id = id, !.todo = todo \ {p}, !.want = 1,
                                   !.pc = IF sent THEN "wait" ELSE IF todo = {p} THEN "done" ELSE "next"]]
        /\ next' = [next EXCEPT !["version"] = id]
        /\ wire' = wire \cup (IF sent THEN {Question(p, "version", id, "")} ELSE {})
        /\ UNCHANGED <<view, store, plan, may, life, events>>

FanOutNext(q) ==
    /\ plan[q] = "version"
    /\ call[q].pc = "wait"
    /\ call' = [call EXCEPT ![q].pc = IF call[q].todo = {} THEN "done" ELSE "next"]
    /\ UNCHANGED <<view, store, plan, may, next, wire, life, events>>

\* The asking daemon restarts: callers and IDs are gone, its store and the
\* questions its peers have not handled yet are not.
Restart ==
    /\ "restart" \in may
    /\ events < MaxEvents
    /\ events' = events + 1
    /\ life' = life + 1
    /\ call' = [q \in Callers |-> Idle]
    /\ next' = [c \in DOMAIN next |-> 0]
    /\ wire' = {m \in wire : m.type = "question"}
    /\ UNCHANGED <<view, store, plan, may>>

-----------------------------------------------------------------------------
(* The peers                                                               *)

\* What Gossiper.HandleRPC passes on: it has no case for MsgReplicateVersion.
Routed == {"list", "delete", "oprf"}

\* A list as GlobalList has it after EncodeFileMetadataList, which leaves out
\* the names that DecodeFileMetadataList would refuse the whole list for.
Decoded(names) == IF names \cap LongNames = {} THEN names ELSE {}
EncodedAll(names) == Decoded(names)
Encoded(names) == Decoded(names \ LongNames)

\* The answer of the peer's handler, or its error, takes the place of m.
Reply(m, ok, data) == wire' = (wire \ {m}) \cup {Answer(m, ok, IF ok THEN data ELSE {})}

\* The peer's store or evaluator returns an error of its own.
Failing == "fault" \in may /\ events < MaxEvents /\ events' = events + 1

\* handleDelete removes the name if parseAndValidateName accepts it and the
\* store holds it.
HandleDelete(m) ==
    IF m.kind = "delete" THEN {m.arg} \cap (store[m.peer] \ LongNames) ELSE {}

\* handleQuery with handleList and handleDelete; nothing deleted is an error.
HandleQuery(m) ==
    /\ m.type = "question"
    /\ m.kind \in {"list", "delete"} \cap Routed
    /\ LET names == HandleDelete(m)
       IN  \/ /\ Reply(m, m.kind = "list" \/ names # {}, IF m.kind = "list" THEN Encoded(store[m.peer]) ELSE {})
              /\ store' = [store EXCEPT ![m.peer] = @ \ names]
              /\ call' = Lost(m.peer, names)
              /\ UNCHANGED events
           \/ Failing /\ Reply(m, FALSE, {}) /\ UNCHANGED <<store, call>>
    /\ UNCHANGED <<view, plan, may, next, life>>

\* handleEvalRequest: the evaluation, labelled with the peer's own index.
HandleEvalRequest(m) ==
    /\ m.type = "question"
    /\ m.kind \in {"oprf"} \cap Routed
    /\ \/ Reply(m, TRUE, {[by |-> m.peer, point |-> m.arg]}) /\ UNCHANGED events
       \/ Failing /\ Reply(m, FALSE, {})
    /\ UNCHANGED <<view, store, plan, may, call, next, life>>

Unrouted(m) ==
    /\ m.type = "question"
    /\ m.kind \notin Routed
    /\ wire' = wire \ {m}
    /\ UNCHANGED <<view, store, plan, may, call, next, life, events>>

\* A connection breaks with an RPC on it, or its answer cannot be sent.
Lose(m) ==
    /\ "fault" \in may
    /\ events < MaxEvents
    /\ events' = events + 1
    /\ wire' = wire \ {m}
    /\ UNCHANGED <<view, store, plan, may, call, next, life>>

\* An upload reaches a node meanwhile.
Put(n, name) ==
    /\ "put" \in may
    /\ events < MaxEvents
    /\ name \notin store[n]
    /\ events' = events + 1
    /\ store' = [store EXCEPT ![n] = @ \cup {name}]
    /\ call' = Gained(name)
    /\ UNCHANGED <<view, plan, may, next, wire, life>>

-----------------------------------------------------------------------------
Returns(q) == Collected(q) \/ TimedOut(q) \/ FanOutNext(q) \/ \E p \in Peers : FanOut(q, p)

Next ==
    \/ \E q \in Callers : \/ \E arg \in Args(plan[q]) : Query(q, arg) \/ Evaluate(q, arg)
                          \/ Collected(q) \/ TimedOut(q) \/ FanOutNext(q)
                          \/ \E p \in Peers : FanOut(q, p)
    \/ \E m \in wire : \/ HandleAnswer(m) \/ HandleQuery(m) \/ HandleEvalRequest(m)
                       \/ Unrouted(m) \/ Lose(m)
    \/ \E n \in Nodes, name \in Names : Put(n, name)
    \/ Restart

\* The timers of Query, Evaluate and ReplicateVersion fire, and fanOut runs on.
Spec == Init /\ [][Next]_vars /\ \A q \in Callers : WF_vars(Returns(q))

-----------------------------------------------------------------------------
Classes == {"query", "oprf", "version"}
ArgOf(class) ==
    CASE class = "query" -> Names \cup {""} [] class = "oprf" -> Points [] OTHER -> {""}
DataOf(class) == IF class = "oprf" THEN SUBSET [by : Nodes, point : Points] ELSE SUBSET Names
KindOf(class) == {k \in Kinds : Class(k) = class}

QuestionOf(class) ==
    [type : {"question"}, peer : Peers, kind : KindOf(class), id : Nat, arg : ArgOf(class), life : Nat]
AnswerOf(class) ==
    [type : {"answer"}, peer : Peers, kind : KindOf(class), id : Nat, arg : ArgOf(class), life : Nat,
     ok : BOOLEAN, data : DataOf(class)]
CallOf(class) ==
    [pc : {"idle", "wait", "next", "done"}, arg : ArgOf(class) \cup {""}, id : Nat, want : Nat,
     chan : Seq(AnswerOf(class)), local : SUBSET Names, todo : SUBSET Peers, ok : BOOLEAN,
     data : DataOf(class), held : SUBSET Names, kept : [Nodes -> SUBSET Names]]

TypeOK ==
    /\ view \in [Peers -> [alive : BOOLEAN, conn : BOOLEAN]]
    /\ store \in [Nodes -> SUBSET Names]
    /\ plan \in [Callers -> Kinds \cup {"none"}]
    /\ call = [q \in Callers |-> call[q]]
    /\ \A q \in Callers : call[q] \in CallOf(Class(plan[q]))
    /\ next \in [Classes -> Nat]
    /\ \A m \in wire : /\ m.kind \in Kinds
                       /\ m \in QuestionOf(Class(m.kind)) \cup AnswerOf(Class(m.kind))
    /\ life \in Nat

\* Every answer a caller counts answers its own question, whatever the other
\* callers ask and however late answers come; the only foreign ones are
\* answers to a question the daemon put before it restarted
\* (scatter_gather.go handleQueryResponse, oprf_rpc.go handleEvalResponse).
AnswersMatch ==
    \A q \in Callers : \A i \in DOMAIN call[q].chan :
        LET a == call[q].chan[i]
        IN  a.life < life \/ (a.kind = plan[q] /\ a.arg = call[q].arg)

\* The loop collected as many answers as peers were alive, and only alive
\* peers could answer.
Full(q) == /\ call[q].pc = "done"
           /\ Len(call[q].chan) = call[q].want
           /\ Connected \subseteq Alive
           /\ \A i \in DOMAIN call[q].chan : call[q].chan[i].life = life

\* A global list shows only names some node held while it was made, and one
\* that was not cut short, met no error and no answer of a suspect peer shows
\* every transferable name a live node kept all the while (p2p_adapters.go
\* GlobalList over query_handler.go handleList).
ListFaithful ==
    \A q \in Callers : plan[q] = "list" /\ call[q].pc = "done" =>
        /\ (\A i \in DOMAIN call[q].chan : call[q].chan[i].life = life) => call[q].data \subseteq call[q].held
        /\ Full(q) /\ (\A i \in DOMAIN call[q].chan : call[q].chan[i].ok) =>
              \A p \in Alive : call[q].kept[p] \ LongNames \subseteq call[q].data

\* A delete that PropagateDelete reports as done, with an answer for every
\* live peer and none of a suspect one, has left no live peer a copy of the
\* name from before the call (p2p_adapters.go PropagateDelete).
DeleteFaithful ==
    \A q \in Callers : plan[q] = "delete" /\ Full(q) /\ call[q].ok =>
        \A p \in Alive : call[q].arg \notin call[q].kept[p]

\* An OPRF result is made of evaluations by at least Threshold different
\* daemons, also when answers to an earlier question of the same ID arrive
\* (oprf_service.go EvaluateOPRF).
OprfQuorum ==
    \A q \in Callers : plan[q] = "oprf" /\ call[q].ok =>
        Cardinality({e.by : e \in call[q].data}) >= Threshold

\* Every caller gets its result, whoever is down and whatever is lost: also a
\* fan-out, whose replies no peer ever sends (Query, Evaluate, fanOut).
CallsReturn == \A q \in Callers : call[q].pc \in {"wait", "next"} ~> call[q].pc \in {"done", "idle"}
=============================================================================
