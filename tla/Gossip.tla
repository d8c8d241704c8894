------------------------------- MODULE Gossip -------------------------------
(***************************************************************************)
(* Cluster membership: the gossiper (p2p/gossip.go) over the TCP transport *)
(* (p2p/tcp_transport.go) and its peer map (p2p/peer_map.go), started by   *)
(* bootstrapP2P (server/server.go).                                        *)
(*                                                                         *)
(* entry[n][m] is the Peer that node n keeps for m: its state, the time    *)
(* since lastSeen in units of the adaptive suspicion timeout (2 stands for *)
(* "more than twice"), the connection its conn field refers to, and        *)
(* whether its address is m's listening address or the ephemeral port of a *)
(* connection m dialled.  link[a][b] is the TCP connection a dialled to b; *)
(* it is "raw" until b has read its first RPC, which is when b learns who  *)
(* dialled.  A node's conn for m is the link it dialled ("out") or the one *)
(* it accepted ("in").                                                     *)
(*                                                                         *)
(* One goroutine per node consumes the RPCs (loop), so a handler that      *)
(* waits holds up every other RPC.  The channel rpcCh between the readers  *)
(* of the connections and that goroutine is folded into wire: an RPC on a  *)
(* connection that closes is lost, or it had been read and is handled      *)
(* later.                                                                  *)
(***************************************************************************)
EXTENDS Integers, FiniteSets, Functions

CONSTANTS
    Nodes,        \* the daemons of the configuration
    Starts        \* the situations behaviours start from

\* A situation: the nodes that are up and know each other (each pair over one
\* connection, dialled by the smaller), those of them that have just died for
\* good, those that start later, the nodes
\* whose heartbeatLoop and pingLoop are followed, and how many events (pings,
\* late heartbeats, connection resets, crashes) may happen.
Situation ==
    [settled : SUBSET Nodes, lost : SUBSET Nodes, joining : SUBSET Nodes, beaters : SUBSET Nodes,
     pingers : SUBSET Nodes, events : Nat]

ASSUME NodesAssumption == Nodes \subseteq Nat
ASSUME StartsAssumption == Starts \subseteq Situation

VARIABLES
    start,      \* the situation
    status,     \* "down", "listening" (transport only) or "running"
    entry,      \* the peer maps
    link,       \* the TCP connections
    wire,       \* RPCs written and not yet handled
    pinger,     \* pinger[n]: the ping that pingLoop waits for
    pending,    \* pending[n]: pendingPings, ping ID -> ackCh signalled
    loop,       \* loop[n]: what the consumer loop is doing
    dialing,    \* pairs with a connectToPeer goroutine
    events      \* how many of start.events have happened

vars == <<start, status, entry, link, wire, pinger, pending, loop, dialing, events>>

States == {"none", "alive", "suspect", "offline"}
NoPeer == [state |-> "none", age |-> 0, via |-> "no", addr |-> "listen"]
NewPeer(via, addr) == [state |-> "alive", age |-> 0, via |-> via, addr |-> addr]
Touch(p) == [p EXCEPT !.age = 0]
Idle == [pc |-> "idle", target |-> 0, id |-> <<0, 0>>]
Free == [pc |-> "free", req |-> 0, id |-> <<0, 0>>, target |-> 0]
NoPings == [i \in {} |-> FALSE]
PingIDs == Nodes \X {0, 1}

\* An RPC: over is the link it travels on; id and target belong to pings and
\* acks, known (peer -> address) to heartbeats.
RPC(type, from, to, over, id, target, known) ==
    [type |-> type, from |-> from, to |-> to, over |-> over,
     id |-> id, target |-> target, known |-> known]

\* The link that n's Peer for m refers to.
LinkOf(n, m, via) == IF via = "out" THEN <<n, m>> ELSE <<m, n>>

\* transport.Send: nothing is sent without an entry or a connection.
Sent(n, m, type, id, target, known) ==
    IF entry[n][m].via = "no" THEN {}
    ELSE {RPC(type, n, m, LinkOf(n, m, entry[n][m].via), id, target, known)}

Alive(n) == {m \in Nodes \ {n} : entry[n][m].state = "alive"}
\* What n lists in its heartbeats: its peers and their addresses.
PeerInfos(n) == [k \in {k \in Nodes : entry[n][k].state # "none"} |-> entry[n][k].addr]

-----------------------------------------------------------------------------
Init ==
    /\ start \in Starts
    /\ LET live == start.settled \ start.lost
       IN  /\ status = [n \in Nodes |-> IF n \in live THEN "running" ELSE "down"]
           /\ entry = [n \in Nodes |-> [m \in Nodes |->
                 IF n \notin live \/ m \notin start.settled \ {n} THEN NoPeer
                 ELSE NewPeer(IF m \in start.lost THEN "no" ELSE IF n < m THEN "out" ELSE "in",
                              IF n < m THEN "listen" ELSE "eph")]]
           /\ link = [n \in Nodes |-> [m \in Nodes |->
                 IF {n, m} \subseteq live /\ n < m THEN "open" ELSE "none"]]
    /\ wire = {}
    /\ pinger = [n \in Nodes |-> Idle]
    /\ pending = [n \in Nodes |-> NoPings]
    /\ loop = [n \in Nodes |-> Free]
    /\ dialing = {}
    /\ events = 0

-----------------------------------------------------------------------------
(* Start-up and the transport                                              *)

\* transport.Listen: from here on connections are accepted and read.
Listen(n) ==
    /\ n \in (start.settled \ start.lost) \cup start.joining
    /\ status[n] = "down"
    /\ status' = [status EXCEPT ![n] = "listening"]
    /\ UNCHANGED <<start, entry, link, wire, pinger, pending, loop, dialing, events>>

\* bootstrapP2P dials every configured peer that has no entry yet and is up;
\* a failed dial leaves no entry.  Then the gossiper runs.
Reached(n) ==
    {m \in Nodes \ {n} : entry[n][m].state = "none" /\ status[m] # "down"}

Bootstrap(n) ==
    /\ status[n] = "listening"
    /\ status' = [status EXCEPT ![n] = "running"]
    /\ entry' = [entry EXCEPT ![n] =
                   [m \in Nodes |-> IF m \in Reached(n)
                                    THEN NewPeer("out", "listen") ELSE @[m]]]
    /\ link' = [link EXCEPT ![n] =
                  [m \in Nodes |-> IF m \in Reached(n) THEN "raw" ELSE @[m]]]
    /\ UNCHANGED <<start, wire, pinger, pending, loop, dialing, events>>

\* handleConn reads the first RPC on an accepted connection and registers
\* its sender, replacing the Peer known until then.
Accept(r) ==
    /\ r \in wire
    /\ r.over = <<r.from, r.to>>
    /\ link[r.from][r.to] = "raw"
    /\ entry' = [entry EXCEPT ![r.to][r.from] = NewPeer("in", "eph")]
    /\ link' = [link EXCEPT ![r.from][r.to] = "open"]
    /\ UNCHANGED <<start, status, wire, pinger, pending, loop, dialing, events>>

\* A later RPC touches the Peer of the accepted connection; readLoop, for a
\* dialled connection, touches the current Peer whatever its connection.
Seen(r, p) == IF r.over[1] = r.to \/ p.via = "in" THEN Touch(p) ELSE p

\* The Peer stays, its connection is detached, when the closed connection is
\* the one it uses (cleanupConn).
CleanedAlways(p, via) == [p EXCEPT !.via = "no"]
CleanedNever(p, via) == p
Cleaned(p, via) == IF p.via = via THEN [p EXCEPT !.via = "no"] ELSE p

Closed(a, b) ==
    /\ link' = [link EXCEPT ![a][b] = "none"]
    /\ entry' = [entry EXCEPT ![a][b] = Cleaned(@, "out"),
                              ![b][a] = IF link[a][b] = "open" THEN Cleaned(@, "in") ELSE @]
    /\ \E read \in SUBSET {r \in wire : r.over = <<a, b>> /\ link[a][b] = "open"} :
          wire' = {r \in wire : r.over # <<a, b>>} \cup read

\* The network resets a connection.
Break(a, b) ==
    /\ events < start.events
    /\ link[a][b] # "none"
    /\ Closed(a, b)
    /\ events' = events + 1
    /\ UNCHANGED <<start, status, pinger, pending, loop, dialing>>

\* The reader r of a link closes it at its read deadline, 30 seconds without
\* an RPC: the other end sends over another connection, or neither end
\* believes the other alive, so neither sends.
Quiet(s, r, l) ==
    /\ entry[s][r].state # "none"
    /\ \/ /\ entry[s][r].state = "alive"
          /\ entry[s][r].via # "no"
          /\ LinkOf(s, r, entry[s][r].via) # l
       \/ /\ entry[s][r].state \in {"suspect", "offline"}
          /\ entry[r][s].state \in {"suspect", "offline"}

\* a has dialled b and is about to send the first RPC.
Opening(a, b) ==
    /\ link[a][b] = "raw"
    /\ entry[a][b].via = "out"
    /\ entry[a][b].state = "alive"

ReadDeadline(a, b) ==
    /\ link[a][b] # "none"
    /\ ~Opening(a, b) /\ ~Opening(b, a)
    /\ \A r \in wire : r.over # <<a, b>>
    /\ Quiet(a, b, <<a, b>>) \/ Quiet(b, a, <<a, b>>)
    /\ Closed(a, b)
    /\ UNCHANGED <<start, status, pinger, pending, loop, dialing, events>>

\* A crash loses the process state of n and closes its connections; the RPCs
\* of n that others have read stay with them.
Crash(n) ==
    /\ events < start.events
    /\ status[n] = "running"
    /\ status' = [status EXCEPT ![n] = "down"]
    /\ entry' = [m \in Nodes |-> IF m = n THEN [k \in Nodes |-> NoPeer]
                                 ELSE [entry[m] EXCEPT ![n].via = "no"]]
    /\ link' = [a \in Nodes |-> [b \in Nodes |->
                  IF n \in {a, b} THEN "none" ELSE link[a][b]]]
    /\ \E read \in SUBSET {r \in wire : r.from = n /\ link[r.over[1]][r.over[2]] = "open"} :
          wire' = {r \in wire : n \notin {r.from, r.to}} \cup read
    /\ pinger' = [pinger EXCEPT ![n] = Idle]
    /\ pending' = [pending EXCEPT ![n] = NoPings]
    /\ loop' = [loop EXCEPT ![n] = Free]
    /\ dialing' = {d \in dialing : d[1] # n}
    /\ events' = events + 1
    /\ UNCHANGED start

\* The connectToPeer goroutine: Connect dials the address the Peer was
\* discovered with; an ephemeral one is refused.  The connection is set on
\* the Peer that was discovered, which an accepted connection may have
\* replaced meanwhile.
Connect(n, m) ==
    /\ <<n, m>> \in dialing
    /\ dialing' = dialing \ {<<n, m>>}
    /\ IF entry[n][m].addr = "listen" /\ entry[n][m].via = "no" /\ status[m] # "down"
       THEN /\ entry' = [entry EXCEPT ![n][m].via = "out"]
            /\ link' = [link EXCEPT ![n][m] = "raw"]
       ELSE UNCHANGED <<entry, link>>
    /\ UNCHANGED <<start, status, wire, pinger, pending, loop, events>>

-----------------------------------------------------------------------------
(* The gossiper's loops                                                    *)

\* sendHeartbeat to one of the peers RandomPeers picked, which are alive
\* ones; the load report travels with it.  One heartbeat per direction is in
\* flight at a time: a second one adds nothing to the first.
Heartbeat(n, m) ==
    /\ n \in start.beaters
    /\ status[n] = "running"
    /\ m \in Alive(n)
    /\ \A r \in wire : ~(r.type = "heartbeat" /\ r.from = n /\ r.to = m)
    /\ wire' = wire \cup Sent(n, m, "heartbeat", <<0, 0>>, 0, PeerInfos(n))
    /\ UNCHANGED <<start, status, entry, link, pinger, pending, loop, dialing, events>>

AddPending(ps, i) == [j \in DOMAIN ps \cup {i} |-> IF j = i THEN FALSE ELSE ps[j]]

\* sendPing to a random alive peer, under an ID no RPC or waiter still uses.
InUse(i) ==
    \/ \E r \in wire : r.id = i
    \/ \E n \in Nodes : i \in DOMAIN pending[n]

SendPing(n, m) ==
    /\ n \in start.pingers
    /\ status[n] = "running"
    /\ pinger[n].pc = "idle"
    /\ events < start.events
    /\ m \in Alive(n)
    /\ events' = events + 1
    /\ \E k \in {0, 1} :
          /\ ~InUse(<<n, k>>)
          /\ wire' = wire \cup Sent(n, m, "ping", <<n, k>>, m, NoPings)
          /\ IF entry[n][m].via = "no"
             THEN UNCHANGED <<pinger, pending>>
             ELSE /\ pinger' = [pinger EXCEPT ![n] =
                                  [pc |-> "direct", target |-> m, id |-> <<n, k>>]]
                  /\ pending' = [pending EXCEPT ![n] = AddPending(@, <<n, k>>)]
    /\ UNCHANGED <<start, status, entry, link, loop, dialing>>

KeepPending(ps, i) == ps
RemovePending(ps, i) == Restrict(ps, DOMAIN ps \ {i})

EndPing(n) ==
    /\ pinger' = [pinger EXCEPT ![n] = Idle]
    /\ pending' = [pending EXCEPT ![n] = RemovePending(@, pinger[n].id)]

MarkSuspect(p) == IF p.state = "alive" THEN [p EXCEPT !.state = "suspect"] ELSE p

\* The ack arrived within either wait.
PingAcked(n) ==
    /\ pinger[n].pc # "idle"
    /\ pending[n][pinger[n].id]
    /\ EndPing(n)
    /\ UNCHANGED <<start, status, entry, link, wire, loop, dialing, events>>

\* PingTimeout passed: the alive peers other than the target are asked to
\* ping it; with no helper reached the target becomes suspect at once.
PingTimeout(n) ==
    /\ pinger[n].pc = "direct"
    /\ LET target == pinger[n].target
           asked  == UNION {Sent(n, h, "indirect", pinger[n].id, target, NoPings) :
                              h \in Alive(n) \ {target}}
       IN  /\ wire' = wire \cup asked
           /\ IF asked = {}
              THEN /\ entry' = [entry EXCEPT ![n][target] = MarkSuspect(@)]
                   /\ EndPing(n)
              ELSE /\ pinger' = [pinger EXCEPT ![n].pc = "indirect"]
                   /\ UNCHANGED <<entry, pending>>
    /\ UNCHANGED <<start, status, link, loop, dialing, events>>

IndirectTimeout(n) ==
    /\ pinger[n].pc = "indirect"
    /\ entry' = [entry EXCEPT ![n][pinger[n].target] = MarkSuspect(@)]
    /\ EndPing(n)
    /\ UNCHANGED <<start, status, link, wire, loop, dialing, events>>

\* m is sending n heartbeats (on time, when they are not followed).
Sending(m, n) == status[m] = "running" /\ n \in Alive(m) /\ entry[m][n].via # "no"

\* m sends n nothing for longer than the suspicion timeout, which spans
\* several heartbeat intervals: m is not just starting, and no heartbeat of n
\* reaches an m that could answer.
Silent(m, n) ==
    \/ status[m] = "down"
    \/ /\ status[m] = "running"
       /\ entry[m][n].state = "none" => link[n][m] = "none" /\ link[m][n] = "none"
       /\ ~Sending(m, n)
       /\ Sending(n, m) => entry[m][n].via = "no"

\* lastSeen recedes while the peer sends n nothing.
Silence(n, m) ==
    /\ status[n] = "running"
    /\ entry[n][m].state # "none"
    /\ entry[n][m].age < 2
    /\ Silent(m, n)
    /\ entry' = [entry EXCEPT ![n][m].age = @ + 1]
    /\ UNCHANGED <<start, status, link, wire, pinger, pending, loop, dialing, events>>

\* A slow network or a paused process: the peer is sending, and late.
Lapse(n, m) ==
    /\ status[n] = "running"
    /\ entry[n][m].state # "none"
    /\ entry[n][m].age < 2
    /\ Sending(m, n)
    /\ events < start.events
    /\ events' = events + 1
    /\ entry' = [entry EXCEPT ![n][m].age = @ + 1]
    /\ UNCHANGED <<start, status, link, wire, pinger, pending, loop, dialing>>

\* checkSuspicion for one peer.
CheckSuspicion(n, m) ==
    /\ status[n] = "running"
    /\ LET p == entry[n][m]
       IN  \/ p.state = "alive" /\ p.age >= 1
              /\ entry' = [entry EXCEPT ![n][m].state = "suspect"]
           \/ p.state = "suspect" /\ p.age >= 2
              /\ entry' = [entry EXCEPT ![n][m].state = "offline"]
    /\ UNCHANGED <<start, status, link, wire, pinger, pending, loop, dialing, events>>

-----------------------------------------------------------------------------
(* The consumer loop: one RPC at a time                                    *)

\* The handlers of heartbeats, pings and acks touch the sender and restore it.
RestoredAll(es, r) ==
    [m \in Nodes |-> IF es[m].state # "none" /\ m \in DOMAIN r.known \cup {r.from}
                     THEN [es[m] EXCEPT !.age = 0, !.state = "alive"] ELSE es[m]]
TouchedOnly(es, r) == [es EXCEPT ![r.from] = Touch(@)]
Restored(es, r) ==
    IF es[r.from].state = "none" THEN es
    ELSE [es EXCEPT ![r.from] = [@ EXCEPT !.age = 0, !.state = "alive"]]

\* handleHeartbeat adds the listed peers it does not know, starts a dial for
\* each, and restores the sender.
HandleHeartbeat(n, r, es) ==
    LET new == {m \in DOMAIN r.known \ {n} : es[m].state = "none"}
        all == [m \in Nodes |-> IF m \in new THEN NewPeer("no", r.known[m]) ELSE es[m]]
    IN  /\ entry' = [entry EXCEPT ![n] = Restored(all, r)]
        /\ dialing' = dialing \cup ({n} \X new)
        /\ wire' = wire \ {r}
        /\ UNCHANGED <<pending, loop>>

\* handlePing answers, whatever the target field says.
HandlePing(n, r, es) ==
    /\ wire' = (wire \ {r}) \cup Sent(n, r.from, "ack", r.id, n, NoPings)
    /\ entry' = [entry EXCEPT ![n] = Restored(es, r)]
    /\ UNCHANGED <<pending, loop, dialing>>

\* handleAck: an ack nobody waits for is dropped; another one signals the
\* waiter and restores the sender.
HandleAck(n, r, es) ==
    /\ IF r.id \in DOMAIN pending[n]
       THEN /\ pending' = [pending EXCEPT ![n][r.id] = TRUE]
            /\ entry' = [entry EXCEPT ![n] = Restored(es, r)]
       ELSE /\ entry' = [entry EXCEPT ![n] = es]
            /\ UNCHANGED pending
    /\ wire' = wire \ {r}
    /\ UNCHANGED <<loop, dialing>>

\* handleIndirectPing pings the target for the requester and then waits for
\* the ack inside the consumer loop.
HandleIndirectPing(n, r, es) ==
    /\ wire' = (wire \ {r}) \cup Sent(n, r.target, "ping", r.id, r.target, NoPings)
    /\ IF entry[n][r.target].via = "no"
       THEN UNCHANGED <<pending, loop>>
       ELSE /\ pending' = [pending EXCEPT ![n] = AddPending(@, r.id)]
            /\ loop' = [loop EXCEPT ![n] =
                          [pc |-> "helping", req |-> r.from, id |-> r.id, target |-> r.target]]
    /\ entry' = [entry EXCEPT ![n] = es]
    /\ UNCHANGED dialing

\* The connection's reader has touched the sender, then HandleRPC routes.
HandleRPC(r) ==
    /\ r \in wire
    /\ status[r.to] = "running"
    /\ loop[r.to].pc = "free"
    /\ r.over = <<r.from, r.to>> => link[r.from][r.to] # "raw"
    /\ LET es == [entry[r.to] EXCEPT ![r.from] = Seen(r, @)]
       IN  \/ r.type = "heartbeat" /\ HandleHeartbeat(r.to, r, es)
           \/ r.type = "ping" /\ HandlePing(r.to, r, es)
           \/ r.type = "ack" /\ HandleAck(r.to, r, es)
           \/ r.type = "indirect" /\ HandleIndirectPing(r.to, r, es)
    /\ UNCHANGED <<start, status, link, pinger, events>>

\* The helper's wait ends: with the ack it is forwarded to the requester,
\* with PingTimeout it is not.
HelpDone(n) ==
    /\ loop[n].pc = "helping"
    /\ wire' = wire \cup (IF pending[n][loop[n].id]
                          THEN Sent(n, loop[n].req, "ack", loop[n].id, loop[n].target, NoPings)
                          ELSE {})
    /\ pending' = [pending EXCEPT ![n] = RemovePending(@, loop[n].id)]
    /\ loop' = [loop EXCEPT ![n] = Free]
    /\ UNCHANGED <<start, status, entry, link, pinger, dialing, events>>

-----------------------------------------------------------------------------
Pairs == {p \in Nodes \X Nodes : p[1] # p[2]}

\* The steps that bring what n is waiting for to an end.
Waits(n) ==
    Bootstrap(n) \/ PingAcked(n) \/ PingTimeout(n) \/ IndirectTimeout(n) \/ HelpDone(n)

Receive(n, m) == \E r \in wire : r.to = n /\ r.from = m /\ (Accept(r) \/ HandleRPC(r))

Next ==
    \/ \E n \in Nodes : Listen(n) \/ Crash(n) \/ Waits(n)
    \/ \E p \in Pairs : \/ Break(p[1], p[2]) \/ ReadDeadline(p[1], p[2])
                        \/ Connect(p[1], p[2])
                        \/ Heartbeat(p[1], p[2]) \/ SendPing(p[1], p[2])
                        \/ Silence(p[1], p[2]) \/ Lapse(p[1], p[2])
                        \/ CheckSuspicion(p[1], p[2])
                        \/ Receive(p[1], p[2])

\* Every loop is a goroutine of its own on a ticker, the runtime schedules
\* each, and the shuffle of RandomPeers picks every alive peer again and
\* again.  Timeouts and read deadlines expire.  Nothing obliges a process to
\* start, to crash or to ping.
Fairness ==
    /\ \A n \in Nodes : WF_vars(Waits(n))
    /\ \A p \in Pairs : /\ WF_vars(Heartbeat(p[1], p[2]))
                        /\ WF_vars(Receive(p[1], p[2]))
                        /\ WF_vars(Connect(p[1], p[2]) \/ ReadDeadline(p[1], p[2]))
                        /\ WF_vars(CheckSuspicion(p[1], p[2]) \/ Silence(p[1], p[2]))

Spec == Init /\ [][Next]_vars /\ Fairness
-----------------------------------------------------------------------------
(* Properties                                                              *)

\* A Peer, and the zero value for a node without one.
PeerType == [state : States, age : 0 .. 2, via : {"no", "out", "in"}, addr : {"listen", "eph"}]

\* The messages; the IDs and targets are those of pings.
MessageType ==
    [type : {"heartbeat"}, from : Nodes, to : Nodes, over : Nodes \X Nodes, id : {<<0, 0>>},
     target : {0}, known : UNION {[S -> {"listen", "eph"}] : S \in SUBSET Nodes}]
    \cup
    [type : {"ping", "ack", "indirect"}, from : Nodes, to : Nodes, over : Nodes \X Nodes,
     id : PingIDs, target : Nodes, known : {NoPings}]

TypeOK ==
    /\ start \in Situation
    /\ status \in [Nodes -> {"down", "listening", "running"}]
    /\ entry \in [Nodes -> [Nodes -> PeerType]]
    /\ link \in [Nodes -> [Nodes -> {"none", "raw", "open"}]]
    /\ wire \in SUBSET MessageType
    /\ pinger \in [Nodes -> {Idle} \cup [pc : {"direct", "indirect"}, target : Nodes, id : PingIDs]]
    /\ pending \in [Nodes -> UNION {[D -> BOOLEAN] : D \in SUBSET PingIDs}]
    /\ loop \in [Nodes -> {Free} \cup [pc : {"helping"}, req : Nodes, id : PingIDs, target : Nodes]]
    /\ dialing \subseteq Pairs
    /\ events \in 0 .. start.events

\* No Peer refers to a connection that is closed, whichever end closed it and
\* however often dials crossed: cleanupConn detaches a dead connection, so
\* Send and Broadcast never write to one.
ConnUsable ==
    \A n, m \in Nodes :
        /\ entry[n][m].via = "out" => link[n][m] # "none"
        /\ entry[n][m].via = "in" => link[m][n] = "open"

\* pendingPings holds an entry only for a ping that pingLoop or a helping
\* consumer loop is waiting for: whatever order acks, timeouts, suspicions
\* and connection losses come in, nothing is left behind.
NoPendingLeak ==
    \A n \in Nodes : \A i \in DOMAIN pending[n] :
        \/ pinger[n].pc # "idle" /\ pinger[n].id = i
        \/ loop[n].pc = "helping" /\ loop[n].id = i

\* Closing one of two crossing connections never detaches a Peer from the
\* other: an end that uses a connection loses it only when that connection
\* closes (the comparison in cleanupConn) or its process dies.
LiveConnKept ==
    [][\A n, m \in Nodes :
          entry[n][m].via = "in" /\ entry'[n][m].via = "no" =>
             link'[m][n] = "none"]_vars

\* A process that died for good ends up offline, or never known, at every
\* node that keeps running: gossip about it from third parties does not keep
\* it alive (handleHeartbeat touches the sender, not the peers it lists).
DeadGoOffline ==
    \A p \in Pairs :
        <>[](status[p[2]] = "down" /\ status[p[1]] = "running") =>
        <>[](entry[p[1]][p[2]].state \in {"none", "offline"})

\* A one-sided suspicion heals: when n holds m suspect or offline while m
\* holds n alive over a connection, the next heartbeat of m restores it,
\* unless m changes its mind about n, dies or loses the connection first.
OneSided(n, m) ==
    /\ status[n] = "running" /\ entry[n][m].state \in {"suspect", "offline"}
    /\ m \in start.beaters /\ Sending(m, n)

SuspicionHeals ==
    \A p \in Pairs :
        OneSided(p[1], p[2]) ~> ~OneSided(p[1], p[2])
=============================================================================
