---------------------------- MODULE GossipProofs ----------------------------
(* Proofs about Gossip: the connections that peers refer to and the pings  *)
(* that nobody waits for, for any set of daemons and any situations to     *)
(* start from.                                                             *)
EXTENDS Gossip, TLAPS

(* Only a running gossiper dials, and only a Peer that it knows; a node    *)
(* that is not running has dialled no connection.                          *)
DialsRun ==
    /\ \A n, m \in Nodes :
          <<n, m>> \in dialing => status[n] = "running" /\ entry[n][m].state # "none"
    /\ \A n, m \in Nodes : status[n] # "running" => link[n][m] = "none"

(* What keeps connectToPeer from replacing a connection that the other end *)
(* uses: a Peer with a listening address and no connection has none that   *)
(* it dialled before, and an accepted connection brings an ephemeral one.  *)
Dialable ==
    \A n, m \in Nodes :
        /\ entry[n][m].state = "none" => entry[n][m].via = "no" /\ entry[n][m].addr = "listen"
        /\ entry[n][m].via = "in" => entry[n][m].addr = "eph"
        /\ entry[n][m].via = "no" /\ entry[n][m].addr = "listen" => link[n][m] = "none"

IInv ==
    /\ TypeOK
    /\ DialsRun
    /\ Dialable
    /\ ConnUsable
    /\ NoPendingLeak

Conns == DialsRun /\ Dialable /\ ConnUsable

(* The step of LiveConnKept.                                               *)
LiveStep ==
    \A n, m \in Nodes :
        entry[n][m].via = "in" /\ entry'[n][m].via = "no" => link'[m][n] = "none"

----------------------------------------------------------------------------
(* The connections.                                                        *)

(* A step that changes at most states and ages keeps the connections.      *)
LEMMA SameConns ==
  ASSUME Conns, UNCHANGED <<status, link, dialing>>,
         \A n, m \in Nodes : /\ entry'[n][m].via = entry[n][m].via
                             /\ entry'[n][m].addr = entry[n][m].addr
                             /\ entry'[n][m].state = "none" => entry[n][m].state = "none"
  PROVE  Conns' /\ LiveStep
BY DEF Conns, DialsRun, Dialable, ConnUsable, LiveStep

(* One Peer is replaced by another state or age of the same.               *)
LEMMA OnePeer ==
  ASSUME Conns, TypeOK, NEW n, NEW m, NEW p,
         UNCHANGED <<status, link, dialing>>,
         entry' = [entry EXCEPT ![n][m] = p],
         p.via = entry[n][m].via, p.addr = entry[n][m].addr,
         p.state = "none" => entry[n][m].state = "none"
  PROVE  Conns' /\ LiveStep
<1>1. entry \in [Nodes -> [Nodes -> PeerType]]
  BY DEF TypeOK
<1>2. \A a, b \in Nodes : entry'[a][b] = IF a = n /\ b = m THEN p ELSE entry[a][b]
  BY <1>1
<1> QED BY <1>2, SameConns

LEMMA ListenConns ==
  ASSUME Conns, TypeOK, NEW n \in Nodes, Listen(n)
  PROVE  Conns' /\ LiveStep
<1>1. /\ status[n] = "down" /\ UNCHANGED <<entry, link, dialing>>
      /\ status' = [status EXCEPT ![n] = "listening"]
  BY DEF Listen
<1>2. \A m \in Nodes : m # n => status'[m] = status[m]
  BY <1>1 DEF TypeOK
<1>3. DialsRun'
  BY <1>1, <1>2 DEF Conns, DialsRun
<1> QED BY <1>1, <1>3 DEF Conns, Dialable, ConnUsable, LiveStep

(* The dials of start-up: a node that is only listening has dialled nobody *)
(* before, so nobody uses a connection that is replaced.                   *)
LEMMA BootstrapConns ==
  ASSUME Conns, TypeOK, NEW n \in Nodes, Bootstrap(n)
  PROVE  Conns' /\ LiveStep
<1>1. /\ entry \in [Nodes -> [Nodes -> PeerType]]
      /\ link \in [Nodes -> [Nodes -> {"none", "raw", "open"}]]
      /\ status \in [Nodes -> {"down", "listening", "running"}]
  BY DEF TypeOK
<1>2. /\ status[n] = "listening" /\ UNCHANGED dialing
      /\ status' = [status EXCEPT ![n] = "running"]
  BY DEF Bootstrap
<1>3. \A a, b \in Nodes :
        /\ entry'[a][b] = IF a = n /\ b \in Reached(n) THEN NewPeer("out", "listen")
                          ELSE entry[a][b]
        /\ link'[a][b] = IF a = n /\ b \in Reached(n) THEN "raw" ELSE link[a][b]
  BY <1>1 DEF Bootstrap
<1>4. \A m \in Nodes : link[n][m] = "none"
  BY <1>2 DEF Conns, DialsRun
<1>5. \A m \in Nodes : entry[m][n].via # "in"
  BY <1>4 DEF Conns, ConnUsable
<1>6. /\ NewPeer("out", "listen").via = "out"
      /\ NewPeer("out", "listen").state = "alive"
  BY DEF NewPeer
<1>7. DialsRun'
  BY <1>1, <1>2, <1>3, <1>6 DEF Conns, DialsRun
<1>8. Dialable'
  BY <1>3, <1>6 DEF Conns, Dialable
<1>9. ConnUsable'
  BY <1>3, <1>5, <1>6 DEF Conns, ConnUsable
<1>10. LiveStep
  BY <1>3, <1>6 DEF LiveStep
<1> QED BY <1>7, <1>8, <1>9, <1>10 DEF Conns

LEMMA AcceptConns ==
  ASSUME Conns, TypeOK, NEW r \in wire, Accept(r)
  PROVE  Conns' /\ LiveStep
<1> DEFINE a == r.from
           b == r.to
<1>1. /\ entry \in [Nodes -> [Nodes -> PeerType]]
      /\ link \in [Nodes -> [Nodes -> {"none", "raw", "open"}]]
  BY DEF TypeOK
<1>2. a \in Nodes /\ b \in Nodes
  BY DEF TypeOK, MessageType
<1>3. /\ link[a][b] = "raw" /\ UNCHANGED <<status, dialing>>
      /\ entry' = [entry EXCEPT ![b][a] = NewPeer("in", "eph")]
      /\ link' = [link EXCEPT ![a][b] = "open"]
  BY DEF Accept
<1> HIDE DEF a, b
<1>4. \A n, m \in Nodes :
        /\ entry'[n][m] = IF n = b /\ m = a THEN NewPeer("in", "eph") ELSE entry[n][m]
        /\ link'[n][m] = IF n = a /\ m = b THEN "open" ELSE link[n][m]
  BY <1>1, <1>2, <1>3
<1>5. /\ NewPeer("in", "eph").via = "in" /\ NewPeer("in", "eph").addr = "eph"
      /\ NewPeer("in", "eph").state = "alive"
  BY DEF NewPeer
<1>6. DialsRun'
  BY <1>2, <1>3, <1>4, <1>5 DEF Conns, DialsRun
<1>7. Dialable'
  BY <1>2, <1>3, <1>4, <1>5 DEF Conns, Dialable
<1>8. ConnUsable'
  BY <1>2, <1>3, <1>4, <1>5 DEF Conns, ConnUsable
<1>9. LiveStep
  BY <1>4, <1>5 DEF LiveStep
<1> QED BY <1>6, <1>7, <1>8, <1>9 DEF Conns

(* cleanupConn at both ends of a link.                                     *)
LEMMA ClosedConns ==
  ASSUME Conns, TypeOK, NEW a \in Nodes, NEW b \in Nodes, a # b, Closed(a, b),
         UNCHANGED <<status, dialing>>
  PROVE  Conns' /\ LiveStep
<1>1. /\ entry \in [Nodes -> [Nodes -> PeerType]]
      /\ link \in [Nodes -> [Nodes -> {"none", "raw", "open"}]]
  BY DEF TypeOK
<1> DEFINE pa == Cleaned(entry[a][b], "out")
           pb == IF link[a][b] = "open" THEN Cleaned(entry[b][a], "in") ELSE entry[b][a]
<1>2. \A n, m \in Nodes :
        /\ entry'[n][m] = IF n = a /\ m = b THEN pa
                          ELSE IF n = b /\ m = a THEN pb ELSE entry[n][m]
        /\ link'[n][m] = IF n = a /\ m = b THEN "none" ELSE link[n][m]
  BY <1>1 DEF Closed
<1>3. \A p \in PeerType, via \in {"in", "out"} :
        /\ Cleaned(p, via).via = IF p.via = via THEN "no" ELSE p.via
        /\ Cleaned(p, via).addr = p.addr
        /\ Cleaned(p, via).state = p.state
  BY DEF Cleaned, PeerType
<1>4. /\ pa.via = IF entry[a][b].via = "out" THEN "no" ELSE entry[a][b].via
      /\ pa.addr = entry[a][b].addr /\ pa.state = entry[a][b].state
  BY <1>1, <1>3
<1>5. /\ pb.via = IF link[a][b] = "open" /\ entry[b][a].via = "in" THEN "no"
                  ELSE entry[b][a].via
      /\ pb.addr = entry[b][a].addr /\ pb.state = entry[b][a].state
  BY <1>1, <1>3
<1> HIDE DEF pa, pb
<1>6. DialsRun'
  BY <1>2, <1>4, <1>5 DEF Conns, DialsRun
<1>7. Dialable'
  <2>1. SUFFICES ASSUME NEW n \in Nodes, NEW m \in Nodes
                 PROVE  /\ entry'[n][m].state = "none" =>
                             entry'[n][m].via = "no" /\ entry'[n][m].addr = "listen"
                        /\ entry'[n][m].via = "in" => entry'[n][m].addr = "eph"
                        /\ entry'[n][m].via = "no" /\ entry'[n][m].addr = "listen"
                             => link'[n][m] = "none"
    BY DEF Dialable
  <2>2. CASE n = a /\ m = b
    BY <1>2, <1>4, <2>2 DEF Conns, Dialable
  <2>3. CASE n = b /\ m = a
    BY <1>2, <1>5, <2>3 DEF Conns, Dialable
  <2>4. CASE ~(n = a /\ m = b) /\ ~(n = b /\ m = a)
    BY <1>2, <2>4 DEF Conns, Dialable
  <2> QED BY <2>2, <2>3, <2>4
<1>8. ConnUsable'
  BY <1>2, <1>4, <1>5 DEF Conns, ConnUsable
<1>9. LiveStep
  BY <1>2, <1>4, <1>5 DEF LiveStep
<1> QED BY <1>6, <1>7, <1>8, <1>9 DEF Conns

LEMMA CrashConns ==
  ASSUME Conns, TypeOK, NEW n \in Nodes, Crash(n)
  PROVE  Conns' /\ LiveStep
<1>1. /\ entry \in [Nodes -> [Nodes -> PeerType]]
      /\ link \in [Nodes -> [Nodes -> {"none", "raw", "open"}]]
      /\ status \in [Nodes -> {"down", "listening", "running"}]
      /\ dialing \subseteq Pairs
  BY DEF TypeOK
<1> DEFINE off(p) == [p EXCEPT !.via = "no"]
<1>2. \A a, b \in Nodes :
        /\ entry'[a][b] = IF a = n THEN NoPeer
                          ELSE IF b = n THEN off(entry[a][b]) ELSE entry[a][b]
        /\ link'[a][b] = IF n = a \/ n = b THEN "none" ELSE link[a][b]
  BY <1>1, Zenon DEF Crash
<1>3. \A p \in PeerType : off(p).via = "no" /\ off(p).addr = p.addr /\ off(p).state = p.state
  BY DEF PeerType
<1> HIDE DEF off
<1>4. \A a, b \in Nodes : a # n /\ b = n => /\ entry'[a][b].via = "no"
                                            /\ entry'[a][b].addr = entry[a][b].addr
                                            /\ entry'[a][b].state = entry[a][b].state
  BY <1>1, <1>2, <1>3
<1>5. NoPeer.via = "no" /\ NoPeer.addr = "listen" /\ NoPeer.state = "none"
  BY DEF NoPeer
<1>6. DialsRun'
  <2>1. \A m \in Nodes : m # n => status'[m] = status[m]
    BY <1>1 DEF Crash
  <2>2. \A a, b \in Nodes : <<a, b>> \in dialing' => <<a, b>> \in dialing /\ a # n
    BY DEF Crash
  <2> QED BY <1>2, <1>4, <2>1, <2>2 DEF Conns, DialsRun
<1>7. Dialable'
  BY <1>2, <1>4, <1>5 DEF Conns, Dialable
<1>8. ConnUsable'
  BY <1>2, <1>4, <1>5 DEF Conns, ConnUsable
<1>9. LiveStep
  BY <1>2 DEF LiveStep
<1> QED BY <1>6, <1>7, <1>8, <1>9 DEF Conns

(* connectToPeer: a Peer with a listening address and no connection has    *)
(* none that the other end could be using.                                 *)
LEMMA ConnectConns ==
  ASSUME Conns, TypeOK, NEW n \in Nodes, NEW m \in Nodes, Connect(n, m)
  PROVE  Conns' /\ LiveStep
<1>1. /\ entry \in [Nodes -> [Nodes -> PeerType]]
      /\ link \in [Nodes -> [Nodes -> {"none", "raw", "open"}]]
  BY DEF TypeOK
<1>2. /\ <<n, m>> \in dialing /\ dialing' = dialing \ {<<n, m>>} /\ UNCHANGED status
  BY DEF Connect
<1>3. status[n] = "running" /\ entry[n][m].state # "none"
  BY <1>2 DEF Conns, DialsRun
<1>4. CASE entry[n][m].addr = "listen" /\ entry[n][m].via = "no" /\ status[m] # "down"
  <2> DEFINE p == [entry[n][m] EXCEPT !.via = "out"]
  <2>1. p.via = "out" /\ p.addr = "listen" /\ p.state = entry[n][m].state
    BY <1>1, <1>4 DEF PeerType
  <2> HIDE DEF p
  <2>2. \A a, b \in Nodes :
          /\ entry'[a][b] = IF a = n /\ b = m THEN p ELSE entry[a][b]
          /\ link'[a][b] = IF a = n /\ b = m THEN "raw" ELSE link[a][b]
    BY <1>1, <1>4 DEF Connect, p
  <2>3. link[n][m] = "none"
    BY <1>4 DEF Conns, Dialable
  <2>4. entry[m][n].via # "in"
    BY <2>3 DEF Conns, ConnUsable
  <2> QED BY <1>2, <1>3, <2>1, <2>2, <2>3, <2>4
          DEF Conns, DialsRun, Dialable, ConnUsable, LiveStep
<1>5. CASE ~(entry[n][m].addr = "listen" /\ entry[n][m].via = "no" /\ status[m] # "down")
  BY <1>2, <1>5 DEF Connect, Conns, DialsRun, Dialable, ConnUsable, LiveStep
<1> QED BY <1>4, <1>5

(* Touching and restoring a sender change neither connection nor address.  *)
LEMMA RestoredPeers ==
  ASSUME NEW es \in [Nodes -> PeerType], NEW r, r.from \in Nodes
  PROVE  /\ [es EXCEPT ![r.from] = Seen(r, @)] \in [Nodes -> PeerType]
         /\ Restored(es, r) \in [Nodes -> PeerType]
         /\ \A m \in Nodes :
              /\ [es EXCEPT ![r.from] = Seen(r, @)][m].via = es[m].via
              /\ [es EXCEPT ![r.from] = Seen(r, @)][m].addr = es[m].addr
              /\ [es EXCEPT ![r.from] = Seen(r, @)][m].state = es[m].state
              /\ Restored(es, r)[m].via = es[m].via
              /\ Restored(es, r)[m].addr = es[m].addr
              /\ (Restored(es, r)[m].state = "none" <=> es[m].state = "none")
<1>1. es[r.from] \in PeerType
  OBVIOUS
<1>2. /\ Seen(r, es[r.from]) \in PeerType
      /\ Seen(r, es[r.from]).via = es[r.from].via
      /\ Seen(r, es[r.from]).addr = es[r.from].addr
      /\ Seen(r, es[r.from]).state = es[r.from].state
  BY <1>1 DEF Seen, Touch, PeerType
<1> DEFINE q == [es[r.from] EXCEPT !.age = 0, !.state = "alive"]
<1>3. /\ q \in PeerType /\ q.via = es[r.from].via /\ q.addr = es[r.from].addr
      /\ q.state = "alive"
  <2>1. \A p \in PeerType : Touch(p) \in PeerType
    BY DEF Touch, PeerType
  <2>2. \A p \in PeerType : [p EXCEPT !.state = "alive"] \in PeerType
    BY DEF PeerType, States
  <2>3. q = [Touch(es[r.from]) EXCEPT !.state = "alive"]
    BY <1>1 DEF Touch, PeerType
  <2>4. q \in PeerType
    BY <1>1, <2>1, <2>2, <2>3
  <2>5. q.via = es[r.from].via /\ q.addr = es[r.from].addr /\ q.state = "alive"
    BY <1>1 DEF PeerType
  <2> QED BY <2>4, <2>5
<1>4. Restored(es, r) = IF es[r.from].state = "none" THEN es ELSE [es EXCEPT ![r.from] = q]
  BY DEF Restored
<1> HIDE DEF q
<1>5. \A m \in Nodes : [es EXCEPT ![r.from] = Seen(r, @)][m] =
                       IF m = r.from THEN Seen(r, es[r.from]) ELSE es[m]
  OBVIOUS
<1>6. \A m \in Nodes : Restored(es, r)[m] =
                       IF m = r.from /\ es[r.from].state # "none" THEN q ELSE es[m]
  BY <1>4
<1>7. Restored(es, r) \in [Nodes -> PeerType]
  BY <1>3, <1>4
<1>8. [es EXCEPT ![r.from] = Seen(r, @)] \in [Nodes -> PeerType]
  BY <1>2
<1> QED BY <1>2, <1>3, <1>5, <1>6, <1>7, <1>8

(* The consumer loop: only a heartbeat changes which Peers there are; those*)
(* it adds have no connection.                                             *)
LEMMA HandleRPCConns ==
  ASSUME Conns, TypeOK, NEW r \in wire, HandleRPC(r)
  PROVE  Conns' /\ LiveStep
<1> DEFINE n == r.to
           es == [entry[n] EXCEPT ![r.from] = Seen(r, @)]
<1>1. entry \in [Nodes -> [Nodes -> PeerType]] /\ dialing \subseteq Pairs
  BY DEF TypeOK
<1>2. n \in Nodes /\ r.from \in Nodes
  BY DEF TypeOK, MessageType
<1>3. /\ es \in [Nodes -> PeerType]
      /\ \A m \in Nodes : /\ es[m].via = entry[n][m].via /\ es[m].addr = entry[n][m].addr
                          /\ es[m].state = entry[n][m].state
  BY <1>1, <1>2, RestoredPeers, ZenonT(60)
<1>4. /\ status[n] = "running" /\ UNCHANGED <<status, link>>
      /\ HandleHeartbeat(n, r, es) \/ HandlePing(n, r, es) \/ HandleAck(n, r, es)
           \/ HandleIndirectPing(n, r, es)
  BY DEF HandleRPC
<1> HIDE DEF es, n
<1>5. ASSUME entry' = [entry EXCEPT ![n] = es] \/ entry' = [entry EXCEPT ![n] = Restored(es, r)],
             UNCHANGED dialing
      PROVE  Conns' /\ LiveStep
  <2>1. \A m \in Nodes : /\ Restored(es, r)[m].via = es[m].via
                         /\ Restored(es, r)[m].addr = es[m].addr
                         /\ (Restored(es, r)[m].state = "none" <=> es[m].state = "none")
    BY <1>2, <1>3, RestoredPeers
  <2>2. \A a, b \in Nodes : \/ entry'[a][b] = entry[a][b]
                            \/ a = n /\ (entry'[a][b] = es[b] \/ entry'[a][b] = Restored(es, r)[b])
    BY <1>1, <1>2, <1>5
  <2>3. \A a, b \in Nodes : /\ entry'[a][b].via = entry[a][b].via
                            /\ entry'[a][b].addr = entry[a][b].addr
                            /\ entry'[a][b].state = "none" => entry[a][b].state = "none"
    BY <1>3, <2>1, <2>2
  <2> QED BY <1>4, <1>5, <2>3, SameConns
<1>6. CASE HandlePing(n, r, es) \/ HandleAck(n, r, es) \/ HandleIndirectPing(n, r, es)
  BY <1>5, <1>6 DEF HandlePing, HandleAck, HandleIndirectPing
<1>7. CASE HandleHeartbeat(n, r, es)
  <2> DEFINE new == {m \in DOMAIN r.known \ {n} : es[m].state = "none"}
             all == [m \in Nodes |-> IF m \in new THEN NewPeer("no", r.known[m]) ELSE es[m]]
  <2>1. entry' = [entry EXCEPT ![n] = Restored(all, r)] /\ dialing' = dialing \cup ({n} \X new)
    BY <1>7 DEF HandleHeartbeat
  <2>2. \A m \in new : m \in Nodes /\ r.known[m] \in {"listen", "eph"}
    BY <1>7 DEF HandleHeartbeat, TypeOK, MessageType, NoPings
  <2>3. \A m \in new : /\ NewPeer("no", r.known[m]) \in PeerType
                       /\ NewPeer("no", r.known[m]).via = "no"
                       /\ NewPeer("no", r.known[m]).state = "alive"
    BY <2>2 DEF NewPeer, PeerType, States
  <2>4. \A m \in new : /\ entry[n][m].state = "none" /\ entry[n][m].via = "no"
                       /\ link[n][m] = "none"
    BY <1>2, <1>3, <2>2 DEF Conns, Dialable
  <2>5. /\ all \in [Nodes -> PeerType]
        /\ \A m \in Nodes : /\ m \in new => all[m].via = "no" /\ all[m].state = "alive"
                            /\ m \notin new => all[m] = es[m]
    BY <1>3, <2>3
  <2> HIDE DEF new, all
  <2>6. \A m \in Nodes : /\ Restored(all, r)[m].via = all[m].via
                         /\ Restored(all, r)[m].addr = all[m].addr
                         /\ (Restored(all, r)[m].state = "none" <=> all[m].state = "none")
    BY <1>2, <2>5, RestoredPeers
  <2>7. \A a, b \in Nodes :
          /\ a # n => entry'[a][b] = entry[a][b]
          /\ a = n => entry'[a][b] = Restored(all, r)[b]
    BY <1>1, <1>2, <2>1
  <2>8. \A a, b \in Nodes :
          /\ entry'[a][b].via = entry[a][b].via
          /\ a = n /\ b \in new => entry'[a][b].via = "no" /\ entry'[a][b].state # "none"
          /\ ~(a = n /\ b \in new) =>
               /\ entry'[a][b].addr = entry[a][b].addr
               /\ (entry'[a][b].state = "none" <=> entry[a][b].state = "none")
    BY <1>2, <1>3, <2>4, <2>5, <2>6, <2>7
  <2>9. DialsRun'
    BY <1>4, <2>1, <2>8 DEF Conns, DialsRun
  <2>10. Dialable'
    BY <1>4, <2>4, <2>8 DEF Conns, Dialable
  <2>11. ConnUsable' /\ LiveStep
    BY <1>4, <2>8 DEF Conns, ConnUsable, LiveStep
  <2> QED BY <2>9, <2>10, <2>11 DEF Conns
<1> QED BY <1>4, <1>6, <1>7

(* Suspicions and ages.                                                    *)
LEMMA SuspicionConns ==
  ASSUME Conns, TypeOK, NEW n \in Nodes, NEW m \in Nodes,
         UNCHANGED <<status, link, dialing>>,
         \/ entry' = [entry EXCEPT ![n][m] = MarkSuspect(@)]
         \/ entry' = [entry EXCEPT ![n][m].age = @ + 1] /\ entry[n][m].age < 2
         \/ entry' = [entry EXCEPT ![n][m].state = "suspect"]
         \/ entry' = [entry EXCEPT ![n][m].state = "offline"]
  PROVE  Conns' /\ LiveStep /\ entry' \in [Nodes -> [Nodes -> PeerType]]
<1>1. entry[n][m] \in PeerType /\ entry \in [Nodes -> [Nodes -> PeerType]]
  BY DEF TypeOK
<1>2. PICK p : /\ entry' = [entry EXCEPT ![n][m] = p]
               /\ \/ p = MarkSuspect(entry[n][m])
                  \/ p = [entry[n][m] EXCEPT !.age = @ + 1] /\ entry[n][m].age < 2
                  \/ p = [entry[n][m] EXCEPT !.state = "suspect"]
                  \/ p = [entry[n][m] EXCEPT !.state = "offline"]
  OBVIOUS
<1>3. p \in PeerType
  <2>1. CASE p = MarkSuspect(entry[n][m])
    BY <1>1, <2>1, Zenon DEF MarkSuspect, PeerType, States
  <2>2. CASE p = [entry[n][m] EXCEPT !.age = @ + 1] /\ entry[n][m].age < 2
    <3>1. entry[n][m].age + 1 \in 0 .. 2
      BY <1>1, <2>2 DEF PeerType
    <3>2. \A q \in PeerType, a \in 0 .. 2 : [q EXCEPT !.age = a] \in PeerType
      BY DEF PeerType
    <3> QED BY <1>1, <2>2, <3>1, <3>2, Zenon
  <2>3. CASE p = [entry[n][m] EXCEPT !.state = "suspect"]
    BY <1>1, <2>3, Zenon DEF PeerType, States
  <2>4. CASE p = [entry[n][m] EXCEPT !.state = "offline"]
    BY <1>1, <2>4, Zenon DEF PeerType, States
  <2> QED BY <1>2, <2>1, <2>2, <2>3, <2>4
<1>4. /\ p.via = entry[n][m].via /\ p.addr = entry[n][m].addr
      /\ p.state = "none" => entry[n][m].state = "none"
  BY <1>1, <1>2 DEF MarkSuspect, PeerType
<1>5. Conns' /\ LiveStep
  BY <1>2, <1>4, OnePeer, Zenon
<1>6. entry' \in [Nodes -> [Nodes -> PeerType]]
  BY <1>1, <1>2, <1>3
<1> QED BY <1>5, <1>6

(* Every step keeps the connections usable and detaches none that is open. *)
LEMMA NextConns ==
  ASSUME Conns, TypeOK, [Next]_vars
  PROVE  Conns' /\ LiveStep
<1>1. ASSUME NEW n \in Nodes, Listen(n) \/ Crash(n) PROVE Conns' /\ LiveStep
  BY <1>1, ListenConns, CrashConns
<1>2. ASSUME UNCHANGED <<status, entry, link, dialing>> PROVE Conns' /\ LiveStep
  BY <1>2, SameConns
<1>3. ASSUME NEW n \in Nodes, Waits(n) PROVE Conns' /\ LiveStep
  <2>1. CASE Bootstrap(n)
    BY <2>1, BootstrapConns
  <2>2. CASE PingAcked(n) \/ HelpDone(n)
    BY <1>2, <2>2 DEF PingAcked, HelpDone
  <2>3. CASE PingTimeout(n) \/ IndirectTimeout(n)
    <3>1. pinger[n].target \in Nodes
      BY <2>3 DEF PingTimeout, IndirectTimeout, TypeOK, Idle
    <3>2. \/ entry' = [entry EXCEPT ![n][pinger[n].target] = MarkSuspect(@)]
          \/ UNCHANGED entry
      BY <2>3 DEF PingTimeout, IndirectTimeout
    <3>3. UNCHANGED <<status, link, dialing>>
      BY <2>3 DEF PingTimeout, IndirectTimeout
    <3> QED BY <1>2, <3>1, <3>2, <3>3, SuspicionConns
  <2> QED BY <1>3, <2>1, <2>2, <2>3 DEF Waits
<1>4. ASSUME NEW p \in Pairs, Break(p[1], p[2]) \/ ReadDeadline(p[1], p[2])
      PROVE  Conns' /\ LiveStep
  <2>1. p[1] \in Nodes /\ p[2] \in Nodes /\ p[1] # p[2]
    BY DEF Pairs
  <2> QED BY <1>4, <2>1, ClosedConns DEF Break, ReadDeadline
<1>5. ASSUME NEW p \in Pairs, Connect(p[1], p[2]) PROVE Conns' /\ LiveStep
  BY <1>5, ConnectConns DEF Pairs
<1>6. ASSUME NEW p \in Pairs, Heartbeat(p[1], p[2]) \/ SendPing(p[1], p[2])
      PROVE  Conns' /\ LiveStep
  BY <1>2, <1>6 DEF Heartbeat, SendPing
<1>7. ASSUME NEW p \in Pairs,
             Silence(p[1], p[2]) \/ Lapse(p[1], p[2]) \/ CheckSuspicion(p[1], p[2])
      PROVE  Conns' /\ LiveStep
  <2>1. p[1] \in Nodes /\ p[2] \in Nodes
    BY DEF Pairs
  <2> QED BY <1>7, <2>1, SuspicionConns, Zenon DEF Silence, Lapse, CheckSuspicion
<1>8. ASSUME NEW p \in Pairs, Receive(p[1], p[2]) PROVE Conns' /\ LiveStep
  BY <1>8, AcceptConns, HandleRPCConns DEF Receive
<1>9. ASSUME UNCHANGED vars PROVE Conns' /\ LiveStep
  BY <1>2, <1>9 DEF vars
<1> QED BY <1>1, <1>3, <1>4, <1>5, <1>6, <1>7, <1>8, <1>9 DEF Next

----------------------------------------------------------------------------
(* The waiters for acks.                                                   *)

(* pendingPings loses what it lost and gains only what somebody waits for. *)
LEMMA NextPending ==
  ASSUME TypeOK, NoPendingLeak, [Next]_vars
  PROVE  NoPendingLeak'
<1>1. /\ pinger \in [Nodes -> {Idle} \cup [pc : {"direct", "indirect"}, target : Nodes, id : PingIDs]]
      /\ loop \in [Nodes -> {Free} \cup [pc : {"helping"}, req : Nodes, id : PingIDs, target : Nodes]]
      /\ pending \in [Nodes -> UNION {[D -> BOOLEAN] : D \in SUBSET PingIDs}]
  BY DEF TypeOK
<1>2. ASSUME UNCHANGED <<pinger, pending, loop>> PROVE NoPendingLeak'
  BY <1>2 DEF NoPendingLeak
<1>3. ASSUME NEW n \in Nodes, EndPing(n), UNCHANGED loop PROVE NoPendingLeak'
  <2>1. \A m \in Nodes : /\ m # n => pinger'[m] = pinger[m] /\ pending'[m] = pending[m]
                         /\ m = n => DOMAIN pending'[m] = DOMAIN pending[m] \ {pinger[m].id}
    BY <1>1, <1>3 DEF EndPing, RemovePending, Restrict
  <2> QED BY <1>3, <2>1 DEF NoPendingLeak
<1>4. ASSUME NEW n \in Nodes, Crash(n) PROVE NoPendingLeak'
  <2>1. \A m \in Nodes : /\ m # n => pinger'[m] = pinger[m] /\ pending'[m] = pending[m]
                                    /\ loop'[m] = loop[m]
                         /\ m = n => DOMAIN pending'[m] = {}
    BY <1>1, <1>4 DEF Crash, NoPings
  <2> QED BY <2>1 DEF NoPendingLeak
<1>5. ASSUME NEW n \in Nodes, Waits(n) PROVE NoPendingLeak'
  <2>1. CASE Bootstrap(n)
    BY <1>2, <2>1 DEF Bootstrap
  <2>2. CASE PingAcked(n) \/ IndirectTimeout(n)
    BY <1>3, <2>2 DEF PingAcked, IndirectTimeout
  <2>3. CASE PingTimeout(n)
    <3>1. UNCHANGED loop /\ (EndPing(n) \/ (/\ pinger' = [pinger EXCEPT ![n].pc = "indirect"]
                                            /\ UNCHANGED pending))
      BY <2>3 DEF PingTimeout
    <3>2. CASE pinger' = [pinger EXCEPT ![n].pc = "indirect"] /\ UNCHANGED pending
      <4>1. pinger[n].pc = "direct"
        BY <2>3 DEF PingTimeout
      <4>2. pinger[n] \in [pc : {"direct", "indirect"}, target : Nodes, id : PingIDs]
        BY <1>1, <4>1 DEF Idle
      <4>3. /\ pinger'[n].pc = "indirect" /\ pinger'[n].id = pinger[n].id
            /\ \A m \in Nodes : m # n => pinger'[m] = pinger[m]
        BY <1>1, <3>2, <4>2
      <4> QED BY <3>1, <3>2, <4>1, <4>3 DEF NoPendingLeak
    <3> QED BY <1>3, <3>1, <3>2
  <2>4. CASE HelpDone(n)
    <3>1. \A m \in Nodes : /\ m # n => loop'[m] = loop[m] /\ pending'[m] = pending[m]
                           /\ m = n => DOMAIN pending'[m] = DOMAIN pending[m] \ {loop[m].id}
      BY <1>1, <2>4 DEF HelpDone, RemovePending, Restrict
    <3>2. UNCHANGED pinger
      BY <2>4 DEF HelpDone
    <3> QED BY <3>1, <3>2 DEF NoPendingLeak
  <2> QED BY <1>5, <2>1, <2>2, <2>3, <2>4 DEF Waits
<1>6. ASSUME NEW n \in Nodes, NEW m \in Nodes, SendPing(n, m) PROVE NoPendingLeak'
  <2>1. CASE UNCHANGED <<pinger, pending>>
    BY <1>2, <1>6, <2>1 DEF SendPing
  <2>2. CASE ~UNCHANGED <<pinger, pending>>
    <3>1. PICK k \in {0, 1} :
            /\ pinger' = [pinger EXCEPT ![n] = [pc |-> "direct", target |-> m, id |-> <<n, k>>]]
            /\ pending' = [pending EXCEPT ![n] = AddPending(@, <<n, k>>)]
      BY <1>6, <2>2 DEF SendPing
    <3>2. UNCHANGED loop /\ pinger[n].pc = "idle"
      BY <1>6 DEF SendPing
    <3>3. \A a \in Nodes : /\ a # n => pinger'[a] = pinger[a] /\ pending'[a] = pending[a]
                           /\ a = n => /\ pinger'[a].pc = "direct" /\ pinger'[a].id = <<n, k>>
                                       /\ DOMAIN pending'[a] = DOMAIN pending[a] \cup {<<n, k>>}
      BY <1>1, <3>1, ZenonT(60) DEF AddPending
    <3> QED BY <3>2, <3>3 DEF NoPendingLeak
  <2> QED BY <2>1, <2>2
<1>7. ASSUME NEW r \in wire, HandleRPC(r) PROVE NoPendingLeak'
  <2> DEFINE n == r.to
  <2>1. n \in Nodes
    BY DEF TypeOK, MessageType
  <2>2. UNCHANGED pinger /\ loop[n].pc = "free"
    BY <1>7 DEF HandleRPC
  <2> HIDE DEF n
  <2>3. CASE UNCHANGED <<pending, loop>>
    BY <1>2, <2>2, <2>3
  <2>4. CASE r.id \in DOMAIN pending[n] /\ pending' = [pending EXCEPT ![n][r.id] = TRUE]
             /\ UNCHANGED loop
    <3>1. \A a \in Nodes : DOMAIN pending'[a] = DOMAIN pending[a]
      BY <1>1, <2>4
    <3> QED BY <2>2, <2>4, <3>1 DEF NoPendingLeak
  <2>5. CASE /\ pending' = [pending EXCEPT ![n] = AddPending(@, r.id)]
             /\ loop' = [loop EXCEPT ![n] = [pc |-> "helping", req |-> r.from,
                                             id |-> r.id, target |-> r.target]]
    <3>1. \A a \in Nodes : /\ a # n => loop'[a] = loop[a] /\ pending'[a] = pending[a]
                           /\ a = n => /\ loop'[a].pc = "helping" /\ loop'[a].id = r.id
                                       /\ DOMAIN pending'[a] = DOMAIN pending[a] \cup {r.id}
      BY <1>1, <2>5, Zenon DEF AddPending
    <3> QED BY <2>2, <3>1 DEF NoPendingLeak
  <2> QED BY <1>7, <2>3, <2>4, <2>5
          DEF HandleRPC, HandleHeartbeat, HandlePing, HandleAck, HandleIndirectPing, n
<1>8. ASSUME NEW p \in Pairs, Receive(p[1], p[2]) PROVE NoPendingLeak'
  BY <1>2, <1>7, <1>8 DEF Receive, Accept
<1>9. ASSUME NEW n \in Nodes, Listen(n) PROVE NoPendingLeak'
  BY <1>2, <1>9 DEF Listen
<1>10. ASSUME NEW p \in Pairs,
              \/ Break(p[1], p[2]) \/ ReadDeadline(p[1], p[2]) \/ Connect(p[1], p[2])
              \/ Heartbeat(p[1], p[2]) \/ Silence(p[1], p[2]) \/ Lapse(p[1], p[2])
              \/ CheckSuspicion(p[1], p[2])
       PROVE  NoPendingLeak'
  BY <1>2, <1>10, Zenon DEF Break, ReadDeadline, Connect, Heartbeat, Silence, Lapse, CheckSuspicion
<1>11. ASSUME NEW p \in Pairs, SendPing(p[1], p[2]) PROVE NoPendingLeak'
  BY <1>6, <1>11 DEF Pairs
<1>12. ASSUME UNCHANGED vars PROVE NoPendingLeak'
  BY <1>2, <1>12 DEF vars
<1> QED BY <1>4, <1>5, <1>8, <1>9, <1>10, <1>11, <1>12 DEF Next

----------------------------------------------------------------------------
(* The types.                                                              *)

(* The Peers and links, the situation and the number of events.            *)
PeersOK ==
    /\ start \in Situation
    /\ status \in [Nodes -> {"down", "listening", "running"}]
    /\ entry \in [Nodes -> [Nodes -> PeerType]]
    /\ link \in [Nodes -> [Nodes -> {"none", "raw", "open"}]]
    /\ dialing \subseteq Pairs
    /\ events \in 0 .. start.events

LEMMA NewPeerType ==
  /\ NoPeer \in PeerType
  /\ \A via \in {"no", "out", "in"}, addr \in {"listen", "eph"} : NewPeer(via, addr) \in PeerType
BY DEF NoPeer, NewPeer, PeerType, States

LEMMA TransportPeers ==
  ASSUME TypeOK,
         \/ \E n \in Nodes : Listen(n) \/ Crash(n) \/ Bootstrap(n)
         \/ \E p \in Pairs : Break(p[1], p[2]) \/ ReadDeadline(p[1], p[2]) \/ Connect(p[1], p[2])
         \/ \E r \in wire : Accept(r)
  PROVE  PeersOK'
<1>1. PeersOK
  BY DEF TypeOK, PeersOK
<1>2. start.events \in Nat
  BY <1>1 DEF PeersOK, Situation
<1>3. \A p \in PeerType : [p EXCEPT !.via = "no"] \in PeerType /\ [p EXCEPT !.via = "out"] \in PeerType
  BY DEF PeerType
<1>4. \A p \in PeerType, via \in {"in", "out"} : Cleaned(p, via) \in PeerType
  BY <1>3, Zenon DEF Cleaned
<1>5. ASSUME NEW n \in Nodes, Listen(n) PROVE PeersOK'
  BY <1>1, <1>5 DEF Listen, PeersOK
<1>6. ASSUME NEW n \in Nodes, Crash(n) PROVE PeersOK'
  <2>1. entry' \in [Nodes -> [Nodes -> PeerType]]
    <3>1. \A m \in Nodes : [entry[m] EXCEPT ![n].via = "no"] \in [Nodes -> PeerType]
      BY <1>1, <1>3, ZenonT(60) DEF PeersOK
    <3>2. [k \in Nodes |-> NoPeer] \in [Nodes -> PeerType]
      BY NewPeerType
    <3>3. entry' = [m \in Nodes |-> IF m = n THEN [k \in Nodes |-> NoPeer]
                                   ELSE [entry[m] EXCEPT ![n].via = "no"]]
      BY <1>6 DEF Crash
    <3> QED BY <3>1, <3>2, <3>3
  <2>2. link' \in [Nodes -> [Nodes -> {"none", "raw", "open"}]]
    BY <1>1, <1>6 DEF Crash, PeersOK
  <2>3. status' \in [Nodes -> {"down", "listening", "running"}] /\ dialing' \subseteq Pairs
    BY <1>1, <1>6 DEF Crash, PeersOK
  <2>4. events' \in 0 .. start'.events /\ start' \in Situation
    BY <1>1, <1>2, <1>6 DEF Crash, PeersOK
  <2> QED BY <2>1, <2>2, <2>3, <2>4 DEF PeersOK
<1>7. ASSUME NEW n \in Nodes, Bootstrap(n) PROVE PeersOK'
  <2>1. entry' \in [Nodes -> [Nodes -> PeerType]]
    BY <1>1, <1>7, NewPeerType DEF Bootstrap, PeersOK
  <2>2. link' \in [Nodes -> [Nodes -> {"none", "raw", "open"}]]
    BY <1>1, <1>7 DEF Bootstrap, PeersOK
  <2> QED BY <1>1, <1>7, <2>1, <2>2 DEF Bootstrap, PeersOK
<1>8. ASSUME NEW a \in Nodes, NEW b \in Nodes, a # b, Closed(a, b)
      PROVE  /\ entry' \in [Nodes -> [Nodes -> PeerType]]
             /\ link' \in [Nodes -> [Nodes -> {"none", "raw", "open"}]]
  <2> DEFINE pa == Cleaned(entry[a][b], "out")
             pb == IF link[a][b] = "open" THEN Cleaned(entry[b][a], "in") ELSE entry[b][a]
  <2>1. pa \in PeerType /\ pb \in PeerType
    BY <1>1, <1>4 DEF PeersOK
  <2>2. entry' = [entry EXCEPT ![a][b] = pa, ![b][a] = pb]
    BY <1>1, <1>8 DEF Closed, PeersOK
  <2> HIDE DEF pa, pb
  <2>3. entry' \in [Nodes -> [Nodes -> PeerType]]
    BY <1>1, <2>1, <2>2, Zenon DEF PeersOK
  <2> QED BY <1>1, <1>8, <2>3, Zenon DEF Closed, PeersOK
<1>9. ASSUME NEW p \in Pairs, Break(p[1], p[2]) \/ ReadDeadline(p[1], p[2]) PROVE PeersOK'
  <2>1. p[1] \in Nodes /\ p[2] \in Nodes /\ p[1] # p[2]
    BY DEF Pairs
  <2>2. Closed(p[1], p[2]) /\ UNCHANGED <<start, status, dialing>>
        /\ (UNCHANGED events \/ (events < start.events /\ events' = events + 1))
    BY <1>9 DEF Break, ReadDeadline
  <2>3. /\ entry' \in [Nodes -> [Nodes -> PeerType]]
        /\ link' \in [Nodes -> [Nodes -> {"none", "raw", "open"}]]
    BY <1>8, <2>1, <2>2
  <2> QED BY <1>1, <1>2, <2>2, <2>3 DEF PeersOK
<1>10. ASSUME NEW n \in Nodes, NEW m \in Nodes, Connect(n, m) PROVE PeersOK'
  <2> DEFINE q == [entry[n][m] EXCEPT !.via = "out"]
  <2>1. q \in PeerType
    BY <1>1, <1>3, ZenonT(60) DEF PeersOK
  <2>2. \/ /\ entry' = [entry EXCEPT ![n][m] = q]
           /\ link' = [link EXCEPT ![n][m] = "raw"]
        \/ UNCHANGED <<entry, link>>
    BY <1>10 DEF Connect
  <2> HIDE DEF q
  <2>3. /\ entry' \in [Nodes -> [Nodes -> PeerType]]
        /\ link' \in [Nodes -> [Nodes -> {"none", "raw", "open"}]]
    <3>1. CASE UNCHANGED <<entry, link>>
      BY <1>1, <3>1 DEF PeersOK
    <3>2. CASE /\ entry' = [entry EXCEPT ![n][m] = q]
               /\ link' = [link EXCEPT ![n][m] = "raw"]
      <4>1. entry' \in [Nodes -> [Nodes -> PeerType]]
        BY <1>1, <2>1, <3>2 DEF PeersOK
      <4>2. link' \in [Nodes -> [Nodes -> {"none", "raw", "open"}]]
        BY <1>1, <3>2 DEF PeersOK
      <4> QED BY <4>1, <4>2
    <3> QED BY <2>2, <3>1, <3>2
  <2>4. dialing' \subseteq dialing /\ UNCHANGED <<start, status, events>>
    BY <1>10 DEF Connect
  <2> QED BY <1>1, <2>3, <2>4 DEF PeersOK
<1>11. ASSUME NEW r \in wire, Accept(r) PROVE PeersOK'
  BY <1>1, <1>11, NewPeerType, Zenon DEF Accept, PeersOK
<1> QED BY <1>5, <1>6, <1>7, <1>9, <1>10, <1>11 DEF Pairs

LEMMA HandleRPCPeers ==
  ASSUME TypeOK, NEW r \in wire, HandleRPC(r)
  PROVE  PeersOK'
<1> DEFINE n == r.to
           es == [entry[n] EXCEPT ![r.from] = Seen(r, @)]
<1>1. PeersOK
  BY DEF TypeOK, PeersOK
<1>2. n \in Nodes /\ r.from \in Nodes
  BY DEF TypeOK, MessageType
<1>3. es \in [Nodes -> PeerType]
  BY <1>1, <1>2, RestoredPeers DEF PeersOK
<1>4. /\ UNCHANGED <<start, status, link, events>>
      /\ HandleHeartbeat(n, r, es) \/ HandlePing(n, r, es) \/ HandleAck(n, r, es)
           \/ HandleIndirectPing(n, r, es)
  BY DEF HandleRPC
<1> HIDE DEF es, n
<1>5. Restored(es, r) \in [Nodes -> PeerType]
  BY <1>2, <1>3, RestoredPeers
<1>6. CASE HandlePing(n, r, es) \/ HandleAck(n, r, es) \/ HandleIndirectPing(n, r, es)
  BY <1>1, <1>3, <1>4, <1>5, <1>6, ZenonT(60) DEF HandlePing, HandleAck, HandleIndirectPing, PeersOK
<1>7. CASE HandleHeartbeat(n, r, es)
  <2> DEFINE new == {m \in DOMAIN r.known \ {n} : es[m].state = "none"}
             all == [m \in Nodes |-> IF m \in new THEN NewPeer("no", r.known[m]) ELSE es[m]]
  <2>1. entry' = [entry EXCEPT ![n] = Restored(all, r)] /\ dialing' = dialing \cup ({n} \X new)
    BY <1>7 DEF HandleHeartbeat
  <2>2. \A m \in new : m \in Nodes /\ m # n /\ r.known[m] \in {"listen", "eph"}
    BY DEF TypeOK, MessageType, NoPings
  <2>3. all \in [Nodes -> PeerType]
    BY <1>3, <2>2, NewPeerType
  <2> HIDE DEF new, all
  <2>4. Restored(all, r) \in [Nodes -> PeerType]
    BY <1>2, <2>3, RestoredPeers
  <2>5. dialing' \subseteq Pairs
    BY <1>1, <1>2, <2>1, <2>2 DEF Pairs, PeersOK
  <2> QED BY <1>1, <1>4, <2>1, <2>4, <2>5, Zenon DEF PeersOK
<1> QED BY <1>4, <1>6, <1>7

LEMMA NextPeers ==
  ASSUME TypeOK, Conns, [Next]_vars
  PROVE  PeersOK'
<1>1. PeersOK /\ start.events \in Nat
  BY DEF TypeOK, PeersOK, Situation
<1>2. ASSUME UNCHANGED <<start, status, link, dialing>>,
             entry' \in [Nodes -> [Nodes -> PeerType]],
             UNCHANGED events \/ (events < start.events /\ events' = events + 1)
      PROVE  PeersOK'
  BY <1>1, <1>2 DEF PeersOK
<1>3. UNCHANGED entry => entry' \in [Nodes -> [Nodes -> PeerType]]
  BY <1>1 DEF PeersOK
<1>4. ASSUME NEW n \in Nodes, Waits(n), ~Bootstrap(n) PROVE PeersOK'
  <2>1. CASE PingAcked(n) \/ HelpDone(n)
    BY <1>2, <1>3, <2>1 DEF PingAcked, HelpDone
  <2>2. CASE PingTimeout(n) \/ IndirectTimeout(n)
    <3>1. pinger[n].target \in Nodes
      BY <2>2 DEF PingTimeout, IndirectTimeout, TypeOK, Idle
    <3>2. \/ entry' = [entry EXCEPT ![n][pinger[n].target] = MarkSuspect(@)]
          \/ UNCHANGED entry
      BY <2>2 DEF PingTimeout, IndirectTimeout
    <3>3. UNCHANGED <<start, status, link, dialing, events>>
      BY <2>2 DEF PingTimeout, IndirectTimeout
    <3>4. entry' \in [Nodes -> [Nodes -> PeerType]]
      BY <1>3, <3>1, <3>2, <3>3, SuspicionConns
    <3> QED BY <1>2, <3>3, <3>4
  <2> QED BY <1>4, <2>1, <2>2 DEF Waits
<1>5. ASSUME NEW p \in Pairs, Heartbeat(p[1], p[2]) \/ SendPing(p[1], p[2]) PROVE PeersOK'
  BY <1>2, <1>3, <1>5 DEF Heartbeat, SendPing
<1>6. ASSUME NEW p \in Pairs,
             Silence(p[1], p[2]) \/ Lapse(p[1], p[2]) \/ CheckSuspicion(p[1], p[2])
      PROVE  PeersOK'
  <2>1. p[1] \in Nodes /\ p[2] \in Nodes
    BY DEF Pairs
  <2>2. entry' \in [Nodes -> [Nodes -> PeerType]]
    BY <1>6, <2>1, SuspicionConns, Zenon DEF Silence, Lapse, CheckSuspicion
  <2> QED BY <1>2, <1>6, <2>2 DEF Silence, Lapse, CheckSuspicion
<1>7. ASSUME NEW p \in Pairs, Receive(p[1], p[2]) PROVE PeersOK'
  BY <1>7, TransportPeers, HandleRPCPeers DEF Receive
<1>8. ASSUME UNCHANGED vars PROVE PeersOK'
  BY <1>2, <1>3, <1>8 DEF vars
<1> QED BY <1>4, <1>5, <1>6, <1>7, <1>8, TransportPeers DEF Next, Waits

(* What is sent is a message.                                              *)
LEMMA SentType ==
  ASSUME TypeOK, NEW n \in Nodes, NEW m \in Nodes, NEW type, NEW id, NEW target, NEW known,
         \/ /\ type = "heartbeat" /\ id = <<0, 0>> /\ target = 0
            /\ known \in UNION {[S -> {"listen", "eph"}] : S \in SUBSET Nodes}
         \/ /\ type \in {"ping", "ack", "indirect"} /\ id \in PingIDs /\ target \in Nodes
            /\ known = NoPings
  PROVE  Sent(n, m, type, id, target, known) \subseteq MessageType
<1>1. LinkOf(n, m, entry[n][m].via) \in Nodes \X Nodes
  BY DEF LinkOf
<1> DEFINE over == LinkOf(n, m, entry[n][m].via)
<1> HIDE DEF over
<1>2. RPC(type, n, m, over, id, target, known) \in MessageType
  BY <1>1 DEF RPC, MessageType, over
<1> QED BY <1>2 DEF Sent, over

Pinger == {Idle} \cup [pc : {"direct", "indirect"}, target : Nodes, id : PingIDs]
Helper == {Free} \cup [pc : {"helping"}, req : Nodes, id : PingIDs, target : Nodes]
PendingMap == UNION {[D -> BOOLEAN] : D \in SUBSET PingIDs}

(* The messages and the waiters.                                           *)
PingsOK ==
    /\ wire \in SUBSET MessageType
    /\ pinger \in [Nodes -> Pinger]
    /\ pending \in [Nodes -> PendingMap]
    /\ loop \in [Nodes -> Helper]

LEMMA PendingTypes ==
  /\ NoPings \in PendingMap
  /\ \A ps \in PendingMap, i \in PingIDs :
       AddPending(ps, i) \in PendingMap /\ RemovePending(ps, i) \in PendingMap
<1>1. NoPings \in [{} -> BOOLEAN]
  BY DEF NoPings
<1>2. ASSUME NEW ps \in PendingMap, NEW i \in PingIDs
      PROVE  AddPending(ps, i) \in PendingMap /\ RemovePending(ps, i) \in PendingMap
  <2>1. PICK D \in SUBSET PingIDs : ps \in [D -> BOOLEAN]
    BY DEF PendingMap
  <2>2. AddPending(ps, i) \in [D \cup {i} -> BOOLEAN]
    BY <2>1, Zenon DEF AddPending
  <2>3. RemovePending(ps, i) \in [D \ {i} -> BOOLEAN]
    BY <2>1, Zenon DEF RemovePending, Restrict
  <2> QED BY <2>2, <2>3 DEF PendingMap
<1> QED BY <1>1, <1>2 DEF PendingMap

LEMMA EndPingTypes ==
  ASSUME PingsOK, NEW n \in Nodes, pinger[n].pc # "idle", EndPing(n)
  PROVE  pinger' \in [Nodes -> Pinger] /\ pending' \in [Nodes -> PendingMap]
<1>1. pinger[n].id \in PingIDs
  BY DEF PingsOK, Pinger, Idle
<1>2. RemovePending(pending[n], pinger[n].id) \in PendingMap
  BY <1>1, PendingTypes DEF PingsOK
<1> QED BY <1>2 DEF EndPing, PingsOK, Pinger

LEMMA HandleRPCPings ==
  ASSUME TypeOK, PingsOK, NEW r \in wire, HandleRPC(r)
  PROVE  PingsOK'
<1> DEFINE n == r.to
<1>1. /\ n \in Nodes /\ r.from \in Nodes
      /\ r.type # "heartbeat" => r.id \in PingIDs /\ r.target \in Nodes
  BY DEF PingsOK, MessageType
<1>2. UNCHANGED pinger
  BY DEF HandleRPC
<1>3. CASE UNCHANGED <<pending, loop>> /\ wire' = wire \ {r}
  BY <1>2, <1>3 DEF PingsOK
<1>4. CASE /\ r.type = "ping" /\ UNCHANGED <<pending, loop>>
           /\ wire' = (wire \ {r}) \cup Sent(n, r.from, "ack", r.id, n, NoPings)
  <2>1. Sent(n, r.from, "ack", r.id, n, NoPings) \subseteq MessageType
    BY <1>1, <1>4, SentType
  <2> QED BY <1>2, <1>4, <2>1 DEF PingsOK
<1>5. CASE /\ r.type = "ack" /\ wire' = wire \ {r} /\ UNCHANGED loop
           /\ r.id \in DOMAIN pending[n] /\ pending' = [pending EXCEPT ![n][r.id] = TRUE]
  <2>0. pending[n] \in PendingMap
    BY <1>1 DEF PingsOK
  <2>1. PICK D \in SUBSET PingIDs : pending[n] \in [D -> BOOLEAN]
    BY <2>0 DEF PendingMap
  <2>2. [pending[n] EXCEPT ![r.id] = TRUE] \in [D -> BOOLEAN]
    BY <2>1, Zenon
  <2>3. [pending[n] EXCEPT ![r.id] = TRUE] \in PendingMap
    BY <2>2 DEF PendingMap
  <2>4. pending' \in [Nodes -> PendingMap]
    BY <1>5, <2>3, ZenonT(60) DEF PingsOK
  <2> QED BY <1>2, <1>5, <2>4 DEF PingsOK
<1>6. CASE /\ r.type = "indirect"
           /\ wire' = (wire \ {r}) \cup Sent(n, r.target, "ping", r.id, r.target, NoPings)
           /\ \/ UNCHANGED <<pending, loop>>
              \/ /\ pending' = [pending EXCEPT ![n] = AddPending(@, r.id)]
                 /\ loop' = [loop EXCEPT ![n] = [pc |-> "helping", req |-> r.from,
                                                 id |-> r.id, target |-> r.target]]
  <2>1. Sent(n, r.target, "ping", r.id, r.target, NoPings) \subseteq MessageType
    BY <1>1, <1>6, SentType
  <2>2. AddPending(pending[n], r.id) \in PendingMap
    BY <1>1, <1>6, PendingTypes DEF PingsOK
  <2>3. [pc |-> "helping", req |-> r.from, id |-> r.id, target |-> r.target] \in Helper
    BY <1>1, <1>6 DEF Helper
  <2>4. pending' \in [Nodes -> PendingMap] /\ loop' \in [Nodes -> Helper]
    BY <1>6, <2>2, <2>3 DEF PingsOK
  <2> QED BY <1>2, <1>6, <2>1, <2>4 DEF PingsOK
<1> QED BY <1>3, <1>4, <1>5, <1>6, ZenonT(60)
        DEF HandleRPC, HandleHeartbeat, HandlePing, HandleAck, HandleIndirectPing

LEMMA NextPings ==
  ASSUME TypeOK, [Next]_vars
  PROVE  PingsOK'
<1>1. PingsOK
  BY DEF TypeOK, PingsOK, Pinger, Helper, PendingMap
<1>2. ASSUME UNCHANGED <<pinger, pending, loop>>, wire' \subseteq MessageType PROVE PingsOK'
  BY <1>1, <1>2 DEF PingsOK
<1>3. wire \subseteq MessageType
  BY <1>1 DEF PingsOK
<1>4. ASSUME NEW n \in Nodes, Crash(n) PROVE PingsOK'
  <2>1. wire' \subseteq MessageType
    BY <1>3, <1>4 DEF Crash
  <2> QED BY <1>1, <1>4, <2>1, PendingTypes DEF Crash, PingsOK, Pinger, Helper
<1>5. ASSUME NEW n \in Nodes, PingTimeout(n) PROVE PingsOK'
  <2>1. pinger[n].pc = "direct" /\ UNCHANGED loop
    BY <1>5 DEF PingTimeout
  <2>2. pinger[n] \in [pc : {"direct", "indirect"}, target : Nodes, id : PingIDs]
    BY <1>1, <2>1 DEF PingsOK, Pinger, Idle
  <2>3. \A h \in Alive(n) : Sent(n, h, "indirect", pinger[n].id, pinger[n].target, NoPings)
                              \subseteq MessageType
    BY <2>2, SentType DEF Alive
  <2>4. wire' \subseteq MessageType
    BY <1>3, <1>5, <2>3 DEF PingTimeout
  <2>5. [pinger[n] EXCEPT !.pc = "indirect"] \in Pinger
    BY <2>2 DEF Pinger
  <2>6. EndPing(n) \/ (/\ pinger' = [pinger EXCEPT ![n].pc = "indirect"]
                       /\ UNCHANGED pending)
    BY <1>5 DEF PingTimeout
  <2>7. pinger' \in [Nodes -> Pinger] /\ pending' \in [Nodes -> PendingMap]
    <3>1. CASE EndPing(n)
      BY <1>1, <2>1, <3>1, EndPingTypes
    <3>2. CASE pinger' = [pinger EXCEPT ![n].pc = "indirect"] /\ UNCHANGED pending
      BY <1>1, <2>5, <3>2 DEF PingsOK
    <3> QED BY <2>6, <3>1, <3>2
  <2> QED BY <1>1, <2>1, <2>4, <2>7 DEF PingsOK
<1>6. ASSUME NEW n \in Nodes, PingAcked(n) \/ IndirectTimeout(n) PROVE PingsOK'
  <2>1. pinger[n].pc # "idle" /\ EndPing(n) /\ UNCHANGED <<wire, loop>>
    BY <1>6 DEF PingAcked, IndirectTimeout
  <2> QED BY <1>1, <2>1, EndPingTypes DEF PingsOK
<1>7. ASSUME NEW n \in Nodes, HelpDone(n) PROVE PingsOK'
  <2>1. loop[n] \in [pc : {"helping"}, req : Nodes, id : PingIDs, target : Nodes]
    BY <1>1, <1>7 DEF HelpDone, PingsOK, Helper, Free
  <2>2. Sent(n, loop[n].req, "ack", loop[n].id, loop[n].target, NoPings) \subseteq MessageType
    BY <2>1, SentType
  <2>3. RemovePending(pending[n], loop[n].id) \in PendingMap
    BY <1>1, <2>1, PendingTypes DEF PingsOK
  <2>4. wire' \subseteq MessageType
    BY <1>3, <1>7, <2>2 DEF HelpDone
  <2> QED BY <1>1, <1>7, <2>3, <2>4 DEF HelpDone, PingsOK, Helper
<1>8. ASSUME NEW n \in Nodes, Listen(n) \/ Bootstrap(n) PROVE PingsOK'
  BY <1>2, <1>3, <1>8 DEF Listen, Bootstrap
<1>9. ASSUME NEW p \in Pairs, Heartbeat(p[1], p[2]) PROVE PingsOK'
  <2>1. p[1] \in Nodes /\ p[2] \in Nodes
    BY DEF Pairs
  <2>2. PeerInfos(p[1]) \in [{k \in Nodes : entry[p[1]][k].state # "none"} -> {"listen", "eph"}]
    BY <2>1 DEF PeerInfos, TypeOK, PeerType
  <2>3. Sent(p[1], p[2], "heartbeat", <<0, 0>>, 0, PeerInfos(p[1])) \subseteq MessageType
    BY <2>1, <2>2, SentType
  <2> QED BY <1>2, <1>3, <1>9, <2>3 DEF Heartbeat
<1>10. ASSUME NEW n \in Nodes, NEW m \in Nodes, SendPing(n, m) PROVE PingsOK'
  <2>1. PICK k \in {0, 1} :
          /\ wire' = wire \cup Sent(n, m, "ping", <<n, k>>, m, NoPings)
          /\ \/ UNCHANGED <<pinger, pending>>
             \/ /\ pinger' = [pinger EXCEPT ![n] =
                                [pc |-> "direct", target |-> m, id |-> <<n, k>>]]
                /\ pending' = [pending EXCEPT ![n] = AddPending(@, <<n, k>>)]
    BY <1>10 DEF SendPing
  <2>2. <<n, k>> \in PingIDs
    BY DEF PingIDs
  <2>3. wire' \subseteq MessageType
    BY <1>3, <2>1, <2>2, SentType
  <2>4. AddPending(pending[n], <<n, k>>) \in PendingMap
    BY <1>1, <2>2, PendingTypes DEF PingsOK
  <2>5. [pc |-> "direct", target |-> m, id |-> <<n, k>>] \in Pinger
    BY <2>2 DEF Pinger
  <2>6. pinger' \in [Nodes -> Pinger] /\ pending' \in [Nodes -> PendingMap]
    BY <1>1, <2>1, <2>4, <2>5 DEF PingsOK
  <2> QED BY <1>1, <1>10, <2>3, <2>6 DEF SendPing, PingsOK
<1>11. ASSUME NEW p \in Pairs, Break(p[1], p[2]) \/ ReadDeadline(p[1], p[2]) PROVE PingsOK'
  BY <1>2, <1>3, <1>11 DEF Break, ReadDeadline, Closed
<1>12. ASSUME NEW p \in Pairs,
              Connect(p[1], p[2]) \/ Silence(p[1], p[2]) \/ Lapse(p[1], p[2])
                \/ CheckSuspicion(p[1], p[2])
       PROVE  PingsOK'
  BY <1>2, <1>3, <1>12, Zenon DEF Connect, Silence, Lapse, CheckSuspicion
<1>13. ASSUME NEW p \in Pairs, Receive(p[1], p[2]) PROVE PingsOK'
  BY <1>1, <1>2, <1>3, <1>13, HandleRPCPings DEF Receive, Accept
<1>14. ASSUME UNCHANGED vars PROVE PingsOK'
  BY <1>2, <1>3, <1>14 DEF vars
<1>15. ASSUME NEW p \in Pairs, SendPing(p[1], p[2]) PROVE PingsOK'
  BY <1>10, <1>15 DEF Pairs
<1> QED BY <1>4, <1>5, <1>6, <1>7, <1>8, <1>9, <1>11, <1>12, <1>13, <1>14, <1>15
        DEF Next, Waits

----------------------------------------------------------------------------
(* The theorems.                                                           *)

LEMMA InitInvariant == Init => IInv
<1> SUFFICES ASSUME Init PROVE IInv
  OBVIOUS
<1> DEFINE live == start.settled \ start.lost
<1>1. start \in Situation /\ live \subseteq Nodes /\ start.events \in Nat
  BY StartsAssumption DEF Init, Situation
<1>2. \A n, m \in Nodes :
        /\ status[n] = IF n \in live THEN "running" ELSE "down"
        /\ link[n][m] = IF n \in live /\ m \in live /\ n < m THEN "open" ELSE "none"
        /\ entry[n][m] =
             IF n \notin live \/ m \notin start.settled \ {n} THEN NoPeer
             ELSE NewPeer(IF m \in start.lost THEN "no" ELSE IF n < m THEN "out" ELSE "in",
                          IF n < m THEN "listen" ELSE "eph")
  BY DEF Init
<1>3. \A n, m \in Nodes : entry[n][m] \in PeerType
  BY <1>2, NewPeerType
<1>4. TypeOK
  <2>1. PeersOK
    <3>1. entry \in [Nodes -> [Nodes -> PeerType]]
      BY <1>3 DEF Init
    <3> QED BY <1>1, <3>1 DEF Init, PeersOK
  <2>2. PingsOK
    BY PendingTypes DEF Init, PingsOK, Pinger, Helper
  <2> QED BY <2>1, <2>2 DEF TypeOK, PeersOK, PingsOK, Pinger, Helper, PendingMap
<1>5. \A n, m \in Nodes : n \in Int /\ m \in Int
  BY NodesAssumption
<1> HIDE DEF live
<1>6. NoPeer.via = "no" /\ NoPeer.addr = "listen" /\ NoPeer.state = "none"
  BY DEF NoPeer
<1>7. \A via, addr : /\ NewPeer(via, addr).via = via /\ NewPeer(via, addr).addr = addr
                     /\ NewPeer(via, addr).state = "alive"
  BY DEF NewPeer
<1>8. DialsRun
  BY <1>2 DEF DialsRun, Init
<1>9. Dialable
  BY <1>2, <1>5, <1>6, <1>7 DEF Dialable, live
<1>10. ConnUsable
  BY <1>2, <1>5, <1>6, <1>7 DEF ConnUsable, live
<1>11. NoPendingLeak
  BY DEF Init, NoPendingLeak, NoPings
<1> QED BY <1>4, <1>8, <1>9, <1>10, <1>11 DEF IInv

(* Every step of the loops, the transport and the faults keeps the         *)
(* invariant, and a connection in use is given up only when it closes.     *)
LEMMA NextInvariant == IInv /\ [Next]_vars => IInv' /\ LiveStep
<1> SUFFICES ASSUME IInv, [Next]_vars PROVE IInv' /\ LiveStep
  OBVIOUS
<1>1. TypeOK /\ Conns /\ NoPendingLeak
  BY DEF IInv, Conns
<1>2. Conns' /\ LiveStep
  BY <1>1, NextConns
<1>3. NoPendingLeak'
  BY <1>1, NextPending
<1>4. PeersOK' /\ PingsOK'
  BY <1>1, NextPeers, NextPings
<1>5. TypeOK'
  BY <1>4 DEF TypeOK, PeersOK, PingsOK, Pinger, Helper, PendingMap
<1> QED BY <1>2, <1>3, <1>5 DEF IInv, Conns

(* The inductive invariant of Gossip.                                      *)
THEOREM GossipInvariant == Spec => []IInv
<1>1. IInv /\ [Next]_vars => IInv'
  BY NextInvariant
<1> QED BY <1>1, InitInvariant, PTL DEF Spec

(* cleanupConn (tcp_transport.go) leaves no Peer with a closed connection, *)
(* for any number of daemons whose dials cross, break, and are repeated.   *)
THEOREM ConnectionsUsable == Spec => []ConnUsable
<1>1. IInv => ConnUsable
  BY DEF IInv
<1> QED BY <1>1, GossipInvariant, PTL

(* sendPing and handleIndirectPing (gossip.go) take their entries out of   *)
(* pendingPings on every path.                                             *)
THEOREM PendingPingsAwaited == Spec => []NoPendingLeak
<1>1. IInv => NoPendingLeak
  BY DEF IInv
<1> QED BY <1>1, GossipInvariant, PTL

(* An accepted connection that a Peer uses is detached only when it closes,*)
(* never because another connection to the same node closes.               *)
THEOREM AcceptedConnKept == Spec => LiveConnKept
<1>1. IInv /\ [Next]_vars => [\A n, m \in Nodes :
          entry[n][m].via = "in" /\ entry'[n][m].via = "no" => link'[m][n] = "none"]_vars
  BY NextInvariant DEF LiveStep
<1> QED BY <1>1, GossipInvariant, PTL DEF Spec, LiveConnKept
=============================================================================
