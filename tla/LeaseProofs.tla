---------------------------- MODULE LeaseProofs -----------------------------
(* Proofs about Lease, for any cluster, durations and number of requests.  *)
EXTENDS Lease, FiniteSetTheorems, TLAPS

(* Node n granted lease l and has not given the key to anyone since.       *)
Remembers(n, l) == grantee[n] = l /\ granted[n] = acquiring[l].expiry

(* Requests and answers are about a call that was made, and a request carries its   *)
(* expiry.                                                                 *)
MessagesInv ==
  \A m \in msgs :
    /\ m.type # "release" => acquiring[m.lease].phase # "unused"
    /\ m.type = "request" => m.expiry = acquiring[m.lease].expiry

(* A grant is remembered by the node that gave it, while it is on its way  *)
(* and once it is counted.                                                 *)
GrantsInv ==
  ~stray =>
    /\ \A m \in msgs :
         m.type = "grant" /\ Wanted(m.lease) => Remembers(m.peer, m.lease)
    /\ \A l \in Leases : Wanted(l) =>
         \A n \in acquiring[l].grants : Remembers(n, l)

(* An operation runs only with a quorum behind it.                         *)
QuorumInv ==
  \A l \in Leases : acquiring[l].phase = "busy" =>
    Cardinality(acquiring[l].grants) >= Quorum(l.node)

IInv == TypeOK /\ MessagesInv /\ GrantsInv /\ QuorumInv

----------------------------------------------------------------------------
LEMMA LeaseNode == \A l \in Leases : l.node \in Nodes
BY DEF Leases

LEMMA InitIInv == Init => IInv
<1> SUFFICES ASSUME Init PROVE IInv
  OBVIOUS
<1>1. TypeOK
  <2>1. clock \in 0 .. MaxClock /\ 0 \in Expiries
    BY BoundsAssumption DEF Init, Expiries
  <2>2. granted \in [Nodes -> Expiries]
    BY <2>1 DEF Init
  <2>3. acquiring \in [Leases -> Acquires]
    BY <2>1 DEF Init, Acquires, Phases
  <2> QED BY <2>1, <2>2, <2>3 DEF Init, TypeOK
<1>2. \A l \in Leases : acquiring[l].phase = "unused" /\ acquiring[l].grants = {}
  BY DEF Init
<1>3. msgs = {}
  BY DEF Init
<1> QED BY <1>1, <1>2, <1>3
  DEF IInv, MessagesInv, GrantsInv, QuorumInv, Wanted

LEMMA AcquireIInv ==
  ASSUME IInv, NEW l \in Leases, NEW S \in SUBSET Peers(l.node), Acquire(l, S)
  PROVE  IInv'
<1> DEFINE e == clock + Duration
<1>1. e \in Expiries
  BY BoundsAssumption DEF IInv, TypeOK, Expiries
<1>2. S \subseteq Nodes
  BY DEF Peers
<1>3. /\ acquiring'[l].phase \in {"waiting", "over"}
      /\ acquiring'[l].expiry = e
      /\ acquiring'[l].grants = {}
      /\ acquiring'[l] \in Acquires
      /\ \A k \in Leases \ {l} : acquiring'[k] = acquiring[k]
  BY <1>1 DEF IInv, TypeOK, Acquire, Acquires, Phases
<1>4. \A m \in msgs' : m \in msgs \/ (m.type = "request" /\ m.lease = l /\ m.expiry = e)
  BY DEF Acquire, Broadcast, Message
<1>5. TypeOK'
  <2>1. acquiring' \in [Leases -> Acquires]
    BY <1>3 DEF IInv, TypeOK, Acquire
  <2>2. Broadcast("request", l, S, e) \subseteq Messages
    BY <1>1, <1>2 DEF Broadcast, Message, Messages
  <2> QED BY <2>1, <2>2 DEF IInv, TypeOK, Acquire
<1>6. \A m \in msgs : m.type # "release" => m.lease \in Leases \ {l}
  BY DEF IInv, TypeOK, Messages, MessagesInv, Acquire
<1>7. MessagesInv'
  BY <1>3, <1>4, <1>6 DEF IInv, MessagesInv
<1>8. GrantsInv'
  <2> SUFFICES ASSUME ~stray
               PROVE  /\ \A m \in msgs' : m.type = "grant" /\ Wanted(m.lease)' =>
                           Remembers(m.peer, m.lease)'
                      /\ \A k \in Leases : Wanted(k)' =>
                           \A n \in acquiring'[k].grants : Remembers(n, k)'
    BY DEF GrantsInv, Acquire
  <2>1. \A k \in Leases \ {l} : Wanted(k)' = Wanted(k)
    BY <1>3 DEF Wanted, Acquire
  <2>2. \A k \in Leases \ {l}, n \in Nodes : Remembers(n, k)' = Remembers(n, k)
    BY <1>3 DEF Remembers, Acquire
  <2>3. \A m \in msgs' : m.type = "grant" => m \in msgs /\ m.peer \in Nodes
    BY <1>4 DEF IInv, TypeOK, Messages
  <2>4. \A k \in Leases : acquiring[k].grants \subseteq Nodes
    BY DEF IInv, TypeOK, Acquires
  <2>5. GrantsInv
    BY DEF IInv
  <2>6. \A m \in msgs' : m.type = "grant" /\ Wanted(m.lease)' =>
                           Remembers(m.peer, m.lease)'
    BY <1>6, <2>1, <2>2, <2>3, <2>5 DEF GrantsInv
  <2>7. \A k \in Leases : Wanted(k)' =>
                           \A n \in acquiring'[k].grants : Remembers(n, k)'
    BY <1>3, <2>1, <2>2, <2>4, <2>5 DEF GrantsInv
  <2> QED BY <2>6, <2>7
<1>9. QuorumInv'
  BY <1>3 DEF IInv, QuorumInv, Quorum, Peers
<1> QED BY <1>5, <1>7, <1>8, <1>9 DEF IInv

(* Phase changes other than to "busy", and the steps that only lose        *)
(* messages or leases held, keep everything.                               *)
LEMMA ShrinkIInv ==
  ASSUME IInv, TypeOK', msgs' \subseteq msgs, stray' = stray,
         granted' = granted, grantee' = grantee,
         clock' \in Nat, clock' >= clock,
         \A l \in Leases :
           /\ acquiring'[l].expiry = acquiring[l].expiry
           /\ acquiring'[l].grants = acquiring[l].grants
           /\ acquiring'[l].phase # "unused" \/ acquiring[l].phase = "unused"
           /\ acquiring'[l].phase \in {"waiting", "busy"} =>
                acquiring[l].phase \in {"waiting", "busy"}
           /\ acquiring'[l].phase = "busy" =>
                Cardinality(acquiring[l].grants) >= Quorum(l.node)
  PROVE  IInv'
<1>1. \A m \in msgs : m.lease \in Leases /\ m.peer \in Nodes
  BY DEF IInv, TypeOK, Messages
<1>2. \A l \in Leases : Wanted(l)' => Wanted(l)
  <2> SUFFICES ASSUME NEW l \in Leases, Wanted(l)' PROVE Wanted(l)
    OBVIOUS
  <2>1. clock \in Int /\ clock' \in Int /\ acquiring[l].expiry \in Int
    BY DEF IInv, TypeOK, Acquires, Expiries
  <2> QED BY <2>1 DEF Wanted
<1>3. \A l \in Leases : \A n \in Nodes : Remembers(n, l)' = Remembers(n, l)
  BY DEF Remembers
<1>4. MessagesInv'
  BY <1>1 DEF IInv, MessagesInv
<1>5. GrantsInv'
  <2>1. \A l \in Leases : acquiring[l].grants \subseteq Nodes
    BY DEF IInv, TypeOK, Acquires
  <2> QED BY <1>1, <1>2, <1>3, <2>1 DEF IInv, GrantsInv
<1>6. QuorumInv'
  BY DEF QuorumInv, Quorum, Peers
<1> QED BY <1>4, <1>5, <1>6 DEF IInv

LEMMA AcquireSucceedsIInv ==
  ASSUME IInv, NEW l \in Leases, AcquireSucceeds(l)
  PROVE  IInv'
<1>1. /\ acquiring'[l] = [acquiring[l] EXCEPT !.phase = "busy"]
      /\ \A k \in Leases \ {l} : acquiring'[k] = acquiring[k]
      /\ acquiring[l] \in Acquires
  BY DEF IInv, TypeOK, AcquireSucceeds
<1>2. TypeOK'
  BY <1>1 DEF IInv, TypeOK, AcquireSucceeds, Acquires, Phases
<1>3. \A k \in Leases :
        /\ acquiring'[k].expiry = acquiring[k].expiry
        /\ acquiring'[k].grants = acquiring[k].grants
        /\ acquiring'[k].phase # "unused" \/ acquiring[k].phase = "unused"
        /\ acquiring'[k].phase \in {"waiting", "busy"} =>
             acquiring[k].phase \in {"waiting", "busy"}
        /\ acquiring'[k].phase = "busy" =>
             Cardinality(acquiring[k].grants) >= Quorum(k.node)
  BY <1>1 DEF IInv, QuorumInv, AcquireSucceeds, Acquires
<1>4. clock' \in Nat /\ clock' >= clock
  BY BoundsAssumption DEF IInv, TypeOK, AcquireSucceeds
<1> QED BY <1>2, <1>3, <1>4, ShrinkIInv DEF AcquireSucceeds

LEMMA AcquireTimesOutIInv ==
  ASSUME IInv, NEW l \in Leases, AcquireTimesOut(l)
  PROVE  IInv'
<1>1. /\ acquiring'[l] = [acquiring[l] EXCEPT !.phase = "over"]
      /\ \A k \in Leases \ {l} : acquiring'[k] = acquiring[k]
      /\ acquiring[l] \in Acquires
  BY DEF IInv, TypeOK, AcquireTimesOut
<1>2. TypeOK'
  BY <1>1 DEF IInv, TypeOK, AcquireTimesOut, Acquires, Phases
<1>3. \A k \in Leases :
        /\ acquiring'[k].expiry = acquiring[k].expiry
        /\ acquiring'[k].grants = acquiring[k].grants
        /\ acquiring'[k].phase # "unused" \/ acquiring[k].phase = "unused"
        /\ acquiring'[k].phase \in {"waiting", "busy"} =>
             acquiring[k].phase \in {"waiting", "busy"}
        /\ acquiring'[k].phase = "busy" =>
             Cardinality(acquiring[k].grants) >= Quorum(k.node)
  BY <1>1 DEF IInv, QuorumInv, AcquireTimesOut, Acquires
<1>4. clock' \in Nat /\ clock' >= clock
  BY BoundsAssumption DEF IInv, TypeOK, AcquireTimesOut
<1> QED BY <1>2, <1>3, <1>4, ShrinkIInv DEF AcquireTimesOut

(* Tick, CleanupExpired on leases held, and stuttering: no call changes.   *)
LEMMA TickIInv == IInv /\ (Tick \/ UNCHANGED vars) => IInv'
<1> SUFFICES ASSUME IInv, Tick \/ UNCHANGED vars PROVE IInv'
  OBVIOUS
<1>1. TypeOK' /\ clock' \in Nat /\ clock' >= clock
  BY BoundsAssumption DEF IInv, TypeOK, Tick, vars
<1> QED BY <1>1, ShrinkIInv DEF Tick, vars, IInv, QuorumInv

LEMMA HandleLeaseGrantIInv ==
  ASSUME IInv, NEW m \in msgs, HandleLeaseGrant(m)
  PROVE  IInv'
<1>1. m \in Messages /\ m.lease \in Leases /\ m.peer \in Nodes
  BY DEF IInv, TypeOK, Messages
<1>2. CASE ~(m.type = "grant" /\ acquiring[m.lease].phase = "waiting")
  <2>1. acquiring' = acquiring
    BY <1>2 DEF HandleLeaseGrant
  <2>2. clock' \in Nat /\ clock' >= clock
    BY DEF IInv, TypeOK, HandleLeaseGrant
  <2>3. TypeOK'
    BY <2>1 DEF IInv, TypeOK, HandleLeaseGrant
  <2> QED BY <2>1, <2>2, <2>3, ShrinkIInv DEF HandleLeaseGrant, IInv, QuorumInv
<1>3. CASE m.type = "grant" /\ acquiring[m.lease].phase = "waiting"
  <2>l. PICK l \in Leases : l = m.lease
    BY <1>1
  <2>1. /\ acquiring'[l] = [acquiring[l] EXCEPT !.grants = @ \cup {m.peer}]
        /\ \A k \in Leases \ {l} : acquiring'[k] = acquiring[k]
        /\ acquiring' \in [Leases -> Acquires]
    BY <1>1, <1>3, <2>l DEF IInv, TypeOK, HandleLeaseGrant, Acquires
  <2>2. \A k \in Leases : /\ acquiring'[k].phase = acquiring[k].phase
                          /\ acquiring'[k].expiry = acquiring[k].expiry
    BY <2>1 DEF IInv, TypeOK, Acquires
  <2>3. TypeOK'
    BY <2>1 DEF IInv, TypeOK, HandleLeaseGrant
  <2>4. MessagesInv'
    BY <2>2 DEF IInv, TypeOK, Messages, MessagesInv, HandleLeaseGrant
  <2>5. \A k \in Leases : Wanted(k)' = Wanted(k)
    BY <2>2 DEF Wanted, HandleLeaseGrant
  <2>6. \A k \in Leases, n \in Nodes : Remembers(n, k)' = Remembers(n, k)
    BY <2>2 DEF Remembers, HandleLeaseGrant
  <2>7. acquiring'[l].grants = acquiring[l].grants \cup {m.peer}
    BY <2>1 DEF IInv, TypeOK, Acquires
  <2>8. GrantsInv'
    <3> SUFFICES ASSUME ~stray
                 PROVE  /\ \A x \in msgs : x.type = "grant" /\ Wanted(x.lease)' =>
                             Remembers(x.peer, x.lease)'
                        /\ \A k \in Leases : Wanted(k)' =>
                             \A n \in acquiring'[k].grants : Remembers(n, k)'
      BY DEF GrantsInv, HandleLeaseGrant
    <3>1. GrantsInv
      BY DEF IInv
    <3>2. \A x \in msgs : x.type = "grant" /\ Wanted(x.lease)' =>
                             Remembers(x.peer, x.lease)'
      BY <2>5, <2>6, <3>1 DEF GrantsInv, IInv, TypeOK, Messages
    <3>3. \A k \in Leases : acquiring[k].grants \subseteq Nodes
      BY DEF IInv, TypeOK, Acquires
    <3>4. ASSUME NEW k \in Leases, Wanted(k)', NEW n \in acquiring'[k].grants
          PROVE  Remembers(n, k)'
      <4>1. CASE k # l
        BY <2>1, <2>5, <2>6, <3>1, <3>3, <3>4, <4>1 DEF GrantsInv
      <4>2. CASE k = l /\ n \in acquiring[l].grants
        BY <2>5, <2>6, <3>1, <3>3, <3>4, <4>2 DEF GrantsInv
      <4>3. CASE k = l /\ n = m.peer
        BY <1>1, <1>3, <2>l, <2>5, <2>6, <3>1, <3>4, <4>3 DEF GrantsInv
      <4> QED BY <2>7, <3>4, <4>1, <4>2, <4>3
    <3> QED BY <3>2, <3>4
  <2>9. QuorumInv'
    <3>1. \A k \in Leases : acquiring'[k].phase = "busy" =>
            k # l /\ acquiring'[k] = acquiring[k]
      BY <1>3, <2>l, <2>1, <2>2
    <3> QED BY <3>1 DEF IInv, QuorumInv, Quorum, Peers
  <2> QED BY <2>3, <2>4, <2>8, <2>9 DEF IInv
<1> QED BY <1>2, <1>3

(* ReleaseByKey ends a call and sends messages that no invariant reads.    *)
LEMMA ReleaseByKeyIInv ==
  ASSUME IInv, NEW l \in Leases, NEW S \in SUBSET Peers(l.node),
         ReleaseByKey(l, S)
  PROVE  IInv'
<1>1. /\ acquiring'[l] = [acquiring[l] EXCEPT !.phase = "over"]
      /\ \A k \in Leases \ {l} : acquiring'[k] = acquiring[k]
      /\ acquiring[l] \in Acquires /\ acquiring[l].phase = "busy"
      /\ acquiring' \in [Leases -> Acquires]
  BY DEF IInv, TypeOK, ReleaseByKey, Acquires, Phases
<1>2. \A k \in Leases :
        /\ acquiring'[k].expiry = acquiring[k].expiry
        /\ acquiring'[k].grants = acquiring[k].grants
        /\ acquiring'[k].phase = acquiring[k].phase \/ k = l
        /\ acquiring'[l].phase = "over"
  BY <1>1 DEF Acquires
<1>3. S \subseteq Nodes /\ 0 \in Expiries
  BY BoundsAssumption DEF Peers, Expiries
<1>4. \A k \in Leases : \A m \in Broadcast("release", k, S, 0) :
        m \in Messages /\ m.type = "release"
  BY <1>3 DEF Broadcast, Message, Messages
<1>5. \A m \in msgs' : m \in msgs \/ (m \in Messages /\ m.type = "release")
  BY <1>4 DEF ReleaseByKey, IInv, TypeOK
<1>6. TypeOK'
  <2>1. held' \subseteq held
    BY DEF ReleaseByKey
  <2> QED BY <1>1, <1>5, <2>1 DEF IInv, TypeOK, ReleaseByKey
<1>7. MessagesInv'
  BY <1>2, <1>5 DEF IInv, TypeOK, Messages, MessagesInv
<1>8. \A k \in Leases : Wanted(k)' => Wanted(k)
  BY <1>2 DEF Wanted, ReleaseByKey
<1>9. \A k \in Leases, n \in Nodes : Remembers(n, k)' = Remembers(n, k)
  BY <1>2 DEF Remembers, ReleaseByKey
<1>10. GrantsInv'
  <2>1. \A k \in Leases : acquiring[k].grants \subseteq Nodes
    BY DEF IInv, TypeOK, Acquires
  <2>2. \A m \in msgs' : m.type = "grant" =>
          m \in msgs /\ m.lease \in Leases /\ m.peer \in Nodes
    BY <1>5 DEF IInv, TypeOK, Messages
  <2>3. stray' = stray
    BY DEF ReleaseByKey
  <2> QED BY <1>2, <1>8, <1>9, <2>1, <2>2, <2>3 DEF IInv, GrantsInv
<1>11. QuorumInv'
  BY <1>2 DEF IInv, QuorumInv, Quorum, Peers
<1> QED BY <1>6, <1>7, <1>10, <1>11 DEF IInv

(* A request is granted only when no wanted lease relies on the node.      *)
LEMMA HandleLeaseRequestIInv ==
  ASSUME IInv, NEW m \in msgs, NEW sent \in BOOLEAN, HandleLeaseRequest(m, sent)
  PROVE  IInv'
<1>n. PICK n \in Nodes : n = m.peer
  BY DEF IInv, TypeOK, Messages
<1>l. PICK l \in Leases : l = m.lease
  BY DEF IInv, TypeOK, Messages
<1> USE <1>n, <1>l
<1>1. /\ m.type = "request" /\ m.expiry = acquiring[l].expiry
      /\ m.expiry \in Expiries /\ acquiring[l].phase # "unused"
  BY DEF IInv, TypeOK, Messages, MessagesInv, HandleLeaseRequest
<1>2. UNCHANGED <<clock, acquiring, held, stray>>
  BY DEF HandleLeaseRequest
<1>3. \A k \in Leases : Wanted(k)' = Wanted(k)
  BY <1>2 DEF Wanted
<1>4. QuorumInv'
  BY <1>2 DEF IInv, QuorumInv, Quorum, Peers
<1>5. 0 \in Expiries
  BY BoundsAssumption DEF Expiries
<1>6. CASE Taken(n)
  <2>1. granted' = granted /\ grantee' = grantee
    BY <1>6 DEF HandleLeaseRequest
  <2>2. \A x \in msgs' : x \in msgs \/ x = Message("deny", l, n, 0)
    BY <1>6 DEF HandleLeaseRequest
  <2>3. Message("deny", l, n, 0) \in Messages
    BY <1>5 DEF Message, Messages
  <2>4. TypeOK'
    BY <1>2, <2>1, <2>2, <2>3 DEF IInv, TypeOK
  <2>5. MessagesInv'
    BY <1>1, <1>2, <2>2 DEF IInv, MessagesInv, Message
  <2>6. \A k \in Leases, v \in Nodes : Remembers(v, k)' = Remembers(v, k)
    BY <1>2, <2>1 DEF Remembers
  <2>7. \A x \in msgs' : x.type = "grant" =>
          x \in msgs /\ x.lease \in Leases /\ x.peer \in Nodes
    BY <2>2 DEF IInv, TypeOK, Messages, Message
  <2>8. \A k \in Leases : acquiring[k].grants \subseteq Nodes
    BY DEF IInv, TypeOK, Acquires
  <2>9. GrantsInv'
    BY <1>2, <1>3, <2>6, <2>7, <2>8 DEF IInv, GrantsInv
  <2> QED BY <1>4, <2>4, <2>5, <2>9 DEF IInv
<1>7. CASE ~Taken(n)
  <2>1. /\ granted' = [granted EXCEPT ![n] = m.expiry]
        /\ grantee' = [grantee EXCEPT ![n] = l]
    BY <1>7 DEF HandleLeaseRequest, GrantedUntil
  <2>2. \A x \in msgs' : x \in msgs \/ x = Message("grant", l, n, 0)
    BY <1>7 DEF HandleLeaseRequest
  <2>3. Message("grant", l, n, 0) \in Messages
    BY <1>5 DEF Message, Messages
  <2>4. TypeOK'
    BY <1>1, <1>2, <2>1, <2>2, <2>3 DEF IInv, TypeOK
  <2>5. MessagesInv'
    BY <1>1, <1>2, <2>2 DEF IInv, MessagesInv, Message
  <2>6. Remembers(n, l)'
    BY <1>1, <1>2, <2>1 DEF Remembers, IInv, TypeOK
  <2>7. \A k \in Leases : \A v \in Nodes \ {n} : Remembers(v, k)' = Remembers(v, k)
    BY <1>2, <2>1 DEF Remembers, IInv, TypeOK
  <2>8. \A k \in Leases : Wanted(k) => ~Remembers(n, k)
    BY <1>7 DEF Wanted, Remembers, Taken, IInv, TypeOK, Expiries, Acquires
  <2>9. GrantsInv'
    <3> SUFFICES ASSUME ~stray
                 PROVE  /\ \A x \in msgs' : x.type = "grant" /\ Wanted(x.lease)' =>
                             Remembers(x.peer, x.lease)'
                        /\ \A k \in Leases : Wanted(k)' =>
                             \A v \in acquiring'[k].grants : Remembers(v, k)'
      BY <1>2 DEF GrantsInv
    <3>1. GrantsInv
      BY DEF IInv
    <3>2. ASSUME NEW x \in msgs', x.type = "grant", Wanted(x.lease)'
          PROVE  Remembers(x.peer, x.lease)'
      <4>1. CASE x \in msgs
        <5>1. x.lease \in Leases /\ x.peer \in Nodes
          BY <4>1 DEF IInv, TypeOK, Messages
        <5>2. Remembers(x.peer, x.lease)
          BY <1>3, <3>1, <3>2, <4>1, <5>1 DEF GrantsInv
        <5>3. x.peer # n
          BY <1>3, <2>8, <3>2, <5>1, <5>2
        <5> QED BY <2>7, <5>1, <5>2, <5>3
      <4>2. CASE x = Message("grant", l, n, 0)
        <5>1. x.peer = n /\ x.lease = l
          BY <4>2 DEF Message
        <5> QED BY <2>6, <5>1 DEF Remembers
      <4> QED BY <2>2, <4>1, <4>2
    <3>3. ASSUME NEW k \in Leases, Wanted(k)', NEW v \in acquiring'[k].grants
          PROVE  Remembers(v, k)'
      <4>1. v \in Nodes /\ Remembers(v, k) /\ Wanted(k)
        BY <1>2, <1>3, <3>1, <3>3 DEF GrantsInv, IInv, TypeOK, Acquires
      <4>2. v # n
        BY <2>8, <4>1
      <4> QED BY <2>7, <4>1, <4>2
    <3> QED BY <3>2, <3>3
  <2> QED BY <1>4, <2>4, <2>5, <2>9 DEF IInv
<1> QED BY <1>6, <1>7

(* A release either takes a grant nobody wants, or is recorded as stray.   *)
LEMMA HandleLeaseReleaseIInv ==
  ASSUME IInv, NEW m \in msgs, HandleLeaseRelease(m)
  PROVE  IInv'
<1>n. PICK n \in Nodes : n = m.peer
  BY DEF IInv, TypeOK, Messages
<1> USE <1>n
<1>1. /\ UNCHANGED <<clock, acquiring, held>>
      /\ msgs' \subseteq msgs
      /\ granted' = [granted EXCEPT ![n] = 0]
      /\ grantee' = [grantee EXCEPT ![n] = NoLease]
      /\ stray' = (stray \/ \E l \in Leases : grantee[n] = l /\ Wanted(l))
  BY DEF HandleLeaseRelease
<1>2. TypeOK'
  <2>1. 0 \in Expiries
    BY BoundsAssumption DEF Expiries
  <2>2. stray' \in BOOLEAN
    BY <1>1
  <2> QED BY <1>1, <2>1, <2>2 DEF IInv, TypeOK
<1>3. MessagesInv'
  BY <1>1 DEF IInv, MessagesInv
<1>4. QuorumInv'
  BY <1>1 DEF IInv, QuorumInv, Quorum, Peers
<1>5. GrantsInv'
  <2> SUFFICES ASSUME ~stray'
               PROVE  /\ \A x \in msgs : x.type = "grant" /\ Wanted(x.lease) =>
                           Remembers(x.peer, x.lease)'
                      /\ \A k \in Leases : Wanted(k) =>
                           \A v \in acquiring[k].grants : Remembers(v, k)'
    BY <1>1 DEF GrantsInv, Wanted
  <2>1. ~stray /\ \A l \in Leases : Wanted(l) => grantee[n] # l
    BY <1>1
  <2>2. GrantsInv
    BY DEF IInv
  <2>3. \A k \in Leases, v \in Nodes : Wanted(k) /\ Remembers(v, k) => Remembers(v, k)'
    BY <1>1, <2>1 DEF Remembers, IInv, TypeOK
  <2>4. \A x \in msgs : x.lease \in Leases /\ x.peer \in Nodes
    BY DEF IInv, TypeOK, Messages
  <2>5. \A k \in Leases : acquiring[k].grants \subseteq Nodes
    BY DEF IInv, TypeOK, Acquires
  <2> QED BY <2>1, <2>2, <2>3, <2>4, <2>5 DEF GrantsInv
<1> QED BY <1>2, <1>3, <1>4, <1>5 DEF IInv

(* The cleanup forgets only grants that have expired.                      *)
LEMMA CleanupExpiredIInv ==
  ASSUME IInv, NEW n \in Nodes, CleanupExpired(n)
  PROVE  IInv'
<1>1. /\ UNCHANGED <<clock, acquiring, msgs, grantee, stray>>
      /\ granted' = [granted EXCEPT ![n] = IF granted[n] < clock THEN 0 ELSE granted[n]]
      /\ held' \subseteq held
  BY DEF CleanupExpired, IInv, TypeOK
<1>2. TypeOK'
  <2>1. 0 \in Expiries
    BY BoundsAssumption DEF Expiries
  <2> QED BY <1>1, <2>1 DEF IInv, TypeOK
<1>3. MessagesInv' /\ QuorumInv'
  BY <1>1 DEF IInv, MessagesInv, QuorumInv, Quorum, Peers
<1>4. GrantsInv'
  <2>1. \A k \in Leases : Wanted(k)' = Wanted(k)
    BY <1>1 DEF Wanted
  <2>2. ASSUME NEW k \in Leases, NEW v \in Nodes, Wanted(k), Remembers(v, k)
        PROVE  Remembers(v, k)'
    <3>1. granted[v] > clock
      BY <2>2 DEF Remembers, Wanted, IInv, TypeOK, Expiries, Acquires
    <3>2. ~(granted[v] < clock)
      BY <3>1 DEF IInv, TypeOK, Expiries
    <3>3. granted'[v] = granted[v]
      BY <1>1, <3>2 DEF IInv, TypeOK
    <3> QED BY <1>1, <2>2, <3>3 DEF Remembers
  <2>3. \A x \in msgs : x.lease \in Leases /\ x.peer \in Nodes
    BY DEF IInv, TypeOK, Messages
  <2>4. \A k \in Leases : acquiring[k].grants \subseteq Nodes
    BY DEF IInv, TypeOK, Acquires
  <2> QED BY <1>1, <2>1, <2>2, <2>3, <2>4 DEF IInv, GrantsInv
<1> QED BY <1>2, <1>3, <1>4 DEF IInv

----------------------------------------------------------------------------
LEMMA NextIInv == IInv /\ [Next]_vars => IInv'
<1> SUFFICES ASSUME IInv, [Next]_vars PROVE IInv'
  OBVIOUS
<1>1. CASE \E l \in Leases : \E S \in SUBSET Peers(l.node) : Acquire(l, S)
  BY <1>1, AcquireIInv
<1>2. CASE \E l \in Leases : AcquireSucceeds(l)
  BY <1>2, AcquireSucceedsIInv
<1>3. CASE \E l \in Leases : AcquireTimesOut(l)
  BY <1>3, AcquireTimesOutIInv
<1>4. CASE \E l \in Leases : \E S \in SUBSET Peers(l.node) : ReleaseByKey(l, S)
  BY <1>4, ReleaseByKeyIInv
<1>5. CASE \E m \in msgs, sent \in BOOLEAN : HandleLeaseRequest(m, sent)
  BY <1>5, HandleLeaseRequestIInv
<1>6. CASE \E m \in msgs : HandleLeaseGrant(m)
  BY <1>6, HandleLeaseGrantIInv
<1>7. CASE \E m \in msgs : HandleLeaseRelease(m)
  BY <1>7, HandleLeaseReleaseIInv
<1>8. CASE \E n \in Nodes : CleanupExpired(n)
  BY <1>8, CleanupExpiredIInv
<1>9. CASE Tick \/ UNCHANGED vars
  BY <1>9, TickIInv
<1> QED BY <1>1, <1>2, <1>3, <1>4, <1>5, <1>6, <1>7, <1>8, <1>9 DEF Next

THEOREM Invariance == Spec => []IInv
BY InitIInv, NextIInv, PTL DEF Spec

(* Type correctness of every node's lease state and of the messages.       *)
THEOREM TypeCorrect == Spec => []TypeOK
<1>1. IInv => TypeOK
  BY DEF IInv
<1> QED BY <1>1, Invariance, PTL

(* Whoever granted a lease that is still wanted keeps the grant: requests  *)
(* and cleanup never take it over.                                         *)
THEOREM VotersRemember == Spec => []GrantsRemembered
<1>1. IInv => GrantsRemembered
  BY DEF IInv, GrantsInv, GrantsRemembered, Remembers
<1> QED BY <1>1, Invariance, PTL

(* Two strict majorities of the peers of an odd cluster share a node.      *)
LEMMA QuorumsIntersect ==
  ASSUME NEW k \in Nat \ {0}, Cardinality(Nodes) = 2 * k + 1,
         NEW a \in Nodes, NEW b \in Nodes,
         NEW A \in SUBSET Nodes, NEW B \in SUBSET Nodes,
         Cardinality(A) >= Quorum(a), Cardinality(B) >= Quorum(b)
  PROVE  A \cap B # {}
<1>1. /\ IsFiniteSet(A) /\ IsFiniteSet(B)
      /\ A \cup B \subseteq Nodes /\ IsFiniteSet(A \cup B)
  BY NodesAssumption, FS_Subset, FS_Union
<1>2. /\ Cardinality(A) \in Nat /\ Cardinality(B) \in Nat
      /\ Cardinality(A \cup B) \in Nat
      /\ Cardinality(A \cup B) <= Cardinality(Nodes)
  BY <1>1, NodesAssumption, FS_CardinalityType, FS_Subset
<1>3. Cardinality(Peers(a)) = 2 * k /\ Cardinality(Peers(b)) = 2 * k
  <2>1. \A n \in Nodes : Cardinality(Nodes \ {n}) = Cardinality(Nodes) - 1
    BY NodesAssumption, FS_RemoveElement
  <2>2. Cardinality(Nodes) - 1 = 2 * k
    OBVIOUS
  <2> QED BY <2>1, <2>2 DEF Peers
<1>4. Quorum(a) = k + 1 /\ Quorum(b) = k + 1
  BY <1>3 DEF Quorum, MajorityQuorum
<1>5. SUFFICES ASSUME A \cap B = {} PROVE FALSE
  OBVIOUS
<1>6. Cardinality(A \cup B) = Cardinality(A) + Cardinality(B)
  <2>1. Cardinality(A \cup B) =
          Cardinality(A) + Cardinality(B) - Cardinality(A \cap B)
    BY <1>1, FS_Union
  <2>2. Cardinality(A \cap B) = 0
    BY <1>5, FS_EmptySet
  <2> QED BY <1>2, <2>1, <2>2
<1> QED BY <1>2, <1>4, <1>6

(* In a cluster of 3, 5, 7, ... nodes, Acquire never gives two running     *)
(* operations the key, as long as no release takes a grant away from a     *)
(* lease that still relies on it.                                          *)
THEOREM QuorumExclusion ==
  ASSUME NEW k \in Nat \ {0}, Cardinality(Nodes) = 2 * k + 1
  PROVE  Spec => []ExclusiveUntilStray
<1>1. IInv => ExclusiveUntilStray
  <2> SUFFICES ASSUME IInv, ~stray, NEW x \in Leases, NEW y \in Leases,
                      Live(x), Live(y)
               PROVE  x = y
    BY DEF ExclusiveUntilStray, Exclusive
  <2>1. /\ acquiring[x].grants \in SUBSET Nodes
        /\ acquiring[y].grants \in SUBSET Nodes
        /\ x.node \in Nodes /\ y.node \in Nodes
    BY LeaseNode DEF IInv, TypeOK, Acquires
  <2>2. /\ Cardinality(acquiring[x].grants) >= Quorum(x.node)
        /\ Cardinality(acquiring[y].grants) >= Quorum(y.node)
    BY DEF IInv, QuorumInv, Live
  <2>3. acquiring[x].grants \cap acquiring[y].grants # {}
    BY <2>1, <2>2, QuorumsIntersect
  <2>4. PICK n \in Nodes : n \in acquiring[x].grants /\ n \in acquiring[y].grants
    BY <2>1, <2>3
  <2>5. Wanted(x) /\ Wanted(y)
    BY DEF Live, Wanted
  <2>6. Remembers(n, x) /\ Remembers(n, y)
    BY <2>4, <2>5 DEF IInv, GrantsInv
  <2> QED BY <2>6 DEF Remembers
<1> QED BY <1>1, Invariance, PTL
=============================================================================
