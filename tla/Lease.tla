------------------------------- MODULE Lease --------------------------------
(***************************************************************************)
(* The lease protocol that guards deletes: p2p/lease.go, called by the     *)
(* delete handlers through server/p2p_adapters.go.  Leases on different    *)
(* keys share nothing but the id counter, so one key is modelled.          *)
(*                                                                         *)
(* A node asks every other node; each keeps, per key, the expiry of what   *)
(* it granted and not to whom.  Nodes share one clock and see each other   *)
(* alive.  Messages are lost (a peer without a connection), delayed, and   *)
(* reordered by a reconnect.                                               *)
(***************************************************************************)
EXTENDS Integers, FiniteSets

CONSTANTS
  Nodes,         \* the cluster
  Budget,        \* number of leases each node asks for
  Duration,      \* duration of a lease, in clock ticks
  MaxClock,      \* bound on the clock
  NoLease        \* no lease

ASSUME NodesAssumption == IsFiniteSet(Nodes)
ASSUME BoundsAssumption ==
  Budget \in [Nodes -> Nat] /\ Duration \in Nat \ {0} /\ MaxClock \in Nat \ {0}

Leases == UNION {[node: {n}, id: 1 .. Budget[n]] : n \in Nodes}

ASSUME NoLeaseAssumption == NoLease \notin Leases

VARIABLES
  clock,         \* time.Now()
  granted,       \* LeaseManager.granted of each node, 0 when absent
  acquiring,     \* each Acquire call: its phase, deadline, expiry and grants
  held,          \* LeaseManager.held of all nodes
  msgs,          \* RPCs on their way
  grantee,       \* history: the lease a node granted last
  stray          \* history: a release took a grant that was still wanted

vars == <<clock, granted, acquiring, held, msgs, grantee, stray>>

Expiries == 0 .. MaxClock + Duration

Messages == [type: {"request", "grant", "deny", "release"},
             lease: Leases, peer: Nodes, expiry: Expiries]

\* "busy": Acquire returned and the caller has not called ReleaseLease yet.
Phases == {"unused", "waiting", "busy", "over"}

Acquires == [phase: Phases, expiry: Expiries, grants: SUBSET Nodes]

TypeOK ==
  /\ clock \in 0 .. MaxClock
  /\ granted \in [Nodes -> Expiries]
  /\ acquiring \in [Leases -> Acquires]
  /\ held \in SUBSET Leases
  /\ msgs \in SUBSET Messages
  /\ grantee \in [Nodes -> Leases \cup {NoLease}]
  /\ stray \in BOOLEAN

Peers(n) == Nodes \ {n}

Message(type, l, p, expiry) ==
  [type |-> type, lease |-> l, peer |-> p, expiry |-> expiry]

Broadcast(type, l, S, expiry) == {Message(type, l, p, expiry) : p \in S}

\* The operation under the lease still runs and the lease has not expired.
Live(l) == acquiring[l].phase = "busy" /\ clock < acquiring[l].expiry

\* Or Acquire is still collecting grants.
Wanted(l) ==
  acquiring[l].phase \in {"waiting", "busy"} /\ clock < acquiring[l].expiry

Init ==
  /\ clock = 1
  /\ granted = [n \in Nodes |-> 0]
  /\ acquiring = [l \in Leases |->
                    [phase |-> "unused", expiry |-> 0, grants |-> {}]]
  /\ held = {}
  /\ msgs = {}
  /\ grantee = [n \in Nodes |-> NoLease]
  /\ stray = FALSE

Tick ==
  /\ clock < MaxClock
  /\ clock' = clock + 1
  /\ UNCHANGED <<granted, acquiring, held, msgs, grantee, stray>>

----------------------------------------------------------------------------
(* The node that asks.                                                     *)

\* A slip that MajorityQuorum avoids: half of the peers.
HalfQuorum(peerCount) == peerCount \div 2

MajorityQuorum(peerCount) == IF peerCount = 0 THEN 0 ELSE peerCount \div 2 + 1

Quorum(n) == MajorityQuorum(Cardinality(Peers(n)))

\* Acquire: broadcast the request, which reaches the peers S with a
\* connection; give up at once when they cannot be a quorum.
Acquire(l, S) ==
  /\ acquiring[l].phase = "unused"
  /\ l.id > 1 => acquiring[[l EXCEPT !.id = @ - 1]].phase # "unused"
  /\ acquiring' = [acquiring EXCEPT ![l] =
       [phase |-> IF Cardinality(S) < Quorum(l.node) THEN "over" ELSE "waiting",
        expiry |-> clock + Duration, grants |-> {}]]
  /\ msgs' = msgs \cup Broadcast("request", l, S, clock + Duration)
  /\ UNCHANGED <<clock, granted, held, grantee, stray>>

\* A grant counts only while its Acquire is pending; a denial never counts.
HandleLeaseGrant(m) ==
  /\ m.type \in {"grant", "deny"}
  /\ msgs' = msgs \ {m}
  /\ acquiring' = IF m.type = "grant" /\ acquiring[m.lease].phase = "waiting"
                  THEN [acquiring EXCEPT ![m.lease].grants = @ \cup {m.peer}]
                  ELSE acquiring
  /\ UNCHANGED <<clock, granted, held, grantee, stray>>

AcquireSucceeds(l) ==
  /\ acquiring[l].phase = "waiting"
  /\ Cardinality(acquiring[l].grants) >= Quorum(l.node)
  /\ acquiring' = [acquiring EXCEPT ![l].phase = "busy"]
  /\ held' = held \cup {l}
  /\ UNCHANGED <<clock, granted, msgs, grantee, stray>>

\* The timer fires after half the duration; grants given so far stay given.
AcquireTimesOut(l) ==
  /\ acquiring[l].phase = "waiting"
  /\ clock >= acquiring[l].expiry - Duration + Duration \div 2
  /\ acquiring' = [acquiring EXCEPT ![l].phase = "over"]
  /\ UNCHANGED <<clock, granted, held, msgs, grantee, stray>>

\* The caller of l is done: ReleaseByKey picks any lease the node holds on the
\* key, and does nothing when the cleanup was faster.
ReleaseByKey(l, S) ==
  LET mine == {k \in held : k.node = l.node}
  IN /\ acquiring[l].phase = "busy"
     /\ acquiring' = [acquiring EXCEPT ![l].phase = "over"]
     /\ \/ /\ mine = {}
           /\ S = {}
           /\ UNCHANGED <<held, msgs>>
        \/ \E k \in mine :
             /\ held' = held \ {k}
             /\ msgs' = msgs \cup Broadcast("release", k, S, 0)
     /\ UNCHANGED <<clock, granted, grantee, stray>>

----------------------------------------------------------------------------
(* The node that is asked.                                                 *)

\* A slip that Taken avoids: a grant ends one tick early.
TakenEarly(n) == granted[n] > clock + 1

Taken(n) == granted[n] > clock

\* A slip that GrantedUntil avoids: the voter adds the duration once more.
GrantedFor(m) == m.expiry + Duration

GrantedUntil(m) == m.expiry

\* The answer may find no connection to go out on.
HandleLeaseRequest(m, sent) ==
  LET n == m.peer
      answer == Message(IF Taken(n) THEN "deny" ELSE "grant", m.lease, n, 0)
  IN /\ m.type = "request"
     /\ granted' = IF Taken(n) THEN granted
                   ELSE [granted EXCEPT ![n] = GrantedUntil(m)]
     /\ grantee' = IF Taken(n) THEN grantee
                   ELSE [grantee EXCEPT ![n] = m.lease]
     /\ msgs' = (msgs \ {m}) \cup (IF sent THEN {answer} ELSE {})
     /\ UNCHANGED <<clock, acquiring, held, stray>>

\* Whoever the grant was for, it is gone.
HandleLeaseRelease(m) ==
  LET n == m.peer
  IN /\ m.type = "release"
     /\ msgs' = msgs \ {m}
     /\ granted' = [granted EXCEPT ![n] = 0]
     /\ grantee' = [grantee EXCEPT ![n] = NoLease]
     /\ stray' = (stray \/ \E l \in Leases : grantee[n] = l /\ Wanted(l))
     /\ UNCHANGED <<clock, acquiring, held>>

CleanupExpired(n) ==
  /\ granted' = [granted EXCEPT ![n] = IF @ < clock THEN 0 ELSE @]
  /\ held' = {l \in held : l.node = n => acquiring[l].expiry >= clock}
  /\ UNCHANGED <<clock, acquiring, msgs, grantee, stray>>

----------------------------------------------------------------------------
Next ==
  \/ \E l \in Leases : \E S \in SUBSET Peers(l.node) : Acquire(l, S)
  \/ \E l \in Leases : AcquireSucceeds(l)
  \/ \E l \in Leases : AcquireTimesOut(l)
  \/ \E l \in Leases : \E S \in SUBSET Peers(l.node) : ReleaseByKey(l, S)
  \/ \E m \in msgs, sent \in BOOLEAN : HandleLeaseRequest(m, sent)
  \/ \E m \in msgs : HandleLeaseGrant(m)
  \/ \E m \in msgs : HandleLeaseRelease(m)
  \/ \E n \in Nodes : CleanupExpired(n)
  \/ Tick

Spec == Init /\ [][Next]_vars

----------------------------------------------------------------------------
(* Properties.                                                             *)

\* AcquireLease "requests an exclusive lease for the key" (communicator.go):
\* no two operations run under unexpired leases on the key.
Exclusive ==
  \A k, l \in Leases : Live(k) /\ Live(l) => k = l

\* The quorums alone make leases exclusive: with an odd number of nodes, two
\* operations run at once only after a release took away a grant that a running
\* or pending Acquire counts on, whatever is lost, late, timed out or expired.
ExclusiveUntilStray == ~stray => Exclusive

\* A node whose grant an Acquire counted remembers it until the lease expires:
\* no other request and no cleanup takes the grant over.
GrantsRemembered ==
  ~stray =>
    \A l \in Leases : Wanted(l) =>
      \A n \in acquiring[l].grants :
        grantee[n] = l /\ granted[n] = acquiring[l].expiry
=============================================================================
