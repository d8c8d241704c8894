-------------------------------- MODULE Heal --------------------------------
(***************************************************************************)
(* One blob in a cluster: how its replicas rot, are found, repaired, read  *)
(* and moved.  Every node runs the scrub (storage/integrity.go), the self- *)
(* heal loop and the degraded read (storage/rebuild.go) and the rebalance  *)
(* loop (server/rebalance.go) over one DaemonRebuildSource                 *)
(* (server/rebuild_source.go), all concurrently with the others.           *)
(***************************************************************************)
EXTENDS Integers, FiniteSets, Sequences, SequencesExt

CONSTANTS
  Nodes,       \* the daemons
  Layouts,     \* placements: [members: a sequence of nodes (Crush!Placement),
               \*   target: the replication factor, holders: who has the blob]
  Menders,     \* the nodes that scrub, repair and read
  MaxRots,     \* how many copies may rot
  MaxRestarts  \* how often a daemon may restart

VARIABLES
  layout,  \* the placement of the blob, fixed by the cluster map
  dials,   \* "fresh": every push and fetch dials; "cached": see Reach
  copy,    \* copy[n]: the bytes in n's blob store, "absent", "good" or "bad"
  row,     \* row[n]: n's objects bucket references the blob
  named,   \* named[n]: n's names bucket maps the hash itself to the blob
  mark,    \* mark[n]: n's quarantine mark
  used,    \* used[n]: the peers whose communicator n has in transportCache
  repair,  \* repair[n]: the repairBlob in progress
  reader,  \* reader[n]: the read in progress
  scrub,   \* scrub[n]: the scrubBlob in progress
  shed,    \* shed[n]: the push-then-drop in progress (runMu admits one)
  rots,    \* how many copies have rotted
  restarts,\* how often a daemon has restarted
  slips    \* history: the races that happened, see Slips

stores == <<copy, row, named, mark>>
vars == <<layout, dials, stores, used, repair, reader, scrub, shed, rots, restarts, slips>>

Bytes == {"absent", "good", "bad"}
Members == layout.members
MemberSet == Range(Members)

\* "ack": a push was acknowledged by less than a good copy to stay: metadata
\* whose bytes are gone, a rotten copy, a copy about to be dropped.
\* "scrub": a copy replaced since it was hashed was deleted, or its reference.
\* "swap": bytes were replaced between their verification and their opening.
Slips == {"ack", "scrub", "swap"}

Idle == [pc |-> "idle", todo |-> <<>>, bytes |-> "absent", failed |-> FALSE]
Still == [pc |-> "idle", to |-> 0, bytes |-> "absent"]

TypeOK ==
  /\ layout \in Layouts
  /\ dials \in {"fresh", "cached"}
  /\ copy \in [Nodes -> Bytes]
  /\ row \in [Nodes -> BOOLEAN] /\ named \in [Nodes -> BOOLEAN]
  /\ mark \in [Nodes -> BOOLEAN]
  /\ used \in [Nodes -> SUBSET Nodes]
  /\ \A n \in Nodes :
       /\ repair[n].pc \in {"idle", "fetch", "open", "push"}
       /\ reader[n].pc \in {"idle", "fetch", "open", "checked", "plain"}
       /\ shed[n].pc \in {"idle", "push", "drop"}
       /\ scrub[n] \in {"idle", "condemned", "deleted"}
       /\ repair[n].bytes \in Bytes /\ reader[n].bytes \in Bytes
       /\ Range(repair[n].todo) \cup Range(reader[n].todo) \subseteq Nodes
  /\ rots \in 0 .. MaxRots /\ restarts \in 0 .. MaxRestarts
  /\ slips \subseteq Slips

Init ==
  /\ layout \in Layouts
  /\ dials \in {"fresh", "cached"}
  /\ copy = [n \in Nodes |-> IF n \in layout.holders THEN "good" ELSE "absent"]
  /\ row = [n \in Nodes |-> n \in layout.holders]
  /\ named = [n \in Nodes |-> FALSE]
  /\ mark = [n \in Nodes |-> FALSE]
  /\ used = [n \in Nodes |-> {}]
  /\ repair = [n \in Nodes |-> Idle]
  /\ reader = [n \in Nodes |-> Idle]
  /\ scrub = [n \in Nodes |-> "idle"]
  /\ shed = [n \in Nodes |-> Still]
  /\ rots = 0 /\ restarts = 0
  /\ slips = {}

----------------------------------------------------------------------------
(* The peer transport.                                                     *)

\* dialPeer caches the communicator of a peer after the handshake; a push or a
\* fetch closes it and nothing evicts it, so the next use finds it closed.
Reach(n, m) == dials = "fresh" \/ m \notin used[n]
Dialled(n, m) ==
  used' = [used EXCEPT ![n] = IF dials = "fresh" THEN @ ELSE @ \cup {m}]

\* The upload handler answers SkipPayload from the names and objects buckets.
HasMapped(m) == row[m] /\ named[m]

\* m's upload handler receives bytes b under the name of the hash.  A payload
\* for a blob that m references and has is drained.  Bytes that do not hash to
\* the name are stored and then deleted by name: the blob goes with its last
\* reference only.
Received(m, b) ==
  LET kept == row[m] /\ copy[m] # "absent" IN
  /\ copy' = [copy EXCEPT ![m] = IF kept THEN @
                                 ELSE IF b = "bad" /\ ~row[m] THEN "absent"
                                 ELSE b]
  /\ row' = [row EXCEPT ![m] = @ \/ b = "good"]
  /\ named' = [named EXCEPT ![m] = b = "good"]
  /\ UNCHANGED mark

\* m's side of a push: the shortcut, or the payload.
Accept(m, b) == IF HasMapped(m) THEN UNCHANGED stores ELSE Received(m, b)
Acknowledges(m, b) == HasMapped(m) \/ b = "good"

\* How an acknowledgement of m can be worth less than a copy.
AckSlips(m) ==
  IF \/ copy[m] = "absent" /\ HasMapped(m)
     \/ copy[m] = "bad" /\ row[m]
     \/ shed[m].pc = "drop"
  THEN {"ack"} ELSE {}

\* A fetch of n is between storing its verified bytes and opening them.
Opening(n) == repair[n].pc = "open" \/ reader[n].pc = "open"
SwapSlips(m, b) == IF b = "bad" /\ Opening(m) THEN {"swap"} ELSE {}

----------------------------------------------------------------------------
(* The self-heal loop of node n.                                           *)

Survivors(n) == SelectSeq(Members, LAMBDA m : m # n)

\* A slip that Replicas avoids: the local copy counts because it exists.
ReplicasUnchecked(n) ==
  Len(Survivors(n)) + (IF copy[n] # "absent" THEN 1 ELSE 0)

\* The replicas that repairBlob counts: all survivors, unseen, and this one.
Replicas(n) == Len(Survivors(n)) + (IF copy[n] = "good" THEN 1 ELSE 0)

\* repairBlob of a blob in rebuildSet that is flagged or short of replicas.  A
\* local copy that verifies is opened, otherwise the survivors are asked.
RepairBlob(n) ==
  /\ repair[n].pc = "idle"
  /\ row[n] \/ mark[n]
  /\ mark[n] \/ Replicas(n) < layout.target
  /\ repair' = [repair EXCEPT ![n] =
       IF copy[n] = "good"
       THEN [Idle EXCEPT !.pc = "push", !.bytes = "good", !.todo = Survivors(n)]
       ELSE [Idle EXCEPT !.pc = "fetch", !.todo = Survivors(n)]]
  /\ UNCHANGED <<layout, dials, stores, used, reader, scrub, shed, rots, restarts, slips>>

\* storeVerified: bytes that hash to the name replace the local copy, others
\* leave it and mark the blob.  A failed fetch ("absent") does neither.
Stored(n, got) ==
  /\ copy' = [copy EXCEPT ![n] = IF got = "good" THEN "good" ELSE @]
  /\ mark' = [mark EXCEPT ![n] = @ \/ got = "bad"]

\* What asking the next survivor can bring.  The daemon's peers do not
\* understand Fetch on a connection that has shaken hands already: with its own
\* source every fetch fails.
Fetched(proc) == IF dials = "fresh" THEN copy[Head(proc.todo)] ELSE "absent"

\* The process that fetched: at its first good bytes it goes on to open them.
AfterFetch(proc, got) ==
  [proc EXCEPT !.pc = IF got = "good" THEN "open" ELSE "fetch",
               !.todo = Tail(@)]

\* One survivor of fetchVerifiedToLocal, or none left.
RepairFetch(n) ==
  /\ repair[n].pc = "fetch"
  /\ \/ /\ repair[n].todo # <<>>
        /\ Stored(n, Fetched(repair[n]))
        /\ Dialled(n, Head(repair[n].todo))
        /\ repair' = [repair EXCEPT ![n] = AfterFetch(@, Fetched(@))]
     \/ /\ repair[n].todo = <<>>
        /\ repair' = [repair EXCEPT ![n] = Idle]
        /\ UNCHANGED <<copy, mark, used>>
  /\ UNCHANGED <<layout, dials, row, named, reader, scrub, shed, rots, restarts, slips>>

\* The stored copy is opened and the mark cleared; Restore reads it all and
\* gives up if it no longer hashes to the name.
RepairOpen(n) ==
  /\ repair[n].pc = "open"
  /\ mark' = [mark EXCEPT ![n] = @ /\ copy[n] = "absent"]
  /\ repair' = [repair EXCEPT ![n] =
       IF copy[n] = "good"
       THEN [Idle EXCEPT !.pc = "push", !.bytes = "good", !.todo = Survivors(n)]
       ELSE Idle]
  /\ UNCHANGED <<layout, dials, copy, row, named, used, reader, scrub, shed, rots, restarts, slips>>

\* Restore pushes to every other member, whatever it holds; ok is the outcome
\* that the node sees.
RepairPush(n, ok) ==
  /\ repair[n].pc = "push" /\ repair[n].todo # <<>>
  /\ LET m == Head(repair[n].todo) IN
     /\ \/ ok /\ Reach(n, m) /\ Accept(m, "good")
        \/ ~ok /\ Reach(n, m) /\ Accept(m, "good")
        \/ ~ok /\ UNCHANGED stores
     /\ Dialled(n, m)
     /\ repair' = [repair EXCEPT ![n].todo = Tail(@), ![n].failed = @ \/ ~ok]
  /\ UNCHANGED <<layout, dials, reader, scrub, shed, rots, restarts, slips>>

\* quarantineClear, once every push has succeeded.
RepairDone(n) ==
  /\ repair[n].pc = "push" /\ repair[n].todo = <<>>
  /\ mark' = [mark EXCEPT ![n] = @ /\ repair[n].failed]
  /\ repair' = [repair EXCEPT ![n] = Idle]
  /\ UNCHANGED <<layout, dials, copy, row, named, used, reader, scrub, shed, rots, restarts, slips>>

----------------------------------------------------------------------------
(* A read at node n, with VerifyOnRead and DegradedRead.                   *)

\* A slip that OpenVerifiedBlob avoids: the stream is not wrapped.
OpenUnverifiedBlob(n) ==
  /\ reader[n].pc = "idle" /\ row[n]
  /\ reader' = [reader EXCEPT ![n] =
       IF copy[n] # "absent" /\ ~mark[n]
       THEN [Idle EXCEPT !.pc = "plain", !.bytes = copy[n]]
       ELSE [Idle EXCEPT !.pc = "fetch", !.todo = Survivors(n)]]
  /\ UNCHANGED <<layout, dials, stores, used, repair, scrub, shed, rots, restarts, slips>>

\* openVerifiedBlob: a copy that is present and not marked is hashed as it is
\* read, otherwise the survivors are asked.
OpenVerifiedBlob(n) ==
  /\ reader[n].pc = "idle" /\ row[n]
  /\ reader' = [reader EXCEPT ![n] =
       IF copy[n] # "absent" /\ ~mark[n]
       THEN [Idle EXCEPT !.pc = "checked", !.bytes = copy[n]]
       ELSE [Idle EXCEPT !.pc = "fetch", !.todo = Survivors(n)]]
  /\ UNCHANGED <<layout, dials, stores, used, repair, scrub, shed, rots, restarts, slips>>

ReadFetch(n) ==
  /\ reader[n].pc = "fetch"
  /\ \/ /\ reader[n].todo # <<>>
        /\ Stored(n, Fetched(reader[n]))
        /\ Dialled(n, Head(reader[n].todo))
        /\ reader' = [reader EXCEPT ![n] = AfterFetch(@, Fetched(@))]
     \/ /\ reader[n].todo = <<>>
        /\ reader' = [reader EXCEPT ![n] = Idle]
        /\ UNCHANGED <<copy, mark, used>>
  /\ UNCHANGED <<layout, dials, row, named, repair, scrub, shed, rots, restarts, slips>>

\* The restored copy is opened without a second verification.
ReadOpen(n) ==
  /\ reader[n].pc = "open"
  /\ mark' = [mark EXCEPT ![n] = @ /\ copy[n] = "absent"]
  /\ reader' = [reader EXCEPT ![n] =
       IF copy[n] = "absent" THEN Idle
       ELSE [Idle EXCEPT !.pc = "plain", !.bytes = copy[n]]]
  /\ UNCHANGED <<layout, dials, copy, row, named, used, repair, scrub, shed, rots, restarts, slips>>

\* The end of the stream: the verifying reader fails it and marks the blob.
ReadDone(n) ==
  /\ reader[n].pc \in {"checked", "plain"}
  /\ mark' = [mark EXCEPT ![n] = @ \/ (reader[n].pc = "checked"
                                        /\ reader[n].bytes = "bad")]
  /\ reader' = [reader EXCEPT ![n] = Idle]
  /\ UNCHANGED <<layout, dials, copy, row, named, used, repair, scrub, shed, rots, restarts, slips>>

----------------------------------------------------------------------------
(* The scrub of node n.                                                    *)

\* scrubBlob hashes a referenced copy and finds that it is rotten ...
ScrubBlob(n) ==
  /\ scrub[n] = "idle" /\ row[n] /\ copy[n] = "bad"
  /\ scrub' = [scrub EXCEPT ![n] = "condemned"]
  /\ UNCHANGED <<layout, dials, stores, used, repair, reader, shed, rots, restarts, slips>>

\* ... quarantine deletes whatever the blob store holds by then ...
QuarantineBlob(n) ==
  /\ scrub[n] = "condemned"
  /\ copy' = [copy EXCEPT ![n] = "absent"]
  /\ slips' = slips \cup (IF copy[n] = "good" THEN {"scrub"} ELSE {})
  /\ scrub' = [scrub EXCEPT ![n] = "deleted"]
  /\ UNCHANGED <<layout, dials, row, named, mark, used, repair, reader, shed, rots, restarts>>

\* ... and then the reference.
QuarantineRow(n) ==
  /\ scrub[n] = "deleted"
  /\ row' = [row EXCEPT ![n] = FALSE]
  /\ slips' = slips \cup (IF copy[n] = "good" THEN {"scrub"} ELSE {})
  /\ scrub' = [scrub EXCEPT ![n] = "idle"]
  /\ UNCHANGED <<layout, dials, copy, named, mark, used, repair, reader, shed, rots, restarts>>

----------------------------------------------------------------------------
(* The rebalance loop of node n.                                           *)

\* A slip that ShedTargets avoids: a node may pick itself.
ShedTargetsSelf(n) == {Head(Members)}

\* pickShedTarget, above the disk's high-water mark: the first other member.
\* migrateBlob, when a peer joins: that peer, if it is a member and n is not.
ShedTargets(n) ==
  {m \in Range(Survivors(n)) : n \in MemberSet => m = Head(Survivors(n))}

\* Push opens the local bytes, unverified.
ShedBlob(n, m) ==
  /\ shed[n].pc = "idle" /\ copy[n] # "absent"
  /\ m \in ShedTargets(n)
  /\ shed' = [shed EXCEPT ![n] = [pc |-> "push", to |-> m, bytes |-> copy[n]]]
  /\ UNCHANGED <<layout, dials, stores, used, repair, reader, scrub, rots, restarts, slips>>

\* The peer's handler, and the answer; only with it does the node go on.
ShedPush(n, ok) ==
  /\ shed[n].pc = "push"
  /\ LET m == shed[n].to
         b == shed[n].bytes IN
     /\ \/ /\ Reach(n, m) /\ Accept(m, b)
           /\ ok => Acknowledges(m, b)
           /\ slips' = slips \cup SwapSlips(m, b)
                             \cup (IF ok THEN AckSlips(m) ELSE {})
        \/ ~ok /\ UNCHANGED <<stores, slips>>
     /\ Dialled(n, m)
     /\ shed' = [shed EXCEPT ![n] = IF ok THEN [@ EXCEPT !.pc = "drop"] ELSE Still]
  /\ UNCHANGED <<layout, dials, repair, reader, scrub, rots, restarts>>

\* DropBlob deletes the bytes and leaves the metadata.
DropBlob(n) ==
  /\ shed[n].pc = "drop"
  /\ copy' = [copy EXCEPT ![n] = "absent"]
  /\ shed' = [shed EXCEPT ![n] = Still]
  /\ UNCHANGED <<layout, dials, row, named, mark, used, repair, reader, scrub, rots, restarts, slips>>

----------------------------------------------------------------------------
(* Faults.                                                                 *)

\* A copy rots, never the last good one that is to stay.
Rot(n) ==
  /\ rots < MaxRots /\ copy[n] = "good"
  /\ \E m \in Nodes \ {n} : copy[m] = "good" /\ shed[m].pc # "drop"
  /\ copy' = [copy EXCEPT ![n] = "bad"]
  /\ slips' = slips \cup SwapSlips(n, "bad")
  /\ rots' = rots + 1
  /\ UNCHANGED <<layout, dials, row, named, mark, used, repair, reader, scrub, shed, restarts>>

\* The daemon restarts: what is on disk stays.
Restart(n) ==
  /\ restarts < MaxRestarts
  /\ <<repair[n], reader[n], scrub[n], shed[n]>> # <<Idle, Idle, "idle", Still>>
  /\ repair' = [repair EXCEPT ![n] = Idle]
  /\ reader' = [reader EXCEPT ![n] = Idle]
  /\ scrub' = [scrub EXCEPT ![n] = "idle"]
  /\ shed' = [shed EXCEPT ![n] = Still]
  /\ used' = [used EXCEPT ![n] = {}]
  /\ restarts' = restarts + 1
  /\ UNCHANGED <<layout, dials, stores, rots, slips>>

----------------------------------------------------------------------------
RepairStep(n) ==
  \/ RepairBlob(n) \/ RepairFetch(n) \/ RepairOpen(n) \/ RepairDone(n)
  \/ \E ok \in BOOLEAN : RepairPush(n, ok)

MendStep(n) ==
  \/ RepairStep(n)
  \/ OpenVerifiedBlob(n) \/ ReadFetch(n) \/ ReadOpen(n) \/ ReadDone(n)
  \/ ScrubBlob(n) \/ QuarantineBlob(n) \/ QuarantineRow(n)

Next ==
  \/ \E n \in Menders : MendStep(n)
  \/ \E n \in Nodes :
    \/ \E m \in Nodes : ShedBlob(n, m)
    \/ \E ok \in BOOLEAN : ShedPush(n, ok)
    \/ DropBlob(n)
    \/ Rot(n) \/ Restart(n)

\* The rebuild loop runs a pass at every tick, for ever.
Fairness == \A n \in Menders : WF_vars(RepairStep(n))

Spec == Init /\ [][Next]_vars /\ Fairness

----------------------------------------------------------------------------
\* DropBlob "only after a peer acknowledged": a good copy is left in the
\* cluster, whatever scrubs, repairs, reads, sheds and restarts interleave,
\* unless an acknowledgement came from a peer without a good copy of its own to
\* keep (rebalance.go:100), or a scrub deleted a copy that had been repaired
\* since it was hashed (integrity.go:253).
LastGoodCopy ==
  slips \cap {"ack", "scrub"} = {} =>
    \E n \in Nodes : copy[n] = "good"

\* openVerifiedBlob and storeVerified: a stream that is not hashed as it is
\* read carries good bytes, unless the restored copy was replaced or rotted
\* between its verification and its opening.
CleanReads ==
  \A n \in Nodes :
    reader[n].pc = "plain" /\ reader[n].bytes = "bad" => "swap" \in slips

\* repairBlob: with a source that serves what it promises, a rotten referenced
\* copy does not stay: it is replaced from a survivor, shed or quarantined, or
\* no other member has a good copy to offer.
Healed ==
  \A n \in Menders :
    (dials = "fresh" /\ row[n] /\ copy[n] = "bad") ~>
      (copy[n] # "bad" \/ ~row[n] \/ ~\E m \in MemberSet \ {n} : copy[m] = "good")
=============================================================================
