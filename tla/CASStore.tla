------------------------------ MODULE CASStore ------------------------------
(***************************************************************************)
(* The content-addressed store of one momo node: storage/storage.go and    *)
(* storage/gc.go.  A bbolt database maps names to content hashes           *)
(* (namespace), hashes to a reference count (objects) and deleted names to *)
(* a timestamp (tombstones); the bytes live in a separate blob backend.    *)
(*                                                                         *)
(* Every operation here runs under the store mutex s.mu, but it touches    *)
(* the database and the backend in separate steps, so a crash or a backend *)
(* error can fall between them.  `op' is what the holder of s.mu still has *)
(* to do.  The paths and modtimes buckets live and die with the namespace  *)
(* row and are left out; vector clocks, sizes and shard keys are data.     *)
(***************************************************************************)
EXTENDS Integers, FiniteSets

CONSTANTS
  Names,         \* object names
  Hashes,        \* content hashes
  NoHash,        \* no mapping
  NoName,        \* no name in flight
  Presence,      \* the backend implements blobPresence (local, volume, adaptive)
  Retention,     \* TombstoneRetention, in clock ticks
  MaxClock,      \* bound on the clock
  MaxRefCount    \* bound on the reference counts

ASSUME NamesFinite == IsFiniteSet(Names)
ASSUME NoHashAssumption == NoHash \notin Hashes
ASSUME NoNameAssumption == NoName \notin Names
ASSUME PresenceAssumption == Presence \in BOOLEAN
ASSUME BoundsAssumption ==
  Retention \in Nat /\ MaxClock \in Nat \ {0} /\ MaxRefCount \in Nat \ {0}

VARIABLES
  namespace,     \* bucketNamespace: name -> hash
  objects,       \* bucketObjects: hash -> ObjectMeta
  tombstones,    \* bucketTombstones: name -> deletion time, 0 when absent
  blobs,         \* the backend: hash -> bytes held
  op,            \* the operation holding s.mu
  clock,         \* time.Now()
  hollow         \* history: names whose last Put had no payload and found no bytes

vars == <<namespace, objects, tombstones, blobs, op, clock, hollow>>

Time == 0 .. MaxClock

\* Bytes held under a hash: the ones that hash to it, other ones, or none.
Bytes == {"absent", "good", "bad"}

\* What the content reader of a Put delivers; "none" is a nil reader.
Payloads == {"none", "good", "bad"}

\* legacy: the 24-byte encoding, which the code reads but no longer writes.
\* deleted: DeletedAt # 0.
ObjectMeta ==
  [present: BOOLEAN, refCount: Nat, deleted: BOOLEAN, legacy: BOOLEAN]

NoMeta ==
  [present |-> FALSE, refCount |-> 0, deleted |-> FALSE, legacy |-> FALSE]

OpKinds == {"idle", "put", "reap", "forget", "sweep"}

Ops == [kind: OpKinds, name: Names \cup {NoName}, hash: Hashes \cup {NoHash},
        payload: Payloads, todo: SUBSET Hashes]

Idle == [kind |-> "idle", name |-> NoName, hash |-> NoHash,
         payload |-> "none", todo |-> {}]

TypeOK ==
  /\ namespace \in [Names -> Hashes \cup {NoHash}]
  /\ objects \in [Hashes -> ObjectMeta]
  /\ tombstones \in [Names -> Time]
  /\ blobs \in [Hashes -> Bytes]
  /\ op \in Ops
  /\ clock \in Time
  /\ hollow \in SUBSET Names

NamesOf(h) == {n \in Names : namespace[n] = h}

----------------------------------------------------------------------------
(* A node starts on an empty directory or on the database of an older      *)
(* release, whose objects are in the legacy encoding; an interrupted       *)
(* delete of that release may have left entries with no name.              *)
Init ==
  /\ namespace \in [Names -> Hashes \cup {NoHash}]
  /\ \E orphans \in SUBSET {h \in Hashes : NamesOf(h) = {}} :
       /\ objects = [h \in Hashes |->
            IF NamesOf(h) # {}
            THEN [present |-> TRUE, refCount |-> Cardinality(NamesOf(h)),
                  deleted |-> FALSE, legacy |-> TRUE]
            ELSE IF h \in orphans
            THEN [present |-> TRUE, refCount |-> 0, deleted |-> TRUE,
                  legacy |-> TRUE]
            ELSE NoMeta]
       /\ blobs = [h \in Hashes |->
            IF NamesOf(h) # {} \/ h \in orphans THEN "good" ELSE "absent"]
  /\ tombstones = [n \in Names |-> 0]
  /\ op = Idle
  /\ clock = 1
  /\ hollow = {}

Tick ==
  /\ clock < MaxClock
  /\ clock' = clock + 1
  /\ UNCHANGED <<namespace, objects, tombstones, blobs, op, hollow>>

----------------------------------------------------------------------------
(* Put: write the bytes unless they are already there, then one            *)
(* transaction over the metadata.                                          *)

\* A slip that Exists avoids: believe the metadata alone.
ExistsByMetadata(h) == objects[h].present

\* Metadata says "exists" for a blob whose bytes are gone, so a backend that
\* can tell is asked.
Exists(h) ==
  /\ objects[h].present
  /\ Presence => blobs[h] # "absent"

PutBlob(n, h, c) ==
  /\ op = Idle
  /\ blobs' = IF ~Exists(h) /\ c # "none"
              THEN [blobs EXCEPT ![h] = c] ELSE blobs
  /\ op' = [Idle EXCEPT !.kind = "put", !.name = n, !.hash = h, !.payload = c]
  /\ UNCHANGED <<namespace, objects, tombstones, clock, hollow>>

\* A slip that Referenced avoids: a known hash keeps its count.
ReferencedOnce(meta) ==
  [present |-> TRUE, legacy |-> FALSE, deleted |-> meta.deleted,
   refCount |-> IF meta.present THEN meta.refCount ELSE 1]

\* Another: RefCount-- for RefCount++.
ReferencedDown(meta) ==
  [present |-> TRUE, legacy |-> FALSE, deleted |-> meta.deleted,
   refCount |-> IF meta.present THEN meta.refCount - 1 ELSE 1]

\* The entry after one more Put of its hash.  DeletedAt is carried over.
Referenced(meta) ==
  [present |-> TRUE, legacy |-> FALSE, deleted |-> meta.deleted,
   refCount |-> IF meta.present THEN meta.refCount + 1 ELSE 1]

\* The transaction.  The hash the name mapped to before is not dereferenced.
CommitPut ==
  /\ op.kind = "put"
  /\ objects[op.hash].refCount < MaxRefCount
  /\ namespace' = [namespace EXCEPT ![op.name] = op.hash]
  /\ objects' = [objects EXCEPT ![op.hash] = Referenced(@)]
  /\ tombstones' = [tombstones EXCEPT ![op.name] = 0]
  /\ hollow' = IF op.payload = "none" /\ blobs[op.hash] = "absent"
               THEN hollow \cup {op.name} ELSE hollow \ {op.name}
  /\ op' = Idle
  /\ UNCHANGED <<blobs, clock>>

\* The durability barrier or the transaction fails: the bytes stay behind.
AbortPut ==
  /\ op.kind = "put"
  /\ op' = Idle
  /\ UNCHANGED <<namespace, objects, tombstones, blobs, clock, hollow>>

----------------------------------------------------------------------------
(* Delete and ApplyTombstone: a transaction removes the name and drops one *)
(* reference; when that was the last one, the bytes are removed after the  *)
(* transaction, and the objects row in a second one.                       *)

\* A slip that Released avoids: off by one at the last reference.
ReleasedEarly(meta) ==
  IF meta.refCount <= 2
  THEN [meta EXCEPT !.refCount = 0, !.deleted = TRUE, !.legacy = FALSE]
  ELSE [meta EXCEPT !.refCount = @ - 1, !.legacy = FALSE]

\* The entry after one reference is dropped.
Released(meta) ==
  IF meta.refCount <= 1
  THEN [meta EXCEPT !.refCount = 0, !.deleted = TRUE, !.legacy = FALSE]
  ELSE [meta EXCEPT !.refCount = @ - 1, !.legacy = FALSE]

RemoveName(n, t) ==
  LET h == namespace[n]
      released == h # NoHash /\ objects[h].present
      orphaned == released /\ Released(objects[h]).refCount = 0
  IN /\ tombstones' = [tombstones EXCEPT ![n] = t]
     /\ namespace' = [namespace EXCEPT ![n] = NoHash]
     /\ objects' = IF released
                   THEN [objects EXCEPT ![h] = Released(@)] ELSE objects
     /\ op' = IF orphaned
              THEN [Idle EXCEPT !.kind = "reap", !.hash = h] ELSE Idle
     /\ hollow' = hollow \ {n}
     /\ UNCHANGED <<blobs, clock>>

Delete(n) ==
  /\ op = Idle
  /\ RemoveName(n, clock)

\* deletedAt is stamped by the clock of the peer the delete ran on.
ApplyTombstone(n, deletedAt) ==
  /\ op = Idle
  /\ ~(tombstones[n] # 0 /\ tombstones[n] >= deletedAt)
  /\ RemoveName(n, deletedAt)

ReapBlob ==
  /\ op.kind = "reap"
  /\ blobs' = [blobs EXCEPT ![op.hash] = "absent"]
  /\ op' = [op EXCEPT !.kind = "forget"]
  /\ UNCHANGED <<namespace, objects, tombstones, clock, hollow>>

\* DeleteBlob fails: the row with RefCount 0 is left to the collector.
ReapBlobFails ==
  /\ op.kind = "reap"
  /\ op' = Idle
  /\ UNCHANGED <<namespace, objects, tombstones, blobs, clock, hollow>>

ForgetObject ==
  /\ op.kind = "forget"
  /\ objects' = [objects EXCEPT ![op.hash] = NoMeta]
  /\ op' = Idle
  /\ UNCHANGED <<namespace, tombstones, blobs, clock, hollow>>

----------------------------------------------------------------------------
(* The collector.                                                          *)

\* sweepOrphanedBlobs looks at rows of exactly 24 bytes, the legacy encoding.
Sweepable(h) ==
  objects[h].present /\ objects[h].legacy /\ objects[h].refCount <= 0

\* The rows go in one transaction, the bytes after it.
SweepOrphanedBlobs ==
  LET orphaned == {h \in Hashes : Sweepable(h)}
  IN /\ op = Idle
     /\ orphaned # {}
     /\ objects' = [h \in Hashes |->
                      IF h \in orphaned THEN NoMeta ELSE objects[h]]
     /\ op' = [Idle EXCEPT !.kind = "sweep", !.todo = orphaned]
     /\ UNCHANGED <<namespace, tombstones, blobs, clock, hollow>>

\* One DeleteBlob of the sweep, which may fail; the last one frees s.mu.
SweepBlob(h, ok) ==
  /\ op.kind = "sweep"
  /\ h \in op.todo
  /\ blobs' = IF ok THEN [blobs EXCEPT ![h] = "absent"] ELSE blobs
  /\ op' = IF op.todo = {h} THEN Idle ELSE [op EXCEPT !.todo = @ \ {h}]
  /\ UNCHANGED <<namespace, objects, tombstones, clock, hollow>>

Expired(n) == tombstones[n] # 0 /\ tombstones[n] < clock - Retention

SweepExpiredTombstones ==
  /\ op = Idle
  /\ \E n \in Names : Expired(n)
  /\ tombstones' = [n \in Names |-> IF Expired(n) THEN 0 ELSE tombstones[n]]
  /\ UNCHANGED <<namespace, objects, blobs, op, clock, hollow>>

\* The process dies in the middle of an operation; committed transactions and
\* renamed blobs survive.
Crash ==
  /\ op # Idle
  /\ op' = Idle
  /\ UNCHANGED <<namespace, objects, tombstones, blobs, clock, hollow>>

----------------------------------------------------------------------------
ClientStep ==
  \/ \E n \in Names, h \in Hashes, c \in Payloads : PutBlob(n, h, c)
  \/ CommitPut
  \/ AbortPut
  \/ \E n \in Names : Delete(n)
  \/ \E n \in Names, t \in Time \ {0} : ApplyTombstone(n, t)
  \/ ReapBlob
  \/ ReapBlobFails
  \/ ForgetObject

GCStep ==
  \/ SweepOrphanedBlobs
  \/ \E h \in Hashes, ok \in BOOLEAN : SweepBlob(h, ok)
  \/ SweepExpiredTombstones

Next == ClientStep \/ GCStep \/ Crash \/ Tick

Spec == Init /\ [][Next]_vars

----------------------------------------------------------------------------
(* Properties.                                                             *)

\* A reference count is never below the number of names that map to the hash,
\* and every mapped hash has an entry: Put counts up, Delete and
\* ApplyTombstone count down, and no crash or sweep between the transactions
\* loses a reference.
RefCountCoversNames ==
  \A h \in Hashes :
    /\ objects[h].refCount >= Cardinality(NamesOf(h))
    /\ NamesOf(h) # {} => objects[h].present

\* Whatever CASStore.Get needs to open a name it finds: a name in the namespace
\* has no tombstone, its hash has an objects row, and its bytes are in the
\* backend, unless the Put that created it carried no payload and found none.
NamedIsReadable ==
  \A n \in Names :
    namespace[n] # NoHash =>
      /\ tombstones[n] = 0
      /\ objects[namespace[n]].present
      /\ n \notin hollow => blobs[namespace[n]] # "absent"

\* Bytes leave the backend only when no name maps to them: "the blob is already
\* orphaned" when Delete, ApplyTombstone or the sweep removes it.
OnlyOrphansReaped ==
  [][\A h \in Hashes :
       blobs[h] # "absent" /\ blobs'[h] = "absent" => NamesOf(h) = {}]_vars
=============================================================================
