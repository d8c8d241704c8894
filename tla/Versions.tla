------------------------------ MODULE Versions ------------------------------
(***************************************************************************)
(* The versions of one object of one bucket on one node: the version chain *)
(* (storage/versioning.go), object lock (storage/objectlock.go), and the   *)
(* S3 requests and the lifecycle pass that change them.                    *)
(*                                                                         *)
(* Each call into the store is one transaction under s.mu.  A request      *)
(* makes several of them, so requests interleave between the calls and a   *)
(* crash can cut one short; `req' is where each request stands.  Of the    *)
(* content store only what these calls touch is kept: the name's mapping,  *)
(* the reference counts and the bytes (module CASStore has the rest).      *)
(***************************************************************************)
EXTENDS Integers, FiniteSets

CONSTANTS
  VersionIDs,    \* version ids; their order breaks ties between timestamps
  Hashes,        \* content hashes
  NoHash,        \* no mapping; the hash of a delete marker
  Requests,      \* requests in progress at a time
  PeerTimes,     \* the timestamps of the records that peers send, if they do
  LockStore,     \* the gateway has an object-lock store (m.lock is set)
  Deadlines,     \* the retention deadlines that requests ask for
  LockHeaders,   \* the lock states that multipart completions ask for
  MaxClock,      \* bound on the clock
  MaxRefCount    \* bound on the reference counts

ASSUME VersionIDsAssumption == VersionIDs \subseteq Nat
ASSUME NoHashAssumption == NoHash \notin Hashes
ASSUME BoundsAssumption == MaxClock \in Nat \ {0} /\ MaxRefCount \in Nat
ASSUME DeadlinesAssumption == Deadlines \subseteq Nat
ASSUME LockStoreAssumption == LockStore \in BOOLEAN

Time == 0 .. MaxClock

ASSUME PeerTimesAssumption == PeerTimes \subseteq Time

Modes == {"none", "GOVERNANCE", "COMPLIANCE"}

\* VersionRecord; `local' tells the records written here from replicated ones.
VersionRecord ==
  [present: BOOLEAN, hash: Hashes \cup {NoHash}, time: Time, latest: BOOLEAN,
   marker: BOOLEAN, local: BOOLEAN]

NoRecord == [present |-> FALSE, hash |-> NoHash, time |-> 0, latest |-> FALSE,
             marker |-> FALSE, local |-> FALSE]

\* ObjectLockState: mode, RetainUntil (0 for none) and LegalHoldOn.
ObjectLockState == [mode: Modes, until: Nat, hold: BOOLEAN]

Unlocked == [mode |-> "none", until |-> 0, hold |-> FALSE]

ASSUME LockHeadersAssumption == LockHeaders \subseteq ObjectLockState \ {Unlocked}

VARIABLES
  versioning,    \* bucketVersioning: the bucket's status
  lockEnabled,   \* bucketObjectLock: the bucket was created with object lock
  records,       \* bucketObjectVersions of the object
  locks,         \* bucketLockStatus of the object
  locked,        \* the versions that have a record in locks
  mapping,       \* bucketNamespace of the object
  refCount,      \* bucketObjects: hash -> RefCount, 0 when absent
  bytes,         \* the hashes whose bytes the backend holds
  req,           \* the requests in progress
  clock,         \* time.Now()
  used,          \* history: version ids that were given out
  promised,      \* history: the latest COMPLIANCE deadline of a data version
  bare           \* history: a deadline was accepted without a mode

store == <<mapping, refCount, bytes>>
chain == <<records, used>>
lockState == <<locks, locked, promised, bare>>
bucket == <<versioning, lockEnabled>>
vars == <<bucket, chain, lockState, store, req, clock>>

Steps == {"idle", "wrote", "record", "lock", "shadow", "mark", "purge",
          "survivor", "repoint", "expire", "expired"}

\* header: the lock headers of a multipart completion, or Unlocked.
RequestState ==
  [step: Steps, hash: Hashes \cup {NoHash}, version: VersionIDs \cup {0},
   header: ObjectLockState]

Idle == [step |-> "idle", hash |-> NoHash, version |-> 0, header |-> Unlocked]

TypeOK ==
  /\ versioning \in {"unset", "Enabled", "Suspended"}
  /\ lockEnabled \in BOOLEAN
  /\ records \in [VersionIDs -> VersionRecord]
  /\ locks \in [VersionIDs -> ObjectLockState]
  /\ locked \in SUBSET VersionIDs
  /\ mapping \in Hashes \cup {NoHash}
  /\ refCount \in [Hashes -> 0 .. MaxRefCount]
  /\ bytes \in SUBSET Hashes
  /\ req \in [Requests -> RequestState]
  /\ clock \in Time
  /\ used \in SUBSET VersionIDs
  /\ promised \in [VersionIDs -> Nat]
  /\ bare \in BOOLEAN

Init ==
  /\ versioning = "unset"
  /\ lockEnabled = FALSE
  /\ records = [v \in VersionIDs |-> NoRecord]
  /\ locks = [v \in VersionIDs |-> Unlocked]
  /\ locked = {}
  /\ mapping = NoHash
  /\ refCount = [h \in Hashes |-> 0]
  /\ bytes = {}
  /\ req = [r \in Requests |-> Idle]
  /\ clock = 1
  /\ used = {}
  /\ promised = [v \in VersionIDs |-> 0]
  /\ bare = FALSE

Tick ==
  /\ clock < MaxClock
  /\ clock' = clock + 1
  /\ UNCHANGED <<bucket, chain, lockState, store, req>>

----------------------------------------------------------------------------
(* The bucket.                                                             *)

SetBucketVersioning(status) ==
  /\ versioning' = status
  /\ UNCHANGED <<lockEnabled, chain, lockState, store, req, clock>>

\* CreateBucket with object lock turns versioning on.
SetBucketObjectLock ==
  /\ LockStore
  /\ versioning # "Suspended"
  /\ versioning' = "Enabled"
  /\ lockEnabled' = TRUE
  /\ UNCHANGED <<chain, lockState, store, req, clock>>

IsVersioned == versioning = "Enabled"

----------------------------------------------------------------------------
(* The version chain.                                                      *)

Present(R) == {v \in VersionIDs : R[v].present}

\* latestVersionTx returns v.
Newest(R, v) ==
  /\ v \in Present(R)
  /\ \A w \in Present(R) :
       R[w].time < R[v].time \/ (R[w].time = R[v].time /\ w <= v)

\* A slip that PutVersion avoids: the old latest record keeps its mark.
PutVersionOnly(R, v, rec) == [R EXCEPT ![v] = rec]

\* Store rec and take IsLatest from all others.
PutVersion(R, v, rec) ==
  [w \in VersionIDs |-> IF w = v THEN rec ELSE [R[w] EXCEPT !.latest = FALSE]]

\* A slip that AtLeastAsNew avoids: whatever arrives last is the latest.
AlwaysAsNew(R, rec) == rec.latest

\* The timestamp of rec is not below that of the latest version.
AtLeastAsNew(R, rec) ==
  rec.latest /\ \A w \in Present(R) : R[w].time <= rec.time

ApplyReplicatedRecord(R, v, rec) ==
  IF R[v] = rec THEN R
  ELSE IF AtLeastAsNew(R, rec) THEN PutVersion(R, v, rec)
  ELSE [R EXCEPT ![v] = [rec EXCEPT !.latest = FALSE]]

\* Remove v; when it was the latest, the newest record left takes its place.
Without(R, v) == [R EXCEPT ![v] = NoRecord]

RePointLatest(R, wasLatest) ==
  \/ /\ wasLatest => Present(R) = {}
     /\ records' = R
  \/ /\ wasLatest
     /\ \E n \in VersionIDs :
          /\ Newest(R, n)
          /\ records' = [R EXCEPT ![n].latest = TRUE]

\* RecordVersion and RecordDeleteMarker: a new id, stamped with the local time.
Record(v, h) ==
  /\ v \in VersionIDs \ used
  /\ records' = PutVersion(records, v,
       [present |-> TRUE, hash |-> h, time |-> clock, latest |-> TRUE,
        marker |-> h = NoHash, local |-> TRUE])
  /\ used' = used \cup {v}

\* PutVersionRecord, the replication entry point: a record that another node
\* wrote by its own clock, or such a record once more.
PutVersionRecord(v, h, t) ==
  LET rec == [present |-> TRUE, hash |-> h, time |-> t, latest |-> TRUE,
              marker |-> h = NoHash, local |-> FALSE]
  IN /\ \/ v \notin used
        \/ records[v] \in {rec, [rec EXCEPT !.latest = FALSE]}
     /\ records' = ApplyReplicatedRecord(records, v, rec)
     /\ used' = used \cup {v}
     /\ UNCHANGED <<bucket, lockState, store, req, clock>>

----------------------------------------------------------------------------
(* Object lock.                                                            *)

LockedAt(st) == st.hold \/ (st.mode # "none" /\ st.until > clock)

\* A slip that Denies avoids: the bypass flag opens every lock.
DeniesUnlessBypassed(v, bypass) ==
  v \in locked /\ LockedAt(locks[v]) /\ ~bypass

\* lockDeniesTx: the bypass flag opens GOVERNANCE without a legal hold.
Denies(v, bypass) ==
  /\ v \in locked
  /\ LockedAt(locks[v])
  /\ ~(bypass /\ locks[v].mode = "GOVERNANCE" /\ ~locks[v].hold)

Valid(st) == st.mode # "none" => st.until > 0

\* checkLockTighten: what may replace retention that is in force.
Tightens(old, new, bypass) ==
  old.until > clock =>
    /\ old.mode = "COMPLIANCE" =>
         /\ new.mode # "GOVERNANCE"
         /\ new.mode = "COMPLIANCE" => new.until >= old.until
         /\ new.mode = "none" => new.until # 0
    /\ old.mode = "GOVERNANCE" => bypass \/ new.until >= old.until

\* mutateVersionLock is possible, and what it stores.
MayLock(v, st, bypass) ==
  /\ v \in locked \/ records[v].present
  /\ Valid(st)
  /\ Tightens(locks[v], st, bypass)

StoreLock(v, st) ==
  /\ locks' = [locks EXCEPT ![v] = st]
  /\ locked' = locked \cup {v}
  /\ promised' = [promised EXCEPT ![v] =
       IF records[v].present /\ ~records[v].marker
          /\ st.mode = "COMPLIANCE" /\ st.until > @
       THEN st.until ELSE @]
  /\ bare' = (bare \/ (st.mode = "none" /\ st.until # 0))

PutVersionRetention(v, mode, until, bypass) ==
  LET st == [locks[v] EXCEPT !.mode = mode, !.until = until]
  IN /\ lockEnabled
     /\ MayLock(v, st, bypass)
     /\ StoreLock(v, st)
     /\ UNCHANGED <<bucket, chain, store, req, clock>>

PutVersionLegalHold(v, on) ==
  LET st == [locks[v] EXCEPT !.hold = on]
  IN /\ lockEnabled
     /\ MayLock(v, st, FALSE)
     /\ StoreLock(v, st)
     /\ UNCHANGED <<bucket, chain, store, req, clock>>

----------------------------------------------------------------------------
(* The calls of the content store that requests make.                      *)

Put(h) ==
  /\ refCount[h] < MaxRefCount
  /\ mapping' = h
  /\ refCount' = [refCount EXCEPT ![h] = @ + 1]
  /\ bytes' = bytes \cup {h}

\* Delete: drop the name and one reference; the last one takes the bytes.
Delete ==
  /\ mapping' = NoHash
  /\ IF mapping # NoHash /\ refCount[mapping] > 0
     THEN /\ refCount' = [refCount EXCEPT ![mapping] = @ - 1]
          /\ bytes' = IF refCount[mapping] = 1 THEN bytes \ {mapping} ELSE bytes
     ELSE UNCHANGED <<refCount, bytes>>

RepointNamespace(h) ==
  /\ mapping' = h
  /\ UNCHANGED <<refCount, bytes>>

----------------------------------------------------------------------------
(* Requests.                                                               *)

At(r, step) == req[r].step = step

Go(r, step) == req' = [req EXCEPT ![r].step = step]

Done(r) == req' = [req EXCEPT ![r] = Idle]

\* PutObject, or a multipart completion with lock headers st.  The headers of
\* a completion are refused at once on a bucket that is not versioned.
StartPut(r, h, st) ==
  /\ At(r, "idle")
  /\ st # Unlocked => IsVersioned
  /\ Put(h)
  /\ req' = [req EXCEPT ![r] = [step |-> "wrote", hash |-> h, version |-> 0,
                                header |-> st]]
  /\ UNCHANGED <<bucket, chain, lockState, clock>>

\* Storing the lock of no version fails.
CheckVersioned(r) ==
  /\ At(r, "wrote")
  /\ IF IsVersioned THEN Go(r, "record") ELSE Done(r)
  /\ UNCHANGED <<bucket, chain, lockState, store, clock>>

RecordVersion(r, v) ==
  /\ At(r, "record")
  /\ Record(v, req[r].hash)
  /\ IF req[r].header = Unlocked THEN Done(r)
     ELSE req' = [req EXCEPT ![r].step = "lock", ![r].version = v]
  /\ UNCHANGED <<bucket, lockState, store, clock>>

LockVersion(r) ==
  /\ At(r, "lock")
  /\ IF LockStore /\ MayLock(req[r].version, req[r].header, FALSE)
     THEN StoreLock(req[r].version, req[r].header)
     ELSE UNCHANGED lockState
  /\ Done(r)
  /\ UNCHANGED <<bucket, chain, store, clock>>

\* DELETE of the object: unmap the name, then record a delete marker.
StartDelete(r) ==
  /\ At(r, "idle")
  /\ IsVersioned
  /\ Go(r, "shadow")
  /\ UNCHANGED <<bucket, chain, lockState, store, clock>>

ShadowObject(r) ==
  /\ At(r, "shadow")
  /\ RepointNamespace(NoHash)
  /\ Go(r, "mark")
  /\ UNCHANGED <<bucket, chain, lockState, clock>>

RecordDeleteMarker(r, v) ==
  /\ At(r, "mark")
  /\ Record(v, NoHash)
  /\ Done(r)
  /\ UNCHANGED <<bucket, lockState, store, clock>>

\* DELETE of one version.
StartDeleteVersion(r, v) ==
  /\ At(r, "idle")
  /\ IsVersioned
  /\ req' = [req EXCEPT ![r] = [Idle EXCEPT !.step = "purge", !.version = v]]
  /\ UNCHANGED <<bucket, chain, lockState, store, clock>>

DeleteVersion(r, bypass) ==
  LET v == req[r].version
  IN /\ At(r, "purge")
     /\ IF records[v].present /\ (records[v].marker \/ ~Denies(v, bypass))
        THEN /\ RePointLatest(Without(records, v), records[v].latest)
             /\ Go(r, "survivor")
        ELSE UNCHANGED records /\ Done(r)
     /\ UNCHANGED <<bucket, used, lockState, store, clock>>

\* When no version is left the mapping stays as it is.
LatestVersion(r) ==
  /\ At(r, "survivor")
  /\ \/ Present(records) = {} /\ Done(r)
     \/ \E n \in VersionIDs :
          /\ Newest(records, n)
          /\ req' = [req EXCEPT ![r].step = "repoint",
                                ![r].hash = records[n].hash]
  /\ UNCHANGED <<bucket, chain, lockState, store, clock>>

AlignNamespace(r) ==
  /\ At(r, "repoint")
  /\ RepointNamespace(req[r].hash)
  /\ Done(r)
  /\ UNCHANGED <<bucket, chain, lockState, clock>>

\* The native protocol, DeleteObjects, and DELETE on a bucket that is not
\* versioned go straight to the content store.
PlainDelete ==
  /\ Delete
  /\ UNCHANGED <<bucket, chain, lockState, req, clock>>

\* The lifecycle pass reaches the object: a marker if the bucket is versioned,
\* then a plain delete.
StartExpire(r) ==
  /\ At(r, "idle")
  /\ mapping # NoHash
  /\ Go(r, IF IsVersioned THEN "expire" ELSE "expired")
  /\ UNCHANGED <<bucket, chain, lockState, store, clock>>

ExpireMarker(r, v) ==
  /\ At(r, "expire")
  /\ Record(v, NoHash)
  /\ Go(r, "expired")
  /\ UNCHANGED <<bucket, lockState, store, clock>>

ExpireObject(r) ==
  /\ At(r, "expired")
  /\ Delete
  /\ Done(r)
  /\ UNCHANGED <<bucket, chain, lockState, clock>>

\* The process restarts: the requests are gone, the transactions stay.
Crash ==
  /\ \E r \in Requests : ~At(r, "idle")
  /\ req' = [r \in Requests |-> Idle]
  /\ UNCHANGED <<bucket, chain, lockState, store, clock>>

----------------------------------------------------------------------------
BucketStep ==
  \/ \E status \in {"Enabled", "Suspended"} : SetBucketVersioning(status)
  \/ SetBucketObjectLock

LockStep ==
  \/ \E v \in VersionIDs, m \in Modes \ {"none"}, t \in Deadlines,
        bypass \in BOOLEAN : PutVersionRetention(v, m, t, bypass)
  \/ \E v \in VersionIDs, on \in BOOLEAN : PutVersionLegalHold(v, on)

RequestStep(r) ==
  \/ \E h \in Hashes, st \in LockHeaders \cup {Unlocked} : StartPut(r, h, st)
  \/ CheckVersioned(r)
  \/ \E v \in VersionIDs : RecordVersion(r, v)
  \/ LockVersion(r)
  \/ StartDelete(r)
  \/ ShadowObject(r)
  \/ \E v \in VersionIDs : RecordDeleteMarker(r, v)
  \/ \E v \in VersionIDs : StartDeleteVersion(r, v)
  \/ \E bypass \in BOOLEAN : DeleteVersion(r, bypass)
  \/ LatestVersion(r)
  \/ AlignNamespace(r)
  \/ StartExpire(r)
  \/ \E v \in VersionIDs : ExpireMarker(r, v)
  \/ ExpireObject(r)

Next ==
  \/ BucketStep
  \/ LockStep
  \/ \E r \in Requests : RequestStep(r)
  \/ \E v \in VersionIDs, h \in Hashes \cup {NoHash}, t \in PeerTimes :
       PutVersionRecord(v, h, t)
  \/ PlainDelete
  \/ Crash
  \/ Tick

Spec == Init /\ [][Next]_vars

----------------------------------------------------------------------------
(* Properties.                                                             *)

\* Exactly one version of the object is marked IsLatest as long as it has any:
\* no order of local writes, replicated records and version deletes leaves the
\* chain without a latest version or with two.
OneLatest ==
  Present(records) # {} =>
    \E v \in Present(records) :
      /\ records[v].latest
      /\ \A w \in Present(records) : records[w].latest => w = v

\* The mark is where the clocks say: the record marked IsLatest was written on
\* this node or no record is newer.  PutVersionRecord "never demotes a newer
\* local record", and a version delete hands the mark to the newest one left.
LatestIsNewest ==
  \A v \in Present(records) :
    records[v].latest =>
      records[v].local \/ \A w \in Present(records) : records[w].time <= records[v].time

\* While an accepted COMPLIANCE deadline is in the future its version is there
\* and is retained until then at least, whatever retention changes, holds,
\* bypass flags and deletes are asked for, if no deadline came without a mode.
ComplianceUntilBare ==
  ~bare =>
    \A v \in VersionIDs :
      promised[v] > clock =>
        /\ records[v].present
        /\ locks[v].mode = "COMPLIANCE"
        /\ locks[v].until >= promised[v]

\* "The version record persists and the GC exclusion keeps the blob referenced"
\* (objectlock.go): the bytes of a version under a lock are in the store.
LockedBytesKept ==
  \A v \in VersionIDs :
    records[v].present /\ records[v].local /\ ~records[v].marker
      /\ v \in locked /\ LockedAt(locks[v])
        => records[v].hash \in bytes
=============================================================================
