--------------------------- MODULE VersionsProofs ---------------------------
(* Proofs about Versions: the version chain and the promises of object     *)
(* lock, for any set of version ids, hashes, requests, peer timestamps,    *)
(* deadlines and lock headers.                                             *)
EXTENDS Versions, TLAPS

(* A version id is given out once, so a record that is there is in use.    *)
PresentUsed == \A v \in VersionIDs : records[v].present => v \in used

(* What ComplianceUntilBare rests on: a version with a promise ahead holds *)
(* data, not a delete marker, and has a lock record that denies deletion.  *)
PromiseLocked ==
  ~bare =>
    \A v \in VersionIDs :
      promised[v] > clock => v \in locked /\ ~records[v].marker

(* A request that is about to lock or to delete a version has one in hand. *)
Targets ==
  \A r \in Requests : req[r].step \in {"lock", "purge"} => req[r].version \in VersionIDs

IInv ==
  /\ TypeOK
  /\ Targets
  /\ PresentUsed
  /\ OneLatest
  /\ LatestIsNewest
  /\ PromiseLocked
  /\ ComplianceUntilBare

----------------------------------------------------------------------------
(* Operators on the chain.                                                 *)

(* Storing a record that is there and carries the mark leaves exactly one  *)
(* mark.                                                                   *)
LEMMA PutVersionOneLatest ==
  ASSUME TypeOK, NEW v \in VersionIDs, NEW rec \in VersionRecord,
         rec.present, rec.latest,
         records' = PutVersion(records, v, rec)
  PROVE  /\ records' \in [VersionIDs -> VersionRecord]
         /\ records'[v] = rec
         /\ \A w \in VersionIDs \ {v} :
              /\ (records'[w].present <=> records[w].present)
              /\ (records'[w].marker <=> records[w].marker)
         /\ OneLatest'
         /\ rec.local \/ (\A w \in Present(records) : records[w].time <= rec.time)
              => LatestIsNewest'
<1>1. records \in [VersionIDs -> VersionRecord]
  BY DEF TypeOK
<1>2. /\ records' \in [VersionIDs -> VersionRecord]
      /\ records'[v] = rec
      /\ \A w \in VersionIDs \ {v} :
           /\ ~records'[w].latest
           /\ (records'[w].present <=> records[w].present)
           /\ (records'[w].marker <=> records[w].marker)
           /\ records'[w].time = records[w].time
  BY <1>1, Zenon DEF PutVersion, VersionRecord
<1>3. OneLatest'
  BY <1>2 DEF OneLatest, Present
<1>4. ASSUME rec.local \/ (\A w \in Present(records) : records[w].time <= rec.time)
      PROVE  LatestIsNewest'
  <2>1. rec.time \in Nat
    BY DEF VersionRecord, Time
  <2>2. SUFFICES ASSUME NEW u \in VersionIDs, records'[u].present, records'[u].latest,
                        ~records'[u].local, NEW w \in VersionIDs, records'[w].present
                 PROVE  records'[w].time <= records'[u].time
    BY DEF LatestIsNewest, Present
  <2>3. u = v /\ ~rec.local
    BY <1>2, <2>2
  <2>4. CASE w = v
    BY <1>2, <2>1, <2>3, <2>4
  <2>5. CASE w # v
    BY <1>2, <1>4, <2>2, <2>3, <2>5 DEF Present
  <2> QED BY <2>4, <2>5
<1> QED BY <1>2, <1>3, <1>4

(* A deletion keeps the chain marked: the mark stays, or goes to a newest  *)
(* record of those left.                                                   *)
LEMMA RePointLatestChain ==
  ASSUME TypeOK, OneLatest, LatestIsNewest, NEW v \in VersionIDs,
         records[v].present,
         RePointLatest(Without(records, v), records[v].latest)
  PROVE  /\ records' \in [VersionIDs -> VersionRecord]
         /\ OneLatest'
         /\ LatestIsNewest'
         /\ \A w \in VersionIDs :
              /\ w # v => (records'[w].present <=> records[w].present)
              /\ w # v => (records'[w].marker <=> records[w].marker)
              /\ records'[w].present => records[w].present
<1> DEFINE R == Without(records, v)
<1>1. /\ R \in [VersionIDs -> VersionRecord]
      /\ R[v] = NoRecord
      /\ \A w \in VersionIDs \ {v} : R[w] = records[w]
  BY BoundsAssumption DEF TypeOK, Without, VersionRecord, NoRecord, Time
<1>2. Present(R) = Present(records) \ {v}
  BY <1>1 DEF Present, NoRecord
<1>3. CASE ~records[v].latest
  <2>1. records' = R
    BY <1>3 DEF RePointLatest
  <2> HIDE DEF R
  <2>2. PICK u \in Present(records) :
          records[u].latest /\ \A w \in Present(records) : records[w].latest => w = u
    BY DEF OneLatest, Present
  <2>3. u # v
    BY <2>2, <1>3
  <2>4. OneLatest'
    BY <2>1, <2>2, <2>3, <1>1, <1>2 DEF OneLatest, Present
  <2>5. LatestIsNewest'
    BY <2>1, <1>1, <1>2 DEF LatestIsNewest, Present, NoRecord
  <2> QED BY <2>1, <2>4, <2>5, <1>1 DEF NoRecord
<1>4. CASE records[v].latest /\ Present(R) = {} /\ records' = R
  <2> HIDE DEF R
  <2> QED BY <1>1, <1>4 DEF OneLatest, LatestIsNewest, Present, NoRecord
<1>5. CASE records[v].latest /\ \E n \in VersionIDs :
             Newest(R, n) /\ records' = [R EXCEPT ![n].latest = TRUE]
  <2> HIDE DEF R
  <2>1. PICK n \in VersionIDs :
          Newest(R, n) /\ records' = [R EXCEPT ![n].latest = TRUE]
    BY <1>5, Zenon
  <2>2. n \in Present(R) /\ n # v
    BY <2>1, <1>2 DEF Newest
  <2>3. /\ records' \in [VersionIDs -> VersionRecord]
        /\ records'[n] = [R[n] EXCEPT !.latest = TRUE]
        /\ \A w \in VersionIDs \ {n} : records'[w] = R[w]
    BY <2>1, <1>1, ZenonT(60) DEF VersionRecord
  <2>4. /\ records'[n].latest /\ records'[n].present
        /\ records'[n].time = R[n].time /\ (records'[n].marker <=> R[n].marker)
    BY <2>2, <2>3, <1>1 DEF Present, VersionRecord
  <2>5. \A w \in Present(R) : w # n => ~R[w].latest
    BY <1>1, <1>2, <1>5 DEF OneLatest, Present
  <2>6. \A w \in Present(R) : R[w].time <= R[n].time
    BY <2>1, <2>2, <1>1 DEF Newest, VersionRecord, Time, Present
  <2>7. \A w \in VersionIDs : records'[w].present <=> w \in Present(R)
    BY <2>2, <2>3, <2>4, <1>1, Zenon DEF Present
  <2>8. OneLatest'
    BY <2>2, <2>3, <2>4, <2>5, <2>7, ZenonT(60) DEF OneLatest, Present
  <2>9. LatestIsNewest'
    BY <2>2, <2>3, <2>4, <2>5, <2>6, <2>7, Zenon DEF LatestIsNewest, Present
  <2>10. \A w \in VersionIDs \ {v} : (records'[w].marker <=> records[w].marker)
    BY <2>2, <2>3, <2>4, <1>1, Zenon
  <2> QED BY <2>3, <2>7, <2>8, <2>9, <2>10, <1>2 DEF Present
<1> QED BY <1>3, <1>4, <1>5 DEF RePointLatest
(* RecordVersion, RecordDeleteMarker and ExpireMarker: a fresh record of   *)
(* this node becomes the latest; no other record appears, goes or changes  *)
(* its kind.                                                               *)
LEMMA RecordChain ==
  ASSUME IInv, NEW v \in VersionIDs, NEW h \in Hashes \cup {NoHash}, Record(v, h)
  PROVE  /\ records' \in [VersionIDs -> VersionRecord]
         /\ used' \in SUBSET VersionIDs
         /\ PresentUsed'
         /\ OneLatest'
         /\ LatestIsNewest'
         /\ \A w \in VersionIDs : records[w].present =>
              records'[w].present /\ (records'[w].marker <=> records[w].marker)
<1> DEFINE rec == [present |-> TRUE, hash |-> h, time |-> clock, latest |-> TRUE,
                   marker |-> h = NoHash, local |-> TRUE]
<1>1. rec \in VersionRecord
  BY DEF IInv, TypeOK, VersionRecord
<1>2. records' = PutVersion(records, v, rec) /\ used' = used \cup {v}
  BY DEF Record
<1>3. v \notin used /\ ~records[v].present
  BY DEF Record, IInv, PresentUsed
<1>4. rec.present /\ rec.latest /\ rec.local
  OBVIOUS
<1> HIDE DEF rec
<1>5. /\ records' \in [VersionIDs -> VersionRecord]
      /\ OneLatest' /\ LatestIsNewest'
      /\ records'[v] = rec
      /\ \A w \in VersionIDs \ {v} :
           /\ (records'[w].present <=> records[w].present)
           /\ (records'[w].marker <=> records[w].marker)
  BY <1>1, <1>2, <1>4, PutVersionOneLatest DEF IInv
<1>6. PresentUsed'
  BY <1>2, <1>5 DEF IInv, PresentUsed
<1> QED BY <1>2, <1>3, <1>5, <1>6 DEF IInv, TypeOK

(* PutVersionRecord: a record of a peer is added, becomes the latest only  *)
(* if none is newer, and an arrival of a known record repeats nothing.     *)
LEMMA ReplicatedChain ==
  ASSUME IInv, NEW v \in VersionIDs, NEW h \in Hashes \cup {NoHash},
         NEW t \in PeerTimes, PutVersionRecord(v, h, t)
  PROVE  /\ records' \in [VersionIDs -> VersionRecord]
         /\ used' \in SUBSET VersionIDs
         /\ PresentUsed'
         /\ OneLatest'
         /\ LatestIsNewest'
         /\ \A w \in VersionIDs : records[w].present =>
              records'[w].present /\ (records'[w].marker <=> records[w].marker)
<1> DEFINE rec == [present |-> TRUE, hash |-> h, time |-> t, latest |-> TRUE,
                   marker |-> h = NoHash, local |-> FALSE]
           low == [rec EXCEPT !.latest = FALSE]
<1>1. rec \in VersionRecord /\ low \in VersionRecord
  BY PeerTimesAssumption, Zenon DEF VersionRecord
<1>2. /\ rec.present /\ rec.latest /\ rec.time = t /\ t \in Nat
      /\ low.present /\ ~low.latest /\ low.time = t
      /\ (low.marker <=> rec.marker)
  BY PeerTimesAssumption DEF Time
<1>3. /\ v \notin used \/ records[v] = rec \/ records[v] = low
      /\ records' = ApplyReplicatedRecord(records, v, rec)
      /\ used' = used \cup {v}
  BY Zenon DEF PutVersionRecord
<1>4. records \in [VersionIDs -> VersionRecord] /\ used \in SUBSET VersionIDs
  BY DEF IInv, TypeOK
<1>5. \A w \in VersionIDs : records[w].time \in Nat
  BY <1>4 DEF VersionRecord, Time
<1>6. v \notin used => ~records[v].present
  BY DEF IInv, PresentUsed
<1> HIDE DEF rec
<1>7. CASE records[v] = rec
  <2>1. records' = records
    BY <1>3, <1>7 DEF ApplyReplicatedRecord
  <2> QED BY <2>1, <1>2, <1>3, <1>4, <1>7, Zenon
          DEF IInv, PresentUsed, OneLatest, LatestIsNewest, Present
<1>8. CASE records[v] # rec /\ AtLeastAsNew(records, rec)
  <2>1. records' = PutVersion(records, v, rec)
    BY <1>3, <1>8 DEF ApplyReplicatedRecord
  <2>2. /\ records' \in [VersionIDs -> VersionRecord]
        /\ OneLatest' /\ LatestIsNewest'
        /\ records'[v] = rec
        /\ \A w \in VersionIDs \ {v} :
             /\ (records'[w].present <=> records[w].present)
             /\ (records'[w].marker <=> records[w].marker)
    BY <2>1, <1>1, <1>2, <1>8, PutVersionOneLatest DEF IInv, AtLeastAsNew
  <2>3. records[v].present => (records[v].marker <=> rec.marker)
    BY <1>2, <1>3, <1>6, Zenon
  <2> QED BY <2>2, <2>3, <1>2, <1>3, <1>4 DEF IInv, PresentUsed
<1>9. CASE records[v] # rec /\ ~AtLeastAsNew(records, rec)
  <2> HIDE DEF low
  <2>1. records' = [records EXCEPT ![v] = low]
    BY <1>3, <1>9 DEF ApplyReplicatedRecord, low
  <2>2. /\ records' \in [VersionIDs -> VersionRecord]
        /\ records'[v] = low
        /\ \A w \in VersionIDs \ {v} : records'[w] = records[w]
    BY <2>1, <1>1, <1>4
  <2>3. PICK w \in VersionIDs : records[w].present /\ records[w].time > t
    BY <1>2, <1>5, <1>9 DEF AtLeastAsNew, Present
  <2>4. ~records[v].present \/ records[v] = low
    BY <1>3, <1>6, <1>9
  <2>5. w # v
    BY <2>3, <2>4, <1>2
  <2>6. OneLatest'
    <3>1. PICK u \in VersionIDs :
            /\ records[u].present /\ records[u].latest
            /\ \A x \in VersionIDs : records[x].present /\ records[x].latest => x = u
      BY <2>3 DEF IInv, OneLatest, Present
    <3>2. u # v
      BY <3>1, <2>4, <1>2
    <3> QED BY <3>1, <3>2, <2>2, <1>2 DEF OneLatest, Present
  <2>7. LatestIsNewest'
    BY <2>2, <2>3, <2>5, <1>2, <1>5 DEF IInv, LatestIsNewest, Present
  <2> QED BY <2>2, <2>4, <2>6, <2>7, <1>2, <1>3, <1>4 DEF IInv, PresentUsed
<1> QED BY <1>7, <1>8, <1>9

----------------------------------------------------------------------------
(* The steps.                                                              *)

(* A step that leaves the locks alone keeps the promises, if it keeps the  *)
(* records that have one.                                                  *)
LEMMA PromisesKept ==
  ASSUME IInv, TypeOK', Targets', PresentUsed', OneLatest', LatestIsNewest',
         UNCHANGED lockState, clock' >= clock,
         \A v \in VersionIDs : ~bare /\ promised[v] > clock =>
           records'[v].present /\ (records'[v].marker <=> records[v].marker)
  PROVE  IInv'
<1>1. UNCHANGED <<locks, locked, promised, bare>>
  BY DEF lockState
<1>2. \A v \in VersionIDs : promised[v] \in Nat /\ clock \in Nat /\ clock' \in Nat
  BY DEF IInv, TypeOK, Time
<1>3. \A v \in VersionIDs : promised'[v] > clock' => promised[v] > clock
  BY <1>1, <1>2
<1>4. PromiseLocked'
  BY <1>1, <1>3 DEF IInv, PromiseLocked
<1>5. ComplianceUntilBare'
  BY <1>1, <1>3 DEF IInv, ComplianceUntilBare
<1> QED BY <1>4, <1>5 DEF IInv

(* A step that touches neither the chain nor the locks.                    *)
LEMMA ChainUnchanged ==
  ASSUME IInv, TypeOK', Targets', UNCHANGED <<chain, lockState>>, clock' >= clock
  PROVE  IInv'
<1>1. UNCHANGED <<records, used>> /\ UNCHANGED lockState
  BY DEF chain
<1>2. PresentUsed' /\ OneLatest' /\ LatestIsNewest'
  BY <1>1 DEF IInv, PresentUsed, OneLatest, LatestIsNewest, Present
<1>3. \A v \in VersionIDs : ~bare /\ promised[v] > clock =>
        records'[v].present /\ (records'[v].marker <=> records[v].marker)
  BY <1>1 DEF IInv, ComplianceUntilBare
<1> QED BY <1>1, <1>2, <1>3, PromisesKept

(* A lock is stored: retention in force under COMPLIANCE is only extended, *)
(* or loses its mode to a deadline that comes without one.                 *)
LEMMA StoreLockPromises ==
  ASSUME IInv, NEW v \in VersionIDs, NEW st \in ObjectLockState, NEW bypass \in BOOLEAN,
         MayLock(v, st, bypass), StoreLock(v, st), UNCHANGED <<chain, clock>>
  PROVE  /\ locks' \in [VersionIDs -> ObjectLockState]
         /\ locked' \in SUBSET VersionIDs
         /\ promised' \in [VersionIDs -> Nat]
         /\ bare' \in BOOLEAN
         /\ PromiseLocked'
         /\ ComplianceUntilBare'
<1>1. /\ locks \in [VersionIDs -> ObjectLockState] /\ locked \in SUBSET VersionIDs
      /\ promised \in [VersionIDs -> Nat] /\ clock \in Nat /\ bare \in BOOLEAN
  BY DEF IInv, TypeOK, Time
<1>2. /\ locks' \in [VersionIDs -> ObjectLockState]
      /\ locks'[v] = st
      /\ \A w \in VersionIDs \ {v} : locks'[w] = locks[w]
      /\ locked' = locked \cup {v}
  BY <1>1 DEF StoreLock
<1>3. UNCHANGED <<records, clock>>
  BY DEF chain
<1>4. st.until \in Nat /\ st.mode \in Modes /\ locks[v].until \in Nat
  BY <1>1 DEF ObjectLockState
<1>5. /\ promised' \in [VersionIDs -> Nat]
      /\ \A w \in VersionIDs \ {v} : promised'[w] = promised[w]
      /\ \/ promised'[v] = promised[v]
         \/ /\ promised'[v] = st.until /\ st.mode = "COMPLIANCE"
            /\ records[v].present /\ ~records[v].marker
  BY <1>1, <1>4 DEF StoreLock
<1>6. bare' \in BOOLEAN /\ (~bare' => ~bare /\ (st.mode = "none" => st.until = 0))
  BY <1>1, Zenon DEF StoreLock
<1>7. ASSUME ~bare', NEW w \in VersionIDs, promised'[w] > clock
      PROVE  /\ w \in locked' /\ ~records[w].marker
             /\ records[w].present
             /\ locks'[w].mode = "COMPLIANCE" /\ locks'[w].until >= promised'[w]
  <2>1. CASE promised'[w] = promised[w]
    <3>1. /\ w \in locked /\ ~records[w].marker /\ records[w].present
          /\ locks[w].mode = "COMPLIANCE" /\ locks[w].until >= promised[w]
      BY <1>6, <1>7, <2>1 DEF IInv, PromiseLocked, ComplianceUntilBare
    <3>2. CASE w = v
      <4>1. locks[v].until > clock
        BY <1>1, <1>4, <1>7, <2>1, <3>1, <3>2
      <4>2. st.mode = "COMPLIANCE" /\ st.until >= locks[v].until
        BY <1>4, <1>6, <1>7, <3>1, <3>2, <4>1 DEF MayLock, Tightens, Modes
      <4> QED BY <1>1, <1>2, <1>4, <2>1, <3>1, <3>2, <4>2
    <3>3. CASE w # v
      BY <1>2, <2>1, <3>1, <3>3
    <3> QED BY <3>2, <3>3
  <2>2. CASE promised'[w] # promised[w]
    BY <1>2, <1>4, <1>5, <2>2
  <2> QED BY <2>1, <2>2
<1>8. PromiseLocked' /\ ComplianceUntilBare'
  BY <1>3, <1>7 DEF PromiseLocked, ComplianceUntilBare
<1> QED BY <1>1, <1>2, <1>5, <1>6, <1>8

(* The requests keep their types and their targets.                        *)
LEMMA RequestTypes ==
  ASSUME TypeOK, Targets, NEW r \in Requests, NEW q \in RequestState,
         req' = [req EXCEPT ![r] = q],
         q.step \in {"lock", "purge"} => q.version \in VersionIDs
  PROVE  req' \in [Requests -> RequestState] /\ Targets'
<1>1. req \in [Requests -> RequestState]
  BY DEF TypeOK
<1> QED BY <1>1 DEF Targets

LEMMA GoTypes ==
  ASSUME TypeOK, Targets, NEW r \in Requests, NEW step \in Steps \ {"lock", "purge"},
         Go(r, step)
  PROVE  req' \in [Requests -> RequestState] /\ Targets'
<1> DEFINE q == [req[r] EXCEPT !.step = step]
<1>1. req[r] \in RequestState
  BY DEF TypeOK
<1>2. q \in RequestState /\ q.step = step
  BY <1>1 DEF RequestState
<1>3. req' = [req EXCEPT ![r] = q]
  BY DEF Go
<1> QED BY <1>2, <1>3, RequestTypes, Zenon

LEMMA DoneTypes ==
  ASSUME TypeOK, Targets, NEW r \in Requests, Done(r)
  PROVE  req' \in [Requests -> RequestState] /\ Targets'
<1>1. Idle \in RequestState /\ Idle.step = "idle"
  BY DEF Idle, RequestState, Steps, ObjectLockState, Unlocked, Modes
<1> QED BY <1>1, RequestTypes, Zenon DEF Done

(* The content store's calls keep its types; a count never goes below 0.   *)
LEMMA StoreTypes ==
  ASSUME TypeOK,
         \/ \E h \in Hashes : Put(h)
         \/ Delete
         \/ \E h \in Hashes \cup {NoHash} : RepointNamespace(h)
         \/ UNCHANGED store
  PROVE  /\ mapping' \in Hashes \cup {NoHash}
         /\ refCount' \in [Hashes -> 0 .. MaxRefCount]
         /\ bytes' \in SUBSET Hashes
<1>1. /\ mapping \in Hashes \cup {NoHash}
      /\ refCount \in [Hashes -> 0 .. MaxRefCount]
      /\ bytes \in SUBSET Hashes
  BY DEF TypeOK
<1>2. ASSUME NEW h \in Hashes, Put(h)
      PROVE  /\ mapping' \in Hashes \cup {NoHash}
             /\ refCount' \in [Hashes -> 0 .. MaxRefCount]
             /\ bytes' \in SUBSET Hashes
  BY <1>1, <1>2, BoundsAssumption DEF Put
<1>3. ASSUME Delete
      PROVE  /\ mapping' \in Hashes \cup {NoHash}
             /\ refCount' \in [Hashes -> 0 .. MaxRefCount]
             /\ bytes' \in SUBSET Hashes
  BY <1>1, <1>3, BoundsAssumption DEF Delete
<1>4. ASSUME NEW h \in Hashes \cup {NoHash}, RepointNamespace(h)
      PROVE  /\ mapping' \in Hashes \cup {NoHash}
             /\ refCount' \in [Hashes -> 0 .. MaxRefCount]
             /\ bytes' \in SUBSET Hashes
  BY <1>1, <1>4 DEF RepointNamespace
<1>5. ASSUME UNCHANGED store
      PROVE  /\ mapping' \in Hashes \cup {NoHash}
             /\ refCount' \in [Hashes -> 0 .. MaxRefCount]
             /\ bytes' \in SUBSET Hashes
  BY <1>1, <1>5 DEF store
<1> QED BY <1>2, <1>3, <1>4, <1>5

(* The steps of a request that leave the chain and the locks alone.        *)
LEMMA RequestElsewhere ==
  ASSUME IInv,
         req' \in [Requests -> RequestState] /\ Targets',
         \/ \E h \in Hashes : Put(h)
         \/ Delete
         \/ \E h \in Hashes \cup {NoHash} : RepointNamespace(h)
         \/ UNCHANGED store,
         UNCHANGED <<bucket, chain, lockState, clock>>
  PROVE  IInv'
<1>1. TypeOK
  BY DEF IInv
<1>2. /\ mapping' \in Hashes \cup {NoHash}
      /\ refCount' \in [Hashes -> 0 .. MaxRefCount]
      /\ bytes' \in SUBSET Hashes
  BY <1>1, StoreTypes
<1>3. TypeOK'
  BY <1>1, <1>2 DEF TypeOK, bucket, chain, lockState
<1>4. clock' >= clock
  BY <1>1 DEF TypeOK, Time
<1> QED BY <1>3, <1>4, ChainUnchanged

(* The steps of a request that record a version or a delete marker.        *)
LEMMA RequestRecords ==
  ASSUME IInv, NEW v \in VersionIDs, NEW h \in Hashes \cup {NoHash}, Record(v, h),
         req' \in [Requests -> RequestState] /\ Targets',
         UNCHANGED <<bucket, lockState, store, clock>>
  PROVE  IInv'
<1>1. TypeOK
  BY DEF IInv
<1>2. /\ records' \in [VersionIDs -> VersionRecord] /\ used' \in SUBSET VersionIDs
      /\ PresentUsed' /\ OneLatest' /\ LatestIsNewest'
      /\ \A w \in VersionIDs : records[w].present =>
           records'[w].present /\ (records'[w].marker <=> records[w].marker)
  BY RecordChain
<1>3. TypeOK'
  BY <1>1, <1>2 DEF TypeOK, bucket, lockState, store
<1>4. clock' >= clock
  BY <1>1 DEF TypeOK, Time
<1>5. \A w \in VersionIDs : ~bare /\ promised[w] > clock =>
        records'[w].present /\ (records'[w].marker <=> records[w].marker)
  BY <1>2 DEF IInv, ComplianceUntilBare
<1> QED BY <1>2, <1>3, <1>4, <1>5, PromisesKept

(* A PUT, up to the lock headers of a multipart completion.                *)
LEMMA PutSteps ==
  ASSUME IInv, NEW r \in Requests,
         \/ \E h \in Hashes, st \in LockHeaders \cup {Unlocked} : StartPut(r, h, st)
         \/ CheckVersioned(r)
         \/ \E v \in VersionIDs : RecordVersion(r, v)
  PROVE  IInv'
<1>1. TypeOK /\ Targets /\ req[r] \in RequestState
  BY DEF IInv, TypeOK
<1>2. Unlocked \in ObjectLockState
  BY DEF Unlocked, ObjectLockState, Modes
<1>3. ASSUME NEW h \in Hashes, NEW st \in LockHeaders \cup {Unlocked}, StartPut(r, h, st)
      PROVE  IInv'
  <2> DEFINE q == [step |-> "wrote", hash |-> h, version |-> 0, header |-> st]
  <2>1. q \in RequestState /\ q.step = "wrote"
    BY <1>2, LockHeadersAssumption DEF RequestState, Steps
  <2>2. req' = [req EXCEPT ![r] = q]
    BY <1>3 DEF StartPut
  <2>3. req' \in [Requests -> RequestState] /\ Targets'
    BY <1>1, <2>1, <2>2, RequestTypes, Zenon
  <2> QED BY <1>3, <2>3, RequestElsewhere DEF StartPut
<1>4. ASSUME CheckVersioned(r) PROVE IInv'
  <2>1. Go(r, "record") \/ Done(r)
    BY <1>4 DEF CheckVersioned
  <2>2. req' \in [Requests -> RequestState] /\ Targets'
    BY <1>1, <2>1, GoTypes, DoneTypes DEF Steps
  <2> QED BY <1>4, <2>2, RequestElsewhere DEF CheckVersioned
<1>5. ASSUME NEW v \in VersionIDs, RecordVersion(r, v) PROVE IInv'
  <2> DEFINE q == [req[r] EXCEPT !.step = "lock", !.version = v]
  <2>1. q \in RequestState /\ q.version = v
    BY <1>1, Zenon DEF RequestState, Steps
  <2>2. Done(r) \/ req' = [req EXCEPT ![r] = q]
    BY <1>5, Zenon DEF RecordVersion
  <2>3. req' \in [Requests -> RequestState] /\ Targets'
    BY <1>1, <2>1, <2>2, DoneTypes, RequestTypes, Zenon
  <2>4. req[r].hash \in Hashes \cup {NoHash}
    BY <1>1 DEF RequestState
  <2> QED BY <1>5, <2>3, <2>4, RequestRecords DEF RecordVersion
<1> QED BY <1>3, <1>4, <1>5

(* A lock is stored, by a request for it or by a completion's headers.     *)
LEMMA LockSteps ==
  ASSUME IInv, NEW v \in VersionIDs, NEW st \in ObjectLockState, NEW bypass \in BOOLEAN,
         MayLock(v, st, bypass), StoreLock(v, st),
         req' \in [Requests -> RequestState] /\ Targets',
         UNCHANGED <<bucket, chain, store, clock>>
  PROVE  IInv'
<1>1. /\ locks' \in [VersionIDs -> ObjectLockState]
      /\ locked' \in SUBSET VersionIDs
      /\ promised' \in [VersionIDs -> Nat]
      /\ bare' \in BOOLEAN
      /\ PromiseLocked'
      /\ ComplianceUntilBare'
  BY StoreLockPromises
<1>2. TypeOK'
  BY <1>1 DEF IInv, TypeOK, bucket, chain, store
<1>3. PresentUsed' /\ OneLatest' /\ LatestIsNewest'
  BY DEF IInv, PresentUsed, OneLatest, LatestIsNewest, Present, chain
<1> QED BY <1>1, <1>2, <1>3 DEF IInv

LEMMA LockVersionStep ==
  ASSUME IInv, NEW r \in Requests, LockVersion(r)
  PROVE  IInv'
<1>1. TypeOK /\ Targets /\ req[r] \in RequestState
  BY DEF IInv, TypeOK
<1>2. req[r].version \in VersionIDs
  BY <1>1 DEF LockVersion, At, Targets
<1>3. req[r].header \in ObjectLockState
  BY <1>1 DEF RequestState
<1>4. req' \in [Requests -> RequestState] /\ Targets'
  BY <1>1, DoneTypes DEF LockVersion
<1>5. CASE LockStore /\ MayLock(req[r].version, req[r].header, FALSE)
  BY <1>2, <1>3, <1>4, <1>5, LockSteps, Zenon DEF LockVersion
<1>6. CASE ~(LockStore /\ MayLock(req[r].version, req[r].header, FALSE))
  BY <1>4, <1>6, RequestElsewhere, Zenon DEF LockVersion
<1> QED BY <1>5, <1>6, Zenon

LEMMA LockCallSteps ==
  ASSUME IInv, LockStep
  PROVE  IInv'
<1>1. TypeOK /\ Targets
  BY DEF IInv
<1>2. \A v \in VersionIDs : locks[v] \in ObjectLockState
  BY <1>1 DEF TypeOK
<1>3. UNCHANGED req => req' \in [Requests -> RequestState] /\ Targets'
  BY <1>1 DEF TypeOK, Targets
<1>4. ASSUME NEW v \in VersionIDs, NEW m \in Modes \ {"none"}, NEW t \in Deadlines,
             NEW bypass \in BOOLEAN, PutVersionRetention(v, m, t, bypass)
      PROVE  IInv'
  <2> DEFINE st == [locks[v] EXCEPT !.mode = m, !.until = t]
  <2>1. st \in ObjectLockState
    BY <1>2, DeadlinesAssumption, Zenon DEF ObjectLockState
  <2>2. MayLock(v, st, bypass) /\ StoreLock(v, st)
        /\ UNCHANGED <<bucket, chain, store, req, clock>>
    BY <1>4 DEF PutVersionRetention
  <2> HIDE DEF st
  <2> QED BY <1>3, <2>1, <2>2, LockSteps
<1>5. ASSUME NEW v \in VersionIDs, NEW on \in BOOLEAN, PutVersionLegalHold(v, on)
      PROVE  IInv'
  <2> DEFINE st == [locks[v] EXCEPT !.hold = on]
  <2>1. st \in ObjectLockState
    BY <1>2 DEF ObjectLockState
  <2>2. MayLock(v, st, FALSE) /\ StoreLock(v, st)
        /\ UNCHANGED <<bucket, chain, store, req, clock>>
    BY <1>5, Zenon DEF PutVersionLegalHold
  <2> HIDE DEF st
  <2> QED BY <1>3, <2>1, <2>2, LockSteps, Zenon
<1> QED BY <1>4, <1>5 DEF LockStep

(* DELETE of one version: a version with a COMPLIANCE promise ahead is not *)
(* a marker and its lock denies the deletion, bypass or not.               *)
LEMMA DeleteVersionStep ==
  ASSUME IInv, NEW r \in Requests, NEW bypass \in BOOLEAN, DeleteVersion(r, bypass)
  PROVE  IInv'
<1> DEFINE v == req[r].version
<1>1. TypeOK /\ Targets /\ OneLatest /\ LatestIsNewest
  BY DEF IInv
<1>2. v \in VersionIDs
  BY <1>1 DEF DeleteVersion, At, Targets
<1>3. req' \in [Requests -> RequestState] /\ Targets'
  <2>1. Go(r, "survivor") \/ Done(r)
    BY DEF DeleteVersion
  <2> QED BY <1>1, <2>1, GoTypes, DoneTypes DEF Steps
<1>4. UNCHANGED <<bucket, used, lockState, store, clock>>
  BY DEF DeleteVersion
<1> HIDE DEF v
<1>5. CASE records[v].present /\ (records[v].marker \/ ~Denies(v, bypass))
  <2>1. RePointLatest(Without(records, v), records[v].latest)
    BY <1>5 DEF DeleteVersion, v
  <2>2. /\ records' \in [VersionIDs -> VersionRecord]
        /\ OneLatest' /\ LatestIsNewest'
        /\ \A w \in VersionIDs :
             /\ w # v => (records'[w].present <=> records[w].present)
             /\ w # v => (records'[w].marker <=> records[w].marker)
             /\ records'[w].present => records[w].present
    BY <1>1, <1>2, <1>5, <2>1, RePointLatestChain
  <2>3. TypeOK'
    BY <1>1, <1>3, <1>4, <2>2 DEF TypeOK, bucket, lockState, store
  <2>4. PresentUsed'
    BY <1>4, <2>2 DEF IInv, PresentUsed
  <2>5. ~(~bare /\ promised[v] > clock)
    <3>1. SUFFICES ASSUME ~bare, promised[v] > clock PROVE FALSE
      OBVIOUS
    <3>2. /\ v \in locked /\ ~records[v].marker
          /\ locks[v].mode = "COMPLIANCE" /\ locks[v].until >= promised[v]
      BY <1>2, <3>1 DEF IInv, PromiseLocked, ComplianceUntilBare
    <3>3. locks[v].until > clock
      <4>1. locks[v].until \in Nat /\ promised[v] \in Nat /\ clock \in Nat
        BY <1>1, <1>2 DEF TypeOK, ObjectLockState, Time
      <4> QED BY <3>1, <3>2, <4>1
    <3>4. Denies(v, bypass)
      BY <3>2, <3>3 DEF Denies, LockedAt
    <3> QED BY <1>5, <3>2, <3>4
  <2>6. \A w \in VersionIDs : ~bare /\ promised[w] > clock =>
          records'[w].present /\ (records'[w].marker <=> records[w].marker)
    BY <2>2, <2>5 DEF IInv, ComplianceUntilBare
  <2>7. clock' >= clock
    BY <1>1, <1>4 DEF TypeOK, Time
  <2> QED BY <1>3, <1>4, <2>2, <2>3, <2>4, <2>6, <2>7, PromisesKept
<1>6. CASE ~(records[v].present /\ (records[v].marker \/ ~Denies(v, bypass)))
  <2>1. UNCHANGED records
    BY <1>6 DEF DeleteVersion, v
  <2> QED BY <1>3, <1>4, <2>1, RequestElsewhere DEF chain
<1> QED BY <1>5, <1>6

(* The rest of the DELETEs and the lifecycle pass.                         *)
LEMMA RemovalSteps ==
  ASSUME IInv, NEW r \in Requests,
         \/ StartDelete(r) \/ ShadowObject(r)
         \/ \E v \in VersionIDs : RecordDeleteMarker(r, v)
         \/ \E v \in VersionIDs : StartDeleteVersion(r, v)
         \/ LatestVersion(r) \/ AlignNamespace(r)
         \/ StartExpire(r)
         \/ \E v \in VersionIDs : ExpireMarker(r, v)
         \/ ExpireObject(r)
  PROVE  IInv'
<1>1. TypeOK /\ Targets /\ req[r] \in RequestState
  BY DEF IInv, TypeOK
<1>2. \A step \in {"shadow", "mark", "survivor", "expire", "expired"} :
        Go(r, step) => req' \in [Requests -> RequestState] /\ Targets'
  BY <1>1, GoTypes DEF Steps
<1>3. Done(r) => req' \in [Requests -> RequestState] /\ Targets'
  BY <1>1, DoneTypes
<1>4. ASSUME StartDelete(r) PROVE IInv'
  BY <1>2, <1>4, RequestElsewhere DEF StartDelete
<1>5. ASSUME ShadowObject(r) PROVE IInv'
  BY <1>2, <1>5, RequestElsewhere DEF ShadowObject
<1>6. ASSUME NEW v \in VersionIDs, RecordDeleteMarker(r, v) PROVE IInv'
  BY <1>3, <1>6, RequestRecords DEF RecordDeleteMarker
<1>7. ASSUME NEW v \in VersionIDs, StartDeleteVersion(r, v) PROVE IInv'
  <2> DEFINE q == [Idle EXCEPT !.step = "purge", !.version = v]
  <2>1. q \in RequestState /\ q.version = v
    BY Zenon DEF Idle, RequestState, Steps, ObjectLockState, Unlocked, Modes
  <2>2. req' = [req EXCEPT ![r] = q]
    BY <1>7, Zenon DEF StartDeleteVersion
  <2>3. req' \in [Requests -> RequestState] /\ Targets'
    BY <1>1, <2>1, <2>2, RequestTypes, Zenon
  <2> QED BY <1>7, <2>3, RequestElsewhere, Zenon DEF StartDeleteVersion
<1>8. ASSUME LatestVersion(r) PROVE IInv'
  <2>1. ASSUME NEW n \in VersionIDs,
               req' = [req EXCEPT ![r].step = "repoint", ![r].hash = records[n].hash]
        PROVE  req' \in [Requests -> RequestState] /\ Targets'
    <3> DEFINE q == [req[r] EXCEPT !.step = "repoint", !.hash = records[n].hash]
    <3>1. records[n].hash \in Hashes \cup {NoHash}
      BY <1>1 DEF TypeOK, VersionRecord
    <3>2. q \in RequestState /\ q.step = "repoint"
      BY <1>1, <3>1, Zenon DEF RequestState, Steps
    <3>3. req' = [req EXCEPT ![r] = q]
      BY <2>1, Zenon
    <3> QED BY <1>1, <3>2, <3>3, RequestTypes, Zenon
  <2>2. req' \in [Requests -> RequestState] /\ Targets'
    BY <1>3, <1>8, <2>1 DEF LatestVersion
  <2> QED BY <1>8, <2>2, RequestElsewhere DEF LatestVersion
<1>9. ASSUME AlignNamespace(r) PROVE IInv'
  <2>1. req[r].hash \in Hashes \cup {NoHash}
    BY <1>1 DEF RequestState
  <2> QED BY <1>3, <1>9, <2>1, RequestElsewhere DEF AlignNamespace
<1>10. ASSUME StartExpire(r) PROVE IInv'
  <2>1. Go(r, "expire") \/ Go(r, "expired")
    BY <1>10 DEF StartExpire
  <2> QED BY <1>2, <1>10, <2>1, RequestElsewhere DEF StartExpire
<1>11. ASSUME NEW v \in VersionIDs, ExpireMarker(r, v) PROVE IInv'
  BY <1>2, <1>11, RequestRecords DEF ExpireMarker
<1>12. ASSUME ExpireObject(r) PROVE IInv'
  BY <1>3, <1>12, RequestElsewhere DEF ExpireObject
<1> QED BY <1>4, <1>5, <1>6, <1>7, <1>8, <1>9, <1>10, <1>11, <1>12

LEMMA PutVersionRecordStep ==
  ASSUME IInv, NEW v \in VersionIDs, NEW h \in Hashes \cup {NoHash},
         NEW t \in PeerTimes, PutVersionRecord(v, h, t)
  PROVE  IInv'
<1>1. TypeOK /\ Targets
  BY DEF IInv
<1>2. UNCHANGED <<bucket, lockState, store, req, clock>>
  BY DEF PutVersionRecord
<1>3. /\ records' \in [VersionIDs -> VersionRecord] /\ used' \in SUBSET VersionIDs
      /\ PresentUsed' /\ OneLatest' /\ LatestIsNewest'
      /\ \A w \in VersionIDs : records[w].present =>
           records'[w].present /\ (records'[w].marker <=> records[w].marker)
  BY ReplicatedChain
<1>4. TypeOK' /\ Targets' /\ clock' >= clock
  BY <1>1, <1>2, <1>3 DEF TypeOK, Targets, Time, bucket, lockState, store
<1>5. \A w \in VersionIDs : ~bare /\ promised[w] > clock =>
        records'[w].present /\ (records'[w].marker <=> records[w].marker)
  BY <1>3 DEF IInv, ComplianceUntilBare
<1> QED BY <1>2, <1>3, <1>4, <1>5, PromisesKept

----------------------------------------------------------------------------
(* The theorems.                                                           *)

LEMMA InitInvariant == Init => IInv
<1> SUFFICES ASSUME Init PROVE IInv
  OBVIOUS
<1>1. /\ NoRecord \in VersionRecord /\ ~NoRecord.present
      /\ Unlocked \in ObjectLockState
      /\ Idle \in RequestState /\ Idle.step = "idle"
      /\ 1 \in Time /\ 0 \in 0 .. MaxRefCount
  BY BoundsAssumption DEF NoRecord, VersionRecord, Time, Unlocked, ObjectLockState,
     Modes, Idle, RequestState, Steps
<1>2. TypeOK
  BY <1>1, Zenon DEF Init, TypeOK
<1>3. \A v \in VersionIDs : ~records[v].present /\ ~(promised[v] > clock)
  BY <1>1 DEF Init
<1> QED BY <1>1, <1>2, <1>3
        DEF Init, IInv, Targets, PresentUsed, OneLatest, LatestIsNewest, Present,
            PromiseLocked, ComplianceUntilBare

(* Every step of requests, peers, the lifecycle pass, restarts and the     *)
(* clock keeps the invariant.                                              *)
LEMMA NextInvariant == IInv /\ [Next]_vars => IInv'
<1> SUFFICES ASSUME IInv, [Next]_vars PROVE IInv'
  OBVIOUS
<1>1. TypeOK /\ Targets /\ clock \in Time
  BY DEF IInv, TypeOK
<1>2. ASSUME BucketStep PROVE IInv'
  <2>1. UNCHANGED <<chain, lockState, store, req, clock>>
    BY <1>2 DEF BucketStep, SetBucketVersioning, SetBucketObjectLock
  <2>2. versioning' \in {"Enabled", "Suspended"} /\ lockEnabled' \in BOOLEAN
    BY <1>1, <1>2, Zenon DEF BucketStep, SetBucketVersioning, SetBucketObjectLock, TypeOK
  <2>3. TypeOK' /\ Targets' /\ clock' >= clock
    BY <1>1, <2>1, <2>2 DEF TypeOK, Targets, chain, lockState, store, Time
  <2> QED BY <2>1, <2>3, ChainUnchanged
<1>3. ASSUME LockStep PROVE IInv'
  BY <1>3, LockCallSteps
<1>4. ASSUME NEW r \in Requests, RequestStep(r) PROVE IInv'
  BY <1>4, PutSteps, LockVersionStep, DeleteVersionStep, RemovalSteps DEF RequestStep
<1>5. ASSUME NEW v \in VersionIDs, NEW h \in Hashes \cup {NoHash}, NEW t \in PeerTimes,
             PutVersionRecord(v, h, t)
      PROVE  IInv'
  BY <1>5, PutVersionRecordStep
<1>6. ASSUME PlainDelete PROVE IInv'
  <2>1. req' \in [Requests -> RequestState] /\ Targets'
    BY <1>1, <1>6 DEF PlainDelete, TypeOK, Targets
  <2> QED BY <1>6, <2>1, RequestElsewhere DEF PlainDelete
<1>7. ASSUME Crash PROVE IInv'
  <2>1. Idle \in RequestState /\ Idle.step = "idle"
    BY DEF Idle, RequestState, Steps, ObjectLockState, Unlocked, Modes
  <2>2. req' \in [Requests -> RequestState] /\ Targets'
    BY <1>7, <2>1 DEF Crash, Targets
  <2> QED BY <1>7, <2>2, RequestElsewhere DEF Crash
<1>8. ASSUME Tick PROVE IInv'
  <2>1. clock' \in Time /\ clock' >= clock
    BY <1>1, <1>8, BoundsAssumption DEF Tick, Time
  <2>2. TypeOK' /\ Targets'
    BY <1>1, <1>8, <2>1 DEF Tick, TypeOK, Targets, bucket, chain, lockState, store
  <2> QED BY <1>8, <2>1, <2>2, ChainUnchanged DEF Tick
<1>9. ASSUME UNCHANGED vars PROVE IInv'
  <2>1. TypeOK' /\ Targets' /\ clock' >= clock
    BY <1>1, <1>9 DEF vars, TypeOK, Targets, bucket, chain, lockState, store, Time
  <2> QED BY <1>9, <2>1, ChainUnchanged DEF vars
<1> QED BY <1>2, <1>3, <1>4, <1>5, <1>6, <1>7, <1>8, <1>9 DEF Next

(* The inductive invariant of Versions.                                    *)
THEOREM VersionsInvariant == Spec => []IInv
BY InitInvariant, NextInvariant, PTL DEF Spec

(* PutVersion, ApplyReplicatedRecord and the re-pointing of DeleteVersion  *)
(* (versioning.go) leave exactly one latest version, in any order.         *)
THEOREM ExactlyOneLatest == Spec => []OneLatest
<1>1. IInv => OneLatest
  BY DEF IInv
<1> QED BY <1>1, VersionsInvariant, PTL

(* A replicated record holds the mark only while no record is newer.       *)
THEOREM LatestByTimestamp == Spec => []LatestIsNewest
<1>1. IInv => LatestIsNewest
  BY DEF IInv
<1> QED BY <1>1, VersionsInvariant, PTL

(* An accepted COMPLIANCE deadline is kept: checkLockTighten and           *)
(* lockDeniesTx (objectlock.go) leave no way to shorten it or to delete    *)
(* its version, as long as no deadline is accepted without a mode.         *)
THEOREM ComplianceKept == Spec => []ComplianceUntilBare
<1>1. IInv => ComplianceUntilBare
  BY DEF IInv
<1> QED BY <1>1, VersionsInvariant, PTL

(* The types of the version chain, the locks and the requests; the counts  *)
(* of the content store never go below 0.                                  *)
THEOREM VersionsTypes == Spec => []TypeOK
<1>1. IInv => TypeOK
  BY DEF IInv
<1> QED BY <1>1, VersionsInvariant, PTL
=============================================================================
