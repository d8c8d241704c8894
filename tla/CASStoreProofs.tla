--------------------------- MODULE CASStoreProofs ---------------------------
(* Proofs about CASStore, for any finite set of names and any set of       *)
(* hashes.                                                                 *)
EXTENDS CASStore, FiniteSetTheorems, TLAPS

(* What the holder of s.mu relies on between its steps.  A Put that carries *)
(* a payload has put bytes in the backend before its transaction; the       *)
(* hashes a delete or a sweep is about to remove have no name, and no name  *)
(* can appear while s.mu is held.                                           *)
OpInv ==
  /\ op.kind = "idle" => op = Idle
  /\ op.kind = "put" => op.name \in Names /\ op.hash \in Hashes
  /\ op.kind = "put" /\ op.payload # "none" /\ Presence =>
       blobs[op.hash] # "absent"
  /\ op.kind \in {"reap", "forget"} =>
       op.hash \in Hashes /\ NamesOf(op.hash) = {}
  /\ op.kind = "sweep" => \A h \in op.todo : NamesOf(h) = {}

(* NamedIsReadable for the metadata alone: it needs nothing of the backend. *)
NamedHasMetadata ==
  \A n \in Names :
    namespace[n] # NoHash =>
      tombstones[n] = 0 /\ objects[namespace[n]].present

(* The bytes of a named hash: only when the backend can be asked.           *)
NamedHasBytes ==
  Presence =>
    \A n \in Names :
      namespace[n] # NoHash /\ n \notin hollow => blobs[namespace[n]] # "absent"

IInv == TypeOK /\ OpInv /\ RefCountCoversNames /\ NamedHasMetadata /\ NamedHasBytes

----------------------------------------------------------------------------
(* The names of a hash are finitely many, so their number is a natural.    *)
LEMMA NamesOfFinite ==
  ASSUME NEW h
  PROVE  IsFiniteSet(NamesOf(h)) /\ Cardinality(NamesOf(h)) \in Nat
BY NamesFinite, FS_Subset, FS_CardinalityType DEF NamesOf

(* A set of names with at most one element more than another counts at     *)
(* most one more.                                                          *)
LEMMA CardinalityGrowth ==
  ASSUME NEW S \in SUBSET Names, NEW T \in SUBSET Names, NEW n \in Names,
         T \subseteq S \cup {n}
  PROVE  /\ Cardinality(S) \in Nat
         /\ Cardinality(T) \in Nat
         /\ Cardinality(T) <= Cardinality(S) + 1
         /\ T \subseteq S => Cardinality(T) <= Cardinality(S)
         /\ n \in S /\ T \subseteq S \ {n} => Cardinality(T) <= Cardinality(S) - 1
<1>1. IsFiniteSet(S) /\ IsFiniteSet(T)
  BY NamesFinite, FS_Subset
<1>2. Cardinality(S) \in Nat /\ Cardinality(T) \in Nat
  BY <1>1, FS_CardinalityType
<1>3. /\ IsFiniteSet(S \cup {n})
      /\ Cardinality(S \cup {n}) <= Cardinality(S) + 1
  <2>1. /\ IsFiniteSet(S \cup {n})
        /\ Cardinality(S \cup {n}) =
             IF n \in S THEN Cardinality(S) ELSE Cardinality(S) + 1
    BY <1>1, FS_AddElement
  <2> QED BY <2>1, <1>2
<1>4. Cardinality(T) <= Cardinality(S \cup {n})
  BY <1>3, FS_Subset
<1>5. Cardinality(S \cup {n}) \in Nat
  BY <1>3, FS_CardinalityType
<1>6. Cardinality(T) <= Cardinality(S) + 1
  BY <1>2, <1>3, <1>4, <1>5
<1>7. T \subseteq S => Cardinality(T) <= Cardinality(S)
  BY <1>1, FS_Subset
<1>8. ASSUME n \in S, T \subseteq S \ {n}
      PROVE  Cardinality(T) <= Cardinality(S) - 1
  <2>1. /\ IsFiniteSet(S \ {n})
        /\ Cardinality(S \ {n}) = Cardinality(S) - 1
    BY <1>1, <1>8, FS_RemoveElement
  <2>2. T \in SUBSET (S \ {n})
    BY <1>8
  <2>3. Cardinality(T) <= Cardinality(S \ {n})
    BY <2>1, <2>2, FS_Subset
  <2> QED BY <2>1, <2>3
<1> QED BY <1>2, <1>6, <1>7, <1>8

(* Initially every entry counts its names exactly.                         *)
LEMMA InitIInv == Init => IInv
<1> SUFFICES ASSUME Init PROVE IInv
  OBVIOUS
<1> PICK orphans \in SUBSET {h \in Hashes : NamesOf(h) = {}} :
      /\ objects = [h \in Hashes |->
            IF NamesOf(h) # {}
            THEN [present |-> TRUE, refCount |-> Cardinality(NamesOf(h)),
                  deleted |-> FALSE, legacy |-> TRUE]
            ELSE IF h \in orphans
            THEN [present |-> TRUE, refCount |-> 0, deleted |-> TRUE,
                  legacy |-> TRUE]
            ELSE NoMeta]
      /\ blobs = [h \in Hashes |->
            IF NamesOf(h) # {} \/ h \in orphans THEN "good" ELSE "absent"]
  BY DEF Init
<1>1. \A h \in Hashes : Cardinality(NamesOf(h)) \in Nat
  BY NamesOfFinite
<1>2. \A h \in Hashes : NamesOf(h) = {} => Cardinality(NamesOf(h)) = 0
  BY FS_EmptySet
<1>3. \A h \in Hashes : objects[h] \in ObjectMeta
  BY <1>1 DEF ObjectMeta, NoMeta
<1>4. TypeOK
  BY <1>3, BoundsAssumption
  DEF Init, TypeOK, Time, Bytes, Ops, OpKinds, Payloads, Idle
<1>5. OpInv
  BY DEF Init, OpInv, Idle
<1>6. RefCountCoversNames
  BY <1>1, <1>2 DEF RefCountCoversNames, NoMeta
<1>7. \A n \in Names : namespace[n] # NoHash =>
        namespace[n] \in Hashes /\ NamesOf(namespace[n]) # {}
  BY DEF Init, NamesOf
<1>8. NamedHasMetadata /\ NamedHasBytes
  BY <1>7 DEF Init, NamedHasMetadata, NamedHasBytes
<1> QED BY <1>4, <1>5, <1>6, <1>8 DEF IInv

----------------------------------------------------------------------------
(* Steps that leave the namespace and the objects alone: only the bytes    *)
(* and the holder's progress change.                                       *)
LEMMA PutBlobIInv ==
  ASSUME IInv, NEW n \in Names, NEW h \in Hashes, NEW c \in Payloads,
         PutBlob(n, h, c)
  PROVE  IInv'
<1>1. \A g \in Hashes : NamesOf(g)' = NamesOf(g)
  BY DEF PutBlob, NamesOf
<1>2. TypeOK'
  BY DEF IInv, TypeOK, PutBlob, Bytes, Payloads, Ops, OpKinds, Idle
<1>3. op'.kind = "put" /\ op'.name = n /\ op'.hash = h /\ op'.payload = c
  BY DEF PutBlob, Idle
<1>4. c # "none" /\ Presence => blobs'[h] # "absent"
  BY DEF IInv, TypeOK, PutBlob, Exists, Payloads
<1>5. OpInv'
  BY <1>3, <1>4 DEF OpInv
<1>6. RefCountCoversNames'
  BY <1>1 DEF IInv, RefCountCoversNames, PutBlob
<1>7. \A g \in Hashes : blobs[g] # "absent" => blobs'[g] # "absent"
  BY DEF IInv, TypeOK, PutBlob, Payloads
<1>8. NamedHasMetadata' /\ NamedHasBytes'
  BY <1>7 DEF IInv, TypeOK, NamedHasMetadata, NamedHasBytes, PutBlob
<1> QED BY <1>2, <1>5, <1>6, <1>8 DEF IInv

(* Removing bytes is safe for every hash without a name.                   *)
LEMMA ReapedIInv ==
  ASSUME IInv,
         \A h \in Hashes : NamesOf(h) # {} => blobs'[h] = blobs[h],
         UNCHANGED <<namespace, objects, tombstones, hollow>>
  PROVE  RefCountCoversNames' /\ NamedHasMetadata' /\ NamedHasBytes'
<1>1. \A g \in Hashes : NamesOf(g)' = NamesOf(g)
  BY DEF NamesOf
<1>2. \A n \in Names : namespace[n] # NoHash => /\ namespace[n] \in Hashes
                                              /\ NamesOf(namespace[n]) # {}
  BY DEF IInv, TypeOK, NamesOf
<1> QED BY <1>1, <1>2
  DEF IInv, RefCountCoversNames, NamedHasMetadata, NamedHasBytes

LEMMA ReapBlobIInv == IInv /\ ReapBlob => IInv'
<1> SUFFICES ASSUME IInv, ReapBlob PROVE IInv'
  OBVIOUS
<1>1. op.hash \in Hashes /\ NamesOf(op.hash) = {} /\ NamesOf(op.hash)' = {}
  BY DEF IInv, OpInv, ReapBlob, NamesOf
<1>2. TypeOK'
  BY DEF IInv, TypeOK, ReapBlob, Bytes, Ops, OpKinds
<1>3. op'.kind = "forget" /\ op'.hash = op.hash
  BY DEF IInv, TypeOK, Ops, ReapBlob
<1>4. OpInv'
  BY <1>1, <1>3 DEF OpInv
<1>5. RefCountCoversNames' /\ NamedHasMetadata' /\ NamedHasBytes'
  <2>1. \A h \in Hashes : NamesOf(h) # {} => blobs'[h] = blobs[h]
    BY <1>1 DEF IInv, TypeOK, ReapBlob
  <2> QED BY <2>1, ReapedIInv DEF ReapBlob
<1> QED BY <1>2, <1>4, <1>5 DEF IInv

LEMMA SweepBlobIInv ==
  ASSUME IInv, NEW h \in Hashes, NEW ok \in BOOLEAN, SweepBlob(h, ok)
  PROVE  IInv'
<1>1. NamesOf(h) = {} /\ \A g \in op.todo : NamesOf(g)' = {}
  BY DEF IInv, OpInv, SweepBlob, NamesOf
<1>2. TypeOK'
  BY DEF IInv, TypeOK, SweepBlob, Bytes, Ops, OpKinds, Idle, Payloads
<1>3. OpInv'
  <2>1. CASE op.todo = {h}
    BY <2>1 DEF SweepBlob, OpInv, Idle
  <2>2. CASE op.todo # {h}
    <3>1. op'.kind = "sweep" /\ op'.todo \subseteq op.todo
      BY <2>2 DEF IInv, TypeOK, Ops, SweepBlob
    <3> QED BY <1>1, <3>1 DEF OpInv
  <2> QED BY <2>1, <2>2
<1>4. RefCountCoversNames' /\ NamedHasMetadata' /\ NamedHasBytes'
  <2>1. \A g \in Hashes : NamesOf(g) # {} => blobs'[g] = blobs[g]
    BY <1>1 DEF IInv, TypeOK, SweepBlob
  <2> QED BY <2>1, ReapedIInv DEF SweepBlob
<1> QED BY <1>2, <1>3, <1>4 DEF IInv

(* Steps that only end an operation or move the clock.                     *)
LEMMA QuietIInv ==
  ASSUME IInv, op' = Idle \/ op' = op, clock' \in Time,
         UNCHANGED <<namespace, objects, tombstones, blobs, hollow>>
  PROVE  IInv'
<1>1. \A g : NamesOf(g)' = NamesOf(g)
  BY DEF NamesOf
<1>2. TypeOK'
  BY DEF IInv, TypeOK, Ops, OpKinds, Idle, Payloads
<1>3. OpInv'
  <2>1. CASE op' = Idle
    BY <2>1 DEF OpInv, Idle
  <2>2. CASE op' = op
    BY <2>2, <1>1 DEF IInv, OpInv
  <2> QED BY <2>1, <2>2
<1>4. RefCountCoversNames' /\ NamedHasMetadata' /\ NamedHasBytes'
  BY <1>1 DEF IInv, RefCountCoversNames, NamedHasMetadata, NamedHasBytes
<1> QED BY <1>2, <1>3, <1>4 DEF IInv

----------------------------------------------------------------------------
(* The transactions.                                                       *)

(* One Put adds at most its own name to its own hash, and one reference.   *)
LEMMA CommitPutIInv == IInv /\ CommitPut => IInv'
<1> SUFFICES ASSUME IInv, CommitPut PROVE IInv'
  OBVIOUS
<1> DEFINE n == op.name
           h == op.hash
<1>1. n \in Names /\ h \in Hashes
  BY DEF IInv, OpInv, CommitPut
<1>2. objects[h] \in ObjectMeta /\ Referenced(objects[h]) \in ObjectMeta
  BY <1>1 DEF IInv, TypeOK, Referenced, ObjectMeta
<1>3. TypeOK'
  <2>1. 0 \in Time
    BY BoundsAssumption DEF Time
  <2> QED BY <1>1, <1>2, <2>1
    DEF IInv, TypeOK, CommitPut, Ops, OpKinds, Idle, Payloads
<1>4. OpInv'
  BY DEF CommitPut, OpInv, Idle
<1>5. /\ namespace'[n] = h
      /\ \A m \in Names \ {n} : namespace'[m] = namespace[m]
      /\ objects'[h] = Referenced(objects[h])
      /\ \A g \in Hashes \ {h} : objects'[g] = objects[g]
      /\ tombstones'[n] = 0
      /\ \A m \in Names \ {n} : tombstones'[m] = tombstones[m]
  BY <1>1 DEF IInv, TypeOK, CommitPut
<1>6. ASSUME NEW g \in Hashes
      PROVE  /\ objects'[g].refCount >= Cardinality(NamesOf(g)')
             /\ NamesOf(g)' # {} => objects'[g].present
  <2>1. NamesOf(g) \in SUBSET Names /\ NamesOf(g)' \in SUBSET Names
    BY DEF NamesOf
  <2>2. NamesOf(g)' \subseteq NamesOf(g) \cup {n}
    BY <1>5 DEF NamesOf
  <2>3. objects[g] \in ObjectMeta /\ objects[g].refCount >= Cardinality(NamesOf(g))
        /\ (NamesOf(g) # {} => objects[g].present)
    BY DEF IInv, TypeOK, RefCountCoversNames
  <2>4. /\ Cardinality(NamesOf(g)) \in Nat
        /\ Cardinality(NamesOf(g)') \in Nat
        /\ Cardinality(NamesOf(g)') <= Cardinality(NamesOf(g)) + 1
        /\ NamesOf(g)' \subseteq NamesOf(g) =>
             Cardinality(NamesOf(g)') <= Cardinality(NamesOf(g))
    BY <1>1, <2>1, <2>2, CardinalityGrowth
  <2>5. CASE g = h
    <3>1. CASE objects[h].present
      <4>1. objects'[h].present /\ objects'[h].refCount = objects[h].refCount + 1
        BY <1>5, <3>1 DEF Referenced
      <4> QED BY <2>3, <2>4, <2>5, <4>1 DEF ObjectMeta
    <3>2. CASE ~objects[h].present
      <4>1. objects'[h].present /\ objects'[h].refCount = 1
        BY <1>5, <3>2 DEF Referenced
      <4>2. NamesOf(g) = {}
        BY <2>3, <2>5, <3>2
      <4>3. Cardinality(NamesOf(g)) = 0
        BY <4>2, FS_EmptySet
      <4> QED BY <2>4, <2>5, <4>1, <4>3
    <3> QED BY <3>1, <3>2
  <2>6. CASE g # h
    <3>1. NamesOf(g)' \subseteq NamesOf(g)
      BY <1>5, <2>6 DEF NamesOf
    <3>2. objects'[g] = objects[g]
      BY <1>5, <2>6
    <3> QED BY <2>3, <2>4, <3>1, <3>2 DEF ObjectMeta
  <2> QED BY <2>5, <2>6
<1>7. RefCountCoversNames'
  BY <1>6 DEF RefCountCoversNames
<1>8. \A g \in Hashes : objects[g].present => objects'[g].present
  BY <1>5 DEF Referenced
<1>9. NamedHasMetadata'
  <2>1. objects'[h].present
    BY <1>5 DEF Referenced
  <2> QED BY <1>1, <1>5, <1>8, <2>1 DEF IInv, TypeOK, NamedHasMetadata
<1>10. NamedHasBytes'
  <2> SUFFICES ASSUME Presence, NEW m \in Names, namespace'[m] # NoHash,
                      m \notin hollow'
               PROVE  blobs'[namespace'[m]] # "absent"
    BY DEF NamedHasBytes
  <2>1. CASE m = n
    BY <1>5, <2>1 DEF IInv, OpInv, CommitPut
  <2>2. CASE m # n
    BY <1>5, <2>2 DEF IInv, NamedHasBytes, CommitPut
  <2> QED BY <2>1, <2>2
<1> QED BY <1>3, <1>4, <1>7, <1>9, <1>10 DEF IInv

(* Removing a name drops one reference of its hash, and one name; when the *)
(* count reaches zero no name is left for the bytes about to be removed.   *)
LEMMA RemoveNameIInv ==
  ASSUME IInv, NEW n \in Names, NEW t \in Time, RemoveName(n, t)
  PROVE  IInv'
<1>h. PICK h : h = namespace[n]
  OBVIOUS
<1> USE <1>h
<1>1. h \in Hashes \cup {NoHash}
  BY DEF IInv, TypeOK
<1>2. /\ namespace' = [namespace EXCEPT ![n] = NoHash]
      /\ tombstones' = [tombstones EXCEPT ![n] = t]
      /\ UNCHANGED <<blobs, clock>>
      /\ hollow' = hollow \ {n}
  BY DEF RemoveName
<1>3. /\ namespace'[n] = NoHash
      /\ \A m \in Names \ {n} :
           namespace'[m] = namespace[m] /\ tombstones'[m] = tombstones[m]
  BY <1>2 DEF IInv, TypeOK
<1>4. \A g \in Hashes : NamesOf(g)' = NamesOf(g) \ {n}
  BY <1>3, NoHashAssumption DEF NamesOf
<1>5. h # NoHash => objects[h].present
  BY DEF IInv, NamedHasMetadata
<1>6. CASE h = NoHash
  <2>1. objects' = objects /\ op' = Idle
    BY <1>6 DEF RemoveName
  <2>2. TypeOK'
    BY <1>2, <2>1 DEF IInv, TypeOK, Ops, OpKinds, Idle, Payloads
  <2>3. OpInv'
    BY <2>1 DEF OpInv, Idle
  <2>4. \A g \in Hashes : NamesOf(g)' = NamesOf(g)
    BY <1>4, <1>6, NoHashAssumption DEF NamesOf
  <2>5. RefCountCoversNames'
    BY <2>1, <2>4 DEF IInv, RefCountCoversNames
  <2>6. NamedHasMetadata' /\ NamedHasBytes'
    BY <1>2, <1>3, <2>1 DEF IInv, NamedHasMetadata, NamedHasBytes
  <2> QED BY <2>2, <2>3, <2>5, <2>6 DEF IInv
<1>7. CASE h # NoHash
  <2>1. h \in Hashes /\ objects[h].present /\ objects[h] \in ObjectMeta
    BY <1>1, <1>5, <1>7 DEF IInv, TypeOK
  <2>2. objects' = [objects EXCEPT ![h] = Released(@)]
    BY <1>7, <2>1 DEF RemoveName
  <2>3. Released(objects[h]) \in ObjectMeta /\ Released(objects[h]).present
    <3>1. CASE objects[h].refCount <= 1
      BY <2>1, <3>1 DEF Released, ObjectMeta
    <3>2. CASE ~(objects[h].refCount <= 1)
      <4>1. objects[h].refCount - 1 \in Nat
        BY <2>1, <3>2 DEF ObjectMeta
      <4>2. Released(objects[h]) =
              [objects[h] EXCEPT !.refCount = objects[h].refCount - 1, !.legacy = FALSE]
        BY <2>1, <3>2 DEF Released, ObjectMeta
      <4> QED BY <2>1, <4>1, <4>2 DEF ObjectMeta
    <3> QED BY <3>1, <3>2
  <2>4. /\ objects'[h] = Released(objects[h])
        /\ \A g \in Hashes \ {h} : objects'[g] = objects[g]
    BY <2>1, <2>2 DEF IInv, TypeOK
  <2>5. /\ Cardinality(NamesOf(h)) \in Nat
        /\ Cardinality(NamesOf(h)') \in Nat
        /\ Cardinality(NamesOf(h)') <= Cardinality(NamesOf(h)) - 1
    <3>1. NamesOf(h) \in SUBSET Names /\ NamesOf(h)' \in SUBSET Names
          /\ n \in NamesOf(h) /\ NamesOf(h)' \subseteq NamesOf(h) \ {n}
      BY <1>4, <2>1 DEF NamesOf
    <3>2. NamesOf(h)' \subseteq NamesOf(h) \cup {n}
      BY <3>1
    <3> QED BY <3>1, <3>2, CardinalityGrowth
  <2>6. objects'[h].refCount >= Cardinality(NamesOf(h)')
    <3>1. objects[h].refCount \in Nat
          /\ objects[h].refCount >= Cardinality(NamesOf(h))
      BY <2>1 DEF IInv, RefCountCoversNames, ObjectMeta
    <3>2. Released(objects[h]).refCount =
            IF objects[h].refCount <= 1 THEN 0 ELSE objects[h].refCount - 1
      BY <2>1 DEF Released, ObjectMeta
    <3> QED BY <2>4, <2>5, <3>1, <3>2
  <2>7. ASSUME NEW g \in Hashes, g # h
        PROVE  NamesOf(g)' = NamesOf(g) /\ objects'[g] = objects[g]
    BY <1>4, <2>4, <2>7 DEF NamesOf
  <2>8. RefCountCoversNames'
    BY <2>3, <2>4, <2>6, <2>7 DEF IInv, RefCountCoversNames
  <2>9. NamedHasMetadata' /\ NamedHasBytes'
    BY <1>1, <1>2, <1>3, <2>3, <2>4
    DEF IInv, TypeOK, NamedHasMetadata, NamedHasBytes
  <2>10. op' = Idle \/ op' = [Idle EXCEPT !.kind = "reap", !.hash = h]
    BY DEF RemoveName
  <2>11. TypeOK'
    <3>1. op' \in Ops
      <4>1. Idle \in Ops
        BY DEF Ops, OpKinds, Idle, Payloads
      <4>2. [Idle EXCEPT !.kind = "reap", !.hash = h] \in Ops
        BY <2>1 DEF Ops, OpKinds, Idle, Payloads
      <4> QED BY <2>10, <4>1, <4>2
    <3>2. objects' \in [Hashes -> ObjectMeta]
      BY <2>1, <2>2, <2>3 DEF IInv, TypeOK
    <3> QED BY <1>2, <3>1, <3>2 DEF IInv, TypeOK
  <2>12. OpInv'
    <3>1. CASE Released(objects[h]).refCount = 0
      <4>1. op'.kind = "reap" /\ op'.hash = h
        BY <1>7, <2>1, <3>1 DEF RemoveName, Idle
      <4>2. Cardinality(NamesOf(h)') = 0
        BY <2>4, <2>5, <2>6, <3>1
      <4>3. IsFiniteSet(NamesOf(h)')
        <5>1. NamesOf(h)' \in SUBSET Names
          BY DEF NamesOf
        <5> QED BY <5>1, NamesFinite, FS_Subset
      <4>4. NamesOf(h)' = {}
        BY <4>2, <4>3, FS_EmptySet
      <4> QED BY <2>1, <4>1, <4>4 DEF OpInv, NamesOf
    <3>2. CASE Released(objects[h]).refCount # 0
      <4>1. op' = Idle
        BY <3>2 DEF RemoveName
      <4> QED BY <4>1 DEF OpInv, Idle
    <3> QED BY <3>1, <3>2
  <2> QED BY <2>8, <2>9, <2>11, <2>12 DEF IInv
<1> QED BY <1>6, <1>7

LEMMA ForgetObjectIInv == IInv /\ ForgetObject => IInv'
<1> SUFFICES ASSUME IInv, ForgetObject PROVE IInv'
  OBVIOUS
<1>1. op.hash \in Hashes /\ NamesOf(op.hash) = {}
  BY DEF IInv, OpInv, ForgetObject
<1>2. \A g : NamesOf(g)' = NamesOf(g)
  BY DEF ForgetObject, NamesOf
<1>3. /\ objects'[op.hash] = NoMeta
      /\ \A g \in Hashes \ {op.hash} : objects'[g] = objects[g]
  BY <1>1 DEF IInv, TypeOK, ForgetObject
<1>4. TypeOK'
  BY <1>1 DEF IInv, TypeOK, ForgetObject, ObjectMeta, NoMeta, Ops, OpKinds,
              Idle, Payloads
<1>5. OpInv'
  BY DEF ForgetObject, OpInv, Idle
<1>6. RefCountCoversNames'
  <2>1. Cardinality(NamesOf(op.hash)) = 0 /\ NoMeta.refCount = 0
    BY <1>1, FS_EmptySet DEF NoMeta
  <2> QED BY <1>1, <1>2, <1>3, <2>1 DEF IInv, RefCountCoversNames
<1>7. NamedHasMetadata' /\ NamedHasBytes'
  <2>1. \A n \in Names : namespace[n] # NoHash =>
          namespace[n] \in Hashes \ {op.hash}
    BY <1>1 DEF IInv, TypeOK, NamesOf
  <2> QED BY <1>3, <2>1
    DEF IInv, NamedHasMetadata, NamedHasBytes, ForgetObject
<1> QED BY <1>4, <1>5, <1>6, <1>7 DEF IInv

(* A row the sweep picks has RefCount 0, hence no name.                    *)
LEMMA SweepOrphanedBlobsIInv == IInv /\ SweepOrphanedBlobs => IInv'
<1> SUFFICES ASSUME IInv, SweepOrphanedBlobs PROVE IInv'
  OBVIOUS
<1>s. PICK S : S = {h \in Hashes : Sweepable(h)}
  OBVIOUS
<1>1. /\ S \subseteq Hashes
      /\ objects' = [h \in Hashes |-> IF h \in S THEN NoMeta ELSE objects[h]]
      /\ op' = [Idle EXCEPT !.kind = "sweep", !.todo = S]
  BY <1>s DEF SweepOrphanedBlobs
<1>2. \A g : NamesOf(g)' = NamesOf(g)
  BY DEF SweepOrphanedBlobs, NamesOf
<1>3. ASSUME NEW h \in S PROVE NamesOf(h) = {} /\ Cardinality(NamesOf(h)) = 0
  <2>1. h \in Hashes /\ objects[h].refCount = 0
    BY <1>s, <1>3 DEF Sweepable, IInv, TypeOK, ObjectMeta
  <2>2. IsFiniteSet(NamesOf(h)) /\ Cardinality(NamesOf(h)) \in Nat
    BY NamesOfFinite
  <2>3. Cardinality(NamesOf(h)) = 0
    BY <2>1, <2>2 DEF IInv, RefCountCoversNames
  <2> QED BY <2>2, <2>3, FS_EmptySet
<1>4. TypeOK'
  <2>1. op' \in Ops
    BY <1>1 DEF Ops, OpKinds, Idle, Payloads
  <2>2. objects' \in [Hashes -> ObjectMeta]
    BY <1>1 DEF IInv, TypeOK, ObjectMeta, NoMeta
  <2> QED BY <2>1, <2>2 DEF IInv, TypeOK, SweepOrphanedBlobs
<1>5. OpInv'
  <2>1. op'.kind = "sweep" /\ op'.todo = S
    BY <1>1 DEF Idle
  <2> QED BY <1>2, <1>3, <2>1 DEF OpInv
<1>6. RefCountCoversNames'
  <2>1. NoMeta.refCount = 0
    BY DEF NoMeta
  <2> QED BY <1>1, <1>2, <1>3, <2>1 DEF IInv, RefCountCoversNames
<1>7. NamedHasMetadata' /\ NamedHasBytes'
  <2>1. \A n \in Names : namespace[n] # NoHash =>
          namespace[n] \in Hashes \ S
    BY <1>3 DEF IInv, TypeOK, NamesOf
  <2> QED BY <1>1, <2>1
    DEF IInv, NamedHasMetadata, NamedHasBytes, SweepOrphanedBlobs
<1> QED BY <1>4, <1>5, <1>6, <1>7 DEF IInv

LEMMA SweepExpiredTombstonesIInv == IInv /\ SweepExpiredTombstones => IInv'
<1> SUFFICES ASSUME IInv, SweepExpiredTombstones PROVE IInv'
  OBVIOUS
<1>1. \A g : NamesOf(g)' = NamesOf(g)
  BY DEF SweepExpiredTombstones, NamesOf
<1>2. \A n \in Names : tombstones'[n] = tombstones[n] \/ tombstones'[n] = 0
  BY DEF SweepExpiredTombstones
<1>3. TypeOK'
  <2>1. 0 \in Time
    BY BoundsAssumption DEF Time
  <2> QED BY <2>1 DEF IInv, TypeOK, SweepExpiredTombstones
<1>4. OpInv'
  BY <1>1 DEF IInv, OpInv, SweepExpiredTombstones
<1>5. RefCountCoversNames' /\ NamedHasMetadata' /\ NamedHasBytes'
  BY <1>1, <1>2 DEF IInv, RefCountCoversNames, NamedHasMetadata,
                    NamedHasBytes, SweepExpiredTombstones
<1> QED BY <1>3, <1>4, <1>5 DEF IInv

----------------------------------------------------------------------------
LEMMA NextIInv == IInv /\ [Next]_vars => IInv'
<1> SUFFICES ASSUME IInv, [Next]_vars PROVE IInv'
  OBVIOUS
<1>1. CASE \E n \in Names, h \in Hashes, c \in Payloads : PutBlob(n, h, c)
  BY <1>1, PutBlobIInv
<1>2. CASE CommitPut
  BY <1>2, CommitPutIInv
<1>3. CASE AbortPut \/ ReapBlobFails \/ Crash
  BY <1>3, QuietIInv DEF AbortPut, ReapBlobFails, Crash, IInv, TypeOK
<1>4. CASE Tick
  <2>1. clock' \in Time
    BY <1>4, BoundsAssumption DEF Tick, Time, IInv, TypeOK
  <2> QED BY <1>4, <2>1, QuietIInv DEF Tick
<1>5. CASE \E n \in Names : Delete(n)
  BY <1>5, RemoveNameIInv DEF Delete, IInv, TypeOK
<1>6. CASE \E n \in Names, t \in Time \ {0} : ApplyTombstone(n, t)
  BY <1>6, RemoveNameIInv DEF ApplyTombstone
<1>7. CASE ReapBlob
  BY <1>7, ReapBlobIInv
<1>8. CASE ForgetObject
  BY <1>8, ForgetObjectIInv
<1>9. CASE SweepOrphanedBlobs
  BY <1>9, SweepOrphanedBlobsIInv
<1>10. CASE \E h \in Hashes, ok \in BOOLEAN : SweepBlob(h, ok)
  BY <1>10, SweepBlobIInv
<1>11. CASE SweepExpiredTombstones
  BY <1>11, SweepExpiredTombstonesIInv
<1>12. CASE UNCHANGED vars
  BY <1>12, QuietIInv DEF vars, IInv, TypeOK
<1> QED BY <1>1, <1>2, <1>3, <1>4, <1>5, <1>6, <1>7, <1>8, <1>9, <1>10,
           <1>11, <1>12 DEF Next, ClientStep, GCStep

THEOREM Invariance == Spec => []IInv
BY InitIInv, NextIInv, PTL DEF Spec

(* Type correctness of the database, the backend and the holder of s.mu.   *)
THEOREM TypeCorrect == Spec => []TypeOK
<1>1. IInv => TypeOK
  BY DEF IInv
<1> QED BY <1>1, Invariance, PTL

(* PutWithMetadata, Delete, ApplyTombstone and the sweep keep every        *)
(* reference count at or above the number of names of its hash, whatever   *)
(* crashes or fails between their steps.                                   *)
THEOREM RefCountsCoverNames == Spec => []RefCountCoversNames
<1>1. IInv => RefCountCoversNames
  BY DEF IInv
<1> QED BY <1>1, Invariance, PTL

(* With a backend that implements blobPresence, whatever Get needs to open *)
(* a name is there, in every state a crash can leave behind.               *)
THEOREM NamesAreReadable == Presence => (Spec => []NamedIsReadable)
<1> SUFFICES ASSUME Presence PROVE Spec => []NamedIsReadable
  OBVIOUS
<1>1. IInv => NamedIsReadable
  BY DEF IInv, NamedHasMetadata, NamedHasBytes, NamedIsReadable
<1> QED BY <1>1, Invariance, PTL

(* Delete, ApplyTombstone and the sweep remove only bytes no name maps to. *)
THEOREM BytesOutliveNames == Spec => OnlyOrphansReaped
<1>1. ASSUME IInv, [Next]_vars,
             NEW h \in Hashes, blobs[h] # "absent", blobs'[h] = "absent"
      PROVE  NamesOf(h) = {}
  <2>1. blobs' # blobs
    BY <1>1
  <2>2. CASE \E n \in Names, g \in Hashes, c \in Payloads : PutBlob(n, g, c)
    BY <1>1, <2>2 DEF PutBlob, IInv, TypeOK, Payloads
  <2>3. CASE ReapBlob
    BY <1>1, <2>3 DEF ReapBlob, IInv, TypeOK, OpInv
  <2>4. CASE \E g \in Hashes, ok \in BOOLEAN : SweepBlob(g, ok)
    BY <1>1, <2>4 DEF SweepBlob, IInv, TypeOK, OpInv
  <2>5. CASE CommitPut \/ AbortPut \/ ReapBlobFails \/ ForgetObject \/ Crash
             \/ SweepOrphanedBlobs \/ SweepExpiredTombstones \/ Tick
             \/ UNCHANGED vars
    BY <2>1, <2>5 DEF CommitPut, AbortPut, ReapBlobFails, ForgetObject, Crash,
      SweepOrphanedBlobs, SweepExpiredTombstones, Tick, vars
  <2>6. CASE (\E n \in Names : Delete(n))
             \/ \E n \in Names, t \in Time \ {0} : ApplyTombstone(n, t)
    BY <2>1, <2>6 DEF Delete, ApplyTombstone, RemoveName
  <2> QED BY <1>1, <2>2, <2>3, <2>4, <2>5, <2>6 DEF Next, ClientStep, GCStep
<1>2. IInv /\ [Next]_vars =>
        [\A h \in Hashes :
           blobs[h] # "absent" /\ blobs'[h] = "absent" => NamesOf(h) = {}]_vars
  BY <1>1
<1> QED BY <1>2, Invariance, PTL DEF Spec, OnlyOrphansReaped
=============================================================================
