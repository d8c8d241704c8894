---------------------------- MODULE BlobBackend -----------------------------
(***************************************************************************)
(* The blob backends of a node, as storage/factory.go (buildCAS) chooses   *)
(* and wraps them: one of the filesystem, volume, raw-device and S3        *)
(* backends, or the adaptive one, optionally behind the encrypting         *)
(* decorator (storage/encrypted_blobstore.go), under a durability barrier. *)
(*                                                                         *)
(* The adaptive backend sends a blob to a volume store or to a filesystem  *)
(* store by its size, so the two never hold the same blob and do not       *)
(* interact.  Its volume half behaves like the volume backend; its other   *)
(* half is the filesystem store with its own fsync, because the adaptive   *)
(* store hides both the fsync switch and the barrier's operations.         *)
(***************************************************************************)
EXTENDS Integers, FiniteSets, Sequences

CONSTANTS Hashes, Cells, VolumeIds, VolumeSize, Writers, MaxExposed, NoVolume,
          NoHash, NoWriter, MaxCrashes, DeviceSize,
          Threshold      \* AdaptiveBlobStore.threshold, in cells

ASSUME HashesAssumption == NoHash \notin Hashes /\ IsFiniteSet(Hashes)
ASSUME CellsAssumption == \A h \in Hashes : Cells[h] \in Nat
ASSUME VolumesAssumption == VolumeIds = 1 .. Cardinality(VolumeIds) /\ VolumeSize \in Nat

VARIABLES
  backend,       \* cfg.Backend
  encrypted,     \* encKeyHex # ""
  file, volumes, needles, mem, wr, del, stored, exposed,
  mode, syncEnabled, blob, dur, mu, at, pending, flushing, batch, acked, crashes,
  device, alloc, nextOffset, held, reused,
  remote         \* objects in the S3 bucket

\* Blobs that a volume can hold are not empty: the frame alone takes a cell.
Framed == {h \in Hashes : Cells[h] > 0}

V == INSTANCE VolumeStore WITH Hashes <- Framed
L == INSTANCE LocalStore
R == INSTANCE RawStore WITH Length <- Cells

configVars == <<backend, encrypted>>
volumeVars == <<file, volumes, needles, mem, wr, del, stored, exposed>>
localVars == <<mode, syncEnabled, blob, dur, mu, at, pending, flushing, batch,
               acked, crashes>>
rawVars == <<device, alloc, nextOffset, held, reused>>
vars == <<configVars, volumeVars, localVars, rawVars, remote>>

TypeOK ==
  /\ backend \in {"local", "volume", "raw", "s3", "adaptive"}
  /\ encrypted \in BOOLEAN
  /\ V!TypeOK
  /\ L!TypeOK
  /\ R!TypeOK
  /\ remote \in SUBSET Hashes

Init ==
  /\ backend \in {"local", "volume", "raw", "s3", "adaptive"}
  /\ encrypted \in BOOLEAN
  /\ V!Init
  /\ L!Init
  /\ backend = "local" => ~syncEnabled
  /\ backend # "local" => mode = "none" /\ syncEnabled
  /\ R!Init
  /\ remote = {}

----------------------------------------------------------------------------
(* The S3 backend.  The body is spooled first, so a broken stream reaches  *)
(* nothing.  A request may be refused, or carried out while its answer is  *)
(* lost, which the caller sees as an error in both cases.                  *)

S3PutBlob(h, done) == remote' = IF done THEN remote \cup {h} ELSE remote

S3DeleteBlob(h, done) == remote' = IF done THEN remote \ {h} ELSE remote

----------------------------------------------------------------------------
(* Which store serves a blob, and what the decorator lets through.         *)

\* AdaptiveBlobStore.PutBlob
ToVolume(h) == Cells[h] <= Threshold

\* readVerifiedPayload compares what it is given with the hash of the
\* plaintext, so a volume behind the encrypting decorator refuses every put.
Accepts == ~encrypted

VolumeNext ==
  /\ backend = "volume"
  /\ \/ \E w \in Writers, h \in Framed : Accepts /\ V!PutBlob(w, h)
     \/ \E w \in Writers : V!ReserveFits(w)
     \/ \E w \in Writers, sealOK, recordOK, createOK \in BOOLEAN :
          V!Seal(w, sealOK, recordOK, createOK)
     \/ \E w \in Writers : V!SealNothing(w)
     \/ \E w \in Writers : V!ReserveRolled(w)
     \/ \E w \in Writers, metaOK \in BOOLEAN : V!AppendNeedle(w, metaOK)
     \/ \E w \in Writers : \E n \in 0 .. V!Left(w) : V!AppendFails(w, n)
     \/ \E h \in Framed : V!DeleteBlob(h)
     \/ \E punchOK, metaOK \in BOOLEAN : V!Punch(punchOK, metaOK)
     \/ V!Reopen
  /\ UNCHANGED <<configVars, localVars, rawVars, remote>>

LocalNext ==
  /\ backend \in {"local", "adaptive"}
  /\ \/ \E w \in Writers, h \in Hashes :
          (backend = "adaptive" => ~ToVolume(h)) /\ L!Put(w, h)
     \/ \E w \in Writers, ok \in BOOLEAN : L!CommitFSync(w, ok)
     \/ \E w \in Writers : L!CommitNone(w)
     \/ \E w \in Writers : L!Record(w)
     \/ \E w \in Writers : L!Drain(w)
     \/ \E w \in Writers, h \in Hashes, ok \in BOOLEAN : L!SyncDir(w, h, ok)
     \/ \E h \in Hashes : (backend = "adaptive" => ~ToVolume(h)) /\ L!StoreVerified(h)
     \/ \E h \in Hashes : L!DeleteBlob(h)
     \/ L!Crash
  /\ UNCHANGED <<configVars, volumeVars, rawVars, remote>>

RawNext ==
  /\ backend = "raw"
  /\ \/ \E h \in Hashes : R!PutBlob(h)
     \/ \E h \in Hashes : \E n \in 0 .. Cells[h] : R!PutBlobFails(h, n)
     \/ \E h \in Hashes : R!DeleteBlob(h)
     \/ R!Reopen
  /\ UNCHANGED <<configVars, volumeVars, localVars, remote>>

S3Next ==
  /\ backend = "s3"
  /\ \E h \in Hashes, done \in BOOLEAN : S3PutBlob(h, done) \/ S3DeleteBlob(h, done)
  /\ UNCHANGED <<configVars, volumeVars, localVars, rawVars>>

Next == VolumeNext \/ LocalNext \/ RawNext \/ S3Next

Spec == Init /\ [][Next]_vars

----------------------------------------------------------------------------
(* Properties                                                              *)

\* volume_blobstore.go: an acknowledged blob stays readable across rolls,
\* deletions and restarts until one of the events of V!StoredReadable.
VolumeReadable == V!StoredReadable

\* durability.go and local_blobstore.go: what each durability mode promises
\* of an acknowledged blob across crashes.
LocalSurvives == L!AckedSurvives

\* raw_blobstore.go: an acknowledged blob keeps its region to itself, across
\* failed puts, deletions and reopens, until a reopen that forgets it.
RawReadable == R!HeldReadable

=============================================================================
