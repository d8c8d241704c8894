------------------------------ MODULE RawStore ------------------------------
(***************************************************************************)
(* The raw-device backend (storage/raw_blobstore.go): a bump allocator     *)
(* hands out regions of a device, and raw_alloc.db maps a hash to its      *)
(* region.  PutBlob and DeleteBlob run under r.mu.  The device is counted  *)
(* in cells; a blob may be empty.                                          *)
(***************************************************************************)
EXTENDS Integers, FiniteSets, FiniteSetsExt, Sequences

CONSTANTS
  Hashes,        \* content hashes
  Length,        \* length of the content of each hash, in cells
  DeviceSize,    \* bound on the device, in cells
  NoHash

VARIABLES
  device,        \* cells 1 .. DeviceSize
  alloc,         \* bucket raw_alloc: hash -> region
  nextOffset,    \* the allocator
  held,          \* hashes whose PutBlob returned nil and that were not deleted
  reused         \* history: a reopen found the end of a live blob free

vars == <<device, alloc, nextOffset, held, reused>>

NoRegion == [off |-> -1, len |-> 0]

TypeOK ==
  /\ device \in [1 .. DeviceSize -> (Hashes \X Nat) \cup {<<NoHash, 0>>}]
  /\ alloc \in [Hashes -> [off: -1 .. DeviceSize, len: 0 .. DeviceSize]]
  /\ nextOffset \in 0 .. DeviceSize
  /\ held \in SUBSET Hashes
  /\ reused \in BOOLEAN

Init ==
  /\ device = [i \in 1 .. DeviceSize |-> <<NoHash, 0>>]
  /\ alloc = [h \in Hashes |-> NoRegion]
  /\ nextOffset = 0
  /\ held = {}
  /\ reused = FALSE

\* A slip that Allocated avoids: the allocator does not move past the blob.
AllocatedAgain(off, n) == off

Allocated(off, n) == off + n

\* The first n cells of h, written at off.
Written(h, off, n) ==
  [i \in 1 .. DeviceSize |->
     IF i \in off + 1 .. off + n THEN <<h, i - off>> ELSE device[i]]

\* A known hash is left alone.
PutBlob(h) ==
  /\ nextOffset + Length[h] <= DeviceSize
  /\ held' = held \cup {h}
  /\ IF alloc[h] # NoRegion THEN UNCHANGED <<device, alloc, nextOffset>>
     ELSE /\ device' = Written(h, nextOffset, Length[h])
          /\ alloc' = [alloc EXCEPT ![h] = [off |-> nextOffset, len |-> Length[h]]]
          /\ nextOffset' = Allocated(nextOffset, Length[h])
  /\ UNCHANGED reused

\* The content, the device or the allocation table fails: bytes past the
\* allocator are dirty and nothing else has changed.
PutBlobFails(h, n) ==
  /\ alloc[h] = NoRegion
  /\ nextOffset + Length[h] <= DeviceSize
  /\ device' = Written(h, nextOffset, n)
  /\ UNCHANGED <<alloc, nextOffset, held, reused>>

DeleteBlob(h) ==
  /\ alloc' = [alloc EXCEPT ![h] = NoRegion]
  /\ held' = held \ {h}
  /\ UNCHANGED <<device, nextOffset, reused>>

\* NewRawBlobStore looks for the end of the last region; a region at offset 0
\* is left out.
Counted(h) == alloc[h].off > 0 /\ alloc[h].len > 0

Ends(S) == {alloc[h].off + alloc[h].len : h \in S}

Reopen ==
  LET counted == {h \in Hashes : Counted(h)}
      live == {h \in Hashes : alloc[h].len > 0}
  IN
  /\ nextOffset' = IF counted = {} THEN 0 ELSE Max(Ends(counted))
  /\ reused' = (reused \/ (counted = {} /\ live # {}))
  /\ UNCHANGED <<device, alloc, held>>

\* GetBlob refuses a region of length 0.
Readable(h) ==
  LET r == alloc[h] IN
  /\ r # NoRegion
  /\ r.len > 0
  /\ \A i \in 1 .. Length[h] : device[r.off + i] = <<h, i>>

Next ==
  \/ \E h \in Hashes :
       \/ PutBlob(h)
       \/ \E n \in 0 .. Length[h] : PutBlobFails(h, n)
       \/ DeleteBlob(h)
  \/ Reopen

Spec == Init /\ [][Next]_vars

\* An acknowledged blob that is not empty stays readable through puts,
\* failures, deletions and reopens of the device, as long as no reopen found
\* the blob at offset 0 alone in the table; regions of live blobs are
\* disjoint.  (After such a reopen the allocator is at 0 and the next put
\* overwrites it.)
HeldReadable ==
  ~reused => \A h \in held : Length[h] > 0 => Readable(h)
=============================================================================
