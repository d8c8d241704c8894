---------------------------- MODULE VolumeStore -----------------------------
(***************************************************************************)
(* The volume backend of one node (storage/volume_blobstore.go and         *)
(* volume_needle.go): blobs are appended as needles to numbered volume     *)
(* files, and needles.db says in which volume and at which offset a blob   *)
(* starts.                                                                 *)
(*                                                                         *)
(* PutBlob runs without a lock of its own between choosing a volume,       *)
(* reading its size and appending: one caller holds the mutex of the       *)
(* content store, but verified fetches (storage/rebuild.go) call it        *)
(* without that mutex, so several writers may be inside.                   *)
(*                                                                         *)
(* Bytes are counted in cells: a needle takes Cells[h] of them, header,    *)
(* padding and checksum included.  The checksum and the hash of a needle   *)
(* hold exactly when all of its cells are there, in order.                 *)
(***************************************************************************)
EXTENDS Integers, FiniteSets, FiniteSetsExt, Sequences

CONSTANTS
  Hashes,        \* content hashes
  Cells,         \* cells of the needle of each hash
  VolumeIds,     \* 1 .. n, the volumes that may be created
  VolumeSize,    \* vbs.volumeSize, in cells
  Writers,       \* callers of PutBlob
  MaxExposed,    \* bound on those events
  NoVolume,      \* nil
  NoHash

VARIABLES
  file,          \* volume -> the cells of its file
  volumes,       \* volume -> no file, or what bucket "volumes" says of it
  needles,       \* bucket "needles": hash -> volume and offset
  mem,           \* the open store: activeVolume, sealedVolumes, sizes, positions
  wr,            \* writer -> where it is inside PutBlob
  del,           \* the DeleteBlob under way, with the place it looked up
  stored,        \* hashes whose PutBlob returned nil and that were not deleted
  exposed        \* history: how many events may have misplaced a needle

vars == <<file, volumes, needles, mem, wr, del, stored, exposed>>

Hole == <<NoHash, 0>>

NoNeedle == [vol |-> NoVolume, off |-> 0]

NoDelete == [hash |-> NoHash, vol |-> NoVolume, off |-> 0]

Outside == [pc |-> "out", hash |-> NoHash, vol |-> NoVolume, off |-> 0]

\* writeNeedle: the frame of a blob.
Frame(h) == [i \in 1 .. Cells[h] |-> <<h, i>>]

\* A write of cells at a position that may lie inside or past the file.
WriteAt(cells, pos, frame) ==
  LET end == pos + Len(frame) IN
  [i \in 1 .. IF end > Len(cells) THEN end ELSE Len(cells) |->
     IF i \in pos + 1 .. end THEN frame[i - pos]
     ELSE IF i <= Len(cells) THEN cells[i] ELSE Hole]

TypeOK ==
  /\ file \in [VolumeIds -> Seq((Hashes \X Nat) \cup {Hole})]
  /\ volumes \in [VolumeIds -> {"none", "bare", "open", "sealed"}]
  /\ needles \in [Hashes -> [vol: VolumeIds \cup {NoVolume}, off: Nat]]
  /\ mem \in [active: VolumeIds \cup {NoVolume}, sealed: SUBSET VolumeIds,
              size: [VolumeIds -> Nat], pos: [VolumeIds -> Nat],
              counter: VolumeIds \cup {0}]
  /\ wr \in [Writers -> [pc: {"out", "fits", "full", "rolled", "reserved"},
                         hash: Hashes \cup {NoHash},
                         vol: VolumeIds \cup {NoVolume}, off: Nat]]
  /\ del \in [hash: Hashes \cup {NoHash}, vol: VolumeIds \cup {NoVolume}, off: Nat]
  /\ stored \in SUBSET Hashes
  /\ exposed \in 0 .. MaxExposed

----------------------------------------------------------------------------
(* Opening: a first start creates volume 1.                                *)

Expose(event) ==
  /\ event => exposed < MaxExposed
  /\ exposed' = IF event THEN exposed + 1 ELSE exposed

Created(m, v) ==
  [m EXCEPT !.active = v, !.counter = v, !.size[v] = 0, !.pos[v] = 0]

Closed == [active |-> NoVolume, sealed |-> {}, counter |-> 0,
           size |-> [v \in VolumeIds |-> 0], pos |-> [v \in VolumeIds |-> 0]]

Init ==
  /\ file = [v \in VolumeIds |-> <<>>]
  /\ volumes = [v \in VolumeIds |-> IF v = 1 THEN "open" ELSE "none"]
  /\ needles = [h \in Hashes |-> NoNeedle]
  /\ mem = Created(Closed, 1)
  /\ wr = [w \in Writers |-> Outside]
  /\ del = NoDelete
  /\ stored = {}
  /\ exposed = 0

\* openExistingVolume: the persisted flag, or the size without a record.
IsSealed(v) ==
  \/ volumes[v] = "sealed"
  \/ volumes[v] = "bare" /\ Len(file[v]) >= VolumeSize

\* restoreVolumes: volume files are reopened in order, sealed ones for
\* reading, and the last of the others becomes active; any other one is
\* dropped.  A reopened file is at position 0, with the size of the file.
Restored ==
  LET ids == {v \in VolumeIds : volumes[v] # "none"}
      open == {v \in ids : ~IsSealed(v)}
      last == [Closed EXCEPT !.counter = Max(ids), !.sealed = ids \ open,
                             !.size = [v \in VolumeIds |-> Len(file[v])]]
  IN IF open # {} THEN [last EXCEPT !.active = Max(open)]
     ELSE Created(last, last.counter + 1)

\* The process stops at any point and the store is opened again.
Reopen ==
  LET v == Restored.active IN
  /\ v \in VolumeIds
  /\ mem' = Restored
  /\ volumes' = [volumes EXCEPT ![v] = IF @ = "none" THEN "open" ELSE @]
  /\ wr' = [w \in Writers |-> Outside]
  /\ del' = NoDelete
  /\ Expose(file[v] # <<>>)
  /\ UNCHANGED <<file, needles, stored>>

----------------------------------------------------------------------------
(* PutBlob                                                                 *)

Go(w, pc, h, v, off) ==
  wr' = [wr EXCEPT ![w] = [pc |-> pc, hash |-> h, vol |-> v, off |-> off]]

Fits(v, h) == mem.size[v] + Cells[h] <= VolumeSize

Inside(v) == {w \in Writers : wr[w].vol = v}

\* The payload has been read and hashed to h; anything else returns an error
\* before this point.  No active volume is an error.
PutBlob(w, h) ==
  /\ wr[w].pc = "out"
  /\ mem.active # NoVolume
  /\ IF Fits(mem.active, h)
     THEN Go(w, "fits", h, mem.active, 0) /\ Expose(Inside(mem.active) # {})
     ELSE Go(w, "full", h, NoVolume, 0) /\ UNCHANGED exposed
  /\ UNCHANGED <<file, volumes, needles, mem, del, stored>>

\* vf.size is read after vf.mu has been released.
ReserveFits(w) ==
  /\ wr[w].pc = "fits"
  /\ Go(w, "reserved", wr[w].hash, wr[w].vol, mem.size[wr[w].vol])
  /\ UNCHANGED <<file, volumes, needles, mem, del, stored, exposed>>

\* sealCurrentVolume seals whatever volume is active now.  Saving the sealed
\* flag, or the record of the next volume, may fail unnoticed; when the next
\* file cannot be created no volume is active and PutBlob returns the error.
Seal(w, sealOK, recordOK, createOK) ==
  LET v == mem.active
      next == mem.counter + 1
      sealed == [mem EXCEPT !.sealed = @ \cup {v}, !.active = NoVolume]
  IN
  /\ wr[w].pc = "full"
  /\ v # NoVolume
  /\ next \in VolumeIds
  /\ mem' = IF createOK THEN Created(sealed, next)
            ELSE [sealed EXCEPT !.counter = next]
  /\ volumes' = [volumes EXCEPT ![v] = IF @ = "open" /\ sealOK THEN "sealed" ELSE @,
                                ![next] = IF ~createOK THEN @
                                          ELSE IF recordOK THEN "open" ELSE "bare"]
  /\ IF createOK THEN Go(w, "rolled", wr[w].hash, NoVolume, 0)
     ELSE wr' = [wr EXCEPT ![w] = Outside]
  /\ Expose(~sealOK \/ ~recordOK \/ ~createOK)
  /\ UNCHANGED <<file, needles, del, stored>>

\* Another writer's failed roll left no active volume.
SealNothing(w) ==
  /\ wr[w].pc = "full"
  /\ mem.active = NoVolume
  /\ wr' = [wr EXCEPT ![w] = Outside]
  /\ UNCHANGED <<file, volumes, needles, mem, del, stored, exposed>>

\* The new volume is looked up again; when it is full or gone the call fails.
ReserveRolled(w) ==
  LET v == mem.active IN
  /\ wr[w].pc = "rolled"
  /\ IF v # NoVolume /\ Fits(v, wr[w].hash)
     THEN /\ Go(w, "reserved", wr[w].hash, v, mem.size[v])
          /\ Expose(Inside(v) # {})
     ELSE /\ wr' = [wr EXCEPT ![w] = Outside]
          /\ UNCHANGED exposed
  /\ UNCHANGED <<file, volumes, needles, mem, del, stored>>

Appended(m, v, n) == [m EXCEPT !.pos[v] = @ + n, !.size[v] = @ + n]

\* appendNeedle writes at the position of the file, not at the offset that
\* was reserved, and syncs.  A failure to save the needle's place is logged
\* and the call still succeeds.
AppendNeedle(w, metaOK) ==
  LET h == wr[w].hash
      v == wr[w].vol
  IN
  /\ wr[w].pc = "reserved"
  /\ file' = [file EXCEPT ![v] = WriteAt(@, mem.pos[v], Frame(h))]
  /\ mem' = Appended(mem, v, Cells[h])
  /\ needles' = IF metaOK
                THEN [needles EXCEPT ![h] = [vol |-> v, off |-> wr[w].off]]
                ELSE needles
  /\ wr' = [wr EXCEPT ![w] = Outside]
  /\ stored' = stored \cup {h}
  /\ Expose(~metaOK)
  /\ UNCHANGED <<volumes, del>>

\* What a failed append can have left out, at least one cell.
Left(w) == IF wr[w].pc = "reserved" THEN Cells[wr[w].hash] - 1 ELSE 0

\* The write fails after n cells: the position has moved, the size has not.
AppendFails(w, n) ==
  LET h == wr[w].hash
      v == wr[w].vol
  IN
  /\ wr[w].pc = "reserved"
  /\ file' = [file EXCEPT ![v] = WriteAt(@, mem.pos[v], SubSeq(Frame(h), 1, n))]
  /\ mem' = [mem EXCEPT !.pos[v] = @ + n]
  /\ wr' = [wr EXCEPT ![w] = Outside]
  /\ Expose(TRUE)
  /\ UNCHANGED <<volumes, needles, del, stored>>

----------------------------------------------------------------------------
(* GetBlob, BlobExists and DeleteBlob                                      *)

\* The open file of a volume.  With no active volume the lookup panics, and
\* the panic is returned as an error.
Opened(v) == mem.active # NoVolume /\ v \in mem.sealed \cup {mem.active}

\* readNeedle plus the comparison with the indexed hash.
Readable(h) ==
  LET at == needles[h] IN
  /\ at # NoNeedle
  /\ Opened(at.vol)
  /\ SubSeq(file[at.vol], at.off + 1, at.off + Cells[h]) = Frame(h)

BlobExists(h) == needles[h] # NoNeedle

\* A slip that Punched avoids: the hole reaches one cell too far.
PunchedWide(cells, off, n) ==
  [i \in DOMAIN cells |-> IF i \in off + 1 .. off + n + 1 THEN Hole ELSE cells[i]]

Punched(cells, off, n) ==
  [i \in DOMAIN cells |-> IF i \in off + 1 .. off + n THEN Hole ELSE cells[i]]

\* The place is looked up first.  A sealed or unopened volume is an error.
DeleteBlob(h) ==
  /\ del = NoDelete
  /\ needles[h] # NoNeedle
  /\ mem.active = needles[h].vol
  /\ del' = [hash |-> h, vol |-> needles[h].vol, off |-> needles[h].off]
  /\ UNCHANGED <<file, volumes, needles, mem, wr, stored, exposed>>

\* Then the hole is punched and the entry dropped, whatever it says by now.
\* When no hole can be punched writeTombstone does nothing and the call
\* succeeds; a failure to drop the entry is logged only.
Punch(punchOK, metaOK) ==
  /\ del # NoDelete
  /\ file' = IF punchOK
             THEN [file EXCEPT ![del.vol] = Punched(@, del.off, Cells[del.hash])]
             ELSE file
  /\ needles' = IF punchOK /\ metaOK
                THEN [needles EXCEPT ![del.hash] = NoNeedle] ELSE needles
  /\ stored' = IF [vol |-> del.vol, off |-> del.off] = needles[del.hash]
               THEN stored \ {del.hash} ELSE stored
  /\ Expose([vol |-> del.vol, off |-> del.off] # needles[del.hash])
  /\ del' = NoDelete
  /\ UNCHANGED <<volumes, mem, wr>>

Next ==
  \/ \E w \in Writers :
       \/ \E h \in Hashes : PutBlob(w, h)
       \/ ReserveFits(w)
       \/ \E sealOK, recordOK, createOK \in BOOLEAN :
            Seal(w, sealOK, recordOK, createOK)
       \/ SealNothing(w)
       \/ ReserveRolled(w)
       \/ \E metaOK \in BOOLEAN : AppendNeedle(w, metaOK)
       \/ \E n \in 0 .. Left(w) : AppendFails(w, n)
  \/ \E h \in Hashes : DeleteBlob(h)
  \/ \E punchOK, metaOK \in BOOLEAN : Punch(punchOK, metaOK)
  \/ Reopen

Spec == Init /\ [][Next]_vars

----------------------------------------------------------------------------
(* Properties                                                              *)

\* An acknowledged blob stays readable, through rolls, deletions of other
\* blobs and restarts, as long as none of these has happened: two writers
\* inside PutBlob on one volume, a failed append, a failed save of the
\* index, a deletion overtaken by a new put, or a restart that reopens a
\* volume with needles in it for writing.  Each of the five breaks it.
StoredReadable == exposed = 0 => \A h \in stored : Readable(h)

=============================================================================
