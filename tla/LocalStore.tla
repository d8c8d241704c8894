----------------------------- MODULE LocalStore -----------------------------
(***************************************************************************)
(* The filesystem backend (storage/local_blobstore.go) under the           *)
(* durability barrier of the content store (storage/durability.go).        *)
(*                                                                         *)
(* PutBlob writes a temporary file and renames it, so nothing is visible   *)
(* before the rename and a PutBlob that fails leaves no trace: the rename  *)
(* is the step that matters.  What a crash may do to a file whose data or  *)
(* whose directory was not synced is kept per hash: `older' are the states *)
(* of the directory entry that may come back, `torn' says that the data of *)
(* the current file may be lost in part.                                   *)
(***************************************************************************)
EXTENDS Integers, FiniteSets

CONSTANTS
  Hashes,        \* content hashes
  Writers,       \* callers of PutWithMetadata and of storeVerified
  NoWriter,      \* the store mutex is free
  NoHash,
  MaxCrashes     \* bound on crashes

VARIABLES
  mode,          \* [storage] durability
  syncEnabled,   \* PutBlob syncs the data of each file before the rename
  blob,          \* hash -> what the final path holds
  dur,           \* hash -> what a crash may do to it
  mu,            \* the writer that holds the mutex of the content store
  at,            \* writer -> where it is between the rename and the return
  pending,       \* groupCommitBarrier.pending
  flushing,      \* groupCommitBarrier.flushing
  batch,         \* writer -> hashes drained and not synced yet
  acked,         \* hashes whose put was acknowledged, untouched since
  crashes        \* crashes so far

vars == <<mode, syncEnabled, blob, dur, mu, at, pending, flushing, batch,
          acked, crashes>>

Modes == {"fsync", "group-commit", "none"}
Bytes == {"absent", "good", "torn"}

Out == [pc |-> "out", hash |-> NoHash]

TypeOK ==
  /\ mode \in Modes
  /\ syncEnabled \in BOOLEAN
  /\ blob \in [Hashes -> Bytes]
  /\ dur \in [Hashes -> [older: SUBSET Bytes, torn: BOOLEAN]]
  /\ mu \in Writers \cup {NoWriter}
  /\ at \in [Writers -> [pc: {"out", "renamed", "flush"},
                         hash: Hashes \cup {NoHash}]]
  /\ pending \in SUBSET Hashes
  /\ flushing \in BOOLEAN
  /\ batch \in [Writers -> SUBSET Hashes]
  /\ acked \in SUBSET Hashes
  /\ crashes \in 0 .. MaxCrashes

\* What a crash may leave at the final path of h.
AfterCrash(h) ==
  dur[h].older \cup {blob[h]} \cup (IF dur[h].torn THEN {"torn"} ELSE {})

Init ==
  /\ mode \in Modes
  /\ syncEnabled \in BOOLEAN
  /\ blob = [h \in Hashes |-> "absent"]
  /\ dur = [h \in Hashes |-> [older |-> {}, torn |-> FALSE]]
  /\ mu = NoWriter
  /\ at = [w \in Writers |-> Out]
  /\ pending = {}
  /\ flushing = FALSE
  /\ batch = [w \in Writers |-> {}]
  /\ acked = {}
  /\ crashes = 0

\* os.Rename over the final path.
Renamed(h, synced) ==
  /\ blob' = [blob EXCEPT ![h] = "good"]
  /\ dur' = [dur EXCEPT ![h] = [older |-> AfterCrash(h), torn |-> ~synced]]

----------------------------------------------------------------------------
(* PutWithMetadata: PutBlob and then the barrier, under the store mutex.   *)

\* A slip that MutexFree avoids: writers do not exclude each other.
MutexIgnored(w) == TRUE

MutexFree(w) == mu = NoWriter

Put(w, h) ==
  /\ at[w] = Out
  /\ MutexFree(w)
  /\ mu' = w
  /\ Renamed(h, syncEnabled)
  /\ at' = [at EXCEPT ![w] = [pc |-> "renamed", hash |-> h]]
  /\ acked' = acked \ {h}
  /\ UNCHANGED <<mode, syncEnabled, pending, flushing, batch, crashes>>

\* The write is acknowledged.  Nothing is promised of a blob that a deletion
\* outside the mutex removed between the rename and the return, nor, in fsync
\* mode, of a path where an entry with unsynced data went before: the
\* directory is not synced, so that entry may come back.
Return(w, ok) ==
  LET h == at[w].hash
      promised == /\ ok
                  /\ blob[h] # "absent"
                  /\ mode = "fsync" => "torn" \notin dur[h].older
  IN
  /\ at' = [at EXCEPT ![w] = Out]
  /\ mu' = NoWriter
  /\ acked' = IF promised THEN acked \cup {h} ELSE acked

\* fsyncBarrier.Commit: SyncBlob reopens the final path; a file that is gone
\* by now, or a failed fsync, fails the write.
CommitFSync(w, ok) ==
  LET h == at[w].hash IN
  /\ at[w].pc = "renamed"
  /\ mode = "fsync"
  /\ ok => blob[h] # "absent"
  /\ dur' = [dur EXCEPT ![h].torn = @ /\ ~ok]
  /\ Return(w, ok)
  /\ UNCHANGED <<mode, syncEnabled, blob, pending, flushing, batch, crashes>>

CommitNone(w) ==
  /\ at[w].pc = "renamed"
  /\ mode = "none"
  /\ Return(w, TRUE)
  /\ UNCHANGED <<mode, syncEnabled, blob, dur, pending, flushing, batch, crashes>>

\* groupCommitBarrier.record: the first caller flushes; a later one returns
\* at once and relies on that flush.
Record(w) ==
  /\ at[w].pc = "renamed"
  /\ mode = "group-commit"
  /\ pending' = pending \cup {at[w].hash}
  /\ flushing' = TRUE
  /\ IF flushing THEN Return(w, TRUE)
     ELSE at' = [at EXCEPT ![w].pc = "flush"] /\ UNCHANGED <<mu, acked>>
  /\ UNCHANGED <<mode, syncEnabled, blob, dur, batch, crashes>>

Drain(w) ==
  /\ at[w].pc = "flush"
  /\ batch[w] = {}
  /\ pending # {}
  /\ batch' = [batch EXCEPT ![w] = pending]
  /\ pending' = {}
  /\ flushing' = FALSE
  /\ UNCHANGED <<mode, syncEnabled, blob, dur, mu, at, acked, crashes>>

DirSynced(d) == [d EXCEPT !.older = {}]

\* SyncDir of one hash of the batch.  An error ends the pass.
SyncDir(w, h, ok) ==
  /\ at[w].pc = "flush"
  /\ h \in batch[w]
  /\ dur' = IF ok THEN [dur EXCEPT ![h] = DirSynced(@)] ELSE dur
  /\ batch' = [batch EXCEPT ![w] = IF ok THEN @ \ {h} ELSE {}]
  /\ IF ok /\ batch[w] # {h} THEN UNCHANGED <<at, mu, acked>>
     ELSE Return(w, ok)
  /\ UNCHANGED <<mode, syncEnabled, blob, pending, flushing, crashes>>

----------------------------------------------------------------------------
(* The callers outside the mutex, and crashes                              *)

\* storeVerified: bytes from a verified survivor.  It takes no barrier.
StoreVerified(h) ==
  /\ Renamed(h, syncEnabled)
  /\ acked' = acked \ {h}
  /\ UNCHANGED <<mode, syncEnabled, mu, at, pending, flushing, batch, crashes>>

\* os.Remove; a missing file is not an error.
DeleteBlob(h) ==
  /\ blob[h] # "absent"
  /\ blob' = [blob EXCEPT ![h] = "absent"]
  /\ dur' = [dur EXCEPT ![h] = [older |-> AfterCrash(h), torn |-> FALSE]]
  /\ acked' = acked \ {h}
  /\ UNCHANGED <<mode, syncEnabled, mu, at, pending, flushing, batch, crashes>>

Crash ==
  /\ crashes < MaxCrashes
  /\ crashes' = crashes + 1
  /\ blob' \in {f \in [Hashes -> Bytes] : \A h \in Hashes : f[h] \in AfterCrash(h)}
  /\ dur' = [h \in Hashes |-> [older |-> {}, torn |-> FALSE]]
  /\ mu' = NoWriter
  /\ at' = [w \in Writers |-> Out]
  /\ pending' = {}
  /\ flushing' = FALSE
  /\ batch' = [w \in Writers |-> {}]
  /\ UNCHANGED <<mode, syncEnabled, acked>>

Next ==
  \/ \E w \in Writers :
       \/ \E h \in Hashes : Put(w, h)
       \/ \E ok \in BOOLEAN : CommitFSync(w, ok)
       \/ CommitNone(w)
       \/ Record(w)
       \/ Drain(w)
       \/ \E h \in Hashes, ok \in BOOLEAN : SyncDir(w, h, ok)
  \/ \E h \in Hashes : StoreVerified(h) \/ DeleteBlob(h)
  \/ Crash

Spec == Init /\ [][Next]_vars

----------------------------------------------------------------------------
(* Properties                                                              *)

\* What the barrier of each mode promises of an acknowledged blob across any
\* number of crashes: with fsync, or with the per-file sync of PutBlob, the
\* bytes are never torn; with group-commit the entry never disappears.  (The
\* converses fail: fsync does not sync the directory, and group-commit does
\* not sync the data.)  Without a crash the bytes are there in every mode.
AckedSurvives ==
  \A h \in acked :
    /\ mode = "fsync" \/ syncEnabled => blob[h] # "torn"
    /\ mode = "group-commit" => blob[h] # "absent"
    /\ crashes = 0 => blob[h] = "good"
=============================================================================
