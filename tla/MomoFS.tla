-------------------------------- MODULE MomoFS --------------------------------
(* The mount (momofs.go, fuse.go): directories are manifests stored under the *)
(* key of their path, files are objects stored under the key of theirs, and   *)
(* every callback is a few store calls in a row under one mutex.  The kernel  *)
(* walks a path with Lookup before it issues an operation, refuses what POSIX *)
(* lets it refuse, and sees the kind of the inode that nodeFor cached.        *)
(* The entry cache is off (ServeFUSE passes no option), so it is left out.    *)
EXTENDS Naturals, Sequences, SequencesExt, FiniteSets, TLC

CONSTANTS
  Names,        \* path segments
  MaxDepth,     \* depth of the deepest path considered
  Contents,     \* file contents, known by their hash
  Empty,        \* the content of a file nothing was written to
  NoHash,
  Modes, DefaultMode,
  Absent,
  Handles,      \* open file handles
  Starts,       \* trees found at mount: [dirs, files, native]
  MaxOps,       \* operations per behaviour
  MaxFaults     \* store calls that fail, or die with the process

VARIABLES
  store,    \* what momofs keeps in the CAS store
  native,   \* path -> content of objects written through S3 or momo
  index,    \* the listing of native that storeObjects took last
  nodes,    \* path -> kind of the inode nodeFor caches
  handle,   \* open handles
  ops, faults,
  harmed    \* paths of operations that stopped after changing the store

vars == <<store, native, index, nodes, handle, ops, faults, harmed>>

Root == <<>>

Paths == UNION {[1..n -> Names] : n \in 0..MaxDepth}

Below(set) == {q \in Paths : \E p \in set : IsPrefix(p, q)}

\* The directories between the root and p.
Ancestors(p) == {SubSeq(p, 1, i) : i \in 1..(Len(p) - 1)}

Dir(m) == [type |-> "dir", hash |-> NoHash, mode |-> m]

File(c, m) == [type |-> "file", hash |-> c, mode |-> m]

Clean == [n \in {} |-> Dir(DefaultMode)]

-------------------------------------------------------------------------------
(* Store calls.  A manifest is readable as long as its key names it           *)
(* (NamedIsReadable of CASStore), so the key holds the manifest itself; file  *)
(* contents are counted, because a Put without a body only takes a reference. *)

Refer(s, c) == [s EXCEPT !.refs[c] = @ + 1]

Unrefer(s, c) ==
  [s EXCEPT !.refs[c] = @ - 1,
            !.bytes = IF s.refs[c] = 1 THEN @ \ {c} ELSE @]

PutDir(p, m) == [call |-> "putDir", path |-> p, arg |-> m]
DeleteDir(p) == [call |-> "deleteDir", path |-> p, arg |-> Absent]
PutFile(p, c) == [call |-> "putFile", path |-> p, arg |-> c]
PutLink(p, c) == [call |-> "putLink", path |-> p, arg |-> c]
DeleteFile(p) == [call |-> "deleteFile", path |-> p, arg |-> Absent]

Do(s, c) ==
  CASE c.call = "putDir" -> [s EXCEPT !.dirs[c.path] = c.arg]
    [] c.call = "deleteDir" -> [s EXCEPT !.dirs[c.path] = Absent]
    [] c.call = "putFile" ->
         Refer([s EXCEPT !.files[c.path] = c.arg, !.bytes = @ \cup {c.arg}], c.arg)
    [] c.call = "putLink" -> Refer([s EXCEPT !.files[c.path] = c.arg], c.arg)
    [] c.call = "deleteFile" ->
         IF s.files[c.path] = Absent THEN s
         ELSE [Unrefer(s, s.files[c.path]) EXCEPT !.files[c.path] = Absent]

DoAll(s, calls) == FoldLeft(Do, s, calls)

-------------------------------------------------------------------------------
(* Lookups *)

\* A key without a manifest is an error to every caller but ReadDir.
readManifest(s, p) == s.dirs[p]

\* entryIn: the manifest of the parent, under its own key.
entryIn(s, p) ==
  LET m == readManifest(s, Front(p))
  IN IF m # Absent /\ Last(p) \in DOMAIN m THEN m[Last(p)] ELSE Absent

storeMetaByPath(p) ==
  IF index[p] = Absent THEN Absent ELSE File(index[p], DefaultMode)

storePathIsAncestorOfObject(p) ==
  \E q \in Paths : IsStrictPrefix(p, q) /\ index[q] # Absent

lookup(p) ==
  LET e == IF p = Root THEN Dir(DefaultMode) ELSE entryIn(store, p)
      m == storeMetaByPath(p)
  IN IF e # Absent THEN e
     ELSE IF m # Absent THEN m
     ELSE IF storePathIsAncestorOfObject(p) THEN Dir(DefaultMode)
     ELSE Absent

\* A slip that storeChildren avoids: an implied directory hides a file of that name.
storeChildrenHiding(p) ==
  LET under == {q \in Paths : index[q] # Absent /\ IsStrictPrefix(p, q)}
  IN [n \in {q[Len(p) + 1] : q \in under} |->
        IF \E q \in under : q[Len(p) + 1] = n /\ Len(q) > Len(p) + 1
        THEN Dir(DefaultMode)
        ELSE File(index[Append(p, n)], DefaultMode)]

\* storeChildren: the first segment below p of every listed object; a file of
\* that name wins over the directory that deeper objects imply.
storeChildren(p) ==
  LET under == {q \in Paths : index[q] # Absent /\ IsStrictPrefix(p, q)}
      name(q) == q[Len(p) + 1]
      isSub(q) == Len(q) > Len(p) + 1
  IN [n \in {name(q) : q \in under} |->
        IF \E q \in under : name(q) = n /\ ~isSub(q)
        THEN File(index[Append(p, n)], DefaultMode)
        ELSE Dir(DefaultMode)]

ReadDir(p) ==
  LET m == IF store.dirs[p] = Absent THEN Clean ELSE store.dirs[p]
      c == storeChildren(p)
  IN [n \in DOMAIN m \cup DOMAIN c |-> IF n \in DOMAIN m THEN m[n] ELSE c[n]]

\* What Open reads: the object of the entry, by its path or by its own name.
Content(p) ==
  LET e == entryIn(store, p)
      c == IF e # Absent THEN store.files[p] ELSE native[p]
  IN IF c # Absent /\ c \in store.bytes THEN c ELSE Absent

-------------------------------------------------------------------------------
(* Core operations: the store calls each makes, whether it then returns an    *)
(* error, and whether it leaves its paths damaged although nothing failed.    *)

Fails == [calls |-> <<>>, err |-> TRUE]

Runs(calls) == [calls |-> calls, err |-> FALSE]

With(m, n, e) == (n :> e) @@ m

Without(m, n) == [k \in DOMAIN m \ {n} |-> m[k]]

Mkdir(p, mode) ==
  LET pm == store.dirs[Front(p)]
  IN IF pm = Absent \/ entryIn(store, p) # Absent THEN Fails
     ELSE Runs(<<PutDir(Front(p), With(pm, Last(p), Dir(mode))), PutDir(p, Clean)>>)

Create(p, mode, c) ==
  LET pm == store.dirs[Front(p)]
      e == entryIn(store, p)
  IN IF pm = Absent \/ (e # Absent /\ e.type = "dir") THEN Fails
     ELSE Runs(<<PutFile(p, c), PutDir(Front(p), With(pm, Last(p), File(c, mode)))>>)

SetAttr(p, mode) ==
  LET e == entryIn(store, p)
  IN IF e = Absent THEN Fails
     ELSE Runs(<<PutDir(Front(p), With(store.dirs[Front(p)], Last(p), [e EXCEPT !.mode = mode]))>>)

\* A slip that RemovePath avoids: a directory is removed whether or not it is empty.
RemovePathAny(p) ==
  LET e == entryIn(store, p)
      drop == PutDir(Front(p), Without(store.dirs[Front(p)], Last(p)))
  IN IF e = Absent THEN Fails
     ELSE IF e.type = "dir" THEN Runs(<<DeleteDir(p), drop>>)
     ELSE Runs(<<DeleteFile(p), drop>>)

RemovePath(p) ==
  LET e == entryIn(store, p)
      drop == PutDir(Front(p), Without(store.dirs[Front(p)], Last(p)))
  IN IF \/ e = Absent
        \/ /\ e.type = "dir"
           /\ store.dirs[p] = Absent \/ DOMAIN store.dirs[p] # {}
     THEN Fails
     ELSE IF e.type = "dir" THEN Runs(<<DeleteDir(p), drop>>)
     ELSE Runs(<<DeleteFile(p), drop>>)

Link(src, dst) ==
  LET e == entryIn(store, src)
      dm == store.dirs[Front(dst)]
  IN IF e = Absent \/ dm = Absent \/ entryIn(store, dst) # Absent THEN Fails
     ELSE IF e.type # "file" THEN Fails
     ELSE Runs(<<PutLink(dst, e.hash), PutDir(Front(dst), With(dm, Last(dst), e))>>)

\* rewriteSubtree: the manifest moves first, then its children one by one.
\* The two subtrees are disjoint, so no read meets a write of the same call.
RECURSIVE rewriteSubtree(_, _)
rewriteSubtree(old, new) ==
  LET man == store.dirs[old]
      child(n) ==
        IF man[n].type = "file"
        THEN Runs(<<PutLink(Append(new, n), man[n].hash), DeleteFile(Append(old, n))>>)
        ELSE rewriteSubtree(Append(old, n), Append(new, n))
      step(op, n) ==
        IF op.err THEN op
        ELSE [calls |-> op.calls \o child(n).calls, err |-> child(n).err]
  IN IF man = Absent THEN Fails
     ELSE FoldLeft(step, Runs(<<PutDir(new, man), DeleteDir(old)>>),
                   SetToSeq(DOMAIN man))

\* A slip that Rename avoids: the source gives up its reference before the target takes one.
RenameDropsFirst(src, dst) ==
  LET e == entryIn(store, src)
      sm == store.dirs[Front(src)]
      dm == store.dirs[Front(dst)]
      move == <<DeleteFile(src), PutLink(dst, e.hash)>>
  IN IF e = Absent \/ dm = Absent THEN Fails
     ELSE IF e.type = "dir" THEN Fails
     ELSE IF Front(src) = Front(dst)
       THEN Runs(Append(move, PutDir(Front(dst), With(Without(sm, Last(src)), Last(dst), e))))
     ELSE Runs(move \o <<PutDir(Front(dst), With(dm, Last(dst), e)),
                         PutDir(Front(src), Without(sm, Last(src)))>>)

\* The target is looked at after the subtree has been rewritten onto its key,
\* and the manifest of the new parent is needed only after the source is gone.
Rename(src, dst) ==
  LET e == entryIn(store, src)
      subtree == IF e # Absent /\ e.type = "dir" THEN rewriteSubtree(src, dst) ELSE Runs(<<>>)
      s1 == DoAll(store, subtree.calls)
      existing == entryIn(s1, dst)
      release == IF existing = Absent THEN <<>>
                 ELSE IF e.type = "file" THEN <<DeleteFile(dst)>> ELSE <<DeleteDir(dst)>>
      move == IF e.type = "file" THEN <<PutLink(dst, e.hash), DeleteFile(src)>> ELSE <<>>
      moved == subtree.calls \o release \o move
      sm == store.dirs[Front(src)]
      dm == DoAll(store, moved).dirs[Front(dst)]
  IN IF e = Absent THEN Fails
     ELSE IF subtree.err THEN subtree
     ELSE IF existing # Absent /\ existing.type # e.type
       THEN [calls |-> subtree.calls, err |-> TRUE]
     ELSE IF Front(src) = Front(dst)
       THEN Runs(Append(moved, PutDir(Front(dst), With(Without(sm, Last(src)), Last(dst), e))))
     ELSE IF dm = Absent THEN [calls |-> moved, err |-> TRUE]
     ELSE Runs(moved \o <<PutDir(Front(dst), With(dm, Last(dst), e)),
                          PutDir(Front(src), Without(sm, Last(src)))>>)

-------------------------------------------------------------------------------
(* Running an operation: all its calls, or those before the one that fails.   *)

Attempt(op, paths, hurts, ok) ==
  /\ ops' = ops + 1
  /\ \/ /\ ok = ~op.err
        /\ store' = DoAll(store, op.calls)
        /\ harmed' = IF op.calls # <<>> /\ (op.err \/ hurts) THEN harmed \cup paths ELSE harmed
        /\ UNCHANGED faults
     \/ /\ ~ok
        /\ faults < MaxFaults
        /\ faults' = faults + 1
        /\ \E k \in 0..(Len(op.calls) - 1) :
             /\ store' = DoAll(store, SubSeq(op.calls, 1, k))
             /\ harmed' = IF k > 0 THEN harmed \cup paths ELSE harmed

\* A damaged path damages what is linked or moved from it.
Damaged(p) == \E q \in Below({p}) : q \in Below(harmed)

-------------------------------------------------------------------------------
(* FUSE callbacks *)

nodeFor(p, kind) == IF nodes[p] = Absent THEN [nodes EXCEPT ![p] = kind] ELSE nodes

\* The kernel walked to the parent of p: every step found a directory inode.
Walked(p) ==
  \A q \in Ancestors(p) : lookup(q) # Absent /\ nodes[q] = "dir"

Seen(p) == p # Root /\ Walked(p) /\ lookup(p) # Absent /\ nodes[p] # Absent

Fresh(p) == p # Root /\ Walked(p) /\ lookup(p) = Absent

Lookup(p) ==
  /\ p # Root /\ Walked(p) /\ lookup(p) # Absent
  /\ nodes[p] = Absent
  /\ nodes' = nodeFor(p, lookup(p).type)
  /\ UNCHANGED <<store, native, index, handle, ops, faults, harmed>>

FuseMkdir(p, mode) ==
  /\ Fresh(p)
  /\ \E ok \in BOOLEAN :
       /\ Attempt(Mkdir(p, mode), {p}, FALSE, ok)
       /\ nodes' = IF ok THEN nodeFor(p, "dir") ELSE nodes
  /\ UNCHANGED <<native, index, handle>>

FuseCreate(h, p, mode) ==
  /\ Fresh(p)
  /\ handle[h] = Absent
  /\ \E ok \in BOOLEAN :
       /\ Attempt(Create(p, mode, Empty), {p}, FALSE, ok)
       /\ nodes' = IF ok THEN nodeFor(p, "file") ELSE nodes
       /\ handle' = IF ok THEN [handle EXCEPT ![h] =
                         [path |-> p, mode |-> mode, data |-> NoHash, dirty |-> FALSE]]
                    ELSE handle
  /\ UNCHANGED <<native, index>>

FuseSetattr(p, mode) ==
  /\ Seen(p)
  /\ lookup(p).mode # mode
  /\ \E ok \in BOOLEAN : Attempt(SetAttr(p, mode), {p}, FALSE, ok)
  /\ UNCHANGED <<native, index, nodes, handle>>

Unlink(p) ==
  /\ Seen(p)
  /\ \E ok \in BOOLEAN : Attempt(RemovePath(p), {p}, FALSE, ok)
  /\ UNCHANGED <<native, index, nodes, handle>>

\* The kernel compares the kinds it knows; a move deeper than MaxDepth is not
\* considered.
FuseRename(src, dst) ==
  /\ Seen(src)
  /\ dst # Root /\ Walked(dst)
  /\ ~IsPrefix(src, dst) /\ ~IsPrefix(dst, src)
  /\ lookup(dst) # Absent => nodes[dst] = nodes[src]
  /\ \A q \in Below({src}) :
       Len(dst) + Len(q) - Len(src) > MaxDepth =>
         entryIn(store, q) = Absent /\ store.dirs[q] = Absent /\ store.files[q] = Absent
  /\ \E ok \in BOOLEAN :
       Attempt(Rename(src, dst), {src, dst},
               Damaged(src) \/ entryIn(store, dst) \in {Dir(m) : m \in Modes}, ok)
  /\ UNCHANGED <<native, index, nodes, handle>>

FuseLink(src, dst) ==
  /\ Seen(src)
  /\ nodes[src] = "file"
  /\ Fresh(dst)
  /\ \E ok \in BOOLEAN :
       /\ Attempt(Link(src, dst), {dst}, Damaged(src), ok)
       /\ nodes' = IF ok THEN nodeFor(dst, "file") ELSE nodes
  /\ UNCHANGED <<native, index, handle>>

Open(h, p) ==
  /\ Seen(p)
  /\ nodes[p] = "file"
  /\ handle[h] = Absent
  /\ handle' = [handle EXCEPT ![h] =
       [path |-> p, mode |-> lookup(p).mode, data |-> NoHash, dirty |-> FALSE]]
  /\ UNCHANGED <<store, native, index, nodes, ops, faults, harmed>>

\* load: the whole content, once per handle.
Loadable(h) ==
  \/ handle[h].data # NoHash
  \/ /\ lookup(handle[h].path) # Absent
     /\ lookup(handle[h].path).type = "file"
     /\ Content(handle[h].path) # Absent

Read(h) ==
  /\ handle[h] # Absent
  /\ handle[h].data = NoHash
  /\ Loadable(h)
  /\ handle' = [handle EXCEPT ![h].data = Content(handle[h].path)]
  /\ UNCHANGED <<store, native, index, nodes, ops, faults, harmed>>

Write(h, c) ==
  /\ handle[h] # Absent
  /\ Loadable(h)
  /\ handle' = [handle EXCEPT ![h].data = c, ![h].dirty = TRUE]
  /\ UNCHANGED <<store, native, index, nodes, ops, faults, harmed>>

\* flush, from Flush or from Release.
Flush(h, closes) ==
  /\ handle[h] # Absent
  /\ closes \/ handle[h].dirty
  /\ \E ok \in BOOLEAN :
       /\ IF handle[h].dirty
          THEN Attempt(Create(handle[h].path, handle[h].mode, handle[h].data),
                       {handle[h].path}, FALSE, ok)
          ELSE ok /\ UNCHANGED <<store, ops, faults, harmed>>
       /\ handle' = [handle EXCEPT ![h] =
            IF closes THEN Absent ELSE [@ EXCEPT !.dirty = ~ok]]
  /\ UNCHANGED <<native, index, nodes>>

-------------------------------------------------------------------------------
(* The rest of the world *)

\* storeObjects lists the store again once idxTTL has passed.
storeObjects ==
  /\ index # native
  /\ index' = native
  /\ UNCHANGED <<store, native, nodes, handle, ops, faults, harmed>>

NativePut(p, c) ==
  /\ p # Root
  /\ ops' = ops + 1
  /\ native' = [native EXCEPT ![p] = c]
  /\ store' = [Refer(store, c) EXCEPT !.bytes = @ \cup {c}]
  /\ UNCHANGED <<index, nodes, handle, faults, harmed>>

NativeDelete(p) ==
  /\ native[p] # Absent
  /\ ops' = ops + 1
  /\ native' = [native EXCEPT ![p] = Absent]
  /\ store' = Unrefer(store, native[p])
  /\ UNCHANGED <<index, nodes, handle, faults, harmed>>

\* The process ends and the store is mounted again.
Remount ==
  /\ nodes # [p \in Paths |-> Absent]
  /\ nodes' = [p \in Paths |-> Absent]
  /\ handle' = [h \in Handles |-> Absent]
  /\ index' = native
  /\ UNCHANGED <<store, native, ops, faults, harmed>>

\* A tree built by earlier calls: one reference per file and native object.
Init ==
  /\ \E s \in Starts :
       /\ native = [p \in Paths |-> IF p \in DOMAIN s.native THEN s.native[p] ELSE Absent]
       /\ store = [dirs |-> [p \in Paths |-> IF p \in DOMAIN s.dirs THEN s.dirs[p] ELSE Absent],
                   files |-> [p \in Paths |-> IF p \in DOMAIN s.files THEN s.files[p] ELSE Absent],
                   refs |-> [c \in Contents |->
                      Cardinality({p \in DOMAIN s.files : s.files[p] = c})
                      + Cardinality({p \in DOMAIN s.native : s.native[p] = c})],
                   bytes |-> {s.files[p] : p \in DOMAIN s.files}
                             \cup {s.native[p] : p \in DOMAIN s.native}]
       /\ nodes = [p \in Paths |-> IF p \in DOMAIN s.dirs \ {Root} THEN "dir"
                                   ELSE IF p \in DOMAIN s.files THEN "file" ELSE Absent]
  /\ index = native
  /\ handle = [h \in Handles |-> Absent]
  /\ ops = 0 /\ faults = 0 /\ harmed = {}

Step ==
  \/ \E p \in Paths :
       \/ Lookup(p) \/ Unlink(p)
       \/ \E m \in Modes : FuseMkdir(p, m) \/ FuseSetattr(p, m)
       \/ \E h \in Handles, m \in Modes : FuseCreate(h, p, m)
       \/ \E h \in Handles : Open(h, p)
       \/ \E q \in Paths : FuseRename(p, q) \/ FuseLink(p, q)
       \/ \E c \in Contents \ {Empty} : NativePut(p, c)
       \/ NativeDelete(p)
  \/ \E h \in Handles :
       \/ Read(h)
       \/ \E c \in Contents \ {Empty} : Write(h, c)
       \/ \E closes \in BOOLEAN : Flush(h, closes)
  \/ storeObjects \/ Remount

\* MaxOps ends the behaviour.
Next == ops < MaxOps /\ Step

Spec == Init /\ [][Next]_vars

-------------------------------------------------------------------------------
(* The tree as a walk from the root through the manifests shows it. *)

Broken == [type |-> "broken", hash |-> NoHash, mode |-> DefaultMode]

View(p) ==
  LET e == entryIn(store, p)
      reached == \A q \in Ancestors(p) :
                   /\ entryIn(store, q) # Absent
                   /\ entryIn(store, q).type = "dir"
  IN IF p = Root THEN Dir(DefaultMode)
     ELSE IF ~reached \/ e = Absent THEN Absent
     ELSE IF e.type = "dir" THEN IF store.dirs[p] = Absent THEN Broken ELSE e
     ELSE IF store.files[p] = e.hash /\ e.hash \in store.bytes THEN e ELSE Broken

Posix == INSTANCE PosixFS WITH tree <- [p \in Paths |-> View(p)]

Entries == [type : {"dir", "file"}, hash : Contents \cup {NoHash}, mode : Modes]

(* Manifests, references, snapshots and handles have their types; a reference *)
(* count never falls below zero, whatever order of deletes the callbacks make. *)
TypeOK ==
  /\ \A p \in Paths : store.dirs[p] # Absent =>
       DOMAIN store.dirs[p] \subseteq Names /\ \A n \in DOMAIN store.dirs[p] : store.dirs[p][n] \in Entries
  /\ store.files \in [Paths -> Contents \cup {Absent}]
  /\ store.refs \in [Contents -> Nat]
  /\ store.bytes \subseteq Contents
  /\ native \in [Paths -> Contents \cup {Absent}]
  /\ index \in [Paths -> Contents \cup {Absent}]
  /\ nodes \in [Paths -> {"dir", "file", Absent}]
  /\ \A h \in Handles : handle[h] # Absent =>
       handle[h] \in [path : Paths, mode : Modes, data : Contents \cup {NoHash}, dirty : BOOLEAN]
  /\ ops \in 0..MaxOps /\ faults \in 0..MaxFaults
  /\ harmed \subseteq Paths

(* Create, Remove, Rename and Link move references between path keys with Put *)
(* calls that carry no body.  Outside the paths of an operation that stopped   *)
(* half way, and of a rename onto an existing directory, every entry that a    *)
(* walk from the root finds can be opened: a directory has its manifest, a     *)
(* file the bytes its entry names.                                             *)
EntriesReadable == \A p \in Paths \ Below(harmed) : View(p) # Broken

(* lookupLocked and ReadDir resolve manifests and native objects in code of    *)
(* their own (entryIn, storeMetaByPath and the ancestor scan against           *)
(* storeChildren).  What a directory lists can be looked up with the same      *)
(* entry, and what can be looked up is listed.                                 *)
ListedIsFound ==
  \A p \in Paths : Len(p) < MaxDepth =>
    \A n \in Names :
      lookup(Append(p, n)) = IF n \in DOMAIN ReadDir(p) THEN ReadDir(p)[n] ELSE Absent

(* Every callback and every flush changes the tree by one whole POSIX          *)
(* operation or not at all.  When a store call fails in the middle, when the   *)
(* process dies there, or when Rename loses a subtree, nothing changes outside *)
(* the paths of that operation.                                                *)
WholeOperations == Posix!Spec
=============================================================================
