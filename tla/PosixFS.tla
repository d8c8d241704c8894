------------------------------- MODULE PosixFS -------------------------------
(* What a mount promises: a tree that changes by whole operations.  Only the *)
(* paths of an operation that went wrong half way (harmed, and what is below *)
(* them) may look otherwise.                                                 *)
EXTENDS Sequences, SequencesExt, FiniteSets

CONSTANTS Names, MaxDepth, Contents, Modes, NoHash, Absent

VARIABLES tree, harmed

vars == <<tree, harmed>>

Paths == UNION {[1..n -> Names] : n \in 0..MaxDepth}

Dir(m) == [type |-> "dir", hash |-> NoHash, mode |-> m]

File(c, m) == [type |-> "file", hash |-> c, mode |-> m]

IsDir(p) == tree[p] # Absent /\ tree[p].type = "dir"

Children(p) == {q \in Paths : IsStrictPrefix(p, q)}

Below(set) == {q \in Paths : \E p \in set : IsPrefix(p, q)}

\* p becomes e, and nothing else changes.
Set(p, e) ==
  /\ tree'[p] = e
  /\ \A q \in Paths \ {p} : tree'[q] = tree[q]

Mkdir(p) ==
  /\ tree[p] = Absent
  /\ IsDir(Front(p))
  /\ \E m \in Modes : Set(p, Dir(m))

\* A file is created, or its content replaced as a whole.
Write(p) ==
  /\ ~IsDir(p)
  /\ IsDir(Front(p))
  /\ \E c \in Contents, m \in Modes : Set(p, File(c, m))

Chmod(p) ==
  /\ tree[p] # Absent
  /\ \E m \in Modes : Set(p, [tree[p] EXCEPT !.mode = m])

Unlink(p) ==
  /\ tree[p] # Absent
  /\ \A q \in Children(p) : tree[q] = Absent
  /\ Set(p, Absent)

Hardlink(src, dst) ==
  /\ tree[dst] = Absent
  /\ tree[src] # Absent
  /\ ~IsDir(src)
  /\ IsDir(Front(dst))
  /\ Set(dst, tree[src])

\* The whole subtree moves, over nothing, a file or an empty directory.
Move(src, dst) ==
  LET From(q) == src \o SubSeq(q, Len(dst) + 1, Len(q))
  IN /\ tree[src] # Absent
     /\ tree'[src] = Absent
     /\ IsDir(Front(dst))
     /\ \/ dst \in Below(harmed)
        \/ /\ tree[dst] # Absent => tree[dst].type = tree[src].type
           /\ \A q \in Children(dst) : tree[q] = Absent
     /\ \A q \in Paths : tree'[q] =
          IF IsPrefix(src, q) THEN Absent
          ELSE IF IsPrefix(dst, q)
            THEN IF From(q) \in Paths THEN tree[From(q)] ELSE Absent
          ELSE tree[q]

\* The operation that went wrong changes nothing outside its own paths.
Damage ==
  /\ \A q \in Paths \ Below(harmed') : tree'[q] = tree[q]
  /\ harmed \subseteq harmed'

Next ==
  \/ \E p \in Paths \ {<<>>} :
       /\ Mkdir(p) \/ Write(p) \/ Chmod(p) \/ Unlink(p)
       /\ UNCHANGED harmed
  \/ \E src, dst \in Paths \ {<<>>} :
       /\ ~IsPrefix(src, dst) /\ ~IsPrefix(dst, src)
       /\ Hardlink(src, dst) \/ Move(src, dst)
       /\ UNCHANGED harmed
  \/ harmed' # {} /\ Damage

Spec == tree[<<>>].type = "dir" /\ harmed = {} /\ [][Next]_vars
=============================================================================
