----------------------------- MODULE S3Listing ------------------------------
(***************************************************************************)
(* ListObjectsV2 in pages (FormatListObjectsV2XML of                       *)
(* transport/s3_communicator.go): a client follows continuation tokens     *)
(* while objects are written and deleted between its pages.  The server    *)
(* keeps no state between pages; a token carries the last element emitted  *)
(* and whether it was a key or a common prefix.                            *)
(*                                                                         *)
(* A name is a sequence of characters, numbered by their order.  Names     *)
(* longer than 64 bytes, which the server leaves out of every listing, are *)
(* not modelled.                                                           *)
(***************************************************************************)
EXTENDS Integers, FiniteSets, Sequences, SequencesExt

CONSTANTS
  Names,         \* object names: sequences of numbers
  Queries,       \* [prefix, delimiter, startAfter : names, maxKeys : a number]
  Decodes,       \* start-after names that happen to be base64 -> what they decode to
  MaxWrites      \* bound on writes during the listing

VARIABLES
  objects,       \* names in the store
  query,         \* the client's request
  resume,        \* where the next page starts: [mode, key]
  contents,      \* keys received so far, all pages
  prefixes,      \* common prefixes received so far
  phase,         \* "paging" until a page is not truncated, then "done"
  always, ever,  \* names in the store throughout, and at some time of, the listing (ghost)
  writes

vars == <<objects, query, resume, contents, prefixes, phase, always, ever, writes>>

AllPrefixes == UNION {Prefixes(n) : n \in Names}

TypeOK ==
  /\ objects \in SUBSET Names
  /\ query \in Queries
  /\ resume.mode \in {"key", "prefix"}
  /\ ToSet(contents) \subseteq Names
  /\ ToSet(prefixes) \subseteq AllPrefixes
  /\ phase \in {"paging", "done"}
  /\ always \subseteq ever
  /\ writes \in 0 .. MaxWrites

\* The order of Go strings: bytewise, a proper prefix first.
Less(s, t) ==
  \/ IsStrictPrefix(s, t)
  \/ \E i \in 1 .. Len(s) :
       /\ i <= Len(t)
       /\ s[i] < t[i]
       /\ \A j \in 1 .. i - 1 : s[j] = t[j]

\* decodeContinuationToken on a start-after: a name that is valid base64 is
\* taken for a token.
StartPosition(q) ==
  IF q.startAfter \in DOMAIN Decodes THEN Decodes[q.startAfter]
  ELSE [mode |-> "key", key |-> q.startAfter]

Init ==
  /\ objects \in SUBSET Names
  /\ query \in Queries
  /\ resume = StartPosition(query)
  /\ contents = <<>>
  /\ prefixes = <<>>
  /\ phase = "paging"
  /\ always = objects
  /\ ever = objects
  /\ writes = 0

----------------------------------------------------------------------------
\* A slip that Skipped avoids: a prefix token resumes like a key token.
SkippedAsKey(n, at) ==
  at.key # <<>> /\ (n = at.key \/ Less(n, at.key))

\* Names at or before the resume position; after a common prefix, its group too.
Skipped(n, at) ==
  /\ at.key # <<>>
  /\ \/ Less(n, at.key)
     \/ IF at.mode = "prefix" THEN IsPrefix(at.key, n) ELSE n = at.key

\* strings.Index of the delimiter in what follows the prefix, from 1; 0 is absent.
DelimiterAt(n, q) ==
  LET starts == {i \in Len(q.prefix) + 1 .. Len(n) :
                   IsPrefix(q.delimiter, SubSeq(n, i, Len(n)))} IN
  IF q.delimiter = <<>> \/ starts = {} THEN 0
  ELSE CHOOSE i \in starts : \A j \in starts : i <= j

\* The common prefix of a name: up to the first character of the delimiter.
Group(n, q) == SubSeq(n, 1, DelimiterAt(n, q))

\* One turn of the loop over the sorted files.
Emit(q, at, page, n) ==
  LET grouped == DelimiterAt(n, q) # 0
      full == q.maxKeys > 0 /\ Len(page.keys) + Len(page.groups) >= q.maxKeys IN
  IF \/ page.truncated
     \/ Skipped(n, at)
     \/ ~IsPrefix(q.prefix, n)
     \/ grouped /\ Group(n, q) \in ToSet(page.groups)
  THEN page
  ELSE IF full THEN [page EXCEPT !.truncated = TRUE]
  ELSE IF grouped
  THEN [page EXCEPT !.groups = Append(@, Group(n, q)),
                    !.last = [mode |-> "prefix", key |-> Group(n, q)]]
  ELSE [page EXCEPT !.keys = Append(@, n), !.last = [mode |-> "key", key |-> n]]

Sorted(files) ==
  [i \in 1 .. Cardinality(files) |->
     CHOOSE n \in files : Cardinality({m \in files : Less(m, n)}) = i - 1]

FormatListObjectsV2XML(files, q, at) ==
  FoldLeft(LAMBDA page, n : Emit(q, at, page, n),
           [keys |-> <<>>, groups |-> <<>>, truncated |-> FALSE, last |-> at],
           Sorted(files))

\* The client asks for the next page.
ListObjectsV2 ==
  LET page == FormatListObjectsV2XML(objects, query, resume) IN
  /\ phase = "paging"
  /\ contents' = contents \o page.keys
  /\ prefixes' = prefixes \o page.groups
  /\ resume' = page.last
  /\ phase' = IF page.truncated THEN "paging" ELSE "done"
  /\ UNCHANGED <<objects, query, always, ever, writes>>

\* Another client writes or deletes an object between two pages.
Write(n) ==
  /\ phase = "paging"
  /\ writes < MaxWrites
  /\ writes' = writes + 1
  /\ objects' = IF n \in objects THEN objects \ {n} ELSE objects \cup {n}
  /\ always' = always \ {n}
  /\ ever' = ever \cup {n}
  /\ UNCHANGED <<query, resume, contents, prefixes, phase>>

Next == ListObjectsV2 \/ \E n \in Names : Write(n)

Spec == Init /\ [][Next]_vars

----------------------------------------------------------------------------
Occurrences(x, s) == Cardinality({i \in DOMAIN s : s[i] = x})

\* Names the query asks for.
Asked(n, q) == IsPrefix(q.prefix, n) /\ Less(q.startAfter, n)

\* When a listing ends, every name that was there throughout and matches the
\* query has been reported exactly once, as a key or through its common
\* prefix, whatever was written between the pages; nothing is reported twice,
\* and nothing that was never there.  Left out are the two cases in which the
\* code does otherwise: a delimiter of several characters, of which only the
\* first ends up in the common prefix, and a start-after that is valid base64
\* (FormatListObjectsV2XML, decodeContinuationToken).
ListedOnce ==
  phase = "done" /\ Len(query.delimiter) <= 1 /\ query.startAfter \notin DOMAIN Decodes =>
    /\ \A n \in always : Asked(n, query) =>
         IF DelimiterAt(n, query) = 0 THEN Occurrences(n, contents) = 1
         ELSE Occurrences(Group(n, query), prefixes) = 1
    /\ \A n \in ToSet(contents) : n \in ever /\ Occurrences(n, contents) = 1
    /\ \A p \in ToSet(prefixes) :
         /\ Occurrences(p, prefixes) = 1
         /\ \E n \in ever : Asked(n, query) /\ Group(n, query) = p
====
