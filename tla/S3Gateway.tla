----------------------------- MODULE S3Gateway ------------------------------
(***************************************************************************)
(* The S3 object surface of one node (transport/s3_communicator.go) over   *)
(* its store: PutObject, GetObject, DeleteObject, CopyObject,              *)
(* DeleteObjects and the multipart calls.  Each request runs on its own    *)
(* connection handler, and each store call or critical section of it is    *)
(* one step here, so requests interleave between their store calls as the  *)
(* goroutines do.                                                          *)
(*                                                                         *)
(* The object and its headers (Content-Type, checksum) live in two bbolt   *)
(* buckets that no transaction updates together, and Delete leaves the     *)
(* headers in place.  Multipart sessions live in memory only.              *)
(*                                                                         *)
(* A content is a sequence of bodies: one for a PUT, one per part of a     *)
(* multipart upload.  Its entity-tag and its checksum are the content      *)
(* itself; Bad is a checksum that matches no content.  Authentication,     *)
(* buckets, versioning (Versions) and leases (Lease) are not repeated      *)
(* here: AcquireLease only succeeds or fails.                              *)
(***************************************************************************)
EXTENDS Integers, FiniteSets, Sequences, Functions

CONSTANTS
  Keys,          \* object keys
  Bodies,        \* bodies of a PUT or of a part
  Types,         \* Content-Type values
  Ids,           \* ids generateUploadID hands out
  PartNumbers,
  Handlers,      \* connections served at a time
  Absent,        \* no object, no header
  Free,          \* nothing promised (ghost state only)
  Bad,           \* a checksum of other bytes
  HeaderKinds,   \* pairs <<Content-Type, checksum kind>> a PUT may carry
  MaxRequests,   \* bound on requests; a multipart call counts for one, others two
  MaxParts,      \* bound on parts of an upload
  MaxFaults      \* bound on store errors, refused leases and restarts

ASSUME S3Assumption ==
  /\ Absent # Bad /\ Free \notin {Absent, Bad}
  /\ Absent \notin Nat /\ Absent \notin Seq(Bodies \cup {Bad})
  /\ Absent \notin [first : Nat \cup {Absent}, last : Nat \cup {Absent}]
  /\ PartNumbers \subseteq Nat
  /\ HeaderKinds \subseteq (Types \cup {Absent}) \X {"none", "right", "wrong"}
  /\ MaxParts \in Nat /\ MaxRequests \in Nat /\ MaxFaults \in Nat

VARIABLES
  names,         \* bucketNamespace: the content a key names
  s3meta,        \* bucketS3Meta: the headers at rest
  uploads,       \* the package's session map, with ids not yet or no longer in it
  at,            \* the request each handler is serving
  wrote,         \* what the last finished write of a key promised (ghost)
  acked,         \* parts whose UploadPart was answered 200, in order (ghost)
  made,          \* contents stored for an upload (ghost)
  requests, faults

vars == <<names, s3meta, uploads, at, wrote, acked, made, requests, faults>>

Parts == [num : PartNumbers, data : Bodies]
PartSeqs == UNION {[1 .. n -> Parts] : n \in 0 .. MaxParts}
Contents == UNION {[1 .. n -> Bodies] : n \in 0 .. MaxParts \cup {1}}
Sums == Contents \cup {Absent, Bad}
Headers == [type : Types \cup {Absent}, sum : Sums]
NoHeaders == [type |-> Absent, sum |-> Absent]
SumKinds == {"none", "right", "wrong"}

Request == [op : {"idle", "put", "get", "delete", "copy", "batch", "complete"},
            step : {"", "check", "put", "verify", "meta", "read", "headers",
                    "served", "lease", "delete", "take", "collect", "sum", "merge"},
            key : Keys \cup {Absent}, src : Keys \cup {Absent},
            data : Contents \cup {Absent}, hdr : Headers, id : Ids \cup {Absent},
            kind : SumKinds, rest : Seq(Keys),
            writes : SUBSET Keys, reads : SUBSET Keys, alone : BOOLEAN]

TypeOK ==
  /\ names \in [Keys -> Contents \cup {Absent}]
  /\ s3meta \in [Keys -> Headers]
  /\ uploads \in [Ids -> [state : {"unused", "open", "closed"}, key : Keys \cup {Absent},
                       parts : PartSeqs]]
  /\ at \in [Handlers -> Request]
  /\ wrote \in [Keys -> [data : Contents \cup {Absent, Free},
                         type : Types \cup {Absent, Free}, sum : Sums \cup {Free}]]
  /\ acked \in [Ids -> PartSeqs]
  /\ made \in [Ids -> Seq(Contents)]
  /\ requests \in 0 .. MaxRequests
  /\ faults \in 0 .. MaxFaults

Idle == [op |-> "idle", step |-> "", key |-> Absent, src |-> Absent, data |-> Absent,
         hdr |-> NoHeaders, id |-> Absent, kind |-> "none",
         rest |-> <<>>, writes |-> {}, reads |-> {}, alone |-> TRUE]
Unpromised == [data |-> Free, type |-> Free, sum |-> Free]

Init ==
  /\ names = [k \in Keys |-> Absent]
  /\ s3meta = [k \in Keys |-> NoHeaders]
  /\ uploads = [u \in Ids |-> [state |-> "unused", key |-> Absent, parts |-> <<>>]]
  /\ at = [h \in Handlers |-> Idle]
  /\ wrote = [k \in Keys |-> [Unpromised EXCEPT !.data = Absent]]
  /\ acked = [u \in Ids |-> <<>>]
  /\ made = [u \in Ids |-> <<>>]
  /\ requests = 0
  /\ faults = 0

----------------------------------------------------------------------------
(* The store calls the requests are made of. *)

\* A slip that PutS3Meta avoids: fields the new headers lack keep their old value.
PutS3MetaMerge(k, h) ==
  s3meta' = [s3meta EXCEPT ![k] =
    [type |-> IF h.type = Absent THEN @.type ELSE h.type,
     sum |-> IF h.sum = Absent THEN @.sum ELSE h.sum]]

\* CASStore.PutS3Meta: no headers is a no-op, otherwise the whole map is replaced.
PutS3Meta(k, h) ==
  s3meta' = IF h = NoHeaders THEN s3meta ELSE [s3meta EXCEPT ![k] = h]

Put(k, d) == names' = [names EXCEPT ![k] = d]

\* CASStore.Delete touches the namespace only; the headers stay.
Delete(k) == names' = [names EXCEPT ![k] = Absent]

\* A store call returns an error, or AcquireLease does.
Fault ==
  /\ faults < MaxFaults
  /\ faults' = faults + 1

NoFault == UNCHANGED faults

----------------------------------------------------------------------------
(* Bookkeeping of requests.  "alone" records that no other request in      *)
(* flight wrote a key this one writes or reads, nor read one it writes.    *)

Conflict(r, q) ==
  \/ r.writes \cap (q.writes \cup q.reads) # {}
  \/ q.writes \cap r.reads # {}

\* n is what the request counts for in the bound.
Admit(n) ==
  /\ requests + n <= MaxRequests
  /\ requests' = requests + n

Begin(h, r) ==
  /\ at[h] = Idle
  /\ Admit(IF r.op = "complete" THEN 1 ELSE 2)
  /\ at' = [g \in Handlers |->
       IF g = h THEN [r EXCEPT !.alone = \A q \in Handlers : ~Conflict(r, at[q])]
       ELSE [at[g] EXCEPT !.alone = @ /\ ~Conflict(r, at[g])]]
  /\ UNCHANGED <<names, s3meta, uploads, wrote, acked, made, faults>>

Doing(h, op, step) == at[h].op = op /\ at[h].step = step
Continue(h, r) == at' = [at EXCEPT ![h] = r]
Goto(h, step) == at' = [at EXCEPT ![h].step = step]
End(h) == at' = [at EXCEPT ![h] = Idle]

\* What a write of k that ran alone promises; one that overlapped promises nothing.
Promise(h, k, p) == wrote' = [wrote EXCEPT ![k] = IF at[h].alone THEN p ELSE Unpromised]
NoPromise == UNCHANGED wrote

----------------------------------------------------------------------------
(* PutObject: the dedup check, store.Put, the verification of getFile and  *)
(* persistS3Meta.  The checksum header is that of the body, of other bytes *)
(* or not sent.                                                            *)

SumOf(kind, d) == CASE kind = "none" -> Absent [] kind = "right" -> d [] OTHER -> Bad

PutObject(h, k, b, t, kind) ==
  Begin(h, [Idle EXCEPT !.op = "put", !.step = "check", !.key = k, !.data = <<b>>,
                        !.hdr = [type |-> t, sum |-> SumOf(kind, <<b>>)],
                        !.writes = {k}])

\* canDedup: the payload, and with it the verification, is skipped only when
\* this very name already maps to the announced hash.
CheckDedup(h) ==
  /\ Doing(h, "put", "check")
  /\ Continue(h, [at[h] EXCEPT !.step = "put",
                               !.kind = IF names[at[h].key] = at[h].data THEN "right" ELSE "none"])
  /\ UNCHANGED <<names, s3meta, uploads, wrote, acked, made, requests, faults>>

PutContent(h) ==
  /\ Doing(h, "put", "put")
  /\ \/ /\ NoFault
        /\ Put(at[h].key, at[h].data)
        /\ NoPromise
        /\ Goto(h, IF at[h].kind = "right" THEN "meta" ELSE "verify")
     \/ /\ Fault
        /\ Promise(h, at[h].key, wrote[at[h].key])
        /\ End(h)
        /\ UNCHANGED names
  /\ UNCHANGED <<s3meta, uploads, acked, made, requests>>

\* getFile after store.Put: on a mismatch the stored object is deleted again.
VerifyChecksum(h) ==
  /\ Doing(h, "put", "verify")
  /\ \/ /\ at[h].hdr.sum # Bad
        /\ Goto(h, "meta")
        /\ UNCHANGED <<names, wrote>>
     \/ /\ at[h].hdr.sum = Bad
        /\ Delete(at[h].key)
        /\ Promise(h, at[h].key, [wrote[at[h].key] EXCEPT !.data = Absent])
        /\ End(h)
  /\ UNCHANGED <<s3meta, uploads, acked, made, requests, faults>>

\* A write that carries headers hdr replaces all of them; one without any leaves
\* those at rest.
Promised(k, d, hdr) ==
  IF hdr = NoHeaders THEN [wrote[k] EXCEPT !.data = d]
  ELSE [data |-> d, type |-> hdr.type, sum |-> hdr.sum]

\* A failing PutS3Meta is only logged: the upload succeeds without its headers.
PersistS3Meta(h) ==
  LET k == at[h].key IN
  /\ Doing(h, "put", "meta")
  /\ \/ /\ NoFault
        /\ PutS3Meta(k, at[h].hdr)
        /\ Promise(h, k, Promised(k, at[h].data, at[h].hdr))
     \/ Fault /\ UNCHANGED s3meta /\ Promise(h, k, [wrote[k] EXCEPT !.data = at[h].data])
  /\ End(h)
  /\ UNCHANGED <<names, uploads, acked, made, requests>>

----------------------------------------------------------------------------
(* GetObject and HeadObject: store.Get, then the headers in a second       *)
(* transaction, then the answer.                                           *)

ReadOf(k) == [Idle EXCEPT !.op = "get", !.step = "read", !.src = k, !.reads = {k}]

GetObject(h, k) == Begin(h, ReadOf(k))

\* HeadObject makes the same two reads; its answer has no body.
HeadObject(h, k) == Begin(h, ReadOf(k))

GetContent(h) ==
  /\ Doing(h, "get", "read")
  /\ IF names[at[h].src] = Absent
       THEN End(h)
       ELSE Continue(h, [at[h] EXCEPT !.step = "headers", !.data = names[at[h].src]])
  /\ UNCHANGED <<names, s3meta, uploads, wrote, acked, made, requests, faults>>

GetHeaders(h) ==
  /\ Doing(h, "get", "headers")
  /\ Continue(h, [at[h] EXCEPT !.step = "served", !.hdr = s3meta[at[h].src]])
  /\ UNCHANGED <<names, s3meta, uploads, wrote, acked, made, requests, faults>>

GetDone(h) ==
  /\ Doing(h, "get", "served")
  /\ End(h)
  /\ UNCHANGED <<names, s3meta, uploads, wrote, acked, made, requests, faults>>

Unsatisfiable == [status |-> 416, start |-> 0, end |-> -1]
Full(size) == [status |-> 200, start |-> 0, end |-> size - 1]
Span(from, to) == [status |-> 206, start |-> from, end |-> to]
Least(a, b) == IF a < b THEN a ELSE b

\* A slip that parseS3Range avoids: an end at the size is not clamped.
parseS3RangeLoose(first, last, size) ==
  CASE first = Absent /\ last = Absent -> Unsatisfiable
    [] first = Absent /\ last # Absent ->
         IF last = 0 \/ size = 0 THEN Unsatisfiable ELSE Span(size - Least(last, size), size - 1)
    [] first # Absent /\ last = Absent ->
         IF first >= size THEN Unsatisfiable ELSE Span(first, size - 1)
    [] OTHER -> IF first >= size \/ first > last THEN Unsatisfiable
                ELSE Span(first, Least(last, size))

\* "bytes=first-last" with either side possibly missing.
parseS3Range(first, last, size) ==
  CASE first = Absent /\ last = Absent -> Unsatisfiable
    [] first = Absent /\ last # Absent ->
         IF last = 0 \/ size = 0 THEN Unsatisfiable ELSE Span(size - Least(last, size), size - 1)
    [] first # Absent /\ last = Absent ->
         IF first >= size THEN Unsatisfiable ELSE Span(first, size - 1)
    [] OTHER -> IF first >= size \/ first > last THEN Unsatisfiable
                ELSE Span(first, Least(last, size - 1))

\* The answer to a GET of content d: If-Match, If-None-Match, If-Range (entity-
\* tags, Absent when not sent) and Range (Absent, or its two sides), in order.
Answer(d, ifMatch, ifNoneMatch, ifRange, range) ==
  IF ifMatch \notin {Absent, d} THEN [status |-> 412, start |-> 0, end |-> -1]
  ELSE IF ifNoneMatch = d THEN [status |-> 304, start |-> 0, end |-> -1]
  ELSE IF range = Absent \/ ifRange \notin {Absent, d} THEN Full(Len(d))
  ELSE parseS3Range(range.first, range.last, Len(d))

----------------------------------------------------------------------------
(* DeleteObject, and DeleteObjects, which takes its keys through the same  *)
(* steps one after the other and goes on past a key that failed.           *)

DeleteObject(h, k) ==
  Begin(h, [Idle EXCEPT !.op = "delete", !.step = "lease", !.rest = <<k>>, !.writes = {k}])

DeleteObjects(h, ks) ==
  Begin(h, [Idle EXCEPT !.op = "batch", !.step = "lease", !.rest = ks, !.writes = Range(ks)])

Deleting(h, step) == at[h].op \in {"delete", "batch"} /\ at[h].step = step

\* The next key of the batch, or the answer.
NextKey(h) ==
  IF Len(at[h].rest) = 1 THEN End(h)
  ELSE Continue(h, [at[h] EXCEPT !.step = "lease", !.rest = Tail(@)])

DeleteLease(h) ==
  /\ Deleting(h, "lease")
  /\ \/ NoFault /\ Goto(h, "delete") /\ UNCHANGED wrote
     \/ /\ Fault
        /\ NextKey(h)
        /\ Promise(h, Head(at[h].rest), wrote[Head(at[h].rest)])
  /\ UNCHANGED <<names, s3meta, uploads, acked, made, requests>>

\* store.Delete; the propagation to peers after it is best effort (ScatterGather).
DeleteContent(h) ==
  LET k == Head(at[h].rest) IN
  /\ Deleting(h, "delete")
  /\ \/ NoFault /\ Delete(k) /\ Promise(h, k, [wrote[k] EXCEPT !.data = Absent])
     \/ Fault /\ UNCHANGED names /\ Promise(h, k, wrote[k])
  /\ NextKey(h)
  /\ UNCHANGED <<s3meta, uploads, acked, made, requests>>

----------------------------------------------------------------------------
(* CopyObject: Get of the source, Put under the destination, then the      *)
(* source's headers are read and written, each in a transaction of its own.*)

CopyObject(h, src, k) ==
  Begin(h, [Idle EXCEPT !.op = "copy", !.step = "read", !.src = src, !.key = k,
                        !.writes = {k}, !.reads = {src}])

CopyRead(h) ==
  /\ Doing(h, "copy", "read")
  /\ IF names[at[h].src] = Absent
       THEN End(h) /\ Promise(h, at[h].key, wrote[at[h].key])
       ELSE /\ Continue(h, [at[h] EXCEPT !.step = "put", !.data = names[at[h].src]])
            /\ NoPromise
  /\ UNCHANGED <<names, s3meta, uploads, acked, made, requests, faults>>

CopyPut(h) ==
  /\ Doing(h, "copy", "put")
  /\ \/ NoFault /\ Put(at[h].key, at[h].data) /\ Goto(h, "headers") /\ NoPromise
     \/ /\ Fault
        /\ End(h)
        /\ Promise(h, at[h].key, wrote[at[h].key])
        /\ UNCHANGED names
  /\ UNCHANGED <<s3meta, uploads, acked, made, requests>>

CopyHeaders(h) ==
  /\ Doing(h, "copy", "headers")
  /\ Continue(h, [at[h] EXCEPT !.step = "meta", !.hdr = s3meta[at[h].src]])
  /\ UNCHANGED <<names, s3meta, uploads, wrote, acked, made, requests, faults>>

\* The copy promises whatever its source still promises.
CopyMeta(h) ==
  LET k == at[h].key IN
  /\ Doing(h, "copy", "meta")
  /\ \/ NoFault /\ PutS3Meta(k, at[h].hdr) /\ Promise(h, k, wrote[at[h].src])
     \/ /\ Fault
        /\ Promise(h, k, [wrote[k] EXCEPT !.data = wrote[at[h].src].data])
        /\ UNCHANGED s3meta
  /\ End(h)
  /\ UNCHANGED <<names, uploads, acked, made, requests>>

----------------------------------------------------------------------------
(* Multipart uploads.  muUploads makes create, UploadPart (its lookup and  *)
(* its append) and abort one step each, and the lookup and removal of the  *)
(* session by complete another.                                            *)

CreateMultipartUpload(u, k) ==
  /\ Admit(1)
  /\ uploads[u].state = "unused"
  /\ uploads' = [uploads EXCEPT ![u] = [state |-> "open", key |-> k, parts |-> <<>>]]
  /\ UNCHANGED <<names, s3meta, at, wrote, acked, made, faults>>

\* A part number sent again is appended again.
UploadPart(u, p) ==
  /\ Admit(1)
  /\ uploads[u].state = "open"
  /\ Len(uploads[u].parts) < MaxParts
  /\ uploads' = [uploads EXCEPT ![u].parts = Append(@, p)]
  /\ acked' = [acked EXCEPT ![u] = Append(@, p)]
  /\ UNCHANGED <<names, s3meta, at, wrote, made, faults>>

AbortMultipartUpload(u) ==
  /\ uploads[u].state = "open"
  /\ uploads' = [uploads EXCEPT ![u].state = "closed", ![u].parts = <<>>]
  /\ UNCHANGED <<names, s3meta, at, wrote, acked, made, requests, faults>>

CompleteMultipartUpload(h, u, kind) ==
  /\ uploads[u].state # "unused"
  /\ Begin(h, [Idle EXCEPT !.op = "complete", !.step = "take", !.id = u, !.kind = kind,
                            !.key = uploads[u].key, !.writes = {uploads[u].key}])

\* A slip that TakeSession avoids: the session stays in the map until the end.
TakeSessionKeep(h) ==
  /\ Doing(h, "complete", "take")
  /\ uploads[at[h].id].state = "open"
  /\ Goto(h, "collect")
  /\ UNCHANGED <<names, s3meta, uploads, wrote, acked, made, requests, faults>>

\* The session leaves the map before anything is done with it; the handler
\* keeps it.  A session that is not in the map is NoSuchUpload.
TakeSession(h) ==
  LET u == at[h].id IN
  /\ Doing(h, "complete", "take")
  /\ \/ /\ uploads[u].state = "open"
        /\ uploads' = [uploads EXCEPT ![u].state = "closed"]
        /\ Goto(h, "collect")
        /\ NoPromise
     \/ /\ uploads[u].state = "closed"
        /\ End(h)
        /\ Promise(h, at[h].key, wrote[at[h].key])
        /\ UNCHANGED uploads
  /\ UNCHANGED <<names, s3meta, acked, made, requests, faults>>

\* Orders in which sort.Slice, which is not stable, may leave the parts.
SortedByNumber(parts) ==
  LET Places == 1 .. Len(parts) IN
  {[i \in Places |-> parts[f[i]]] : f \in
     {f \in Bijection(Places, Places) : \A i, j \in Places : i < j => parts[f[i]].num <= parts[f[j]].num}}

\* All parts of the session are assembled and their checksum is compared; on
\* a mismatch the upload is refused, its session already gone.
AssembleParts(h) ==
  /\ Doing(h, "complete", "collect")
  /\ \E parts \in SortedByNumber(uploads[at[h].id].parts) :
       LET d == [i \in DOMAIN parts |-> parts[i].data] IN
       \/ /\ at[h].kind # "wrong"
          /\ Continue(h, [at[h] EXCEPT !.data = d,
                           !.step = IF at[h].kind = "right" THEN "sum" ELSE "put"])
          /\ NoPromise
       \/ at[h].kind = "wrong" /\ End(h) /\ Promise(h, at[h].key, wrote[at[h].key])
  /\ UNCHANGED <<names, s3meta, uploads, acked, made, requests, faults>>

\* persistS3Checksum reads the headers at rest ...
ChecksumRead(h) ==
  /\ Doing(h, "complete", "sum")
  /\ Continue(h, [at[h] EXCEPT !.step = "merge",
                               !.hdr = [s3meta[at[h].key] EXCEPT !.sum = at[h].data]])
  /\ UNCHANGED <<names, s3meta, uploads, wrote, acked, made, requests, faults>>

\* ... and writes them back with the new checksum, before the object is stored.
ChecksumWrite(h) ==
  /\ Doing(h, "complete", "merge")
  /\ \/ NoFault /\ PutS3Meta(at[h].key, at[h].hdr) /\ Goto(h, "put")
     \/ /\ Fault
        /\ Continue(h, [at[h] EXCEPT !.step = "put", !.kind = "none"])
        /\ UNCHANGED s3meta
  /\ UNCHANGED <<names, uploads, wrote, acked, made, requests>>

\* store.Put of the assembled object.  When it fails the parts are lost, and a
\* checksum already written stays with the object that was there before.
CompletePut(h) ==
  LET r == at[h]
      sum == IF r.kind = "right" THEN r.data ELSE wrote[r.key].sum IN
  /\ Doing(h, "complete", "put")
  /\ \/ /\ NoFault
        /\ Put(r.key, r.data)
        /\ made' = [made EXCEPT ![r.id] = Append(@, r.data)]
        /\ Promise(h, r.key, [wrote[r.key] EXCEPT !.data = r.data, !.sum = sum])
     \/ /\ Fault
        /\ Promise(h, r.key, [wrote[r.key] EXCEPT !.sum = IF r.kind = "right" THEN Free ELSE @])
        /\ UNCHANGED <<names, made>>
  /\ End(h)
  /\ UNCHANGED <<s3meta, uploads, acked, requests>>

----------------------------------------------------------------------------
\* The node stops and starts: the sessions and the requests in flight are gone,
\* the two buckets stay.
Restart ==
  /\ Fault
  /\ uploads' = [u \in Ids |->
       IF uploads[u].state = "unused" THEN uploads[u]
       ELSE [uploads[u] EXCEPT !.state = "closed", !.parts = <<>>]]
  /\ at' = [h \in Handlers |-> Idle]
  /\ wrote' = [k \in Keys |->
       IF \E h \in Handlers : k \in at[h].writes THEN Unpromised ELSE wrote[k]]
  /\ UNCHANGED <<names, s3meta, acked, made, requests>>

Next ==
  \/ \E h \in Handlers, k \in Keys :
       \/ \E b \in Bodies, c \in HeaderKinds : PutObject(h, k, b, c[1], c[2])
       \/ GetObject(h, k)
       \/ HeadObject(h, k)
       \/ DeleteObject(h, k)
       \/ \E src \in Keys : CopyObject(h, src, k)
       \/ \E l \in Keys : DeleteObjects(h, <<k, l>>)
  \/ \E h \in Handlers :
       \/ CheckDedup(h) \/ PutContent(h) \/ VerifyChecksum(h) \/ PersistS3Meta(h)
       \/ GetContent(h) \/ GetHeaders(h) \/ GetDone(h)
       \/ DeleteLease(h) \/ DeleteContent(h)
       \/ CopyRead(h) \/ CopyPut(h) \/ CopyHeaders(h) \/ CopyMeta(h)
       \/ TakeSession(h) \/ AssembleParts(h) \/ ChecksumRead(h) \/ ChecksumWrite(h)
       \/ CompletePut(h)
  \/ \E u \in Ids :
       \/ \E k \in Keys : CreateMultipartUpload(u, k)
       \/ \E p \in Parts : UploadPart(u, p)
       \/ AbortMultipartUpload(u)
       \/ \E h \in Handlers, kind \in SumKinds : CompleteMultipartUpload(h, u, kind)
  \/ Restart

Spec == Init /\ [][Next]_vars

----------------------------------------------------------------------------
(* Properties. *)

\* No write of k is in flight.
Settled(k) == \A h \in Handlers : k \notin at[h].writes

\* The fields of an observation are those promised, where something is promised.
Keeps(p, data, hdr) ==
  /\ p.data \in {Free, data}
  /\ p.type \in {Free, hdr.type}
  /\ p.sum \in {Free, hdr.sum}

\* Between writes a key shows its last write: the content, and exactly the
\* headers it carried, whatever requests for other keys, refused uploads,
\* failed copies, aborts and restarts happen in between.  A rejected upload and
\* a delete leave no object (getFile, PutS3Meta, handleCopyObject,
\* handleBatchDelete, handleCompleteMultipartUpload).
LastWriteShows ==
  \A k \in Keys : Settled(k) => Keeps(wrote[k], names[k], s3meta[k])

Positions == 0 .. MaxParts + 1
Ranges == [first : Positions \cup {Absent}, last : Positions \cup {Absent}]

\* The byte positions a Range header asks for, by its meaning in RFC 9110.
Requested(range, size) ==
  {i \in 0 .. size - 1 :
     IF range.first = Absent THEN range.last # Absent /\ i >= size - range.last
     ELSE i >= range.first /\ (range.last # Absent => i <= range.last)}

\* A GET with a Range answers with exactly the requested positions that exist,
\* 416 when there are none; with an If-Range of another content it answers
\* with the whole object, so that a client never joins pieces of two writes
\* (parseS3Range, ifRangeMatches).
RangeServed ==
  \A h \in Handlers : Doing(h, "get", "served") =>
    \A range \in Ranges, tag \in {Absent, at[h].data, Append(at[h].data, Bad)} :
      LET r == Answer(at[h].data, Absent, Absent, tag, range)
          asked == Requested(range, Len(at[h].data)) IN
      IF tag \in {Absent, at[h].data}
      THEN r.start .. r.end = asked /\ r.status = (IF asked = {} THEN 416 ELSE 206)
      ELSE r = Full(Len(at[h].data))

\* The content c is the parts a put together, each once and by ascending number.
Assembled(c, a) ==
  /\ Len(c) = Len(a)
  /\ \E f \in Bijection(DOMAIN a, DOMAIN a) :
       /\ \A i \in DOMAIN a : c[i] = a[f[i]].data
       /\ \A i, j \in DOMAIN a : i < j => a[f[i]].num <= a[f[j]].num

\* An upload becomes an object at most once, though a client may send
\* CompleteMultipartUpload again before the first one is answered, and the
\* object is made of every part whose upload was answered, each once and by
\* ascending part number, also when a number was sent twice and when parts
\* arrive while the upload completes (handleUploadPart,
\* handleCompleteMultipartUpload).
AssembledOnce ==
  \A u \in Ids :
    /\ Len(made[u]) <= 1
    /\ \A c \in Range(made[u]) : Assembled(c, acked[u])
====
