-------------------------- MODULE S3GatewayProofs ---------------------------
(***************************************************************************)
(* Proofs about the S3 object surface (S3Gateway).                         *)
(***************************************************************************)
EXTENDS S3Gateway, TLAPS

\* A request, by its kind: the keys it names, writes and reads, and where it has
\* the content it is about.
Shape(r) ==
  /\ r.op = "idle" => r.writes = {} /\ r.reads = {}
  /\ r.op \in {"put", "copy", "complete"} => r.key \in Keys /\ r.writes = {r.key}
  /\ r.op \in {"get", "copy"} => r.src \in Keys /\ r.reads = {r.src}
  /\ r.op = "get" => r.writes = {}
  /\ r.op \in {"delete", "batch"} =>
       Len(r.rest) > 0 /\ \A i \in DOMAIN r.rest : r.rest[i] \in r.writes
  /\ r.op = "complete" => r.id \in Ids
  /\ r.op = "complete" /\ r.step \in {"sum", "merge"} => r.kind = "right"
  /\ \/ r.op = "put" \/ (r.op = "copy" /\ r.step # "read")
     \/ r.op = "get" /\ r.step # "read"
     \/ r.op = "complete" /\ r.step \in {"sum", "merge", "put"}
     => r.data \in Contents

Shapes == \A h \in Handlers : Shape(at[h])

\* A request that ran alone so far conflicts with no other in flight.
AloneApart ==
  \A g, h \in Handlers : at[h].alone /\ g # h => ~Conflict(at[h], at[g])

\* The request has changed its key and made no promise about it yet.
Midway(r) ==
  \/ r.op = "put" /\ r.step \in {"verify", "meta"}
  \/ r.op = "copy" /\ r.step \in {"headers", "meta"}
  \/ r.op = "complete" /\ r.step = "put" /\ r.kind = "right"

KeptKey(k) == Keeps(wrote[k], names[k], s3meta[k])

\* A key that no request has half written shows what was promised of it.
KeysKept ==
  \A k \in Keys :
    (\A h \in Handlers : ~(Midway(at[h]) /\ at[h].key = k)) => KeptKey(k)

\* What a request that ran alone so far knows of the keys it works on.
Knows(r) ==
  /\ r.op \in {"put", "copy"} /\ Midway(r) =>
       /\ names[r.key] = r.data
       /\ wrote[r.key].type \in {Free, s3meta[r.key].type}
       /\ wrote[r.key].sum \in {Free, s3meta[r.key].sum}
  /\ r.op = "copy" /\ r.step # "read" => names[r.src] = r.data /\ KeptKey(r.src)
  /\ r.op = "copy" /\ r.step = "meta" => r.hdr = s3meta[r.src]
  /\ r.op = "complete" /\ r.step = "merge" => r.hdr = [s3meta[r.key] EXCEPT !.sum = r.data]
  /\ r.op = "complete" /\ Midway(r) =>
       /\ wrote[r.key].data \in {Free, names[r.key]}
       /\ wrote[r.key].type \in {Free, s3meta[r.key].type}
       /\ s3meta[r.key].sum = r.data

AloneKnows == \A h \in Handlers : at[h].alone => Knows(at[h])

\* Headers are never taken away: a key without any was promised none.
HeadersKept ==
  \A k \in Keys : s3meta[k] = NoHeaders => wrote[k].type = Free /\ wrote[k].sum = Free

ObjectInv == TypeOK /\ Shapes /\ AloneApart /\ KeysKept /\ AloneKnows /\ HeadersKept

\* A session has all parts that were answered until it leaves the map, and an
\* object is made of it at most once, after that.
Session(u) ==
  /\ uploads[u].state # "unused" => uploads[u].key \in Keys
  /\ uploads[u].state = "unused" => acked[u] = <<>>
  /\ uploads[u].state # "closed" => made[u] = <<>> /\ uploads[u].parts = acked[u]
  /\ made[u] # <<>> => Len(made[u]) = 1 /\ Assembled(made[u][1], acked[u])

Sessions == \A u \in Ids : Session(u)

Holds(r, u) ==
  r.op = "complete" /\ r.id = u /\ r.step \in {"collect", "sum", "merge", "put"}

\* One request at most has taken a session and not yet made an object of it.
Holder(h, u) ==
  /\ uploads[u].state = "closed" /\ uploads[u].parts = acked[u] /\ made[u] = <<>>
  /\ at[h].step # "collect" => Assembled(at[h].data, acked[u])
  /\ \A g \in Handlers : Holds(at[g], u) => g = h

Holders == \A h \in Handlers, u \in Ids : Holds(at[h], u) => Holder(h, u)

S3Inv == ObjectInv /\ Sessions /\ Holders

LEMMA ContentsAreSeqs ==
  \A c \in Contents : /\ c \in Seq(Bodies) /\ Len(c) \in Nat /\ DOMAIN c = 1 .. Len(c)
                         /\ c # Absent
<1> SUFFICES ASSUME NEW c \in Contents
             PROVE  /\ c \in Seq(Bodies) /\ Len(c) \in Nat /\ DOMAIN c = 1 .. Len(c)
                    /\ c # Absent
  OBVIOUS
<1>1. PICK n \in 0 .. MaxParts \cup {1} : c \in [1 .. n -> Bodies]
  BY DEF Contents
<1>2. n \in Nat
  BY S3Assumption
<1>3. c \in Seq(Bodies)
  BY <1>1, <1>2
<1>4. c \in Seq(Bodies \cup {Bad})
  BY <1>1, <1>2
<1> QED BY <1>3, <1>4, S3Assumption

Steps == {"", "check", "put", "verify", "meta", "read", "headers", "served", "lease",
          "delete", "take", "collect", "sum", "merge"}

\* The two requests are for the same, and met the same others.
Same(r, q) ==
  /\ r.op = q.op /\ r.key = q.key /\ r.src = q.src /\ r.id = q.id
  /\ r.writes = q.writes /\ r.reads = q.reads /\ (r.alone <=> q.alone)

(* One field of a request at a time.                                       *)
LEMMA StepField ==
  ASSUME NEW r \in Request, NEW s \in Steps, NEW q, q = [r EXCEPT !.step = s]
  PROVE  /\ q \in Request /\ Same(q, r) /\ q.rest = r.rest
         /\ q.step = s /\ q.data = r.data /\ q.hdr = r.hdr /\ q.kind = r.kind
BY Zenon DEF Request, Same, Steps

LEMMA DataField ==
  ASSUME NEW r \in Request, NEW d \in Contents \cup {Absent}, NEW q,
         q = [r EXCEPT !.data = d]
  PROVE  /\ q \in Request /\ Same(q, r) /\ q.rest = r.rest
         /\ q.step = r.step /\ q.data = d /\ q.hdr = r.hdr /\ q.kind = r.kind
BY Zenon DEF Request, Same

LEMMA HdrField ==
  ASSUME NEW r \in Request, NEW x \in Headers, NEW q, q = [r EXCEPT !.hdr = x]
  PROVE  /\ q \in Request /\ Same(q, r) /\ q.rest = r.rest
         /\ q.step = r.step /\ q.data = r.data /\ q.hdr = x /\ q.kind = r.kind
BY Zenon DEF Request, Same

LEMMA KindField ==
  ASSUME NEW r \in Request, NEW x \in SumKinds, NEW q, q = [r EXCEPT !.kind = x]
  PROVE  /\ q \in Request /\ Same(q, r) /\ q.rest = r.rest
         /\ q.step = r.step /\ q.data = r.data /\ q.hdr = r.hdr /\ q.kind = x
BY Zenon DEF Request, Same

LEMMA RestField ==
  ASSUME NEW r \in Request, NEW x \in Seq(Keys), NEW q, q = [r EXCEPT !.rest = x]
  PROVE  /\ q \in Request /\ Same(q, r) /\ q.rest = x
         /\ q.step = r.step /\ q.data = r.data /\ q.hdr = r.hdr /\ q.kind = r.kind
BY Zenon DEF Request, Same

LEMMA AloneField ==
  ASSUME NEW r \in Request, NEW x \in BOOLEAN, NEW q, q = [r EXCEPT !.alone = x]
  PROVE  /\ q \in Request /\ q.rest = r.rest
         /\ q.op = r.op /\ q.key = r.key /\ q.src = r.src /\ q.id = r.id
         /\ q.writes = r.writes /\ q.reads = r.reads /\ (q.alone <=> x)
         /\ q.step = r.step /\ q.data = r.data /\ q.hdr = r.hdr /\ q.kind = r.kind
BY Zenon DEF Request

LEMMA IdleRequest ==
  /\ Idle \in Request /\ Shape(Idle) /\ Idle.op = "idle"
  /\ Idle.writes = {} /\ Idle.reads = {}
  /\ ~Midway(Idle) /\ \A u : ~Holds(Idle, u)
<1>1. NoHeaders \in Headers
  BY DEF NoHeaders, Headers, Sums
<1>2. Idle \in Request
  BY <1>1 DEF Idle, Request, SumKinds
<1>3. /\ Idle.op = "idle" /\ Idle.step = ""
      /\ Idle.writes = {} /\ Idle.reads = {}
  BY DEF Idle
<1> QED BY <1>2, <1>3, Zenon DEF Shape, Midway, Holds

(* A step of handler h: it changes its own request and the keys it writes. *)
Acts(h) ==
  /\ at' \in [Handlers -> Request]
  /\ \A g \in Handlers : g # h => at'[g] = at[g]
  /\ Shape(at'[h])
  /\ at'[h].writes \subseteq at[h].writes /\ at'[h].reads \subseteq at[h].reads
  /\ at'[h].alone => at[h].alone \/ (at'[h].writes = {} /\ at'[h].reads = {})
  /\ \A k \in Keys : k \notin at[h].writes =>
       names'[k] = names[k] /\ s3meta'[k] = s3meta[k] /\ wrote'[k] = wrote[k]

LEMMA HandlerStep ==
  ASSUME ObjectInv, TypeOK', NEW h \in Handlers, Acts(h),
         \A k \in at[h].writes :
           /\ (\A g \in Handlers : ~(Midway(at'[g]) /\ at'[g].key = k)) => KeptKey(k)'
           /\ s3meta'[k] = NoHeaders => wrote'[k].type = Free /\ wrote'[k].sum = Free,
         at'[h].alone => Knows(at[h])'
  PROVE  ObjectInv'
<1>1. Shapes'
  BY DEF ObjectInv, Shapes, Acts
<1>2. AloneApart'
  <2> SUFFICES ASSUME NEW g \in Handlers, NEW q \in Handlers, at'[q].alone, g # q
               PROVE  ~Conflict(at'[q], at'[g])
    BY DEF AloneApart
  <2>1. CASE q = h
    <3>1. at'[g] = at[g]
      BY <2>1 DEF Acts
    <3>2. CASE at[h].alone
      <4>1. ~Conflict(at[h], at[g])
        BY <2>1, <3>2 DEF ObjectInv, AloneApart
      <4> QED BY <2>1, <3>1, <4>1 DEF Acts, Conflict
    <3>3. CASE at'[h].writes = {} /\ at'[h].reads = {}
      BY <2>1, <3>3 DEF Conflict
    <3> QED BY <2>1, <3>2, <3>3 DEF Acts
  <2>2. CASE q # h
    <3>1. at'[q] = at[q]
      BY <2>2 DEF Acts
    <3>2. ~Conflict(at[q], at[g])
      BY <3>1 DEF ObjectInv, AloneApart
    <3>3. at'[g].writes \subseteq at[g].writes /\ at'[g].reads \subseteq at[g].reads
      BY DEF Acts
    <3> QED BY <3>1, <3>2, <3>3 DEF Conflict
  <2> QED BY <2>1, <2>2
<1>3. \A r : Shape(r) /\ Midway(r) => r.key \in r.writes
  BY DEF Shape, Midway
<1>4. KeysKept'
  <2> SUFFICES ASSUME NEW k \in Keys, \A g \in Handlers : ~(Midway(at'[g]) /\ at'[g].key = k)
               PROVE  KeptKey(k)'
    BY DEF KeysKept
  <2>1. CASE k \in at[h].writes
    BY <2>1
  <2>2. CASE k \notin at[h].writes
    <3>1. \A g \in Handlers : ~(Midway(at[g]) /\ at[g].key = k)
      BY <1>3, <2>2 DEF Acts, ObjectInv, Shapes
    <3>2. KeptKey(k)
      BY <3>1 DEF ObjectInv, KeysKept
    <3>3. names'[k] = names[k] /\ s3meta'[k] = s3meta[k] /\ wrote'[k] = wrote[k]
      BY <2>2 DEF Acts
    <3> QED BY <3>2, <3>3 DEF KeptKey
  <2> QED BY <2>1, <2>2
<1>5. AloneKnows'
  <2> SUFFICES ASSUME NEW g \in Handlers, at'[g].alone, g # h PROVE Knows(at[g])'
    BY DEF AloneKnows
  <2>1. at'[g] = at[g]
    BY DEF Acts
  <2>2. Knows(at[g]) /\ ~Conflict(at[g], at[h]) /\ Shape(at[g])
    BY <2>1 DEF ObjectInv, AloneKnows, AloneApart, Shapes
  <2> DEFINE k == at[g].key
             s == at[g].src
  <2>3. ASSUME at[g].op \in {"put", "copy", "complete"}
        PROVE  names'[k] = names[k] /\ s3meta'[k] = s3meta[k] /\ wrote'[k] = wrote[k]
    <3>1. k \in Keys /\ k \notin at[h].writes
      BY <2>2, <2>3 DEF Shape, Conflict
    <3> QED BY <3>1 DEF Acts
  <2>4. ASSUME at[g].op = "copy"
        PROVE  names'[s] = names[s] /\ s3meta'[s] = s3meta[s] /\ wrote'[s] = wrote[s]
    <3>1. s \in Keys /\ s \notin at[h].writes
      BY <2>2, <2>4 DEF Shape, Conflict
    <3> QED BY <3>1 DEF Acts
  <2>5. Midway(at[g])' <=> Midway(at[g])
    BY <2>1, Zenon DEF Midway
  <2>6. CASE at[g].op = "put"
    BY <2>1, <2>2, <2>3, <2>5, <2>6 DEF Knows
  <2>7. CASE at[g].op = "copy"
    <3>1. at'[g].op = "copy"
      BY <2>1, <2>7, Zenon
    <3>2. Midway(at[g])' => /\ names'[k] = at[g].data
                            /\ wrote'[k].type \in {Free, s3meta'[k].type}
                            /\ wrote'[k].sum \in {Free, s3meta'[k].sum}
      BY <2>2, <2>3, <2>5, <2>7, Zenon DEF Knows
    <3>3. at[g].step # "read" => names'[s] = at[g].data /\ Keeps(wrote'[s], names'[s], s3meta'[s])
      BY <2>2, <2>4, <2>7, Zenon DEF Knows, KeptKey
    <3>4. at[g].step = "meta" => at[g].hdr = s3meta'[s]
      BY <2>2, <2>4, <2>7, Zenon DEF Knows
    <3> QED BY <2>1, <3>1, <3>2, <3>3, <3>4 DEF Knows, KeptKey
  <2>8. CASE at[g].op = "complete"
    <3>1. at'[g].op = "complete"
      BY <2>1, <2>8, Zenon
    <3>2. Midway(at[g])' => /\ wrote'[k].data \in {Free, names'[k]}
                            /\ wrote'[k].type \in {Free, s3meta'[k].type}
                            /\ s3meta'[k].sum = at[g].data
      BY <2>2, <2>3, <2>5, <2>8, Zenon DEF Knows
    <3>3. at[g].step = "merge" => at[g].hdr = [s3meta'[k] EXCEPT !.sum = at[g].data]
      BY <2>2, <2>3, <2>8, Zenon DEF Knows
    <3> QED BY <2>1, <3>1, <3>2, <3>3 DEF Knows
  <2>9. CASE at[g].op \notin {"put", "copy", "complete"}
    BY <2>1, <2>9 DEF Knows
  <2> QED BY <2>6, <2>7, <2>8, <2>9
<1>6. HeadersKept'
  BY DEF ObjectInv, HeadersKept, Acts, NoHeaders
<1> QED BY <1>1, <1>2, <1>4, <1>5, <1>6 DEF ObjectInv

\* Two requests that differ in nothing but whether they met others.
Alike(q, r) ==
  /\ q.op = r.op /\ q.step = r.step /\ q.key = r.key /\ q.src = r.src /\ q.data = r.data
  /\ q.hdr = r.hdr /\ q.id = r.id /\ q.kind = r.kind /\ q.rest = r.rest
  /\ q.writes = r.writes /\ q.reads = r.reads

LEMMA AlikeSame ==
  ASSUME NEW q, NEW r, Alike(q, r)
  PROVE  /\ Shape(q) <=> Shape(r)
         /\ Midway(q) <=> Midway(r)
         /\ Knows(q) <=> Knows(r)
         /\ \A u : Holds(q, u) <=> Holds(r, u)
<1>1. Shape(q) <=> Shape(r)
  BY DEF Alike, Shape
<1>2. Midway(q) <=> Midway(r)
  BY DEF Alike, Midway
<1>3. Knows(q) <=> Knows(r)
  BY <1>2 DEF Alike, Knows
<1>4. \A u : Holds(q, u) <=> Holds(r, u)
  BY DEF Alike, Holds
<1> QED BY <1>1, <1>2, <1>3, <1>4

\* A request just received: nothing of it is done.
Fresh(r) ==
  /\ r \in Request /\ Shape(r) /\ ~Midway(r)
  /\ r.op = "copy" => r.step = "read"
  /\ r.op = "complete" => r.step = "take"

(* A request begins, and those it conflicts with are no longer alone.      *)
LEMMA BeginStep ==
  ASSUME ObjectInv, NEW h \in Handlers, NEW r, Fresh(r), Begin(h, r)
  PROVE  /\ ObjectInv'
         /\ \A g \in Handlers : g # h => Alike(at'[g], at[g])
         /\ \A u : ~Holds(at'[h], u)
<1>1. /\ at[h] = Idle
      /\ requests' \in 0 .. MaxRequests
      /\ UNCHANGED <<names, s3meta, uploads, wrote, acked, made, faults>>
  <2>1. \E n \in {1, 2} : requests + n <= MaxRequests /\ requests' = requests + n
    BY DEF Begin, Admit
  <2>2. requests \in 0 .. MaxRequests
    BY DEF ObjectInv, TypeOK
  <2>3. requests' \in 0 .. MaxRequests
    BY <2>1, <2>2, S3Assumption
  <2> QED BY <2>3 DEF Begin
<1> DEFINE free == \A q \in Handlers : ~Conflict(r, at[q])
           A(g) == at[g].alone /\ ~Conflict(r, at[g])
<1>2. at' = [g \in Handlers |-> IF g = h THEN [r EXCEPT !.alone = free]
                                ELSE [at[g] EXCEPT !.alone = A(g)]]
  BY DEF Begin
<1> HIDE DEF A
<1>3. /\ at'[h] \in Request /\ Alike(at'[h], r)
      /\ at'[h].alone <=> free
  <2>1. at'[h] = [r EXCEPT !.alone = free]
    BY <1>2
  <2>2. free \in BOOLEAN
    OBVIOUS
  <2> HIDE DEF free
  <2> QED BY <2>1, <2>2, AloneField DEF Fresh, Alike
<1>4. ASSUME NEW g \in Handlers, g # h
      PROVE  /\ at'[g] \in Request /\ Alike(at'[g], at[g])
             /\ at'[g].alone <=> A(g)
  <2>1. at'[g] = [at[g] EXCEPT !.alone = A(g)]
    BY <1>2, <1>4
  <2>2. A(g) \in BOOLEAN /\ at[g] \in Request
    BY DEF A, ObjectInv, TypeOK
  <2> QED BY <2>1, <2>2, AloneField DEF Alike
<1>5. TypeOK'
  <2>1. at' = [g \in Handlers |-> at'[g]]
    BY <1>2
  <2>2. at' \in [Handlers -> Request]
    BY <1>3, <1>4, <2>1
  <2> QED BY <1>1, <2>2 DEF ObjectInv, TypeOK
<1>6. Shapes'
  BY <1>3, <1>4, AlikeSame DEF Fresh, ObjectInv, Shapes
<1>7. AloneApart'
  <2> SUFFICES ASSUME NEW g \in Handlers, NEW q \in Handlers, at'[q].alone, g # q
               PROVE  ~Conflict(at'[q], at'[g])
    BY DEF AloneApart
  <2>1. CASE q = h
    BY <1>3, <1>4, <2>1 DEF Alike, Conflict
  <2>2. CASE q # h /\ g = h
    BY <1>3, <1>4, <2>2 DEF Alike, A, Conflict
  <2>3. CASE q # h /\ g # h
    <3>1. ~Conflict(at[q], at[g])
      BY <1>4, <2>3 DEF A, ObjectInv, AloneApart
    <3> QED BY <1>4, <2>3, <3>1 DEF Alike, Conflict
  <2> QED BY <2>1, <2>2, <2>3
<1>8. KeysKept'
  <2>1. \A g \in Handlers : Midway(at[g]) => Midway(at'[g]) /\ at'[g].key = at[g].key
    BY <1>1, <1>4, AlikeSame, IdleRequest DEF Alike
  <2>2. \A k \in Keys : KeptKey(k)' <=> KeptKey(k)
    BY <1>1 DEF KeptKey
  <2> QED BY <2>1, <2>2 DEF ObjectInv, KeysKept, Midway
<1>9. AloneKnows'
  <2>1. \A g \in Handlers : Knows(at[g])' <=> Knows(at'[g])
    BY <1>1 DEF Knows, KeptKey, Midway
  <2>2. Knows(at'[h])
    <3>1. Knows(r)
      BY DEF Fresh, Knows
    <3> QED BY <1>3, <3>1, AlikeSame
  <2>3. \A g \in Handlers : g # h /\ at'[g].alone => Knows(at'[g])
    BY <1>4, AlikeSame DEF A, ObjectInv, AloneKnows
  <2> QED BY <2>1, <2>2, <2>3 DEF AloneKnows
<1>10. HeadersKept'
  BY <1>1 DEF ObjectInv, HeadersKept, NoHeaders
<1>11. \A u : ~Holds(at'[h], u)
  BY <1>3 DEF Alike, Fresh, Holds
<1> QED BY <1>4, <1>5, <1>6, <1>7, <1>8, <1>9, <1>10, <1>11 DEF ObjectInv

(* The requests the node receives are fresh ones.                          *)
LEMMA AnyField ==
  ASSUME NEW r \in Request
  PROVE  /\ \A x \in {"put", "get", "delete", "copy", "batch", "complete"} :
              [r EXCEPT !.op = x] \in Request
         /\ \A x \in Steps : [r EXCEPT !.step = x] \in Request
         /\ \A x \in Keys : [r EXCEPT !.key = x] \in Request
         /\ \A x \in Keys : [r EXCEPT !.src = x] \in Request
         /\ \A x \in Ids : [r EXCEPT !.id = x] \in Request
         /\ \A x \in SUBSET Keys : [r EXCEPT !.writes = x] \in Request
         /\ \A x \in SUBSET Keys : [r EXCEPT !.reads = x] \in Request
<1>1. \A x \in {"put", "get", "delete", "copy", "batch", "complete"} :
        [r EXCEPT !.op = x] \in Request
  BY Zenon DEF Request
<1>2. \A x \in Steps : [r EXCEPT !.step = x] \in Request
  BY Zenon DEF Request, Steps
<1>3. \A x \in Keys : [r EXCEPT !.key = x] \in Request
  BY Zenon DEF Request
<1>4. \A x \in Keys : [r EXCEPT !.src = x] \in Request
  BY Zenon DEF Request
<1>5. \A x \in Ids : [r EXCEPT !.id = x] \in Request
  BY Zenon DEF Request
<1>6. \A x \in SUBSET Keys : [r EXCEPT !.writes = x] \in Request
  BY Zenon DEF Request
<1>7. \A x \in SUBSET Keys : [r EXCEPT !.reads = x] \in Request
  BY Zenon DEF Request
<1> QED BY <1>1, <1>2, <1>3, <1>4, <1>5, <1>6, <1>7

LEMMA PutFresh ==
  ASSUME NEW k \in Keys, NEW b \in Bodies, NEW t \in Types \cup {Absent},
         NEW kind \in {"none", "right", "wrong"}, NEW r,
         r = [Idle EXCEPT !.op = "put", !.step = "check", !.key = k, !.data = <<b>>,
                             !.hdr = [type |-> t, sum |-> SumOf(kind, <<b>>)],
                             !.writes = {k}]
  PROVE  Fresh(r)
<1> DEFINE d == <<b>>
           hdr == [type |-> t, sum |-> SumOf(kind, d)]
<1>1. d \in Contents
  <2>1. <<b>> \in [1 .. 1 -> Bodies]
    OBVIOUS
  <2> QED BY <2>1 DEF Contents
<1>2. hdr \in Headers
  BY <1>1 DEF Headers, Sums, SumOf
<1>3. r = [Idle EXCEPT !.op = "put", !.step = "check", !.key = k, !.data = d,
                          !.hdr = hdr, !.writes = {k}]
  OBVIOUS
<1> HIDE DEF d, hdr
<1> DEFINE r1 == [Idle EXCEPT !.op = "put"]
           r2 == [r1 EXCEPT !.step = "check"]
           r3 == [r2 EXCEPT !.key = k]
           r4 == [r3 EXCEPT !.data = d]
           r5 == [r4 EXCEPT !.hdr = hdr]
           r6 == [r5 EXCEPT !.writes = {k}]
<1>4. r6 = r
  BY <1>3
<1>5. r1 \in Request
  BY IdleRequest, AnyField, Zenon
<1> HIDE DEF r1
<1>6. r2 \in Request
  BY <1>5, AnyField, Zenon DEF Steps
<1> HIDE DEF r2
<1>7. r3 \in Request
  BY <1>6, AnyField, Zenon
<1> HIDE DEF r3
<1>8. r4 \in Request
  BY <1>1, <1>7, DataField
<1> HIDE DEF r4
<1>9. r5 \in Request
  BY <1>2, <1>8, HdrField
<1> HIDE DEF r5
<1>10. r6 \in Request
  BY <1>9, AnyField, Zenon
<1>11. r.op = "put" /\ r.step = "check" /\ r.key = k /\ r.data = d /\ r.writes = {k}
  BY <1>3, Zenon DEF Idle
<1> QED BY <1>1, <1>4, <1>10, <1>11 DEF Fresh, Shape, Midway

LEMMA ReadFresh ==
  ASSUME NEW k \in Keys
  PROVE  Fresh(ReadOf(k))
<1> DEFINE r == ReadOf(k)
           r1 == [Idle EXCEPT !.op = "get"]
           r2 == [r1 EXCEPT !.step = "read"]
           r3 == [r2 EXCEPT !.src = k]
           r4 == [r3 EXCEPT !.reads = {k}]
<1>1. r4 = r
  BY DEF ReadOf
<1>2. r1 \in Request
  BY IdleRequest, AnyField, Zenon
<1> HIDE DEF r1
<1>3. r2 \in Request
  BY <1>2, AnyField, Zenon DEF Steps
<1> HIDE DEF r2
<1>4. r3 \in Request
  BY <1>3, AnyField, Zenon
<1> HIDE DEF r3
<1>5. r4 \in Request
  BY <1>4, AnyField, Zenon
<1>6. /\ r.op = "get" /\ r.step = "read" /\ r.src = k /\ r.reads = {k} /\ r.writes = {}
  BY DEF Idle, ReadOf
<1> HIDE DEF r
<1> QED BY <1>1, <1>5, <1>6 DEF Fresh, Shape, Midway, r

LEMMA DeleteFresh ==
  ASSUME NEW op \in {"delete", "batch"}, NEW ks \in Seq(Keys), Len(ks) > 0,
         NEW w \in SUBSET Keys, \A i \in DOMAIN ks : ks[i] \in w, NEW r,
         r = [Idle EXCEPT !.op = op, !.step = "lease", !.rest = ks, !.writes = w]
  PROVE  Fresh(r)
<1> DEFINE r1 == [Idle EXCEPT !.op = op]
           r2 == [r1 EXCEPT !.step = "lease"]
           r3 == [r2 EXCEPT !.rest = ks]
           r4 == [r3 EXCEPT !.writes = w]
<1>1. r4 = r
  OBVIOUS
<1>2. r1 \in Request
  BY IdleRequest, AnyField, Zenon
<1> HIDE DEF r1
<1>3. r2 \in Request
  BY <1>2, AnyField, Zenon DEF Steps
<1> HIDE DEF r2
<1>4. r3 \in Request
  BY <1>3, RestField
<1> HIDE DEF r3
<1>5. r4 \in Request
  BY <1>4, AnyField, Zenon
<1>6. r.op = op /\ r.step = "lease" /\ r.rest = ks /\ r.writes = w
  BY DEF Idle
<1> QED BY <1>1, <1>5, <1>6 DEF Fresh, Shape, Midway

LEMMA CopyFresh ==
  ASSUME NEW s \in Keys, NEW k \in Keys, NEW r,
         r = [Idle EXCEPT !.op = "copy", !.step = "read", !.src = s, !.key = k,
                          !.writes = {k}, !.reads = {s}]
  PROVE  Fresh(r)
<1> DEFINE r1 == [Idle EXCEPT !.op = "copy"]
           r2 == [r1 EXCEPT !.step = "read"]
           r3 == [r2 EXCEPT !.src = s]
           r4 == [r3 EXCEPT !.key = k]
           r5 == [r4 EXCEPT !.writes = {k}]
           r6 == [r5 EXCEPT !.reads = {s}]
<1>1. r6 = r
  OBVIOUS
<1>2. r1 \in Request
  BY IdleRequest, AnyField, Zenon
<1> HIDE DEF r1
<1>3. r2 \in Request
  BY <1>2, AnyField, Zenon DEF Steps
<1> HIDE DEF r2
<1>4. r3 \in Request
  BY <1>3, AnyField, Zenon
<1> HIDE DEF r3
<1>5. r4 \in Request
  BY <1>4, AnyField, Zenon
<1> HIDE DEF r4
<1>6. r5 \in Request
  BY <1>5, AnyField, Zenon
<1> HIDE DEF r5
<1>7. r6 \in Request
  BY <1>6, AnyField, Zenon
<1>8. /\ r.op = "copy" /\ r.step = "read" /\ r.src = s /\ r.key = k
      /\ r.writes = {k} /\ r.reads = {s}
  BY DEF Idle
<1> QED BY <1>1, <1>7, <1>8 DEF Fresh, Shape, Midway

LEMMA CompleteFresh ==
  ASSUME NEW u \in Ids, NEW kind \in SumKinds, NEW k \in Keys, NEW r,
         r = [Idle EXCEPT !.op = "complete", !.step = "take", !.id = u, !.kind = kind,
                          !.key = k, !.writes = {k}]
  PROVE  Fresh(r)
<1> DEFINE r1 == [Idle EXCEPT !.op = "complete"]
           r2 == [r1 EXCEPT !.step = "take"]
           r3 == [r2 EXCEPT !.id = u]
           r4 == [r3 EXCEPT !.kind = kind]
           r5 == [r4 EXCEPT !.key = k]
           r6 == [r5 EXCEPT !.writes = {k}]
<1>1. r6 = r
  OBVIOUS
<1>2. r1 \in Request
  BY IdleRequest, AnyField, Zenon
<1> HIDE DEF r1
<1>3. r2 \in Request
  BY <1>2, AnyField, Zenon DEF Steps
<1> HIDE DEF r2
<1>4. r3 \in Request
  BY <1>3, AnyField, Zenon
<1> HIDE DEF r3
<1>5. r4 \in Request
  BY <1>4, KindField
<1> HIDE DEF r4
<1>6. r5 \in Request
  BY <1>5, AnyField, Zenon
<1> HIDE DEF r5
<1>7. r6 \in Request
  BY <1>6, AnyField, Zenon
<1>8. /\ r.op = "complete" /\ r.step = "take" /\ r.id = u /\ r.key = k /\ r.writes = {k}
  BY DEF Idle
<1> QED BY <1>1, <1>7, <1>8 DEF Fresh, Shape, Midway

\* The state that is not about what the keys show.
Counted ==
  /\ uploads \in [Ids -> [state : {"unused", "open", "closed"}, key : Keys \cup {Absent},
                          parts : PartSeqs]]
  /\ acked \in [Ids -> PartSeqs]
  /\ made \in [Ids -> Seq(Contents)]
  /\ requests \in 0 .. MaxRequests
  /\ faults \in 0 .. MaxFaults

(* Handler h goes on with request r, or has answered (r is Idle).          *)
Onto(h, r) ==
  /\ at' = [at EXCEPT ![h] = r]
  /\ r \in Request /\ Shape(r)
  /\ r = Idle \/ Same(r, at[h])

LEMMA OntoActs ==
  ASSUME ObjectInv, NEW h \in Handlers, NEW r, Onto(h, r),
         \A k \in Keys : k \notin at[h].writes =>
           names'[k] = names[k] /\ s3meta'[k] = s3meta[k] /\ wrote'[k] = wrote[k]
  PROVE  /\ Acts(h) /\ at'[h] = r
         /\ \A g \in Handlers : g # h => at'[g] = at[g]
<1>1. at' \in [Handlers -> Request]
  BY DEF Onto, ObjectInv, TypeOK
<1>2. at'[h] = r /\ \A g \in Handlers : g # h => at'[g] = at[g]
  BY DEF Onto, ObjectInv, TypeOK
<1>3. /\ r.writes \subseteq at[h].writes /\ r.reads \subseteq at[h].reads
      /\ r.alone => at[h].alone \/ (r.writes = {} /\ r.reads = {})
  BY IdleRequest DEF Onto, Same
<1> QED BY <1>1, <1>2, <1>3 DEF Acts, Onto

LEMMA StepOnto ==
  ASSUME ObjectInv, NEW h \in Handlers, NEW s \in Steps, Goto(h, s), Shape([at[h] EXCEPT !.step = s])
  PROVE  Onto(h, [at[h] EXCEPT !.step = s])
<1>1. at[h] \in Request
  BY DEF ObjectInv, TypeOK
<1>2. at' = [at EXCEPT ![h] = [at[h] EXCEPT !.step = s]]
  BY DEF Goto
<1> QED BY <1>1, <1>2, StepField DEF Onto

LEMMA EndOnto ==
  ASSUME NEW h \in Handlers, End(h)
  PROVE  Onto(h, Idle)
BY IdleRequest DEF End, Onto

(* A request that runs alone finds the keys it works on whole.             *)
LEMMA AloneKept ==
  ASSUME ObjectInv, NEW h \in Handlers, at[h].alone, ~Midway(at[h]),
         NEW k \in at[h].writes \cup at[h].reads
  PROVE  k \in Keys /\ KeptKey(k)
<1>1. k \in Keys
  BY Zenon DEF ObjectInv, TypeOK, Request
<1>2. ASSUME NEW g \in Handlers, Midway(at[g]), at[g].key = k PROVE FALSE
  <2>1. g # h /\ k \in at[g].writes
    BY <1>2 DEF ObjectInv, Shapes, Shape, Midway
  <2> QED BY <2>1 DEF ObjectInv, AloneApart, Conflict
<1> QED BY <1>1, <1>2 DEF ObjectInv, KeysKept

(* A step that changes nothing but its request.                            *)
LEMMA LooksStep ==
  ASSUME ObjectInv, NEW h \in Handlers, NEW r, Onto(h, r),
         UNCHANGED <<names, s3meta, wrote>>, Counted',
         Midway(at[h]) => Midway(r) /\ r.key = at[h].key,
         r.alone => Knows(r)
  PROVE  ObjectInv'
<1>1. /\ Acts(h) /\ at'[h] = r
      /\ \A g \in Handlers : g # h => at'[g] = at[g]
  BY OntoActs
<1>2. TypeOK'
  BY <1>1 DEF Acts, Counted, ObjectInv, TypeOK
<1>3. \A k \in at[h].writes : k \in Keys
  BY Zenon DEF ObjectInv, TypeOK, Request
<1>4. \A k \in Keys : KeptKey(k)' <=> KeptKey(k)
  BY DEF KeptKey
<1>5. \A k \in at[h].writes :
        (\A g \in Handlers : ~(Midway(at'[g]) /\ at'[g].key = k)) => KeptKey(k)'
  <2> SUFFICES ASSUME NEW k \in at[h].writes,
                      \A g \in Handlers : ~(Midway(at'[g]) /\ at'[g].key = k)
               PROVE  KeptKey(k)
    BY <1>3, <1>4
  <2>1. \A g \in Handlers : ~(Midway(at[g]) /\ at[g].key = k)
    BY <1>1
  <2> QED BY <1>3, <2>1 DEF ObjectInv, KeysKept
<1>6. \A k \in at[h].writes :
        s3meta'[k] = NoHeaders => wrote'[k].type = Free /\ wrote'[k].sum = Free
  BY <1>3 DEF ObjectInv, HeadersKept
<1>7. Knows(at[h])' <=> Knows(r)
  BY <1>1 DEF Knows, Midway, KeptKey
<1> QED BY <1>1, <1>2, <1>5, <1>6, <1>7, HandlerStep

(* A step that says what its key k shows from now on.                      *)
LEMMA PromiseStep ==
  ASSUME ObjectInv, NEW h \in Handlers, NEW r, Onto(h, r), ~Midway(r),
         r.op \notin {"put", "copy", "complete"},
         NEW k \in at[h].writes, Midway(at[h]) => at[h].key = k,
         NEW p, Promise(h, k, p), TypeOK',
         \A j \in Keys : j # k => names'[j] = names[j] /\ s3meta'[j] = s3meta[j],
         at[h].alone =>
           /\ Keeps(p, names'[k], s3meta'[k])
           /\ s3meta'[k] = NoHeaders => p.type = Free /\ p.sum = Free
  PROVE  ObjectInv'
<1>1. \A j \in at[h].writes : j \in Keys
  BY Zenon DEF ObjectInv, TypeOK, Request
<1>2. /\ wrote'[k] = IF at[h].alone THEN p ELSE Unpromised
      /\ \A j \in Keys : j # k => wrote'[j] = wrote[j]
  BY <1>1 DEF Promise, ObjectInv, TypeOK
<1>3. /\ Acts(h) /\ at'[h] = r
      /\ \A g \in Handlers : g # h => at'[g] = at[g]
  BY <1>2, OntoActs
<1>4. /\ KeptKey(k)'
      /\ s3meta'[k] = NoHeaders => wrote'[k].type = Free /\ wrote'[k].sum = Free
  BY <1>2 DEF KeptKey, Keeps, Unpromised
<1>5. ASSUME NEW j \in at[h].writes, j # k
      PROVE  /\ (\A g \in Handlers : ~(Midway(at'[g]) /\ at'[g].key = j)) => KeptKey(j)'
             /\ s3meta'[j] = NoHeaders => wrote'[j].type = Free /\ wrote'[j].sum = Free
  <2>1. names'[j] = names[j] /\ s3meta'[j] = s3meta[j] /\ wrote'[j] = wrote[j] /\ j \in Keys
    BY <1>1, <1>2, <1>5
  <2>2. ASSUME \A g \in Handlers : ~(Midway(at'[g]) /\ at'[g].key = j) PROVE KeptKey(j)'
    <3>1. \A g \in Handlers : ~(Midway(at[g]) /\ at[g].key = j)
      BY <1>3, <1>5, <2>2
    <3>2. KeptKey(j)
      BY <2>1, <3>1 DEF ObjectInv, KeysKept
    <3> QED BY <2>1, <3>2 DEF KeptKey
  <2> QED BY <2>1, <2>2 DEF ObjectInv, HeadersKept
<1>6. Knows(at[h])'
  BY <1>3 DEF Knows
<1>7. \A j \in at[h].writes :
        /\ (\A g \in Handlers : ~(Midway(at'[g]) /\ at'[g].key = j)) => KeptKey(j)'
        /\ s3meta'[j] = NoHeaders => wrote'[j].type = Free /\ wrote'[j].sum = Free
  BY <1>4, <1>5
<1> QED BY <1>3, <1>6, <1>7, HandlerStep

Promises == [data : Contents \cup {Absent, Free}, type : Types \cup {Absent, Free},
             sum : Sums \cup {Free}]

LEMMA PromiseType ==
  ASSUME ObjectInv, NEW h \in Handlers, NEW k \in Keys, NEW p \in Promises, Promise(h, k, p)
  PROVE  wrote' \in [Keys -> Promises]
BY DEF Promise, Unpromised, Promises, ObjectInv, TypeOK

(* A request that is refused before it changed anything.                   *)
LEMMA RefusedStep ==
  ASSUME ObjectInv, NEW h \in Handlers, NEW r, Onto(h, r), ~Midway(at[h]), ~Midway(r),
         r.op \notin {"put", "copy", "complete"},
         NEW k \in at[h].writes, Promise(h, k, wrote[k]),
         UNCHANGED <<names, s3meta>>, Counted'
  PROVE  ObjectInv'
<1>1. k \in Keys
  BY Zenon DEF ObjectInv, TypeOK, Request
<1>2. wrote' \in [Keys -> Promises]
  BY <1>1, PromiseType DEF Promises, ObjectInv, TypeOK
<1>3. at' \in [Handlers -> Request]
  BY DEF Onto, ObjectInv, TypeOK
<1>4. TypeOK'
  BY <1>2, <1>3 DEF Counted, Promises, ObjectInv, TypeOK
<1>5. at[h].alone => /\ Keeps(wrote[k], names'[k], s3meta'[k])
                     /\ s3meta'[k] = NoHeaders => wrote[k].type = Free /\ wrote[k].sum = Free
  BY <1>1, AloneKept DEF KeptKey, ObjectInv, HeadersKept
<1> QED BY <1>4, <1>5, PromiseStep

(* The steps of the requests, for what the keys show.                      *)
LEMMA CountedNow ==
  ASSUME ObjectInv
  PROVE  /\ UNCHANGED <<uploads, acked, made, requests, faults>> => Counted'
         /\ UNCHANGED <<uploads, acked, made, requests>> /\ (NoFault \/ Fault) => Counted'
<1>1. Counted
  BY DEF ObjectInv, TypeOK, Counted
<1>2. (NoFault \/ Fault) => faults' \in 0 .. MaxFaults
  <2>1. faults \in 0 .. MaxFaults
    BY <1>1 DEF Counted
  <2> QED BY <2>1, S3Assumption DEF NoFault, Fault
<1> QED BY <1>1, <1>2 DEF Counted

LEMMA CheckDedupStep ==
  ASSUME ObjectInv, NEW h \in Handlers, CheckDedup(h)
  PROVE  ObjectInv'
<1> DEFINE x == IF names[at[h].key] = at[h].data THEN "right" ELSE "none"
           q == [at[h] EXCEPT !.step = "put"]
           r == [q EXCEPT !.kind = x]
<1>1. at[h] \in Request /\ Shape(at[h]) /\ at[h].op = "put" /\ at[h].step = "check"
  BY DEF ObjectInv, TypeOK, Shapes, CheckDedup, Doing
<1>2. at' = [at EXCEPT ![h] = r]
  BY DEF CheckDedup, Continue
<1>3. x \in SumKinds
  <2>1. x = "right" \/ x = "none"
    OBVIOUS
  <2> HIDE DEF x
  <2> QED BY <2>1 DEF SumKinds
<1> HIDE DEF x
<1>4. /\ q \in Request /\ Same(q, at[h]) /\ q.step = "put" /\ q.data = at[h].data
  <2>1. "put" \in Steps
    BY DEF Steps
  <2> QED BY <1>1, <2>1, StepField
<1> HIDE DEF q
<1>5. r \in Request /\ Same(r, q) /\ r.step = "put" /\ r.data = at[h].data
  BY <1>3, <1>4, KindField
<1> HIDE DEF r
<1>6. Same(r, at[h])
  BY <1>4, <1>5, Zenon DEF Same
<1>7. Onto(h, r)
  BY <1>1, <1>2, <1>5, <1>6 DEF Onto, Shape, Same
<1>8. ~Midway(at[h]) /\ Knows(r)
  BY <1>1, <1>5, <1>6, Zenon DEF Midway, Knows, Same
<1> QED BY <1>7, <1>8, LooksStep, CountedNow DEF CheckDedup

LEMMA PutContentStep ==
  ASSUME ObjectInv, NEW h \in Handlers, PutContent(h)
  PROVE  ObjectInv'
<1> DEFINE k == at[h].key
           s == IF at[h].kind = "right" THEN "meta" ELSE "verify"
           r == [at[h] EXCEPT !.step = s]
<1>1. /\ at[h] \in Request /\ Shape(at[h]) /\ at[h].op = "put" /\ at[h].step = "put"
      /\ k \in Keys /\ at[h].writes = {k} /\ at[h].data \in Contents
  BY DEF ObjectInv, TypeOK, Shapes, PutContent, Doing, Shape
<1>2. ~Midway(at[h])
  BY <1>1 DEF Midway
<1>3. at[h].alone => KeptKey(k)
  BY <1>1, <1>2, AloneKept
<1>4. Counted'
  BY CountedNow DEF PutContent
<1>5. CASE NoFault /\ Put(k, at[h].data) /\ NoPromise /\ Goto(h, s)
  <2>1. s \in Steps
    BY DEF Steps
  <2>2. /\ r \in Request /\ Same(r, at[h]) /\ r.step = s /\ r.data = at[h].data
    BY <1>1, <2>1, StepField
  <2>3. Shape(r) /\ Midway(r) /\ r.key = k /\ r.op = "put"
    BY <1>1, <2>2 DEF Shape, Same, Midway
  <2>4. Onto(h, r)
    BY <1>5, <2>1, <2>3, StepOnto, Zenon
  <2> HIDE DEF r
  <2>5. /\ names' \in [Keys -> Contents \cup {Absent}] /\ names'[k] = at[h].data
        /\ \A j \in Keys : j # k => names'[j] = names[j]
    BY <1>1, <1>5 DEF Put, ObjectInv, TypeOK
  <2>6. UNCHANGED <<s3meta, wrote>>
    BY <1>5 DEF PutContent, NoPromise
  <2>7. /\ Acts(h) /\ at'[h] = r
    BY <1>1, <2>4, <2>5, <2>6, OntoActs, ZenonT(30)
  <2>8. TypeOK'
    BY <1>4, <2>5, <2>6, <2>7, Zenon DEF Acts, Counted, ObjectInv, TypeOK
  <2>9. at'[h].alone => Knows(at[h])'
    <3>1. at'[h].alone => KeptKey(k)
      BY <1>3, <2>2, <2>7 DEF Same
    <3> QED BY <2>2, <2>3, <2>5, <2>6, <2>7, <3>1, Zenon DEF Knows, Midway, KeptKey, Keeps
  <2>10. ~(\A g \in Handlers : ~(Midway(at'[g]) /\ at'[g].key = k))
    BY <2>3, <2>7
  <2>11. s3meta'[k] = NoHeaders => wrote'[k].type = Free /\ wrote'[k].sum = Free
    BY <1>1, <2>6, Zenon DEF ObjectInv, HeadersKept
  <2> QED BY <1>1, <2>7, <2>8, <2>9, <2>10, <2>11, HandlerStep
<1>6. CASE Fault /\ Promise(h, k, wrote[k]) /\ End(h) /\ UNCHANGED names
  <2>1. UNCHANGED <<names, s3meta>>
    BY <1>6 DEF PutContent
  <2>2. Onto(h, Idle)
    BY <1>6, EndOnto
  <2> QED BY <1>1, <1>2, <1>4, <1>6, <2>1, <2>2, IdleRequest, RefusedStep, Zenon
<1> QED BY <1>5, <1>6, Zenon DEF PutContent

LEMMA VerifyChecksumStep ==
  ASSUME ObjectInv, NEW h \in Handlers, VerifyChecksum(h)
  PROVE  ObjectInv'
<1> DEFINE k == at[h].key
           r == [at[h] EXCEPT !.step = "meta"]
           p == [wrote[k] EXCEPT !.data = Absent]
<1>1. /\ at[h] \in Request /\ Shape(at[h]) /\ at[h].op = "put" /\ at[h].step = "verify"
      /\ k \in Keys /\ at[h].writes = {k} /\ at[h].data \in Contents
  BY DEF ObjectInv, TypeOK, Shapes, VerifyChecksum, Doing, Shape
<1>2. Midway(at[h])
  BY <1>1 DEF Midway
<1>3. Counted'
  BY CountedNow DEF VerifyChecksum
<1>4. at[h].alone => Knows(at[h])
  BY DEF ObjectInv, AloneKnows
<1>5. CASE Goto(h, "meta") /\ UNCHANGED <<names, wrote>>
  <2>1. "meta" \in Steps
    BY DEF Steps
  <2>2. /\ r \in Request /\ Same(r, at[h]) /\ r.step = "meta" /\ r.data = at[h].data
    BY <1>1, <2>1, StepField
  <2>3. Shape(r) /\ Midway(r) /\ r.key = k /\ r.op = "put"
    BY <1>1, <2>2 DEF Shape, Same, Midway
  <2>4. Onto(h, r)
    BY <1>5, <2>1, <2>3, StepOnto, Zenon
  <2> HIDE DEF r
  <2>5. r.alone => Knows(r)
    BY <1>1, <1>2, <1>4, <2>2, <2>3, Zenon DEF Knows, Same
  <2> QED BY <1>3, <1>5, <2>3, <2>4, <2>5, LooksStep DEF VerifyChecksum
<1>6. CASE Delete(k) /\ Promise(h, k, p) /\ End(h)
  <2>1. Onto(h, Idle) /\ UNCHANGED s3meta
    BY <1>6, EndOnto DEF VerifyChecksum
  <2>2. /\ p \in Promises /\ p.data = Absent
        /\ p.type = wrote[k].type /\ p.sum = wrote[k].sum
    BY <1>1, Zenon DEF Promises, ObjectInv, TypeOK
  <2> HIDE DEF p
  <2>3. /\ names' \in [Keys -> Contents \cup {Absent}] /\ names'[k] = Absent
        /\ \A j \in Keys : j # k => names'[j] = names[j]
    BY <1>1, <1>6 DEF Delete, ObjectInv, TypeOK
  <2>4. wrote' \in [Keys -> Promises]
    BY <1>1, <1>6, <2>2, PromiseType
  <2>5. at' \in [Handlers -> Request]
    BY <2>1 DEF Onto, ObjectInv, TypeOK
  <2>6. TypeOK'
    BY <1>3, <2>1, <2>3, <2>4, <2>5, Zenon DEF Counted, Promises, ObjectInv, TypeOK
  <2>7. at[h].alone => /\ Keeps(p, names'[k], s3meta'[k])
                       /\ s3meta'[k] = NoHeaders => p.type = Free /\ p.sum = Free
    BY <1>1, <1>2, <1>4, <2>1, <2>2, <2>3, Zenon DEF Keeps, Knows, ObjectInv, HeadersKept
  <2> QED BY <1>1, <1>6, <2>1, <2>3, <2>6, <2>7, IdleRequest, PromiseStep
<1> QED BY <1>5, <1>6, Zenon DEF VerifyChecksum

(* The headers after PutS3Meta, and what may be promised of them.          *)
LEMMA HeadersPut ==
  ASSUME ObjectInv, NEW k \in Keys, NEW x \in Headers, PutS3Meta(k, x)
  PROVE  /\ s3meta' \in [Keys -> Headers]
         /\ \A j \in Keys : j # k => s3meta'[j] = s3meta[j]
         /\ s3meta'[k] = IF x = NoHeaders THEN s3meta[k] ELSE x
BY DEF PutS3Meta, ObjectInv, TypeOK

LEMMA PersistS3MetaStep ==
  ASSUME ObjectInv, NEW h \in Handlers, PersistS3Meta(h)
  PROVE  ObjectInv'
<1> DEFINE k == at[h].key
           d == at[h].data
           x == at[h].hdr
           w == [wrote[k] EXCEPT !.data = d]
           n == [data |-> d, type |-> x.type, sum |-> x.sum]
<1>1. /\ at[h] \in Request /\ Shape(at[h]) /\ at[h].op = "put" /\ at[h].step = "meta"
      /\ k \in Keys /\ at[h].writes = {k} /\ d \in Contents
  BY DEF ObjectInv, TypeOK, Shapes, PersistS3Meta, Doing, Shape
<1>2. Midway(at[h])
  BY <1>1 DEF Midway
<1>3. Counted'
  BY CountedNow DEF PersistS3Meta
<1>4. at[h].alone =>
        /\ names[k] = d
        /\ wrote[k].type \in {Free, s3meta[k].type} /\ wrote[k].sum \in {Free, s3meta[k].sum}
  BY <1>1, <1>2, Zenon DEF ObjectInv, AloneKnows, Knows
<1>5. Onto(h, Idle) /\ UNCHANGED names
  BY EndOnto DEF PersistS3Meta
<1>6. x \in Headers
  BY <1>1, Zenon DEF Request
<1>7. /\ w \in Promises /\ w.data = d /\ w.type = wrote[k].type /\ w.sum = wrote[k].sum
  BY <1>1, Zenon DEF Promises, ObjectInv, TypeOK
<1>8. n \in Promises /\ n.data = d /\ n.type = x.type /\ n.sum = x.sum
  BY <1>1, <1>6 DEF Promises, Headers
<1> HIDE DEF w, n
<1>9. \E p \in {w, n} :
        /\ Promise(h, k, p) /\ s3meta' \in [Keys -> Headers]
        /\ \A j \in Keys : j # k => s3meta'[j] = s3meta[j]
        /\ \/ p = w /\ s3meta'[k] = s3meta[k]
           \/ p = n /\ x # NoHeaders /\ s3meta'[k] = x
  <2>1. CASE PutS3Meta(k, x) /\ Promise(h, k, Promised(k, d, x))
    <3>1. CASE x = NoHeaders
      <4>1. Promise(h, k, w)
        BY <2>1, <3>1 DEF Promised, w
      <4> QED BY <1>1, <1>6, <2>1, <3>1, <4>1, HeadersPut
    <3>2. CASE x # NoHeaders
      <4>1. Promise(h, k, n)
        BY <2>1, <3>2 DEF Promised, n
      <4> QED BY <1>1, <1>6, <2>1, <3>2, <4>1, HeadersPut
    <3> QED BY <3>1, <3>2
  <2>2. CASE UNCHANGED s3meta /\ Promise(h, k, w)
    BY <2>2 DEF ObjectInv, TypeOK
  <2> QED BY <2>1, <2>2 DEF PersistS3Meta, w
<1>10. PICK p \in {w, n} :
        /\ Promise(h, k, p) /\ s3meta' \in [Keys -> Headers]
        /\ \A j \in Keys : j # k => s3meta'[j] = s3meta[j]
        /\ \/ p = w /\ s3meta'[k] = s3meta[k]
           \/ p = n /\ x # NoHeaders /\ s3meta'[k] = x
  BY <1>9
<1>11. wrote' \in [Keys -> Promises]
  BY <1>1, <1>7, <1>8, <1>10, PromiseType
<1>12. at' \in [Handlers -> Request]
  BY <1>5 DEF Onto, ObjectInv, TypeOK
<1>13. TypeOK'
  BY <1>3, <1>5, <1>10, <1>11, <1>12, Zenon DEF Counted, Promises, ObjectInv, TypeOK
<1>14. at[h].alone => /\ Keeps(p, names'[k], s3meta'[k])
                      /\ s3meta'[k] = NoHeaders => p.type = Free /\ p.sum = Free
  BY <1>1, <1>4, <1>5, <1>7, <1>8, <1>10 DEF Keeps, ObjectInv, HeadersKept
<1> QED BY <1>1, <1>5, <1>10, <1>13, <1>14, IdleRequest, PromiseStep, Zenon

(* Request a went to step s, with a content, headers and a comparison.     *)
Became(r, a, s, d, x, kind) ==
  r \in Request /\ Same(r, a) /\ r.step = s /\ r.data = d /\ r.hdr = x /\ r.kind = kind

LEMMA StepAndData ==
  ASSUME NEW a \in Request, NEW s \in Steps, NEW d \in Contents
  PROVE  Became([a EXCEPT !.step = s, !.data = d], a, s, d, a.hdr, a.kind)
<1> DEFINE q == [a EXCEPT !.step = s]
           r == [q EXCEPT !.data = d]
<1>1. q \in Request /\ Same(q, a) /\ q.step = s /\ q.data = a.data /\ q.hdr = a.hdr /\ q.kind = a.kind
  BY StepField
<1> HIDE DEF q
<1>2. r \in Request /\ Same(r, q) /\ r.step = s /\ r.data = d /\ r.hdr = a.hdr /\ r.kind = a.kind
  BY <1>1, DataField
<1> HIDE DEF r
<1>3. Became(r, a, s, d, a.hdr, a.kind)
  BY <1>1, <1>2 DEF Same, Became
<1> QED BY <1>3 DEF r, q

LEMMA StepAndHeaders ==
  ASSUME NEW a \in Request, NEW s \in Steps, NEW x \in Headers
  PROVE  Became([a EXCEPT !.step = s, !.hdr = x], a, s, a.data, x, a.kind)
<1> DEFINE q == [a EXCEPT !.step = s]
           r == [q EXCEPT !.hdr = x]
<1>1. q \in Request /\ Same(q, a) /\ q.step = s /\ q.data = a.data /\ q.hdr = a.hdr /\ q.kind = a.kind
  BY StepField
<1> HIDE DEF q
<1>2. r \in Request /\ Same(r, q) /\ r.step = s /\ r.data = a.data /\ r.hdr = x /\ r.kind = a.kind
  BY <1>1, HdrField
<1> HIDE DEF r
<1>3. Became(r, a, s, a.data, x, a.kind)
  BY <1>1, <1>2 DEF Same, Became
<1> QED BY <1>3 DEF r, q

LEMMA StepAndKind ==
  ASSUME NEW a \in Request, NEW s \in Steps, NEW x \in SumKinds
  PROVE  Became([a EXCEPT !.step = s, !.kind = x], a, s, a.data, a.hdr, x)
<1> DEFINE q == [a EXCEPT !.step = s]
           r == [q EXCEPT !.kind = x]
<1>1. q \in Request /\ Same(q, a) /\ q.step = s /\ q.data = a.data /\ q.hdr = a.hdr /\ q.kind = a.kind
  BY StepField
<1> HIDE DEF q
<1>2. r \in Request /\ Same(r, q) /\ r.step = s /\ r.data = a.data /\ r.hdr = a.hdr /\ r.kind = x
  BY <1>1, KindField
<1> HIDE DEF r
<1>3. Became(r, a, s, a.data, a.hdr, x)
  BY <1>1, <1>2 DEF Same, Became
<1> QED BY <1>3 DEF r, q

LEMMA EndsQuietly ==
  ASSUME ObjectInv, NEW h \in Handlers, at[h].op = "get", End(h),
         UNCHANGED <<names, s3meta, uploads, wrote, acked, made, requests, faults>>
  PROVE  ObjectInv'
<1>1. Onto(h, Idle)
  BY EndOnto
<1>2. ~Midway(at[h]) /\ Knows(Idle)
  BY IdleRequest DEF Midway, Knows
<1> QED BY <1>1, <1>2, LooksStep, CountedNow

LEMMA GetSteps ==
  ASSUME ObjectInv, NEW h \in Handlers, GetContent(h) \/ GetHeaders(h) \/ GetDone(h)
  PROVE  ObjectInv'
<1> DEFINE s == at[h].src
<1>1. /\ at[h] \in Request /\ Shape(at[h]) /\ at[h].op = "get"
      /\ s \in Keys /\ at[h].writes = {} /\ at[h].reads = {s} /\ ~Midway(at[h])
  BY DEF ObjectInv, TypeOK, Shapes, GetContent, GetHeaders, GetDone, Doing, Shape, Midway
<1>2. UNCHANGED <<names, s3meta, uploads, wrote, acked, made, requests, faults>>
  BY DEF GetContent, GetHeaders, GetDone
<1>3. CASE End(h)
  BY <1>1, <1>2, <1>3, EndsQuietly
<1>4. CASE names[s] # Absent /\ Continue(h, [at[h] EXCEPT !.step = "headers", !.data = names[s]])
  <2> DEFINE d == names[s]
             r == [at[h] EXCEPT !.step = "headers", !.data = d]
  <2>1. d \in Contents /\ "headers" \in Steps
    BY <1>1, <1>4 DEF Steps, ObjectInv, TypeOK
  <2>2. at' = [at EXCEPT ![h] = r]
    BY <1>4 DEF Continue
  <2> HIDE DEF d
  <2>3. Became(r, at[h], "headers", d, at[h].hdr, at[h].kind)
    BY <1>1, <2>1, StepAndData, Zenon
  <2> HIDE DEF r
  <2>4. Onto(h, r)
    BY <1>1, <2>1, <2>2, <2>3 DEF Onto, Became, Shape, Same
  <2>5. Knows(r)
    BY <1>1, <2>3, Zenon DEF Knows, Became, Same
  <2> QED BY <1>1, <1>2, <2>4, <2>5, LooksStep, CountedNow
<1>5. CASE at[h].step = "headers" /\ Continue(h, [at[h] EXCEPT !.step = "served", !.hdr = s3meta[s]])
  <2> DEFINE x == s3meta[s]
             r == [at[h] EXCEPT !.step = "served", !.hdr = x]
  <2>1. x \in Headers /\ "served" \in Steps /\ at[h].data \in Contents
    BY <1>1, <1>5 DEF Steps, ObjectInv, TypeOK, Shape
  <2>2. at' = [at EXCEPT ![h] = r]
    BY <1>5 DEF Continue
  <2> HIDE DEF x
  <2>3. Became(r, at[h], "served", at[h].data, x, at[h].kind)
    BY <1>1, <2>1, StepAndHeaders, Zenon
  <2> HIDE DEF r
  <2>4. Onto(h, r)
    BY <1>1, <2>1, <2>2, <2>3, Zenon DEF Onto, Became, Shape, Same
  <2>5. Knows(r)
    BY <1>1, <2>3 DEF Knows, Became, Same
  <2> QED BY <1>1, <1>2, <2>4, <2>5, LooksStep, CountedNow, Zenon
<1> QED BY <1>3, <1>4, <1>5, Zenon DEF GetContent, GetHeaders, GetDone, Doing

(* DeleteObject and DeleteObjects go on with the next key, or end.         *)
LEMMA NextKeyOnto ==
  ASSUME ObjectInv, NEW h \in Handlers, at[h].op \in {"delete", "batch"}, NextKey(h)
  PROVE  \E r : Onto(h, r) /\ r.op \notin {"put", "copy", "complete", "get"}
<1>1. at[h] \in Request /\ Shape(at[h])
  BY DEF ObjectInv, TypeOK, Shapes
<1>2. /\ at[h].rest \in Seq(Keys) /\ Len(at[h].rest) > 0
      /\ \A i \in DOMAIN at[h].rest : at[h].rest[i] \in at[h].writes
  BY <1>1, Zenon DEF Shape, Request
<1>3. CASE End(h)
  <2>1. Onto(h, Idle)
    BY <1>3, EndOnto
  <2> QED BY <2>1, IdleRequest
<1>4. CASE /\ Len(at[h].rest) # 1
           /\ Continue(h, [at[h] EXCEPT !.step = "lease", !.rest = Tail(at[h].rest)])
  <2> DEFINE t == Tail(at[h].rest)
             q == [at[h] EXCEPT !.step = "lease"]
             r == [q EXCEPT !.rest = t]
  <2>1. at' = [at EXCEPT ![h] = r]
    BY <1>4 DEF Continue
  <2>2. t \in Seq(Keys) /\ Len(t) > 0 /\ \A i \in DOMAIN t : t[i] \in at[h].writes
    <3> DEFINE ks == at[h].rest
    <3>1. ks \in Seq(Keys) /\ Len(ks) > 0 /\ Len(ks) # 1
      BY <1>2, <1>4
    <3>2. \A i \in DOMAIN ks : ks[i] \in at[h].writes
      BY <1>2
    <3> HIDE DEF ks
    <3>3. Len(ks) \in Nat /\ Len(ks) > 1 /\ DOMAIN ks = 1 .. Len(ks)
      <4>1. Len(ks) \in Nat /\ DOMAIN ks = 1 .. Len(ks)
        BY <3>1
      <4> QED BY <3>1, <4>1
    <3>4. Tail(ks) \in Seq(Keys) /\ Len(Tail(ks)) = Len(ks) - 1
      BY <3>1, <3>3
    <3>5. \A i \in DOMAIN Tail(ks) : Tail(ks)[i] = ks[i + 1] /\ i + 1 \in DOMAIN ks
      BY <3>1, <3>3, <3>4
    <3> QED BY <3>2, <3>3, <3>4, <3>5 DEF ks
  <2> HIDE DEF t
  <2>3. "lease" \in Steps
    BY DEF Steps
  <2>4. q \in Request /\ Same(q, at[h])
    BY <1>1, <2>3, StepField
  <2> HIDE DEF q
  <2>5. r \in Request /\ Same(r, q) /\ r.rest = t
    BY <2>2, <2>4, RestField
  <2> HIDE DEF r
  <2>6. Same(r, at[h])
    BY <2>4, <2>5 DEF Same
  <2>7. Shape(r) /\ r.op \in {"delete", "batch"}
    BY <2>2, <2>5, <2>6, Zenon DEF Shape, Same
  <2> QED BY <2>1, <2>5, <2>6, <2>7, Zenon DEF Onto
<1> QED BY <1>3, <1>4 DEF NextKey

LEMMA DeleteSteps ==
  ASSUME ObjectInv, NEW h \in Handlers, DeleteLease(h) \/ DeleteContent(h)
  PROVE  ObjectInv'
<1> DEFINE k == Head(at[h].rest)
           p == [wrote[k] EXCEPT !.data = Absent]
<1>1. /\ at[h] \in Request /\ Shape(at[h]) /\ at[h].op \in {"delete", "batch"} /\ ~Midway(at[h])
  BY DEF ObjectInv, TypeOK, Shapes, DeleteLease, DeleteContent, Deleting, Midway
<1>2. k \in at[h].writes
  <2> DEFINE ks == at[h].rest
  <2>1. ks \in Seq(Keys) /\ Len(ks) > 0
    BY <1>1, Zenon DEF Shape, Request
  <2>2. \A i \in DOMAIN ks : ks[i] \in at[h].writes
    BY <1>1 DEF Shape
  <2> HIDE DEF ks
  <2>3. 1 \in DOMAIN ks /\ Head(ks) = ks[1]
    BY <2>1
  <2> QED BY <2>2, <2>3 DEF ks
<1> HIDE DEF k
<1>3. k \in Keys
  BY <1>1, <1>2, Zenon DEF Request
<1>4. Counted'
  BY CountedNow DEF DeleteLease, DeleteContent
<1>5. CASE Goto(h, "delete") /\ UNCHANGED <<names, s3meta, wrote>>
  <2> DEFINE r == [at[h] EXCEPT !.step = "delete"]
  <2>1. "delete" \in Steps
    BY DEF Steps
  <2>2. r \in Request /\ Same(r, at[h]) /\ r.rest = at[h].rest
    BY <1>1, <2>1, StepField
  <2>3. Shape(r)
    BY <1>1, <2>2 DEF Shape, Same
  <2>4. Onto(h, r)
    BY <1>5, <2>1, <2>3, StepOnto, Zenon
  <2> HIDE DEF r
  <2>5. Knows(r)
    BY <1>1, <2>2 DEF Knows, Same
  <2> QED BY <1>1, <1>4, <1>5, <2>4, <2>5, LooksStep
<1>6. CASE NextKey(h) /\ UNCHANGED <<names, s3meta>> /\ Promise(h, k, wrote[k])
  <2>1. PICK r : Onto(h, r) /\ r.op \notin {"put", "copy", "complete", "get"}
    BY <1>1, <1>6, NextKeyOnto
  <2>2. ~Midway(r)
    BY <2>1, Zenon DEF Midway
  <2> QED BY <1>1, <1>2, <1>4, <1>6, <2>1, <2>2, RefusedStep, Zenon
<1>7. CASE NextKey(h) /\ Delete(k) /\ UNCHANGED s3meta /\ Promise(h, k, p)
  <2>1. PICK r : Onto(h, r) /\ r.op \notin {"put", "copy", "complete", "get"}
    BY <1>1, <1>7, NextKeyOnto
  <2>2. ~Midway(r)
    BY <2>1 DEF Midway
  <2>3. /\ p \in Promises /\ p.data = Absent
        /\ p.type = wrote[k].type /\ p.sum = wrote[k].sum
    BY <1>3, Zenon DEF Promises, ObjectInv, TypeOK
  <2> HIDE DEF p
  <2>4. /\ names' \in [Keys -> Contents \cup {Absent}] /\ names'[k] = Absent
        /\ \A j \in Keys : j # k => names'[j] = names[j]
    BY <1>3, <1>7, Zenon DEF Delete, ObjectInv, TypeOK
  <2>5. wrote' \in [Keys -> Promises]
    BY <1>3, <1>7, <2>3, PromiseType
  <2>6. at' \in [Handlers -> Request]
    BY <2>1 DEF Onto, ObjectInv, TypeOK
  <2>7. TypeOK'
    BY <1>4, <1>7, <2>4, <2>5, <2>6, Zenon DEF Counted, Promises, ObjectInv, TypeOK
  <2>8. at[h].alone => KeptKey(k)
    BY <1>1, <1>2, AloneKept, Zenon
  <2>9. at[h].alone => /\ Keeps(p, names'[k], s3meta'[k])
                       /\ s3meta'[k] = NoHeaders => p.type = Free /\ p.sum = Free
    BY <1>3, <1>7, <2>3, <2>4, <2>8, Zenon DEF KeptKey, Keeps, ObjectInv, HeadersKept
  <2> QED BY <1>1, <1>2, <1>7, <2>1, <2>2, <2>4, <2>7, <2>9, PromiseStep, Zenon
<1> QED BY <1>5, <1>6, <1>7 DEF DeleteLease, DeleteContent, k, p

(* CopyObject.                                                             *)
LEMMA CopyReadStep ==
  ASSUME ObjectInv, NEW h \in Handlers, CopyRead(h)
  PROVE  ObjectInv'
<1> DEFINE k == at[h].key
           s == at[h].src
           d == names[s]
           r == [at[h] EXCEPT !.step = "put", !.data = d]
<1>1. /\ at[h] \in Request /\ Shape(at[h]) /\ at[h].op = "copy" /\ at[h].step = "read"
      /\ k \in Keys /\ at[h].writes = {k} /\ s \in Keys /\ at[h].reads = {s}
  BY DEF ObjectInv, TypeOK, Shapes, CopyRead, Doing, Shape
<1>2. ~Midway(at[h])
  BY <1>1 DEF Midway
<1>3. Counted' /\ UNCHANGED <<names, s3meta>>
  BY CountedNow, Zenon DEF CopyRead
<1>4. CASE End(h) /\ Promise(h, k, wrote[k])
  <2>1. Onto(h, Idle)
    BY <1>4, EndOnto
  <2> QED BY <1>1, <1>2, <1>3, <1>4, <2>1, IdleRequest, RefusedStep, Zenon
<1>5. CASE d # Absent /\ Continue(h, r) /\ NoPromise
  <2>1. d \in Contents /\ "put" \in Steps
    BY <1>1, <1>5 DEF Steps, ObjectInv, TypeOK
  <2>2. at' = [at EXCEPT ![h] = r]
    BY <1>5 DEF Continue
  <2>3. UNCHANGED wrote
    BY <1>5 DEF NoPromise
  <2>4. at[h].alone => KeptKey(s)
    BY <1>1, <1>2, AloneKept
  <2>5. names[s] = d
    OBVIOUS
  <2> HIDE DEF d
  <2>6. Became(r, at[h], "put", d, at[h].hdr, at[h].kind)
    BY <1>1, <2>1, StepAndData, Zenon
  <2> HIDE DEF r
  <2>7. Onto(h, r)
    BY <1>1, <2>1, <2>2, <2>6 DEF Onto, Became, Shape, Same
  <2>8. r.op = "copy" /\ r.step = "put" /\ r.src = s /\ r.data = d /\ (r.alone <=> at[h].alone)
    BY <1>1, <2>6 DEF Became, Same
  <2>9. r.alone => Knows(r)
    BY <2>4, <2>5, <2>8 DEF Knows, Midway
  <2> QED BY <1>2, <1>3, <2>3, <2>7, <2>9, LooksStep
<1> QED BY <1>4, <1>5 DEF CopyRead

LEMMA CopyPutStep ==
  ASSUME ObjectInv, NEW h \in Handlers, CopyPut(h)
  PROVE  ObjectInv'
<1> DEFINE k == at[h].key
           s == at[h].src
           r == [at[h] EXCEPT !.step = "headers"]
<1>1. /\ at[h] \in Request /\ Shape(at[h]) /\ at[h].op = "copy" /\ at[h].step = "put"
      /\ k \in Keys /\ at[h].writes = {k} /\ s \in Keys /\ at[h].reads = {s}
      /\ at[h].data \in Contents
  BY Zenon DEF ObjectInv, TypeOK, Shapes, CopyPut, Doing, Shape
<1>2. ~Midway(at[h])
  BY <1>1 DEF Midway
<1>3. Counted' /\ UNCHANGED s3meta
  BY CountedNow DEF CopyPut
<1>4. CASE Put(k, at[h].data) /\ Goto(h, "headers") /\ NoPromise
  <2>1. "headers" \in Steps
    BY DEF Steps
  <2>2. r \in Request /\ Same(r, at[h]) /\ r.step = "headers" /\ r.data = at[h].data
    BY <1>1, <2>1, StepField
  <2>3. Shape(r) /\ Midway(r) /\ r.key = k /\ r.src = s /\ r.op = "copy"
    BY <1>1, <2>2 DEF Shape, Same, Midway
  <2>4. Onto(h, r)
    BY <1>4, <2>1, <2>3, StepOnto
  <2> HIDE DEF r
  <2>5. /\ names' \in [Keys -> Contents \cup {Absent}] /\ names'[k] = at[h].data
        /\ \A j \in Keys : j # k => names'[j] = names[j]
    BY <1>1, <1>4 DEF Put, ObjectInv, TypeOK
  <2>6. UNCHANGED <<s3meta, wrote>>
    BY <1>3, <1>4 DEF NoPromise
  <2>7. /\ Acts(h) /\ at'[h] = r
    BY <1>1, <2>4, <2>5, <2>6, OntoActs, ZenonT(30)
  <2>8. TypeOK'
    BY <1>3, <2>5, <2>6, <2>7, Zenon DEF Acts, Counted, ObjectInv, TypeOK
  <2>9. at'[h].alone => Knows(at[h])'
    <3> SUFFICES ASSUME at[h].alone PROVE Knows(at[h])'
      BY <2>2, <2>7 DEF Same
    <3>1. KeptKey(k) /\ KeptKey(s)
      BY <1>1, <1>2, AloneKept, Zenon
    <3>2. names[s] = at[h].data
      <4>1. Knows(at[h])
        BY DEF ObjectInv, AloneKnows
      <4> QED BY <1>1, <4>1 DEF Knows
    <3>3. names'[s] = at[h].data /\ names'[s] = names[s]
      BY <1>1, <2>5, <3>2, Zenon
    <3>4. KeptKey(s)'
      BY <2>3, <2>6, <2>7, <3>1, <3>3, Zenon DEF KeptKey
    <3>5. wrote'[k].type \in {Free, s3meta'[k].type} /\ wrote'[k].sum \in {Free, s3meta'[k].sum}
      BY <2>6, <3>1 DEF KeptKey, Keeps
    <3> QED BY <2>2, <2>3, <2>5, <2>7, <3>3, <3>4, <3>5, Zenon DEF Knows, KeptKey
  <2>10. ~(\A g \in Handlers : ~(Midway(at'[g]) /\ at'[g].key = k))
    BY <2>3, <2>7
  <2>11. s3meta'[k] = NoHeaders => wrote'[k].type = Free /\ wrote'[k].sum = Free
    BY <1>1, <2>6 DEF ObjectInv, HeadersKept
  <2> QED BY <1>1, <2>7, <2>8, <2>9, <2>10, <2>11, HandlerStep
<1>5. CASE End(h) /\ Promise(h, k, wrote[k]) /\ UNCHANGED names
  <2>1. Onto(h, Idle)
    BY <1>5, EndOnto, Zenon
  <2> QED BY <1>1, <1>2, <1>3, <1>5, <2>1, IdleRequest, RefusedStep, Zenon
<1> QED BY <1>4, <1>5, Zenon DEF CopyPut

(* sort.Slice may order the parts in any way their numbers allow: the      *)
(* content has each part once, at the place its number has among them.     *)
LEMMA SortedParts ==
  ASSUME NEW a \in PartSeqs, NEW parts \in SortedByNumber(a), NEW d,
         d = [i \in DOMAIN parts |-> parts[i].data]
  PROVE  d \in Contents /\ Assembled(d, a)
<1>1. PICK n \in 0 .. MaxParts : a \in [1 .. n -> Parts]
  BY DEF PartSeqs
<1>2. n \in Nat /\ Len(a) = n /\ DOMAIN a = 1 .. n
  BY <1>1, S3Assumption
<1>3. PICK f \in Bijection(1 .. n, 1 .. n) :
        /\ \A i, j \in 1 .. n : i < j => a[f[i]].num <= a[f[j]].num
        /\ parts = [i \in 1 .. n |-> a[f[i]]]
  BY <1>2 DEF SortedByNumber
<1>4. /\ f \in [1 .. n -> 1 .. n]
      /\ \A i, j \in 1 .. n : f[i] = f[j] => i = j
      /\ \A j \in 1 .. n : \E i \in 1 .. n : f[i] = j
  BY <1>3, Zenon DEF Bijection, Injection, Surjection, IsInjective
<1>5. \A i \in 1 .. n : a[i].num \in Nat /\ a[i].data \in Bodies
  BY <1>1, S3Assumption, Zenon DEF Parts
<1>6. d = [i \in 1 .. n |-> a[f[i]].data]
  BY <1>3
<1>7. d \in [1 .. n -> Bodies]
  BY <1>4, <1>5, <1>6, Zenon
<1>8. d \in Contents /\ Len(d) = n
  BY <1>2, <1>7 DEF Contents
<1>9. \A i \in 1 .. n : d[i] = a[f[i]].data
  BY <1>6
<1> QED BY <1>2, <1>3, <1>8, <1>9 DEF Assembled

LEMMA CopyHeadersStep ==
  ASSUME ObjectInv, NEW h \in Handlers, CopyHeaders(h)
  PROVE  ObjectInv'
<1> DEFINE s == at[h].src
           x == s3meta[s]
           r == [at[h] EXCEPT !.step = "meta", !.hdr = x]
<1>1. /\ at[h] \in Request /\ Shape(at[h]) /\ at[h].op = "copy" /\ at[h].step = "headers"
      /\ s \in Keys /\ at[h].data \in Contents
  BY DEF ObjectInv, TypeOK, Shapes, CopyHeaders, Doing, Shape
<1>2. Midway(at[h])
  BY <1>1 DEF Midway
<1>3. Counted' /\ UNCHANGED <<names, s3meta, wrote>>
  BY CountedNow DEF CopyHeaders
<1>4. x \in Headers /\ "meta" \in Steps
  BY <1>1 DEF Steps, ObjectInv, TypeOK
<1>5. at' = [at EXCEPT ![h] = r]
  BY DEF CopyHeaders, Continue
<1>6. s3meta[s] = x
  OBVIOUS
<1> HIDE DEF x
<1>7. Became(r, at[h], "meta", at[h].data, x, at[h].kind)
  BY <1>1, <1>4, StepAndHeaders, Zenon
<1> HIDE DEF r
<1>8. Onto(h, r)
  BY <1>1, <1>5, <1>7, Zenon DEF Onto, Became, Shape, Same
<1>9. /\ r.op = "copy" /\ r.step = "meta" /\ r.src = s /\ r.data = at[h].data /\ r.hdr = x
      /\ r.key = at[h].key /\ (r.alone <=> at[h].alone)
  BY <1>1, <1>7 DEF Became, Same
<1>10. Midway(r)
  BY <1>9, Zenon DEF Midway
<1>11. r.alone => Knows(r)
  <2> SUFFICES ASSUME at[h].alone PROVE Knows(r)
    BY <1>9
  <2>1. Knows(at[h])
    BY Zenon DEF ObjectInv, AloneKnows
  <2> QED BY <1>1, <1>2, <1>6, <1>9, <2>1 DEF Knows
<1> QED BY <1>3, <1>8, <1>9, <1>10, <1>11, LooksStep, Zenon

LEMMA CopyMetaStep ==
  ASSUME ObjectInv, NEW h \in Handlers, CopyMeta(h)
  PROVE  ObjectInv'
<1> DEFINE k == at[h].key
           s == at[h].src
           x == at[h].hdr
           n == wrote[s]
           w == [wrote[k] EXCEPT !.data = wrote[s].data]
<1>1. /\ at[h] \in Request /\ Shape(at[h]) /\ at[h].op = "copy" /\ at[h].step = "meta"
      /\ k \in Keys /\ at[h].writes = {k} /\ s \in Keys /\ at[h].data \in Contents
  BY DEF ObjectInv, TypeOK, Shapes, CopyMeta, Doing, Shape
<1>2. Midway(at[h])
  BY <1>1 DEF Midway
<1>3. Counted'
  BY CountedNow DEF CopyMeta
<1>4. Onto(h, Idle) /\ UNCHANGED names
  BY EndOnto DEF CopyMeta
<1>5. x \in Headers
  BY <1>1, Zenon DEF Request
<1>6. n \in Promises /\ w \in Promises /\ w.data = n.data /\ w.type = wrote[k].type /\ w.sum = wrote[k].sum
  BY <1>1, ZenonT(30) DEF Promises, ObjectInv, TypeOK
<1>7. at[h].alone =>
        /\ n.data \in {Free, names[k]} /\ n.type \in {Free, x.type} /\ n.sum \in {Free, x.sum}
        /\ x = s3meta[s]
        /\ wrote[k].type \in {Free, s3meta[k].type} /\ wrote[k].sum \in {Free, s3meta[k].sum}
  <2> SUFFICES ASSUME at[h].alone
               PROVE  /\ n.data \in {Free, names[k]} /\ n.type \in {Free, x.type}
                      /\ n.sum \in {Free, x.sum} /\ x = s3meta[s]
                      /\ wrote[k].type \in {Free, s3meta[k].type}
                      /\ wrote[k].sum \in {Free, s3meta[k].sum}
    BY Zenon
  <2>1. Knows(at[h])
    BY Zenon DEF ObjectInv, AloneKnows
  <2>2. names[k] = at[h].data /\ names[s] = at[h].data /\ KeptKey(s) /\ x = s3meta[s]
    BY <1>1, <1>2, <2>1, Zenon DEF Knows
  <2>3. /\ wrote[k].type \in {Free, s3meta[k].type} /\ wrote[k].sum \in {Free, s3meta[k].sum}
    BY <1>1, <1>2, <2>1, Zenon DEF Knows
  <2> QED BY <2>2, <2>3 DEF KeptKey, Keeps
<1>8. s3meta[s] = NoHeaders => n.type = Free /\ n.sum = Free
  BY <1>1 DEF ObjectInv, HeadersKept
<1>9. s3meta[k] = NoHeaders => wrote[k].type = Free /\ wrote[k].sum = Free
  BY <1>1, Zenon DEF ObjectInv, HeadersKept
<1>10. \E p \in {w, n} :
        /\ Promise(h, k, p) /\ s3meta' \in [Keys -> Headers]
        /\ \A j \in Keys : j # k => s3meta'[j] = s3meta[j]
        /\ \/ p = w /\ s3meta'[k] = s3meta[k]
           \/ p = n /\ s3meta'[k] = IF x = NoHeaders THEN s3meta[k] ELSE x
  <2> HIDE DEF w
  <2>1. CASE PutS3Meta(k, x) /\ Promise(h, k, n)
    BY <1>1, <1>5, <2>1, HeadersPut, ZenonT(30)
  <2>2. CASE UNCHANGED s3meta /\ Promise(h, k, w)
    BY <2>2, Zenon DEF ObjectInv, TypeOK
  <2> QED BY <2>1, <2>2, Zenon DEF CopyMeta, w
<1> HIDE DEF w, n
<1>11. PICK p \in {w, n} :
        /\ Promise(h, k, p) /\ s3meta' \in [Keys -> Headers]
        /\ \A j \in Keys : j # k => s3meta'[j] = s3meta[j]
        /\ \/ p = w /\ s3meta'[k] = s3meta[k]
           \/ p = n /\ s3meta'[k] = IF x = NoHeaders THEN s3meta[k] ELSE x
  BY <1>10, Zenon
<1>12. wrote' \in [Keys -> Promises]
  BY <1>1, <1>6, <1>11, PromiseType, Zenon
<1>13. at' \in [Handlers -> Request]
  BY <1>4, Zenon DEF Onto, ObjectInv, TypeOK
<1>14. TypeOK'
  BY <1>3, <1>4, <1>11, <1>12, <1>13, Zenon DEF Counted, Promises, ObjectInv, TypeOK
<1>15. at[h].alone => /\ Keeps(p, names'[k], s3meta'[k])
                      /\ s3meta'[k] = NoHeaders => p.type = Free /\ p.sum = Free
  BY <1>4, <1>6, <1>7, <1>8, <1>9, <1>11, Zenon DEF Keeps
<1> QED BY <1>1, <1>4, <1>11, <1>14, <1>15, IdleRequest, PromiseStep, Zenon

(* CompleteMultipartUpload.                                                *)
LEMMA TakeSessionStep ==
  ASSUME ObjectInv, NEW h \in Handlers, TakeSession(h)
  PROVE  ObjectInv'
<1> DEFINE k == at[h].key
           u == at[h].id
           r == [at[h] EXCEPT !.step = "collect"]
<1>1. /\ at[h] \in Request /\ Shape(at[h]) /\ at[h].op = "complete" /\ at[h].step = "take"
      /\ k \in Keys /\ at[h].writes = {k} /\ u \in Ids
  BY DEF ObjectInv, TypeOK, Shapes, TakeSession, Doing, Shape
<1>2. ~Midway(at[h])
  BY <1>1 DEF Midway
<1>3. UNCHANGED <<names, s3meta, acked, made, requests, faults>>
  BY DEF TakeSession
<1>4. CASE uploads' = [uploads EXCEPT ![u].state = "closed"] /\ Goto(h, "collect") /\ NoPromise
  <2>1. "collect" \in Steps
    BY DEF Steps
  <2>2. r \in Request /\ Same(r, at[h]) /\ r.step = "collect"
    BY <1>1, <2>1, StepField
  <2>3. Shape(r) /\ r.op = "complete"
    BY <1>1, <2>2 DEF Shape, Same
  <2>4. Onto(h, r)
    BY <1>4, <2>1, <2>3, StepOnto
  <2> HIDE DEF r
  <2>5. Knows(r)
    BY <2>2, <2>3 DEF Knows, Midway
  <2>6. Counted'
    <3>1. uploads' \in [Ids -> [state : {"unused", "open", "closed"}, key : Keys \cup {Absent},
                                parts : PartSeqs]]
      BY <1>1, <1>4, ZenonT(30) DEF ObjectInv, TypeOK
    <3> QED BY <1>3, <3>1 DEF Counted, ObjectInv, TypeOK
  <2>7. UNCHANGED wrote
    BY <1>4 DEF NoPromise
  <2> QED BY <1>2, <1>3, <2>4, <2>5, <2>6, <2>7, LooksStep, Zenon
<1>5. CASE End(h) /\ Promise(h, k, wrote[k]) /\ UNCHANGED uploads
  <2>1. Onto(h, Idle)
    BY <1>5, EndOnto, Zenon
  <2>2. Counted'
    BY <1>3, <1>5, CountedNow
  <2> QED BY <1>1, <1>2, <1>3, <1>5, <2>1, <2>2, IdleRequest, RefusedStep, Zenon
<1> QED BY <1>4, <1>5, Zenon DEF TakeSession

LEMMA AssemblePartsStep ==
  ASSUME ObjectInv, NEW h \in Handlers, AssembleParts(h)
  PROVE  /\ ObjectInv'
         /\ \/ at'[h] = Idle
            \/ Same(at'[h], at[h]) /\ Assembled(at'[h].data, uploads[at[h].id].parts)
<1> DEFINE k == at[h].key
           a == uploads[at[h].id].parts
           s == IF at[h].kind = "right" THEN "sum" ELSE "put"
<1>1. /\ at[h] \in Request /\ Shape(at[h]) /\ at[h].op = "complete" /\ at[h].step = "collect"
      /\ k \in Keys /\ at[h].writes = {k} /\ at[h].id \in Ids
  BY DEF ObjectInv, TypeOK, Shapes, AssembleParts, Doing, Shape
<1>2. ~Midway(at[h])
  BY <1>1 DEF Midway
<1>3. Counted' /\ UNCHANGED <<names, s3meta>>
  BY CountedNow, Zenon DEF AssembleParts
<1>4. CASE End(h) /\ Promise(h, k, wrote[k])
  <2>1. Onto(h, Idle)
    BY <1>4, EndOnto
  <2>2. at'[h] = Idle
    BY <1>4, Zenon DEF End, ObjectInv, TypeOK
  <2> QED BY <1>1, <1>2, <1>3, <1>4, <2>1, <2>2, IdleRequest, RefusedStep, Zenon
<1>5. ASSUME NEW parts \in SortedByNumber(a), NoPromise,
             Continue(h, [at[h] EXCEPT !.data = [i \in DOMAIN parts |-> parts[i].data], !.step = s])
      PROVE  ObjectInv' /\ Same(at'[h], at[h]) /\ Assembled(at'[h].data, a)
  <2> DEFINE d == [i \in DOMAIN parts |-> parts[i].data]
             q == [at[h] EXCEPT !.data = d]
             r == [q EXCEPT !.step = s]
  <2>1. a \in PartSeqs
    BY <1>1 DEF ObjectInv, TypeOK
  <2>2. d \in Contents /\ Assembled(d, a)
    BY <2>1, SortedParts
  <2>3. at' = [at EXCEPT ![h] = r]
    BY <1>5 DEF Continue
  <2> HIDE DEF d
  <2>4. s = "sum" \/ s = "put"
    OBVIOUS
  <2>5. s = "put" <=> at[h].kind # "right"
    OBVIOUS
  <2> HIDE DEF s
  <2>6. s \in Steps
    BY <2>4, Zenon DEF Steps
  <2>7. q \in Request /\ Same(q, at[h]) /\ q.data = d /\ q.kind = at[h].kind
    BY <1>1, <2>2, DataField
  <2> HIDE DEF q
  <2>8. r \in Request /\ Same(r, q) /\ r.data = d /\ r.kind = at[h].kind /\ r.step = s
    BY <2>6, <2>7, StepField
  <2> HIDE DEF r
  <2>9. Same(r, at[h])
    BY <2>7, <2>8 DEF Same
  <2>10. Onto(h, r)
    BY <1>1, <2>2, <2>3, <2>4, <2>5, <2>8, <2>9, Zenon DEF Onto, Shape, Same
  <2>11. Knows(r)
    BY <1>1, <2>4, <2>5, <2>8, <2>9 DEF Knows, Midway, Same
  <2>12. UNCHANGED wrote
    BY <1>5 DEF NoPromise
  <2>13. at'[h] = r
    BY <2>3 DEF ObjectInv, TypeOK
  <2> QED BY <1>2, <1>3, <2>2, <2>8, <2>9, <2>10, <2>11, <2>12, <2>13, LooksStep, Zenon
<1> QED BY <1>4, <1>5, Zenon DEF AssembleParts

LEMMA ChecksumReadStep ==
  ASSUME ObjectInv, NEW h \in Handlers, ChecksumRead(h)
  PROVE  ObjectInv' /\ Same(at'[h], at[h]) /\ at'[h].data = at[h].data
<1> DEFINE k == at[h].key
           d == at[h].data
           x == [s3meta[k] EXCEPT !.sum = d]
           r == [at[h] EXCEPT !.step = "merge", !.hdr = x]
<1>1. /\ at[h] \in Request /\ Shape(at[h]) /\ at[h].op = "complete" /\ at[h].step = "sum"
      /\ k \in Keys /\ d \in Contents /\ at[h].kind = "right"
  BY DEF ObjectInv, TypeOK, Shapes, ChecksumRead, Doing, Shape
<1>2. ~Midway(at[h])
  BY <1>1 DEF Midway
<1>3. Counted' /\ UNCHANGED <<names, s3meta, wrote>>
  BY CountedNow DEF ChecksumRead
<1>4. x \in Headers
  <2>1. s3meta[k] \in Headers /\ d \in Sums
    BY <1>1 DEF Sums, ObjectInv, TypeOK
  <2> QED BY <2>1 DEF Headers
<1>5. "merge" \in Steps
  BY DEF Steps
<1>6. at' = [at EXCEPT ![h] = r]
  BY DEF ChecksumRead, Continue
<1>7. x = [s3meta[k] EXCEPT !.sum = d]
  OBVIOUS
<1> HIDE DEF x
<1>8. Became(r, at[h], "merge", d, x, at[h].kind)
  BY <1>1, <1>4, <1>5, StepAndHeaders, Zenon
<1> HIDE DEF r
<1>9. Onto(h, r)
  BY <1>1, <1>6, <1>8 DEF Onto, Became, Shape, Same
<1>10. r.op = "complete" /\ r.step = "merge" /\ r.hdr = x /\ r.key = k /\ r.data = d
  BY <1>1, <1>8 DEF Became, Same
<1>11. Knows(r)
  BY <1>7, <1>10 DEF Knows, Midway
<1>12. at'[h] = r
  BY <1>6 DEF ObjectInv, TypeOK
<1> QED BY <1>2, <1>3, <1>8, <1>9, <1>11, <1>12, LooksStep, Zenon DEF Became

LEMMA ChecksumWriteStep ==
  ASSUME ObjectInv, NEW h \in Handlers, ChecksumWrite(h)
  PROVE  ObjectInv' /\ Same(at'[h], at[h]) /\ at'[h].data = at[h].data
<1> DEFINE k == at[h].key
           d == at[h].data
           x == at[h].hdr
<1>1. /\ at[h] \in Request /\ Shape(at[h]) /\ at[h].op = "complete" /\ at[h].step = "merge"
      /\ k \in Keys /\ at[h].writes = {k} /\ d \in Contents /\ at[h].kind = "right"
  BY DEF ObjectInv, TypeOK, Shapes, ChecksumWrite, Doing, Shape
<1>2. ~Midway(at[h])
  BY <1>1 DEF Midway
<1>3. Counted' /\ UNCHANGED <<names, wrote>>
  BY CountedNow DEF ChecksumWrite
<1>4. "put" \in Steps
  BY DEF Steps
<1>5. CASE PutS3Meta(k, x) /\ Goto(h, "put")
  <2> DEFINE r == [at[h] EXCEPT !.step = "put"]
  <2>1. r \in Request /\ Same(r, at[h]) /\ r.step = "put" /\ r.data = d /\ r.kind = "right"
    BY <1>1, <1>4, StepField
  <2>2. Shape(r) /\ r.op = "complete" /\ r.key = k /\ (r.alone <=> at[h].alone)
    BY <1>1, <2>1 DEF Shape, Same
  <2>3. Onto(h, r)
    BY <1>4, <1>5, <2>2, StepOnto
  <2> HIDE DEF r
  <2>4. Midway(r)
    BY <2>1, <2>2 DEF Midway
  <2>5. x \in Headers
    BY <1>1, Zenon DEF Request
  <2>6. /\ s3meta' \in [Keys -> Headers]
        /\ \A j \in Keys : j # k => s3meta'[j] = s3meta[j]
        /\ s3meta'[k] = IF x = NoHeaders THEN s3meta[k] ELSE x
    BY <1>1, <1>5, <2>5, HeadersPut, Zenon
  <2>7. Acts(h) /\ at'[h] = r
    BY <1>1, <1>3, <2>3, <2>6, OntoActs, ZenonT(30)
  <2>8. TypeOK'
    BY <1>3, <2>6, <2>7, Zenon DEF Counted, Acts, ObjectInv, TypeOK
  <2>9. s3meta'[k] = NoHeaders => wrote'[k].type = Free /\ wrote'[k].sum = Free
    BY <1>1, <1>3, <2>6, Zenon DEF ObjectInv, HeadersKept
  <2>10. ASSUME r.alone PROVE Knows(at[h])'
    <3>1. KeptKey(k)
      BY <1>1, <1>2, <2>2, <2>10, AloneKept, Zenon
    <3>2. x = [s3meta[k] EXCEPT !.sum = d]
      BY <1>1, <2>2, <2>10, Zenon DEF ObjectInv, AloneKnows, Knows
    <3>3. x.sum = d /\ x.type = s3meta[k].type
      BY <1>1, <3>2 DEF Headers, ObjectInv, TypeOK
    <3>4. s3meta'[k] = x
      BY <1>1, <2>6, <3>3, ContentsAreSeqs DEF NoHeaders
    <3>5. /\ wrote'[k].data \in {Free, names'[k]}
          /\ wrote'[k].type \in {Free, s3meta'[k].type}
          /\ s3meta'[k].sum = d
      BY <1>3, <3>1, <3>3, <3>4 DEF KeptKey, Keeps
    <3> QED BY <2>1, <2>2, <2>7, <3>5 DEF Knows
  <2> QED BY <1>1, <2>1, <2>2, <2>4, <2>7, <2>8, <2>9, <2>10, HandlerStep, Zenon
<1>6. CASE /\ Continue(h, [at[h] EXCEPT !.step = "put", !.kind = "none"])
           /\ UNCHANGED s3meta
  <2> DEFINE r == [at[h] EXCEPT !.step = "put", !.kind = "none"]
  <2>1. "none" \in SumKinds
    BY DEF SumKinds
  <2>2. at' = [at EXCEPT ![h] = r]
    BY <1>6 DEF Continue
  <2>3. Became(r, at[h], "put", d, x, "none")
    BY <1>1, <1>4, <2>1, StepAndKind, Zenon
  <2> HIDE DEF r
  <2>4. Onto(h, r)
    BY <1>1, <2>2, <2>3, Zenon DEF Onto, Became, Shape, Same
  <2>5. Knows(r)
    BY <1>1, <2>3 DEF Knows, Midway, Became, Same
  <2>6. at'[h] = r
    BY <2>2, Zenon DEF ObjectInv, TypeOK
  <2> QED BY <1>2, <1>3, <1>6, <2>3, <2>4, <2>5, <2>6, LooksStep, Zenon DEF Became
<1> QED BY <1>5, <1>6, Zenon DEF ChecksumWrite

LEMMA CompletePutStep ==
  ASSUME ObjectInv, NEW h \in Handlers, CompletePut(h)
  PROVE  ObjectInv'
<1> DEFINE k == at[h].key
           d == at[h].data
           w == wrote[k]
           right == at[h].kind = "right"
           n == [w EXCEPT !.data = d, !.sum = IF right THEN d ELSE w.sum]
           m == [w EXCEPT !.sum = IF right THEN Free ELSE @]
<1>1. /\ at[h] \in Request /\ Shape(at[h]) /\ at[h].op = "complete" /\ at[h].step = "put"
      /\ k \in Keys /\ at[h].writes = {k} /\ at[h].id \in Ids /\ d \in Contents
  BY DEF ObjectInv, TypeOK, Shapes, CompletePut, Doing, Shape
<1>2. Midway(at[h]) <=> right
  BY <1>1, Zenon DEF Midway
<1>3. Onto(h, Idle) /\ UNCHANGED s3meta
  BY EndOnto DEF CompletePut
<1>4. w \in Promises
  BY <1>1 DEF Promises, ObjectInv, TypeOK
<1>5. d \in Sums
  BY <1>1 DEF Sums
<1>6. /\ n \in Promises /\ n.data = d /\ n.type = w.type /\ n.sum = IF right THEN d ELSE w.sum
      /\ m \in Promises /\ m.data = w.data /\ m.type = w.type /\ m.sum = IF right THEN Free ELSE w.sum
  <2> HIDE DEF w
  <2>1. n \in Promises /\ n.data = d /\ n.type = w.type /\ n.sum = IF right THEN d ELSE w.sum
    BY <1>1, <1>4, <1>5, Zenon DEF Promises
  <2>2. m \in Promises /\ m.data = w.data /\ m.type = w.type /\ m.sum = IF right THEN Free ELSE w.sum
    BY <1>4 DEF Promises
  <2> QED BY <2>1, <2>2
<1>7. s3meta[k] = NoHeaders => w.type = Free /\ w.sum = Free /\ s3meta[k].sum # d
  <2>1. NoHeaders.sum # d
    BY <1>1, ContentsAreSeqs, Zenon DEF NoHeaders
  <2> QED BY <1>1, <2>1 DEF ObjectInv, HeadersKept
<1>8. at[h].alone =>
        /\ w.data \in {Free, names[k]} /\ w.type \in {Free, s3meta[k].type}
        /\ right => s3meta[k].sum = d
        /\ ~right => w.sum \in {Free, s3meta[k].sum}
  <2>1. ASSUME at[h].alone, right
        PROVE  /\ w.data \in {Free, names[k]} /\ w.type \in {Free, s3meta[k].type}
               /\ s3meta[k].sum = d
    BY <1>1, <1>2, <2>1, Zenon DEF Knows, ObjectInv, AloneKnows
  <2>2. ASSUME at[h].alone, ~right PROVE KeptKey(k)
    BY <1>1, <1>2, <2>2, AloneKept, Zenon
  <2> QED BY <2>1, <2>2, Zenon DEF KeptKey, Keeps
<1>9. CASE /\ NoFault /\ Put(k, d) /\ made' = [made EXCEPT ![at[h].id] = Append(@, d)]
           /\ Promise(h, k, n)
  <2>1. wrote' \in [Keys -> Promises]
    BY <1>1, <1>6, <1>9, PromiseType, Zenon
  <2>2. names' \in [Keys -> Contents \cup {Absent}] /\ names'[k] = d
        /\ \A j \in Keys : j # k => names'[j] = names[j]
    BY <1>1, <1>9, Zenon DEF Put, ObjectInv, TypeOK
  <2>3. made' \in [Ids -> Seq(Contents)]
    BY <1>1, <1>9 DEF ObjectInv, TypeOK
  <2>4. at' \in [Handlers -> Request]
    BY <1>3, Zenon DEF Onto, ObjectInv, TypeOK
  <2>5. UNCHANGED <<uploads, acked, requests, faults>>
    BY <1>9, Zenon DEF CompletePut, NoFault
  <2>6. TypeOK'
    BY <1>3, <2>1, <2>2, <2>3, <2>4, <2>5, Zenon DEF Promises, ObjectInv, TypeOK
  <2> HIDE DEF n, m, w, right
  <2>7. at[h].alone => /\ Keeps(n, names'[k], s3meta'[k])
                       /\ s3meta'[k] = NoHeaders => n.type = Free /\ n.sum = Free
    BY <1>3, <1>6, <1>7, <1>8, <2>2, Zenon DEF Keeps
  <2> QED BY <1>1, <1>3, <1>9, <2>2, <2>6, <2>7, IdleRequest, PromiseStep, Zenon
<1>10. CASE Fault /\ Promise(h, k, m) /\ UNCHANGED <<names, made>>
  <2>1. wrote' \in [Keys -> Promises]
    BY <1>1, <1>6, <1>10, PromiseType, Zenon
  <2>2. Counted'
    BY <1>10, CountedNow DEF CompletePut
  <2>3. at' \in [Handlers -> Request]
    BY <1>3 DEF Onto, ObjectInv, TypeOK
  <2>4. TypeOK'
    BY <1>3, <1>10, <2>1, <2>2, <2>3, Zenon DEF Counted, Promises, ObjectInv, TypeOK
  <2> HIDE DEF n, m, w, right
  <2>5. at[h].alone => /\ Keeps(m, names'[k], s3meta'[k])
                       /\ s3meta'[k] = NoHeaders => m.type = Free /\ m.sum = Free
    BY <1>3, <1>6, <1>7, <1>8, <1>10, Zenon DEF Keeps
  <2> QED BY <1>1, <1>3, <1>10, <2>4, <2>5, IdleRequest, PromiseStep, Zenon
<1> QED BY <1>9, <1>10, Zenon DEF CompletePut

(* The steps outside the handlers.                                         *)
LEMMA OutsideStep ==
  ASSUME ObjectInv, UNCHANGED <<names, s3meta, at, wrote>>, Counted'
  PROVE  ObjectInv'
<1>1. TypeOK'
  BY DEF Counted, ObjectInv, TypeOK
<1>2. Shapes' /\ AloneApart' /\ HeadersKept'
  BY DEF ObjectInv, Shapes, AloneApart, HeadersKept
<1>3. KeysKept'
  BY Zenon DEF ObjectInv, KeysKept, KeptKey
<1>4. AloneKnows'
  BY DEF ObjectInv, AloneKnows, Knows, KeptKey
<1> QED BY <1>1, <1>2, <1>3, <1>4 DEF ObjectInv

LEMMA CreateStep ==
  ASSUME ObjectInv, NEW u \in Ids, NEW k \in Keys, CreateMultipartUpload(u, k)
  PROVE  ObjectInv'
<1>1. <<>> \in PartSeqs
  <2>1. <<>> \in [1 .. 0 -> Parts] /\ 0 \in 0 .. MaxParts
    BY S3Assumption
  <2> QED BY <2>1 DEF PartSeqs
<1>2. uploads' \in [Ids -> [state : {"unused", "open", "closed"}, key : Keys \cup {Absent},
                            parts : PartSeqs]]
  BY <1>1, Zenon DEF CreateMultipartUpload, ObjectInv, TypeOK
<1>3. requests' \in 0 .. MaxRequests
  BY S3Assumption DEF CreateMultipartUpload, Admit, ObjectInv, TypeOK
<1>4. Counted'
  BY <1>2, <1>3 DEF CreateMultipartUpload, Counted, ObjectInv, TypeOK
<1> QED BY <1>4, OutsideStep DEF CreateMultipartUpload

LEMMA UploadPartStep ==
  ASSUME ObjectInv, Sessions, NEW u \in Ids, NEW p \in Parts, UploadPart(u, p)
  PROVE  ObjectInv'
<1> DEFINE a == uploads[u].parts
<1>1. a \in PartSeqs /\ acked[u] = a /\ Len(a) < MaxParts
  BY DEF UploadPart, Sessions, Session, ObjectInv, TypeOK
<1>2. Append(a, p) \in PartSeqs
  <2> HIDE DEF a
  <2>1. PICK n \in 0 .. MaxParts : a \in [1 .. n -> Parts]
    BY <1>1 DEF PartSeqs
  <2>2. n \in Nat /\ MaxParts \in Nat
    BY S3Assumption
  <2>3. a \in Seq(Parts) /\ Len(a) = n
    BY <2>1, <2>2
  <2>4. Append(a, p) \in [1 .. n + 1 -> Parts]
    <3> DEFINE b == Append(a, p)
    <3>1. b \in Seq(Parts) /\ Len(b) = n + 1
      BY <2>2, <2>3
    <3> HIDE DEF b
    <3>2. b \in [1 .. Len(b) -> Parts]
      BY <3>1
    <3> QED BY <3>1, <3>2 DEF b
  <2>5. n + 1 \in 0 .. MaxParts
    BY <1>1, <2>2, <2>3
  <2> QED BY <2>4, <2>5 DEF PartSeqs
<1>3. uploads' \in [Ids -> [state : {"unused", "open", "closed"}, key : Keys \cup {Absent},
                            parts : PartSeqs]]
  BY <1>2, ZenonT(30) DEF UploadPart, ObjectInv, TypeOK
<1>4. acked' \in [Ids -> PartSeqs]
  BY <1>1, <1>2 DEF UploadPart, ObjectInv, TypeOK
<1>5. requests' \in 0 .. MaxRequests
  BY S3Assumption DEF UploadPart, Admit, ObjectInv, TypeOK
<1>6. Counted'
  BY <1>3, <1>4, <1>5 DEF UploadPart, Counted, ObjectInv, TypeOK
<1> QED BY <1>6, OutsideStep DEF UploadPart

LEMMA AbortStep ==
  ASSUME ObjectInv, NEW u \in Ids, AbortMultipartUpload(u)
  PROVE  ObjectInv'
<1>1. <<>> \in PartSeqs
  <2>1. <<>> \in [1 .. 0 -> Parts] /\ 0 \in 0 .. MaxParts
    BY S3Assumption
  <2> QED BY <2>1 DEF PartSeqs
<1>2. uploads' \in [Ids -> [state : {"unused", "open", "closed"}, key : Keys \cup {Absent},
                            parts : PartSeqs]]
  BY <1>1, ZenonT(30) DEF AbortMultipartUpload, ObjectInv, TypeOK
<1>3. Counted'
  BY <1>2 DEF AbortMultipartUpload, Counted, ObjectInv, TypeOK
<1> QED BY <1>3, OutsideStep DEF AbortMultipartUpload

(* A restart keeps what the finished writes promised.                      *)
LEMMA RestartStep ==
  ASSUME ObjectInv, Restart
  PROVE  ObjectInv'
<1>1. <<>> \in PartSeqs
  <2>1. <<>> \in [1 .. 0 -> Parts] /\ 0 \in 0 .. MaxParts
    BY S3Assumption
  <2> QED BY <2>1 DEF PartSeqs
<1>2. uploads' \in [Ids -> [state : {"unused", "open", "closed"}, key : Keys \cup {Absent},
                            parts : PartSeqs]]
  <2> DEFINE Entry == [state : {"unused", "open", "closed"}, key : Keys \cup {Absent},
                       parts : PartSeqs]
  <2>1. ASSUME NEW s \in Entry PROVE [s EXCEPT !.state = "closed", !.parts = <<>>] \in Entry
    BY <1>1, Zenon
  <2>2. uploads \in [Ids -> Entry]
    BY DEF ObjectInv, TypeOK
  <2> HIDE DEF Entry
  <2>3. uploads' \in [Ids -> Entry]
    BY <2>1, <2>2, Zenon DEF Restart
  <2> QED BY <2>3 DEF Entry
<1>3. faults' \in 0 .. MaxFaults
  <2>1. faults \in 0 .. MaxFaults /\ faults < MaxFaults /\ faults' = faults + 1
    BY Zenon DEF Restart, Fault, ObjectInv, TypeOK
  <2> QED BY <2>1, S3Assumption
<1>4. \A h \in Handlers : at'[h] = Idle
  BY Zenon DEF Restart
<1>5. at' \in [Handlers -> Request]
  BY IdleRequest, Zenon DEF Restart
<1>6. wrote' \in [Keys -> Promises]
  <2>1. Unpromised \in Promises /\ wrote \in [Keys -> Promises]
    BY DEF Unpromised, Promises, ObjectInv, TypeOK
  <2> QED BY <2>1, Zenon DEF Restart
<1>7. TypeOK'
  BY <1>2, <1>3, <1>5, <1>6, Zenon DEF Restart, Promises, ObjectInv, TypeOK
<1>8. Shapes'
  BY <1>4, IdleRequest DEF Shapes
<1>9. AloneApart'
  BY <1>4, IdleRequest DEF AloneApart, Conflict
<1>10. KeysKept'
  <2> SUFFICES ASSUME NEW k \in Keys PROVE KeptKey(k)'
    BY DEF KeysKept
  <2>1. CASE \E h \in Handlers : k \in at[h].writes
    <3>1. wrote'[k] = Unpromised
      BY <2>1, Zenon DEF Restart
    <3> QED BY <3>1 DEF KeptKey, Keeps, Unpromised
  <2>2. CASE \A h \in Handlers : k \notin at[h].writes
    <3>1. UNCHANGED <<names, s3meta>> /\ wrote'[k] = wrote[k]
      BY <2>2, Zenon DEF Restart
    <3>2. ASSUME NEW h \in Handlers, Midway(at[h]) PROVE at[h].key # k
      BY <2>2, <3>2 DEF Midway, ObjectInv, Shapes, Shape
    <3>3. KeptKey(k)
      BY <3>2, Zenon DEF ObjectInv, KeysKept
    <3> QED BY <3>1, <3>3 DEF KeptKey
  <2> QED BY <2>1, <2>2
<1>11. AloneKnows'
  <2>1. Idle.op \notin {"put", "copy", "complete"}
    BY IdleRequest
  <2> QED BY <1>4, <2>1 DEF AloneKnows, Knows
<1>12. HeadersKept'
  BY Zenon DEF Restart, Unpromised, ObjectInv, HeadersKept
<1> QED BY <1>7, <1>8, <1>9, <1>10, <1>11, <1>12 DEF ObjectInv

(* The multipart sessions.                                                 *)
LEMMA OpKept ==
  ASSUME NEW a \in Request, NEW s, NEW x
  PROVE  /\ [a EXCEPT !.step = s].op = a.op
         /\ [a EXCEPT !.step = s, !.kind = x].op = a.op
         /\ [a EXCEPT !.step = s, !.data = x].op = a.op
         /\ [a EXCEPT !.step = s, !.hdr = x].op = a.op
         /\ [a EXCEPT !.step = s, !.rest = x].op = a.op
BY Zenon DEF Request

(* The sessions and the ghosts do not change, and a request that holds a   *)
(* session held it before.                                                 *)
LEMMA SessionsUntouched ==
  ASSUME Sessions, Holders, UNCHANGED <<uploads, acked, made>>,
         \A g \in Handlers, u \in Ids : Holds(at'[g], u) =>
           /\ Holds(at[g], u)
           /\ at'[g].step # "collect" => Assembled(at'[g].data, acked[u])
  PROVE  Sessions' /\ Holders'
<1>1. Sessions'
  BY DEF Sessions, Session
<1>2. Holders'
  <2> SUFFICES ASSUME NEW h \in Handlers, NEW u \in Ids, Holds(at'[h], u)
               PROVE  /\ uploads'[u].state = "closed" /\ uploads'[u].parts = acked'[u]
                      /\ made'[u] = <<>>
                      /\ at'[h].step # "collect" => Assembled(at'[h].data, acked[u])
                      /\ \A g \in Handlers : Holds(at'[g], u) => g = h
    BY DEF Holders, Holder, Holds
  <2>1. /\ uploads[u].state = "closed" /\ uploads[u].parts = acked[u] /\ made[u] = <<>>
        /\ \A g \in Handlers : Holds(at[g], u) => g = h
    BY Zenon DEF Holders, Holder
  <2> QED BY <2>1
<1> QED BY <1>1, <1>2

LEMMA OtherStep ==
  ASSUME ObjectInv, Sessions, Holders, NEW h \in Handlers, NEW r, r.op # "complete",
         at' = [at EXCEPT ![h] = r], UNCHANGED <<uploads, acked, made>>
  PROVE  Sessions' /\ Holders'
<1>1. at'[h] = r /\ \A g \in Handlers : g # h => at'[g] = at[g]
  BY DEF ObjectInv, TypeOK
<1>2. \A u \in Ids : ~Holds(at'[h], u)
  BY <1>1 DEF Holds
<1>3. \A g \in Handlers, u \in Ids : Holds(at'[g], u) =>
        /\ Holds(at[g], u)
        /\ at'[g].step # "collect" => Assembled(at'[g].data, acked[u])
  BY <1>1, <1>2 DEF Holders, Holder
<1> QED BY <1>3, SessionsUntouched

\* A step of a handler that serves another request than CompleteMultipartUpload.
OtherSteps(h) ==
  \/ CheckDedup(h) \/ PutContent(h) \/ VerifyChecksum(h) \/ PersistS3Meta(h)
  \/ GetContent(h) \/ GetHeaders(h) \/ GetDone(h)
  \/ DeleteLease(h) \/ DeleteContent(h)
  \/ CopyRead(h) \/ CopyPut(h) \/ CopyHeaders(h) \/ CopyMeta(h)

LEMMA OtherSessions ==
  ASSUME ObjectInv, Sessions, Holders, NEW h \in Handlers, OtherSteps(h)
  PROVE  Sessions' /\ Holders'
<1>1. UNCHANGED <<uploads, acked, made>>
  BY Zenon
    DEF OtherSteps, CheckDedup, PutContent, VerifyChecksum, PersistS3Meta, GetContent, GetHeaders,
         GetDone, DeleteLease, DeleteContent, CopyRead, CopyPut, CopyHeaders, CopyMeta
<1>2. at[h] \in Request /\ at[h].op # "complete"
  BY DEF OtherSteps, CheckDedup, PutContent, VerifyChecksum, PersistS3Meta, GetContent, GetHeaders,
         GetDone, DeleteLease, DeleteContent, CopyRead, CopyPut, CopyHeaders, CopyMeta, Doing,
         Deleting, ObjectInv, TypeOK
<1>3. Idle.op # "complete"
  BY IdleRequest
<1> DEFINE Other == \E r : r.op # "complete" /\ at' = [at EXCEPT ![h] = r]
<1>4. End(h) => Other
  BY <1>3, Zenon DEF End
<1>5. \A s : Goto(h, s) => Other
  <2> SUFFICES ASSUME NEW s, Goto(h, s) PROVE Other
    OBVIOUS
  <2> DEFINE r == [at[h] EXCEPT !.step = s]
  <2>1. r.op # "complete"
    BY <1>2, OpKept
  <2>2. at' = [at EXCEPT ![h] = r]
    BY DEF Goto
  <2> HIDE DEF r
  <2> QED BY <2>1, <2>2, Zenon
<1>6. \A s, x :
        \/ Continue(h, [at[h] EXCEPT !.step = s, !.kind = x])
        \/ Continue(h, [at[h] EXCEPT !.step = s, !.data = x])
        \/ Continue(h, [at[h] EXCEPT !.step = s, !.hdr = x])
        \/ Continue(h, [at[h] EXCEPT !.step = s, !.rest = x])
        => Other
  <2>1. \A r : Continue(h, r) /\ r.op # "complete" => Other
    BY Zenon DEF Continue
  <2> HIDE DEF Other
  <2> SUFFICES ASSUME NEW s, NEW x
               PROVE  \/ Continue(h, [at[h] EXCEPT !.step = s, !.kind = x])
                      \/ Continue(h, [at[h] EXCEPT !.step = s, !.data = x])
                      \/ Continue(h, [at[h] EXCEPT !.step = s, !.hdr = x])
                      \/ Continue(h, [at[h] EXCEPT !.step = s, !.rest = x])
                      => Other
    BY Zenon
  <2>2. Continue(h, [at[h] EXCEPT !.step = s, !.kind = x]) => Other
    <3> DEFINE r == [at[h] EXCEPT !.step = s, !.kind = x]
    <3>1. r.op # "complete"
      BY <1>2, OpKept
    <3> SUFFICES Continue(h, r) => Other
      OBVIOUS
    <3> HIDE DEF r
    <3> QED BY <2>1, <3>1
  <2>3. Continue(h, [at[h] EXCEPT !.step = s, !.data = x]) => Other
    <3> DEFINE r == [at[h] EXCEPT !.step = s, !.data = x]
    <3>1. r.op # "complete"
      BY <1>2, OpKept
    <3> SUFFICES Continue(h, r) => Other
      OBVIOUS
    <3> HIDE DEF r
    <3> QED BY <2>1, <3>1
  <2>4. Continue(h, [at[h] EXCEPT !.step = s, !.hdr = x]) => Other
    <3> DEFINE r == [at[h] EXCEPT !.step = s, !.hdr = x]
    <3>1. r.op # "complete"
      BY <1>2, OpKept
    <3> SUFFICES Continue(h, r) => Other
      OBVIOUS
    <3> HIDE DEF r
    <3> QED BY <2>1, <3>1
  <2>5. Continue(h, [at[h] EXCEPT !.step = s, !.rest = x]) => Other
    <3> DEFINE r == [at[h] EXCEPT !.step = s, !.rest = x]
    <3>1. r.op # "complete"
      BY <1>2, OpKept
    <3> SUFFICES Continue(h, r) => Other
      OBVIOUS
    <3> HIDE DEF r
    <3> QED BY <2>1, <3>1
  <2> QED BY <2>2, <2>3, <2>4, <2>5
<1>7. NextKey(h) => Other
  <2> SUFFICES ASSUME NextKey(h) PROVE Other
    OBVIOUS
  <2>1. CASE End(h)
    BY <1>4, <2>1
  <2>2. CASE Continue(h, [at[h] EXCEPT !.step = "lease", !.rest = Tail(at[h].rest)])
    BY <1>6, <2>2, Zenon
  <2> QED BY <2>1, <2>2 DEF NextKey
<1> HIDE DEF Other
<1>8. CheckDedup(h) => Other
  BY <1>6, Zenon DEF CheckDedup
<1>9. PutContent(h) => Other
  BY <1>4, <1>5 DEF PutContent
<1>10. VerifyChecksum(h) => Other
  BY <1>4, <1>5 DEF VerifyChecksum
<1>11. PersistS3Meta(h) => Other
  BY <1>4 DEF PersistS3Meta
<1>12. GetContent(h) => Other
  BY <1>4, <1>6, Zenon DEF GetContent
<1>13. GetHeaders(h) => Other
  BY <1>6, Zenon DEF GetHeaders
<1>14. GetDone(h) => Other
  BY <1>4 DEF GetDone
<1>15. DeleteLease(h) => Other
  BY <1>5, <1>7 DEF DeleteLease
<1>16. DeleteContent(h) => Other
  BY <1>7 DEF DeleteContent
<1>17. CopyRead(h) => Other
  BY <1>4, <1>6, Zenon DEF CopyRead
<1>18. CopyPut(h) => Other
  BY <1>4, <1>5 DEF CopyPut
<1>19. CopyHeaders(h) => Other
  BY <1>6, Zenon DEF CopyHeaders
<1>20. CopyMeta(h) => Other
  BY <1>4 DEF CopyMeta
<1>21. Other
  BY <1>8, <1>9, <1>10, <1>11, <1>12, <1>13, <1>14, <1>15, <1>16, <1>17, <1>18, <1>19, <1>20, Zenon
    DEF OtherSteps
<1> QED BY <1>1, <1>21, OtherStep, Zenon DEF Other

(* What a step does to one session.                                        *)
LEMMA SessionStep ==
  ASSUME Sessions, Holders, NEW u \in Ids,
         \A v \in Ids : v # u =>
           uploads'[v] = uploads[v] /\ acked'[v] = acked[v] /\ made'[v] = made[v],
         \A g \in Handlers, v \in Ids : v # u /\ Holds(at'[g], v) => at'[g] = at[g],
         Session(u)',
         \A g \in Handlers : Holds(at'[g], u) => Holder(g, u)'
  PROVE  Sessions' /\ Holders'
<1>1. Sessions'
  <2> SUFFICES ASSUME NEW v \in Ids, v # u PROVE Session(v)'
    BY DEF Sessions
  <2> QED BY DEF Sessions, Session
<1>2. Holders'
  <2> SUFFICES ASSUME NEW h \in Handlers, NEW v \in Ids, v # u, Holds(at'[h], v)
               PROVE  Holder(h, v)'
    BY Zenon DEF Holders, Holds
  <2>1. Holder(h, v)
    BY Zenon DEF Holders
  <2>2. \A g \in Handlers : Holds(at'[g], v) => Holds(at[g], v)
    OBVIOUS
  <2>3. at'[h] = at[h] /\ uploads'[v] = uploads[v] /\ acked'[v] = acked[v] /\ made'[v] = made[v]
    OBVIOUS
  <2> QED BY <2>1, <2>2, <2>3, Zenon DEF Holder, Holds
<1> QED BY <1>1, <1>2

LEMMA BeginSessions ==
  ASSUME S3Inv, NEW h \in Handlers, NEW r, Fresh(r), Begin(h, r)
  PROVE  S3Inv'
<1>1. /\ ObjectInv'
      /\ \A g \in Handlers : g # h => Alike(at'[g], at[g])
      /\ \A u : ~Holds(at'[h], u)
  BY BeginStep, Zenon DEF S3Inv
<1>2. \A g \in Handlers, u \in Ids : Holds(at'[g], u) =>
        /\ Holds(at[g], u)
        /\ at'[g].step # "collect" => Assembled(at'[g].data, acked[u])
  <2> SUFFICES ASSUME NEW g \in Handlers, NEW u \in Ids, Holds(at'[g], u)
               PROVE  /\ Holds(at[g], u)
                      /\ at'[g].step # "collect" => Assembled(at'[g].data, acked[u])
    OBVIOUS
  <2>1. Alike(at'[g], at[g])
    BY <1>1
  <2>2. Holds(at[g], u)
    BY <2>1, AlikeSame
  <2>3. Holder(g, u)
    BY <2>2 DEF S3Inv, Holders
  <2> QED BY <2>1, <2>2, <2>3, Zenon DEF Alike, Holder
<1>3. UNCHANGED <<uploads, acked, made>>
  BY DEF Begin
<1> QED BY <1>1, <1>2, <1>3, SessionsUntouched, Zenon DEF S3Inv

LEMMA CreateSessions ==
  ASSUME S3Inv, NEW u \in Ids, NEW k \in Keys, CreateMultipartUpload(u, k)
  PROVE  S3Inv'
<1>1. Session(u) /\ uploads[u].state = "unused"
  BY DEF S3Inv, Sessions, CreateMultipartUpload
<1>2. UNCHANGED <<at, acked, made>>
  BY DEF CreateMultipartUpload
<1>3. /\ uploads'[u].state = "open" /\ uploads'[u].key = k /\ uploads'[u].parts = <<>>
      /\ \A v \in Ids : v # u => uploads'[v] = uploads[v]
  BY DEF CreateMultipartUpload, S3Inv, ObjectInv, TypeOK
<1>4. Session(u)'
  BY <1>1, <1>2, <1>3, Zenon DEF Session
<1>5. \A g \in Handlers : ~Holds(at[g], u)
  BY <1>1, Zenon DEF S3Inv, Holders, Holder
<1>6. Sessions' /\ Holders'
  BY <1>2, <1>3, <1>4, <1>5, SessionStep, Zenon DEF S3Inv
<1> QED BY <1>6, CreateStep DEF S3Inv

LEMMA UploadPartSessions ==
  ASSUME S3Inv, NEW u \in Ids, NEW p \in Parts, UploadPart(u, p)
  PROVE  S3Inv'
<1>1. Session(u) /\ uploads[u].state = "open"
  BY DEF S3Inv, Sessions, UploadPart
<1>2. UNCHANGED <<at, made>>
  BY DEF UploadPart
<1>3. /\ uploads'[u].state = "open" /\ uploads'[u].key = uploads[u].key
      /\ uploads'[u].parts = Append(uploads[u].parts, p)
      /\ \A v \in Ids : v # u => uploads'[v] = uploads[v]
  BY <1>1 DEF UploadPart, S3Inv, ObjectInv, TypeOK
<1>4. acked'[u] = Append(acked[u], p) /\ \A v \in Ids : v # u => acked'[v] = acked[v]
  BY DEF UploadPart, S3Inv, ObjectInv, TypeOK
<1>5. Session(u)'
  BY <1>1, <1>2, <1>3, <1>4 DEF Session
<1>6. \A g \in Handlers : ~Holds(at[g], u)
  BY <1>1 DEF S3Inv, Holders, Holder
<1>7. Sessions' /\ Holders'
  BY <1>2, <1>3, <1>4, <1>5, <1>6, SessionStep DEF S3Inv
<1> QED BY <1>7, UploadPartStep DEF S3Inv

LEMMA AbortSessions ==
  ASSUME S3Inv, NEW u \in Ids, AbortMultipartUpload(u)
  PROVE  S3Inv'
<1>1. Session(u) /\ uploads[u].state = "open"
  BY DEF S3Inv, Sessions, AbortMultipartUpload
<1>2. UNCHANGED <<at, acked, made>>
  BY DEF AbortMultipartUpload
<1>3. /\ uploads'[u].state = "closed" /\ uploads'[u].key = uploads[u].key
      /\ \A v \in Ids : v # u => uploads'[v] = uploads[v]
  BY <1>1 DEF AbortMultipartUpload, S3Inv, ObjectInv, TypeOK
<1>4. Session(u)'
  BY <1>1, <1>2, <1>3 DEF Session
<1>5. \A g \in Handlers : ~Holds(at[g], u)
  BY <1>1 DEF S3Inv, Holders, Holder
<1>6. Sessions' /\ Holders'
  BY <1>2, <1>3, <1>4, <1>5, SessionStep, Zenon DEF S3Inv
<1> QED BY <1>6, AbortStep DEF S3Inv

LEMMA RestartSessions ==
  ASSUME S3Inv, Restart
  PROVE  S3Inv'
<1>1. \A h \in Handlers : at'[h] = Idle
  BY Zenon DEF Restart
<1>2. Holders'
  BY <1>1, IdleRequest DEF Holders
<1>3. Sessions'
  <2> SUFFICES ASSUME NEW u \in Ids PROVE Session(u)'
    BY DEF Sessions
  <2>1. Session(u) /\ acked'[u] = acked[u] /\ made'[u] = made[u]
    BY Zenon DEF Restart, S3Inv, Sessions
  <2>2. CASE uploads[u].state = "unused"
    <3>1. uploads'[u] = uploads[u]
      BY <2>2, Zenon DEF Restart
    <3> QED BY <2>1, <3>1 DEF Session
  <2>3. CASE uploads[u].state # "unused"
    <3>1. uploads'[u].state = "closed" /\ uploads'[u].key = uploads[u].key
      BY <2>3, Zenon DEF Restart, S3Inv, ObjectInv, TypeOK
    <3> QED BY <2>1, <2>3, <3>1 DEF Session
  <2> QED BY <2>2, <2>3
<1> QED BY <1>2, <1>3, RestartStep DEF S3Inv

LEMMA TakeSessions ==
  ASSUME S3Inv, NEW h \in Handlers, TakeSession(h)
  PROVE  S3Inv'
<1> DEFINE r == [at[h] EXCEPT !.step = "collect"]
<1>1. PICK u \in Ids : at[h] \in Request /\ at[h].op = "complete" /\ u = at[h].id
  BY DEF S3Inv, ObjectInv, TypeOK, Shapes, TakeSession, Doing, Shape
<1>2. ObjectInv'
  BY TakeSessionStep DEF S3Inv
<1>3. CASE /\ uploads[u].state = "open" /\ uploads' = [uploads EXCEPT ![u].state = "closed"]
           /\ Goto(h, "collect")
  <2>1. "collect" \in Steps
    BY DEF Steps
  <2>2. Same(r, at[h]) /\ r.step = "collect"
    BY <1>1, <2>1, StepField
  <2>3. at'[h] = r /\ \A g \in Handlers : g # h => at'[g] = at[g]
    BY <1>3 DEF Goto, S3Inv, ObjectInv, TypeOK
  <2> HIDE DEF r
  <2>4. Session(u) /\ \A g \in Handlers : ~Holds(at[g], u)
    BY <1>1, <1>3 DEF S3Inv, Sessions, Holders, Holder
  <2>5. UNCHANGED <<acked, made>>
    BY DEF TakeSession
  <2>6. /\ uploads'[u].state = "closed" /\ uploads'[u].key = uploads[u].key
        /\ uploads'[u].parts = uploads[u].parts
        /\ \A v \in Ids : v # u => uploads'[v] = uploads[v]
    BY <1>1, <1>3 DEF S3Inv, ObjectInv, TypeOK
  <2>7. \A v \in Ids : Holds(at'[h], v) => v = u
    BY <1>1, <2>2, <2>3 DEF Holds, Same
  <2>8. Session(u)'
    BY <1>3, <2>4, <2>5, <2>6 DEF Session
  <2>9. \A g \in Handlers : Holds(at'[g], u) => g = h
    BY <2>3, <2>4
  <2>10. Holder(h, u)'
    BY <1>3, <2>2, <2>3, <2>4, <2>5, <2>6, <2>9, Zenon DEF Holder, Session, Holds
  <2>11. \A g \in Handlers, v \in Ids : v # u /\ Holds(at'[g], v) => at'[g] = at[g]
    BY <2>3, <2>7
  <2>12. Sessions' /\ Holders'
    BY <1>1, <2>5, <2>6, <2>8, <2>9, <2>10, <2>11, SessionStep, Zenon DEF S3Inv
  <2> QED BY <1>2, <2>12 DEF S3Inv
<1>4. CASE End(h) /\ UNCHANGED uploads
  <2>1. at' = [at EXCEPT ![h] = Idle] /\ Idle.op # "complete"
    BY <1>4, IdleRequest DEF End
  <2>2. UNCHANGED <<uploads, acked, made>>
    BY <1>4 DEF TakeSession
  <2>3. Sessions' /\ Holders'
    BY <2>1, <2>2, OtherStep, Zenon DEF S3Inv
  <2> QED BY <1>2, <2>3 DEF S3Inv
<1> QED BY <1>1, <1>3, <1>4 DEF TakeSession

(* The handler that holds a session goes on with the content it assembled. *)
LEMMA HoldingStep ==
  ASSUME S3Inv, ObjectInv', NEW h \in Handlers, Holds(at[h], at[h].id), at[h].id \in Ids,
         \A g \in Handlers : g # h => at'[g] = at[g],
         UNCHANGED <<uploads, acked, made>>,
         \/ at'[h] = Idle
         \/ Same(at'[h], at[h]) /\ Assembled(at'[h].data, acked[at[h].id])
  PROVE  S3Inv'
<1>1. ASSUME NEW g \in Handlers, NEW u \in Ids, Holds(at'[g], u)
      PROVE  /\ Holds(at[g], u)
             /\ at'[g].step # "collect" => Assembled(at'[g].data, acked[u])
  <2>1. CASE g # h
    BY <1>1, <2>1 DEF S3Inv, Holders, Holder
  <2>2. CASE g = h
    <3>1. at'[h] # Idle
      BY <1>1, <2>2, IdleRequest, Zenon
    <3>2. u = at[h].id
      BY <1>1, <2>2, <3>1 DEF Holds, Same
    <3> QED BY <2>2, <3>1, <3>2
  <2> QED BY <2>1, <2>2
<1>2. Sessions' /\ Holders'
  BY <1>1, SessionsUntouched DEF S3Inv
<1> QED BY <1>2 DEF S3Inv

LEMMA AssembleSessions ==
  ASSUME S3Inv, NEW h \in Handlers,
         AssembleParts(h) \/ ChecksumRead(h) \/ ChecksumWrite(h)
  PROVE  S3Inv'
<1> DEFINE u == at[h].id
<1>1. Holds(at[h], u) /\ u \in Ids
  <2>1. at[h].op = "complete" /\ at[h].step \in {"collect", "sum", "merge"}
    BY Zenon DEF AssembleParts, ChecksumRead, ChecksumWrite, Doing
  <2> QED BY <2>1 DEF Holds, S3Inv, ObjectInv, Shapes, Shape
<1>2. UNCHANGED <<uploads, acked, made>>
  BY Zenon DEF AssembleParts, ChecksumRead, ChecksumWrite
<1>3. \A g \in Handlers : g # h => at'[g] = at[g]
  <2>1. ASSUME NEW r, at' = [at EXCEPT ![h] = r]
        PROVE  \A g \in Handlers : g # h => at'[g] = at[g]
    BY <2>1 DEF S3Inv, ObjectInv, TypeOK
  <2>2. CASE \E r : Continue(h, r)
    BY <2>1, <2>2 DEF Continue
  <2>3. CASE End(h)
    BY <2>1, <2>3 DEF End
  <2>4. CASE Goto(h, "put")
    BY <2>1, <2>4 DEF Goto
  <2> QED BY <2>2, <2>3, <2>4, Zenon DEF AssembleParts, ChecksumRead, ChecksumWrite
<1>4. Holder(h, u)
  BY <1>1, Zenon DEF S3Inv, Holders
<1>5. CASE AssembleParts(h)
  <2>1. /\ ObjectInv'
        /\ \/ at'[h] = Idle
           \/ Same(at'[h], at[h]) /\ Assembled(at'[h].data, uploads[u].parts)
    BY <1>5, AssemblePartsStep, Zenon DEF S3Inv
  <2> QED BY <1>1, <1>2, <1>3, <1>4, <2>1, HoldingStep, Zenon DEF Holder
<1>6. CASE ChecksumRead(h) \/ ChecksumWrite(h)
  <2>1. ObjectInv' /\ Same(at'[h], at[h]) /\ at'[h].data = at[h].data
    BY <1>6, ChecksumReadStep, ChecksumWriteStep DEF S3Inv
  <2>2. at[h].step # "collect"
    BY <1>6 DEF ChecksumRead, ChecksumWrite, Doing
  <2>3. Assembled(at'[h].data, acked[u])
    BY <1>4, <2>1, <2>2, Zenon DEF Holder
  <2> QED BY <1>1, <1>2, <1>3, <2>1, <2>3, HoldingStep, Zenon
<1> QED BY <1>5, <1>6, Zenon

LEMMA CompleteSessions ==
  ASSUME S3Inv, NEW h \in Handlers, CompletePut(h)
  PROVE  S3Inv'
<1> DEFINE d == at[h].data
<1>1. PICK u \in Ids : Holds(at[h], u) /\ at[h].step = "put" /\ d \in Contents /\ u = at[h].id
  BY DEF CompletePut, Doing, Holds, S3Inv, ObjectInv, Shapes, Shape
<1>2. Holder(h, u) /\ Session(u)
  BY <1>1 DEF S3Inv, Holders, Sessions
<1>3. ObjectInv'
  BY CompletePutStep, Zenon DEF S3Inv
<1>4. at'[h] = Idle /\ \A g \in Handlers : g # h => at'[g] = at[g]
  BY Zenon DEF CompletePut, End, S3Inv, ObjectInv, TypeOK
<1>5. UNCHANGED <<uploads, acked>>
  BY DEF CompletePut
<1>6. CASE made' = [made EXCEPT ![u] = Append(@, d)]
  <2>1. made[u] = <<>> /\ made \in [Ids -> Seq(Contents)]
    BY <1>2 DEF Holder, S3Inv, ObjectInv, TypeOK
  <2> HIDE DEF d
  <2>2. made'[u] = <<d>> /\ \A v \in Ids : v # u => made'[v] = made[v]
    BY <1>1, <1>6, <2>1
  <2>3. Len(made'[u]) = 1 /\ made'[u][1] = d
    BY <2>2
  <2>4. Assembled(d, acked[u])
    BY <1>1, <1>2 DEF Holder, d
  <2>5. Session(u)'
    BY <1>2, <1>5, <2>3, <2>4, Zenon DEF Session, Holder
  <2>6. \A g \in Handlers : ~Holds(at'[g], u)
    BY <1>2, <1>4, IdleRequest, Zenon DEF Holder
  <2>7. \A g \in Handlers, v \in Ids : Holds(at'[g], v) => at'[g] = at[g]
    BY <1>4, IdleRequest, Zenon
  <2>8. Sessions' /\ Holders'
    BY <1>1, <1>5, <2>2, <2>5, <2>6, <2>7, SessionStep, Zenon DEF S3Inv
  <2> QED BY <1>3, <2>8 DEF S3Inv
<1>7. CASE UNCHANGED made
  BY <1>1, <1>3, <1>4, <1>5, <1>7, HoldingStep, Zenon
<1> QED BY <1>1, <1>6, <1>7, ZenonT(30) DEF CompletePut

LEMMA InitInv ==
  ASSUME Init
  PROVE  S3Inv
<1>1. <<>> \in PartSeqs
  <2>1. <<>> \in [1 .. 0 -> Parts] /\ 0 \in 0 .. MaxParts
    BY S3Assumption
  <2> QED BY <2>1 DEF PartSeqs
<1>2. NoHeaders \in Headers
  BY DEF NoHeaders, Headers, Sums
<1>3. uploads \in [Ids -> [state : {"unused", "open", "closed"}, key : Keys \cup {Absent},
                           parts : PartSeqs]]
  BY <1>1 DEF Init
<1>4. [Unpromised EXCEPT !.data = Absent] \in Promises
  BY DEF Unpromised, Promises
<1>5. wrote \in [Keys -> Promises]
  BY <1>4 DEF Init
<1>6. at \in [Handlers -> Request] /\ \A h \in Handlers : at[h] = Idle
  BY IdleRequest DEF Init
<1>7. acked \in [Ids -> PartSeqs] /\ made \in [Ids -> Seq(Contents)]
  BY <1>1 DEF Init
<1>8. requests \in 0 .. MaxRequests /\ faults \in 0 .. MaxFaults
  BY S3Assumption DEF Init
<1>9. names \in [Keys -> Contents \cup {Absent}] /\ s3meta \in [Keys -> Headers]
  BY <1>2 DEF Init
<1>10. TypeOK
  BY <1>3, <1>5, <1>6, <1>7, <1>8, <1>9, Zenon DEF TypeOK, Promises
<1>11. Shapes /\ AloneApart
  BY <1>6, IdleRequest, Zenon DEF Shapes, AloneApart, Conflict
<1>12. \A k \in Keys : /\ wrote[k].data = Absent /\ wrote[k].type = Free /\ wrote[k].sum = Free
                       /\ names[k] = Absent
  BY DEF Init, Unpromised
<1>13. KeysKept /\ HeadersKept
  BY <1>12, Zenon DEF KeysKept, KeptKey, Keeps, HeadersKept
<1>14. AloneKnows
  <2>1. Idle.op \notin {"put", "copy", "complete"}
    BY IdleRequest
  <2> QED BY <1>6, <2>1 DEF AloneKnows, Knows
<1>15. Sessions
  BY DEF Init, Sessions, Session
<1>16. Holders
  BY <1>6, IdleRequest DEF Holders
<1> QED BY <1>10, <1>11, <1>13, <1>14, <1>15, <1>16, Zenon DEF S3Inv, ObjectInv

LEMMA StutterInv ==
  ASSUME S3Inv, UNCHANGED vars
  PROVE  S3Inv'
<1>1. Counted'
  BY DEF vars, Counted, S3Inv, ObjectInv, TypeOK
<1>2. ObjectInv'
  BY <1>1, OutsideStep, Zenon DEF vars, S3Inv
<1>3. \A g \in Handlers, u \in Ids : Holds(at'[g], u) =>
        /\ Holds(at[g], u)
        /\ at'[g].step # "collect" => Assembled(at'[g].data, acked[u])
  BY Zenon DEF vars, S3Inv, Holders, Holder
<1>4. Sessions' /\ Holders'
  BY <1>3, SessionsUntouched DEF vars, S3Inv
<1> QED BY <1>2, <1>4 DEF S3Inv

LEMMA OtherStepInv ==
  ASSUME S3Inv, NEW h \in Handlers, OtherSteps(h)
  PROVE  S3Inv'
<1>1. Sessions' /\ Holders'
  BY OtherSessions DEF S3Inv
<1>2. ObjectInv'
  BY CheckDedupStep, PutContentStep, VerifyChecksumStep, PersistS3MetaStep, GetSteps, DeleteSteps,
     CopyReadStep, CopyPutStep, CopyHeadersStep, CopyMetaStep, Zenon DEF S3Inv, OtherSteps
<1> QED BY <1>1, <1>2 DEF S3Inv

(* A request arrives.                                                      *)
LEMMA ArrivalInv ==
  ASSUME S3Inv, NEW h \in Handlers
  PROVE  /\ \A k \in Keys, b \in Bodies, c \in HeaderKinds : PutObject(h, k, b, c[1], c[2]) => S3Inv'
         /\ \A k \in Keys : GetObject(h, k) \/ HeadObject(h, k) \/ DeleteObject(h, k) => S3Inv'
         /\ \A src, k \in Keys : CopyObject(h, src, k) => S3Inv'
         /\ \A k, l \in Keys : DeleteObjects(h, <<k, l>>) => S3Inv'
         /\ \A u \in Ids, kind \in SumKinds : CompleteMultipartUpload(h, u, kind) => S3Inv'
<1>1. \A r : Fresh(r) /\ Begin(h, r) => S3Inv'
  BY BeginSessions
<1>2. ASSUME NEW k \in Keys, NEW b \in Bodies, NEW c \in HeaderKinds, PutObject(h, k, b, c[1], c[2])
      PROVE  S3Inv'
  <2>1. c[1] \in Types \cup {Absent} /\ c[2] \in {"none", "right", "wrong"}
    BY S3Assumption
  <2>2. PICK r : /\ r = [Idle EXCEPT !.op = "put", !.step = "check", !.key = k, !.data = <<b>>,
                                     !.hdr = [type |-> c[1], sum |-> SumOf(c[2], <<b>>)],
                                     !.writes = {k}]
                 /\ Begin(h, r)
    BY <1>2 DEF PutObject
  <2>3. Fresh(r)
    BY <2>1, <2>2, PutFresh, Zenon
  <2> QED BY <1>1, <2>2, <2>3
<1>3. ASSUME NEW k \in Keys, GetObject(h, k) \/ HeadObject(h, k)
      PROVE  S3Inv'
  BY <1>1, <1>3, ReadFresh DEF GetObject, HeadObject
<1>4. ASSUME NEW k \in Keys, DeleteObject(h, k)
      PROVE  S3Inv'
  <2>1. PICK r : /\ r = [Idle EXCEPT !.op = "delete", !.step = "lease", !.rest = <<k>>,
                                     !.writes = {k}]
                 /\ Begin(h, r)
    BY <1>4 DEF DeleteObject
  <2>2. <<k>> \in Seq(Keys) /\ Len(<<k>>) > 0 /\ \A i \in DOMAIN <<k>> : <<k>>[i] \in {k}
    OBVIOUS
  <2>3. Fresh(r)
    BY <2>1, <2>2, DeleteFresh, Zenon
  <2> QED BY <1>1, <2>1, <2>3
<1>5. ASSUME NEW src \in Keys, NEW k \in Keys, CopyObject(h, src, k)
      PROVE  S3Inv'
  <2>1. PICK r : /\ r = [Idle EXCEPT !.op = "copy", !.step = "read", !.src = src, !.key = k,
                                     !.writes = {k}, !.reads = {src}]
                 /\ Begin(h, r)
    BY <1>5 DEF CopyObject
  <2>2. Fresh(r)
    BY <2>1, CopyFresh, Zenon
  <2> QED BY <1>1, <2>1, <2>2
<1>6. ASSUME NEW k \in Keys, NEW l \in Keys, DeleteObjects(h, <<k, l>>)
      PROVE  S3Inv'
  <2> DEFINE ks == <<k, l>>
  <2>1. PICK r : /\ r = [Idle EXCEPT !.op = "batch", !.step = "lease", !.rest = ks,
                                     !.writes = Range(ks)]
                 /\ Begin(h, r)
    BY <1>6 DEF DeleteObjects
  <2>2. ks \in Seq(Keys) /\ Len(ks) > 0
    OBVIOUS
  <2> HIDE DEF ks
  <2>3. Range(ks) \in SUBSET Keys /\ \A i \in DOMAIN ks : ks[i] \in Range(ks)
    BY <2>2 DEF Range
  <2>4. Fresh(r)
    BY <2>1, <2>2, <2>3, DeleteFresh, Zenon
  <2> QED BY <1>1, <2>1, <2>4
<1>7. ASSUME NEW u \in Ids, NEW kind \in SumKinds, CompleteMultipartUpload(h, u, kind)
      PROVE  S3Inv'
  <2> DEFINE k == uploads[u].key
  <2>1. k \in Keys
    BY <1>7 DEF CompleteMultipartUpload, S3Inv, Sessions, Session
  <2>2. PICK r : /\ r = [Idle EXCEPT !.op = "complete", !.step = "take", !.id = u, !.kind = kind,
                                     !.key = k, !.writes = {k}]
                 /\ Begin(h, r)
    BY <1>7 DEF CompleteMultipartUpload
  <2> HIDE DEF k
  <2>3. Fresh(r)
    BY <2>1, <2>2, CompleteFresh, Zenon
  <2> QED BY <1>1, <2>2, <2>3
<1> QED BY <1>2, <1>3, <1>4, <1>5, <1>6, <1>7

LEMMA NextInv ==
  ASSUME S3Inv, Next
  PROVE  S3Inv'
<1>1. ASSUME NEW h \in Handlers, NEW k \in Keys,
             \/ \E b \in Bodies, c \in HeaderKinds : PutObject(h, k, b, c[1], c[2])
             \/ GetObject(h, k)
             \/ HeadObject(h, k)
             \/ DeleteObject(h, k)
             \/ \E src \in Keys : CopyObject(h, src, k)
             \/ \E l \in Keys : DeleteObjects(h, <<k, l>>)
      PROVE  S3Inv'
  BY <1>1, ArrivalInv, Zenon
<1>2. ASSUME NEW h \in Handlers, OtherSteps(h)
      PROVE  S3Inv'
  BY <1>2, OtherStepInv
<1>3. ASSUME NEW h \in Handlers,
             \/ TakeSession(h) \/ AssembleParts(h) \/ ChecksumRead(h) \/ ChecksumWrite(h)
             \/ CompletePut(h)
      PROVE  S3Inv'
  BY <1>3, TakeSessions, AssembleSessions, CompleteSessions
<1>4. ASSUME NEW u \in Ids,
             \/ \E k \in Keys : CreateMultipartUpload(u, k)
             \/ \E p \in Parts : UploadPart(u, p)
             \/ AbortMultipartUpload(u)
             \/ \E h \in Handlers, kind \in SumKinds : CompleteMultipartUpload(h, u, kind)
      PROVE  S3Inv'
  BY <1>4, CreateSessions, UploadPartSessions, AbortSessions, ArrivalInv
<1>5. CASE Restart
  BY <1>5, RestartSessions
<1> QED BY <1>1, <1>2, <1>3, <1>4, <1>5, Zenon DEF Next, OtherSteps

(* parseS3Range against the meaning of a Range header.                     *)
Answers(r, asked) ==
  r.start .. r.end = asked /\ r.status = IF asked = {} THEN 416 ELSE 206

LEMMA ParsedRange ==
  ASSUME NEW size \in Nat, NEW f \in Nat \cup {Absent}, NEW l \in Nat \cup {Absent},
         NEW range, range.first = f, range.last = l
  PROVE  Answers(parseS3Range(f, l, size), Requested(range, size))
<1> DEFINE r == parseS3Range(f, l, size)
           asked == Requested(range, size)
<1> SUFFICES r.start .. r.end = asked /\ r.status = IF asked = {} THEN 416 ELSE 206
  BY DEF Answers
<1>1. asked = {i \in 0 .. size - 1 :
                 IF f = Absent THEN l # Absent /\ i >= size - l
                 ELSE i >= f /\ (l # Absent => i <= l)}
  BY DEF Requested
<1>2. ASSUME r = Unsatisfiable, asked = {}
      PROVE  r.start .. r.end = asked /\ r.status = IF asked = {} THEN 416 ELSE 206
  <2>1. r.start = 0 /\ r.end = -1 /\ r.status = 416
    BY <1>2 DEF Unsatisfiable
  <2> QED BY <1>2, <2>1
<1>3. ASSUME NEW from \in Int, NEW to \in Int, r = Span(from, to), from .. to = asked, from <= to
      PROVE  r.start .. r.end = asked /\ r.status = IF asked = {} THEN 416 ELSE 206
  <2>1. r.start = from /\ r.end = to /\ r.status = 206
    BY <1>3 DEF Span
  <2>2. from \in asked
    BY <1>3
  <2> QED BY <1>3, <2>1, <2>2
<1>4. CASE f = Absent /\ l = Absent
  <2>1. r = Unsatisfiable
    BY <1>4 DEF parseS3Range
  <2>2. asked = {}
    BY <1>1, <1>4
  <2> QED BY <1>2, <2>1, <2>2
<1>5. CASE f = Absent /\ l \in Nat
  <2>1. l # Absent
    BY <1>5, S3Assumption
  <2>2. r = IF l = 0 \/ size = 0 THEN Unsatisfiable ELSE Span(size - Least(l, size), size - 1)
    BY <1>5, <2>1 DEF parseS3Range
  <2>3. asked = {i \in 0 .. size - 1 : i >= size - l}
    BY <1>1, <1>5, <2>1
  <2> HIDE DEF asked, r
  <2>4. CASE l = 0 \/ size = 0
    <3>1. asked = {}
      BY <1>5, <2>3, <2>4
    <3> QED BY <1>2, <2>2, <2>4, <3>1
  <2>5. CASE ~(l = 0 \/ size = 0)
    <3> DEFINE from == size - Least(l, size)
    <3>1. from \in Int /\ from <= size - 1 /\ from >= 0 /\ (from = 0 \/ from = size - l)
          /\ (from = 0 => size - l <= 0)
      BY <1>5, <2>5 DEF Least
    <3>2. r = Span(from, size - 1)
      BY <2>2, <2>5
    <3> HIDE DEF from
    <3>3. from .. size - 1 = asked
      BY <1>5, <2>3, <3>1
    <3>4. size - 1 \in Int
      OBVIOUS
    <3> QED BY <1>3, <3>1, <3>2, <3>3, <3>4
  <2> QED BY <2>4, <2>5
<1>6. CASE f \in Nat /\ l = Absent
  <2>1. f # Absent
    BY <1>6, S3Assumption
  <2>2. r = IF f >= size THEN Unsatisfiable ELSE Span(f, size - 1)
    BY <1>6, <2>1 DEF parseS3Range
  <2>3. asked = {i \in 0 .. size - 1 : i >= f}
    BY <1>1, <1>6, <2>1
  <2> HIDE DEF asked, r
  <2>4. CASE f >= size
    <3>1. asked = {}
      BY <1>6, <2>3, <2>4
    <3> QED BY <1>2, <2>2, <2>4, <3>1
  <2>5. CASE ~(f >= size)
    <3>1. f .. size - 1 = asked /\ f <= size - 1
      BY <1>6, <2>3, <2>5
    <3>2. f \in Int /\ size - 1 \in Int
      BY <1>6
    <3> QED BY <1>3, <2>2, <2>5, <3>1, <3>2, Zenon
  <2> QED BY <2>4, <2>5
<1>7. CASE f \in Nat /\ l \in Nat
  <2>1. f # Absent /\ l # Absent
    BY <1>7, S3Assumption
  <2>2. r = IF f >= size \/ f > l THEN Unsatisfiable ELSE Span(f, Least(l, size - 1))
    BY <1>7, <2>1 DEF parseS3Range
  <2>3. asked = {i \in 0 .. size - 1 : i >= f /\ i <= l}
    BY <1>1, <1>7, <2>1
  <2> HIDE DEF asked, r
  <2>4. CASE f >= size \/ f > l
    <3>1. asked = {}
      BY <1>7, <2>3, <2>4
    <3> QED BY <1>2, <2>2, <2>4, <3>1
  <2>5. CASE ~(f >= size \/ f > l)
    <3> DEFINE to == Least(l, size - 1)
    <3>1. to \in Int /\ f <= to /\ to <= l /\ to <= size - 1 /\ (to = l \/ to = size - 1)
      BY <1>7, <2>5 DEF Least
    <3>2. r = Span(f, to)
      BY <2>2, <2>5
    <3> HIDE DEF to
    <3>3. f .. to = asked
      BY <1>7, <2>3, <3>1
    <3>4. f \in Int
      BY <1>7
    <3> QED BY <1>3, <3>1, <3>2, <3>3, <3>4, Zenon
  <2> QED BY <2>4, <2>5
<1> QED BY <1>4, <1>5, <1>6, <1>7

LEMMA ServedRange ==
  ASSUME ObjectInv, NEW h \in Handlers, Doing(h, "get", "served"), NEW range \in Ranges,
         NEW tag \in {Absent, at[h].data, Append(at[h].data, Bad)}
  PROVE  LET r == Answer(at[h].data, Absent, Absent, tag, range)
             asked == Requested(range, Len(at[h].data)) IN
         IF tag \in {Absent, at[h].data}
         THEN r.start .. r.end = asked /\ r.status = (IF asked = {} THEN 416 ELSE 206)
         ELSE r = Full(Len(at[h].data))
<1> DEFINE d == at[h].data
           r == Answer(d, Absent, Absent, tag, range)
           asked == Requested(range, Len(d))
<1> SUFFICES IF tag \in {Absent, d}
             THEN r.start .. r.end = asked /\ r.status = (IF asked = {} THEN 416 ELSE 206)
             ELSE r = Full(Len(d))
  BY Zenon
<1>1. d \in Contents
  BY Zenon DEF Doing, ObjectInv, Shapes, Shape
<1> HIDE DEF d
<1>2. d # Absent /\ Len(d) \in Nat
  BY <1>1, ContentsAreSeqs, Zenon
<1>3. range.first \in Nat \cup {Absent} /\ range.last \in Nat \cup {Absent} /\ range # Absent
  <2>1. Positions \subseteq Nat
    BY S3Assumption DEF Positions
  <2>2. range \in [first : Nat \cup {Absent}, last : Nat \cup {Absent}]
    BY <2>1, Zenon DEF Ranges
  <2> QED BY <2>2, S3Assumption
<1>4. CASE tag \in {Absent, d}
  <2>1. r = parseS3Range(range.first, range.last, Len(d))
    BY <1>2, <1>3, <1>4 DEF Answer
  <2>2. Answers(parseS3Range(range.first, range.last, Len(d)), asked)
    BY <1>2, <1>3, ParsedRange, Zenon
  <2> HIDE DEF r, asked
  <2> QED BY <1>4, <2>1, <2>2, Zenon DEF Answers
<1>5. CASE tag \notin {Absent, d}
  BY <1>2, <1>5, Zenon DEF Answer
<1> QED BY <1>4, <1>5

----------------------------------------------------------------------------
(* The inductive invariant holds of every S3 surface, for any number of    *)
(* handlers, keys, sessions, contents, faults and restarts.  It says where *)
(* each request of S3Server and its handlers stands, which keys it has     *)
(* half written, and who holds a multipart session.                        *)
THEOREM S3Invariant == Spec => []S3Inv
<1>1. Init => S3Inv
  BY InitInv
<1>2. S3Inv /\ [Next]_vars => S3Inv'
  BY NextInv, StutterInv
<1> QED BY <1>1, <1>2, PTL DEF Spec

(* LastWriteShows: between writes a key shows the content and the headers  *)
(* of its last write, whatever getFile refused, handleCopyObject or        *)
(* handleBatchDelete left half done for other keys, or a restart cut off.  *)
THEOREM LastWriteIsShown == Spec => []LastWriteShows
<1>1. S3Inv => LastWriteShows
  <2> SUFFICES ASSUME S3Inv, NEW k \in Keys, Settled(k)
               PROVE  KeptKey(k)
    BY Zenon DEF LastWriteShows, KeptKey
  <2>1. ASSUME NEW h \in Handlers, Midway(at[h]) PROVE at[h].key # k
    BY <2>1, Zenon DEF Midway, Settled, S3Inv, ObjectInv, Shapes, Shape
  <2> QED BY <2>1 DEF S3Inv, ObjectInv, KeysKept
<1> QED BY <1>1, S3Invariant, PTL

(* AssembledOnce: handleCompleteMultipartUpload makes at most one object   *)
(* of an upload, out of every part that handleUploadPart answered, by      *)
(* ascending number, though complete, upload and abort race.               *)
THEOREM UploadAssembledOnce == Spec => []AssembledOnce
<1>1. S3Inv => AssembledOnce
  <2> SUFFICES ASSUME S3Inv, NEW u \in Ids
               PROVE  Len(made[u]) <= 1 /\ \A c \in Range(made[u]) : Assembled(c, acked[u])
    BY DEF AssembledOnce
  <2> DEFINE m == made[u]
  <2>1. m \in Seq(Contents) /\ (m # <<>> => Len(m) = 1 /\ Assembled(m[1], acked[u]))
    BY DEF S3Inv, Sessions, Session, ObjectInv, TypeOK
  <2> HIDE DEF m
  <2>2. CASE m = <<>>
    <3>1. Len(m) = 0 /\ DOMAIN m = {}
      BY <2>2
    <3>2. Len(m) <= 1
      BY <3>1
    <3>3. \A c \in Range(m) : Assembled(c, acked[u])
      BY <3>1, Zenon DEF Range
    <3> QED BY <3>2, <3>3, Zenon DEF m
  <2>3. CASE m # <<>>
    <3>1. Len(m) = 1 /\ DOMAIN m = {1} /\ Assembled(m[1], acked[u])
      BY <2>1, <2>3
    <3>2. \A c \in Range(m) : c = m[1]
      BY <3>1 DEF Range
    <3> QED BY <3>1, <3>2 DEF m
  <2> QED BY <2>2, <2>3
<1> QED BY <1>1, S3Invariant, PTL

(* RangeServed: parseS3Range and the conditional headers answer a GET with *)
(* exactly the positions asked for, and never with a piece of the object   *)
(* when If-Range names another content.                                    *)
THEOREM RangesAreServed == Spec => []RangeServed
<1>1. S3Inv => RangeServed
  BY ServedRange, Zenon DEF S3Inv, RangeServed
<1> QED BY <1>1, S3Invariant, PTL
====
