---------------------------- MODULE KeyRegistry -----------------------------
(***************************************************************************)
(* The key registry (common/keyregistry.go) under the rotation manager     *)
(* (common/rotation.go).  The scheduler's rotation, the SIGHUP reload and  *)
(* the reload of the metrics endpoint run on goroutines of their own with  *)
(* no lock between them; each bbolt transaction is one step here.          *)
(*                                                                         *)
(* A key id holds the time it was made, so ids are numbers that grow in    *)
(* the order in which StoreKey is entered.  Key material is left out: a    *)
(* key is known by its id.                                                 *)
(***************************************************************************)
EXTENDS Integers, FiniteSets, Sequences, FiniteSetsExt

CONSTANTS
  Purposes,      \* rotationPurposes, a sequence
  Workers,       \* goroutines that reload or rotate
  NoKey,         \* no key
  MaxKeys,       \* bound on StoreKey calls
  MaxFailures    \* bound on failing transactions and restarts

VARIABLES
  keys,          \* the key_registry bucket: id -> [purpose, version, status]
  nextID,        \* the clock of newKeyID
  job,           \* what each worker is doing
  latest,        \* the key the last finished rotation or reload made (ghost)
  failures

vars == <<keys, nextID, job, latest, failures>>

KeyIds == 1 .. MaxKeys
PurposeSet == {Purposes[i] : i \in DOMAIN Purposes}
Entries == [purpose : PurposeSet, version : 1 .. MaxKeys,
            status : {"active", "retired", "pending_rotation"}]
Jobs == [op : {"idle", "reload", "rotate"}, step : {"", "store", "put", "activate"},
         at : 1 .. Len(Purposes), id : KeyIds \cup {NoKey}, version : 0 .. MaxKeys,
         alone : BOOLEAN]
Idle == [op |-> "idle", step |-> "", at |-> 1, id |-> NoKey, version |-> 0, alone |-> TRUE]

TypeOK ==
  /\ keys \in [KeyIds -> Entries \cup {NoKey}]
  /\ nextID \in 1 .. MaxKeys + 1
  /\ job \in [Workers -> Jobs]
  /\ latest \in [PurposeSet -> KeyIds \cup {NoKey}]
  /\ failures \in 0 .. MaxFailures

Init ==
  /\ keys = [k \in KeyIds |-> NoKey]
  /\ nextID = 1
  /\ job = [w \in Workers |-> Idle]
  /\ latest = [p \in PurposeSet |-> NoKey]
  /\ failures = 0

----------------------------------------------------------------------------
Stored == {k \in KeyIds : keys[k] # NoKey}
Of(p) == {k \in Stored : keys[k].purpose = p}
Active(p) == {k \in Of(p) : keys[k].status = "active"}

\* A slip that GetActiveKey avoids: the search stops at the first active key.
GetActiveKeyFirst(p) == IF Active(p) = {} THEN NoKey ELSE Min(Active(p))

\* The last active key in the bucket's order wins.
GetActiveKey(p) == IF Active(p) = {} THEN NoKey ELSE Max(Active(p))

nextVersion(p) == Max({keys[k].version : k \in Of(p)} \cup {0}) + 1

Purpose(w) == Purposes[job[w].at]
InStore(w) == job[w].step \in {"put", "activate"}

\* Workers in the middle of storing a key of w's purpose.
Others(w) == {v \in Workers \ {w} : InStore(v) /\ Purpose(v) = Purpose(w)}

\* The next purpose of the loop, or the end of it.
Following(w) ==
  IF job[w].at = Len(Purposes) THEN Idle
  ELSE [Idle EXCEPT !.op = job[w].op, !.step = "store", !.at = job[w].at + 1]

Fail ==
  /\ failures < MaxFailures
  /\ failures' = failures + 1

\* The key a worker that was alone with its purpose leaves behind.
Settle(w, k) == latest' = [latest EXCEPT ![Purpose(w)] = IF job[w].alone THEN k ELSE NoKey]

----------------------------------------------------------------------------
\* SIGHUP, the reload endpoint, or a tick of the scheduler.
StartJob(w, op) ==
  /\ job[w] = Idle
  /\ nextID <= MaxKeys
  /\ job' = [job EXCEPT ![w].op = op, ![w].step = "store"]
  /\ UNCHANGED <<keys, nextID, latest, failures>>

\* Reload when the provider has no usable secret of this purpose, Rotate when
\* reading the active key fails: the loop goes on with the next purpose.
SkipPurpose(w) ==
  /\ job[w].step = "store"
  /\ job' = [job EXCEPT ![w] = Following(w)]
  /\ UNCHANGED <<keys, nextID, latest, failures>>

\* StoreKey up to nextVersion, which reads in a transaction of its own.
StoreKey(w) ==
  /\ job[w].step = "store"
  /\ nextID <= MaxKeys
  /\ nextID' = nextID + 1
  /\ job' = [v \in Workers |->
       IF v = w THEN [job[w] EXCEPT !.step = "put", !.id = nextID,
                        !.version = nextVersion(Purpose(w)), !.alone = Others(w) = {}]
       ELSE [job[v] EXCEPT !.alone = @ /\ v \notin Others(w)]]
  /\ UNCHANGED <<keys, latest, failures>>

Entry(w, status) == [purpose |-> Purpose(w), version |-> job[w].version,
                     status |-> status]

\* Reload stores the provider's secret as an active key, beside those it has.
ReloadPut(w) ==
  /\ job[w].op = "reload" /\ job[w].step = "put"
  /\ \/ /\ keys' = [keys EXCEPT ![job[w].id] = Entry(w, "active")]
        /\ Settle(w, job[w].id)
        /\ UNCHANGED failures
     \/ Fail /\ Settle(w, latest[Purpose(w)]) /\ UNCHANGED keys
  /\ job' = [job EXCEPT ![w] = Following(w)]
  /\ UNCHANGED nextID

\* A slip that RotatePut avoids: the old keys are retired with the first transaction.
RotatePutEarly(w) ==
  /\ job[w].op = "rotate" /\ job[w].step = "put"
  /\ keys' = [k \in KeyIds |->
       IF k = job[w].id THEN Entry(w, "pending_rotation")
       ELSE IF k \in Active(Purpose(w)) THEN [keys[k] EXCEPT !.status = "retired"]
       ELSE keys[k]]
  /\ job' = [job EXCEPT ![w].step = "activate"]
  /\ UNCHANGED <<nextID, latest, failures>>

\* Rotate stores its new key as pending ...
RotatePut(w) ==
  /\ job[w].op = "rotate" /\ job[w].step = "put"
  /\ \/ /\ keys' = [keys EXCEPT ![job[w].id] = Entry(w, "pending_rotation")]
        /\ job' = [job EXCEPT ![w].step = "activate"]
        /\ UNCHANGED <<latest, failures>>
     \/ /\ Fail
        /\ Settle(w, latest[Purpose(w)])
        /\ job' = [job EXCEPT ![w] = Following(w)]
        /\ UNCHANGED keys
  /\ UNCHANGED nextID

\* ... and then activates it and retires the others, in one transaction.
SetActive(w) ==
  /\ job[w].step = "activate"
  /\ \/ /\ keys' = [k \in KeyIds |->
             IF k = job[w].id THEN [keys[k] EXCEPT !.status = "active"]
             ELSE IF k \in Active(Purpose(w)) THEN [keys[k] EXCEPT !.status = "retired"]
             ELSE keys[k]]
        /\ Settle(w, job[w].id)
        /\ UNCHANGED failures
     \/ Fail /\ Settle(w, latest[Purpose(w)]) /\ UNCHANGED keys
  /\ job' = [job EXCEPT ![w] = Following(w)]
  /\ UNCHANGED nextID

\* The node stops and starts; keys.db stays.
RestartRegistry ==
  /\ Fail
  /\ job' = [w \in Workers |-> Idle]
  /\ UNCHANGED <<keys, nextID, latest>>

Next ==
  \/ \E w \in Workers :
       \/ \E op \in {"reload", "rotate"} : StartJob(w, op)
       \/ SkipPurpose(w)
       \/ StoreKey(w)
       \/ ReloadPut(w)
       \/ RotatePut(w)
       \/ SetActive(w)
  \/ RestartRegistry

Spec == Init /\ [][Next]_vars

----------------------------------------------------------------------------
\* The key in use is the one of the last finished rotation or reload of its
\* purpose, whichever failed attempts, pending keys, rotations under way and
\* restarts lie between.  Two that overlapped leave the choice to the order of
\* their ids (GetActiveKey, Reload, Rotate).
LatestKeyActive ==
  \A p \in PurposeSet : latest[p] # NoKey => GetActiveKey(p) = latest[p]

\* A step leaves no purpose that has an active key without one.
KeepsActive == \A p \in PurposeSet : Active(p) # {} => Active(p)' # {}

\* No step leaves a purpose that has an active key without one, so data can be
\* encrypted at every moment of a rotation (Rotate, SetActive).
ActiveKept == [][KeepsActive]_vars
====
