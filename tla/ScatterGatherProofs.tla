------------------------ MODULE ScatterGatherProofs ------------------------
(* Proofs about ScatterGather: what the answers that a caller counts say,  *)
(* and what the results made of them show, for any number of peers and     *)
(* callers.                                                                *)
EXTENDS ScatterGather, FiniteSetTheorems, TLAPS

(* A question or an answer of this life of the asking daemon.              *)
Current(m) == m.life = life

(* The IDs of the calls that wait differ, and no message is ahead of them. *)
IdsIssued ==
    /\ \A m \in wire : /\ m.life <= life /\ m.peer \in Connected
                       /\ Current(m) => m.id <= next[Class(m.kind)]
    /\ \A q \in Callers : call[q].pc = "wait" =>
          plan[q] # "none" /\ call[q].id <= next[Class(plan[q])]
    /\ \A q, r \in Callers :
          /\ call[q].pc = "wait" /\ call[r].pc = "wait" /\ Class(plan[q]) = Class(plan[r])
          /\ call[q].id = call[r].id
          => q = r

(* A message under the ID of a waiting call is about its question.         *)
SameQuestion ==
    \A q \in Callers : \A m \in wire :
        Current(m) /\ Pending(q, m) => m.kind = plan[q] /\ m.arg = call[q].arg

(* A peer is asked once and answers once: of each question there is one    *)
(* message, or one answer in the channel.                                  *)
OneMessage ==
    /\ \A m1, m2 \in wire :
          /\ Current(m1) /\ Current(m2) /\ m1.peer = m2.peer
          /\ m1.id = m2.id /\ Class(m1.kind) = Class(m2.kind)
          => m1 = m2
    /\ \A q \in Callers : \A i \in DOMAIN call[q].chan : Current(call[q].chan[i]) =>
          /\ \A m \in wire : Current(m) /\ Pending(q, m) => call[q].chan[i].peer # m.peer
          /\ \A j \in DOMAIN call[q].chan :
                Current(call[q].chan[j]) /\ call[q].chan[i].peer = call[q].chan[j].peer => i = j

(* What an answer of this life says of the peer's store since q began.     *)
Says(q, a) ==
    /\ plan[q] = "list" =>
          /\ a.data \subseteq call[q].held
          /\ a.ok => call[q].kept[a.peer] \ LongNames \subseteq a.data
    /\ plan[q] = "delete" /\ a.ok => a.arg \notin call[q].kept[a.peer]

TrueAnswers ==
    \A q \in Callers :
        /\ \A m \in wire : m.type = "answer" /\ Current(m) /\ Pending(q, m) => Says(q, m)
        /\ \A i \in DOMAIN call[q].chan :
              /\ call[q].chan[i].life <= life /\ call[q].chan[i].peer \in Connected
              /\ Current(call[q].chan[i]) => Says(q, call[q].chan[i])

(* An answer to an evaluation request holds the peer's own evaluation, and *)
(* the call that waits for it has a point to evaluate itself.              *)
OwnShare(a) == a.data \subseteq {[by |-> a.peer, point |-> a.arg]}
OwnShares ==
    /\ \A m \in wire : m.kind = "oprf" /\ m.type = "answer" => OwnShare(m)
    /\ \A q \in Callers : plan[q] = "oprf" =>
          /\ call[q].pc = "wait" => call[q].arg \in Points
          /\ \A i \in DOMAIN call[q].chan : OwnShare(call[q].chan[i])

(* The history of the calls, and the results of those that are done.       *)
Histories ==
    \A q \in Callers :
        /\ plan[q] \in {"list", "delete"} /\ call[q].pc \in {"wait", "done"} =>
              call[q].want = Cardinality(Alive)
        /\ plan[q] = "list" => call[q].local \subseteq call[q].held
        /\ Waiting(q) => /\ \A n \in Nodes : call[q].kept[n] \subseteq store[n]
                         /\ plan[q] = "list" => \A n \in Nodes : store[n] \subseteq call[q].held
ListData(local, answers) == Merged({local} \cup {answers[i].data : i \in DOMAIN answers})
Results ==
    \A q \in Callers :
        /\ call[q].pc # "done" => ~call[q].ok
        /\ call[q].pc = "idle" => call[q].chan = <<>>
        /\ call[q].pc = "done" /\ plan[q] = "list" =>
              call[q].data = ListData(call[q].local, call[q].chan)
        /\ call[q].pc = "done" /\ plan[q] = "delete" /\ call[q].ok =>
              \A i \in DOMAIN call[q].chan : call[q].chan[i].ok

IInv ==
    /\ TypeOK
    /\ IdsIssued
    /\ SameQuestion
    /\ AnswersMatch
    /\ OneMessage
    /\ TrueAnswers
    /\ OwnShares
    /\ Histories
    /\ Results
    /\ OprfQuorum

----------------------------------------------------------------------------
(* Three kinds of steps that keep the invariant: the calls go on, answers  *)
(* reach them or they return, one of them begins.                          *)

(* The call goes on; nodes may have lost names meanwhile, or gained some.  *)
Drifts(q) ==
    /\ call'[q].pc = call[q].pc /\ call'[q].arg = call[q].arg /\ call'[q].id = call[q].id
    /\ call'[q].want = call[q].want /\ call'[q].chan = call[q].chan
    /\ call'[q].local = call[q].local /\ call'[q].data = call[q].data
    /\ (call'[q].ok <=> call[q].ok)
    /\ call[q].held \subseteq call'[q].held
    /\ \A n \in Nodes : call'[q].kept[n] \subseteq call[q].kept[n]

(* x takes the place of m under the same ID.                               *)
Like(x, m) ==
    x.peer = m.peer /\ x.kind = m.kind /\ x.id = m.id /\ x.arg = m.arg /\ x.life = m.life

LEMMA ConnectedNodes == \A p \in Connected : p \in Nodes
BY DEF Connected, Nodes

LEMMA ChannelTrue ==
  ASSUME TrueAnswers, NEW q \in Callers, NEW i \in DOMAIN call[q].chan
  PROVE  /\ call[q].chan[i].life <= life /\ call[q].chan[i].peer \in Connected
         /\ call[q].chan[i].peer \in Nodes
         /\ Current(call[q].chan[i]) => Says(q, call[q].chan[i])
BY ConnectedNodes DEF TrueAnswers

(* What is true of an answer stays true of it.                             *)
LEMMA SaysKept ==
  ASSUME NEW q \in Callers, NEW a, a.peer \in Nodes, Drifts(q), UNCHANGED plan, Says(q, a)
  PROVE  Says(q, a)'
BY DEF Drifts, Says

(* Messages are lost or handled, one by an answer that says the truth.     *)
LEMMA DriftStep ==
  ASSUME IInv, TypeOK', Histories', UNCHANGED <<view, plan, next, life>>,
         \A q \in Callers : Drifts(q),
         NEW m, NEW a, wire' \subseteq wire \cup {a},
         a \in wire' \ wire =>
            /\ m \in wire \ wire' /\ Like(a, m) /\ a.type = "answer"
            /\ \A q \in Callers : Current(m) /\ Pending(q, m) => Says(q, a)'
            /\ a.kind = "oprf" => OwnShare(a)
  PROVE  IInv'
<1>1. Connected' = Connected /\ Alive' = Alive
  BY DEF Connected, Alive
<1>2. \A x \in wire' : x \in wire \/ (x = a /\ a \in wire' \ wire)
  OBVIOUS
<1>3. \A x \in wire' : \E y \in wire :
        /\ Like(x, y)
        /\ x = y \/ (x = a /\ y = m /\ a \in wire' \ wire)
  BY <1>2 DEF Like
<1>4. IdsIssued'
  BY <1>1, <1>3 DEF IInv, IdsIssued, Drifts, Like, Current
<1>5. SameQuestion'
  BY <1>3 DEF IInv, SameQuestion, Drifts, Like, Current, Pending
<1>6. AnswersMatch'
  BY DEF IInv, AnswersMatch, Drifts
<1>7. OneMessage'
  <2>1. ASSUME NEW m1 \in wire', NEW m2 \in wire', Current(m1)', Current(m2)', m1.peer = m2.peer,
               m1.id = m2.id, Class(m1.kind) = Class(m2.kind)
        PROVE  m1 = m2
    <3>1. PICK y1 \in wire : Like(m1, y1) /\ (m1 = y1 \/ (m1 = a /\ y1 = m /\ a \in wire' \ wire))
      BY <1>3
    <3>2. PICK y2 \in wire : Like(m2, y2) /\ (m2 = y2 \/ (m2 = a /\ y2 = m /\ a \in wire' \ wire))
      BY <1>3
    <3>3. /\ Current(y1) /\ Current(y2) /\ y1.peer = y2.peer
          /\ y1.id = y2.id /\ Class(y1.kind) = Class(y2.kind)
      BY <2>1, <3>1, <3>2, Zenon DEF Like, Current
    <3>4. y1 = y2
      BY <3>3 DEF IInv, OneMessage
    <3> QED BY <2>1, <3>1, <3>2, <3>4
  <2>2. ASSUME NEW q \in Callers, NEW i \in DOMAIN call'[q].chan, Current(call[q].chan[i]),
               NEW x \in wire', Current(x)', Pending(q, x)'
        PROVE  call[q].chan[i].peer # x.peer
    <3>1. PICK y \in wire : Like(x, y)
      BY <1>3
    <3>2. Current(y) /\ Pending(q, y)
      BY <2>2, <3>1 DEF Like, Current, Pending, Drifts
    <3> QED BY <2>2, <3>1, <3>2 DEF IInv, OneMessage, Like, Drifts
  <2>3. \A q \in Callers : call'[q].chan = call[q].chan
    BY DEF Drifts
  <2>4. \A x : Current(x)' <=> Current(x)
    BY DEF Current
  <2>5. ASSUME NEW q \in Callers, NEW i \in DOMAIN call[q].chan, NEW j \in DOMAIN call[q].chan,
               Current(call[q].chan[i]), Current(call[q].chan[j]),
               call[q].chan[i].peer = call[q].chan[j].peer
        PROVE  i = j
    BY <2>5 DEF IInv, OneMessage
  <2> QED BY <2>1, <2>2, <2>3, <2>4, <2>5 DEF OneMessage
<1>8. TrueAnswers'
  <2>1. ASSUME NEW q \in Callers, NEW x \in wire', x.type = "answer", Current(x)', Pending(q, x)'
        PROVE  Says(q, x)'
    <3>1. PICK y \in wire : Like(x, y) /\ (x = y \/ (x = a /\ y = m /\ a \in wire' \ wire))
      BY <1>3
    <3>2. Current(y) /\ Pending(q, y)
      BY <2>1, <3>1 DEF Like, Current, Pending, Drifts
    <3>3. CASE x = y
      <4>1. Says(q, y)
        BY <2>1, <3>2, <3>3 DEF IInv, TrueAnswers
      <4>2. y.peer \in Nodes
        BY DEF IInv, IdsIssued, Connected, Nodes
      <4> QED BY <3>3, <4>1, <4>2, SaysKept
    <3>4. CASE x = a /\ y = m /\ a \in wire' \ wire
      BY <3>2, <3>4
    <3> QED BY <3>1, <3>3, <3>4
  <2>2. ASSUME NEW q \in Callers, NEW i \in DOMAIN call'[q].chan
        PROVE  /\ call'[q].chan[i].life <= life /\ call'[q].chan[i].peer \in Connected
               /\ Current(call[q].chan[i]) => Says(q, call[q].chan[i])'
    <3>1. call'[q].chan = call[q].chan /\ i \in DOMAIN call[q].chan
      BY DEF Drifts
    <3>2. /\ call[q].chan[i].life <= life /\ call[q].chan[i].peer \in Connected
          /\ call[q].chan[i].peer \in Nodes
          /\ Current(call[q].chan[i]) => Says(q, call[q].chan[i])
      BY <3>1, ChannelTrue, ZenonT(60) DEF IInv
    <3>3. Says(q, call[q].chan[i]) => Says(q, call[q].chan[i])'
      <4>1. /\ call[q].held \subseteq call'[q].held
            /\ call'[q].kept[call[q].chan[i].peer] \subseteq call[q].kept[call[q].chan[i].peer]
        BY <3>2 DEF Drifts
      <4> QED BY <3>1, <4>1 DEF Says
    <3> QED BY <3>1, <3>2, <3>3
  <2> QED BY <1>1, <2>1, <2>2 DEF TrueAnswers, Current, Drifts
<1>9. OwnShares'
  BY <1>2 DEF IInv, OwnShares, Drifts
<1>10. Results'
  <2>1. \A q \in Callers : ListData(call'[q].local, call'[q].chan) = ListData(call[q].local, call[q].chan)
    BY DEF Drifts
  <2> QED BY <2>1 DEF IInv, Results, Drifts
<1>11. OprfQuorum'
  BY Zenon DEF IInv, OprfQuorum, Drifts
<1> QED BY <1>4, <1>5, <1>6, <1>7, <1>8, <1>9, <1>10, <1>11 DEF IInv

(* The call keeps its question and its history; its channel is cut, or the *)
(* answer m of the wire is appended to it.                                 *)
Goes(q, m) ==
    /\ call'[q].pc = "wait" => call[q].pc = "wait" /\ call'[q].id = call[q].id
    /\ call'[q].arg = call[q].arg /\ call'[q].held = call[q].held
    /\ call'[q].kept = call[q].kept
    /\ \A i \in DOMAIN call'[q].chan :
          \/ i \in DOMAIN call[q].chan /\ call'[q].chan[i] = call[q].chan[i]
          \/ /\ call'[q].chan[i] = m /\ i = Len(call[q].chan) + 1
             /\ m.type = "answer" /\ m \in wire \ wire' /\ Pending(q, m)

LEMMA GoesStep ==
  ASSUME IInv, TypeOK', Histories', Results', OprfQuorum', UNCHANGED <<view, plan, next, life>>,
         wire' \subseteq wire, NEW m, \A q \in Callers : Goes(q, m)
  PROVE  IInv'
<1>1. Connected' = Connected
  BY DEF Connected
<1>2. \A q \in Callers, x \in wire' : Pending(q, x)' => Pending(q, x) /\ x \in wire
  BY DEF Goes, Pending
<1>3. \A x : Current(x)' <=> Current(x)
  BY DEF Current
<1>4. ASSUME NEW q \in Callers, NEW i \in DOMAIN call'[q].chan
      PROVE  \/ i \in DOMAIN call[q].chan /\ call'[q].chan[i] = call[q].chan[i]
             \/ /\ call'[q].chan[i] = m /\ i = Len(call[q].chan) + 1
                /\ m.type = "answer" /\ m \in wire \ wire' /\ Pending(q, m)
  BY DEF Goes
<1>5. IdsIssued'
  <2>1. \A x \in wire' : /\ x.life <= life /\ x.peer \in Connected
                         /\ Current(x) => x.id <= next[Class(x.kind)]
    BY DEF IInv, IdsIssued
  <2>2. \A q \in Callers : call'[q].pc = "wait" => call[q].pc = "wait" /\ call'[q].id = call[q].id
    BY DEF Goes
  <2> QED BY <1>1, <1>3, <2>1, <2>2 DEF IInv, IdsIssued
<1>6. SameQuestion'
  BY <1>2, <1>3 DEF IInv, SameQuestion, Goes
<1>7. AnswersMatch'
  <2>1. ASSUME NEW q \in Callers, NEW i \in DOMAIN call'[q].chan
        PROVE  LET a == call'[q].chan[i]
               IN  a.life < life \/ (a.kind = plan[q] /\ a.arg = call'[q].arg)
    <3>1. call'[q].arg = call[q].arg
      BY DEF Goes
    <3>2. CASE i \in DOMAIN call[q].chan /\ call'[q].chan[i] = call[q].chan[i]
      BY <3>1, <3>2 DEF IInv, AnswersMatch
    <3>3. CASE call'[q].chan[i] = m /\ m \in wire /\ Pending(q, m)
      <4>1. m.life <= life /\ (m.life = life => m.kind = plan[q] /\ m.arg = call[q].arg)
        BY <3>3 DEF IInv, IdsIssued, SameQuestion, Current
      <4>2. m.life \in Nat /\ life \in Nat
        BY <3>3 DEF IInv, TypeOK, QuestionOf, AnswerOf
      <4> QED BY <3>1, <3>3, <4>1, <4>2
    <3> QED BY <1>4, <3>2, <3>3
  <2> QED BY <2>1 DEF AnswersMatch
<1>8. OneMessage'
  <2>1. ASSUME NEW q \in Callers, NEW i \in DOMAIN call'[q].chan, Current(call'[q].chan[i]),
               NEW x \in wire', Current(x), Pending(q, x)'
        PROVE  call'[q].chan[i].peer # x.peer
    <3>1. Pending(q, x) /\ x \in wire
      BY <1>2, <2>1
    <3>2. CASE i \in DOMAIN call[q].chan /\ call'[q].chan[i] = call[q].chan[i]
      BY <2>1, <3>1, <3>2 DEF IInv, OneMessage
    <3>3. CASE call'[q].chan[i] = m /\ m \in wire \ wire' /\ Pending(q, m)
      BY <2>1, <3>1, <3>3, ZenonT(60) DEF IInv, OneMessage, Pending
    <3> QED BY <1>4, <3>2, <3>3
  <2>2. ASSUME NEW q \in Callers, NEW i \in DOMAIN call'[q].chan, Current(call'[q].chan[i]),
               NEW j \in DOMAIN call'[q].chan, Current(call'[q].chan[j]),
               call'[q].chan[i].peer = call'[q].chan[j].peer
        PROVE  i = j
    <3>1. ASSUME NEW k \in DOMAIN call[q].chan, Current(call[q].chan[k]), Current(m),
                 m \in wire, Pending(q, m)
          PROVE  call[q].chan[k].peer # m.peer
      BY <3>1 DEF IInv, OneMessage
    <3>2. ASSUME NEW k \in DOMAIN call[q].chan, NEW l \in DOMAIN call[q].chan,
                 Current(call[q].chan[k]), Current(call[q].chan[l]),
                 call[q].chan[k].peer = call[q].chan[l].peer
          PROVE  k = l
      BY <3>2 DEF IInv, OneMessage
    <3> QED BY <1>4, <2>2, <3>1, <3>2
  <2>3. \A m1, m2 \in wire' :
          /\ Current(m1) /\ Current(m2) /\ m1.peer = m2.peer
          /\ m1.id = m2.id /\ Class(m1.kind) = Class(m2.kind)
          => m1 = m2
    BY DEF IInv, OneMessage
  <2>4. \A q \in Callers : \A i \in DOMAIN call'[q].chan :
          Current(call[q].chan[i])' <=> Current(call'[q].chan[i])
    BY ZenonT(60) DEF Current
  <2> QED BY <1>3, <2>1, <2>2, <2>3, <2>4 DEF OneMessage
<1>9. TrueAnswers'
  <2>1. \A q \in Callers : \A x : Says(q, x) <=>
          /\ plan[q] = "list" => /\ x.data \subseteq call'[q].held
                                 /\ x.ok => call'[q].kept[x.peer] \ LongNames \subseteq x.data
          /\ plan[q] = "delete" /\ x.ok => x.arg \notin call'[q].kept[x.peer]
    BY DEF Goes, Says
  <2>2. \A q \in Callers, x \in wire' :
          x.type = "answer" /\ Current(x) /\ Pending(q, x)' => Says(q, x)
    BY <1>2 DEF IInv, TrueAnswers
  <2>3. ASSUME NEW q \in Callers, NEW i \in DOMAIN call'[q].chan
        PROVE  /\ call'[q].chan[i].life <= life /\ call'[q].chan[i].peer \in Connected
               /\ Current(call'[q].chan[i]) => Says(q, call'[q].chan[i])
    <3>1. CASE i \in DOMAIN call[q].chan /\ call'[q].chan[i] = call[q].chan[i]
      BY <3>1, ChannelTrue DEF IInv
    <3>2. CASE call'[q].chan[i] = m /\ m \in wire /\ m.type = "answer" /\ Pending(q, m)
      BY <3>2 DEF IInv, TrueAnswers, IdsIssued
    <3> QED BY <1>4, <3>1, <3>2
  <2> QED BY <1>1, <1>3, <2>1, <2>2, <2>3 DEF TrueAnswers, Says, Current
<1>10. OwnShares'
  <2>1. ASSUME NEW q \in Callers, plan[q] = "oprf", NEW i \in DOMAIN call'[q].chan
        PROVE  OwnShare(call'[q].chan[i])
    <3>1. CASE i \in DOMAIN call[q].chan /\ call'[q].chan[i] = call[q].chan[i]
      BY <2>1, <3>1 DEF IInv, OwnShares
    <3>2. CASE call'[q].chan[i] = m /\ m \in wire /\ m.type = "answer" /\ Pending(q, m)
      BY <2>1, <3>2 DEF IInv, OwnShares, Pending, Class
    <3> QED BY <1>4, <3>1, <3>2
  <2>2. \A q \in Callers : call'[q].pc = "wait" => call[q].pc = "wait" /\ call'[q].arg = call[q].arg
    BY DEF Goes
  <2>3. \A x \in wire' : x.kind = "oprf" /\ x.type = "answer" => OwnShare(x)
    BY DEF IInv, OwnShares
  <2>4. \A q \in Callers : plan[q] = "oprf" /\ call'[q].pc = "wait" => call'[q].arg \in Points
    BY <2>2 DEF IInv, OwnShares
  <2> QED BY <2>1, <2>3, <2>4 DEF OwnShares, OwnShare
<1> QED BY <1>5, <1>6, <1>7, <1>8, <1>9, <1>10 DEF IInv

LEMMA ClassType ==
  ASSUME NEW k \in Kinds
  PROVE  Class(k) \in Classes
BY DEF Kinds, Class, Classes

(* q begins under an ID above those in use, and its questions ask go out.  *)
Begins(q, id, ask) ==
    /\ id \in Nat /\ call[q].pc # "wait" /\ DOMAIN call'[q].chan = {}
    /\ \A r \in Callers : r # q => Drifts(r)
    /\ wire' = wire \cup ask
    /\ \A c \in Classes : next[c] <= next'[c]
    /\ call'[q].pc = "wait" \/ ask # {} =>
          plan[q] # "none" /\ next[Class(plan[q])] < id /\ next'[Class(plan[q])] = id
    /\ call'[q].pc = "wait" => call'[q].id = id /\ (plan[q] = "oprf" => call'[q].arg \in Points)
    /\ \A m \in ask : /\ m.type = "question" /\ m.peer \in Connected /\ m.life = life
                      /\ m.kind = plan[q] /\ m.id = id /\ m.arg = call'[q].arg
    /\ \A m1, m2 \in ask : m1.peer = m2.peer => m1 = m2

LEMMA BeginStep ==
  ASSUME IInv, TypeOK', Histories', Results', OprfQuorum', UNCHANGED <<view, plan, life>>,
         NEW q \in Callers, NEW id, NEW ask, Begins(q, id, ask)
  PROVE  IInv'
<1>1. Connected' = Connected
  BY DEF Connected
<1>2. TypeOK /\ id \in Nat /\ wire' = wire \cup ask
  BY DEF IInv, Begins
<1>3. \A m \in wire : m.kind \in Kinds /\ Class(m.kind) \in Classes /\ m.id \in Nat
  BY <1>2, ClassType DEF TypeOK, QuestionOf, AnswerOf
<1>4. \A r \in Callers : /\ plan[r] # "none" => Class(plan[r]) \in Classes
                         /\ call[r].id \in Nat
  BY <1>2, ClassType, Zenon DEF TypeOK, CallOf
<1>5. \A c \in Classes : next[c] \in Nat /\ next'[c] \in Nat /\ next[c] <= next'[c]
  BY <1>2 DEF TypeOK, Begins
<1>6. \A r \in Callers : r # q => /\ call'[r].pc = call[r].pc /\ call'[r].id = call[r].id
                                  /\ call'[r].arg = call[r].arg /\ call'[r].chan = call[r].chan
  BY DEF Drifts, Begins
<1>7. \A m : Current(m)' <=> Current(m)
  BY DEF Current
<1>8. \A m \in wire : /\ m.life <= life /\ m.peer \in Connected
                      /\ Current(m) => m.id <= next[Class(m.kind)]
  BY DEF IInv, IdsIssued
<1>9. \A r \in Callers : call[r].pc = "wait" => plan[r] # "none" /\ call[r].id <= next[Class(plan[r])]
  BY DEF IInv, IdsIssued
<1>10. call'[q].pc = "wait" \/ ask # {} =>
          plan[q] # "none" /\ next[Class(plan[q])] < id /\ next'[Class(plan[q])] = id
  BY DEF Begins
<1>11. call'[q].pc = "wait" => call'[q].id = id /\ (plan[q] = "oprf" => call'[q].arg \in Points)
  BY DEF Begins
<1>12. \A m \in ask : /\ m.type = "question" /\ m.peer \in Connected /\ m.life = life
                      /\ m.kind = plan[q] /\ m.id = id /\ m.arg = call'[q].arg
  BY DEF Begins
<1>13. ASSUME NEW r \in Callers, NEW i \in DOMAIN call'[r].chan
       PROVE  /\ r # q /\ i \in DOMAIN call[r].chan /\ call'[r].chan = call[r].chan
              /\ call'[r].arg = call[r].arg
  BY <1>6 DEF Begins
<1>14. ASSUME NEW m \in wire, Current(m) PROVE ~Pending(q, m)'
  BY <1>2, <1>3, <1>5, <1>8, <1>10, <1>11, <1>14 DEF Pending
<1>15. ASSUME NEW r \in Callers, r # q, NEW m \in ask PROVE ~Pending(r, m)'
  BY <1>2, <1>4, <1>5, <1>6, <1>9, <1>10, <1>12, <1>15 DEF Pending
<1>16. \A r \in Callers, m \in wire : r # q => (Pending(r, m)' <=> Pending(r, m))
  BY <1>6 DEF Pending
<1>17. IdsIssued'
  <2>1. ASSUME NEW m \in wire'
        PROVE  /\ m.life <= life /\ m.peer \in Connected
               /\ Current(m) => m.id <= next'[Class(m.kind)]
    <3>1. CASE m \in wire
      BY <1>3, <1>5, <1>8, <3>1
    <3>2. CASE m \in ask
      <4>1. life <= life /\ id <= id
        BY <1>2 DEF TypeOK
      <4> QED BY <1>10, <1>12, <3>2, <4>1
    <3> QED BY <1>2, <3>1, <3>2
  <2>2. ASSUME NEW r \in Callers, call'[r].pc = "wait"
        PROVE  plan[r] # "none" /\ call'[r].id <= next'[Class(plan[r])]
    <3>1. CASE r = q
      BY <1>2, <1>10, <1>11, <2>2, <3>1
    <3>2. CASE r # q
      BY <1>4, <1>5, <1>6, <1>9, <2>2, <3>2
    <3> QED BY <3>1, <3>2
  <2>3. ASSUME NEW t \in Callers, t # q, call'[q].pc = "wait", call'[t].pc = "wait",
               Class(plan[q]) = Class(plan[t])
        PROVE  call'[q].id # call'[t].id
    <3>1. call[t].id <= next[Class(plan[q])] /\ next[Class(plan[q])] < id /\ call'[q].id = id
      BY <1>6, <1>9, <1>10, <1>11, <2>3
    <3>2. call[t].id \in Nat /\ next[Class(plan[q])] \in Nat
      BY <1>4, <1>5, <1>10, <2>3
    <3> QED BY <1>2, <1>6, <2>3, <3>1, <3>2
  <2>4. ASSUME NEW r \in Callers, NEW t \in Callers, call'[r].pc = "wait", call'[t].pc = "wait",
               Class(plan[r]) = Class(plan[t]), call'[r].id = call'[t].id
        PROVE  r = t
    <3>1. CASE r # q /\ t # q
      BY <1>6, <2>4, <3>1 DEF IInv, IdsIssued
    <3>2. CASE r = q \/ t = q
      BY <2>3, <2>4, <3>2
    <3> QED BY <3>1, <3>2
  <2> QED BY <1>1, <1>7, <2>1, <2>2, <2>4 DEF IdsIssued
<1>18. SameQuestion'
  <2>1. ASSUME NEW r \in Callers, NEW m \in wire', Current(m), Pending(r, m)'
        PROVE  m.kind = plan[r] /\ m.arg = call'[r].arg
    <3>1. CASE m \in wire
      <4>1. r # q /\ Pending(r, m)
        BY <1>14, <1>16, <2>1, <3>1
      <4> QED BY <1>6, <2>1, <3>1, <4>1 DEF IInv, SameQuestion
    <3>2. CASE m \in ask
      BY <1>12, <1>15, <2>1, <3>2
    <3> QED BY <1>2, <3>1, <3>2
  <2> QED BY <1>7, <2>1 DEF SameQuestion
<1>19. AnswersMatch'
  <2>1. ASSUME NEW r \in Callers, NEW i \in DOMAIN call'[r].chan
        PROVE  LET a == call'[r].chan[i]
               IN  a.life < life \/ (a.kind = plan[r] /\ a.arg = call'[r].arg)
    BY <1>13 DEF IInv, AnswersMatch
  <2> QED BY <2>1 DEF AnswersMatch
<1>20. OneMessage'
  <2>1. ASSUME NEW m1 \in wire, NEW m2 \in ask, Current(m1), Class(m1.kind) = Class(m2.kind)
        PROVE  m1.id # m2.id
    BY <1>2, <1>3, <1>5, <1>8, <1>10, <1>12, <2>1
  <2>2. ASSUME NEW m1 \in wire', NEW m2 \in wire', Current(m1), Current(m2), m1.peer = m2.peer,
               m1.id = m2.id, Class(m1.kind) = Class(m2.kind)
        PROVE  m1 = m2
    <3>1. CASE m1 \in wire /\ m2 \in wire
      BY <2>2, <3>1 DEF IInv, OneMessage
    <3>2. CASE m1 \in ask /\ m2 \in ask
      BY <2>2, <3>2, Zenon DEF Begins
    <3> QED BY <1>2, <2>1, <2>2, <3>1, <3>2, ZenonT(60)
  <2>3. ASSUME NEW r \in Callers, NEW i \in DOMAIN call'[r].chan, Current(call'[r].chan[i]),
               NEW m \in wire', Current(m), Pending(r, m)'
        PROVE  call'[r].chan[i].peer # m.peer
    <3>1. r # q /\ i \in DOMAIN call[r].chan /\ call'[r].chan = call[r].chan
      BY <1>13
    <3>2. m \in wire /\ Pending(r, m)
      BY <1>2, <1>15, <1>16, <2>3, <3>1
    <3> QED BY <2>3, <3>1, <3>2 DEF IInv, OneMessage
  <2>4. ASSUME NEW r \in Callers, NEW i \in DOMAIN call'[r].chan, Current(call'[r].chan[i]),
               NEW j \in DOMAIN call'[r].chan, Current(call'[r].chan[j]),
               call'[r].chan[i].peer = call'[r].chan[j].peer
        PROVE  i = j
    BY <1>13, <2>4 DEF IInv, OneMessage
  <2>5. \A r \in Callers : \A i \in DOMAIN call'[r].chan :
          Current(call[r].chan[i])' <=> Current(call'[r].chan[i])
    BY DEF Current
  <2> QED BY <1>7, <2>2, <2>3, <2>4, <2>5, ZenonT(60) DEF OneMessage
<1>21. TrueAnswers'
  <2>1. ASSUME NEW r \in Callers, NEW m \in wire', m.type = "answer", Current(m), Pending(r, m)'
        PROVE  Says(r, m)'
    <3>1. m \in wire /\ r # q
      BY <1>2, <1>12, <1>14, <2>1
    <3>2. Says(r, m) /\ m.peer \in Nodes
      BY <1>8, <1>16, <2>1, <3>1 DEF IInv, TrueAnswers, Connected, Nodes
    <3>3. Drifts(r)
      BY <3>1 DEF Begins
    <3> QED BY <3>2, <3>3, SaysKept
  <2>2. ASSUME NEW r \in Callers, NEW i \in DOMAIN call'[r].chan
        PROVE  /\ call'[r].chan[i].life <= life /\ call'[r].chan[i].peer \in Connected
               /\ Current(call[r].chan[i]) => Says(r, call[r].chan[i])'
    <3>1. r # q /\ call'[r].chan = call[r].chan /\ i \in DOMAIN call[r].chan
      BY <1>13
    <3>2. /\ call[r].chan[i].life <= life /\ call[r].chan[i].peer \in Connected
          /\ call[r].chan[i].peer \in Nodes
          /\ Current(call[r].chan[i]) => Says(r, call[r].chan[i])
      BY <3>1, ChannelTrue, Zenon DEF IInv
    <3>3. Says(r, call[r].chan[i]) => Says(r, call[r].chan[i])'
      <4>1. Drifts(r)
        BY <3>1, ZenonT(60) DEF Begins
      <4>2. /\ call[r].held \subseteq call'[r].held
            /\ call'[r].kept[call[r].chan[i].peer] \subseteq call[r].kept[call[r].chan[i].peer]
        BY <3>2, <4>1, ZenonT(60) DEF Drifts
      <4> QED BY <3>1, <4>2, ZenonT(60) DEF Says
    <3> QED BY <3>1, <3>2, <3>3
  <2>3. ASSUME NEW r \in Callers, NEW i \in DOMAIN call'[r].chan
        PROVE  call'[r].chan[i] = call[r].chan[i]
    BY <1>13
  <2> QED BY <1>1, <1>7, <2>1, <2>2, <2>3 DEF TrueAnswers, Current
<1>22. OwnShares'
  <2>1. \A m \in wire' : m.kind = "oprf" /\ m.type = "answer" => OwnShare(m)
    BY <1>2, <1>12 DEF IInv, OwnShares
  <2>2. ASSUME NEW r \in Callers, plan[r] = "oprf", call'[r].pc = "wait" PROVE call'[r].arg \in Points
    BY <1>6, <1>11, <2>2 DEF IInv, OwnShares
  <2>3. ASSUME NEW r \in Callers, plan[r] = "oprf", NEW i \in DOMAIN call'[r].chan
        PROVE  OwnShare(call'[r].chan[i])
    BY <1>13, <2>3 DEF IInv, OwnShares
  <2> QED BY <2>1, <2>2, <2>3 DEF OwnShares, OwnShare
<1> QED BY <1>17, <1>18, <1>19, <1>20, <1>21, <1>22 DEF IInv

----------------------------------------------------------------------------
(* Messages are lost and handled, and nodes lose and gain names.           *)

(* The history fields of a call are independent of the others.             *)
LEMMA CallKept ==
  ASSUME NEW class, NEW c \in CallOf(class), NEW k \in [Nodes -> SUBSET Names]
  PROVE  [c EXCEPT !.kept = k] \in CallOf(class) /\ [c EXCEPT !.kept = k].kept = k
BY Zenon DEF CallOf

LEMMA CallHeld ==
  ASSUME NEW class, NEW c \in CallOf(class), NEW h \in SUBSET Names
  PROVE  [c EXCEPT !.held = h] \in CallOf(class) /\ [c EXCEPT !.held = h].held = h
BY Zenon DEF CallOf

LEMMA CallKeeps ==
  ASSUME NEW class, NEW c \in CallOf(class), NEW k, NEW h,
         NEW d \in {[c EXCEPT !.kept = k], [c EXCEPT !.held = h]}
  PROVE  /\ d.pc = c.pc /\ d.arg = c.arg /\ d.id = c.id /\ d.want = c.want /\ d.chan = c.chan
         /\ d.local = c.local /\ d.data = c.data /\ (d.ok <=> c.ok)
         /\ d = [c EXCEPT !.kept = k] => d.held = c.held
         /\ d = [c EXCEPT !.held = h] => d.kept = c.kept
<1>1. CASE d = [c EXCEPT !.kept = k]
  BY <1>1, Zenon DEF CallOf
<1>2. CASE d = [c EXCEPT !.held = h]
  BY <1>2, ZenonT(60) DEF CallOf
<1> QED BY <1>1, <1>2

(* A call when a node loses names.                                         *)
LEMMA LostCall ==
  ASSUME TypeOK, NEW n \in Nodes, NEW names, NEW q \in Callers, call'[q] = Lost(n, names)[q]
  PROVE  /\ call'[q] \in CallOf(Class(plan[q])) /\ Drifts(q)
         /\ call'[q].held = call[q].held
         /\ Waiting(q) => call'[q].kept[n] = call[q].kept[n] \ names
<1>1. call[q] \in CallOf(Class(plan[q])) /\ call[q].kept \in [Nodes -> SUBSET Names]
  BY ZenonT(60) DEF TypeOK, CallOf
<1>2. CASE Waiting(q)
  <2> DEFINE c == call[q]
             k == [c.kept EXCEPT ![n] = @ \ names]
  <2>1. call'[q] = [c EXCEPT !.kept = k]
    BY <1>2 DEF Lost
  <2>2. /\ k \in [Nodes -> SUBSET Names] /\ k[n] = c.kept[n] \ names
        /\ \A m \in Nodes : k[m] \subseteq c.kept[m]
    BY <1>1
  <2> HIDE DEF c, k
  <2>3. c = call[q]
    BY DEF c
  <2>4. call'[q] \in CallOf(Class(plan[q])) /\ call'[q].kept = k
    BY <1>1, <2>1, <2>2, <2>3, CallKept
  <2>5. /\ call'[q].pc = c.pc /\ call'[q].arg = c.arg /\ call'[q].id = c.id
        /\ call'[q].want = c.want /\ call'[q].chan = c.chan /\ call'[q].local = c.local
        /\ call'[q].data = c.data /\ (call'[q].ok <=> c.ok) /\ call'[q].held = c.held
    BY <1>1, <2>1, <2>3, CallKeeps
  <2> QED BY <1>2, <2>2, <2>3, <2>4, <2>5 DEF Drifts
<1>3. CASE ~Waiting(q)
  <2>1. call'[q] = call[q]
    BY <1>3 DEF Lost
  <2> QED BY <1>1, <1>3, <2>1 DEF Drifts
<1> QED BY <1>2, <1>3

(* The calls when a node gains a name.                                     *)
LEMMA GainedCalls ==
  ASSUME TypeOK, NEW name \in Names, call' = Gained(name)
  PROVE  /\ call' = [q \in Callers |-> call'[q]]
         /\ \A q \in Callers : /\ call'[q] \in CallOf(Class(plan[q])) /\ Drifts(q)
                               /\ call'[q].kept = call[q].kept
                               /\ Waiting(q) /\ plan[q] = "list" => name \in call'[q].held
<1>1. ASSUME NEW q \in Callers
      PROVE  /\ call'[q] \in CallOf(Class(plan[q])) /\ Drifts(q)
             /\ call'[q].kept = call[q].kept
             /\ Waiting(q) /\ plan[q] = "list" => name \in call'[q].held
  <2>1. call[q] \in CallOf(Class(plan[q])) /\ call[q].held \in SUBSET Names
    BY ZenonT(60) DEF TypeOK, CallOf
  <2>2. CASE Waiting(q) /\ plan[q] = "list"
    <3> DEFINE c == call[q]
               h == c.held \cup {name}
    <3>1. call'[q] = [c EXCEPT !.held = h]
      BY <2>2 DEF Gained
    <3>2. h \in SUBSET Names /\ c.held \subseteq h /\ name \in h
      BY <2>1
    <3> HIDE DEF c, h
    <3>3. c = call[q]
      BY DEF c
    <3>4. call'[q] \in CallOf(Class(plan[q])) /\ call'[q].held = h
      BY <2>1, <3>1, <3>2, <3>3, CallHeld
    <3>5. /\ call'[q].pc = c.pc /\ call'[q].arg = c.arg /\ call'[q].id = c.id
          /\ call'[q].want = c.want /\ call'[q].chan = c.chan /\ call'[q].local = c.local
          /\ call'[q].data = c.data /\ (call'[q].ok <=> c.ok) /\ call'[q].kept = c.kept
      BY <2>1, <3>1, <3>3, CallKeeps
    <3> QED BY <3>2, <3>3, <3>4, <3>5 DEF Drifts
  <2>3. CASE ~(Waiting(q) /\ plan[q] = "list")
    <3>1. call'[q] = call[q]
      BY <2>3 DEF Gained
    <3> QED BY <2>1, <2>3, <3>1 DEF Drifts
  <2> QED BY <2>2, <2>3
<1> QED BY <1>1 DEF Gained

(* The types when only messages, stores and histories change.              *)
LEMMA DriftTypes ==
  ASSUME IInv, UNCHANGED <<view, plan, next, life>>, store' \in [Nodes -> SUBSET Names],
         call' = [q \in Callers |-> call'[q]],
         \A q \in Callers : call'[q] \in CallOf(Class(plan[q])),
         NEW a, wire' \subseteq wire \cup {a},
         a \in wire' \ wire => a.kind \in Kinds /\ a \in AnswerOf(Class(a.kind))
  PROVE  TypeOK'
BY DEF IInv, TypeOK

LEMMA DropSteps ==
  ASSUME IInv, NEW m \in wire, Unrouted(m) \/ Lose(m)
  PROVE  IInv'
<1>1. UNCHANGED <<view, store, plan, call, next, life>> /\ wire' = wire \ {m}
  BY DEF Unrouted, Lose
<1>2. \A q \in Callers : Drifts(q)
  BY <1>1 DEF Drifts
<1>3. TypeOK'
  BY <1>1 DEF IInv, TypeOK
<1>4. Histories'
  BY <1>1 DEF IInv, Histories, Waiting, Alive
<1> QED BY <1>1, <1>2, <1>3, <1>4, DriftStep

LEMMA PutStep ==
  ASSUME IInv, NEW n \in Nodes, NEW name \in Names, Put(n, name)
  PROVE  IInv'
<1>1. /\ UNCHANGED <<view, plan, next, life, wire>>
      /\ store' = [store EXCEPT ![n] = @ \cup {name}] /\ call' = Gained(name)
  BY DEF Put
<1>2. TypeOK /\ store \in [Nodes -> SUBSET Names]
  BY DEF IInv, TypeOK
<1>3. /\ call' = [q \in Callers |-> call'[q]]
      /\ \A q \in Callers : /\ call'[q] \in CallOf(Class(plan[q])) /\ Drifts(q)
                            /\ call'[q].kept = call[q].kept
                            /\ Waiting(q) /\ plan[q] = "list" => name \in call'[q].held
  BY <1>1, <1>2, GainedCalls
<1>4. store' \in [Nodes -> SUBSET Names]
  BY <1>1, <1>2
<1>5. TypeOK'
  BY <1>1, <1>3, <1>4 DEF IInv, TypeOK
<1>6. \A k \in Nodes : store[k] \subseteq store'[k] /\ store'[k] \subseteq store[k] \cup {name}
  BY <1>1, <1>2
<1>7. \A q \in Callers : /\ call'[q].pc = call[q].pc /\ call'[q].want = call[q].want
                         /\ call'[q].local = call[q].local
                         /\ call[q].held \subseteq call'[q].held
  BY <1>3 DEF Drifts
<1>8. \A q \in Callers : Waiting(q)' <=> Waiting(q)
  BY <1>1, <1>7 DEF Waiting
<1>9. Alive' = Alive
  BY <1>1 DEF Alive
<1>10. ASSUME NEW q \in Callers, Waiting(q)
       PROVE  /\ \A k \in Nodes : call'[q].kept[k] \subseteq store'[k]
              /\ plan[q] = "list" => \A k \in Nodes : store'[k] \subseteq call'[q].held
  <2>1. \A k \in Nodes : call[q].kept[k] \subseteq store[k]
    BY <1>10, Zenon DEF IInv, Histories
  <2>2. ASSUME plan[q] = "list", NEW k \in Nodes PROVE store'[k] \subseteq call'[q].held
    <3>1. store[k] \subseteq call[q].held /\ name \in call'[q].held
      BY <1>3, <1>10, <2>2, Zenon DEF IInv, Histories
    <3> QED BY <1>6, <1>7, <3>1
  <2>3. \A k \in Nodes : call'[q].kept[k] \subseteq store'[k]
    BY <1>3, <1>6, <2>1, Zenon
  <2> QED BY <2>2, <2>3, Zenon
<1>11. Histories'
  BY <1>1, <1>7, <1>8, <1>9, <1>10 DEF IInv, Histories
<1> QED BY <1>1, <1>3, <1>5, <1>11, DriftStep

(* An answer takes the place of its question.                              *)
Answers(a, m, ok, data) ==
  /\ a.kind \in Kinds /\ a \in AnswerOf(Class(a.kind)) /\ Like(a, m) /\ a # m
  /\ a.type = "answer" /\ (a.ok <=> ok) /\ a.data = data

(* What a node answers has the type of an answer, to the same question.    *)
LEMMA AnswerTypes ==
  ASSUME TypeOK, NEW m \in wire, m.type = "question", NEW ok \in BOOLEAN,
         NEW data \in DataOf(Class(m.kind))
  PROVE  Answers(Answer(m, ok, data), m, ok, data)
<1>1. m.kind \in Kinds /\ m \in QuestionOf(Class(m.kind))
  BY DEF TypeOK, AnswerOf
<1> DEFINE a == Answer(m, ok, data)
<1>2. /\ a.kind = m.kind /\ a.peer = m.peer /\ a.id = m.id /\ a.arg = m.arg /\ a.life = m.life
      /\ a.type = "answer" /\ (a.ok <=> ok) /\ a.data = data
  BY DEF Answer
<1>3. a \in AnswerOf(Class(m.kind))
  BY <1>1 DEF Answer, AnswerOf, QuestionOf
<1> HIDE DEF a
<1>4. Answers(a, m, ok, data)
  BY <1>1, <1>2, <1>3 DEF Like, Answers
<1> QED BY <1>4, Zenon DEF a

(* handleQuery, its error, and handleEvalRequest: the stores may lose what *)
(* is deleted, and the answer tells the truth to whoever waits for it.     *)
LEMMA ReplyStep ==
  ASSUME IInv, NEW m \in wire, m.type = "question", NEW ok \in BOOLEAN,
         NEW data \in DataOf(Class(m.kind)), NEW names,
         wire' = (wire \ {m}) \cup {Answer(m, ok, data)},
         \/ /\ store' = [store EXCEPT ![m.peer] = @ \ names]
            /\ call' = Lost(m.peer, names)
         \/ names = {} /\ UNCHANGED <<store, call>>,
         UNCHANGED <<view, plan, next, life>>,
         m.kind = "list" => /\ data \subseteq store[m.peer] /\ names = {}
                            /\ ok => store[m.peer] \ LongNames \subseteq data,
         m.kind = "delete" /\ ok => m.arg \in names,
         m.kind = "oprf" => data \subseteq {[by |-> m.peer, point |-> m.arg]}
  PROVE  IInv'
<1> DEFINE a == Answer(m, ok, data)
<1>1. TypeOK /\ store \in [Nodes -> SUBSET Names] /\ m.peer \in Peers /\ m.peer \in Nodes
  BY ZenonT(60) DEF IInv, TypeOK, QuestionOf, AnswerOf, Nodes
<1>2. /\ a.kind \in Kinds /\ a \in AnswerOf(Class(a.kind)) /\ Like(a, m) /\ a # m
      /\ a.type = "answer" /\ (a.ok <=> ok) /\ a.data = data
  <2>1. TypeOK
    BY <1>1, Zenon
  <2>2. Answers(Answer(m, ok, data), m, ok, data)
    BY <2>1, AnswerTypes
  <2> QED BY <2>2, Zenon DEF Answers, a
<1> HIDE DEF a
<1>3. wire' \subseteq wire \cup {a} /\ m \notin wire'
  BY <1>2 DEF a
<1>4. /\ call' = [q \in Callers |-> call'[q]]
      /\ \A q \in Callers : /\ call'[q] \in CallOf(Class(plan[q])) /\ Drifts(q)
                            /\ call'[q].held = call[q].held
                            /\ Waiting(q) => call'[q].kept[m.peer] = call[q].kept[m.peer] \ names
  <2>1. CASE call' = Lost(m.peer, names)
    BY <1>1, <2>1, LostCall, ZenonT(60) DEF Lost
  <2>2. CASE names = {} /\ UNCHANGED call
    BY <1>1, <2>2, ZenonT(60) DEF TypeOK, Drifts
  <2> QED BY <2>1, <2>2
<1>5. /\ store' \in [Nodes -> SUBSET Names]
      /\ store'[m.peer] = store[m.peer] \ names
      /\ \A n \in Nodes : n # m.peer => store'[n] = store[n]
  BY <1>1
<1>6. TypeOK'
  BY <1>2, <1>3, <1>4, <1>5, DriftTypes, ZenonT(60)
<1>7. \A q \in Callers : /\ call'[q].pc = call[q].pc /\ call'[q].want = call[q].want
                         /\ call'[q].local = call[q].local
                         /\ \A n \in Nodes : call'[q].kept[n] \subseteq call[q].kept[n]
  BY <1>4 DEF Drifts
<1>8. Histories'
  <2>1. \A q \in Callers : Waiting(q)' <=> Waiting(q)
    BY <1>7 DEF Waiting
  <2>2. Alive' = Alive
    BY DEF Alive
  <2>3. ASSUME NEW q \in Callers, Waiting(q)
        PROVE  /\ \A n \in Nodes : call'[q].kept[n] \subseteq store'[n]
               /\ plan[q] = "list" => \A n \in Nodes : store'[n] \subseteq call'[q].held
    <3>1. /\ \A n \in Nodes : call[q].kept[n] \subseteq store[n]
          /\ plan[q] = "list" => \A n \in Nodes : store[n] \subseteq call[q].held
      BY <2>3 DEF IInv, Histories
    <3>2. ASSUME NEW n \in Nodes PROVE call'[q].kept[n] \subseteq store'[n]
      BY <1>4, <1>5, <1>7, <2>3, <3>1
    <3>3. ASSUME NEW n \in Nodes, plan[q] = "list" PROVE store'[n] \subseteq call'[q].held
      BY <1>4, <1>5, <3>1, <3>3
    <3> QED BY <3>2, <3>3, ZenonT(60)
  <2> QED BY <1>4, <1>7, <2>1, <2>2, <2>3 DEF IInv, Histories
<1>9. ASSUME NEW q \in Callers, Current(m), Pending(q, m) PROVE Says(q, a)'
  <2>1. m.kind = plan[q] /\ m.arg = call[q].arg
    BY <1>9 DEF IInv, SameQuestion
  <2>2. CASE plan[q] = "list"
    <3>1. Waiting(q)
      BY <1>9, <2>2 DEF Waiting, Pending
    <3>2. call[q].kept[m.peer] \subseteq store[m.peer] /\ store[m.peer] \subseteq call[q].held
      BY <1>1, <2>2, <3>1 DEF IInv, Histories
    <3> QED BY <1>2, <1>4, <1>1, <2>1, <2>2, <3>1, <3>2, ZenonT(60) DEF Says, Like
  <2>3. CASE plan[q] = "delete"
    <3>1. Waiting(q)
      BY <1>9, <2>3 DEF Waiting, Pending
    <3> QED BY <1>2, <1>4, <2>1, <2>3, <3>1, ZenonT(60) DEF Says, Like
  <2>4. CASE plan[q] \notin {"list", "delete"}
    BY <2>4 DEF Says
  <2> QED BY <2>2, <2>3, <2>4
<1>10. a.kind = "oprf" => OwnShare(a)
  BY <1>2 DEF OwnShare, Like
<1> QED BY <1>2, <1>3, <1>4, <1>6, <1>8, <1>9, <1>10, DriftStep, ZenonT(60)

LEMMA HandleQueryStep ==
  ASSUME IInv, NEW m \in wire, HandleQuery(m)
  PROVE  IInv'
<1> DEFINE names == HandleDelete(m)
           ok == m.kind = "list" \/ names # {}
           list == IF m.kind = "list" THEN Encoded(store[m.peer]) ELSE {}
           data == IF ok THEN list ELSE {}
<1>1. /\ m.type = "question" /\ m.kind \in {"list", "delete"}
      /\ UNCHANGED <<view, plan, next, life>>
  BY DEF HandleQuery
<1>2. TypeOK /\ store[m.peer] \in SUBSET Names
  BY DEF IInv, TypeOK, QuestionOf, AnswerOf, Nodes
<1>3. DataOf(Class(m.kind)) = SUBSET Names
  BY <1>1 DEF DataOf, Class
<1>4. Encoded(store[m.peer]) = store[m.peer] \ LongNames
  BY DEF Encoded, Decoded
<1>5. CASE /\ Reply(m, ok, list)
           /\ store' = [store EXCEPT ![m.peer] = @ \ names]
           /\ call' = Lost(m.peer, names)
  <2>1. wire' = (wire \ {m}) \cup {Answer(m, ok, data)}
    BY <1>5 DEF Reply
  <2>2. ok \in BOOLEAN /\ data \in DataOf(Class(m.kind))
    BY <1>2, <1>3, <1>4
  <2>3. m.kind = "list" => /\ data = store[m.peer] \ LongNames /\ names = {}
    BY <1>4 DEF HandleDelete
  <2>4. m.kind = "delete" /\ ok => m.arg \in names
    BY DEF HandleDelete
  <2> HIDE DEF ok, data, names
  <2> QED BY <1>1, <1>5, <2>1, <2>2, <2>3, <2>4, ReplyStep, ZenonT(60)
<1>6. CASE Reply(m, FALSE, {}) /\ UNCHANGED <<store, call>>
  <2>1. wire' = (wire \ {m}) \cup {Answer(m, FALSE, {})}
    BY <1>6 DEF Reply
  <2>2. {} \in DataOf(Class(m.kind))
    BY <1>3
  <2> QED BY <1>1, <1>6, <2>1, <2>2, ReplyStep, ZenonT(60)
<1> QED BY <1>5, <1>6, ZenonT(60) DEF HandleQuery

LEMMA HandleEvalStep ==
  ASSUME IInv, NEW m \in wire, HandleEvalRequest(m)
  PROVE  IInv'
<1> DEFINE share == {[by |-> m.peer, point |-> m.arg]}
<1>1. /\ m.type = "question" /\ m.kind = "oprf"
      /\ UNCHANGED <<view, store, plan, call, next, life>>
  BY DEF HandleEvalRequest
<1>2. m \in QuestionOf("oprf")
  BY <1>1 DEF IInv, TypeOK, Class, AnswerOf
<1>3. m.peer \in Nodes /\ m.arg \in Points
  BY <1>2 DEF QuestionOf, ArgOf, Nodes
<1>4. share \in DataOf(Class(m.kind)) /\ {} \in DataOf(Class(m.kind))
  BY <1>1, <1>3 DEF DataOf, Class
<1>5. \/ wire' = (wire \ {m}) \cup {Answer(m, TRUE, share)}
      \/ wire' = (wire \ {m}) \cup {Answer(m, FALSE, {})}
  BY Zenon DEF HandleEvalRequest, Reply
<1> HIDE DEF share
<1>6. share \subseteq {[by |-> m.peer, point |-> m.arg]}
  BY DEF share
<1>7. CASE wire' = (wire \ {m}) \cup {Answer(m, TRUE, share)}
  BY <1>1, <1>4, <1>6, <1>7, ReplyStep, Zenon
<1>8. CASE wire' = (wire \ {m}) \cup {Answer(m, FALSE, {})}
  BY <1>1, <1>4, <1>8, ReplyStep, Zenon
<1> QED BY <1>5, <1>7, <1>8, ZenonT(60)

----------------------------------------------------------------------------
(* Answers reach the channels and calls return.                            *)

(* The channel of a call is independent of its other fields.               *)
Answered(d, c, s, class) ==
  /\ d \in CallOf(class) /\ d.chan = s
  /\ d.pc = c.pc /\ d.arg = c.arg /\ d.id = c.id /\ d.want = c.want /\ d.local = c.local
  /\ d.data = c.data /\ (d.ok <=> c.ok) /\ d.held = c.held /\ d.kept = c.kept

(* An answer in its channel changes nothing else of a call.                *)
LEMMA CallChan ==
  ASSUME NEW class, NEW c \in CallOf(class), NEW s \in Seq(AnswerOf(class))
  PROVE  Answered([c EXCEPT !.chan = s], c, s, class)
BY Zenon DEF CallOf, Answered

LEMMA HandleAnswerStep ==
  ASSUME IInv, NEW m \in wire, HandleAnswer(m)
  PROVE  IInv'
<1>1. /\ m.type = "answer" /\ wire' = wire \ {m} /\ UNCHANGED <<view, store, plan, next, life>>
      /\ call' = [q \in Callers |-> call'[q]]
  BY ZenonT(60) DEF HandleAnswer
<1>2. ASSUME NEW q \in Callers
      PROVE  /\ call'[q] \in CallOf(Class(plan[q])) /\ Goes(q, m)
             /\ call'[q].pc = call[q].pc /\ call'[q].want = call[q].want
             /\ call'[q].local = call[q].local /\ call'[q].data = call[q].data
             /\ (call'[q].ok <=> call[q].ok)
             /\ call[q].pc # "wait" => call'[q].chan = call[q].chan
  <2>1. call[q] \in CallOf(Class(plan[q])) /\ call[q].chan \in Seq(AnswerOf(Class(plan[q])))
    BY ZenonT(60) DEF IInv, TypeOK, CallOf
  <2>2. CASE Pending(q, m) /\ Len(call[q].chan) < call[q].want
    <3> DEFINE c == call[q]
               s == Append(c.chan, m)
    <3>1. call'[q] = [c EXCEPT !.chan = s]
      BY <2>2 DEF HandleAnswer
    <3>2. m \in AnswerOf(Class(plan[q]))
      BY <1>1, <2>2 DEF IInv, TypeOK, Pending, QuestionOf
    <3>3. /\ s \in Seq(AnswerOf(Class(plan[q])))
          /\ \A i \in DOMAIN s : \/ i \in DOMAIN call[q].chan /\ s[i] = call[q].chan[i]
                                 \/ i = Len(call[q].chan) + 1 /\ s[i] = m
      BY <2>1, <3>2
    <3> HIDE DEF c, s
    <3>4. c = call[q]
      BY DEF c
    <3>5. /\ call'[q] \in CallOf(Class(plan[q])) /\ call'[q].chan = s
          /\ call'[q].pc = c.pc /\ call'[q].arg = c.arg /\ call'[q].id = c.id
          /\ call'[q].want = c.want /\ call'[q].local = c.local /\ call'[q].data = c.data
          /\ (call'[q].ok <=> c.ok) /\ call'[q].held = c.held /\ call'[q].kept = c.kept
      <4>1. Answered(call'[q], c, s, Class(plan[q]))
        BY <2>1, <3>1, <3>3, <3>4, CallChan, Zenon
      <4> QED BY <4>1, Zenon DEF Answered
    <3> QED BY <1>1, <2>2, <3>3, <3>4, <3>5 DEF Goes, Pending
  <2>3. CASE ~(Pending(q, m) /\ Len(call[q].chan) < call[q].want)
    <3>1. call'[q] = call[q]
      BY <2>3 DEF HandleAnswer
    <3> QED BY <2>1, <3>1 DEF Goes
  <2> QED BY <2>2, <2>3
<1>3. TypeOK'
  BY <1>1, <1>2 DEF IInv, TypeOK
<1>4. Histories'
  <2>1. Alive' = Alive
    BY <1>1 DEF Alive
  <2>2. \A q \in Callers : (Waiting(q)' <=> Waiting(q)) /\ call'[q].kept = call[q].kept
                           /\ call'[q].held = call[q].held
    BY <1>1, <1>2, Zenon DEF Waiting, Goes
  <2> QED BY <1>1, <1>2, <2>1, <2>2 DEF IInv, Histories
<1>5. Results'
  <2>1. \A q \in Callers : call[q].pc # "wait" =>
          ListData(call'[q].local, call'[q].chan) = ListData(call[q].local, call[q].chan)
    BY <1>2, Zenon
  <2> SUFFICES ASSUME NEW q \in Callers
               PROVE  /\ call'[q].pc # "done" => ~call'[q].ok
                      /\ call'[q].pc = "idle" => call'[q].chan = <<>>
                      /\ call'[q].pc = "done" /\ plan'[q] = "list" =>
                            call'[q].data = ListData(call'[q].local, call'[q].chan)
                      /\ call'[q].pc = "done" /\ plan'[q] = "delete" /\ call'[q].ok =>
                            \A i \in DOMAIN call'[q].chan : call'[q].chan[i].ok
    BY Zenon DEF Results
  <2>2. /\ call[q].pc # "done" => ~call[q].ok
        /\ call[q].pc = "idle" => call[q].chan = <<>>
        /\ call[q].pc = "done" /\ plan[q] = "list" =>
              call[q].data = ListData(call[q].local, call[q].chan)
        /\ call[q].pc = "done" /\ plan[q] = "delete" /\ call[q].ok =>
              \A i \in DOMAIN call[q].chan : call[q].chan[i].ok
    BY Zenon DEF IInv, Results
  <2>3. /\ plan'[q] = plan[q] /\ call'[q].pc = call[q].pc /\ (call'[q].ok <=> call[q].ok)
        /\ call'[q].data = call[q].data
        /\ call[q].pc # "wait" => call'[q].chan = call[q].chan
    BY <1>1, <1>2, Zenon
  <2> QED BY <2>1, <2>2, <2>3, Zenon
<1>6. OprfQuorum'
  BY <1>1, <1>2, Zenon DEF IInv, OprfQuorum
<1>7. wire' \subseteq wire
  BY <1>1
<1> QED BY <1>1, <1>2, <1>3, <1>4, <1>5, <1>6, <1>7, GoesStep

Pcs == {"idle", "wait", "next", "done"}

LEMMA CallPc ==
  ASSUME NEW class, NEW c \in CallOf(class), NEW p \in Pcs
  PROVE  LET d == [c EXCEPT !.pc = p]
         IN  /\ d \in CallOf(class) /\ d.pc = p
             /\ d.chan = c.chan /\ d.arg = c.arg /\ d.id = c.id /\ d.want = c.want /\ d.local = c.local
             /\ d.data = c.data /\ (d.ok <=> c.ok) /\ d.held = c.held /\ d.kept = c.kept
BY Zenon DEF CallOf, Pcs

LEMMA FanOutNextStep ==
  ASSUME IInv, NEW q \in Callers, FanOutNext(q)
  PROVE  IInv'
<1> DEFINE c == call[q]
           p == IF call[q].todo = {} THEN "done" ELSE "next"
<1>1. /\ plan[q] = "version" /\ c.pc = "wait" /\ UNCHANGED <<view, store, plan, next, life, wire>>
      /\ call' = [call EXCEPT ![q] = [c EXCEPT !.pc = p]]
  BY DEF FanOutNext
<1>2. /\ call = [r \in Callers |-> call[r]]
      /\ \A r \in Callers : call[r] \in CallOf(Class(plan[r]))
  BY ZenonT(60) DEF IInv, TypeOK
<1>3. p \in {"done", "next"}
  OBVIOUS
<1> HIDE DEF p
<1>4. /\ call' = [r \in Callers |-> call'[r]]
      /\ call'[q] = [c EXCEPT !.pc = p]
      /\ \A r \in Callers : r # q => call'[r] = call[r]
  BY <1>1, <1>2
<1> HIDE DEF c
<1>5. c = call[q]
  BY DEF c
<1>6. /\ call'[q] \in CallOf(Class(plan[q])) /\ call'[q].pc = p
      /\ call'[q].chan = c.chan /\ call'[q].arg = c.arg /\ call'[q].id = c.id
      /\ call'[q].want = c.want /\ call'[q].local = c.local /\ call'[q].data = c.data
      /\ (call'[q].ok <=> c.ok) /\ call'[q].held = c.held /\ call'[q].kept = c.kept
  <2>1. c \in CallOf(Class(plan[q])) /\ p \in Pcs
    BY <1>2, <1>3, <1>5 DEF Pcs
  <2>2. call'[q] = [c EXCEPT !.pc = p]
    BY <1>4
  <2> QED BY <2>1, <2>2, CallPc
<1>7. \A r \in Callers : Goes(r, p)
  <2>1. Goes(q, p)
    BY <1>3, <1>5, <1>6, Zenon DEF Goes
  <2>2. ASSUME NEW r \in Callers, r # q PROVE Goes(r, p)
    BY <1>4, <2>2 DEF Goes
  <2> QED BY <2>1, <2>2
<1>8. TypeOK'
  BY <1>1, <1>2, <1>4, <1>6 DEF IInv, TypeOK
<1>9. Histories'
  <2>1. Alive' = Alive
    BY <1>1 DEF Alive
  <2>2. ~Waiting(q)'
    BY <1>1 DEF Waiting
  <2>3. \A r \in Callers : r # q => (Waiting(r)' <=> Waiting(r))
    BY <1>1, <1>4 DEF Waiting
  <2> QED BY <1>1, <1>4, <2>1, <2>2, <2>3 DEF IInv, Histories
<1>10. Results'
  BY <1>1, <1>3, <1>4, <1>5, <1>6 DEF IInv, Results
<1>11. OprfQuorum'
  BY <1>1, <1>4, Zenon DEF IInv, OprfQuorum
<1> QED BY <1>1, <1>7, <1>8, <1>9, <1>10, <1>11, GoesStep

----------------------------------------------------------------------------
(* What Finish makes of the answers.                                       *)

(* Evaluations that are the first of their share index are as many as      *)
(* there are daemons that made them.                                       *)
LEMMA SharesCounted ==
  ASSUME NEW s, NEW own, NEW E, own.by = Me,
         \A i \in DOMAIN s : s[i].peer \in Peers /\ OwnShare(s[i]), DOMAIN s \subseteq Nat,
         \A e \in E : \/ e = own
                      \/ \E i \in DOMAIN s :
                            /\ e \in s[i].data /\ e.by # Me
                            /\ \A j \in 1 .. i - 1 : \A t \in s[j].data : t.by # e.by,
         DOMAIN s = 1 .. Len(s)
  PROVE  Cardinality({e.by : e \in E}) = Cardinality(E)
<1> DEFINE B == {e.by : e \in E}
           f == [e \in E |-> e.by]
<1>1. ASSUME NEW i \in DOMAIN s, NEW e \in s[i].data
      PROVE  e = [by |-> s[i].peer, point |-> s[i].arg] /\ e.by = s[i].peer
  BY DEF OwnShare
<1>2. \A e \in E : e.by \in Nodes
  BY <1>1 DEF Nodes
<1>3. IsFiniteSet(B)
  <2>1. IsFiniteSet(Nodes)
    BY PeersAssumption, FS_Singleton, FS_Union, ZenonT(60) DEF Nodes
  <2> QED BY <1>2, <2>1, FS_Subset
<1>4. ASSUME NEW d \in E, NEW e \in E, d.by = e.by
      PROVE  d = e
  <2>1. CASE d = own \/ e = own
    BY <1>4, <2>1
  <2>2. CASE d # own /\ e # own
    <3>1. PICK i \in DOMAIN s : /\ d \in s[i].data /\ d.by # Me
                                /\ \A k \in 1 .. i - 1 : \A t \in s[k].data : t.by # d.by
      BY <2>2
    <3>2. PICK j \in DOMAIN s : /\ e \in s[j].data /\ e.by # Me
                                /\ \A k \in 1 .. j - 1 : \A t \in s[k].data : t.by # e.by
      BY <2>2
    <3>3. i \in Nat /\ j \in Nat /\ i >= 1 /\ j >= 1
      OBVIOUS
    <3>4. ~(i < j)
      BY <1>4, <3>1, <3>2, <3>3
    <3>5. ~(j < i)
      BY <1>4, <3>1, <3>2, <3>3
    <3>6. i = j
      BY <3>3, <3>4, <3>5
    <3> QED BY <1>1, <3>1, <3>2, <3>6
  <2> QED BY <2>1, <2>2
<1>5. f \in Injection(E, B) /\ f \in Surjection(E, B)
  <2>1. f \in [E -> B] /\ \A e \in E : f[e] = e.by
    OBVIOUS
  <2>2. \A b \in B : \E e \in E : f[e] = b
    OBVIOUS
  <2>3. \A d, e \in E : f[d] = f[e] => d = e
    BY <1>4, <2>1
  <2> HIDE DEF f, B
  <2> QED BY <2>1, <2>2, <2>3 DEF Injection, Surjection, IsInjective
<1> HIDE DEF f
<1>6. Cardinality(E) = Cardinality(B)
  <2> HIDE DEF B
  <2> QED BY <1>3, <1>5, FS_Injection
<1> QED BY <1>6, Zenon

LEMMA ResultFields ==
  ASSUME NEW b \in BOOLEAN, NEW x
  PROVE  LET r == [ok |-> b, data |-> x]
         IN  r.ok \in BOOLEAN /\ (r.ok <=> b) /\ r.data = x
OBVIOUS

(* The result of an OPRF call.                                             *)
LEMMA OprfResults ==
  ASSUME NEW c, c.arg \in Points, NEW s \in Seq(AnswerOf("oprf")),
         \A i \in DOMAIN s : OwnShare(s[i])
  PROVE  LET r == OprfResult(c, s)
         IN  /\ r.ok \in BOOLEAN /\ r.data \in DataOf("oprf")
             /\ r.ok => Cardinality({e.by : e \in r.data}) >= Threshold
<1> DEFINE unseen(i) == {e \in s[i].data :
                 e.by # Me /\ \A j \in 1 .. i - 1 : \A t \in s[j].data : t.by # e.by}
           E == {Own(c)} \cup UNION {unseen(i) : i \in DOMAIN s}
<1>1. OprfResult(c, s) = [ok |-> Cardinality(E) >= Threshold,
                          data |-> IF Cardinality(E) >= Threshold THEN E ELSE {}]
  BY DEF OprfResult, EnoughOnly
<1>2. \A e \in E : \/ e = Own(c)
                   \/ \E i \in DOMAIN s :
                            /\ e \in s[i].data /\ e.by # Me
                            /\ \A j \in 1 .. i - 1 : \A t \in s[j].data : t.by # e.by
  OBVIOUS
<1>3. \A i \in DOMAIN s : s[i].peer \in Peers /\ s[i].data \subseteq [by : Nodes, point : Points]
  <2>1. \A i \in DOMAIN s : s[i] \in AnswerOf("oprf")
    OBVIOUS
  <2> QED BY <2>1 DEF AnswerOf, DataOf
<1>4. Own(c).by = Me /\ Own(c) \in [by : Nodes, point : Points]
  BY DEF Own, Nodes
<1> HIDE DEF E
<1>5. E \subseteq [by : Nodes, point : Points]
  BY <1>2, <1>3, <1>4
<1>6. Cardinality({e.by : e \in E}) = Cardinality(E)
  <2>1. DOMAIN s = 1 .. Len(s) /\ DOMAIN s \subseteq Nat
    OBVIOUS
  <2> QED BY <1>2, <1>3, <1>4, <2>1, SharesCounted
<1>7. /\ OprfResult(c, s).ok \in BOOLEAN
      /\ OprfResult(c, s).ok <=> Cardinality(E) >= Threshold
      /\ OprfResult(c, s).data = IF Cardinality(E) >= Threshold THEN E ELSE {}
  <2> DEFINE b == Cardinality(E) >= Threshold
             x == IF Cardinality(E) >= Threshold THEN E ELSE {}
  <2>1. b \in BOOLEAN /\ OprfResult(c, s) = [ok |-> b, data |-> x]
    BY <1>1
  <2>2. (b <=> Cardinality(E) >= Threshold) /\ x = IF Cardinality(E) >= Threshold THEN E ELSE {}
    OBVIOUS
  <2> HIDE DEF b, x
  <2>3. OprfResult(c, s).ok \in BOOLEAN /\ (OprfResult(c, s).ok <=> b) /\ OprfResult(c, s).data = x
    BY <2>1, ResultFields
  <2> QED BY <2>2, <2>3
<1>8. OprfResult(c, s).data \in DataOf("oprf")
  BY <1>5, <1>7 DEF DataOf
<1>9. CASE Cardinality(E) >= Threshold
  BY <1>6, <1>7, <1>8, <1>9
<1>10. CASE ~(Cardinality(E) >= Threshold)
  BY <1>7, <1>8, <1>10, ZenonT(60)
<1> QED BY <1>9, <1>10, Zenon

LEMMA FinishCall ==
  ASSUME NEW q \in Callers, plan[q] \in {"list", "delete", "oprf"},
         NEW c \in CallOf(Class(plan[q])), NEW s \in Seq(AnswerOf(Class(plan[q]))),
         plan[q] = "oprf" => c.arg \in Points /\ \A i \in DOMAIN s : OwnShare(s[i])
  PROVE  LET d == Finish(q, c, s)
         IN  /\ d \in CallOf(Class(plan[q])) /\ d.pc = "done" /\ d.chan = s
             /\ d.arg = c.arg /\ d.id = c.id /\ d.want = c.want /\ d.local = c.local
             /\ d.held = c.held /\ d.kept = c.kept
             /\ plan[q] = "list" => d.data = ListData(c.local, s)
             /\ plan[q] = "delete" /\ d.ok => \A i \in DOMAIN s : s[i].ok
             /\ plan[q] = "oprf" /\ d.ok => Cardinality({e.by : e \in d.data}) >= Threshold
<1> DEFINE r == CASE plan[q] = "list" -> ListResult(c, s)
                  [] plan[q] = "delete" -> DeleteResult(c, s)
                  [] plan[q] = "oprf" -> OprfResult(c, s)
           d == Finish(q, c, s)
<1>1. d = [c EXCEPT !.pc = "done", !.chan = s, !.ok = r.ok, !.data = r.data]
  BY DEF Finish
<1>2. /\ r.ok \in BOOLEAN /\ r.data \in DataOf(Class(plan[q]))
      /\ plan[q] = "list" => r.data = ListData(c.local, s)
      /\ plan[q] = "delete" /\ r.ok => \A i \in DOMAIN s : s[i].ok
      /\ plan[q] = "oprf" /\ r.ok => Cardinality({e.by : e \in r.data}) >= Threshold
  <2>1. CASE plan[q] = "list"
    <3>1. r = ListResult(c, s)
      BY <2>1
    <3>2. r.ok \in BOOLEAN /\ r.data = ListData(c.local, s)
      BY <3>1, ResultFields, ZenonT(60) DEF ListResult, ListData
    <3>3. c.local \subseteq Names /\ \A i \in DOMAIN s : s[i].data \subseteq Names
      <4>1. Class(plan[q]) = "query" /\ \A i \in DOMAIN s : s[i] \in AnswerOf(Class(plan[q]))
        BY <2>1 DEF Class
      <4> QED BY <4>1, ZenonT(60) DEF CallOf, AnswerOf, DataOf
    <3>4. ListData(c.local, s) \subseteq Names
      BY <3>3 DEF ListData, Merged
    <3> HIDE DEF r
    <3> QED BY <2>1, <3>2, <3>4 DEF DataOf, Class
  <2>2. CASE plan[q] = "delete"
    <3>1. r = DeleteResult(c, s)
      BY <2>2
    <3>2. r.ok \in BOOLEAN /\ r.data = {} /\ (r.ok => \A i \in DOMAIN s : s[i].ok)
      <4>1. DeleteResult(c, s).ok \in BOOLEAN /\ DeleteResult(c, s).data = {}
            /\ (DeleteResult(c, s).ok <=> Len(s) > 0 /\ \A i \in DOMAIN s : s[i].ok)
        BY ResultFields, Zenon DEF DeleteResult
      <4> QED BY <3>1, <4>1
    <3> HIDE DEF r
    <3> QED BY <2>2, <3>2 DEF DataOf, Class
  <2>3. CASE plan[q] = "oprf"
    <3>1. r = OprfResult(c, s)
      BY <2>3
    <3>2. Class(plan[q]) = "oprf"
      BY <2>3 DEF Class
    <3> HIDE DEF r
    <3> QED BY <2>3, <3>1, <3>2, OprfResults, Zenon
  <2> QED BY <2>1, <2>2, <2>3, ZenonT(60)
<1> HIDE DEF r, d
<1>3. /\ d \in CallOf(Class(plan[q])) /\ d.pc = "done" /\ d.chan = s /\ (d.ok <=> r.ok)
      /\ d.data = r.data /\ d.arg = c.arg /\ d.id = c.id /\ d.want = c.want /\ d.local = c.local
      /\ d.held = c.held /\ d.kept = c.kept
  <2>1. r.ok \in BOOLEAN /\ r.data \in DataOf(Class(plan[q]))
    BY <1>2, Zenon
  <2> QED BY <1>1, <2>1, ZenonT(60) DEF CallOf
<1>4. /\ d \in CallOf(Class(plan[q])) /\ d.pc = "done" /\ d.chan = s
      /\ d.arg = c.arg /\ d.id = c.id /\ d.want = c.want /\ d.local = c.local
      /\ d.held = c.held /\ d.kept = c.kept
      /\ plan[q] = "list" => d.data = ListData(c.local, s)
      /\ plan[q] = "delete" /\ d.ok => \A i \in DOMAIN s : s[i].ok
      /\ plan[q] = "oprf" /\ d.ok => Cardinality({e.by : e \in d.data}) >= Threshold
  BY <1>2, <1>3, Zenon
<1> QED BY <1>4, Zenon DEF d

(* The collecting loop returns with the answers s it has taken.            *)
LEMMA ReturnStep ==
  ASSUME IInv, NEW q \in Callers, Waiting(q), NEW s \in Seq(AnswerOf(Class(plan[q]))),
         \A i \in DOMAIN s : i \in DOMAIN call[q].chan /\ s[i] = call[q].chan[i],
         call' = [call EXCEPT ![q] = Finish(q, @, s)],
         UNCHANGED <<view, store, plan, next, life, wire>>
  PROVE  IInv'
<1> DEFINE c == call[q]
           d == Finish(q, c, s)
<1>1. /\ call = [r \in Callers |-> call[r]]
      /\ \A r \in Callers : call[r] \in CallOf(Class(plan[r]))
      /\ plan[q] \in Kinds \cup {"none"}
  BY DEF IInv, TypeOK
<1>2. /\ call' = [r \in Callers |-> call'[r]]
      /\ call'[q] = d
      /\ \A r \in Callers : r # q => call'[r] = call[r]
  BY <1>1
<1>3. c = call[q] /\ c \in CallOf(Class(plan[q]))
  BY <1>1
<1>4. plan[q] \in {"list", "delete", "oprf"}
  <2>1. c.pc = "wait" /\ plan[q] # "version"
    BY DEF Waiting
  <2>2. plan[q] # "none"
    BY <2>1, ZenonT(60) DEF IInv, IdsIssued
  <2> QED BY <1>1, <2>1, <2>2 DEF Kinds
<1>5. plan[q] = "oprf" => c.arg \in Points /\ \A i \in DOMAIN s : OwnShare(s[i])
  BY DEF IInv, OwnShares, Waiting
<1> HIDE DEF c, d
<1>6. /\ d \in CallOf(Class(plan[q])) /\ d.pc = "done" /\ d.chan = s
      /\ d.arg = c.arg /\ d.id = c.id /\ d.want = c.want /\ d.local = c.local
      /\ d.held = c.held /\ d.kept = c.kept
      /\ plan[q] = "list" => d.data = ListData(c.local, s)
      /\ plan[q] = "delete" /\ d.ok => \A i \in DOMAIN s : s[i].ok
      /\ plan[q] = "oprf" /\ d.ok => Cardinality({e.by : e \in d.data}) >= Threshold
  BY <1>3, <1>4, <1>5, FinishCall, ZenonT(60) DEF d
<1>7. \A r \in Callers : Goes(r, s)
  <2>1. Goes(q, s)
    BY <1>2, <1>3, <1>6 DEF Goes
  <2>2. ASSUME NEW r \in Callers, r # q PROVE Goes(r, s)
    BY <1>2, <2>2, Zenon DEF Goes
  <2> QED BY <2>1, <2>2, ZenonT(60)
<1>8. TypeOK'
  BY <1>1, <1>2, <1>6, Zenon DEF IInv, TypeOK
<1>9. Histories'
  <2>1. Alive' = Alive
    BY DEF Alive
  <2>2. ~Waiting(q)'
    BY <1>2, <1>6 DEF Waiting
  <2>3. \A r \in Callers : r # q => (Waiting(r)' <=> Waiting(r))
    BY <1>2, ZenonT(60) DEF Waiting
  <2>4. ASSUME NEW r \in Callers
        PROVE  /\ plan[r] \in {"list", "delete"} /\ call'[r].pc \in {"wait", "done"} =>
                      call'[r].want = Cardinality(Alive)
               /\ plan[r] = "list" => call'[r].local \subseteq call'[r].held
    BY <1>2, <1>3, <1>6 DEF IInv, Histories, Waiting
  <2>5. ASSUME NEW r \in Callers, Waiting(r)'
        PROVE  /\ \A n \in Nodes : call'[r].kept[n] \subseteq store[n]
               /\ plan[r] = "list" => \A n \in Nodes : store[n] \subseteq call'[r].held
    <3>1. Waiting(r) /\ call'[r] = call[r]
      BY <1>2, <2>2, <2>3, <2>5
    <3> QED BY <3>1, Zenon DEF IInv, Histories
  <2> QED BY <2>1, <2>4, <2>5, ZenonT(60) DEF Histories
<1>10. Results'
  <2>1. ASSUME NEW r \in Callers
        PROVE  /\ call'[r].pc # "done" => ~call'[r].ok
               /\ call'[r].pc = "idle" => call'[r].chan = <<>>
               /\ call'[r].pc = "done" /\ plan[r] = "list" =>
                      call'[r].data = ListData(call'[r].local, call'[r].chan)
               /\ call'[r].pc = "done" /\ plan[r] = "delete" /\ call'[r].ok =>
                      \A i \in DOMAIN call'[r].chan : call'[r].chan[i].ok
    <3>1. CASE r = q
      BY <1>2, <1>6, <3>1
    <3>2. CASE r # q
      BY <1>2, <3>2 DEF IInv, Results
    <3> QED BY <3>1, <3>2, ZenonT(60)
  <2> QED BY <2>1, ZenonT(60) DEF Results, ListData
<1>11. OprfQuorum'
  <2>1. plan[q] = "oprf" /\ call'[q].ok => Cardinality({e.by : e \in call'[q].data}) >= Threshold
    BY <1>2, <1>6, Zenon
  <2>2. ASSUME NEW r \in Callers, r # q, plan[r] = "oprf", call'[r].ok
        PROVE  Cardinality({e.by : e \in call'[r].data}) >= Threshold
    BY <1>2, <2>2, ZenonT(60) DEF IInv, OprfQuorum
  <2> QED BY <2>1, <2>2, Zenon DEF OprfQuorum
<1>12. wire' \subseteq wire
  BY ZenonT(60)
<1> QED BY <1>7, <1>8, <1>9, <1>10, <1>11, <1>12, GoesStep, ZenonT(60)

LEMMA ReturnSteps ==
  ASSUME IInv, NEW q \in Callers, Collected(q) \/ TimedOut(q)
  PROVE  IInv'
<1>1. Waiting(q) /\ UNCHANGED <<view, store, plan, next, life, wire>>
  BY DEF Collected, TimedOut
<1>2. call[q].chan \in Seq(AnswerOf(Class(plan[q])))
  BY Zenon DEF IInv, TypeOK, CallOf
<1>3. CASE call' = [call EXCEPT ![q] = Finish(q, @, @.chan)]
  BY <1>1, <1>2, <1>3, ReturnStep, Zenon
<1>4. ASSUME NEW k \in 0 .. Len(call[q].chan),
             call' = [call EXCEPT ![q] = Finish(q, @, SubSeq(@.chan, 1, k))]
      PROVE  IInv'
  <2> DEFINE s == SubSeq(call[q].chan, 1, k)
  <2>1. /\ s \in Seq(AnswerOf(Class(plan[q])))
        /\ \A i \in DOMAIN s : i \in DOMAIN call[q].chan /\ s[i] = call[q].chan[i]
    BY <1>2
  <2>2. call' = [call EXCEPT ![q] = Finish(q, @, s)]
    BY <1>4
  <2> HIDE DEF s
  <2> QED BY <1>1, <2>1, <2>2, ReturnStep, ZenonT(60)
<1> QED BY <1>3, <1>4 DEF Collected, TimedOut

----------------------------------------------------------------------------
(* A call begins.                                                          *)

LEMMA AliveCounted == IsFiniteSet(Alive) /\ Cardinality(Alive) \in Nat
<1>1. Alive \subseteq Peers
  BY DEF Alive
<1>2. IsFiniteSet(Alive)
  BY <1>1, PeersAssumption, FS_Subset
<1> QED BY <1>2, FS_CardinalityType

(* The questions of a broadcast.                                           *)
LEMMA Broadcast ==
  ASSUME TypeOK, NEW kind \in Kinds, NEW id \in Nat, NEW arg \in ArgOf(Class(kind)),
         NEW m \in {Question(p, kind, id, arg) : p \in Connected}
  PROVE  /\ m.type = "question" /\ m.peer \in Connected /\ m.life = life
         /\ m.kind = kind /\ m.id = id /\ m.arg = arg /\ m = Question(m.peer, kind, id, arg)
         /\ m \in QuestionOf(Class(kind))
<1>1. PICK p \in Connected : m = Question(p, kind, id, arg)
  OBVIOUS
<1>2. /\ m.type = "question" /\ m.peer = p /\ m.life = life
      /\ m.kind = kind /\ m.id = id /\ m.arg = arg
  BY <1>1 DEF Question
<1>3. kind \in KindOf(Class(kind)) /\ p \in Peers /\ life \in Nat
  BY DEF KindOf, Connected, TypeOK
<1>4. m \in QuestionOf(Class(kind))
  BY <1>1, <1>3 DEF Question, QuestionOf
<1> QED BY <1>1, <1>2, <1>4

(* Query and Evaluate once the call c has been made up.                    *)
LEMMA ScatterStep ==
  ASSUME IInv, NEW q \in Callers, plan[q] \in {"list", "delete", "oprf"}, call[q].pc = "idle",
         NEW c \in CallOf(Class(plan[q])), c.chan = <<>>, ~c.ok, c.want = 0,
         c.arg \in ArgOf(Class(plan[q])),
         \A n \in Nodes : c.kept[n] \subseteq store'[n],
         plan[q] = "list" => c.local \subseteq c.held /\ \A n \in Nodes : store'[n] \subseteq c.held,
         NEW calls, calls = [r \in Callers |-> calls[r]], Scatter(q, c, calls),
         \A r \in Callers : r # q =>
            /\ call'[r] \in CallOf(Class(plan[r])) /\ Drifts(r)
            /\ Waiting(r) =>
                  /\ \A n \in Nodes : call'[r].kept[n] \subseteq store'[n]
                  /\ plan[r] = "list" => \A n \in Nodes : store'[n] \subseteq call'[r].held,
         store' \in [Nodes -> SUBSET Names], UNCHANGED <<view, plan, life>>
  PROVE  IInv'
<1> DEFINE class == Class(plan[q])
           id == next[class] + 1
<1>1. TypeOK /\ class \in Classes /\ plan[q] \in Kinds
  BY ClassType DEF IInv, Kinds
<1>2. next \in [Classes -> Nat] /\ id \in Nat
  BY <1>1 DEF TypeOK
<1>3. Alive' = Alive
  BY DEF Alive
<1>4. \A r \in Callers : r # q => /\ call'[r].pc = call[r].pc /\ call'[r].want = call[r].want
                                  /\ call'[r].local = call[r].local /\ call'[r].data = call[r].data
                                  /\ call'[r].chan = call[r].chan /\ (call'[r].ok <=> call[r].ok)
                                  /\ call[r].held \subseteq call'[r].held
  BY Zenon DEF Drifts
<1>5. ASSUME NEW r \in Callers, r # q
      PROVE  /\ plan[r] \in {"list", "delete"} /\ call'[r].pc \in {"wait", "done"} =>
                    call'[r].want = Cardinality(Alive)
             /\ plan[r] = "list" => call'[r].local \subseteq call'[r].held
             /\ call'[r].pc # "done" => ~call'[r].ok
             /\ call'[r].pc = "idle" => call'[r].chan = <<>>
             /\ call'[r].pc = "done" /\ plan[r] = "list" =>
                    call'[r].data = ListData(call'[r].local, call'[r].chan)
             /\ call'[r].pc = "done" /\ plan[r] = "delete" /\ call'[r].ok =>
                    \A i \in DOMAIN call'[r].chan : call'[r].chan[i].ok
             /\ plan[r] = "oprf" /\ call'[r].ok => Cardinality({e.by : e \in call'[r].data}) >= Threshold
  <2>1. /\ plan[r] \in {"list", "delete"} /\ call'[r].pc \in {"wait", "done"} =>
              call'[r].want = Cardinality(Alive)
        /\ plan[r] = "list" => call'[r].local \subseteq call'[r].held
    BY <1>4, <1>5 DEF IInv, Histories
  <2>2. ListData(call'[r].local, call'[r].chan) = ListData(call[r].local, call[r].chan)
    BY <1>4, <1>5, ZenonT(60)
  <2>3. /\ call'[r].pc # "done" => ~call'[r].ok
        /\ call'[r].pc = "idle" => call'[r].chan = <<>>
        /\ call'[r].pc = "done" /\ plan[r] = "list" =>
              call'[r].data = ListData(call'[r].local, call'[r].chan)
        /\ call'[r].pc = "done" /\ plan[r] = "delete" /\ call'[r].ok =>
              \A i \in DOMAIN call'[r].chan : call'[r].chan[i].ok
    BY <1>4, <1>5, <2>2 DEF IInv, Results
  <2>4. call'[r].data = call[r].data /\ (call'[r].ok <=> call[r].ok)
    BY <1>4, <1>5
  <2>5. plan[r] = "oprf" /\ call'[r].ok => Cardinality({e.by : e \in call'[r].data}) >= Threshold
    BY <2>4, ZenonT(60) DEF IInv, OprfQuorum
  <2> QED BY <2>1, <2>3, <2>5, ZenonT(60)
<1>6. \A r \in Callers : r # q => (Waiting(r)' <=> Waiting(r))
  BY <1>4 DEF Waiting
<1>7. CASE Alive = {}
  <2> DEFINE d == Finish(q, c, <<>>)
  <2>1. call' = [calls EXCEPT ![q] = d] /\ UNCHANGED <<next, wire>>
    BY <1>7 DEF Scatter
  <2>2. call' = [r \in Callers |-> call'[r]] /\ call'[q] = d
    BY <2>1
  <2>3. /\ <<>> \in Seq(AnswerOf(Class(plan[q])))
        /\ plan[q] = "oprf" => c.arg \in Points /\ \A i \in DOMAIN <<>> : OwnShare(<<>>[i])
    <3>1. plan[q] = "oprf" => c.arg \in Points
      BY DEF ArgOf, Class
    <3> QED BY <3>1
  <2> HIDE DEF d
  <2>4. /\ d \in CallOf(Class(plan[q])) /\ d.pc = "done" /\ d.chan = <<>>
        /\ d.arg = c.arg /\ d.id = c.id /\ d.want = c.want /\ d.local = c.local
        /\ d.held = c.held /\ d.kept = c.kept
        /\ plan[q] = "list" => d.data = ListData(c.local, <<>>)
        /\ plan[q] = "delete" /\ d.ok => \A i \in DOMAIN <<>> : <<>>[i].ok
        /\ plan[q] = "oprf" /\ d.ok => Cardinality({e.by : e \in d.data}) >= Threshold
    BY <2>3, FinishCall, ZenonT(60) DEF d
  <2>5. TypeOK'
    BY <1>1, <2>1, <2>2, <2>4 DEF TypeOK
  <2>6. Cardinality(Alive) = 0
    BY <1>7, FS_EmptySet
  <2>7. Histories'
    <3>1. ~Waiting(q)'
      BY <2>2, <2>4 DEF Waiting
    <3>2. ASSUME NEW r \in Callers
          PROVE  /\ plan[r] \in {"list", "delete"} /\ call'[r].pc \in {"wait", "done"} =>
                      call'[r].want = Cardinality(Alive)
                 /\ plan[r] = "list" => call'[r].local \subseteq call'[r].held
      <4>1. CASE r = q
        BY <2>2, <2>4, <2>6, <4>1, ZenonT(60)
      <4>2. CASE r # q
        BY <1>5, <4>2, ZenonT(60)
      <4> QED BY <4>1, <4>2
    <3>3. ASSUME NEW r \in Callers, Waiting(r)'
          PROVE  /\ \A k \in Nodes : call'[r].kept[k] \subseteq store'[k]
                 /\ plan[r] = "list" => \A k \in Nodes : store'[k] \subseteq call'[r].held
      BY <1>6, <3>1, <3>3
    <3> QED BY <1>3, <3>2, <3>3, ZenonT(60) DEF Histories
  <2>8. Results'
    <3>1. /\ call'[q].pc = "done" /\ plan[q] = "list" =>
                    call'[q].data = ListData(call'[q].local, call'[q].chan)
          /\ call'[q].pc = "done"
          /\ DOMAIN call'[q].chan = {}
      BY <2>2, <2>4
    <3> QED BY <1>5, <3>1, ZenonT(60) DEF Results, ListData
  <2>9. OprfQuorum'
    BY <1>5, <2>2, <2>4, ZenonT(60) DEF OprfQuorum
  <2>10. \A k \in Classes : next[k] <= next'[k]
    BY <1>2, <2>1
  <2> DEFINE ask == {}
  <2>11. /\ wire' = wire \cup ask /\ ask = {} /\ call'[q].pc # "wait" /\ call'[q].chan = <<>>
         /\ call[q].pc # "wait" /\ \A r \in Callers : r # q => Drifts(r)
    BY <2>1, <2>2, <2>4
  <2> HIDE DEF ask, id
  <2>12. id \in Nat
    BY <1>2
  <2>13. /\ \A m \in ask : /\ m.type = "question" /\ m.peer \in Connected /\ m.life = life
                            /\ m.kind = plan[q] /\ m.id = id /\ m.arg = call'[q].arg
         /\ \A m1, m2 \in ask : m1.peer = m2.peer => m1 = m2
         /\ ~(call'[q].pc = "wait" \/ ask # {})
    BY <2>11
  <2>14. Begins(q, id, ask)
    BY <2>10, <2>11, <2>12, <2>13 DEF Begins
  <2> QED BY <2>5, <2>7, <2>8, <2>9, <2>14, BeginStep
<1>8. CASE Alive # {}
  <2> DEFINE n == Cardinality(Alive)
             d == [c EXCEPT !.pc = "wait", !.id = id, !.want = n]
             ask == {Question(p, plan[q], id, c.arg) : p \in Connected}
  <2>1. /\ call' = [calls EXCEPT ![q] = d] /\ next' = [next EXCEPT ![class] = id]
        /\ wire' = wire \cup ask
    BY <1>8 DEF Scatter
  <2>2. call' = [r \in Callers |-> call'[r]] /\ call'[q] = d
    BY <2>1
  <2>3. n \in Nat
    BY AliveCounted, ZenonT(60)
  <2>4. \A m \in ask : /\ m.type = "question" /\ m.peer \in Connected /\ m.life = life
                       /\ m.kind = plan[q] /\ m.id = id /\ m.arg = c.arg
                       /\ m = Question(m.peer, plan[q], id, c.arg)
                       /\ m \in QuestionOf(class)
    BY <1>1, <1>2, Broadcast
  <2>5. next' \in [Classes -> Nat] /\ next'[class] = id /\ next[class] < id
        /\ \A k \in Classes : next[k] <= next'[k]
    BY <1>1, <1>2, <2>1
  <2> HIDE DEF n, ask, id, class, d
  <2>6. d = [c EXCEPT !.pc = "wait", !.id = id, !.want = n] /\ n = Cardinality(Alive)
        /\ class = Class(plan[q]) /\ c \in CallOf(class)
    BY DEF d, n, class
  <2>7. /\ d \in CallOf(class) /\ d.pc = "wait" /\ d.id = id /\ d.want = n
        /\ d.chan = c.chan /\ d.arg = c.arg /\ d.local = c.local
        /\ d.data = c.data /\ (d.ok <=> c.ok) /\ d.held = c.held /\ d.kept = c.kept
    BY <1>2, <2>3, <2>6, ZenonT(60) DEF CallOf
  <2>8. TypeOK'
    <3>1. \A m \in wire' : /\ m.kind \in Kinds
                           /\ m \in QuestionOf(Class(m.kind)) \cup AnswerOf(Class(m.kind))
      BY <1>1, <2>1, <2>4, <2>6, ZenonT(60) DEF TypeOK
    <3> QED BY <1>1, <2>2, <2>5, <2>6, <2>7, <3>1 DEF TypeOK
  <2>9. Histories'
    <3>1. Waiting(q)' => /\ \A k \in Nodes : call'[q].kept[k] \subseteq store'[k]
                         /\ plan[q] = "list" => \A k \in Nodes : store'[k] \subseteq call'[q].held
      BY <2>2, <2>7 DEF Waiting
    <3>2. ASSUME NEW r \in Callers
          PROVE  /\ plan[r] \in {"list", "delete"} /\ call'[r].pc \in {"wait", "done"} =>
                      call'[r].want = Cardinality(Alive)
                 /\ plan[r] = "list" => call'[r].local \subseteq call'[r].held
      <4>1. CASE r = q
        BY <2>2, <2>6, <2>7, <4>1, ZenonT(60)
      <4>2. CASE r # q
        BY <1>5, <4>2, ZenonT(60)
      <4> QED BY <4>1, <4>2
    <3>3. ASSUME NEW r \in Callers, Waiting(r)'
          PROVE  /\ \A k \in Nodes : call'[r].kept[k] \subseteq store'[k]
                 /\ plan[r] = "list" => \A k \in Nodes : store'[k] \subseteq call'[r].held
      BY <1>6, <3>1, <3>3
    <3> QED BY <1>3, <3>2, <3>3, ZenonT(60) DEF Histories
  <2>10. Results'
    BY <1>5, <2>2, <2>7, ZenonT(60) DEF Results, ListData
  <2>11. OprfQuorum'
    BY <1>5, <2>2, <2>7 DEF OprfQuorum
  <2>12. \A m1, m2 \in ask : m1.peer = m2.peer => m1 = m2
    BY <2>4
  <2>13. plan[q] = "oprf" => c.arg \in Points
    BY DEF ArgOf, Class
  <2>14. /\ id \in Nat /\ call[q].pc # "wait" /\ call'[q].chan = <<>> /\ wire' = wire \cup ask
         /\ plan[q] # "none" /\ next[Class(plan[q])] < id /\ next'[Class(plan[q])] = id
         /\ call'[q].id = id /\ (plan[q] = "oprf" => call'[q].arg \in Points)
         /\ \A r \in Callers : r # q => Drifts(r)
         /\ \A k \in Classes : next[k] <= next'[k]
    BY <1>2, <2>1, <2>2, <2>5, <2>6, <2>7, <2>13, ZenonT(60)
  <2>15. \A m \in ask : /\ m.type = "question" /\ m.peer \in Connected /\ m.life = life
                         /\ m.kind = plan[q] /\ m.id = id /\ m.arg = call'[q].arg
    BY <2>2, <2>4, <2>7, ZenonT(60)
  <2>16. Begins(q, id, ask)
    BY <2>12, <2>14, <2>15 DEF Begins
  <2> QED BY <2>8, <2>9, <2>10, <2>11, <2>16, BeginStep
<1> QED BY <1>7, <1>8

LEMMA IdleCall ==
  ASSUME NEW class
  PROVE  /\ Idle \in CallOf(class) /\ Idle.pc = "idle" /\ Idle.chan = <<>> /\ ~Idle.ok
         /\ Idle.want = 0 /\ Idle.local = {} /\ Idle.held = {}
         /\ \A n \in Nodes : Idle.kept[n] = {}
<1>1. {} \in DataOf(class)
  BY DEF DataOf
<1>2. [n \in Nodes |-> {}] \in [Nodes -> SUBSET Names]
  OBVIOUS
<1>3. <<>> \in Seq(AnswerOf(class))
  OBVIOUS
<1> QED BY <1>1, <1>2, <1>3, ZenonT(60) DEF Idle, CallOf

LEMMA QueryStep ==
  ASSUME IInv, NEW q \in Callers, NEW arg \in Args(plan[q]), Query(q, arg)
  PROVE  IInv'
<1> DEFINE gone == IF plan[q] = "delete" THEN {arg} ELSE {}
           now == [store EXCEPT ![Me] = @ \ gone]
           local == IF plan[q] = "list" THEN store[Me] ELSE {}
           held == IF plan[q] = "list" THEN UNION {store[n] : n \in Nodes} ELSE {}
           c == [Idle EXCEPT !.arg = arg, !.kept = now, !.local = local, !.held = held]
           calls == Lost(Me, gone)
<1>1. /\ call[q].pc = "idle" /\ plan[q] \in {"list", "delete"} /\ store' = now
      /\ Scatter(q, c, calls) /\ UNCHANGED <<view, plan, life>>
  BY DEF Query
<1>2. TypeOK /\ store \in [Nodes -> SUBSET Names] /\ Me \in Nodes
  BY DEF IInv, TypeOK, Nodes
<1>3. /\ now \in [Nodes -> SUBSET Names] /\ now[Me] = store[Me] \ gone
      /\ \A n \in Nodes : n # Me => now[n] = store[n]
  BY <1>2
<1>4. /\ local \in SUBSET Names /\ held \in SUBSET Names
      /\ plan[q] = "list" => /\ local \subseteq held /\ \A n \in Nodes : store[n] \subseteq held
  BY <1>2
<1>5. Class(plan[q]) = "query" /\ arg \in ArgOf("query")
  BY <1>1, Zenon DEF Class, ArgOf, Args
<1>6. /\ calls = [r \in Callers |-> calls[r]]
      /\ \A r \in Callers : r # q => call'[r] = calls[r]
  <2>1. calls = [r \in Callers |-> calls[r]]
    BY ZenonT(60) DEF Lost
  <2> HIDE DEF calls, c
  <2> QED BY <1>1, <2>1 DEF Scatter
<1>7. ASSUME NEW r \in Callers, r # q
      PROVE  /\ call'[r] \in CallOf(Class(plan[r])) /\ Drifts(r)
             /\ Waiting(r) =>
                   /\ \A n \in Nodes : call'[r].kept[n] \subseteq store'[n]
                   /\ plan[r] = "list" => \A n \in Nodes : store'[n] \subseteq call'[r].held
  <2>1. call'[r] = Lost(Me, gone)[r]
    BY <1>6, <1>7, ZenonT(60)
  <2> HIDE DEF gone, calls, now, local, held, c
  <2>2. /\ call'[r] \in CallOf(Class(plan[r])) /\ Drifts(r) /\ call'[r].held = call[r].held
        /\ Waiting(r) => call'[r].kept[Me] = call[r].kept[Me] \ gone
    <3>1. TypeOK /\ Me \in Nodes
      BY <1>2, Zenon
    <3> QED BY <2>1, <3>1, LostCall
  <2>3. \A n \in Nodes : call'[r].kept[n] \subseteq call[r].kept[n]
    BY <2>2, Zenon DEF Drifts
  <2>4. Waiting(r) => /\ \A n \in Nodes : call[r].kept[n] \subseteq store[n]
                      /\ plan[r] = "list" => \A n \in Nodes : store[n] \subseteq call[r].held
    BY ZenonT(60) DEF IInv, Histories
  <2>5. Waiting(r) => \A n \in Nodes : call'[r].kept[n] \subseteq store'[n]
    BY <1>1, <1>3, <2>2, <2>3, <2>4, ZenonT(60)
  <2>6. Waiting(r) /\ plan[r] = "list" => \A n \in Nodes : store'[n] \subseteq call'[r].held
    BY <1>1, <1>2, <1>3, <2>2, <2>4, ZenonT(60)
  <2> QED BY <2>2, <2>5, <2>6
<1> HIDE DEF now, local, held, gone
<1>8. /\ c \in CallOf("query") /\ c.chan = <<>> /\ ~c.ok /\ c.want = 0 /\ c.arg = arg
      /\ c.kept = now /\ c.local = local /\ c.held = held
  <2>1. /\ Idle \in CallOf("query") /\ Idle.chan = <<>> /\ ~Idle.ok /\ Idle.want = 0
    BY IdleCall
  <2> QED BY <1>3, <1>4, <1>5, <2>1, ZenonT(60) DEF CallOf
<1> HIDE DEF c, calls
<1>9. plan[q] = "list" => c.local \subseteq c.held /\ \A n \in Nodes : store'[n] \subseteq c.held
  BY <1>1, <1>2, <1>3, <1>4, <1>8, ZenonT(60)
<1> QED BY <1>1, <1>3, <1>5, <1>6, <1>7, <1>8, <1>9, ScatterStep

LEMMA EvaluateStep ==
  ASSUME IInv, NEW q \in Callers, NEW point \in Args(plan[q]), Evaluate(q, point)
  PROVE  IInv'
<1> DEFINE c == [Idle EXCEPT !.arg = point]
<1>1. /\ call[q].pc = "idle" /\ plan[q] = "oprf" /\ Scatter(q, c, call)
      /\ UNCHANGED <<view, store, plan, life>>
  BY DEF Evaluate
<1>2. TypeOK /\ store \in [Nodes -> SUBSET Names] /\ call = [r \in Callers |-> call[r]]
  BY DEF IInv, TypeOK
<1>3. Class(plan[q]) = "oprf" /\ point \in ArgOf("oprf")
  BY <1>1 DEF Class, ArgOf, Args
<1>4. /\ c \in CallOf("oprf") /\ c.chan = <<>> /\ ~c.ok /\ c.want = 0 /\ c.arg = point
      /\ \A n \in Nodes : c.kept[n] = {}
  <2>1. /\ Idle \in CallOf("oprf") /\ Idle.chan = <<>> /\ ~Idle.ok /\ Idle.want = 0
        /\ \A n \in Nodes : Idle.kept[n] = {}
    BY IdleCall, ZenonT(60)
  <2> QED BY <1>3, <2>1, ZenonT(60) DEF CallOf
<1> HIDE DEF c
<1>5. ASSUME NEW r \in Callers, r # q
      PROVE  /\ call'[r] \in CallOf(Class(plan[r])) /\ Drifts(r)
             /\ Waiting(r) =>
                   /\ \A n \in Nodes : call'[r].kept[n] \subseteq store'[n]
                   /\ plan[r] = "list" => \A n \in Nodes : store'[n] \subseteq call'[r].held
  <2>1. call'[r] = call[r]
    BY <1>1, <1>2, <1>5 DEF Scatter
  <2> QED BY <1>1, <1>2, <2>1 DEF IInv, TypeOK, Drifts, Histories
<1> QED BY <1>1, <1>2, <1>3, <1>4, <1>5, ScatterStep

LEMMA FanOutStep ==
  ASSUME IInv, NEW q \in Callers, NEW p \in Peers, FanOut(q, p)
  PROVE  IInv'
<1> DEFINE todo == IF call[q].pc = "idle" THEN Peers ELSE call[q].todo
           id == next["version"] + 1
           sent == p \in Connected
           pc == IF sent THEN "wait" ELSE IF todo = {p} THEN "done" ELSE "next"
           d == [Idle EXCEPT !.id = id, !.todo = todo \ {p}, !.want = 1, !.pc = pc]
           ask == IF sent THEN {Question(p, "version", id, "")} ELSE {}
<1>1. /\ plan[q] = "version" /\ call[q].pc # "wait" /\ call' = [call EXCEPT ![q] = d]
      /\ next' = [next EXCEPT !["version"] = id] /\ wire' = wire \cup ask
      /\ UNCHANGED <<view, store, plan, life>>
  BY Zenon DEF FanOut
<1>2. /\ TypeOK /\ call[q] \in CallOf("version") /\ next \in [Classes -> Nat]
      /\ call = [r \in Callers |-> call[r]]
  <2>1. Class("version") = "version"
    BY DEF Class
  <2> QED BY <1>1, <2>1, Zenon DEF IInv, TypeOK
<1>3. id \in Nat /\ next' \in [Classes -> Nat] /\ next'["version"] = id /\ next["version"] < id
      /\ \A k \in Classes : next[k] <= next'[k]
  <2>1. "version" \in Classes
    BY DEF Classes
  <2>2. next' = [next EXCEPT !["version"] = id] /\ next \in [Classes -> Nat]
    BY <1>1, <1>2, Zenon
  <2>3. id \in Nat /\ next["version"] < id
    BY <2>1, <2>2
  <2> HIDE DEF id, d, ask
  <2> QED BY <2>1, <2>2, <2>3
<1>4. todo \ {p} \in SUBSET Peers /\ pc \in {"wait", "done", "next"} /\ (pc = "wait" => sent)
  BY <1>2, Zenon DEF CallOf
<1>5. \A m \in ask : m \in {Question(x, "version", id, "") : x \in Connected}
  BY Zenon
<1>6. /\ call' = [r \in Callers |-> call'[r]] /\ call'[q] = d
      /\ \A r \in Callers : r # q => call'[r] = call[r]
  BY <1>1, <1>2, ZenonT(60)
<1>7. \A m1, m2 \in ask : m1.peer = m2.peer => m1 = m2
  BY Zenon
<1> HIDE DEF id, todo, pc, ask, sent
<1>8. /\ d \in CallOf("version") /\ d.chan = <<>> /\ ~d.ok /\ d.pc = pc /\ d.id = id /\ d.arg = ""
  <2>1. /\ Idle \in CallOf("version") /\ Idle.chan = <<>> /\ ~Idle.ok /\ Idle.arg = ""
    BY IdleCall, ZenonT(60) DEF Idle
  <2> QED BY <1>3, <1>4, <2>1, ZenonT(60) DEF CallOf
<1> HIDE DEF d
<1>9. \A m \in ask : /\ m.type = "question" /\ m.peer \in Connected /\ m.life = life
                     /\ m.kind = "version" /\ m.id = id /\ m.arg = "" /\ m \in QuestionOf("version")
  <2>1. "version" \in Kinds /\ "" \in ArgOf(Class("version")) /\ Class("version") = "version"
    BY DEF Kinds, ArgOf, Class
  <2>2. ASSUME NEW kind, kind = "version", NEW m \in {Question(x, kind, id, "") : x \in Connected}
        PROVE  /\ m.type = "question" /\ m.peer \in Connected /\ m.life = life
               /\ m.kind = kind /\ m.id = id /\ m.arg = "" /\ m \in QuestionOf(Class(kind))
    <3>1. PICK x \in Connected : m = Question(x, kind, id, "")
      BY <2>2, ZenonT(60)
    <3>2. /\ m.type = "question" /\ m.peer = x /\ m.life = life
          /\ m.kind = kind /\ m.id = id /\ m.arg = ""
      BY <3>1, ZenonT(60) DEF Question
    <3>3. kind \in KindOf(Class(kind)) /\ x \in Peers /\ life \in Nat
      BY <1>2, <2>1, <2>2, ZenonT(60) DEF KindOf, Connected, TypeOK
    <3>4. m \in QuestionOf(Class(kind))
      BY <1>3, <2>1, <2>2, <3>1, <3>3, ZenonT(60) DEF Question, QuestionOf
    <3> QED BY <3>2, <3>4, Zenon
  <2> QED BY <1>5, <2>1, <2>2, ZenonT(60)
<1>10. Class("version") = "version" /\ "version" \in Kinds
  BY Zenon DEF Class, Kinds
<1>11. TypeOK'
  <2>1. \A m \in wire' : /\ m.kind \in Kinds
                         /\ m \in QuestionOf(Class(m.kind)) \cup AnswerOf(Class(m.kind))
    BY <1>1, <1>2, <1>9, <1>10, ZenonT(60) DEF TypeOK
  <2> QED BY <1>1, <1>2, <1>3, <1>6, <1>8, <1>10, <2>1, ZenonT(60) DEF TypeOK
<1>12. Histories'
  <2>1. Alive' = Alive /\ ~Waiting(q)'
    BY <1>1 DEF Alive, Waiting
  <2>2. \A r \in Callers : r # q => (Waiting(r)' <=> Waiting(r))
    BY <1>1, <1>6, Zenon DEF Waiting
  <2> QED BY <1>1, <1>6, <2>1, <2>2 DEF IInv, Histories
<1>13. Results'
  BY <1>1, <1>6, <1>8, Zenon DEF IInv, Results
<1>14. OprfQuorum'
  BY <1>1, <1>6, ZenonT(60) DEF IInv, OprfQuorum
<1>15. \A r \in Callers : r # q => Drifts(r)
  BY <1>6 DEF Drifts
<1>16. /\ plan[q] # "none" /\ next[Class(plan[q])] < id /\ next'[Class(plan[q])] = id
       /\ call'[q].id = id /\ plan[q] # "oprf" /\ call'[q].chan = <<>> /\ call'[q].arg = ""
  BY <1>1, <1>3, <1>6, <1>8, <1>10, ZenonT(60)
<1>17. /\ id \in Nat /\ call[q].pc # "wait" /\ wire' = wire \cup ask
       /\ \A k \in Classes : next[k] <= next'[k]
       /\ UNCHANGED <<view, plan, life>>
  BY <1>1, <1>3, Zenon
<1>18. \A m \in ask : /\ m.type = "question" /\ m.peer \in Connected /\ m.life = life
                      /\ m.kind = plan[q] /\ m.id = id /\ m.arg = call'[q].arg
  BY <1>1, <1>9, <1>16, ZenonT(60)
<1>19. Begins(q, id, ask)
  <2>1. call'[q].chan = <<>>
    BY <1>16, ZenonT(60)
  <2>2. DOMAIN call'[q].chan = {}
    BY <2>1
  <2>3. /\ call'[q].pc = "wait" \/ ask # {} =>
              plan[q] # "none" /\ next[Class(plan[q])] < id /\ next'[Class(plan[q])] = id
        /\ call'[q].pc = "wait" => call'[q].id = id /\ (plan[q] = "oprf" => call'[q].arg \in Points)
    BY <1>16, Zenon
  <2> QED BY <1>7, <1>15, <1>17, <1>18, <2>2, <2>3, ZenonT(60) DEF Begins
<1> QED BY <1>11, <1>12, <1>13, <1>14, <1>17, <1>19, BeginStep

(* A state with every caller idle, and nothing of this life under way.     *)
Quiet ==
    /\ TypeOK
    /\ call = [q \in Callers |-> Idle]
    /\ \A m \in wire : m.life < life /\ m.peer \in Connected /\ m.type = "question"

LEMMA QuietState == Quiet => IInv
<1> SUFFICES ASSUME Quiet PROVE IInv
  OBVIOUS
<1>1. \A q \in Callers : call[q] = Idle
  BY DEF Quiet
<1>2. \A q \in Callers : /\ call[q].pc = "idle" /\ ~call[q].ok /\ call[q].local = {}
                         /\ DOMAIN call[q].chan = {}
  BY <1>1, IdleCall
<1>3. TypeOK /\ life \in Nat /\ \A m \in wire : m.life \in Nat /\ m.life < life
  BY Zenon DEF Quiet, TypeOK, QuestionOf, AnswerOf
<1>4. \A m \in wire : /\ m.life <= life /\ ~Current(m) /\ m.peer \in Connected
                      /\ m.type = "question"
  BY <1>3 DEF Current, Quiet
<1>5. IdsIssued
  BY <1>2, <1>4, Zenon DEF IdsIssued
<1>6. SameQuestion /\ AnswersMatch
  BY <1>2, <1>4, Zenon DEF SameQuestion, AnswersMatch
<1>7. OneMessage
  BY <1>2, <1>4, Zenon DEF OneMessage
<1>8. TrueAnswers /\ OwnShares
  BY <1>2, <1>4, ZenonT(60) DEF TrueAnswers, OwnShares
<1>9. Histories /\ OprfQuorum
  BY <1>2, ZenonT(60) DEF Histories, OprfQuorum, Waiting
<1>10. Results
  BY <1>1, <1>2, IdleCall DEF Results
<1> QED BY <1>3, <1>5, <1>6, <1>7, <1>8, <1>9, <1>10 DEF IInv

LEMMA RestartStep ==
  ASSUME IInv, Restart
  PROVE  IInv'
<1>1. /\ life' = life + 1 /\ call' = [q \in Callers |-> Idle] /\ next' = [c \in DOMAIN next |-> 0]
      /\ wire' = {m \in wire : m.type = "question"} /\ UNCHANGED <<view, store, plan>>
  BY ZenonT(60) DEF Restart
<1>2. TypeOK /\ life \in Nat /\ \A m \in wire : m.life \in Nat /\ m.life <= life /\ m.peer \in Connected
  BY DEF IInv, TypeOK, IdsIssued, QuestionOf, AnswerOf
<1>3. \A m \in wire' : m.life < life' /\ m.peer \in Connected' /\ m.type = "question"
  BY <1>1, <1>2 DEF Connected
<1>4. TypeOK'
  <2>1. call' = [q \in Callers |-> call'[q]] /\ \A q \in Callers : call'[q] \in CallOf(Class(plan[q]))
    BY <1>1, IdleCall
  <2>2. next' \in [Classes -> Nat] /\ life' \in Nat
    BY <1>1, <1>2 DEF TypeOK
  <2> QED BY <1>1, <1>2, <2>1, <2>2, ZenonT(60) DEF TypeOK
<1>5. Quiet'
  BY <1>1, <1>3, <1>4 DEF Quiet
<1> QED BY <1>5, QuietState, PTL

----------------------------------------------------------------------------
LEMMA InitInvariant == Init => IInv
<1> SUFFICES ASSUME Init PROVE IInv
  OBVIOUS
<1>1. PICK s \in Starts : view = s.view /\ store = s.store /\ plan = s.plan
  BY DEF Init
<1>2. s \in Situation
  BY StartsAssumption
<1>3. /\ call = [q \in Callers |-> Idle] /\ next = [c \in Classes |-> 0] /\ wire = {} /\ life = 0
  BY DEF Init, Classes
<1>4. call = [q \in Callers |-> call[q]] /\ \A q \in Callers : call[q] \in CallOf(Class(plan[q]))
  BY <1>3, IdleCall
<1>5. TypeOK
  BY <1>1, <1>2, <1>3, <1>4 DEF TypeOK, Situation
<1> QED BY <1>3, <1>5, QuietState DEF Quiet

LEMMA StutterStep ==
  ASSUME IInv, UNCHANGED vars
  PROVE  IInv'
<1>1. UNCHANGED <<view, store, plan, call, next, wire, life>>
  BY DEF vars
<1>2. \A q \in Callers : Drifts(q)
  BY <1>1 DEF Drifts
<1>3. TypeOK' /\ Histories'
  BY <1>1, ZenonT(60) DEF IInv, TypeOK, Histories, Waiting, Alive
<1> QED BY <1>1, <1>2, <1>3, DriftStep

LEMMA NextInvariant == IInv /\ [Next]_vars => IInv'
<1> SUFFICES ASSUME IInv, [Next]_vars PROVE IInv'
  OBVIOUS
<1>1. ASSUME NEW q \in Callers, NEW arg \in Args(plan[q]), Query(q, arg) PROVE IInv'
  BY <1>1, QueryStep
<1>2. ASSUME NEW q \in Callers, NEW arg \in Args(plan[q]), Evaluate(q, arg) PROVE IInv'
  BY <1>2, EvaluateStep
<1>3. ASSUME NEW q \in Callers, Collected(q) \/ TimedOut(q) PROVE IInv'
  BY <1>3, ReturnSteps
<1>4. ASSUME NEW q \in Callers, FanOutNext(q) PROVE IInv'
  BY <1>4, FanOutNextStep
<1>5. ASSUME NEW q \in Callers, NEW p \in Peers, FanOut(q, p) PROVE IInv'
  BY <1>5, FanOutStep
<1>6. ASSUME NEW m \in wire, HandleAnswer(m) PROVE IInv'
  BY <1>6, HandleAnswerStep
<1>7. ASSUME NEW m \in wire, HandleQuery(m) PROVE IInv'
  BY <1>7, HandleQueryStep
<1>8. ASSUME NEW m \in wire, HandleEvalRequest(m) PROVE IInv'
  BY <1>8, HandleEvalStep
<1>9. ASSUME NEW m \in wire, Unrouted(m) \/ Lose(m) PROVE IInv'
  BY <1>9, DropSteps
<1>10. ASSUME NEW n \in Nodes, NEW name \in Names, Put(n, name) PROVE IInv'
  BY <1>10, PutStep
<1>11. CASE Restart
  BY <1>11, RestartStep
<1>12. CASE UNCHANGED vars
  BY <1>12, StutterStep
<1> QED BY <1>1, <1>2, <1>3, <1>4, <1>5, <1>6, <1>7, <1>8, <1>9, <1>10, <1>11, <1>12, ZenonT(60)
  DEF Next

(* The inductive invariant holds of every state the callers, their peers,  *)
(* lost messages and restarts of the asking daemon can reach               *)
(* (scatter_gather.go, oprf_rpc.go, query_handler.go).                     *)
THEOREM ScatterGatherInvariant == Spec => []IInv
<1>1. Init => IInv
  BY InitInvariant
<1>2. IInv /\ [Next]_vars => IInv'
  BY NextInvariant
<1> QED BY <1>1, <1>2, PTL DEF Spec

(* Whatever IDs other calls and earlier lives of the daemon used, a caller *)
(* never counts an answer to another question of this life                 *)
(* (scatter_gather.go handleQueryResponse, oprf_rpc.go handleEvalResponse).*)
THEOREM AnswersToTheQuestion == Spec => []AnswersMatch
<1>1. IInv => AnswersMatch
  BY DEF IInv
<1> QED BY <1>1, ScatterGatherInvariant, PTL

(* An OPRF result is never reported ok with evaluations of fewer than      *)
(* Threshold different daemons (oprf_service.go EvaluateOPRF).             *)
THEOREM ThresholdOfDaemons == Spec => []OprfQuorum
<1>1. IInv => OprfQuorum
  BY DEF IInv
<1> QED BY <1>1, ScatterGatherInvariant, PTL

(* want answers of different peers, none of them suspect, are the answers  *)
(* of all the live ones.                                                   *)
LEMMA EveryoneAnswered ==
  ASSUME IInv, NEW q \in Callers, plan[q] \in {"list", "delete"}, Full(q), NEW p \in Alive
  PROVE  \E i \in DOMAIN call[q].chan : call[q].chan[i].peer = p
<1> DEFINE chan == call[q].chan
           f == [i \in 1 .. Len(chan) |-> chan[i].peer]
<1>1. chan \in Seq(AnswerOf(Class(plan[q]))) /\ DOMAIN chan = 1 .. Len(chan) /\ Len(chan) \in Nat
  <2>1. chan \in Seq(AnswerOf(Class(plan[q])))
    BY ZenonT(60) DEF IInv, TypeOK, CallOf
  <2> QED BY <2>1
<1>2. Len(chan) = Cardinality(Alive)
  BY Zenon DEF IInv, Histories, Full
<1>3. \A i \in DOMAIN chan : chan[i].peer \in Alive
  BY ZenonT(60) DEF IInv, TrueAnswers, Full
<1>4. \A i, j \in DOMAIN chan : chan[i].peer = chan[j].peer => i = j
  BY Zenon DEF IInv, OneMessage, Full, Current
<1> HIDE DEF chan
<1>5. f \in Injection(1 .. Len(chan), Alive)
  <2>1. f \in [1 .. Len(chan) -> Alive]
    BY <1>1, <1>3
  <2>2. \A i, j \in 1 .. Len(chan) : f[i] = f[j] => i = j
    BY <1>1, <1>4
  <2> QED BY <2>1, <2>2 DEF Injection, IsInjective
<1>6. Cardinality(1 .. Len(chan)) = Len(chan)
  <2> DEFINE k == Len(chan)
  <2>1. k \in Nat /\ 1 \in Int /\ k \in Int
    BY <1>1
  <2> HIDE DEF k
  <2>2. Cardinality(1 .. k) = IF 1 > k THEN 0 ELSE k - 1 + 1
    BY <2>1, FS_Interval
  <2>3. Cardinality(1 .. k) = k
    BY <2>1, <2>2
  <2> QED BY <2>3 DEF k
<1>7. f \in Surjection(1 .. Len(chan), Alive)
  <2> HIDE DEF f
  <2> QED BY <1>2, <1>5, <1>6, AliveCounted, FS_Injection
<1>8. PICK i \in 1 .. Len(chan) : f[i] = p
  BY <1>7, Zenon DEF Surjection
<1> QED BY <1>1, <1>8 DEF chan

(* A global list shows only what some node held meanwhile, and a complete  *)
(* one shows every transferable name a live node kept                      *)
(* (p2p_adapters.go GlobalList over query_handler.go handleList).          *)
THEOREM ListsAreFaithful == Spec => []ListFaithful
<1>1. IInv => ListFaithful
  <2> SUFFICES ASSUME IInv, NEW q \in Callers, plan[q] = "list", call[q].pc = "done",
                      \A i \in DOMAIN call[q].chan : call[q].chan[i].life = life
               PROVE  /\ call[q].data \subseteq call[q].held
                      /\ Full(q) /\ (\A i \in DOMAIN call[q].chan : call[q].chan[i].ok) =>
                            \A p \in Alive : call[q].kept[p] \ LongNames \subseteq call[q].data
    BY Zenon DEF ListFaithful, Full
  <2>1. /\ call[q].data = ListData(call[q].local, call[q].chan)
        /\ call[q].local \subseteq call[q].held
        /\ \A i \in DOMAIN call[q].chan : Says(q, call[q].chan[i])
    BY ZenonT(60) DEF IInv, Results, Histories, TrueAnswers, Current
  <2>2. /\ \A i \in DOMAIN call[q].chan : call[q].chan[i].data \subseteq call[q].data
        /\ \A x \in call[q].data : \/ x \in call[q].local
                                   \/ \E i \in DOMAIN call[q].chan : x \in call[q].chan[i].data
    BY <2>1, ZenonT(60) DEF ListData, Merged
  <2>3. call[q].data \subseteq call[q].held
    BY <2>1, <2>2, Zenon DEF Says
  <2>4. ASSUME Full(q), \A i \in DOMAIN call[q].chan : call[q].chan[i].ok, NEW p \in Alive
        PROVE  call[q].kept[p] \ LongNames \subseteq call[q].data
    <3>1. PICK i \in DOMAIN call[q].chan : call[q].chan[i].peer = p
      BY <2>4, EveryoneAnswered
    <3> QED BY <2>1, <2>2, <2>4, <3>1, ZenonT(60) DEF Says
  <2> QED BY <2>3, <2>4, Zenon
<1> QED BY <1>1, ScatterGatherInvariant, PTL

(* A delete reported as done, with an answer for every live peer and none  *)
(* of a suspect one, left no live peer an old copy of the name             *)
(* (p2p_adapters.go PropagateDelete over query_handler.go handleDelete).   *)
THEOREM DeletesAreFaithful == Spec => []DeleteFaithful
<1>1. IInv => DeleteFaithful
  <2> SUFFICES ASSUME IInv, NEW q \in Callers, plan[q] = "delete", Full(q), call[q].ok, NEW p \in Alive
               PROVE  call[q].arg \notin call[q].kept[p]
    BY DEF DeleteFaithful
  <2>1. PICK i \in DOMAIN call[q].chan : call[q].chan[i].peer = p
    BY EveryoneAnswered
  <2>2. call[q].chan[i].life = life /\ life \in Nat
    BY Zenon DEF IInv, TypeOK, Full
  <2>3. call[q].chan[i].ok /\ Says(q, call[q].chan[i])
    BY <2>2, ZenonT(60) DEF IInv, Results, TrueAnswers, Current, Full
  <2>4. call[q].chan[i].arg = call[q].arg
    BY <2>2 DEF IInv, AnswersMatch
  <2> QED BY <2>1, <2>3, <2>4 DEF Says
<1> QED BY <1>1, ScatterGatherInvariant, PTL
=============================================================================
