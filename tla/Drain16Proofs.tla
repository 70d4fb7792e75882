---------------------------- MODULE Drain16Proofs ----------------------------
(***************************************************************************)
(* Proofs about Drain16, for any number of connectors, drainers, sessions  *)
(* and crashes: the queue file keeps its records in order and each once,   *)
(* delivery is in order, a delivered record leaves the queue, and          *)
(* drainQueue implements Outbox.                                           *)
(***************************************************************************)
EXTENDS Drain16, FiniteSetTheorems, SequenceTheorems, TLAPS

QueuedIds == {queue[i].id : i \in DOMAIN queue}
Gone == GotIds \cup BuriedIds \cup moved

\* Values: sessions and callbacks, and the queue as the sequence of records it is.
Typed ==
    /\ session \in [Conn -> {NoSession} \cup [s : Session, tx : Tx]]
    /\ saved \in [Conn -> {NoSession} \cup [s : Session, tx : Tx]]
    /\ started \in 0..MaxSessions /\ sampled \subseteq Session
    /\ calls \subseteq RecordType
    /\ queue \in Seq(RecordType)
    /\ put \in Seq(Key)
    /\ connected \in BOOLEAN /\ registered \in BOOLEAN
    /\ failedStart \subseteq Conn

\* Everything with an id was accepted under it, and the queue is in that order.
Numbered ==
    /\ \A i \in 1..Len(queue) : queue[i].id \in 1..Len(put) /\ put[queue[i].id] = KeyOf(queue[i])
    /\ \A i, j \in 1..Len(queue) : i < j => queue[i].id < queue[j].id
    /\ \A g \in got \cup buried : g.id \in 1..Len(put) /\ put[g.id] = KeyOf(g)

\* What a drainer is about: the head of the queue, and what became of it so far.
Reply(d) ==
    /\ work[d].outcome \in {"accepted", "refusedTag", "queued", "error", "fatal"}
    /\ work[d].outcome \in {"accepted", "refusedTag"} => work[d].msg.id \in GotIds
    /\ work[d].outcome = "queued" =>
          /\ work[d].msg.id \in moved
          /\ \E i \in 2..Len(queue) : KeyOf(queue[i]) = KeyOf(work[d].msg)
    /\ work[d].outcome \in {"error", "fatal"} /\ work[d].msg.id \in GotIds => work[d].msg.id \in doubt

Busy(d) == work[d].pc # "idle"
Holds(d) == work[d].pc \in {"send", "reply"}

Passes ==
    /\ work \in [Drainers -> [pc : {"idle", "loop", "send", "reply"}, msg : RecordType \cup {NoRecord},
                              outcome : {"none", "accepted", "refusedTag", "queued", "error", "fatal"}]]
    /\ draining \in BOOLEAN
    /\ draining <=> \E d \in Drainers : Busy(d)
    /\ \A d, e \in Drainers : Busy(d) /\ Busy(e) => d = e
    /\ \A d \in Drainers : Holds(d) => queue # <<>> /\ queue[1] = work[d].msg
    /\ \A d \in Drainers : work[d].pc = "reply" => Reply(d)

\* Nothing gets lost: what the queue accepted is queued or gone.
Accounted == 1..Len(put) \subseteq QueuedIds \cup Gone

\* DeliveredLeaves, of ids.
Answered(q) == \E d \in Drainers : work[d].pc = "reply" /\ work[d].msg.id = q
Leaves == \A q \in QueuedIds \cap GotIds : q \in doubt \/ Answered(q)

DrainInv ==
    /\ Typed
    /\ Numbered
    /\ Passes
    /\ Accounted
    /\ InOrder
    /\ Leaves

-----------------------------------------------------------------------------
(* The queue.                                                              *)

\* The properties read the queue as a set.
LEMMA QueuedFacts ==
    ASSUME Typed
    PROVE  /\ DOMAIN queue = 1..Len(queue) /\ Len(queue) \in Nat
           /\ queue # <<>> <=> Len(queue) > 0
           /\ \A i \in 1..Len(queue) : queue[i] \in RecordType /\ queue[i] \in Queued
           /\ \A r \in Queued : \E i \in 1..Len(queue) : r = queue[i]
           /\ QueuedIds = {queue[i].id : i \in 1..Len(queue)}
           /\ Len(put) \in Nat /\ DOMAIN put = 1..Len(put)
           /\ \A i \in 1..Len(put) : put[i] \in Key
           /\ queue # <<>> => Head(queue) = queue[1]
<1>1. queue \in Seq(RecordType) /\ put \in Seq(Key)
  BY DEF Typed
<1>2. /\ DOMAIN queue = 1..Len(queue) /\ Len(queue) \in Nat
      /\ Len(put) \in Nat /\ DOMAIN put = 1..Len(put)
  BY <1>1, LenProperties
<1>3. queue # <<>> <=> Len(queue) > 0
  BY <1>1, EmptySeq
<1>4. /\ \A i \in 1..Len(queue) : queue[i] \in RecordType
      /\ \A i \in 1..Len(put) : put[i] \in Key
  BY <1>1, ElementOfSeq
<1>5. queue # <<>> => Head(queue) = queue[1]
  BY <1>1
<1>6. QED
  BY <1>2, <1>3, <1>4, <1>5 DEF Queued, QueuedIds

\* Enqueue: the record comes last, under a new id.
LEMMA EnqueueOps ==
    ASSUME Typed, NEW r \in RecordType
    PROVE  LET q == Enqueued(queue, r)
               p == Logged(r)
               n == Len(queue)
           IN  /\ q \in Seq(RecordType) /\ Len(q) = n + 1
               /\ \A i \in 1..n : q[i] = queue[i]
               /\ KeyOf(q[n + 1]) = KeyOf(r) /\ q[n + 1].id = Len(put) + 1
               /\ p \in Seq(Key) /\ Len(p) = Len(put) + 1
               /\ \A i \in 1..Len(put) : p[i] = put[i]
               /\ p[Len(put) + 1] = KeyOf(r)
<1> DEFINE new == [r EXCEPT !.id = Len(put) + 1, !.retries = 0, !.raw = FALSE]
<1>1. Len(put) \in Nat
  BY QueuedFacts
<1>2. new \in RecordType /\ KeyOf(new) = KeyOf(r) /\ new.id = Len(put) + 1
  <2>1. new \in RecordType
    <3>1. \A n \in Nat : [r EXCEPT !.id = n] \in RecordType
      BY DEF RecordType
    <3>2. \A m \in RecordType : [m EXCEPT !.retries = 0] \in RecordType
      BY DEF RecordType
    <3>3. \A m \in RecordType : [m EXCEPT !.raw = FALSE] \in RecordType
      BY DEF RecordType
    <3>4. Len(put) + 1 \in Nat
      BY <1>1
    <3>5. new = [[[r EXCEPT !.id = Len(put) + 1] EXCEPT !.retries = 0] EXCEPT !.raw = FALSE]
      OBVIOUS
    <3>6. QED
      BY <3>1, <3>2, <3>3, <3>4, <3>5
  <2>2. new.kind = r.kind /\ new.s = r.s /\ new.id = Len(put) + 1
    BY DEF RecordType
  <2>3. QED
    BY <2>1, <2>2 DEF KeyOf
<1>3. KeyOf(r) \in Key
  BY DEF RecordType, KeyOf, Key
<1>4. queue \in Seq(RecordType) /\ put \in Seq(Key)
  BY DEF Typed
<1>5. Enqueued(queue, r) = Append(queue, new) /\ Logged(r) = Append(put, KeyOf(r))
  BY DEF Enqueued, Logged
<1> HIDE DEF new
<1>6. QED
  BY <1>2, <1>3, <1>4, <1>5, AppendProperties

\* Dequeue of the head.
LEMMA DequeueOps ==
    ASSUME Typed, Numbered, queue # <<>>, NEW r, r.id = queue[1].id
    PROVE  /\ Dequeued(r) \in Seq(RecordType) /\ Len(Dequeued(r)) = Len(queue) - 1
           /\ \A i \in 1..(Len(queue) - 1) : Dequeued(r)[i] = queue[i + 1]
<1> DEFINE place == {i \in DOMAIN queue : queue[i].id = r.id}
           n == Len(queue)
<1>1. n \in Nat /\ n > 0 /\ DOMAIN queue = 1..n /\ queue \in Seq(RecordType)
  BY QueuedFacts DEF Typed
<1>2. 1 \in place
  BY <1>1
<1>3. (CHOOSE i \in place : \A j \in place : i <= j) = 1
  <2>1. \A i \in place : i \in 1..n /\ 1 <= i
    BY <1>1
  <2>2. \A i \in place : (\A j \in place : i <= j) => i = 1
    BY <1>2, <2>1
  <2>3. QED
    BY <1>2, <2>1, <2>2
<1>4. Dequeued(r) = SubSeq(queue, 1, 0) \o SubSeq(queue, 2, n)
  <2>1. Dequeued(r) = RemoveAt(queue, CHOOSE i \in place : \A j \in place : i <= j)
    BY <1>2 DEF Dequeued
  <2>2. Dequeued(r) = RemoveAt(queue, 1)
    BY <1>3, <2>1
  <2>3. 1 - 1 = 0 /\ 1 + 1 = 2
    OBVIOUS
  <2>4. QED
    BY <2>2, <2>3 DEF RemoveAt
<1>5. SubSeq(queue, 1, 0) = <<>>
  BY SubSeqEmpty
<1>6. /\ SubSeq(queue, 2, n) \in Seq(RecordType) /\ Len(SubSeq(queue, 2, n)) = n - 1
      /\ \A i \in 1..(n - 1) : SubSeq(queue, 2, n)[i] = queue[i + 1]
  <2>1. \A i \in 2..n : queue[i] \in RecordType
    BY <1>1, ElementOfSeq
  <2>2. /\ SubSeq(queue, 2, n) \in Seq(RecordType)
        /\ Len(SubSeq(queue, 2, n)) = IF 2 <= n THEN n - 2 + 1 ELSE 0
        /\ \A i \in 1..(n - 2 + 1) : SubSeq(queue, 2, n)[i] = queue[2 + i - 1]
    BY <1>1, <2>1, SubSeqProperties
  <2>3. n - 2 + 1 = n - 1 /\ \A i \in 1..(n - 1) : 2 + i - 1 = i + 1
    BY <1>1
  <2>4. QED
    BY <1>1, <2>2, <2>3
<1>7. Dequeued(r) = SubSeq(queue, 2, n)
  BY <1>4, <1>5, <1>6, ConcatEmptySeq
<1>8. QED
  BY <1>6, <1>7

\* Update of the head.
LEMMA UpdateOps ==
    ASSUME Typed, Numbered, queue # <<>>, NEW r \in RecordType, r.id = queue[1].id
    PROVE  /\ Updated(r) \in Seq(RecordType) /\ Len(Updated(r)) = Len(queue)
           /\ Updated(r)[1] = r
           /\ \A i \in 2..Len(queue) : Updated(r)[i] = queue[i]
<1>1. Len(queue) \in Nat /\ Len(queue) > 0 /\ DOMAIN queue = 1..Len(queue)
      /\ \A i \in 1..Len(queue) : queue[i] \in RecordType
  BY QueuedFacts
<1>2. Updated(r) \in [1..Len(queue) -> RecordType]
  BY <1>1 DEF Updated
<1>3. Updated(r) \in Seq(RecordType) /\ Len(Updated(r)) = Len(queue)
  BY <1>1, <1>2
<1>4. \A i \in 2..Len(queue) : queue[i].id # r.id
  BY <1>1 DEF Numbered, RecordType
<1>5. QED
  BY <1>1, <1>3, <1>4 DEF Updated

-----------------------------------------------------------------------------
(* What each change of the queue does to the invariant.                    *)

\* DeliveredLeaves speaks of ids only.
LEMMA LeavesById == ASSUME Typed, Leaves PROVE DeliveredLeaves
BY QueuedFacts DEF DeliveredLeaves, Leaves, Answered

\* Only the head of the queue is sent or dead-lettered: everything before it in
\* put is gone, because the queue is in the order of put.
LEMMA InOrderStep ==
    ASSUME Typed, Numbered, Accounted, InOrder,
           GotIds \subseteq GotIds', BuriedIds \subseteq BuriedIds', moved \subseteq moved',
           \A x \in GotIds' \cup BuriedIds' :
               x \in GotIds \cup BuriedIds \/ (queue # <<>> /\ x = queue[1].id)
    PROVE  InOrder'
<1> SUFFICES ASSUME NEW later \in GotIds' \cup BuriedIds', NEW earlier \in 1..later
             PROVE  earlier \in GotIds' \cup BuriedIds' \cup moved'
  BY DEF InOrder
<1>1. CASE later \in GotIds \cup BuriedIds
  BY <1>1 DEF InOrder
<1>2. CASE queue # <<>> /\ later = queue[1].id
  <2>1. Len(queue) \in Nat /\ Len(queue) > 0 /\ Len(put) \in Nat
        /\ QueuedIds = {queue[i].id : i \in 1..Len(queue)}
    BY <1>2, QueuedFacts
  <2>2. later \in 1..Len(put)
    BY <1>2, <2>1 DEF Numbered
  <2>3. earlier \in 1..Len(put) /\ earlier <= later
    BY <2>1, <2>2
  <2>4. CASE earlier \in QueuedIds
    <3>1. PICK i \in 1..Len(queue) : earlier = queue[i].id
      BY <2>1, <2>4
    <3>2. i = 1
      <4>1. i > 1 => queue[1].id < queue[i].id
        BY <2>1 DEF Numbered
      <4>2. QED
        BY <1>2, <2>1, <2>2, <2>3, <3>1, <4>1
    <3>3. QED
      BY <1>2, <3>1, <3>2
  <2>5. CASE earlier \in Gone
    BY <2>5 DEF Gone
  <2>6. QED
    BY <2>3, <2>4, <2>5 DEF Accounted
<1>3. QED
  BY <1>1, <1>2

\* A record joins the queue.
LEMMA GrowStep ==
    ASSUME Typed, Numbered, Accounted, InOrder, NEW r \in RecordType,
           queue' = Enqueued(queue, r), put' = Logged(r),
           UNCHANGED <<got, buried>>, moved \subseteq moved'
    PROVE  /\ queue' \in Seq(RecordType) /\ put' \in Seq(Key)
           /\ Numbered' /\ Accounted' /\ InOrder'
           /\ QueuedIds' = QueuedIds \cup {Len(put) + 1}
           /\ QueuedIds' \cap GotIds' \subseteq QueuedIds \cap GotIds
           /\ Len(queue') = Len(queue) + 1
           /\ \A i \in 1..Len(queue) : queue'[i] = queue[i]
           /\ KeyOf(queue'[Len(queue) + 1]) = KeyOf(r)
<1>1. /\ queue' \in Seq(RecordType) /\ Len(queue') = Len(queue) + 1
      /\ \A i \in 1..Len(queue) : queue'[i] = queue[i]
      /\ KeyOf(queue'[Len(queue) + 1]) = KeyOf(r)
      /\ queue'[Len(queue) + 1].id = Len(put) + 1
      /\ put' \in Seq(Key) /\ Len(put') = Len(put) + 1
      /\ \A i \in 1..Len(put) : put'[i] = put[i]
      /\ put'[Len(put) + 1] = KeyOf(r)
  BY EnqueueOps
<1>2. Len(queue) \in Nat /\ Len(put) \in Nat
  BY QueuedFacts
<1>3. DOMAIN queue = 1..Len(queue) /\ DOMAIN queue' = 1..Len(queue')
  BY <1>1, LenProperties DEF Typed
<1>4. \A i \in 1..Len(queue') : i \in 1..Len(queue) \/ i = Len(queue) + 1
  BY <1>1, <1>2
<1>5. Numbered'
  <2>1. ASSUME NEW i \in 1..Len(queue')
        PROVE  queue'[i].id \in 1..Len(put') /\ put'[queue'[i].id] = KeyOf(queue'[i])
    <3>1. CASE i \in 1..Len(queue)
      <4>1. queue'[i] = queue[i] /\ queue[i].id \in 1..Len(put) /\ put[queue[i].id] = KeyOf(queue[i])
        BY <1>1, <3>1 DEF Numbered
      <4>2. \A n \in 1..Len(put) : n \in 1..Len(put') /\ put'[n] = put[n]
        BY <1>1, <1>2
      <4>3. QED
        BY <4>1, <4>2
    <3>2. CASE i = Len(queue) + 1
      BY <1>1, <1>2, <3>2
    <3>3. QED
      BY <1>4, <3>1, <3>2
  <2>2. ASSUME NEW i \in 1..Len(queue'), NEW j \in 1..Len(queue'), i < j
        PROVE  queue'[i].id < queue'[j].id
    <3>1. i \in 1..Len(queue) /\ queue'[i] = queue[i] /\ queue[i].id \in 1..Len(put)
      BY <1>1, <1>2, <2>2 DEF Numbered
    <3>2. CASE j \in 1..Len(queue)
      BY <1>1, <2>2, <3>1, <3>2 DEF Numbered
    <3>3. CASE j = Len(queue) + 1
      BY <1>1, <1>2, <3>1, <3>3
    <3>4. QED
      BY <1>4, <3>2, <3>3
  <2>3. ASSUME NEW g \in got' \cup buried' PROVE g.id \in 1..Len(put') /\ put'[g.id] = KeyOf(g)
    BY <1>1, <1>2 DEF Numbered
  <2>4. QED
    BY <2>1, <2>2, <2>3 DEF Numbered
<1>6. QueuedIds' = QueuedIds \cup {Len(put) + 1}
  <2>1. QueuedIds' = {queue'[i].id : i \in 1..Len(queue')}
    BY <1>3 DEF QueuedIds
  <2>2. QueuedIds = {queue[i].id : i \in 1..Len(queue)}
    BY <1>3 DEF QueuedIds
  <2>3. \A i \in 1..Len(queue) : i \in 1..Len(queue')
    BY <1>1, <1>2
  <2>4. Len(queue) + 1 \in 1..Len(queue')
    BY <1>1, <1>2
  <2>5. QED
    BY <1>1, <1>4, <2>1, <2>2, <2>3, <2>4
<1>7. GotIds' = GotIds /\ BuriedIds' = BuriedIds /\ Gone \subseteq Gone'
  BY DEF GotIds, BuriedIds, Gone
<1>8. Accounted'
  <2>1. 1..Len(put') = (1..Len(put)) \cup {Len(put) + 1}
    BY <1>1, <1>2
  <2>2. QED
    BY <1>6, <1>7, <2>1 DEF Accounted
<1>9. InOrder'
  BY <1>7, InOrderStep
<1>10. Len(put) + 1 \notin GotIds
  BY <1>2 DEF GotIds, Numbered
<1>11. QED
  BY <1>1, <1>5, <1>6, <1>7, <1>8, <1>9, <1>10

\* The queue keeps its records, as far as ids and keys go; the head may have been
\* received.
LEMMA SameStep ==
    ASSUME Typed, Numbered, Accounted, InOrder,
           queue' \in Seq(RecordType), Len(queue') = Len(queue),
           \A i \in 1..Len(queue) : queue'[i].id = queue[i].id /\ KeyOf(queue'[i]) = KeyOf(queue[i]),
           UNCHANGED <<put, buried>>, moved \subseteq moved', got \subseteq got',
           \A g \in got' : g \in got \/ /\ queue # <<>>
                                        /\ g.id = queue[1].id /\ KeyOf(g) = KeyOf(queue[1])
    PROVE  Numbered' /\ Accounted' /\ InOrder' /\ QueuedIds' = QueuedIds
<1>1. /\ DOMAIN queue = 1..Len(queue) /\ DOMAIN queue' = 1..Len(queue) /\ Len(queue) \in Nat
      /\ queue # <<>> => Len(queue) > 0
  BY QueuedFacts, LenProperties
<1>2. Numbered'
  <2>1. ASSUME NEW i \in 1..Len(queue')
        PROVE  queue'[i].id \in 1..Len(put') /\ put'[queue'[i].id] = KeyOf(queue'[i])
    BY DEF Numbered
  <2>2. ASSUME NEW i \in 1..Len(queue'), NEW j \in 1..Len(queue'), i < j
        PROVE  queue'[i].id < queue'[j].id
    BY <2>2 DEF Numbered
  <2>3. ASSUME NEW g \in got' \cup buried' PROVE g.id \in 1..Len(put') /\ put'[g.id] = KeyOf(g)
    <3>1. CASE g \in got \cup buried
      BY <3>1 DEF Numbered
    <3>2. CASE queue # <<>> /\ g.id = queue[1].id /\ KeyOf(g) = KeyOf(queue[1])
      BY <1>1, <3>2 DEF Numbered
    <3>3. QED
      BY <3>1, <3>2
  <2>4. QED
    BY <2>1, <2>2, <2>3 DEF Numbered
<1>3. QueuedIds' = QueuedIds
  BY <1>1 DEF QueuedIds
<1>4. GotIds \subseteq GotIds' /\ BuriedIds' = BuriedIds /\ Gone \subseteq Gone'
  BY DEF GotIds, BuriedIds, Gone
<1>5. \A x \in GotIds' : x \in GotIds \/ (queue # <<>> /\ x = queue[1].id)
  BY DEF GotIds
<1>6. Accounted'
  BY <1>3, <1>4 DEF Accounted
<1>7. InOrder'
  BY <1>4, <1>5, InOrderStep
<1>8. QED
  BY <1>2, <1>3, <1>6, <1>7

\* The head leaves the queue, for dead-letter storage or because it is gone already.
LEMMA LeaveStep ==
    ASSUME Typed, Numbered, Accounted, InOrder, queue # <<>>, NEW r, r.id = queue[1].id,
           queue' = Dequeued(r), UNCHANGED <<put, got, moved>>, buried \subseteq buried',
           r.id \in Gone',
           \A b \in buried' : b \in buried \/ (b.id = r.id /\ KeyOf(b) = KeyOf(queue[1]))
    PROVE  /\ queue' \in Seq(RecordType) /\ Len(queue') = Len(queue) - 1
           /\ \A i \in 1..(Len(queue) - 1) : queue'[i] = queue[i + 1]
           /\ Numbered' /\ Accounted' /\ InOrder'
           /\ QueuedIds' = QueuedIds \ {r.id}
<1>1. /\ queue' \in Seq(RecordType) /\ Len(queue') = Len(queue) - 1
      /\ \A i \in 1..(Len(queue) - 1) : queue'[i] = queue[i + 1]
  BY DequeueOps
<1>2. /\ Len(queue) \in Nat /\ Len(queue) > 0 /\ Len(put) \in Nat
      /\ QueuedIds = {queue[i].id : i \in 1..Len(queue)}
  BY QueuedFacts
<1>3. \A i \in 1..Len(queue') : i + 1 \in 1..Len(queue) /\ queue'[i] = queue[i + 1]
  BY <1>1, <1>2
<1>4. Numbered'
  <2>1. ASSUME NEW i \in 1..Len(queue')
        PROVE  queue'[i].id \in 1..Len(put') /\ put'[queue'[i].id] = KeyOf(queue'[i])
    BY <1>3 DEF Numbered
  <2>2. ASSUME NEW i \in 1..Len(queue'), NEW j \in 1..Len(queue'), i < j
        PROVE  queue'[i].id < queue'[j].id
    <3>1. i + 1 < j + 1
      BY <1>1, <1>2, <2>2
    <3>2. QED
      BY <1>3, <3>1 DEF Numbered
  <2>3. ASSUME NEW g \in got' \cup buried' PROVE g.id \in 1..Len(put') /\ put'[g.id] = KeyOf(g)
    <3>1. CASE g \in got \cup buried
      BY <3>1 DEF Numbered
    <3>2. CASE g.id = queue[1].id /\ KeyOf(g) = KeyOf(queue[1])
      BY <1>2, <3>2 DEF Numbered
    <3>3. QED
      BY <3>1, <3>2
  <2>4. QED
    BY <2>1, <2>2, <2>3 DEF Numbered
<1>5. QueuedIds' = QueuedIds \ {r.id}
  <2>1. QueuedIds' = {queue'[i].id : i \in 1..Len(queue')}
    BY <1>1, LenProperties DEF QueuedIds
  <2>2. ASSUME NEW q \in QueuedIds' PROVE q \in QueuedIds \ {r.id}
    <3>1. PICK i \in 1..Len(queue') : q = queue'[i].id
      BY <2>1
    <3>2. i + 1 \in 1..Len(queue) /\ q = queue[i + 1].id /\ 1 < i + 1
      BY <1>1, <1>2, <1>3, <3>1
    <3>3. queue[1].id < queue[i + 1].id /\ queue[1].id \in 1..Len(put)
      BY <1>2, <3>2 DEF Numbered
    <3>4. QED
      BY <1>2, <3>2, <3>3
  <2>3. ASSUME NEW q \in QueuedIds \ {r.id} PROVE q \in QueuedIds'
    <3>1. PICK i \in 1..Len(queue) : q = queue[i].id
      BY <1>2
    <3>2. i # 1
      BY <3>1
    <3>3. i - 1 \in 1..Len(queue') /\ queue'[i - 1] = queue[i]
      <4>1. i - 1 \in 1..(Len(queue) - 1) /\ (i - 1) + 1 = i
        BY <1>2, <3>2
      <4>2. QED
        BY <1>1, <4>1
    <3>4. QED
      BY <2>1, <3>1, <3>3
  <2>4. QED
    BY <2>2, <2>3
<1>6. GotIds' = GotIds /\ BuriedIds \subseteq BuriedIds' /\ Gone \subseteq Gone'
  BY DEF GotIds, BuriedIds, Gone
<1>7. \A x \in BuriedIds' : x \in BuriedIds \/ x = queue[1].id
  BY DEF BuriedIds
<1>8. Accounted'
  BY <1>5, <1>6 DEF Accounted
<1>9. InOrder'
  BY <1>6, <1>7, InOrderStep
<1>10. QED
  BY <1>1, <1>4, <1>5, <1>8, <1>9

-----------------------------------------------------------------------------
(* What each step of a drainer does to the invariant.                      *)

\* drainQueue is single-flighted.
LEMMA OnlyPass ==
    ASSUME Passes, NEW d \in Drainers, Busy(d)
    PROVE  draining = TRUE /\ \A e \in Drainers \ {d} : work[e].pc = "idle"
BY DEF Passes, Busy

\* One drainer goes on, under the flag.
LEMMA GotoPasses ==
    ASSUME Passes, NEW d \in Drainers, Busy(d) \/ ~draining,
           NEW pc \in {"idle", "loop", "send", "reply"}, NEW msg \in RecordType \cup {NoRecord},
           NEW outcome \in {"none", "accepted", "refusedTag", "queued", "error", "fatal"},
           Goto(d, pc, msg, outcome), draining' = (pc # "idle"),
           pc \in {"send", "reply"} => queue' # <<>> /\ queue'[1] = msg,
           pc = "reply" => Reply(d)'
    PROVE  Passes'
<1> DEFINE r == [pc |-> pc, msg |-> msg, outcome |-> outcome]
<1>1. work' = [work EXCEPT ![d] = r]
  BY DEF Goto
<1>2. work \in [Drainers -> [pc : {"idle", "loop", "send", "reply"}, msg : RecordType \cup {NoRecord},
                              outcome : {"none", "accepted", "refusedTag", "queued", "error", "fatal"}]]
  BY DEF Passes
<1>3. work' \in [Drainers -> [pc : {"idle", "loop", "send", "reply"}, msg : RecordType \cup {NoRecord},
                               outcome : {"none", "accepted", "refusedTag", "queued", "error", "fatal"}]]
  BY <1>1, <1>2
<1>4. work'[d] = r /\ work'[d].pc = pc /\ work'[d].msg = msg
  BY <1>1, <1>2
<1>5. \A e \in Drainers \ {d} : work'[e].pc = "idle"
  <2>1. \A e \in Drainers \ {d} : work[e].pc = "idle"
    BY OnlyPass DEF Passes, Busy
  <2>2. QED
    BY <1>1, <1>2, <2>1
<1>6. draining' \in BOOLEAN /\ (draining' <=> \E e \in Drainers : Busy(e)')
  BY <1>4, <1>5 DEF Busy
<1>7. \A e, f \in Drainers : Busy(e)' /\ Busy(f)' => e = f
  BY <1>5 DEF Busy
<1>8. \A e \in Drainers : Holds(e)' => queue' # <<>> /\ queue'[1] = work'[e].msg
  BY <1>4, <1>5 DEF Holds
<1>9. \A e \in Drainers : work'[e].pc = "reply" => Reply(e)'
  BY <1>4, <1>5
<1>10. QED
  BY <1>3, <1>6, <1>7, <1>8, <1>9 DEF Passes

\* The drainers pause while others append to the queue.
LEMMA KeepPasses ==
    ASSUME Passes, Typed, UNCHANGED <<work, draining, got, moved>>, doubt \subseteq doubt',
           queue' \in Seq(RecordType), Len(queue) <= Len(queue'),
           \A i \in 1..Len(queue) : queue'[i] = queue[i]
    PROVE  Passes'
<1>1. Len(queue) \in Nat /\ (queue # <<>> => Len(queue) > 0) /\ Len(queue') \in Nat
      /\ (Len(queue') > 0 => queue' # <<>>)
  BY QueuedFacts, EmptySeq, LenProperties
<1>2. \A d \in Drainers : Holds(d)' => queue' # <<>> /\ queue'[1] = work'[d].msg
  BY <1>1 DEF Passes, Holds
<1>3. \A i \in 2..Len(queue) : i \in 2..Len(queue') /\ queue'[i] = queue[i]
  BY <1>1
<1>4. ASSUME NEW d \in Drainers, work'[d].pc = "reply" PROVE Reply(d)'
  <2>1. Reply(d)
    BY <1>4 DEF Passes
  <2>2. GotIds' = GotIds
    BY DEF GotIds
  <2>3. work'[d].outcome = "queued" =>
           \E i \in 2..Len(queue') : KeyOf(queue'[i]) = KeyOf(work'[d].msg)
    BY <1>3, <2>1 DEF Reply
  <2>4. QED
    BY <2>1, <2>2, <2>3 DEF Reply
<1>5. QED
  BY <1>2, <1>4 DEF Passes, Busy

\* Steps that concern neither the queue nor the drainers.
LEMMA StillStep ==
    ASSUME DrainInv, UNCHANGED <<queue, draining, work, history>>, Typed'
    PROVE  DrainInv'
<1>1. UNCHANGED <<put, got, buried, doubt, moved>>
  BY DEF history
<1>2. Len(queue) \in Nat /\ queue \in Seq(RecordType)
  BY QueuedFacts DEF DrainInv, Typed
<1>3. Numbered' /\ Accounted' /\ InOrder' /\ QueuedIds' = QueuedIds
  BY <1>1, <1>2, SameStep DEF DrainInv
<1>4. Passes'
  BY <1>1, <1>2, KeepPasses DEF DrainInv
<1>5. Leaves'
  BY <1>1, <1>3 DEF DrainInv, Leaves, Answered, GotIds
<1>6. QED
  BY <1>3, <1>4, <1>5 DEF DrainInv

-----------------------------------------------------------------------------
(* The steps.                                                              *)

LEMMA RecordTyped ==
    ASSUME NEW kind \in Kind, NEW s \in Session, NEW c \in Conn, NEW tx \in Tx \cup {0}
    PROVE  Record(kind, s, c, tx) \in RecordType
BY DEF Record, RecordType

\* A session on a connector has a number and a transaction id.
LEMMA SessionTyped ==
    ASSUME Typed, NEW c \in Conn
    PROVE  /\ session[c] # NoSession => session[c].s \in Session /\ session[c].tx \in Tx
           /\ session[c] = NoSession => session[c].tx = 0
BY DEF Typed, NoSession

LEMMA InitInv16 == Init => DrainInv
<1> SUFFICES ASSUME Init PROVE DrainInv
  OBVIOUS
<1> USE DEF Init
<1>1. queue = <<>> /\ put = <<>> /\ Len(queue) = 0 /\ Len(put) = 0
  BY EmptySeq
<1>2. Typed
  <2>1. started \in 0..MaxSessions
    BY Drain16Assumption
  <2>2. queue \in Seq(RecordType) /\ put \in Seq(Key)
    BY <1>1, EmptySeq
  <2>3. QED
    BY <2>1, <2>2 DEF Typed
<1>3. Numbered
  BY <1>1 DEF Numbered
<1>4. Passes
  BY DEF Passes, Idle, Busy, Holds
<1>5. Accounted /\ InOrder /\ Leaves
  BY <1>1 DEF Accounted, InOrder, GotIds, BuriedIds, Leaves
<1>6. QED
  BY <1>2, <1>3, <1>4, <1>5 DEF DrainInv

\* Sessions come and go, the link and the registration too.
LEMMA SessionSteps ==
    ASSUME DrainInv, NEW c \in Conn,
           \/ \E tx \in Provisional : StartSession(c, tx)
           \/ StopSession(c) \/ MeterSample(c)
    PROVE  DrainInv'
<1> USE DEF DrainInv
<1>1. UNCHANGED <<saved, queue, draining, work, history, link, failedStart>>
  BY DEF StartSession, StopSession, MeterSample
<1>2. UNCHANGED <<put, connected, registered>>
  BY <1>1 DEF history, link
<1>3. ASSUME NEW tx \in Provisional, StartSession(c, tx) PROVE Typed'
  <2>1. started' = started + 1 /\ started' \in 1..MaxSessions /\ tx \in Tx
    BY <1>3, Drain16Assumption DEF Typed, StartSession, Tx
  <2>2. Record("Start", started', c, 0) \in RecordType
    BY <2>1, RecordTyped DEF Session, Kind
  <2>3. session' \in [Conn -> {NoSession} \cup [s : Session, tx : Tx]]
    BY <1>3, <2>1 DEF StartSession, Typed, Session
  <2>4. QED
    BY <1>1, <1>2, <1>3, <2>1, <2>2, <2>3 DEF Typed, StartSession
<1>4. CASE StopSession(c)
  <2>1. Record("Stop", session[c].s, c, session[c].tx) \in RecordType
    BY <1>4, RecordTyped, SessionTyped DEF StopSession, Kind
  <2>2. session' \in [Conn -> {NoSession} \cup [s : Session, tx : Tx]]
    BY <1>4 DEF StopSession, Typed
  <2>3. Typed'
    BY <1>1, <1>2, <1>4, <2>1, <2>2 DEF Typed, StopSession
  <2>4. QED
    BY <1>1, <2>3, StillStep
<1>5. CASE MeterSample(c)
  <2>1. session[c].s \in Session /\ Record("Meter", session[c].s, c, session[c].tx) \in RecordType
    BY <1>5, RecordTyped, SessionTyped DEF MeterSample, Kind
  <2>2. Typed'
    BY <1>1, <1>2, <1>5, <2>1 DEF Typed, MeterSample
  <2>3. QED
    BY <1>1, <2>2, StillStep
<1>6. QED
  BY <1>1, <1>3, <1>4, <1>5, StillStep

LEMMA LinkSteps ==
    ASSUME DrainInv,
           \/ Connect \/ Disconnect \/ SaveSnapshot
           \/ \E accepted \in BOOLEAN : BootNotification(accepted)
    PROVE  DrainInv'
<1> USE DEF DrainInv
<1>1. UNCHANGED <<session, started, sampled, calls, queue, draining, work, history, failedStart>>
  BY DEF Connect, Disconnect, SaveSnapshot, BootNotification, engine
<1>2. UNCHANGED put
  BY <1>1 DEF history
<1>3. saved' \in {saved, session} /\ connected' \in BOOLEAN /\ registered' \in BOOLEAN
  BY DEF Connect, Disconnect, SaveSnapshot, BootNotification, engine, link, Typed
<1>4. Typed'
  BY <1>1, <1>2, <1>3 DEF Typed
<1>5. QED
  BY <1>1, <1>4, StillStep

\* A callback queues its record, unless a start is refused.
LEMMA EnqueueStep ==
    ASSUME DrainInv, NEW r \in calls, EnqueueTransaction(r) PROVE DrainInv'
<1> USE DEF DrainInv
<1>1. r \in RecordType /\ calls' \subseteq RecordType
  BY DEF Typed, EnqueueTransaction
<1>2. UNCHANGED <<session, saved, started, sampled, connected, registered, failedStart,
                  draining, work, got, buried, doubt, moved>>
  BY DEF EnqueueTransaction, link
<1>3. CASE queue' = queue /\ put' = put
  <2>1. Typed'
    BY <1>1, <1>2, <1>3 DEF Typed
  <2>2. QED
    BY <1>2, <1>3, <2>1, StillStep DEF history
<1>4. CASE queue' = Enqueued(queue, r) /\ put' = Logged(r)
  <2>1. /\ queue' \in Seq(RecordType) /\ put' \in Seq(Key)
        /\ Numbered' /\ Accounted' /\ InOrder'
        /\ QueuedIds' \cap GotIds' \subseteq QueuedIds \cap GotIds
        /\ Len(queue') = Len(queue) + 1
        /\ \A i \in 1..Len(queue) : queue'[i] = queue[i]
    BY <1>1, <1>2, <1>4, GrowStep
  <2>2. Typed'
    BY <1>1, <1>2, <2>1 DEF Typed
  <2>3. Passes'
    BY <1>2, <2>1, QueuedFacts, KeepPasses
  <2>4. Leaves'
    BY <1>2, <2>1 DEF Leaves, Answered
  <2>5. QED
    BY <2>1, <2>2, <2>3, <2>4
<1>5. QED
  BY <1>3, <1>4 DEF EnqueueTransaction

\* A crash loses the passes, not the queue.
LEMMA RestartStep16 == ASSUME DrainInv, Restart PROVE DrainInv'
<1> USE DEF DrainInv
<1>1. UNCHANGED <<saved, started, sampled, put, got, buried, moved>> /\ doubt \subseteq doubt'
  BY DEF Restart
<1>2. queue' = [i \in 1..Len(queue) |-> [queue[i] EXCEPT !.raw = TRUE]] /\ Len(queue) \in Nat
      /\ \A i \in 1..Len(queue) : queue[i] \in RecordType
  BY QueuedFacts DEF Restart
<1>3. \A i \in 1..Len(queue) : /\ [queue[i] EXCEPT !.raw = TRUE] \in RecordType
                               /\ [queue[i] EXCEPT !.raw = TRUE].id = queue[i].id
                               /\ KeyOf([queue[i] EXCEPT !.raw = TRUE]) = KeyOf(queue[i])
  BY <1>2 DEF RecordType, KeyOf
<1>4. queue' \in Seq(RecordType) /\ Len(queue') = Len(queue)
  <2>1. queue' \in [1..Len(queue) -> RecordType]
    BY <1>2, <1>3
  <2>2. QED
    BY <1>2, <2>1
<1>5. Numbered' /\ Accounted' /\ InOrder' /\ QueuedIds' = QueuedIds
  BY <1>1, <1>2, <1>3, <1>4, SameStep
<1>6. Typed'
  BY <1>1, <1>4 DEF Typed, Restart
<1>7. Passes'
  BY DEF Restart, Passes, Idle, Busy, Holds
<1>8. Leaves'
  BY <1>1, <1>5 DEF Leaves, Answered, GotIds, Restart
<1>9. QED
  BY <1>5, <1>6, <1>7, <1>8

\* A pass begins and ends.
LEMMA PassSteps ==
    ASSUME DrainInv, NEW d \in Drainers, Begin(d) \/ Finish(d) PROVE DrainInv'
<1> USE DEF DrainInv
<1>1. UNCHANGED <<engine, queue, link, failedStart, bounds, history>>
  BY DEF Begin, Finish
<1>2. UNCHANGED <<session, saved, started, sampled, calls, connected, registered, put, got, buried,
                  doubt, moved>>
  BY <1>1 DEF engine, link, history
<1>3. NoRecord \in RecordType \cup {NoRecord}
  OBVIOUS
<1>4. Passes'
  <2>1. CASE Begin(d)
    <3>1. ~draining /\ draining' = TRUE /\ Goto(d, "loop", NoRecord, "none")
      BY <2>1 DEF Begin, SingleFlight
    <3>2. QED
      BY <3>1, <1>3, GotoPasses
  <2>2. CASE Finish(d)
    <3>1. Busy(d) /\ draining' = FALSE /\ Goto(d, "idle", NoRecord, "none")
      BY <2>2 DEF Finish, Busy
    <3>2. QED
      BY <3>1, <1>3, GotoPasses
  <2>3. QED
    BY <2>1, <2>2
<1>5. Typed'
  BY <1>1, <1>2 DEF Typed
<1>6. Numbered' /\ Accounted' /\ InOrder' /\ QueuedIds' = QueuedIds /\ GotIds' = GotIds
  <2>1. queue \in Seq(RecordType)
    BY DEF Typed
  <2>2. QED
    BY <1>1, <1>2, <2>1, SameStep DEF GotIds
<1>7. Leaves'
  <2>1. ASSUME NEW e \in Drainers, work[e].pc = "reply" PROVE work'[e] = work[e]
    <3>1. work[d].pc # "reply"
      BY DEF Begin, Finish
    <3>2. QED
      BY <2>1, <3>1 DEF Begin, Finish, Goto, Passes
  <2>2. QED
    BY <1>2, <1>6, <2>1 DEF Leaves, Answered
<1>8. QED
  BY <1>4, <1>5, <1>6, <1>7

\* What the invariant keeps while a drainer waits for or handles an answer.
LEMMA WorkStep ==
    ASSUME DrainInv, NEW d \in Drainers, Holds(d),
           NEW outcome \in {"accepted", "refusedTag", "queued", "error", "fatal"},
           Goto(d, "reply", work[d].msg, outcome), draining' = draining,
           UNCHANGED <<saved, started, sampled, calls, connected, registered, failedStart, buried>>,
           session' \in [Conn -> {NoSession} \cup [s : Session, tx : Tx]],
           queue' \in Seq(RecordType), put' \in Seq(Key), Numbered', Accounted', InOrder',
           Len(queue) <= Len(queue'), \A i \in 1..Len(queue) : queue'[i] = queue[i],
           \A q \in QueuedIds' \cap GotIds' : q \in QueuedIds \cap GotIds \/ q = work[d].msg.id,
           doubt \subseteq doubt', Reply(d)'
    PROVE  DrainInv'
<1> USE DEF DrainInv
<1>1. Typed'
  BY DEF Typed
<1>2. work[d].msg \in RecordType \cup {NoRecord} /\ Busy(d)
  BY DEF Passes, Holds, Busy
<1>3. Len(queue) \in Nat /\ Len(queue) > 0 /\ queue # <<>> /\ queue[1] = work[d].msg
  BY QueuedFacts DEF Passes
<1>4. queue' # <<>> /\ queue'[1] = work[d].msg
  <2>1. Len(queue') > 0
    BY <1>3, LenProperties
  <2>2. QED
    BY <1>3, <2>1, EmptySeq
<1>5. draining' = TRUE
  BY <1>2, OnlyPass
<1>6. Passes'
  BY <1>2, <1>4, <1>5, GotoPasses
<1>7. Leaves'
  <2>1. work'[d].pc = "reply" /\ work'[d].msg = work[d].msg
    BY DEF Goto, Passes
  <2>2. \A e \in Drainers : work[e].pc = "reply" => e = d
    BY <1>2 DEF Passes, Busy
  <2>3. \A q : Answered(q) => q = work[d].msg.id
    BY <2>2 DEF Answered
  <2>4. \E e \in Drainers : work'[e].pc = "reply" /\ work'[e].msg.id = work[d].msg.id
    BY <2>1
  <2>5. ASSUME NEW q \in QueuedIds' \cap GotIds'
        PROVE  q \in doubt' \/ \E e \in Drainers : work'[e].pc = "reply" /\ work'[e].msg.id = q
    <3>1. CASE q = work[d].msg.id
      BY <2>4, <3>1
    <3>2. CASE q \in QueuedIds \cap GotIds /\ q # work[d].msg.id
      BY <2>3, <3>2 DEF Leaves
    <3>3. QED
      BY <3>1, <3>2
  <2>6. QED
    BY <2>5 DEF Leaves, Answered
<1>8. QED
  BY <1>1, <1>6, <1>7

\* A message that is delivered but not yet retired is in doubt, unless its answer
\* is being handled.
LEMMA SendDoubt ==
    ASSUME DrainInv, NEW d \in Drainers, work[d].pc = "send", work[d].msg.id \in GotIds
    PROVE  work[d].msg.id \in doubt
<1>1. ~Answered(work[d].msg.id)
  BY DEF DrainInv, Passes, Busy, Answered
<1>2. work[d].msg.id \in QueuedIds
  <2>1. queue # <<>> /\ queue[1] = work[d].msg
    BY DEF DrainInv, Passes, Holds
  <2>2. 1 \in DOMAIN queue
    BY <2>1, QueuedFacts DEF DrainInv
  <2>3. QED
    BY <2>1, <2>2 DEF QueuedIds
<1>3. QED
  BY <1>1, <1>2 DEF DrainInv, Leaves

\* SendStartTransaction or sendMeterValuesAt fails before anything goes out; or the
\* request is lost or refused.
LEMMA UnsentStep ==
    ASSUME DrainInv, NEW d \in Drainers,
           Refused(d) \/ \E outcome \in {"error", "fatal"} : NotReceived(d, outcome)
    PROVE  DrainInv'
<1> USE DEF DrainInv
<1>1. work[d].pc = "send" /\ Holds(d)
  BY DEF Refused, NotReceived, Sends, Holds
<1>2. /\ UNCHANGED <<engine, queue, link, draining, failedStart, bounds, history>>
      /\ \E outcome \in {"error", "fatal"} : Goto(d, "reply", work[d].msg, outcome)
  BY DEF Refused, NotReceived
<1>3. UNCHANGED <<session, saved, started, sampled, calls, connected, registered, put, got, buried,
                  doubt, moved>>
  BY <1>2 DEF engine, link, history
<1>4. PICK outcome \in {"error", "fatal"} : Goto(d, "reply", work[d].msg, outcome)
  BY <1>2
<1>5. queue \in Seq(RecordType) /\ Len(queue) \in Nat
  BY QueuedFacts DEF Typed
<1>6. Numbered' /\ Accounted' /\ InOrder' /\ QueuedIds' = QueuedIds /\ GotIds' = GotIds
  BY <1>2, <1>3, <1>5, SameStep DEF GotIds
<1>7. Reply(d)'
  <2>1. work'[d].outcome = outcome /\ work'[d].msg = work[d].msg
    BY <1>4 DEF Goto, Passes
  <2>2. QED
    BY <1>1, <1>3, <1>6, <2>1, SendDoubt DEF Reply
<1>8. put \in Seq(Key) /\ session \in [Conn -> {NoSession} \cup [s : Session, tx : Tx]]
  BY DEF Typed
<1>9. QED
  BY <1>1, <1>2, <1>3, <1>4, <1>5, <1>6, <1>7, <1>8, WorkStep

\* The record a drainer holds is the head of the queue.
LEMMA Held16 ==
    ASSUME DrainInv, NEW d \in Drainers, Holds(d)
    PROVE  /\ queue # <<>> /\ queue[1] = work[d].msg /\ 1 \in 1..Len(queue)
           /\ work[d].msg \in RecordType
           /\ Busy(d) /\ draining = TRUE
           /\ work[d].msg.conn \in Conn /\ work[d].msg.s \in Session
<1>1. queue # <<>> /\ queue[1] = work[d].msg
  BY DEF DrainInv, Passes
<1>2. 1 \in 1..Len(queue) /\ work[d].msg \in RecordType
  BY <1>1, QueuedFacts DEF DrainInv
<1>3. Busy(d) /\ draining = TRUE
  BY OnlyPass DEF DrainInv, Holds, Busy
<1>4. QED
  BY <1>1, <1>2, <1>3 DEF RecordType

\* The CSMS receives the head.
LEMMA ReceivedStep ==
    ASSUME DrainInv, NEW d \in Drainers, NEW outcome \in {"accepted", "refusedTag", "error"},
           Received(d, outcome)
    PROVE  DrainInv'
<1> DEFINE r == work[d].msg
           g == [id |-> r.id, kind |-> r.kind, s |-> r.s, tx |-> r.tx]
<1>1. Holds(d)
  BY DEF Received, Sends, Holds
<1>2. /\ UNCHANGED <<engine, queue, link, draining, failedStart, bounds, put, buried, moved>>
      /\ Goto(d, "reply", r, outcome)
      /\ got' = got \cup {g}
      /\ doubt' = IF outcome = "error" THEN doubt \cup {r.id} ELSE doubt
  BY DEF Received
<1>3. UNCHANGED <<session, saved, started, sampled, calls, connected, registered>>
  BY <1>2 DEF engine, link
<1>4. /\ queue \in Seq(RecordType) /\ Len(queue) \in Nat /\ put \in Seq(Key)
      /\ session \in [Conn -> {NoSession} \cup [s : Session, tx : Tx]]
  BY QueuedFacts DEF DrainInv, Typed
<1>5. g.id = queue[1].id /\ KeyOf(g) = KeyOf(queue[1]) /\ queue # <<>>
  BY <1>1, Held16 DEF KeyOf
<1> HIDE DEF g
<1>6. \A x \in got' : x \in got \/ (queue # <<>> /\ x.id = queue[1].id /\ KeyOf(x) = KeyOf(queue[1]))
  BY <1>2, <1>5
<1>7. Numbered' /\ Accounted' /\ InOrder' /\ QueuedIds' = QueuedIds
  BY <1>2, <1>4, <1>6, SameStep DEF DrainInv
<1>8. GotIds' = GotIds \cup {r.id}
  BY <1>1, <1>2, <1>5, Held16 DEF GotIds
<1>9. Reply(d)'
  <2>1. work'[d].outcome = outcome /\ work'[d].msg = r
    BY <1>2 DEF Goto, DrainInv, Passes
  <2>2. QED
    BY <1>2, <1>8, <2>1 DEF Reply
<1>10. QED
  BY <1>1, <1>2, <1>3, <1>4, <1>7, <1>8, <1>9, WorkStep

\* Start or Stop while the link is down: a copy goes to the tail.
LEMMA QueuedAgainStep ==
    ASSUME DrainInv, NEW d \in Drainers, QueuedAgain(d) PROVE DrainInv'
<1> DEFINE r == work[d].msg
<1>1. Holds(d) /\ work[d].pc = "send"
  BY DEF QueuedAgain, Holds
<1>2. /\ UNCHANGED <<engine, link, draining, failedStart, bounds, got, buried, doubt>>
      /\ queue' = Enqueued(queue, r) /\ put' = Logged(r)
      /\ moved' = moved \cup {r.id}
      /\ Goto(d, "reply", r, "queued")
  BY DEF QueuedAgain
<1>3. UNCHANGED <<session, saved, started, sampled, calls, connected, registered>>
  BY <1>2 DEF engine, link
<1>4. r \in RecordType
  BY <1>1, Held16
<1>5. /\ queue' \in Seq(RecordType) /\ put' \in Seq(Key)
      /\ Numbered' /\ Accounted' /\ InOrder'
      /\ QueuedIds' \cap GotIds' \subseteq QueuedIds \cap GotIds
      /\ Len(queue') = Len(queue) + 1
      /\ \A i \in 1..Len(queue) : queue'[i] = queue[i]
      /\ KeyOf(queue'[Len(queue) + 1]) = KeyOf(r)
  BY <1>2, <1>4, GrowStep DEF DrainInv
<1>6. Len(queue) \in Nat /\ Len(queue) > 0
  BY <1>1, Held16, QueuedFacts DEF DrainInv
<1>7. Reply(d)'
  <2>1. work'[d].outcome = "queued" /\ work'[d].msg = r
    BY <1>2 DEF Goto, DrainInv, Passes
  <2>2. Len(queue) + 1 \in 2..Len(queue')
    BY <1>5, <1>6
  <2>3. QED
    BY <1>2, <1>5, <2>1, <2>2 DEF Reply
<1>8. session \in [Conn -> {NoSession} \cup [s : Session, tx : Tx]]
  BY DEF DrainInv, Typed
<1>9. QED
  BY <1>1, <1>2, <1>3, <1>5, <1>6, <1>7, <1>8, WorkStep, SMTT(20)

\* A refused idTag stops the session, whose stop is queued.
LEMMA DeauthorizeStep ==
    ASSUME DrainInv, NEW d \in Drainers, Deauthorize(d) PROVE DrainInv'
<1> DEFINE r == work[d].msg
           stop == Record("Stop", session[r.conn].s, r.conn, session[r.conn].tx)
<1>1. Holds(d) /\ work[d].pc = "reply" /\ work[d].outcome = "refusedTag"
  BY DEF Deauthorize, Holds
<1>2. /\ UNCHANGED <<saved, started, sampled, calls, link, draining, failedStart, bounds,
                      got, buried, doubt, moved>>
      /\ Goto(d, "reply", r, "accepted")
  BY DEF Deauthorize
<1>3. UNCHANGED <<connected, registered>>
  BY <1>2 DEF link
<1>4. Reply(d)'
  <2>1. work'[d].outcome = "accepted" /\ work'[d].msg = r
    BY <1>2 DEF Goto, DrainInv, Passes
  <2>2. Reply(d)
    BY <1>1 DEF DrainInv, Passes
  <2>3. QED
    BY <1>1, <1>2, <2>1, <2>2 DEF Reply, GotIds
<1>5. /\ queue \in Seq(RecordType) /\ Len(queue) \in Nat /\ put \in Seq(Key)
      /\ session \in [Conn -> {NoSession} \cup [s : Session, tx : Tx]]
  BY QueuedFacts DEF DrainInv, Typed
<1>6. CASE session[r.conn] = NoSession
  <2>1. UNCHANGED <<session, queue, put>>
    BY <1>6 DEF Deauthorize
  <2>2. Numbered' /\ Accounted' /\ InOrder' /\ QueuedIds' = QueuedIds /\ GotIds' = GotIds
    BY <1>2, <1>5, <2>1, SameStep DEF DrainInv, GotIds
  <2>3. QED
    BY <1>1, <1>2, <1>3, <1>4, <1>5, <2>1, <2>2, WorkStep
<1>7. CASE session[r.conn] # NoSession
  <2>1. /\ session' = [session EXCEPT ![r.conn] = NoSession]
        /\ queue' = Enqueued(queue, stop) /\ put' = Logged(stop)
    BY <1>7 DEF Deauthorize
  <2>2. stop \in RecordType
    BY <1>1, <1>7, Held16, SessionTyped, RecordTyped DEF DrainInv, Kind
  <2> HIDE DEF stop
  <2>3. /\ queue' \in Seq(RecordType) /\ put' \in Seq(Key)
        /\ Numbered' /\ Accounted' /\ InOrder'
        /\ QueuedIds' \cap GotIds' \subseteq QueuedIds \cap GotIds
        /\ Len(queue') = Len(queue) + 1
        /\ \A i \in 1..Len(queue) : queue'[i] = queue[i]
    BY <1>2, <2>1, <2>2, GrowStep DEF DrainInv
  <2>4. session' \in [Conn -> {NoSession} \cup [s : Session, tx : Tx]]
    BY <1>5, <2>1
  <2>5. QED
    BY <1>1, <1>2, <1>3, <1>4, <1>5, <2>3, <2>4, WorkStep
<1>8. QED
  BY <1>6, <1>7

\* The answer has been handled.
LEMMA HandledStep ==
    ASSUME DrainInv, NEW d \in Drainers, work[d].pc = "reply",
           NEW pc \in {"idle", "loop"}, Goto(d, pc, NoRecord, "none"), draining' = (pc # "idle"),
           UNCHANGED <<saved, started, sampled, calls, connected, registered, put, got, doubt>>,
           session' \in [Conn -> {NoSession} \cup [s : Session, tx : Tx]],
           failedStart' \subseteq Conn,
           queue' \in Seq(RecordType), Numbered', Accounted', InOrder',
           \A q \in QueuedIds' \cap GotIds :
              q \in QueuedIds /\ (q # work[d].msg.id \/ q \in doubt)
    PROVE  DrainInv'
<1>1. Typed'
  BY DEF DrainInv, Typed
<1>2. Passes'
  <2>1. Busy(d) /\ NoRecord \in RecordType \cup {NoRecord}
    BY DEF Busy
  <2>2. QED
    BY <2>1, GotoPasses DEF DrainInv
<1>3. Leaves'
  <2>1. \A e \in Drainers : work[e].pc = "reply" => e = d
    BY DEF DrainInv, Passes, Busy
  <2>2. GotIds' = GotIds
    BY DEF GotIds
  <2>3. \A q \in QueuedIds' \cap GotIds' : q \in doubt'
    BY <2>1, <2>2 DEF DrainInv, Leaves, Answered
  <2>4. QED
    BY <2>3 DEF Leaves
<1>4. QED
  BY <1>1, <1>2, <1>3 DEF DrainInv

\* Succeed, Reject and Fail.
LEMMA SucceedStep == ASSUME DrainInv, NEW d \in Drainers, Succeed(d) PROVE DrainInv'
<1> DEFINE r == work[d].msg
<1>1. Holds(d) /\ work[d].pc = "reply" /\ work[d].outcome \in {"accepted", "queued"}
  BY DEF Succeed, Holds
<1>2. /\ UNCHANGED <<saved, started, sampled, calls, link, draining, bounds, history>>
      /\ queue' = Dequeued(r)
      /\ Goto(d, "loop", NoRecord, "none")
  BY DEF Succeed, Retired
<1>3. UNCHANGED <<connected, registered, put, got, buried, doubt, moved>>
  BY <1>2 DEF link, history
<1>4. queue # <<>> /\ r = queue[1] /\ r \in RecordType /\ r.conn \in Conn /\ draining = TRUE
  BY <1>1, Held16
<1>5. r.id \in Gone'
  <2>1. r.id \in Gone
    BY <1>1 DEF DrainInv, Passes, Reply, Gone
  <2>2. QED
    BY <1>3, <2>1 DEF Gone, GotIds, BuriedIds
<1>6. /\ queue' \in Seq(RecordType)
      /\ Numbered' /\ Accounted' /\ InOrder'
      /\ QueuedIds' = QueuedIds \ {r.id}
  <2>1. Typed /\ Numbered /\ Accounted /\ InOrder
    BY DEF DrainInv
  <2>2. \A b \in buried' : b \in buried \/ (b.id = r.id /\ KeyOf(b) = KeyOf(queue[1]))
    BY <1>3
  <2>3. QED
    BY <1>2, <1>3, <1>4, <1>5, <2>1, <2>2, LeaveStep
<1>7. session' \in [Conn -> {NoSession} \cup [s : Session, tx : Tx]]
  <2> DEFINE tx == IF r.kind = "Start" /\ work[d].outcome = "accepted" /\ session[r.conn] # NoSession
                   THEN CsmsTx(r.s) ELSE session[r.conn].tx
  <2>1. session' = [session EXCEPT ![r.conn].tx = tx]
    BY DEF Succeed
  <2>2. CsmsTx(r.s) \in Tx
    BY <1>1, Held16 DEF Tx
  <2>3. CASE session[r.conn] = NoSession
    <3>1. tx = 0 /\ [NoSession EXCEPT !.tx = 0] = NoSession
      BY <2>3 DEF NoSession
    <3>2. QED
      BY <2>1, <2>3, <3>1 DEF DrainInv, Typed
  <2>4. CASE session[r.conn] # NoSession
    <3>1. tx \in Tx
      BY <1>4, <2>2, <2>4, SessionTyped DEF DrainInv
    <3>2. session[r.conn] \in [s : Session, tx : Tx]
      BY <1>4, <2>4 DEF DrainInv, Typed
    <3>3. [session[r.conn] EXCEPT !.tx = tx] \in [s : Session, tx : Tx]
      BY <3>1, <3>2
    <3>4. QED
      BY <1>4, <2>1, <3>3 DEF DrainInv, Typed
  <2>5. QED
    BY <2>3, <2>4
<1>8. failedStart' \subseteq Conn
  BY DEF Succeed, DrainInv, Typed
<1>9. draining' = TRUE
  BY <1>2, <1>4
<1>10. QED
  BY <1>1, <1>2, <1>3, <1>6, <1>7, <1>8, <1>9, HandledStep

\* Bury, of the head.
LEMMA BuryOps ==
    ASSUME DrainInv, queue # <<>>, NEW r, r.id = queue[1].id, KeyOf(r) = KeyOf(queue[1]), NEW reason,
           Bury(r, reason), UNCHANGED <<put, got, moved>>
    PROVE  /\ queue' \in Seq(RecordType)
           /\ Numbered' /\ Accounted' /\ InOrder'
           /\ QueuedIds' = QueuedIds \ {r.id}
<1> DEFINE b == [id |-> r.id, kind |-> r.kind, s |-> r.s, reason |-> reason]
<1>1. buried' = buried \cup {b} /\ queue' = Dequeued(r)
  BY DEF Bury
<1>2. b.id = r.id /\ KeyOf(b) = KeyOf(queue[1])
  BY DEF KeyOf
<1> HIDE DEF b
<1>3. r.id \in Gone'
  <2>1. b.id \in BuriedIds'
    BY <1>1 DEF BuriedIds
  <2>2. QED
    BY <1>2, <2>1 DEF Gone
<1>4. /\ buried \subseteq buried'
      /\ \A x \in buried' : x \in buried \/ (x.id = r.id /\ KeyOf(x) = KeyOf(queue[1]))
  BY <1>1, <1>2
<1>5. Typed /\ Numbered /\ Accounted /\ InOrder
  BY DEF DrainInv
<1>6. QED
  BY <1>1, <1>3, <1>4, <1>5, LeaveStep

LEMMA RejectStep == ASSUME DrainInv, NEW d \in Drainers, Reject(d) PROVE DrainInv'
<1> DEFINE r == work[d].msg
<1>1. Holds(d) /\ work[d].pc = "reply"
  BY DEF Reject, Holds
<1>2. /\ UNCHANGED <<engine, link, draining, bounds, put, got, doubt, moved>>
      /\ Bury(r, "rejected")
      /\ Goto(d, "loop", NoRecord, "none")
  BY DEF Reject
<1>3. UNCHANGED <<session, saved, started, sampled, calls, connected, registered>>
  BY <1>2 DEF engine, link
<1>4. queue # <<>> /\ r = queue[1] /\ r.conn \in Conn /\ draining' = TRUE
  BY <1>1, <1>2, Held16
<1>5. /\ queue' \in Seq(RecordType)
      /\ Numbered' /\ Accounted' /\ InOrder'
      /\ QueuedIds' = QueuedIds \ {r.id}
  BY <1>2, <1>4, BuryOps
<1>6. /\ session' \in [Conn -> {NoSession} \cup [s : Session, tx : Tx]]
      /\ failedStart' \subseteq Conn
  BY <1>3, <1>4 DEF Reject, DrainInv, Typed
<1>7. QED
  BY <1>1, <1>2, <1>3, <1>4, <1>5, <1>6, HandledStep

LEMMA FailStep ==
    ASSUME DrainInv, NEW d \in Drainers, NEW attempts \in Attempts, Fail(d, attempts) PROVE DrainInv'
<1> DEFINE m == work[d].msg
           r == [m EXCEPT !.retries = Attempted(m, attempts)]
<1>1. Holds(d) /\ work[d].pc = "reply" /\ work[d].outcome = "error"
  BY DEF Fail, Holds
<1>2. /\ UNCHANGED <<engine, link, failedStart, bounds, put, got, doubt, moved>>
      /\ IF r.retries >= attempts THEN Bury(r, "exhausted") ELSE queue' = Updated(r) /\ UNCHANGED buried
      /\ Goto(d, "idle", NoRecord, "none") /\ draining' = FALSE
  BY DEF Fail
<1>3. UNCHANGED <<session, saved, started, sampled, calls, connected, registered>>
  BY <1>2 DEF engine, link
<1>4. queue # <<>> /\ m = queue[1] /\ m \in RecordType
  BY <1>1, Held16
<1>5. r \in RecordType /\ r.id = m.id /\ KeyOf(r) = KeyOf(m)
  <2>1. m.retries \in Nat
    BY <1>4 DEF RecordType
  <2>2. Attempted(m, attempts) \in Nat
    BY <2>1 DEF Attempted
  <2>3. \A n \in Nat : [m EXCEPT !.retries = n] \in RecordType
    BY <1>4 DEF RecordType
  <2>4. r.id = m.id /\ r.kind = m.kind /\ r.s = m.s
    BY <1>4 DEF RecordType
  <2>5. QED
    BY <2>2, <2>3, <2>4 DEF KeyOf
<1>6. /\ session' \in [Conn -> {NoSession} \cup [s : Session, tx : Tx]]
      /\ failedStart' \subseteq Conn
  BY <1>2, <1>3 DEF DrainInv, Typed
<1>7. m.id \in GotIds => m.id \in doubt
  BY <1>1 DEF DrainInv, Passes, Reply
<1> HIDE DEF r
<1>8. CASE Bury(r, "exhausted")
  <2>1. /\ queue' \in Seq(RecordType)
        /\ Numbered' /\ Accounted' /\ InOrder'
        /\ QueuedIds' = QueuedIds \ {r.id}
    BY <1>2, <1>4, <1>5, <1>8, BuryOps
  <2>2. QED
    BY <1>1, <1>2, <1>3, <1>5, <1>6, <1>7, <2>1, HandledStep
<1>9. CASE queue' = Updated(r) /\ UNCHANGED buried
  <2>1. /\ queue' \in Seq(RecordType) /\ Len(queue') = Len(queue)
        /\ queue'[1] = r /\ \A i \in 2..Len(queue) : queue'[i] = queue[i]
    BY <1>4, <1>5, <1>9, UpdateOps DEF DrainInv
  <2>2. \A i \in 1..Len(queue) : queue'[i].id = queue[i].id /\ KeyOf(queue'[i]) = KeyOf(queue[i])
    <3>1. \A i \in 1..Len(queue) : i = 1 \/ i \in 2..Len(queue)
      OBVIOUS
    <3>2. QED
      BY <1>4, <1>5, <2>1, <3>1
  <2>3. Numbered' /\ Accounted' /\ InOrder' /\ QueuedIds' = QueuedIds
    BY <1>2, <1>9, <2>1, <2>2, SameStep DEF DrainInv
  <2>4. QED
    BY <1>1, <1>2, <1>3, <1>6, <1>7, <2>1, <2>3, HandledStep
<1>10. QED
  BY <1>2, <1>8, <1>9

\* A pass looks at the head of the queue.
LEMMA PickStep ==
    ASSUME DrainInv, NEW d \in Drainers, NEW attempts \in Attempts, Pick(d, attempts) PROVE DrainInv'
<1> DEFINE r == Head(queue)
<1>1. work[d].pc = "loop" /\ queue # <<>>
  BY DEF Pick
<1>2. UNCHANGED <<engine, link, draining, failedStart, bounds, put, got, doubt, moved>>
  BY DEF Pick
<1>3. UNCHANGED <<session, saved, started, sampled, calls, connected, registered>>
  BY <1>2 DEF engine, link
<1>4. r = queue[1] /\ r \in RecordType /\ Len(queue) \in Nat /\ queue \in Seq(RecordType)
  <2>1. /\ Len(queue) \in Nat /\ Len(queue) > 0 /\ Head(queue) = queue[1]
        /\ \A i \in 1..Len(queue) : queue[i] \in RecordType
    BY <1>1, QueuedFacts DEF DrainInv
  <2>2. QED
    BY <2>1 DEF DrainInv, Typed
<1>5. \A e \in Drainers \ {d} : work[e].pc = "idle"
  BY <1>1, OnlyPass DEF DrainInv, Busy
<1>6. \A e \in Drainers : ~Holds(e) /\ work[e].pc # "reply"
  BY <1>1, <1>5 DEF Holds
<1>7. CASE /\ \E reason \in {"exhausted", "start-unconfirmed", "invalid-payload"} : Bury(r, reason)
           /\ UNCHANGED work
  <2>1. PICK reason : Bury(r, reason)
    BY <1>7
  <2>2. /\ queue' \in Seq(RecordType)
        /\ Numbered' /\ Accounted' /\ InOrder'
        /\ QueuedIds' = QueuedIds \ {r.id}
    BY <1>1, <1>2, <1>4, <2>1, BuryOps
  <2>3. Typed'
    BY <1>2, <1>3, <2>2 DEF DrainInv, Typed
  <2>4. Passes'
    BY <1>2, <1>6, <1>7 DEF DrainInv, Passes, Busy, Holds
  <2>5. Leaves'
    BY <1>2, <1>7, <2>2 DEF DrainInv, Leaves, Answered, GotIds
  <2>6. QED
    BY <2>2, <2>3, <2>4, <2>5 DEF DrainInv
<1>8. CASE Goto(d, "send", r, "none") /\ UNCHANGED <<queue, buried>>
  <2>1. Numbered' /\ Accounted' /\ InOrder' /\ QueuedIds' = QueuedIds
    BY <1>2, <1>4, <1>8, SameStep DEF DrainInv
  <2>2. Typed'
    BY <1>2, <1>3, <1>8 DEF DrainInv, Typed
  <2>3. Passes'
    <3>1. Busy(d) /\ draining' = TRUE
      BY <1>1, <1>2, OnlyPass DEF DrainInv, Busy
    <3>2. QED
      BY <1>1, <1>4, <1>8, <3>1, GotoPasses DEF DrainInv
  <2>4. Leaves'
    BY <1>2, <1>6, <2>1 DEF DrainInv, Leaves, Answered, GotIds
  <2>5. QED
    BY <2>1, <2>2, <2>3, <2>4 DEF DrainInv
<1>9. QED
  BY <1>7, <1>8 DEF Pick

LEMMA NextInv16 == DrainInv /\ [Next]_vars => DrainInv'
<1> SUFFICES ASSUME DrainInv, [Next]_vars PROVE DrainInv'
  OBVIOUS
<1>1. CASE UNCHANGED vars
  <2>1. UNCHANGED <<queue, draining, work, history>>
    BY <1>1 DEF vars
  <2>2. Typed'
    BY <1>1 DEF vars, engine, link, history, DrainInv, Typed
  <2>3. QED
    BY <2>1, <2>2, StillStep
<1>2. ASSUME NEW c \in Conn,
             (\E tx \in Provisional : StartSession(c, tx)) \/ StopSession(c) \/ MeterSample(c)
      PROVE  DrainInv'
  BY <1>2, SessionSteps
<1>3. ASSUME NEW r \in calls, EnqueueTransaction(r) PROVE DrainInv'
  BY <1>3, EnqueueStep
<1>4. CASE \/ Connect \/ Disconnect \/ SaveSnapshot
           \/ \E accepted \in BOOLEAN : BootNotification(accepted)
  BY <1>4, LinkSteps
<1>5. CASE Restart
  BY <1>5, RestartStep16
<1>6. ASSUME NEW d \in Drainers, Send(d) PROVE DrainInv'
  BY <1>6, UnsentStep, QueuedAgainStep, ReceivedStep DEF Send
<1>7. ASSUME NEW d \in Drainers, Begin(d) \/ Finish(d) PROVE DrainInv'
  BY <1>7, PassSteps
<1>8. ASSUME NEW d \in Drainers, Deauthorize(d) \/ Succeed(d) \/ Reject(d) PROVE DrainInv'
  BY <1>8, DeauthorizeStep, SucceedStep, RejectStep
<1>9. ASSUME NEW d \in Drainers, NEW attempts \in Attempts, Pick(d, attempts) \/ Fail(d, attempts)
      PROVE  DrainInv'
  BY <1>9, PickStep, FailStep
<1>10. QED
  BY <1>1, <1>2, <1>3, <1>4, <1>5, <1>6, <1>7, <1>8, <1>9 DEF Next

LEMMA DrainAlways == Spec => []DrainInv
BY InitInv16, NextInv16, PTL DEF Spec

-----------------------------------------------------------------------------
(* What it implies.                                                        *)

\* No overtaking between the queue and the CSMS (drainQueue).
THEOREM DeliveryInOrder == Spec => []InOrder
<1>1. DrainInv => InOrder
  BY DEF DrainInv
<1>2. QED
  BY <1>1, DrainAlways, PTL

\* drainQueue removes what it delivered, unless a reply was lost.
THEOREM DeliveredRecordsLeave == Spec => []DeliveredLeaves
<1>1. DrainInv => DeliveredLeaves
  BY LeavesById DEF DrainInv
<1>2. QED
  BY <1>1, DrainAlways, PTL

\* The queue has no record twice.
LEMMA QueuedCount ==
    ASSUME Typed, Numbered
    PROVE  IsFiniteSet(Queued) /\ Cardinality(Queued) = Len(queue)
<1> DEFINE n == Len(queue)
           f == [i \in 1..n |-> queue[i]]
<1>1. n \in Nat /\ DOMAIN queue = 1..n /\ Queued = {queue[i] : i \in 1..n}
      /\ \A i \in 1..n : queue[i].id \in Nat
  BY QueuedFacts DEF RecordType, Queued
<1>2. ASSUME NEW i \in 1..n, NEW j \in 1..n, queue[i] = queue[j] PROVE i = j
  <2>1. (i < j => queue[i].id < queue[j].id) /\ (j < i => queue[j].id < queue[i].id)
    BY DEF Numbered
  <2>2. queue[i].id = queue[j].id /\ queue[i].id \in Nat
    BY <1>1, <1>2
  <2>3. QED
    BY <1>1, <2>1, <2>2
<1>3. f \in Bijection(1..n, Queued)
  <2>1. f \in [1..n -> Queued] /\ \A x \in Queued : \E i \in 1..n : f[i] = x
    BY <1>1
  <2>2. \A i, j \in 1..n : f[i] = f[j] => i = j
    BY <1>2
  <2>3. QED
    BY <2>1, <2>2 DEF Bijection, Injection, Surjection, IsInjective
<1>4. ExistsBijection(1..n, Queued)
  BY <1>3 DEF ExistsBijection
<1>5. QED
  BY <1>1, <1>4, FS_CountingElements, FS_NatBijection

\* Types, the uuids of the queue, and the single-flight flag.
THEOREM Drain16TypeCorrect == Spec => []TypeOK
<1>1. DrainInv => TypeOK
  <2> SUFFICES ASSUME DrainInv PROVE TypeOK
    OBVIOUS
  <2>1. Typed /\ Numbered /\ Passes
    BY DEF DrainInv
  <2>2. \A r \in Queued : \E i \in 1..Len(queue) : r = queue[i]
    BY <2>1, QueuedFacts
  <2>3. Queued \subseteq RecordType /\ Cardinality(Queued) = Len(queue)
    BY <2>1, <2>2, QueuedFacts, QueuedCount
  <2>4. \A r \in Queued : r.id \in DOMAIN put /\ put[r.id] = KeyOf(r)
    BY <2>1, <2>2, QueuedFacts DEF Numbered
  <2>5. \A d \in Drainers : work[d].pc \in {"idle", "loop"} \/ work[d].msg \in Queued
    <3>1. queue # <<>> => queue[1] \in Queued
      BY <2>1, QueuedFacts
    <3>2. \A d \in Drainers : work[d].pc \in {"idle", "loop", "send", "reply"}
      BY <2>1 DEF Passes
    <3>3. QED
      BY <2>1, <3>1, <3>2 DEF Passes, Holds
  <2>6. draining = (\E d \in Drainers : work[d].pc # "idle")
    BY <2>1 DEF Passes, Busy
  <2>7. \A d, e \in Drainers : work[d].pc # "idle" /\ work[e].pc # "idle" => d = e
    BY <2>1 DEF Passes, Busy
  <2>8. QED
    BY <2>1, <2>3, <2>4, <2>5, <2>6, <2>7 DEF TypeOK, Typed
<1>2. QED
  BY <1>1, DrainAlways, PTL

-----------------------------------------------------------------------------
(* drainQueue implements Outbox.                                           *)

Pending16 == {KeyOf(r) : r \in Queued}
Delivered16 == {KeyOf(g) : g \in got}
Buried16 == {KeyOf(b) : b \in buried}

LEMMA PendingFacts ==
    ASSUME Typed
    PROVE  /\ Pending16 = {KeyOf(queue[i]) : i \in 1..Len(queue)}
           /\ \A r \in RecordType : KeyOf(r) \in Key
           /\ Pending16 \subseteq Key
<1>1. \A r \in RecordType : KeyOf(r) \in Key
  BY DEF RecordType, KeyOf, Key
<1>2. Pending16 = {KeyOf(queue[i]) : i \in 1..Len(queue)}
  <2>1. /\ \A i \in 1..Len(queue) : queue[i] \in Queued
        /\ \A r \in Queued : \E i \in 1..Len(queue) : r = queue[i]
    BY QueuedFacts
  <2>2. QED
    BY <2>1 DEF Pending16
<1>3. \A i \in 1..Len(queue) : queue[i] \in RecordType
  BY QueuedFacts
<1>4. QED
  BY <1>1, <1>2, <1>3

\* What each step is to the outbox.
PutOrKeep(k) == Pending16' = Pending16 \cup {k} /\ Delivered16' = Delivered16 /\ Buried16' = Buried16
Keep == Pending16' = Pending16 /\ Delivered16' = Delivered16 /\ Buried16' = Buried16
Delivers(k) ==
    /\ k \in Pending16 /\ Delivered16' = Delivered16 \cup {k}
    /\ Pending16' = Pending16 /\ Buried16' = Buried16
RetireOrKeep(k) ==
    /\ k \in Pending16
    /\ Pending16' = Pending16 \/ (k \in Delivered16 /\ Pending16' = Pending16 \ {k})
    /\ Delivered16' = Delivered16 /\ Buried16' = Buried16
Buries(k) ==
    /\ k \in Pending16 /\ Pending16' \in {Pending16, Pending16 \ {k}}
    /\ Buried16' = Buried16 \cup {k} /\ Delivered16' = Delivered16

OutboxStep ==
    \/ Keep
    \/ \E k \in Key : PutOrKeep(k) \/ Delivers(k) \/ RetireOrKeep(k) \/ Buries(k)

LEMMA StepsOfOutbox == OutboxStep => [Promise!Next]_Promise!outboxVars
<1> SUFFICES ASSUME OutboxStep PROVE [Promise!Next]_Promise!outboxVars
  OBVIOUS
<1> USE DEF Pending16, Delivered16, Buried16
<1>1. CASE Keep
  BY <1>1 DEF Keep, Promise!outboxVars
<1>2. ASSUME NEW k \in Key, PutOrKeep(k) PROVE [Promise!Next]_Promise!outboxVars
  <2>1. CASE k \in Pending16
    BY <1>2, <2>1 DEF PutOrKeep, Promise!outboxVars
  <2>2. CASE k \notin Pending16
    <3>1. Promise!Put(k)
      BY <1>2, <2>2 DEF PutOrKeep, Promise!Put
    <3>2. QED
      BY <3>1 DEF Promise!Next
  <2>3. QED
    BY <2>1, <2>2
<1>3. ASSUME NEW k \in Key, Delivers(k) PROVE [Promise!Next]_Promise!outboxVars
  <2>1. Promise!Deliver(k)
    BY <1>3 DEF Delivers, Promise!Deliver
  <2>2. QED
    BY <2>1 DEF Promise!Next
<1>4. ASSUME NEW k \in Key, RetireOrKeep(k) PROVE [Promise!Next]_Promise!outboxVars
  <2>1. Promise!Retire(k) \/ UNCHANGED Promise!outboxVars
    BY <1>4 DEF RetireOrKeep, Promise!Retire, Promise!outboxVars
  <2>2. QED
    BY <2>1 DEF Promise!Next
<1>5. ASSUME NEW k \in Key, Buries(k) PROVE [Promise!Next]_Promise!outboxVars
  <2>1. Promise!Bury(k)
    BY <1>5 DEF Buries, Promise!Bury
  <2>2. QED
    BY <2>1 DEF Promise!Next
<1>6. QED
  BY <1>1, <1>2, <1>3, <1>4, <1>5 DEF OutboxStep

\* The same queue, up to ids and retries.
LEMMA KeepQueue ==
    ASSUME Typed, queue' \in Seq(RecordType), Len(queue') = Len(queue),
           \A i \in 1..Len(queue) : KeyOf(queue'[i]) = KeyOf(queue[i])
    PROVE  Pending16' = Pending16
<1>1. /\ \A i \in 1..Len(queue) : queue'[i] \in Queued'
      /\ \A r \in Queued' : \E i \in 1..Len(queue) : r = queue'[i]
  BY LenProperties DEF Queued
<1>2. Pending16' = {KeyOf(queue'[i]) : i \in 1..Len(queue)}
  BY <1>1 DEF Pending16
<1>3. QED
  BY <1>2, PendingFacts

\* A record joins: a Put, or another copy.
LEMMA JoinQueue ==
    ASSUME DrainInv, NEW r \in RecordType, queue' = Enqueued(queue, r), UNCHANGED <<got, buried>>
    PROVE  OutboxStep
<1>1. /\ queue' \in Seq(RecordType) /\ Len(queue') = Len(queue) + 1
      /\ \A i \in 1..Len(queue) : queue'[i] = queue[i]
      /\ KeyOf(queue'[Len(queue) + 1]) = KeyOf(r)
  BY EnqueueOps DEF DrainInv
<1>2. Len(queue) \in Nat
  BY QueuedFacts DEF DrainInv
<1>3. Pending16 = {KeyOf(queue[i]) : i \in 1..Len(queue)} /\ KeyOf(r) \in Key
  BY PendingFacts DEF DrainInv
<1>4. Pending16' = {KeyOf(queue'[i]) : i \in 1..(Len(queue) + 1)}
  <2>1. /\ \A i \in 1..(Len(queue) + 1) : queue'[i] \in Queued'
        /\ \A m \in Queued' : \E i \in 1..(Len(queue) + 1) : m = queue'[i]
    BY <1>1, LenProperties DEF Queued
  <2>2. QED
    BY <2>1 DEF Pending16
<1>5. 1..(Len(queue) + 1) = 1..Len(queue) \cup {Len(queue) + 1}
  BY <1>2
<1>6. Pending16' = Pending16 \cup {KeyOf(r)}
  BY <1>1, <1>3, <1>4, <1>5
<1>7. PutOrKeep(KeyOf(r))
  BY <1>6 DEF PutOrKeep, Delivered16, Buried16
<1>8. QED
  BY <1>3, <1>7 DEF OutboxStep

\* The head leaves; another record with its key may stay.
LEMMA HeadLeaves ==
    ASSUME DrainInv, queue # <<>>, NEW r, r.id = queue[1].id, queue' = Dequeued(r)
    PROVE  LET k == KeyOf(queue[1])
           IN  /\ k \in Pending16 /\ k \in Key
               /\ Pending16' \in {Pending16, Pending16 \ {k}}
               /\ (\E i \in 2..Len(queue) : KeyOf(queue[i]) = k) => Pending16' = Pending16
<1> DEFINE k == KeyOf(queue[1])
           n == Len(queue)
<1>1. /\ queue' \in Seq(RecordType) /\ Len(queue') = n - 1
      /\ \A i \in 1..(n - 1) : queue'[i] = queue[i + 1]
  BY DequeueOps DEF DrainInv
<1>2. n \in Nat /\ n > 0
  BY QueuedFacts DEF DrainInv
<1>3. Pending16 = {KeyOf(queue[i]) : i \in 1..n} /\ Pending16 \subseteq Key
  BY PendingFacts DEF DrainInv
<1>4. Pending16' = {KeyOf(queue[i]) : i \in 2..n}
  <2>1. \A i \in 1..(n - 1) : i + 1 \in 2..n
    BY <1>2
  <2>2. \A i \in 2..n : i - 1 \in 1..(n - 1) /\ (i - 1) + 1 = i
    BY <1>2
  <2>3. /\ \A i \in 1..(n - 1) : queue'[i] \in Queued'
        /\ \A m \in Queued' : \E i \in 1..(n - 1) : m = queue'[i]
    BY <1>1, LenProperties DEF Queued
  <2>4. Pending16' = {KeyOf(queue'[i]) : i \in 1..(n - 1)}
    BY <2>3 DEF Pending16
  <2>5. ASSUME NEW x \in Pending16' PROVE x \in {KeyOf(queue[i]) : i \in 2..n}
    <3>1. PICK i \in 1..(n - 1) : x = KeyOf(queue'[i])
      BY <2>4
    <3>2. i + 1 \in 2..n /\ x = KeyOf(queue[i + 1])
      BY <1>1, <2>1, <3>1
    <3>3. QED
      BY <3>2
  <2>6. ASSUME NEW i \in 2..n PROVE KeyOf(queue[i]) \in Pending16'
    <3>1. i - 1 \in 1..(n - 1) /\ queue'[i - 1] = queue[i]
      BY <1>1, <2>2
    <3>2. QED
      BY <2>4, <3>1
  <2>7. QED
    BY <2>5, <2>6
<1>5. 1..n = {1} \cup 2..n
  BY <1>2
<1>6. k \in Pending16 /\ k \in Key /\ Pending16 = Pending16' \cup {k}
  BY <1>3, <1>4, <1>5
<1>7. (\E i \in 2..n : KeyOf(queue[i]) = k) => k \in Pending16'
  BY <1>4
<1>8. QED
  BY <1>6, <1>7

\* The callbacks, the link and a restart lose nothing.
LEMMA OthersLoseNothing ==
    ASSUME DrainInv,
           \/ \E c \in Conn : (\E tx \in Provisional : StartSession(c, tx)) \/ StopSession(c) \/ MeterSample(c)
           \/ \E r \in calls : EnqueueTransaction(r)
           \/ Connect \/ Disconnect \/ SaveSnapshot \/ Restart
           \/ \E accepted \in BOOLEAN : BootNotification(accepted)
           \/ UNCHANGED vars
    PROVE  OutboxStep
<1>1. CASE UNCHANGED <<queue, history>>
  <2>1. Keep
    BY <1>1 DEF history, Keep, Pending16, Delivered16, Buried16, Queued
  <2>2. QED
    BY <2>1 DEF OutboxStep
<1>2. ASSUME NEW r \in calls, EnqueueTransaction(r) PROVE OutboxStep
  <2>1. CASE UNCHANGED <<queue, put>>
    <3>1. UNCHANGED <<queue, history>>
      BY <1>2, <2>1 DEF EnqueueTransaction, history
    <3>2. QED
      BY <1>1, <3>1
  <2>2. CASE queue' = Enqueued(queue, r)
    <3>1. r \in RecordType
      BY DEF DrainInv, Typed
    <3>2. UNCHANGED <<got, buried>>
      BY <1>2 DEF EnqueueTransaction
    <3>3. QED
      BY <2>2, <3>1, <3>2, JoinQueue
  <2>3. QED
    BY <1>2, <2>1, <2>2 DEF EnqueueTransaction
<1>3. CASE Restart
  <2>1. UNCHANGED <<got, buried>>
    BY <1>3 DEF Restart
  <2>2. queue' = [i \in 1..Len(queue) |-> [queue[i] EXCEPT !.raw = TRUE]] /\ Len(queue) \in Nat
        /\ \A i \in 1..Len(queue) : queue[i] \in RecordType
    BY <1>3, QueuedFacts DEF Restart, DrainInv
  <2>3. \A i \in 1..Len(queue) : /\ [queue[i] EXCEPT !.raw = TRUE] \in RecordType
                                 /\ KeyOf([queue[i] EXCEPT !.raw = TRUE]) = KeyOf(queue[i])
    BY <2>2 DEF RecordType, KeyOf
  <2>4. queue' \in [1..Len(queue) -> RecordType]
    BY <2>2, <2>3
  <2>5. queue' \in Seq(RecordType) /\ Len(queue') = Len(queue)
    BY <2>2, <2>4
  <2>6. Pending16' = Pending16
    BY <2>2, <2>3, <2>5, KeepQueue DEF DrainInv
  <2>7. QED
    BY <2>1, <2>6 DEF OutboxStep, Keep, Delivered16, Buried16
<1>4. QED
  BY <1>1, <1>2, <1>3 DEF StartSession, StopSession, MeterSample, Connect, Disconnect,
     SaveSnapshot, BootNotification, vars

\* The head is dead-lettered.
LEMMA BuryLoses ==
    ASSUME DrainInv, queue # <<>>, NEW r, r.id = queue[1].id, KeyOf(r) = KeyOf(queue[1]), NEW reason,
           Bury(r, reason), UNCHANGED got
    PROVE  OutboxStep
<1> DEFINE b == [id |-> r.id, kind |-> r.kind, s |-> r.s, reason |-> reason]
           k == KeyOf(queue[1])
<1>1. buried' = buried \cup {b} /\ queue' = Dequeued(r)
  BY DEF Bury
<1>2. KeyOf(b) = k
  BY DEF KeyOf
<1>3. k \in Pending16 /\ k \in Key /\ Pending16' \in {Pending16, Pending16 \ {k}}
  BY <1>1, HeadLeaves
<1> HIDE DEF b, k
<1>4. Buried16' = Buried16 \cup {k} /\ Delivered16' = Delivered16
  BY <1>1, <1>2 DEF Buried16, Delivered16
<1>5. QED
  BY <1>3, <1>4 DEF OutboxStep, Buries

\* The CSMS receives the head.
LEMMA ReceivedDelivers ==
    ASSUME DrainInv, NEW d \in Drainers, NEW outcome, Received(d, outcome)
    PROVE  OutboxStep
<1> DEFINE r == work[d].msg
           g == [id |-> r.id, kind |-> r.kind, s |-> r.s, tx |-> r.tx]
<1>1. UNCHANGED <<queue, buried>> /\ got' = got \cup {g}
  BY DEF Received
<1>2. queue[1] = r /\ 1 \in 1..Len(queue)
  BY Held16 DEF Received, Sends, Holds
<1>3. KeyOf(g) = KeyOf(r)
  BY DEF KeyOf
<1>4. KeyOf(r) \in Pending16 /\ KeyOf(r) \in Key
  BY <1>2, PendingFacts DEF DrainInv
<1> HIDE DEF g
<1>5. Delivered16' = Delivered16 \cup {KeyOf(r)} /\ Buried16' = Buried16 /\ Pending16' = Pending16
  BY <1>1, <1>3 DEF Delivered16, Buried16, Pending16, Queued
<1>6. QED
  BY <1>4, <1>5 DEF OutboxStep, Delivers

\* What is retired was delivered, or has a copy in the queue.
LEMMA SucceedRetires ==
    ASSUME DrainInv, NEW d \in Drainers, Succeed(d)
    PROVE  OutboxStep
<1> DEFINE r == work[d].msg
           k == KeyOf(r)
<1>1. work[d].pc = "reply" /\ work[d].outcome \in {"accepted", "queued"} /\ Holds(d)
  BY DEF Succeed, Holds
<1>2. queue' = Dequeued(r) /\ UNCHANGED <<put, got, buried>>
  BY DEF Succeed, Retired, history
<1>3. queue # <<>> /\ queue[1] = r /\ 1 \in 1..Len(queue)
  BY <1>1, Held16
<1>4. /\ k \in Pending16 /\ k \in Key
      /\ Pending16' \in {Pending16, Pending16 \ {k}}
      /\ (\E i \in 2..Len(queue) : KeyOf(queue[i]) = k) => Pending16' = Pending16
  BY <1>2, <1>3, HeadLeaves
<1>5. Delivered16' = Delivered16 /\ Buried16' = Buried16
  BY <1>2 DEF Delivered16, Buried16
<1>6. Reply(d)
  BY <1>1 DEF DrainInv, Passes
<1>7. CASE work[d].outcome = "accepted"
  <2>1. PICK g \in got : g.id = r.id
    BY <1>6, <1>7 DEF Reply, GotIds
  <2>2. put[g.id] = KeyOf(g) /\ put[r.id] = KeyOf(r)
    BY <1>3 DEF DrainInv, Numbered
  <2>3. k \in Delivered16
    BY <2>1, <2>2 DEF Delivered16
  <2>4. QED
    BY <1>4, <1>5, <2>3 DEF OutboxStep, RetireOrKeep
<1>8. CASE work[d].outcome = "queued"
  <2>1. Pending16' = Pending16
    BY <1>4, <1>6, <1>8 DEF Reply
  <2>2. QED
    BY <1>5, <2>1 DEF OutboxStep, Keep
<1>9. QED
  BY <1>1, <1>7, <1>8

\* A failure is counted, or the head is dead-lettered.
LEMMA FailKeeps ==
    ASSUME DrainInv, NEW d \in Drainers, NEW attempts \in Attempts, Fail(d, attempts)
    PROVE  OutboxStep
<1> DEFINE m == work[d].msg
           r == [m EXCEPT !.retries = Attempted(m, attempts)]
<1>1. /\ UNCHANGED <<got>>
      /\ IF r.retries >= attempts THEN Bury(r, "exhausted") ELSE queue' = Updated(r) /\ UNCHANGED buried
  BY DEF Fail
<1>2. queue # <<>> /\ m = queue[1] /\ m \in RecordType
  BY Held16 DEF Fail, Holds
<1>3. r \in RecordType /\ r.id = m.id /\ KeyOf(r) = KeyOf(m)
  <2>1. m.retries \in Nat
    BY <1>2 DEF RecordType
  <2>2. Attempted(m, attempts) \in Nat
    BY <2>1 DEF Attempted
  <2>3. \A n \in Nat : [m EXCEPT !.retries = n] \in RecordType
    BY <1>2 DEF RecordType
  <2>4. r.id = m.id /\ r.kind = m.kind /\ r.s = m.s
    BY <1>2 DEF RecordType
  <2>5. QED
    BY <2>2, <2>3, <2>4 DEF KeyOf
<1> HIDE DEF r
<1>4. CASE Bury(r, "exhausted")
  BY <1>1, <1>2, <1>3, <1>4, BuryLoses
<1>5. CASE queue' = Updated(r) /\ UNCHANGED buried
  <2>1. /\ queue' \in Seq(RecordType) /\ Len(queue') = Len(queue)
        /\ queue'[1] = r /\ \A i \in 2..Len(queue) : queue'[i] = queue[i]
    BY <1>2, <1>3, <1>5, UpdateOps DEF DrainInv
  <2>2. \A i \in 1..Len(queue) : i = 1 \/ i \in 2..Len(queue)
    OBVIOUS
  <2>3. Pending16' = Pending16
    BY <1>2, <1>3, <2>1, <2>2, KeepQueue DEF DrainInv
  <2>4. QED
    BY <1>1, <1>5, <2>3 DEF OutboxStep, Keep, Delivered16, Buried16
<1>6. QED
  BY <1>1, <1>4, <1>5

LEMMA DrainersLoseNothing ==
    ASSUME DrainInv, NEW d \in Drainers,
           \/ Begin(d) \/ Finish(d) \/ Send(d)
           \/ Deauthorize(d) \/ Succeed(d) \/ Reject(d)
           \/ \E attempts \in Attempts : Pick(d, attempts) \/ Fail(d, attempts)
    PROVE  OutboxStep
<1>1. CASE UNCHANGED <<queue, got, buried>>
  <2>1. Keep
    BY <1>1 DEF Keep, Pending16, Delivered16, Buried16, Queued
  <2>2. QED
    BY <2>1 DEF OutboxStep
<1>2. CASE Begin(d) \/ Finish(d) \/ Refused(d) \/ \E outcome \in {"error", "fatal"} : NotReceived(d, outcome)
  BY <1>1, <1>2 DEF Begin, Finish, Refused, NotReceived, history
<1>3. CASE QueuedAgain(d)
  <2>1. queue' = Enqueued(queue, work[d].msg) /\ UNCHANGED <<got, buried>>
    BY <1>3 DEF QueuedAgain
  <2>2. work[d].msg \in RecordType
    BY <1>3, Held16 DEF QueuedAgain, Holds
  <2>3. QED
    BY <2>1, <2>2, JoinQueue
<1>4. ASSUME NEW outcome, Received(d, outcome) PROVE OutboxStep
  BY <1>4, ReceivedDelivers
<1>5. CASE Deauthorize(d)
  <2> DEFINE c == work[d].msg.conn
             stop == Record("Stop", session[c].s, c, session[c].tx)
  <2>1. UNCHANGED <<got, buried>>
    BY <1>5 DEF Deauthorize
  <2>2. CASE session[c] = NoSession
    BY <1>1, <1>5, <2>1, <2>2 DEF Deauthorize
  <2>3. CASE session[c] # NoSession
    <3>1. queue' = Enqueued(queue, stop)
      BY <1>5, <2>3 DEF Deauthorize
    <3>2. c \in Conn
      BY <1>5, Held16 DEF Deauthorize, Holds
    <3>3. stop \in RecordType
      BY <2>3, <3>2, SessionTyped, RecordTyped DEF DrainInv, Kind
    <3>4. QED
      BY <2>1, <3>1, <3>3, JoinQueue
  <2>4. QED
    BY <2>2, <2>3
<1>6. CASE Succeed(d)
  BY <1>6, SucceedRetires
<1>7. CASE Reject(d)
  <2>1. queue # <<>> /\ queue[1] = work[d].msg
    BY <1>7, Held16 DEF Reject, Holds
  <2>2. Bury(work[d].msg, "rejected") /\ UNCHANGED got
    BY <1>7 DEF Reject
  <2>3. QED
    BY <2>1, <2>2, BuryLoses
<1>8. ASSUME NEW attempts \in Attempts, Pick(d, attempts) PROVE OutboxStep
  <2>1. queue # <<>> /\ Head(queue) = queue[1] /\ UNCHANGED got
    BY <1>8, QueuedFacts DEF Pick, DrainInv
  <2>2. \/ \E reason \in {"exhausted", "start-unconfirmed", "invalid-payload"} : Bury(Head(queue), reason)
        \/ UNCHANGED <<queue, buried>>
    BY <1>8 DEF Pick
  <2>3. QED
    BY <1>1, <2>1, <2>2, BuryLoses
<1>9. ASSUME NEW attempts \in Attempts, Fail(d, attempts) PROVE OutboxStep
  BY <1>9, FailKeeps
<1>10. QED
  BY <1>2, <1>3, <1>4, <1>5, <1>6, <1>7, <1>8, <1>9 DEF Send

\* The queue, the CSMS and dead-letter storage together lose nothing: over retries,
\* rejections, copies, lost replies and crashes, drainQueue implements the outbox
\* (deadLetter: "never silently dropped").
THEOREM DrainImplementsOutbox == Spec => NothingLost
<1>1. Init => Promise!Init
  <2> SUFFICES ASSUME Init PROVE Promise!Init
    OBVIOUS
  <2>1. queue = <<>> /\ got = {} /\ buried = {}
    BY DEF Init
  <2>2. Queued = {}
    BY <2>1 DEF Queued
  <2>3. QED
    BY <2>1, <2>2 DEF Promise!Init
<1>2. DrainInv /\ [Next]_vars => [Promise!Next]_Promise!outboxVars
  <2> SUFFICES ASSUME DrainInv, [Next]_vars PROVE OutboxStep
    BY StepsOfOutbox
  <2>1. QED
    BY OthersLoseNothing, DrainersLoseNothing DEF Next
<1>3. QED
  BY <1>1, <1>2, DrainAlways, PTL DEF Spec, NothingLost, Promise!Spec
=============================================================================
