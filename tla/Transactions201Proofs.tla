------------------------ MODULE Transactions201Proofs ------------------------
(***************************************************************************)
(* Proofs about Transactions201, for any number of EVSEs, sessions,        *)
(* callbacks, lost links, crashes and Resets.                              *)
(***************************************************************************)
EXTENDS Transactions201, FiniteSetTheorems, SequenceTheorems, TLAPS

InHand(k) == k.pc \in {"last", "numbered", "stamped"}
Content(r) == [s |-> r.s, kind |-> r.kind, seq |-> r.seq]
Pair(r) == <<r.s, r.seq>>

SessionType == {NoSession} \cup [s : Session, tx : Int, own : BOOLEAN]
CallType == [kind : Kind, s : Session, conn : Conn, tx : Int, sync : BOOLEAN,
             pc : {"new", "last", "numbered", "stamped", "queued", "ended"},
             txn : Session \cup {0}, seq : Nat, offline : BOOLEAN, born : Nat, id : Nat]
RecordType == [s : Session, kind : Kind, seq : Nat, offline : BOOLEAN, born : Nat,
               id : Nat, retries : Nat, raw : BOOLEAN]
PutType == [s : Session, kind : Kind, seq : Nat]
BookType == [builders : [Conn -> Session \cup {0}], seqNo : [Session -> Nat],
             ints : [Session -> Conn \cup {0}], nextTx : Nat]

\* Values.
SessionsTyped ==
    /\ session \in [Conn -> SessionType] /\ saved \in [Conn -> SessionType]
    /\ started \in 0..MaxSessions /\ updates \in 0..MaxUpdates
    /\ \A c \in Conn : session[c].s <= started /\ saved[c].s <= started
    /\ pendingReset \in BOOLEAN
    /\ resetter \in [pc : {"idle", "scheduling", "stopping"}, left : SUBSET Conn]
CallsTyped ==
    /\ calls \subseteq CallType /\ IsFiniteSet(calls)
    /\ \A k \in calls : /\ k.s <= started
                        /\ InHand(k) => k.txn # 0
                        /\ k.pc = "queued" => k.kind = "Started"
                        /\ k.kind = "Started" => k.pc # "ended"
                        /\ k.pc = "last" => k.kind = "Ended"
BooksTyped ==
    /\ builders \in [Conn -> Session \cup {0}] /\ seqNo \in [Session -> Nat]
    /\ ints \in [Session -> Conn \cup {0}] /\ nextTx \in Nat
    /\ disk \in BookType
    /\ nextTx <= started /\ disk.nextTx <= started
    /\ \A i \in Session : i > nextTx => ints[i] = 0
    /\ \A i \in Session : i > disk.nextTx => disk.ints[i] = 0
QueueTyped ==
    /\ queue \in Seq(RecordType) /\ marking \in Seq(RecordType) /\ put \in Seq(PutType)
    /\ drain \in [pc : {"idle", "send", "reply"}, msg : RecordType \cup {NoRecord},
                  outcome : {"none", "accepted", "error", "fatal"}]
    /\ drain.pc # "idle" => drain.msg \in RecordType
    /\ failed \subseteq Session
LinkTyped ==
    /\ connected \in BOOLEAN /\ registered \in BOOLEAN
    /\ drops \in Nat /\ restarts \in Nat

Typed == SessionsTyped /\ CallsTyped /\ BooksTyped /\ QueueTyped /\ LinkTyped

\* Every record carries the id and the content it was accepted with, the queue is
\* in the order of ids, and only its head has left or was received.
Numbered ==
    /\ \A i \in 1..Len(queue) : queue[i].id \in 1..Len(put) /\ put[queue[i].id] = Content(queue[i])
    /\ \A i \in 1..Len(marking) :
          marking[i].id \in 1..Len(put) /\ put[marking[i].id] = Content(marking[i])
    /\ \A i, j \in 1..Len(queue) : i < j => queue[i].id < queue[j].id
    /\ \A g \in got : /\ g.id \in 1..Len(put) /\ put[g.id] = Content(g)
                      /\ \A i \in 1..Len(queue) : g.id <= queue[i].id
    /\ \A b \in buried : /\ b.id \in 1..Len(put) /\ put[b.id].s = b.s /\ put[b.id].kind = b.kind
                         /\ \A i \in 1..Len(queue) : b.id < queue[i].id
    /\ drain.pc # "idle" =>
          /\ queue # <<>> /\ queue[1].id = drain.msg.id /\ Content(queue[1]) = Content(drain.msg)
          /\ drain.outcome = "accepted" => drain.msg.id \in GotIds

\* Transactions in the books, the file, somebody's hands or the queue.
Heard == {builders[c] : c \in Conn} \cup {disk.builders[c] : c \in Conn}
            \cup {k.txn : k \in calls} \cup {put[j].s : j \in 1..Len(put)}
Fresh(s) == s \notin Heard /\ seqNo[s] = 0 /\ disk.seqNo[s] = 0

\* A transaction is started once.
Starts ==
    /\ \A s \in Session : s > started => Fresh(s)
    /\ \A k \in calls : k.kind = "Started" =>
          /\ \A l \in calls : l.kind = "Started" /\ l.s = k.s => l = k
          /\ k.pc = "new" => Fresh(k.s)
          /\ InHand(k) => /\ k.txn = k.s /\ k.seq = 0
                          /\ \A j \in 1..Len(put) : put[j].s = k.s => put[j].kind # "Started"
    /\ \A i, j \in 1..Len(put) :
          put[i].kind = "Started" /\ put[j].kind = "Started" /\ put[i].s = put[j].s => i = j

\* A transaction is on one EVSE, and ended once: its Ended event takes it from
\* the books, and no file read back can hold it any more.
Ends ==
    /\ \A c, d \in Conn : builders[c] = builders[d] /\ builders[c] # 0 => c = d
    /\ \A c, d \in Conn : disk.builders[c] = disk.builders[d] /\ disk.builders[c] # 0 => c = d
    /\ \A k \in calls : k.kind = "Ended" /\ InHand(k) =>
          /\ \A c \in Conn : builders[c] # k.txn
          /\ k.pc = "stamped" => \A c \in Conn : disk.builders[c] # k.txn
          /\ \A j \in 1..Len(put) : put[j].s = k.txn => put[j].kind # "Ended"
          /\ \A l \in calls : l.kind = "Ended" /\ InHand(l) /\ l.txn = k.txn => l = k
    /\ \A j \in 1..Len(put) : put[j].kind = "Ended" =>
          \A c \in Conn : builders[c] # put[j].s /\ disk.builders[c] # put[j].s
    /\ \A i, j \in 1..Len(put) :
          put[i].kind = "Ended" /\ put[j].kind = "Ended" /\ put[i].s = put[j].s => i = j

\* Sequence numbers of a transaction that no two callbacks worked on at once.
Sequenced ==
    /\ \A k, l \in calls : InHand(k) /\ InHand(l) /\ k.txn = l.txn /\ k.txn \notin raced => k = l
    /\ \A j \in 1..Len(put) : put[j].s \notin raced =>
          put[j].seq < seqNo[put[j].s] /\ put[j].seq < disk.seqNo[put[j].s]
    /\ \A k \in calls : k.txn \notin raced =>
          /\ k.pc \in {"last", "numbered"} => k.seq = seqNo[k.txn]
          /\ k.pc = "stamped" =>
                /\ k.seq < seqNo[k.txn] /\ k.seq < disk.seqNo[k.txn]
                /\ \A j \in 1..Len(put) : put[j].s = k.txn => put[j].seq < k.seq
          /\ InHand(k) => \A j \in 1..Len(put) : put[j].s = k.txn => put[j].kind # "Ended"
    /\ EventsInOrder

\* The memory of rejected starts.
Cascades ==
    /\ drain.pc = "send" => ~Orphaned(drain.msg)
    /\ restarts = 0 => \A b \in buried : b.kind = "Started" /\ b.reason = "rejected" =>
          b.s \in failed \/ \E e \in buried : e.s = b.s /\ e.kind = "Ended"
    /\ RejectedStartCascades

\* An event outlives its connection only if it says so, is excused, or will be marked.
ToBeMarked(r) == \E j \in 1..Len(marking) : marking[j].id = r.id /\ ~marking[j].offline
Late ==
    /\ connected => marking = <<>>
    /\ \A k \in calls : k.pc = "stamped" =>
          k.born <= drops /\ (k.born < drops => k.offline \/ <<k.txn, k.seq>> \in excused)
    /\ \A i \in 1..Len(queue) :
          /\ queue[i].born <= drops
          /\ queue[i].born < drops =>
                queue[i].offline \/ Pair(queue[i]) \in excused \/ ToBeMarked(queue[i])
          /\ \A j \in 1..Len(marking) : marking[j].id = queue[i].id => marking[j].born = queue[i].born
    /\ drain.pc # "idle" =>
          /\ drain.msg.born = queue[1].born
          /\ drain.msg.raw /\ drain.msg.born < drops =>
                drain.msg.offline \/ Pair(drain.msg) \in excused
    /\ OfflineTold

\* What becomes of a session's transaction, unless it is cut off.
Ending(s) ==
    \/ \E k \in calls : k.kind = "Ended" /\ InHand(k) /\ k.txn = s
    \/ \E j \in 1..Len(put) : put[j].s = s /\ put[j].kind = "Ended"
Held(s, c, tx) == builders[c] = s /\ tx \in Session /\ ints[tx] = c
Closes(s) ==
    /\ \/ \E c \in Conn : session[c].s = s
       \/ \E k \in calls : k.kind = "Ended" /\ k.pc = "new" /\ k.s = s
    /\ \A c \in Conn : session[c].s = s /\ session[c].own => Held(s, c, session[c].tx)
    /\ \A k \in calls : k.s = s /\ k.kind = "Started" /\ k.pc # "new" => Held(s, k.conn, k.tx)
    /\ \A k \in calls : k.s = s /\ k.kind = "Ended" /\ k.pc = "new" => Held(s, k.conn, k.tx)
Closing == \A s \in (1..started) \ cut : Ending(s) \/ Closes(s)

\* Bounds: a number left for each start callback, a record for each update.
StartsToCome == {k \in calls : k.kind = "Started" /\ k.pc = "new"}
UpdatesToCome == {k \in calls : k.kind = "Updated"}
PutOf(kind) == {j \in 1..Len(put) : put[j].kind = kind}
Counts ==
    /\ nextTx + Cardinality(StartsToCome) <= started
    /\ Cardinality(PutOf("Updated")) + Cardinality(UpdatesToCome) <= updates

TxInv ==
    /\ Typed /\ Counts
    /\ Numbered /\ Starts /\ Ends /\ Sequenced
    /\ Cascades /\ Late /\ Closing

-----------------------------------------------------------------------------
(* What a step keeps that does not touch it.                               *)

LEMMA KeepTyped ==
    /\ SessionsTyped /\ UNCHANGED <<session, saved, started, updates, pendingReset, resetter>>
          => SessionsTyped'
    /\ CallsTyped /\ UNCHANGED <<calls, started>> => CallsTyped'
    /\ BooksTyped /\ UNCHANGED <<books, disk, started>> => BooksTyped'
    /\ QueueTyped /\ UNCHANGED <<queue, marking, put, drain, failed>> => QueueTyped'
    /\ LinkTyped /\ UNCHANGED <<connected, registered, drops, restarts>> => LinkTyped'
BY DEF SessionsTyped, CallsTyped, BooksTyped, QueueTyped, LinkTyped, books, InHand

LEMMA KeepNumbered ==
    Numbered /\ UNCHANGED <<queue, marking, put, got, buried, drain>> => Numbered'
BY DEF Numbered, GotIds

LEMMA KeepCounts ==
    Counts /\ UNCHANGED <<nextTx, calls, started, put, updates>> => Counts'
BY DEF Counts, StartsToCome, UpdatesToCome, PutOf

LEMMA KeepCascades ==
    Cascades /\ UNCHANGED <<drain, failed, restarts, buried, got>> => Cascades'
BY DEF Cascades, Orphaned, RejectedStartCascades

\* No transaction is heard of, or started, that was not before.
LEMMA KeepStarts ==
    ASSUME Starts, started \in Nat, started' \in Nat, started <= started',
           Heard' \subseteq Heard \cup {0}, UNCHANGED put,
           \A s \in Session : seqNo'[s] \in {seqNo[s], disk.seqNo[s]}
                           /\ disk'.seqNo[s] \in {seqNo[s], disk.seqNo[s]},
           \A k \in calls' : k.kind = "Started" => k \in calls /\ k.s \in Session
    PROVE  Starts'
<1>1. \A s \in Session : Fresh(s) => Fresh(s)'
  BY DEF Fresh, Session
<1>2. \A s \in Session : s > started' => Fresh(s)'
  BY <1>1 DEF Starts, Session
<1>3. QED
  BY <1>1, <1>2 DEF Starts, InHand

\* Transactions leave the books, nobody takes one in hand to end it.
LEMMA KeepEnds ==
    ASSUME Ends, UNCHANGED put, \A k \in calls' : k.kind = "Ended" /\ InHand(k) => k \in calls,
           \A c \in Conn : builders'[c] \in {builders[c], 0},
           disk'.builders \in {disk.builders, builders}, 
           \A j \in 1..Len(put) : put[j].s # 0,
           \A k \in calls : InHand(k) => k.txn # 0
    PROVE  Ends'
BY DEF Ends, InHand

LEMMA KeepSequenced ==
    ASSUME Sequenced, \A k \in calls' : InHand(k) => k \in calls, UNCHANGED <<put, seqNo>>,
           raced \subseteq raced', disk'.seqNo \in {disk.seqNo, seqNo}
    PROVE  Sequenced'
<1>1. EventsInOrder'
  BY DEF Sequenced, EventsInOrder
<1>2. QED
  BY <1>1 DEF Sequenced, InHand

LEMMA KeepLate ==
    ASSUME Late, \A k \in calls' : k.pc = "stamped" => k \in calls, excused \subseteq excused',
           UNCHANGED <<queue, marking, drain, drops, connected, got>>
    PROVE  Late'
<1>1. OfflineTold'
  BY DEF Late, OfflineTold
<1>2. \A r : ToBeMarked(r)' = ToBeMarked(r)
  BY DEF ToBeMarked
<1>3. QED
  BY <1>1, <1>2 DEF Late, Pair

-----------------------------------------------------------------------------
(* Types, sets of calls, what is heard of.                                 *)

LEMMA BooksAt ==
    ASSUME BooksTyped
    PROVE  /\ \A c \in Conn : /\ builders[c] \in Session \cup {0}
                              /\ disk.builders[c] \in Session \cup {0}
           /\ \A s \in Session : /\ seqNo[s] \in Nat /\ ints[s] \in Conn \cup {0}
                                 /\ disk.seqNo[s] \in Nat /\ disk.ints[s] \in Conn \cup {0}
           /\ disk.nextTx \in Nat
BY DEF BooksTyped, BookType

LEMMA SessionAt ==
    ASSUME SessionsTyped, NEW c \in Conn
    PROVE  /\ session[c] # NoSession =>
                 session[c].s \in 1..started /\ session[c].tx \in Int /\ session[c].own \in BOOLEAN
           /\ session[c] = NoSession => session[c].s = 0
           /\ started \in Nat /\ updates \in Nat /\ started <= MaxSessions
BY Transactions201Assumption DEF SessionsTyped, SessionType, NoSession, Session

LEMMA CallAt ==
    ASSUME CallsTyped, NEW k \in calls
    PROVE  /\ k.kind \in Kind /\ k.s \in Session /\ k.conn \in Conn /\ k.tx \in Int
           /\ k.pc \in {"new", "last", "numbered", "stamped", "queued", "ended"}
           /\ k.txn \in Session \cup {0} /\ k.seq \in Nat /\ k.born \in Nat /\ k.s <= started
           /\ InHand(k) => k.txn \in Session
BY DEF CallsTyped, CallType

LEMMA PutAt ==
    ASSUME QueueTyped
    PROVE  /\ Len(put) \in Nat /\ DOMAIN put = 1..Len(put)
           /\ \A j \in 1..Len(put) : /\ put[j].s \in Session /\ put[j].s # 0
                                     /\ put[j].kind \in Kind /\ put[j].seq \in Nat
<1>1. put \in Seq(PutType)
  BY DEF QueueTyped
<1>2. Len(put) \in Nat /\ DOMAIN put = 1..Len(put) /\ \A j \in 1..Len(put) : put[j] \in PutType
  BY <1>1, LenProperties, ElementOfSeq
<1>3. QED
  BY <1>2 DEF PutType, Session

IsNew(k, kind, s, c, tx) ==
    /\ k \in CallType /\ k.kind = kind /\ k.s = s /\ k.conn = c /\ k.tx = tx
    /\ k.pc = "new" /\ k.txn = 0 /\ ~InHand(k)

LEMMA CallTyped ==
    ASSUME NEW kind \in Kind, NEW s \in Session, NEW c \in Conn, NEW tx \in Int,
           started \in Nat, updates \in Nat
    PROVE  IsNew(Call(kind, s, c, tx, FALSE), kind, s, c, tx) /\ IsNew(Call(kind, s, c, tx, TRUE), kind, s, c, tx)
BY DEF Call, CallType, InHand, IsNew

LEMMA Fewer ==
    ASSUME NEW S, IsFiniteSet(S), NEW T
    PROVE  /\ Cardinality(S) \in Nat
           /\ T \subseteq S => IsFiniteSet(T) /\ Cardinality(T) \in Nat /\ Cardinality(T) <= Cardinality(S)
           /\ \A k \in S : T \subseteq S \ {k} =>
                 IsFiniteSet(T) /\ Cardinality(T) \in Nat /\ Cardinality(T) <= Cardinality(S) - 1
           /\ \A l : T \subseteq S \cup {l} =>
                 IsFiniteSet(T) /\ Cardinality(T) \in Nat /\ Cardinality(T) <= Cardinality(S) + 1
           /\ \A k \in S : \A l : T \subseteq (S \ {k}) \cup {l} =>
                 IsFiniteSet(T) /\ Cardinality(T) \in Nat /\ Cardinality(T) <= Cardinality(S)
<1>1. Cardinality(S) \in Nat
  BY FS_CardinalityType
<1>2. ASSUME NEW U, IsFiniteSet(U), T \subseteq U
      PROVE  IsFiniteSet(T) /\ Cardinality(T) \in Nat /\ Cardinality(T) <= Cardinality(U)
  BY <1>2, FS_Subset, FS_CardinalityType
<1>3. ASSUME NEW k \in S PROVE IsFiniteSet(S \ {k}) /\ Cardinality(S \ {k}) = Cardinality(S) - 1
  BY FS_RemoveElement
<1>4. ASSUME NEW U, IsFiniteSet(U), NEW l
      PROVE  IsFiniteSet(U \cup {l}) /\ Cardinality(U \cup {l}) <= Cardinality(U) + 1
  <2>1. Cardinality(U) \in Nat
    BY <1>4, FS_CardinalityType
  <2>2. /\ IsFiniteSet(U \cup {l})
        /\ Cardinality(U \cup {l}) = IF l \in U THEN Cardinality(U) ELSE Cardinality(U) + 1
    BY <1>4, FS_AddElement
  <2>3. QED
    BY <2>1, <2>2
<1>5. ASSUME NEW k \in S, T \subseteq S \ {k}
      PROVE  IsFiniteSet(T) /\ Cardinality(T) \in Nat /\ Cardinality(T) <= Cardinality(S) - 1
  BY <1>2, <1>3, <1>5
<1>6. ASSUME NEW l, T \subseteq S \cup {l}
      PROVE  IsFiniteSet(T) /\ Cardinality(T) \in Nat /\ Cardinality(T) <= Cardinality(S) + 1
  <2>1. IsFiniteSet(S \cup {l}) /\ Cardinality(S \cup {l}) <= Cardinality(S) + 1
    BY <1>4
  <2>2. Cardinality(S \cup {l}) \in Nat
    BY <2>1, FS_CardinalityType
  <2>3. QED
    BY <1>1, <1>2, <1>6, <2>1, <2>2
<1>7. ASSUME NEW k \in S, NEW l, T \subseteq (S \ {k}) \cup {l}
      PROVE  IsFiniteSet(T) /\ Cardinality(T) \in Nat /\ Cardinality(T) <= Cardinality(S)
  <2>1. IsFiniteSet((S \ {k}) \cup {l}) /\ Cardinality((S \ {k}) \cup {l}) <= Cardinality(S \ {k}) + 1
    BY <1>3, <1>4
  <2>2. Cardinality((S \ {k}) \cup {l}) \in Nat /\ Cardinality(S \ {k}) = Cardinality(S) - 1
    BY <1>3, <2>1, FS_CardinalityType
  <2>3. QED
    BY <1>1, <1>2, <1>7, <2>1, <2>2
<1>8. QED
  BY <1>1, <1>2, <1>5, <1>6, <1>7

LEMMA ToComeFinite ==
    ASSUME CallsTyped, QueueTyped
    PROVE  /\ IsFiniteSet(StartsToCome) /\ IsFiniteSet(UpdatesToCome)
           /\ Cardinality(StartsToCome) \in Nat /\ Cardinality(UpdatesToCome) \in Nat
           /\ \A kind : IsFiniteSet(PutOf(kind)) /\ Cardinality(PutOf(kind)) \in Nat
<1>1. IsFiniteSet(calls) /\ StartsToCome \subseteq calls /\ UpdatesToCome \subseteq calls
  BY DEF CallsTyped, StartsToCome, UpdatesToCome
<1>2. Len(put) \in Nat
  BY PutAt
<1>3. IsFiniteSet(1..Len(put)) /\ \A kind : PutOf(kind) \subseteq 1..Len(put)
  BY <1>2, FS_Interval DEF PutOf
<1>4. QED
  BY <1>1, <1>3, Fewer

LEMMA HeardOf ==
    /\ \A c \in Conn : builders[c] \in Heard /\ disk.builders[c] \in Heard
    /\ \A k \in calls : k.txn \in Heard
    /\ \A j \in 1..Len(put) : put[j].s \in Heard
BY DEF Heard

LEMMA HeardLess ==
    ASSUME \A c \in Conn : builders'[c] \in Heard \cup {0} /\ disk'.builders[c] \in Heard \cup {0},
           \A k \in calls' : k.txn \in Heard \cup {0}, put' = put
    PROVE  Heard' \subseteq Heard \cup {0}
BY HeardOf DEF Heard

-----------------------------------------------------------------------------
(* Sessions.                                                               *)

LEMMA InitTx == Init => TxInv
<1> SUFFICES ASSUME Init PROVE TxInv
  OBVIOUS
<1> USE DEF Init
<1>1. Len(put) = 0 /\ Len(queue) = 0 /\ Len(marking) = 0 /\ calls = {}
  BY EmptySeq
<1>2. MaxSessions \in Nat /\ MaxUpdates \in Nat /\ Session \subseteq Nat
  BY Transactions201Assumption DEF Session
<1>3. SessionsTyped
  <2>1. session \in [Conn -> SessionType] /\ saved \in [Conn -> SessionType]
    BY DEF SessionType
  <2>2. \A c \in Conn : session[c].s = 0 /\ saved[c].s = 0
    BY DEF NoSession
  <2>3. resetter \in [pc : {"idle", "scheduling", "stopping"}, left : SUBSET Conn]
    BY DEF NoReset
  <2>4. started = 0 /\ updates = 0 /\ pendingReset \in BOOLEAN
    OBVIOUS
  <2>5. \A c \in Conn : session[c].s <= started /\ saved[c].s <= started
    BY <2>2
  <2>6. QED
    BY <1>2, <2>1, <2>3, <2>4, <2>5 DEF SessionsTyped
<1>4. CallsTyped
  BY FS_EmptySet DEF CallsTyped
<1>5. BooksTyped
  <2>1. disk \in BookType
    BY DEF Books, BookType
  <2>2. QED
    BY <2>1, <1>2 DEF BooksTyped, Books
<1>6. QueueTyped /\ LinkTyped
  <2>1. queue \in Seq(RecordType) /\ marking \in Seq(RecordType) /\ put \in Seq(PutType)
    BY EmptySeq
  <2>2. QED
    BY <2>1 DEF QueueTyped, LinkTyped, Idle
<1>7. Counts
  <2>1. StartsToCome = {} /\ UpdatesToCome = {} /\ PutOf("Updated") = {}
    BY <1>1 DEF StartsToCome, UpdatesToCome, PutOf
  <2>2. \A S : S = {} => Cardinality(S) = 0
    BY FS_EmptySet
  <2>3. Cardinality(StartsToCome) = 0 /\ Cardinality(UpdatesToCome) = 0
        /\ Cardinality(PutOf("Updated")) = 0
    BY <2>1, <2>2
  <2>4. QED
    BY <2>3 DEF Counts
<1>8. Numbered
  BY <1>1 DEF Numbered, Idle
<1>9. Starts
  <2>1. Heard \subseteq {0} /\ \A s \in Session : s # 0
    BY <1>1 DEF Heard, Books, Session
  <2>2. \A s \in Session : Fresh(s)
    BY <2>1 DEF Fresh, Books
  <2>3. QED
    BY <1>1, <2>2 DEF Starts
<1>10. Ends
  BY <1>1 DEF Ends, Books
<1>11. Sequenced
  BY <1>1, EmptySeq DEF Sequenced, EventsInOrder
<1>12. Cascades /\ Late
  BY <1>1 DEF Cascades, RejectedStartCascades, Late, OfflineTold, Idle
<1>13. Closing
  BY DEF Closing
<1>14. QED
  BY <1>3, <1>4, <1>5, <1>6, <1>7, <1>8, <1>9, <1>10, <1>11, <1>12, <1>13 DEF TxInv, Typed

\* A session starts; its callback is to come.
LEMMA StartSessionTx ==
    ASSUME TxInv, NEW c \in Conn, NEW tx \in Provisional, StartSession(c, tx) PROVE TxInv'
<1> USE DEF TxInv, Typed
<1>0. PICK n : n = started'
  OBVIOUS
<1>1. /\ n = started + 1 /\ n \in Session /\ started \in Nat /\ updates \in Nat
      /\ n \in 0..MaxSessions /\ session[c] = NoSession
  <2>1. started \in Nat /\ updates \in Nat /\ MaxSessions \in Nat
    BY SessionAt, Transactions201Assumption
  <2>2. started' = started + 1 /\ started < MaxSessions /\ session[c] = NoSession
    BY DEF StartSession
  <2>3. QED
    BY <1>0, <2>1, <2>2 DEF Session
<1>2. PICK k : /\ k = Call("Started", n, c, 0, FALSE)
               /\ session' = [session EXCEPT ![c] = [s |-> n, tx |-> tx, own |-> FALSE]]
               /\ calls' = calls \cup {k}
  BY <1>0 DEF StartSession
<1>3. /\ UNCHANGED <<saved, updates, books, disk, queue, drain, failed, marking, link,
                     reset, bounds, history>>
  BY DEF StartSession
<1>4. UNCHANGED <<builders, seqNo, ints, nextTx, connected, registered, pendingReset, resetter, drops,
                  restarts, resets, put, got, buried, raced, cut, excused>>
  BY <1>3 DEF books, link, reset, bounds, history
<1>5. /\ k \in CallType /\ k.kind = "Started" /\ k.s = n /\ k.pc = "new" /\ k.txn = 0 /\ ~InHand(k)
  BY <1>1, <1>2 DEF Call, CallType, InHand, Kind, Session
<1>6. \A l \in calls : l.s <= started /\ l.s \in Session
  BY CallAt
<1>a. \A l \in calls' : l \in calls \/ l = k
  BY <1>2
<1>7. SessionsTyped'
  <2>1. tx \in Int
    BY Transactions201Assumption
  <2>2. [s |-> n, tx |-> tx, own |-> FALSE] \in SessionType
    BY <1>0, <1>1, <2>1 DEF SessionType
  <2>3. session' \in [Conn -> SessionType]
    BY <1>2, <2>2 DEF SessionsTyped
  <2>4. \A d \in Conn : session'[d].s <= n /\ saved[d].s <= n
    <3>1. \A d \in Conn : session[d].s \in Nat /\ saved[d].s \in Nat
      BY DEF SessionsTyped, SessionType, NoSession, Session
    <3>2. QED
      BY <1>0, <1>1, <1>2, <3>1 DEF SessionsTyped
  <2>5. QED
    BY <1>0, <1>1, <1>3, <1>4, <2>3, <2>4 DEF SessionsTyped
<1>8. CallsTyped'
  <2>1. IsFiniteSet(calls')
    BY <1>2, FS_AddElement DEF CallsTyped
  <2>2. \A l \in calls' : l.s \in Session /\ l.s <= n
    <3>1. \A l \in calls : l.s \in Session /\ l.s <= n
      BY <1>1, <1>6 DEF Session
    <3>2. k.s \in Session /\ k.s <= n
      BY <1>1, <1>5 DEF Session
    <3>3. QED
      BY <1>a, <3>1, <3>2
  <2>3. QED
    BY <1>0, <1>2, <1>5, <2>1, <2>2 DEF CallsTyped, InHand
<1>9. BooksTyped' /\ QueueTyped' /\ LinkTyped'
  <2>1. BooksTyped'
    BY <1>0, <1>1, <1>3, <1>4 DEF BooksTyped, BookType
  <2>2. QED
    BY <1>3, <1>4, <2>1, KeepTyped
<1>10. Counts'
  <2>1. UpdatesToCome' = UpdatesToCome /\ PutOf("Updated")' = PutOf("Updated")
    BY <1>2, <1>4, <1>5 DEF UpdatesToCome, PutOf
  <2>2. StartsToCome' \subseteq StartsToCome \cup {k}
    BY <1>2 DEF StartsToCome
  <2>3. Cardinality(StartsToCome') <= Cardinality(StartsToCome) + 1 /\ Cardinality(StartsToCome') \in Nat
        /\ Cardinality(StartsToCome) \in Nat
    BY <2>2, ToComeFinite, Fewer
  <2>4. nextTx \in Nat
    BY DEF BooksTyped
  <2>5. QED
    BY <1>0, <1>1, <1>3, <1>4, <2>1, <2>3, <2>4 DEF Counts
<1>11. Numbered' /\ Cascades'
  BY <1>3, <1>4, KeepNumbered, KeepCascades
<1>12. Starts'
  <2>1. Heard' \subseteq Heard \cup {0}
    BY <1>2, <1>3, <1>4, <1>5, HeardOf, HeardLess
  <2>2. \A s \in Session : Fresh(s) => Fresh(s)'
    BY <1>3, <1>4, <2>1 DEF Fresh, Session
  <2>3. Fresh(n)
    BY <1>1 DEF Starts
  <2>4. \A l \in calls : l.s # k.s
    BY <1>0, <1>1, <1>5, <1>6 DEF Session
  <2>5. \A s \in Session : s > n => s > started
    BY <1>1 DEF Session
  <2>6. \A s \in Session : s > n => Fresh(s)'
    BY <1>0, <2>2, <2>5 DEF Starts
  <2>7. Fresh(k.s)'
    BY <1>0, <1>1, <1>5, <2>2, <2>3
  <2>8. \A l \in calls : l.kind = "Started" /\ l.pc = "new" => Fresh(l.s)'
    BY <1>6, <2>2 DEF Starts
  <2>9. \A l \in calls' : l.kind = "Started" =>
          /\ \A m \in calls' : m.kind = "Started" /\ m.s = l.s => m = l
          /\ l.pc = "new" => Fresh(l.s)'
          /\ InHand(l) => /\ l.txn = l.s /\ l.seq = 0
                          /\ \A j \in 1..Len(put) : put[j].s = l.s => put[j].kind # "Started"
    BY <1>a, <1>5, <2>4, <2>7, <2>8 DEF Starts
  <2>10. QED
    BY <1>0, <1>4, <2>6, <2>9 DEF Starts, InHand
<1>13. Ends' /\ Sequenced' /\ Late'
  <2>1. \A l \in calls' : InHand(l) => l \in calls
    BY <1>2, <1>5
  <2>2. \A l \in calls' : l.pc = "stamped" => l \in calls
    BY <1>2, <1>5
  <2>3. Ends'
    BY <1>3, <1>4, <2>1, PutAt, CallAt, KeepEnds DEF Session
  <2>4. QED
    BY <1>3, <1>4, <2>1, <2>2, <2>3, KeepSequenced, KeepLate
<1>14. Closing'
  <2>1. \A s : Ending(s) => Ending(s)'
    BY <1>2, <1>4 DEF Ending
  <2>2. \A s, d, t : Held(s, d, t) => Held(s, d, t)'
    BY <1>4 DEF Held
  <2>3. ASSUME NEW s \in 1..started, Closes(s) PROVE Closes(s)'
    <3>1. s # n /\ s # 0
      BY <1>0, <1>1
    <3>2. /\ session[c].s # s /\ session'[c].s # s
          /\ \A d \in Conn : d # c => session'[d] = session[d]
      BY <1>0, <1>1, <1>2, <3>1 DEF NoSession, SessionsTyped
    <3>3. k.s # s
      BY <1>5, <3>1
    <3>4. QED
      BY <1>2, <2>2, <2>3, <3>2, <3>3 DEF Closes
  <2>0. \A l \in calls : l.s # n
    BY <1>1, <1>6 DEF Session
  <2>4. Closes(n)'
    <3>1. session'[c].s = n /\ ~session'[c].own
      BY <1>2 DEF SessionsTyped
    <3>2. \A d \in Conn : d # c => session'[d].s # n
      <4>1. \A d \in Conn : session[d].s \in Nat /\ session[d].s <= started
        BY DEF SessionsTyped, SessionType, NoSession, Session
      <4>2. QED
        BY <1>0, <1>1, <1>2, <4>1 DEF SessionsTyped
    <3>3. \A l \in calls' : l.s = n => l = k
      BY <1>a, <2>0
    <3>4. \A d \in Conn : session'[d].s = n => ~session'[d].own
      BY <3>1, <3>2
    <3>5. \A l \in calls' : l.s = n => l.kind = "Started" /\ l.pc = "new"
      BY <1>5, <3>3
    <3>6. QED
      BY <3>1, <3>4, <3>5 DEF Closes
  <2>5. \A s \in 1..n : s \in 1..started \/ s = n
    BY <1>0, <1>1
  <2>6. ASSUME NEW s \in (1..n) \ cut' PROVE Ending(s)' \/ Closes(s)'
    BY <1>0, <1>4, <2>1, <2>3, <2>4, <2>5 DEF Closing
  <2>7. QED
    BY <1>0, <2>6 DEF Closing
<1>15. QED
  BY <1>7, <1>8, <1>9, <1>10, <1>11, <1>12, <1>13, <1>14

\* What becomes of a session is up to its callbacks, its transaction's place in
\* the books and the engine's session.
LEMMA KeepClosing ==
    ASSUME Closing, UNCHANGED <<started, session, builders, ints>>, cut \subseteq cut',
           \A s : Ending(s) => Ending(s)',
           \A k \in calls : k.kind = "Ended" /\ k.pc = "new" => k \in calls',
           \A l \in calls' :
              (l.kind = "Started" /\ l.pc # "new") \/ (l.kind = "Ended" /\ l.pc = "new") =>
                 \E k \in calls : /\ k.kind = l.kind /\ k.s = l.s /\ k.conn = l.conn /\ k.tx = l.tx
                                  /\ k.pc = "new" <=> l.pc = "new"
    PROVE  Closing'
<1>1. \A s, c, t : Held(s, c, t)' = Held(s, c, t)
  BY DEF Held
<1>2. ASSUME NEW s, Closes(s) PROVE Closes(s)'
  <2>1. \/ \E c \in Conn : session'[c].s = s
        \/ \E k \in calls' : k.kind = "Ended" /\ k.pc = "new" /\ k.s = s
    BY <1>2 DEF Closes
  <2>2. (\A c \in Conn : session[c].s = s /\ session[c].own => Held(s, c, session[c].tx))'
    BY <1>1, <1>2 DEF Closes
  <2>3. ASSUME NEW l \in calls', l.s = s,
               (l.kind = "Started" /\ l.pc # "new") \/ (l.kind = "Ended" /\ l.pc = "new")
        PROVE  Held(s, l.conn, l.tx)'
    BY <1>1, <1>2, <2>3 DEF Closes
  <2>4. QED
    BY <2>1, <2>2, <2>3 DEF Closes
<1>3. QED
  BY <1>2 DEF Closing

\* EndSession: the stop callback is told the transaction id the session has.
LEMMA EndTx ==
    ASSUME TxInv, NEW c \in Conn, NEW sync \in BOOLEAN, End(c, sync),
           pendingReset' \in BOOLEAN,
           resetter' \in [pc : {"idle", "scheduling", "stopping"}, left : SUBSET Conn]
    PROVE  TxInv'
<1> USE DEF TxInv, Typed
<1>1. /\ session[c] # NoSession /\ session[c].s \in 1..started /\ session[c].tx \in Int
      /\ started \in Nat /\ updates \in Nat /\ session[c].s \in Session
  BY SessionAt, Transactions201Assumption DEF End, Session
<1>2. PICK k : /\ k = Call("Ended", session[c].s, c, session[c].tx, sync)
               /\ session' = [session EXCEPT ![c] = NoSession]
               /\ calls' = calls \cup {k}
               /\ cut' = IF session[c].own THEN cut ELSE cut \cup {session[c].s}
  BY DEF End
<1>3. UNCHANGED <<saved, started, updates, books, disk, queue, drain, failed, marking, link,
                  bounds, put, got, buried, raced, excused>>
  BY DEF End
<1>4. UNCHANGED <<builders, seqNo, ints, nextTx, connected, registered, drops, restarts, resets>>
  BY <1>3 DEF books, link, bounds
<1>5. /\ k \in CallType /\ k.kind = "Ended" /\ k.s = session[c].s /\ k.pc = "new" /\ k.txn = 0
      /\ k.conn = c /\ k.tx = session[c].tx /\ ~InHand(k)
  BY <1>1, <1>2 DEF Call, CallType, InHand, Kind, Session
<1>6. \A l \in calls' : l \in calls \/ l = k
  BY <1>2
<1>7. SessionsTyped'
  <2>1. session' \in [Conn -> SessionType]
    BY <1>2 DEF SessionsTyped, SessionType
  <2>2. \A d \in Conn : session'[d].s <= started
    BY <1>1, <1>2 DEF SessionsTyped, NoSession
  <2>3. QED
    BY <1>3, <2>1, <2>2 DEF SessionsTyped
<1>8. CallsTyped'
  <2>1. IsFiniteSet(calls')
    BY <1>2, FS_AddElement DEF CallsTyped
  <2>2. \A l \in calls' : l.s <= started
    BY <1>1, <1>5, <1>6, CallAt
  <2>3. QED
    BY <1>2, <1>3, <1>5, <2>1, <2>2 DEF CallsTyped, InHand
<1>9. BooksTyped' /\ QueueTyped' /\ LinkTyped'
  BY <1>3, <1>4, KeepTyped
<1>10. Counts'
  <2>1. UpdatesToCome' = UpdatesToCome /\ StartsToCome' = StartsToCome
        /\ PutOf("Updated")' = PutOf("Updated")
    BY <1>2, <1>3, <1>5 DEF UpdatesToCome, StartsToCome, PutOf
  <2>2. QED
    BY <1>3, <1>4, <2>1 DEF Counts
<1>11. Numbered' /\ Cascades'
  BY <1>3, <1>4, KeepNumbered, KeepCascades
<1>12. Starts'
  <2>1. Heard' \subseteq Heard \cup {0}
    BY <1>3, <1>4, <1>5, <1>6, HeardOf, HeardLess
  <2>2. QED
    BY <1>1, <1>3, <1>4, <1>5, <1>6, <2>1, CallAt, KeepStarts
<1>13. Ends' /\ Sequenced' /\ Late'
  <2>1. \A l \in calls' : InHand(l) => l \in calls
    BY <1>5, <1>6
  <2>2. \A l \in calls' : l.pc = "stamped" => l \in calls
    BY <1>5, <1>6
  <2>3. Ends'
    BY <1>3, <1>4, <2>1, PutAt, CallAt, KeepEnds DEF Session
  <2>4. QED
    BY <1>3, <1>4, <2>1, <2>2, <2>3, KeepSequenced, KeepLate
<1>14. Closing'
  <2>1. \A s : Ending(s) => Ending(s)'
    BY <1>2, <1>3 DEF Ending
  <2>2. \A s, d, t : Held(s, d, t) => Held(s, d, t)'
    BY <1>4 DEF Held
  <2>3. /\ session'[c].s = 0
        /\ \A d \in Conn : d # c => session'[d] = session[d]
    BY <1>2 DEF SessionsTyped, NoSession
  <2>4. ASSUME NEW s \in 1..started, Closes(s), s # session[c].s PROVE Closes(s)'
    BY <1>2, <1>5, <1>6, <2>2, <2>3, <2>4 DEF Closes
  <2>5. ASSUME NEW s, s = session[c].s, session[c].own, Closes(s) PROVE Closes(s)'
    <3>1. Held(s, k.conn, k.tx)
      BY <1>5, <2>5 DEF Closes
    <3>2. \A d \in Conn : session'[d].s = s => d # c
      BY <1>1, <2>3, <2>5
    <3>3. QED
      BY <1>2, <1>5, <1>6, <2>2, <2>3, <2>5, <3>1, <3>2 DEF Closes
  <2>6. ASSUME NEW s \in (1..started) \ cut' PROVE Ending(s)' \/ Closes(s)'
    <3>1. s \notin cut
      BY <1>2
    <3>2. CASE s = session[c].s
      BY <1>2, <2>1, <2>5, <2>6, <3>1, <3>2 DEF Closing
    <3>3. CASE s # session[c].s
      BY <2>1, <2>4, <2>6, <3>1, <3>3 DEF Closing
    <3>4. QED
      BY <3>2, <3>3
  <2>7. QED
    BY <1>3, <2>6 DEF Closing
<1>15. QED
  BY <1>7, <1>8, <1>9, <1>10, <1>11, <1>12, <1>13, <1>14

\* The update callback is to come.
LEMMA UpdateTx == ASSUME TxInv, NEW c \in Conn, Update(c) PROVE TxInv'
<1> USE DEF TxInv, Typed
<1>1. /\ session[c].s \in 1..started /\ session[c].tx \in Int
      /\ started \in Nat /\ updates \in Nat /\ session[c].s \in Session
      /\ updates + 1 \in 0..MaxUpdates /\ updates' = updates + 1
  BY SessionAt, Transactions201Assumption DEF Update, Session
<1>2. PICK k : /\ k = Call("Updated", session[c].s, c, session[c].tx, FALSE)
               /\ calls' = calls \cup {k}
  BY DEF Update
<1>3. UNCHANGED <<session, saved, started, books, disk, queue, drain, failed, marking, link,
                  reset, bounds, history>>
  BY DEF Update
<1>4. UNCHANGED <<builders, seqNo, ints, nextTx, connected, registered, pendingReset, resetter,
                  drops, restarts, resets, put, got, buried, raced, cut, excused>>
  BY <1>3 DEF books, link, reset, bounds, history
<1>5. k \in CallType /\ k.kind = "Updated" /\ k.s = session[c].s /\ k.pc = "new" /\ k.txn = 0 /\ ~InHand(k)
  BY <1>1, <1>2 DEF Call, CallType, InHand, Kind, Session
<1>6. \A l \in calls' : l \in calls \/ l = k
  BY <1>2
<1>7. SessionsTyped'
  BY <1>1, <1>3, <1>4 DEF SessionsTyped
<1>8. CallsTyped'
  <2>1. IsFiniteSet(calls')
    BY <1>2, FS_AddElement DEF CallsTyped
  <2>2. \A l \in calls' : l.s <= started
    BY <1>1, <1>5, <1>6, CallAt
  <2>3. QED
    BY <1>2, <1>3, <1>5, <2>1, <2>2 DEF CallsTyped, InHand
<1>9. BooksTyped' /\ QueueTyped' /\ LinkTyped'
  BY <1>3, <1>4, KeepTyped
<1>10. Counts'
  <2>1. StartsToCome' = StartsToCome /\ PutOf("Updated")' = PutOf("Updated")
    BY <1>2, <1>4, <1>5 DEF StartsToCome, PutOf
  <2>2. UpdatesToCome' \subseteq UpdatesToCome \cup {k}
    BY <1>2 DEF UpdatesToCome
  <2>3. /\ Cardinality(UpdatesToCome') <= Cardinality(UpdatesToCome) + 1
        /\ Cardinality(UpdatesToCome') \in Nat /\ Cardinality(UpdatesToCome) \in Nat
        /\ Cardinality(PutOf("Updated")) \in Nat
    BY <2>2, ToComeFinite, Fewer
  <2>4. QED
    BY <1>1, <1>3, <1>4, <2>1, <2>3 DEF Counts
<1>11. Numbered' /\ Cascades'
  BY <1>3, <1>4, KeepNumbered, KeepCascades
<1>12. Starts'
  <2>1. Heard' \subseteq Heard \cup {0}
    BY <1>3, <1>4, <1>5, <1>6, HeardOf, HeardLess
  <2>2. QED
    BY <1>1, <1>3, <1>4, <1>5, <1>6, <2>1, CallAt, KeepStarts
<1>13. Ends' /\ Sequenced' /\ Late'
  <2>1. \A l \in calls' : InHand(l) => l \in calls
    BY <1>5, <1>6
  <2>2. \A l \in calls' : l.pc = "stamped" => l \in calls
    BY <1>5, <1>6
  <2>3. Ends'
    BY <1>3, <1>4, <2>1, PutAt, CallAt, KeepEnds DEF Session
  <2>4. QED
    BY <1>3, <1>4, <2>1, <2>2, <2>3, KeepSequenced, KeepLate
<1>14. Closing'
  <2>1. \A s : Ending(s) => Ending(s)'
    BY <1>2, <1>4 DEF Ending
  <2>2. \A l \in calls' : l \in calls \/ l.kind = "Updated"
    BY <1>5, <1>6
  <2>3. QED
    BY <1>2, <1>3, <1>4, <2>1, <2>2, KeepClosing
<1>15. QED
  BY <1>7, <1>8, <1>9, <1>10, <1>11, <1>12, <1>13, <1>14

-----------------------------------------------------------------------------
(* Reset.                                                                  *)

ForgetsBooks == 
    \/ UNCHANGED <<registered, builders, ints, cut>>
    \/ /\ registered' = FALSE
       /\ builders' = [c \in Conn |-> 0]
       /\ ints' = [i \in Session |-> 0]
       /\ cut' = (cut \cup {builders[c] : c \in Conn}) \ {0}

\* The books are left alone or, when a reset completes, emptied; callbacks that
\* are through return.
LEMMA ForgetTx ==
    ASSUME TxInv, ForgetsBooks,
           calls' \subseteq calls, \A k \in calls : k \notin calls' => k.pc = "ended",
           pendingReset' \in BOOLEAN,
           resetter' \in [pc : {"idle", "scheduling", "stopping"}, left : SUBSET Conn],
           UNCHANGED <<engine, seqNo, nextTx, disk, queue, drain, failed, marking,
                       connected, drops, restarts, put, got, buried, raced, excused>>
    PROVE  TxInv'
<1> USE DEF TxInv, Typed
<1>1. UNCHANGED <<session, saved, started, updates>>
  BY DEF engine
<1>2. /\ registered' \in BOOLEAN
      /\ builders' \in [Conn -> Session \cup {0}] /\ ints' \in [Session -> Conn \cup {0}]
      /\ \A c \in Conn : builders'[c] \in {builders[c], 0}
      /\ \A i \in Session : ints'[i] \in {ints[i], 0}
  <2>1. CASE UNCHANGED <<registered, builders, ints, cut>>
    BY <2>1 DEF BooksTyped, LinkTyped
  <2>2. CASE ~UNCHANGED <<registered, builders, ints, cut>>
    BY <2>2 DEF BooksTyped, LinkTyped, ForgetsBooks
  <2>3. QED
    BY <2>1, <2>2
<1>a. \A s \in (1..started) \ cut' : s \notin cut
  <2>1. \A s \in 1..started : s # 0
    BY SessionAt DEF SessionsTyped
  <2>2. QED
    BY <2>1 DEF ForgetsBooks
<1>3. SessionsTyped' /\ QueueTyped' /\ LinkTyped'
  <2>1. SessionsTyped' /\ LinkTyped'
    BY <1>1, <1>2 DEF SessionsTyped, LinkTyped
  <2>2. QED
    BY <2>1, KeepTyped
<1>4. CallsTyped'
  <2>1. IsFiniteSet(calls')
    BY FS_Subset DEF CallsTyped
  <2>2. QED
    BY <1>1, <2>1 DEF CallsTyped, InHand
<1>5. BooksTyped'
  BY <1>1, <1>2 DEF BooksTyped
<1>6. Counts'
  <2>1. StartsToCome' \subseteq StartsToCome /\ UpdatesToCome' \subseteq UpdatesToCome
        /\ PutOf("Updated")' = PutOf("Updated")
    BY DEF StartsToCome, UpdatesToCome, PutOf
  <2>2. /\ Cardinality(StartsToCome') <= Cardinality(StartsToCome)
        /\ Cardinality(UpdatesToCome') <= Cardinality(UpdatesToCome)
        /\ Cardinality(StartsToCome') \in Nat /\ Cardinality(UpdatesToCome') \in Nat
        /\ Cardinality(StartsToCome) \in Nat /\ Cardinality(UpdatesToCome) \in Nat
        /\ Cardinality(PutOf("Updated")) \in Nat
    BY <2>1, ToComeFinite, Fewer
  <2>3. nextTx \in Nat /\ started \in Nat /\ updates \in Nat
    BY DEF BooksTyped, SessionsTyped
  <2>4. QED
    BY <1>1, <2>1, <2>2, <2>3 DEF Counts
<1>7. Numbered' /\ Cascades'
  BY KeepNumbered, KeepCascades
<1>8. Starts'
  <2>1. Heard' \subseteq Heard \cup {0}
    BY <1>2, HeardOf, HeardLess
  <2>2. started \in Nat
    BY DEF SessionsTyped
  <2>3. QED
    BY <1>1, <2>1, <2>2, CallAt, KeepStarts
<1>9. Ends' /\ Sequenced' /\ Late'
  <2>1. Ends'
    BY <1>2, PutAt, CallAt, KeepEnds DEF Session
  <2>2. QED
    BY <2>1, KeepSequenced, KeepLate
<1>10. Closing'
  <2>1. \A s : Ending(s) => Ending(s)'
    BY DEF Ending, InHand
  <2>2. \A k \in calls : k.kind = "Ended" /\ k.pc = "new" => k \in calls'
    OBVIOUS
  <2>3. CASE UNCHANGED <<registered, builders, ints, cut>>
    BY <1>1, <2>1, <2>2, <2>3, KeepClosing
  <2>4. CASE ~UNCHANGED <<registered, builders, ints, cut>>
    <3>1. ASSUME NEW s \in (1..started) \ cut', Closes(s) PROVE Closes(s)'
      <4>1. \A c, t : c \in Conn => ~Held(s, c, t)
        BY <2>4 DEF ForgetsBooks, Held
      <4>2. \A k \in calls : k.conn \in Conn
        BY CallAt
      <4>3. QED
        BY <1>1, <3>1, <4>1, <4>2 DEF Closes
    <3>2. QED
      BY <1>1, <1>a, <2>1, <3>1 DEF Closing
  <2>5. QED
    BY <2>3, <2>4
<1>11. QED
  BY <1>3, <1>4, <1>5, <1>6, <1>7, <1>8, <1>9, <1>10

-----------------------------------------------------------------------------
(* The steps of a call.                                                    *)

\* A call k goes on as l, or returns: types and counts.
LEMMA CallGoesOn ==
    ASSUME CallsTyped, QueueTyped, UNCHANGED started, NEW k \in calls, NEW l,
           l \in CallType, l.kind = k.kind, l.s = k.s, l.pc # "new", InHand(l) => l.txn # 0,
           l.pc = "queued" => l.kind = "Started", l.kind = "Started" => l.pc # "ended",
           l.pc = "last" => l.kind = "Ended",
           \/ calls' = (calls \ {k}) \cup {l}
           \/ calls' = calls \ {k}
    PROVE  /\ CallsTyped'
           /\ \A m \in calls' : m = l \/ (m \in calls /\ m # k)
           /\ Cardinality(StartsToCome') \in Nat /\ Cardinality(UpdatesToCome') \in Nat
           /\ Cardinality(StartsToCome') <= Cardinality(StartsToCome)
           /\ Cardinality(UpdatesToCome') <= Cardinality(UpdatesToCome)
           /\ k.kind = "Started" /\ k.pc = "new" =>
                 Cardinality(StartsToCome') <= Cardinality(StartsToCome) - 1
           /\ k.kind = "Updated" /\ calls' = calls \ {k} =>
                 Cardinality(UpdatesToCome') <= Cardinality(UpdatesToCome) - 1
<1>1. calls' \subseteq (calls \ {k}) \cup {l}
  OBVIOUS
<1>2. CallsTyped'
  <2>1. IsFiniteSet(calls')
    BY <1>1, Fewer DEF CallsTyped
  <2>2. \A m \in calls' : m \in calls \/ m = l
    BY <1>1
  <2>3. k.s <= started
    BY DEF CallsTyped
  <2>4. \A m \in calls' : /\ m \in CallType /\ m.s <= started
                          /\ InHand(m) => m.txn # 0
                          /\ m.pc = "queued" => m.kind = "Started"
                          /\ m.kind = "Started" => m.pc # "ended"
                          /\ m.pc = "last" => m.kind = "Ended"
    BY <2>2, <2>3 DEF CallsTyped
  <2>5. QED
    BY <2>1, <2>4 DEF CallsTyped, InHand
<1>3. StartsToCome' \subseteq StartsToCome \ {k}
  BY <1>1 DEF StartsToCome
<1>4. UpdatesToCome' \subseteq (UpdatesToCome \ {k}) \cup {l}
  BY <1>1 DEF UpdatesToCome
<1>5. IsFiniteSet(StartsToCome) /\ IsFiniteSet(UpdatesToCome)
  BY ToComeFinite
<1>6. CASE k.kind = "Updated"
  <2>1. k \in UpdatesToCome /\ StartsToCome' \subseteq StartsToCome
    BY <1>3, <1>6 DEF UpdatesToCome
  <2>2. calls' = calls \ {k} => UpdatesToCome' \subseteq UpdatesToCome \ {k}
    BY DEF UpdatesToCome
  <2>3. QED
    BY <1>1, <1>2, <1>4, <1>5, <1>6, <2>1, <2>2, Fewer
<1>7. CASE k.kind # "Updated"
  <2>1. UpdatesToCome' \subseteq UpdatesToCome /\ StartsToCome' \subseteq StartsToCome
    BY <1>1, <1>3, <1>7 DEF UpdatesToCome
  <2>2. k.kind = "Started" /\ k.pc = "new" => k \in StartsToCome
    BY DEF StartsToCome
  <2>3. QED
    BY <1>1, <1>2, <1>3, <1>5, <1>7, <2>1, <2>2, Fewer
<1>8. QED
  BY <1>6, <1>7

\* A number is left for every start callback.
LEMMA NumberLeft ==
    ASSUME Typed, Counts, NEW k \in calls, k.kind = "Started", k.pc = "new"
    PROVE  nextTx + 1 \in Session /\ nextTx + 1 <= started /\ ints[nextTx + 1] = 0
<1> USE DEF Typed
<1>1. k \in StartsToCome
  BY DEF StartsToCome
<1>2. /\ Cardinality(StartsToCome) \in Nat
      /\ Cardinality(StartsToCome \ {k}) \in Nat
      /\ Cardinality(StartsToCome \ {k}) <= Cardinality(StartsToCome) - 1
  BY <1>1, ToComeFinite, Fewer
<1>3. nextTx \in Nat /\ started \in Nat /\ started <= MaxSessions
  BY Transactions201Assumption DEF BooksTyped, SessionsTyped
<1>4. nextTx + 1 <= started
  BY <1>2, <1>3 DEF Counts
<1>5. nextTx + 1 \in Session
  BY <1>3, <1>4, Transactions201Assumption DEF Session
<1>6. QED
  BY <1>3, <1>4, <1>5 DEF BooksTyped

\* allocateStartedRequest: a new transaction takes its place in the books.
LEMMA AllocateStartedTx == ASSUME TxInv, NEW k \in calls, AllocateStarted(k) PROVE TxInv'
<1> USE DEF TxInv, Typed
<1>1. /\ k.kind = "Started" /\ k.pc = "new" /\ k.conn \in Conn /\ k.s \in Session
      /\ k.s \in 1..started /\ ~InHand(k) /\ k.s # 0 /\ k \in CallType
  BY CallAt DEF AllocateStarted, InHand, Session, CallsTyped
<1>2. UNCHANGED <<engine, seqNo, disk, queue, drain, failed, marking, link, reset,
                  bounds, put, got, buried, raced, excused>>
  BY DEF AllocateStarted
<1>3. UNCHANGED <<session, saved, started, updates, connected, registered, pendingReset, resetter,
                  drops, restarts, resets>>
  BY <1>2 DEF engine, link, reset, bounds
<1>4. started \in Nat /\ updates \in Nat /\ nextTx \in Nat
  BY DEF SessionsTyped, BooksTyped
<1>5. SessionsTyped' /\ QueueTyped' /\ LinkTyped' /\ Numbered' /\ Cascades'
  BY <1>2, <1>3, KeepTyped, KeepNumbered, KeepCascades
<1>6. CASE ~registered
  <2>1. calls' = calls \ {k} /\ UNCHANGED <<nextTx, ints, builders, cut>>
    BY <1>6 DEF AllocateStarted, Returns
  <2>2. PICK l : l = [k EXCEPT !.pc = "queued"]
    OBVIOUS
  <2>3. l \in CallType /\ l.kind = k.kind /\ l.s = k.s /\ l.pc = "queued" /\ ~InHand(l)
    BY <1>1, <2>2 DEF CallType, InHand
  <2>4. /\ CallsTyped'
        /\ Cardinality(StartsToCome') \in Nat /\ Cardinality(UpdatesToCome') \in Nat
        /\ Cardinality(StartsToCome') <= Cardinality(StartsToCome)
        /\ Cardinality(UpdatesToCome') <= Cardinality(UpdatesToCome)
    BY <1>1, <1>3, <2>1, <2>3, CallGoesOn
  <2>5. BooksTyped'
    BY <1>2, <1>3, <2>1, KeepTyped DEF books
  <2>6. Counts'
    <3>1. PutOf("Updated")' = PutOf("Updated")
      BY <1>2 DEF PutOf
    <3>2. QED
      BY <1>3, <1>4, <2>1, <2>4, <3>1, ToComeFinite DEF Counts
  <2>7. Starts'
    <3>1. Heard' \subseteq Heard \cup {0}
      BY <1>2, <2>1, HeardOf, HeardLess
    <3>2. QED
      BY <1>2, <1>3, <1>4, <2>1, <3>1, CallAt, KeepStarts
  <2>8. Ends' /\ Sequenced' /\ Late'
    <3>1. Ends'
      BY <1>2, <2>1, PutAt, CallAt, KeepEnds DEF Session
    <3>2. QED
      BY <1>2, <1>3, <2>1, <3>1, KeepSequenced, KeepLate
  <2>9. Closing'
    <3>1. \A s : Ending(s) => Ending(s)'
      BY <1>1, <1>2, <2>1 DEF Ending
    <3>2. QED
      BY <1>1, <1>3, <2>1, <3>1, KeepClosing
  <2>10. QED
    BY <1>5, <2>4, <2>5, <2>6, <2>7, <2>8, <2>9
<1>7. CASE registered
  <2>1. PICK l : /\ l = [k EXCEPT !.pc = "numbered", !.txn = k.s, !.tx = nextTx', !.seq = seqNo[k.s]]
                 /\ calls' = (calls \ {k}) \cup {l}
                 /\ nextTx' = nextTx + 1 /\ ints' = [ints EXCEPT ![nextTx + 1] = k.conn]
                 /\ builders' = [builders EXCEPT ![k.conn] = k.s]
                 /\ cut' = (cut \cup {builders[k.conn]}) \ {0}
    BY <1>7 DEF AllocateStarted, Becomes, Indexed
  <2>2. /\ Fresh(k.s) /\ seqNo[k.s] = 0 /\ k.s \notin Heard
        /\ nextTx + 1 \in Session /\ nextTx + 1 <= started /\ ints[nextTx + 1] = 0
    BY <1>1, NumberLeft DEF Starts, Fresh
  <2>3. /\ l \in CallType /\ l.kind = "Started" /\ l.s = k.s /\ l.conn = k.conn /\ l.pc = "numbered"
        /\ l.txn = k.s /\ l.tx = nextTx + 1 /\ l.seq = 0 /\ InHand(l)
    <3>1. l = [k EXCEPT !.pc = "numbered", !.txn = k.s, !.tx = nextTx + 1, !.seq = 0]
      BY <2>1, <2>2
    <3>2. nextTx + 1 \in Int /\ 0 \in Nat /\ k.s \in Session \cup {0}
      BY <1>1, <1>4
    <3>3. QED
      BY <1>1, <3>1, <3>2 DEF CallType, InHand
  <2>4. /\ CallsTyped'
        /\ \A m \in calls' : m = l \/ (m \in calls /\ m # k)
        /\ Cardinality(StartsToCome') \in Nat /\ Cardinality(UpdatesToCome') \in Nat
        /\ Cardinality(StartsToCome') <= Cardinality(StartsToCome) - 1
        /\ Cardinality(UpdatesToCome') <= Cardinality(UpdatesToCome)
    <3>1. /\ l.kind = k.kind /\ l.pc # "new" /\ l.txn # 0 /\ l.pc # "queued" /\ l.pc # "ended"
          /\ l.pc # "last" /\ k.kind = "Started" /\ k.pc = "new" /\ started' = started
      BY <1>1, <1>3, <2>3
    <3>2. l \in CallType /\ l.s = k.s /\ calls' = (calls \ {k}) \cup {l}
      BY <2>1, <2>3
    <3>3. QED
      BY <3>1, <3>2, CallGoesOn
  <2>5. BooksTyped'
    <3>1. /\ builders' \in [Conn -> Session \cup {0}] /\ ints' \in [Session -> Conn \cup {0}]
      BY <1>1, <2>1 DEF BooksTyped
    <3>2. \A i \in Session : i > nextTx + 1 => ints'[i] = 0
      BY <1>4, <2>1, <2>2 DEF BooksTyped, Session
    <3>3. QED
      BY <1>2, <1>3, <1>4, <2>1, <2>2, <3>1, <3>2 DEF BooksTyped
  <2>6. Counts'
    <3>1. PutOf("Updated")' = PutOf("Updated")
      BY <1>2 DEF PutOf
    <3>2. QED
      BY <1>3, <1>4, <2>1, <2>4, <3>1, ToComeFinite DEF Counts
  <2>7. /\ \A c \in Conn : builders[c] # k.s /\ disk.builders[c] # k.s
        /\ \A m \in calls : m.txn # k.s
        /\ \A j \in 1..Len(put) : put[j].s # k.s
    BY <2>2, HeardOf
  <2>8. /\ builders'[k.conn] = k.s
        /\ \A c \in Conn : c # k.conn => builders'[c] = builders[c]
    BY <1>1, <2>1 DEF BooksTyped
  <2>9. Starts'
    <3>1. Heard' \subseteq Heard \cup {k.s, 0}
      <4>1. \A c \in Conn : builders'[c] \in Heard \cup {k.s} /\ disk'.builders[c] \in Heard
        BY <1>2, <2>8, HeardOf
      <4>2. \A m \in calls' : m.txn \in Heard \cup {k.s}
        BY <2>3, <2>4, HeardOf
      <4>3. QED
        BY <1>2, <4>1, <4>2, HeardOf DEF Heard
    <3>2. \A s \in Session : s # k.s /\ Fresh(s) => Fresh(s)'
      BY <1>2, <3>1 DEF Fresh, Session
    <3>3. \A s \in Session : s > started => Fresh(s)'
      <4>1. \A s \in Session : s > started => s # k.s
        BY <1>1, <1>4 DEF Session
      <4>2. QED
        BY <3>2, <4>1 DEF Starts
    <3>4. \A m \in calls : m # k /\ m.kind = "Started" => m.s # k.s /\ m.s \in Session
      BY <1>1, CallAt DEF Starts
    <3>5. \A m \in calls' : m.kind = "Started" =>
            /\ \A n \in calls' : n.kind = "Started" /\ n.s = m.s => n = m
            /\ m.pc = "new" => Fresh(m.s)'
            /\ InHand(m) => /\ m.txn = m.s /\ m.seq = 0
                            /\ \A j \in 1..Len(put) : put[j].s = m.s => put[j].kind # "Started"
      BY <2>3, <2>4, <2>7, <3>2, <3>4 DEF Starts
    <3>6. QED
      BY <1>2, <1>3, <3>3, <3>5 DEF Starts, InHand
  <2>10. Ends'
    <3>1. \A c, d \in Conn : builders'[c] = builders'[d] /\ builders'[c] # 0 => c = d
      BY <2>7, <2>8 DEF Ends
    <3>2. \A m \in calls' : m.kind = "Ended" => m \in calls
      BY <2>3, <2>4
    <3>3. \A s : s # k.s /\ (\A c \in Conn : builders[c] # s) => (\A c \in Conn : builders'[c] # s)
      BY <2>8
    <3>4. \A m \in calls' : m.kind = "Ended" /\ InHand(m) =>
            /\ \A c \in Conn : builders'[c] # m.txn
            /\ m.pc = "stamped" => \A c \in Conn : disk.builders[c] # m.txn
            /\ \A j \in 1..Len(put) : put[j].s = m.txn => put[j].kind # "Ended"
            /\ \A n \in calls' : n.kind = "Ended" /\ InHand(n) /\ n.txn = m.txn => n = m
      BY <2>7, <3>2, <3>3 DEF Ends
    <3>5. \A j \in 1..Len(put) : put[j].kind = "Ended" =>
            \A c \in Conn : builders'[c] # put[j].s /\ disk.builders[c] # put[j].s
      BY <2>7, <3>3 DEF Ends
    <3>6. \A i, j \in 1..Len(put) :
             put[i].kind = "Ended" /\ put[j].kind = "Ended" /\ put[i].s = put[j].s => i = j
      BY DEF Ends
    <3>7. QED
      BY <1>2, <3>1, <3>4, <3>5, <3>6 DEF Ends, InHand
  <2>11. Sequenced'
    <3>1. EventsInOrder'
      BY <1>2 DEF Sequenced, EventsInOrder
    <3>2. \A m, n \in calls' : InHand(m) /\ InHand(n) /\ m.txn = n.txn /\ m.txn \notin raced => m = n
      BY <2>3, <2>4, <2>7 DEF Sequenced
    <3>3. \A m \in calls' : m.txn \notin raced =>
            /\ m.pc \in {"last", "numbered"} => m.seq = seqNo[m.txn]
            /\ m.pc = "stamped" =>
                  /\ m.seq < seqNo[m.txn] /\ m.seq < disk.seqNo[m.txn]
                  /\ \A j \in 1..Len(put) : put[j].s = m.txn => put[j].seq < m.seq
            /\ InHand(m) => \A j \in 1..Len(put) : put[j].s = m.txn => put[j].kind # "Ended"
      BY <2>2, <2>3, <2>4, <2>7 DEF Sequenced
    <3>4. QED
      BY <1>2, <3>1, <3>2, <3>3 DEF Sequenced, InHand
  <2>12. Late'
    BY <1>2, <1>3, <2>3, <2>4, KeepLate
  <2>13. Closing'
    <3>1. \A s : Ending(s) => Ending(s)'
      BY <1>1, <1>2, <2>1 DEF Ending
    <3>2. \A s \in (1..started) \ cut' : s \notin cut /\ s # builders[k.conn] /\ s # 0
      BY <1>4, <2>1
    <3>3. ASSUME NEW s, s # 0, s # builders[k.conn], NEW c \in Conn, NEW t, Held(s, c, t)
          PROVE  Held(s, c, t)'
      <4>1. builders[c] = s /\ c # k.conn /\ t \in Session /\ ints[t] = c /\ c # 0
        BY <3>3, Transactions201Assumption DEF Held
      <4>2. t # nextTx + 1
        BY <2>2, <4>1
      <4>3. ints'[t] = c /\ builders'[c] = s
        BY <2>1, <2>8, <4>1, <4>2 DEF BooksTyped
      <4>4. QED
        BY <4>1, <4>3 DEF Held
    <3>4. ASSUME NEW s \in 1..started, s # builders[k.conn], s # k.s, s # 0, Closes(s)
          PROVE  Closes(s)'
      <4>1. \A m \in calls' : m.s = s => m \in calls /\ m.conn \in Conn
        BY <2>3, <2>4, <3>4, CallAt
      <4>2. \A m \in calls : m.kind = "Ended" => m \in calls'
        BY <1>1, <2>1
      <4>3. QED
        BY <1>3, <3>3, <3>4, <4>1, <4>2 DEF Closes
    <3>5. ASSUME Closes(k.s) PROVE Closes(k.s)'
      <4>1. \A c, t : c \in Conn => ~Held(k.s, c, t)
        BY <2>7 DEF Held
      <4>2. \A m \in calls : m.s = k.s => ~(m.kind = "Ended" /\ m.pc = "new") /\ ~(m.kind = "Started" /\ m.pc # "new")
        BY <3>5, <4>1, CallAt DEF Closes
      <4>3. \A c \in Conn : session[c].s = k.s => ~session[c].own
        BY <3>5, <4>1 DEF Closes
      <4>4. Held(k.s, l.conn, l.tx)'
        BY <1>1, <2>1, <2>2, <2>3, <2>8 DEF Held, BooksTyped
      <4>5. \A m \in calls' : m.s = k.s => m = l \/ (~(m.kind = "Ended" /\ m.pc = "new") /\ ~(m.kind = "Started" /\ m.pc # "new"))
        BY <2>4, <4>2
      <4>6. QED
        BY <1>3, <2>3, <3>5, <4>2, <4>3, <4>4, <4>5 DEF Closes
    <3>6. QED
      BY <1>3, <3>1, <3>2, <3>4, <3>5 DEF Closing
  <2>14. QED
    BY <1>5, <2>4, <2>5, <2>6, <2>9, <2>10, <2>11, <2>12, <2>13
<1>8. QED
  BY <1>6, <1>7

\* A call takes a builder in its hands: unless somebody has it already, it has the
\* next number, and the transaction's Ended event was not queued.
LEMMA TakesInHand ==
    ASSUME Typed, Sequenced, Ends, NEW k \in calls, ~InHand(k), NEW txn, txn \in Session, NEW l,
           l.txn = txn, l.seq = seqNo[txn], l.pc \in {"last", "numbered"},
           \A m \in calls' : m = l \/ (m \in calls /\ m # k),
           Noted(k, txn), \E c \in Conn : builders[c] = txn,
           UNCHANGED <<seqNo, put, disk>>
    PROVE  Sequenced'
<1>1. EventsInOrder'
  BY DEF Sequenced, EventsInOrder, Noted
<1>2. raced \subseteq raced' /\ (txn \notin raced' => \A m \in calls \ {k} : m.txn = txn => ~InHand(m))
  BY DEF Noted, Contended, InHand
<1>3. InHand(l)
  BY DEF InHand
<1>4. \A m, n \in calls' : InHand(m) /\ InHand(n) /\ m.txn = n.txn /\ m.txn \notin raced' => m = n
  BY <1>2, <1>3 DEF Sequenced
<1>5. \A j \in 1..Len(put) : put[j].s = txn => put[j].kind # "Ended"
  BY DEF Ends
<1>6. \A m \in calls' : m.txn \notin raced' =>
        /\ m.pc \in {"last", "numbered"} => m.seq = seqNo[m.txn]
        /\ m.pc = "stamped" =>
              /\ m.seq < seqNo[m.txn] /\ m.seq < disk.seqNo[m.txn]
              /\ \A j \in 1..Len(put) : put[j].s = m.txn => put[j].seq < m.seq
        /\ InHand(m) => \A j \in 1..Len(put) : put[j].s = m.txn => put[j].kind # "Ended"
  BY <1>2, <1>5 DEF Sequenced
<1>7. \A j \in 1..Len(put) : put[j].s \notin raced' =>
        put[j].seq < seqNo[put[j].s] /\ put[j].seq < disk.seqNo[put[j].s]
  BY <1>2 DEF Sequenced
<1>8. QED
  BY <1>1, <1>4, <1>6, <1>7 DEF Sequenced, InHand

\* allocateUpdatedRequest
LEMMA AllocateUpdatedTx == ASSUME TxInv, NEW k \in calls, AllocateUpdated(k) PROVE TxInv'
<1> USE DEF TxInv, Typed
<1>0. PICK txn : txn = builders[k.conn]
  OBVIOUS
<1>1. /\ k.kind = "Updated" /\ k.pc = "new" /\ k.conn \in Conn /\ k.s \in Session
      /\ ~InHand(k) /\ k \in CallType /\ txn \in Session \cup {0} /\ txn \in Heard
  BY <1>0, CallAt, BooksAt, HeardOf DEF AllocateUpdated, InHand, CallsTyped
<1>2. UNCHANGED <<engine, books, disk, queue, drain, failed, marking, link, reset,
                  bounds, put, got, buried, cut, excused>>
  BY DEF AllocateUpdated
<1>3. UNCHANGED <<session, saved, started, updates, connected, registered, pendingReset, resetter,
                  drops, restarts, resets, builders, seqNo, ints, nextTx>>
  BY <1>2 DEF engine, books, link, reset, bounds
<1>4. started \in Nat /\ updates \in Nat /\ nextTx \in Nat
  BY DEF SessionsTyped, BooksTyped
<1>5. SessionsTyped' /\ BooksTyped' /\ QueueTyped' /\ LinkTyped' /\ Numbered' /\ Cascades'
  BY <1>2, <1>3, KeepTyped, KeepNumbered, KeepCascades
<1>6. PICK l : /\ l = [k EXCEPT !.pc = "numbered", !.txn = txn, !.seq = IF txn = 0 THEN 0 ELSE seqNo[txn]]
               /\ \/ txn = 0 /\ calls' = calls \ {k} /\ UNCHANGED raced
                  \/ txn # 0 /\ calls' = (calls \ {k}) \cup {l} /\ Noted(k, txn)
  <2>1. PICK l : l = [k EXCEPT !.pc = "numbered", !.txn = txn, !.seq = IF txn = 0 THEN 0 ELSE seqNo[txn]]
    OBVIOUS
  <2>2. QED
    BY <1>0, <2>1 DEF AllocateUpdated, Becomes, Returns
<1>7. /\ l.kind = "Updated" /\ l.s = k.s /\ l.conn = k.conn /\ l.tx = k.tx
      /\ l.pc = "numbered" /\ l.txn = txn /\ InHand(l)
      /\ txn # 0 => l \in CallType /\ l.seq = seqNo[txn] /\ txn \in Session
  <2>1. txn # 0 => txn \in Session /\ seqNo[txn] \in Nat
    BY <1>1, BooksAt
  <2>2. QED
    BY <1>1, <1>6, <2>1 DEF CallType, InHand
<1>8. /\ CallsTyped'
      /\ \A m \in calls' : (m = l /\ txn # 0) \/ (m \in calls /\ m # k)
      /\ Cardinality(StartsToCome') \in Nat /\ Cardinality(UpdatesToCome') \in Nat
      /\ Cardinality(StartsToCome') <= Cardinality(StartsToCome)
      /\ Cardinality(UpdatesToCome') <= Cardinality(UpdatesToCome)
  <2>1. PICK e : e = [k EXCEPT !.pc = "ended"]
    OBVIOUS
  <2>2. e \in CallType /\ e.kind = "Updated" /\ e.s = k.s /\ e.pc = "ended" /\ ~InHand(e)
    BY <1>1, <2>1 DEF CallType, InHand
  <2>3. CASE txn = 0
    BY <1>1, <1>3, <1>6, <2>2, <2>3, CallGoesOn
  <2>4. CASE txn # 0
    BY <1>1, <1>3, <1>6, <1>7, <2>4, CallGoesOn
  <2>5. QED
    BY <2>3, <2>4
<1>9. Counts'
  <2>1. PutOf("Updated")' = PutOf("Updated")
    BY <1>2 DEF PutOf
  <2>2. QED
    BY <1>3, <1>4, <1>8, <2>1, ToComeFinite DEF Counts
<1>10. Starts'
  <2>1. \A m \in calls' : m.txn \in Heard \cup {0}
    BY <1>1, <1>7, <1>8, HeardOf
  <2>2. Heard' \subseteq Heard \cup {0}
    BY <1>2, <1>3, <2>1, HeardOf, HeardLess
  <2>3. \A m \in calls' : m.kind = "Started" => m \in calls /\ m.s \in Session
    BY <1>7, <1>8, CallAt
  <2>4. QED
    BY <1>2, <1>3, <1>4, <2>2, <2>3, KeepStarts
<1>11. Ends'
  <2>1. \A m \in calls' : m.kind = "Ended" /\ InHand(m) => m \in calls
    BY <1>7, <1>8
  <2>2. QED
    BY <1>2, <1>3, <2>1, PutAt, CallAt, KeepEnds DEF Session
<1>12. Sequenced'
  <2>1. CASE txn = 0
    BY <1>2, <1>3, <1>6, <2>1, KeepSequenced
  <2>2. CASE txn # 0
    <3>1. /\ ~InHand(k) /\ txn \in Session /\ l.txn = txn /\ l.seq = seqNo[txn] /\ l.pc = "numbered"
          /\ \A m \in calls' : m = l \/ (m \in calls /\ m # k)
          /\ Noted(k, txn) /\ (\E c \in Conn : builders[c] = txn)
          /\ UNCHANGED <<seqNo, put, disk>>
      BY <1>0, <1>1, <1>2, <1>3, <1>6, <1>7, <1>8, <2>2
    <3>2. QED
      BY <3>1, TakesInHand
  <2>3. QED
    BY <2>1, <2>2
<1>13. Late'
  <2>1. \A m \in calls' : m.pc = "stamped" => m \in calls
    BY <1>7, <1>8
  <2>2. QED
    BY <1>2, <1>3, <2>1, KeepLate
<1>14. Closing'
  <2>1. \A m \in calls : m.kind = "Ended" => m \in calls'
    BY <1>1, <1>6
  <2>2. \A s : Ending(s) => Ending(s)'
    BY <1>2, <2>1 DEF Ending
  <2>3. \A m \in calls' : m.kind # "Updated" => m \in calls
    BY <1>7, <1>8
  <2>4. QED
    BY <1>2, <1>3, <2>1, <2>2, <2>3, KeepClosing
<1>15. QED
  BY <1>5, <1>8, <1>9, <1>10, <1>11, <1>12, <1>13, <1>14

\* allocateEndedRequest: the transaction leaves the books as its Ended event is
\* taken in hand, so it is ended once.
LEMMA AllocateEndedTx == ASSUME TxInv, NEW k \in calls, AllocateEnded(k) PROVE TxInv'
<1> USE DEF TxInv, Typed
<1>0. PICK evse, txn : /\ evse = IF k.tx \in Session THEN ints[k.tx] ELSE 0
                       /\ txn = IF evse = 0 THEN 0 ELSE builders[evse]
  OBVIOUS
<1>1. /\ k.kind = "Ended" /\ k.pc = "new" /\ k.conn \in Conn /\ k.s \in Session
      /\ ~InHand(k) /\ k \in CallType
  BY CallAt DEF AllocateEnded, InHand, CallsTyped
<1>2. UNCHANGED <<engine, seqNo, nextTx, disk, queue, drain, failed, marking,
                  link, reset, bounds, put, got, buried, cut, excused>>
  BY DEF AllocateEnded
<1>3. UNCHANGED <<session, saved, started, updates, drops, restarts, resets, connected, registered,
                  pendingReset, resetter>>
  BY <1>2 DEF engine, bounds, link, reset
<1>4. started \in Nat /\ updates \in Nat /\ nextTx \in Nat
  BY DEF SessionsTyped, BooksTyped
<1>5. QueueTyped' /\ Numbered' /\ Cascades'
  BY <1>2, <1>3, KeepTyped, KeepNumbered, KeepCascades
<1>6. cut' = cut
  BY <1>2
<1>7. CASE txn = 0
  <2>1. /\ UNCHANGED <<builders, ints, raced>>
        /\ calls' = (calls \ {k}) \cup {[k EXCEPT !.pc = "ended"]}
    BY <1>0, <1>7 DEF AllocateEnded, Becomes
  <2>2. PICK l : l = [k EXCEPT !.pc = "ended"] /\ calls' = (calls \ {k}) \cup {l}
    BY <2>1
  <2>3. l \in CallType /\ l.kind = "Ended" /\ l.s = k.s /\ l.pc = "ended" /\ l.txn = k.txn /\ ~InHand(l)
    BY <1>1, <2>2 DEF CallType, InHand
  <2>4. /\ CallsTyped'
        /\ \A m \in calls' : m = l \/ (m \in calls /\ m # k)
        /\ Cardinality(StartsToCome') \in Nat /\ Cardinality(UpdatesToCome') \in Nat
        /\ Cardinality(StartsToCome') <= Cardinality(StartsToCome)
        /\ Cardinality(UpdatesToCome') <= Cardinality(UpdatesToCome)
    BY <1>1, <1>3, <2>2, <2>3, CallGoesOn
  <2>5. SessionsTyped' /\ BooksTyped' /\ LinkTyped'
    BY <1>2, <1>3, <2>1, KeepTyped DEF books
  <2>6. Counts'
    <3>1. PutOf("Updated")' = PutOf("Updated")
      BY <1>2 DEF PutOf
    <3>2. QED
      BY <1>2, <1>3, <1>4, <2>1, <2>4, <3>1, ToComeFinite DEF Counts
  <2>7. Starts'
    <3>1. \A m \in calls' : m.txn \in Heard \cup {0}
      BY <2>3, <2>4, HeardOf
    <3>2. Heard' \subseteq Heard \cup {0}
      BY <1>2, <2>1, <3>1, HeardOf, HeardLess
    <3>3. \A m \in calls' : m.kind = "Started" => m \in calls /\ m.s \in Session
      BY <2>3, <2>4, CallAt
    <3>4. QED
      BY <1>2, <1>3, <1>4, <2>1, <3>2, <3>3, KeepStarts
  <2>8. Ends' /\ Sequenced' /\ Late'
    <3>1. \A m \in calls' : InHand(m) => m \in calls
      BY <2>3, <2>4
    <3>2. \A m \in calls' : m.pc = "stamped" => m \in calls
      BY <2>3, <2>4
    <3>3. Ends'
      BY <1>2, <2>1, <3>1, PutAt, CallAt, KeepEnds DEF Session
    <3>4. QED
      BY <1>2, <1>3, <2>1, <3>1, <3>2, <3>3, KeepSequenced, KeepLate
  <2>9. Closing'
    <3>1. \A s : Ending(s) => Ending(s)'
      BY <1>1, <1>2, <2>2 DEF Ending
    <3>2. \A s, c, t : Held(s, c, t)' = Held(s, c, t)
      BY <2>1 DEF Held
    <3>3. \A s \in 1..started : Closes(s) => s # k.s
      <4>1. ASSUME NEW s \in 1..started, Closes(s), s = k.s PROVE FALSE
        <5>1. Held(s, k.conn, k.tx)
          BY <1>1, <4>1 DEF Closes
        <5>2. evse = k.conn /\ evse # 0 /\ txn = s /\ s # 0
          BY <1>0, <1>1, <1>4, <5>1, Transactions201Assumption DEF Held
        <5>3. QED
          BY <1>7, <5>2
      <4>2. QED
        BY <4>1
    <3>4. ASSUME NEW s \in 1..started, Closes(s) PROVE Closes(s)'
      <4>1. \A m \in calls' : m.s = s => m \in calls
        BY <2>3, <2>4, <3>3, <3>4
      <4>2. \A m \in calls : m.s = s => m \in calls'
        BY <2>2, <3>3, <3>4
      <4>3. QED
        BY <1>3, <3>2, <3>4, <4>1, <4>2 DEF Closes
    <3>5. QED
      BY <1>3, <1>6, <3>1, <3>4 DEF Closing
  <2>10. QED
    BY <1>5, <2>4, <2>5, <2>6, <2>7, <2>8, <2>9
<1>8. CASE txn # 0
  <2>1. /\ evse \in Conn /\ evse # 0 /\ k.tx \in Session /\ ints[k.tx] = evse
        /\ builders[evse] = txn /\ txn \in Session /\ txn \in Heard /\ seqNo[txn] \in Nat
    BY <1>0, <1>8, BooksAt, HeardOf
  <2>2. PICK l, pc : /\ pc \in {"last", "numbered"}
                     /\ l = [k EXCEPT !.pc = pc, !.txn = txn, !.seq = seqNo[txn]]
                     /\ calls' = (calls \ {k}) \cup {l} /\ Noted(k, txn)
                     /\ builders' = [builders EXCEPT ![evse] = 0]
                     /\ ints' = [ints EXCEPT ![k.tx] = 0]
    BY <1>0, <1>8 DEF AllocateEnded, Becomes
  <2>3. /\ l \in CallType /\ l.kind = "Ended" /\ l.s = k.s /\ l.pc \in {"last", "numbered"}
        /\ l.txn = txn /\ l.seq = seqNo[txn] /\ InHand(l)
    BY <1>1, <2>1, <2>2 DEF CallType, InHand
  <2>4. /\ CallsTyped'
        /\ \A m \in calls' : m = l \/ (m \in calls /\ m # k)
        /\ Cardinality(StartsToCome') \in Nat /\ Cardinality(UpdatesToCome') \in Nat
        /\ Cardinality(StartsToCome') <= Cardinality(StartsToCome)
        /\ Cardinality(UpdatesToCome') <= Cardinality(UpdatesToCome)
    BY <1>1, <1>3, <1>8, <2>2, <2>3, CallGoesOn
  <2>5. /\ builders' \in [Conn -> Session \cup {0}] /\ ints' \in [Session -> Conn \cup {0}]
        /\ builders'[evse] = 0 /\ \A c \in Conn : c # evse => builders'[c] = builders[c]
        /\ \A i \in Session : ints'[i] \in {ints[i], 0}
    BY <2>1, <2>2 DEF BooksTyped
  <2>6. SessionsTyped' /\ BooksTyped' /\ LinkTyped'
    BY <1>2, <1>3, <2>2, <2>5 DEF SessionsTyped, BooksTyped, LinkTyped
  <2>7. Counts'
    <3>1. PutOf("Updated")' = PutOf("Updated")
      BY <1>2 DEF PutOf
    <3>2. QED
      BY <1>2, <1>3, <1>4, <2>4, <3>1, ToComeFinite DEF Counts
  <2>8. Starts'
    <3>1. \A m \in calls' : m.txn \in Heard \cup {0}
      BY <2>1, <2>3, <2>4, HeardOf
    <3>2. \A c \in Conn : builders'[c] \in Heard \cup {0} /\ disk'.builders[c] \in Heard \cup {0}
      BY <1>2, <2>5, HeardOf
    <3>3. Heard' \subseteq Heard \cup {0}
      BY <1>2, <3>1, <3>2, HeardLess
    <3>4. \A m \in calls' : m.kind = "Started" => m \in calls /\ m.s \in Session
      BY <2>3, <2>4, CallAt
    <3>5. QED
      BY <1>2, <1>3, <1>4, <3>3, <3>4, KeepStarts
  <2>9. Ends'
    <3>1. \A c \in Conn : builders'[c] # txn
      BY <1>8, <2>1, <2>5 DEF Ends
    <3>2. \A m \in calls : m.kind = "Ended" /\ InHand(m) => m.txn # txn /\ m.txn # 0
      BY <2>1, CallAt DEF Ends, Session
    <3>3. \A j \in 1..Len(put) : put[j].s = txn => put[j].kind # "Ended"
      BY <2>1 DEF Ends
    <3>4. \A s : s # 0 /\ (\A c \in Conn : builders[c] # s) => (\A c \in Conn : builders'[c] # s)
      BY <2>5
    <3>5. \A m \in calls' : m.kind = "Ended" /\ InHand(m) =>
            /\ \A c \in Conn : builders'[c] # m.txn
            /\ m.pc = "stamped" => \A c \in Conn : disk.builders[c] # m.txn
            /\ \A j \in 1..Len(put) : put[j].s = m.txn => put[j].kind # "Ended"
            /\ \A n \in calls' : n.kind = "Ended" /\ InHand(n) /\ n.txn = m.txn => n = m
      BY <2>3, <2>4, <3>1, <3>2, <3>3, <3>4 DEF Ends
    <3>6. \A j \in 1..Len(put) : put[j].kind = "Ended" =>
            \A c \in Conn : builders'[c] # put[j].s /\ disk.builders[c] # put[j].s
      BY <3>4, PutAt DEF Ends
    <3>7. \A c, d \in Conn : builders'[c] = builders'[d] /\ builders'[c] # 0 => c = d
      BY <2>5 DEF Ends
    <3>8. /\ \A c, d \in Conn : disk.builders[c] = disk.builders[d] /\ disk.builders[c] # 0 => c = d
          /\ \A i, j \in 1..Len(put) :
                put[i].kind = "Ended" /\ put[j].kind = "Ended" /\ put[i].s = put[j].s => i = j
      BY DEF Ends
    <3>9. QED
      BY <1>2, <3>5, <3>6, <3>7, <3>8 DEF Ends, InHand
  <2>10. Sequenced'
    <3>1. /\ ~InHand(k) /\ txn \in Session /\ l.txn = txn /\ l.seq = seqNo[txn] /\ l.pc \in {"last", "numbered"}
          /\ \A m \in calls' : m = l \/ (m \in calls /\ m # k)
          /\ Noted(k, txn) /\ (\E c \in Conn : builders[c] = txn)
          /\ UNCHANGED <<seqNo, put, disk>>
      BY <1>1, <1>2, <2>1, <2>2, <2>3, <2>4
    <3>2. QED
      BY <3>1, TakesInHand
  <2>11. Late'
    <3>1. \A m \in calls' : m.pc = "stamped" => m \in calls
      BY <2>3, <2>4
    <3>2. QED
      BY <1>2, <1>3, <3>1, KeepLate
  <2>12. Closing'
    <3>1. \A s : Ending(s) => Ending(s)'
      BY <1>1, <1>2, <2>2 DEF Ending
    <3>2. Ending(txn)'
      BY <2>2, <2>3 DEF Ending, InHand
    <3>3. ASSUME NEW s, s # txn, s # 0, NEW c \in Conn, NEW t, Held(s, c, t) PROVE Held(s, c, t)'
      <4>1. c # evse /\ builders'[c] = s /\ t \in Session /\ t # k.tx /\ ints[t] = c
        BY <2>1, <2>5, <3>3 DEF Held
      <4>2. ints'[t] = c
        BY <2>2, <4>1 DEF BooksTyped
      <4>3. QED
        BY <4>1, <4>2 DEF Held
    <3>4. ASSUME NEW s \in 1..started, s # txn, Closes(s) PROVE Closes(s)'
      <4>1. s # k.s
        BY <1>1, <2>1, <3>4 DEF Closes, Held
      <4>2. \A m \in calls' : m.s = s => m \in calls /\ m.conn \in Conn
        BY <2>3, <2>4, <4>1, CallAt
      <4>3. \A m \in calls : m.s = s => m \in calls'
        BY <2>2, <4>1
      <4>4. s # 0
        BY <1>4
      <4>5. QED
        BY <1>3, <3>3, <3>4, <4>2, <4>3, <4>4 DEF Closes
    <3>5. QED
      BY <1>3, <1>6, <3>1, <3>2, <3>4 DEF Closing
  <2>13. QED
    BY <1>5, <2>4, <2>6, <2>7, <2>8, <2>9, <2>10, <2>11, <2>12
<1>9. QED
  BY <1>7, <1>8

\* A reset that waited for the last Ended event empties the books.
LEMMA LastEndedTx == ASSUME TxInv, NEW k \in calls, LastEnded(k) PROVE TxInv'
<1> USE DEF TxInv, Typed
<1>1. PICK l : /\ l = [k EXCEPT !.pc = "numbered"]
               /\ calls' = (calls \ {k}) \cup {l}
  BY DEF LastEnded, Becomes
<1>2. /\ ForgetsBooks /\ pendingReset' \in BOOLEAN
      /\ UNCHANGED <<engine, seqNo, nextTx, disk, queue, drain, failed, marking,
                     connected, resetter, bounds, put, got, buried, raced, excused>>
  BY DEF LastEnded, CompleteReset, ForgetsBooks, SessionsTyped
<1>3. UNCHANGED <<session, saved, started, updates, drops, restarts>>
  BY <1>2 DEF engine, bounds
<1>4. /\ k.kind = "Ended" /\ k.pc = "last" /\ InHand(k) /\ k \in CallType
      /\ k.txn # 0 /\ k.txn \in Heard /\ k.txn \in Session
  BY CallAt, HeardOf DEF LastEnded, InHand, CallsTyped
<1>5. /\ l \in CallType /\ l.kind = "Ended" /\ l.s = k.s /\ l.pc = "numbered"
      /\ l.txn = k.txn /\ l.seq = k.seq /\ InHand(l)
  BY <1>1, <1>4 DEF CallType, InHand
<1>6. /\ CallsTyped'
      /\ \A m \in calls' : m = l \/ (m \in calls /\ m # k)
      /\ Cardinality(StartsToCome') \in Nat /\ Cardinality(UpdatesToCome') \in Nat
      /\ Cardinality(StartsToCome') <= Cardinality(StartsToCome)
      /\ Cardinality(UpdatesToCome') <= Cardinality(UpdatesToCome)
  BY <1>1, <1>3, <1>4, <1>5, CallGoesOn
<1>7. /\ registered' \in BOOLEAN
      /\ builders' \in [Conn -> Session \cup {0}] /\ ints' \in [Session -> Conn \cup {0}]
      /\ \A c \in Conn : builders'[c] \in {builders[c], 0}
      /\ \A i \in Session : ints'[i] \in {ints[i], 0}
  <2>1. CASE UNCHANGED <<registered, builders, ints, cut>>
    BY <2>1 DEF BooksTyped, LinkTyped
  <2>2. CASE ~UNCHANGED <<registered, builders, ints, cut>>
    BY <1>2, <2>2 DEF BooksTyped, LinkTyped, ForgetsBooks
  <2>3. QED
    BY <2>1, <2>2
<1>8. SessionsTyped' /\ QueueTyped' /\ LinkTyped' /\ BooksTyped'
  <2>1. SessionsTyped' /\ LinkTyped'
    BY <1>2, <1>3, <1>7 DEF SessionsTyped, LinkTyped
  <2>2. QueueTyped'
    BY <1>2, KeepTyped
  <2>3. BooksTyped'
    BY <1>2, <1>3, <1>7 DEF BooksTyped
  <2>4. QED
    BY <2>1, <2>2, <2>3
<1>9. Numbered' /\ Cascades'
  BY <1>2, <1>3, KeepNumbered, KeepCascades
<1>10. Counts'
  <2>1. PutOf("Updated")' = PutOf("Updated")
    BY <1>2 DEF PutOf
  <2>2. started \in Nat /\ updates \in Nat /\ nextTx \in Nat
    BY DEF SessionsTyped, BooksTyped
  <2>3. QED
    BY <1>2, <1>3, <1>6, <2>1, <2>2, ToComeFinite DEF Counts
<1>11. Starts'
  <2>1. \A m \in calls' : m.txn \in Heard \cup {0}
    BY <1>4, <1>5, <1>6, HeardOf
  <2>2. \A c \in Conn : builders'[c] \in Heard \cup {0} /\ disk'.builders[c] \in Heard \cup {0}
    BY <1>2, <1>7, HeardOf
  <2>3. Heard' \subseteq Heard \cup {0}
    BY <1>2, <2>1, <2>2, HeardLess
  <2>4. \A m \in calls' : m.kind = "Started" => m \in calls /\ m.s \in Session
    BY <1>5, <1>6, CallAt
  <2>5. started \in Nat
    BY DEF SessionsTyped
  <2>6. QED
    BY <1>2, <1>3, <2>3, <2>4, <2>5, KeepStarts
<1>12. Ends'
  <2>1. \A s : s # 0 /\ (\A c \in Conn : builders[c] # s) => (\A c \in Conn : builders'[c] # s)
    BY <1>7
  <2>2. \A m \in calls : m.kind = "Ended" /\ InHand(m) /\ m.txn = k.txn => m = k
    BY <1>4 DEF Ends
  <2>3. /\ \A c \in Conn : builders[c] # k.txn
        /\ \A j \in 1..Len(put) : put[j].s = k.txn => put[j].kind # "Ended"
    BY <1>4 DEF Ends
  <2>4. \A m \in calls' : m.kind = "Ended" /\ InHand(m) =>
          /\ m.txn # 0 /\ \A c \in Conn : builders[c] # m.txn
          /\ m.pc = "stamped" => \A c \in Conn : disk.builders[c] # m.txn
          /\ \A j \in 1..Len(put) : put[j].s = m.txn => put[j].kind # "Ended"
    <3>1. \A m \in calls : m.kind = "Ended" /\ InHand(m) => m.txn # 0
      BY DEF CallsTyped
    <3>2. \A m \in calls : m.kind = "Ended" /\ InHand(m) =>
            /\ \A c \in Conn : builders[c] # m.txn
            /\ m.pc = "stamped" => \A c \in Conn : disk.builders[c] # m.txn
            /\ \A j \in 1..Len(put) : put[j].s = m.txn => put[j].kind # "Ended"
      BY DEF Ends
    <3>3. /\ l.txn # 0 /\ \A c \in Conn : builders[c] # l.txn
          /\ l.pc # "stamped"
          /\ \A j \in 1..Len(put) : put[j].s = l.txn => put[j].kind # "Ended"
      BY <1>4, <1>5, <2>3
    <3>4. QED
      BY <1>6, <3>1, <3>2, <3>3
  <2>5. \A m, n \in calls' : m.kind = "Ended" /\ InHand(m) /\ n.kind = "Ended" /\ InHand(n)
                             /\ n.txn = m.txn => n = m
    BY <1>5, <1>6, <2>2 DEF Ends
  <2>6. \A j \in 1..Len(put) : put[j].kind = "Ended" =>
          \A c \in Conn : builders'[c] # put[j].s /\ disk.builders[c] # put[j].s
    BY <2>1, PutAt DEF Ends, Session
  <2>7. \A c, d \in Conn : builders'[c] = builders'[d] /\ builders'[c] # 0 => c = d
    BY <1>7 DEF Ends
  <2>8. /\ \A c, d \in Conn : disk.builders[c] = disk.builders[d] /\ disk.builders[c] # 0 => c = d
        /\ \A i, j \in 1..Len(put) :
              put[i].kind = "Ended" /\ put[j].kind = "Ended" /\ put[i].s = put[j].s => i = j
    BY DEF Ends
  <2>9. QED
    BY <1>2, <2>1, <2>4, <2>5, <2>6, <2>7, <2>8 DEF Ends, InHand
<1>13. Sequenced'
  <2>1. EventsInOrder'
    BY <1>2 DEF Sequenced, EventsInOrder
  <2>2. \A m, n \in calls' : InHand(m) /\ InHand(n) /\ m.txn = n.txn /\ m.txn \notin raced => m = n
    BY <1>4, <1>5, <1>6 DEF Sequenced
  <2>3. \A m \in calls' : m.txn \notin raced =>
          /\ m.pc \in {"last", "numbered"} => m.seq = seqNo[m.txn]
          /\ m.pc = "stamped" =>
                /\ m.seq < seqNo[m.txn] /\ m.seq < disk.seqNo[m.txn]
                /\ \A j \in 1..Len(put) : put[j].s = m.txn => put[j].seq < m.seq
          /\ InHand(m) => \A j \in 1..Len(put) : put[j].s = m.txn => put[j].kind # "Ended"
    BY <1>4, <1>5, <1>6 DEF Sequenced
  <2>4. QED
    BY <1>2, <2>1, <2>2, <2>3 DEF Sequenced, InHand
<1>14. Late'
  <2>1. \A m \in calls' : m.pc = "stamped" => m \in calls
    BY <1>5, <1>6
  <2>2. QED
    BY <1>2, <1>3, <2>1, KeepLate
<1>15. Closing'
  <2>1. \A s : Ending(s) => Ending(s)'
    BY <1>1, <1>2, <1>5 DEF Ending
  <2>2. \A m \in calls : m.kind = "Ended" /\ m.pc = "new" => m \in calls'
    BY <1>1, <1>4
  <2>3. \A m \in calls' :
          (m.kind = "Started" /\ m.pc # "new") \/ (m.kind = "Ended" /\ m.pc = "new") => m \in calls
    BY <1>5, <1>6
  <2>4. CASE UNCHANGED <<registered, builders, ints, cut>>
    BY <1>3, <2>1, <2>2, <2>3, <2>4, KeepClosing
  <2>5. CASE ~UNCHANGED <<registered, builders, ints, cut>>
    <3>1. \A c \in Conn : builders[c] \in cut' \cup {0}
      BY <1>2, <2>5 DEF ForgetsBooks
    <3>2. ASSUME NEW s \in (1..started) \ cut' PROVE s \notin cut /\ s # 0
      BY <1>2, <2>5, <3>2, SessionAt DEF ForgetsBooks, SessionsTyped
    <3>3. ASSUME NEW s \in (1..started) \ cut', Closes(s) PROVE Closes(s)'
      <4>1. \A c \in Conn : \A i : ~Held(s, c, i)
        BY <3>1, <3>2, <3>3 DEF Held
      <4>2. \A m \in calls : m.conn \in Conn
        BY CallAt
      <4>3. /\ \/ \E c \in Conn : session'[c].s = s
               \/ \E m \in calls' : m.kind = "Ended" /\ m.pc = "new" /\ m.s = s
            /\ \A c \in Conn : ~(session'[c].s = s /\ session'[c].own)
        BY <1>3, <2>2, <3>3, <4>1 DEF Closes
      <4>4. \A m \in calls' : m.s = s =>
              ~((m.kind = "Started" /\ m.pc # "new") \/ (m.kind = "Ended" /\ m.pc = "new"))
        BY <2>3, <3>3, <4>1, <4>2 DEF Closes
      <4>5. QED
        BY <4>3, <4>4 DEF Closes
    <3>4. QED
      BY <1>3, <2>1, <3>2, <3>3 DEF Closing
  <2>6. QED
    BY <2>4, <2>5
<1>16. QED
  BY <1>6, <1>8, <1>9, <1>10, <1>11, <1>12, <1>13, <1>14, <1>15

\* seqNo++ and persistTransactions.
LEMMA StampTx == ASSUME TxInv, NEW k \in calls, Stamp(k) PROVE TxInv'
<1> USE DEF TxInv, Typed
<1>1. /\ k.pc = "numbered" /\ InHand(k) /\ k \in CallType /\ k.txn \in Session /\ k.seq \in Nat
      /\ k.txn # 0 /\ k.txn \in Heard /\ drops \in Nat /\ connected \in BOOLEAN
  BY CallAt, HeardOf DEF Stamp, InHand, CallsTyped, LinkTyped
<1>2. UNCHANGED <<engine, builders, ints, nextTx, queue, drain, failed, marking, link,
                  reset, bounds, history>>
  BY DEF Stamp
<1>3. UNCHANGED <<session, saved, started, updates, connected, registered, pendingReset, resetter,
                  drops, restarts, resets, put, got, buried, raced, cut, excused>>
  BY <1>2 DEF engine, link, reset, bounds, history
<1>4. started \in Nat /\ updates \in Nat /\ nextTx \in Nat
  BY DEF SessionsTyped, BooksTyped
<1>5. SessionsTyped' /\ QueueTyped' /\ LinkTyped' /\ Numbered' /\ Cascades'
  BY <1>2, <1>3, KeepTyped, KeepNumbered, KeepCascades
<1>6. PICK l : /\ l = [k EXCEPT !.pc = "stamped", !.offline = ~connected, !.born = drops]
               /\ calls' = (calls \ {k}) \cup {l}
               /\ seqNo' = [seqNo EXCEPT ![k.txn] = k.seq + 1]
               /\ disk' = [Books EXCEPT !.seqNo = seqNo']
  BY DEF Stamp, Becomes, Counted
<1>7. /\ l \in CallType /\ l.kind = k.kind /\ l.s = k.s /\ l.conn = k.conn /\ l.tx = k.tx
      /\ l.pc = "stamped" /\ l.txn = k.txn /\ l.seq = k.seq /\ l.born = drops /\ InHand(l)
  BY <1>1, <1>6 DEF CallType, InHand
<1>8. /\ CallsTyped'
      /\ \A m \in calls' : m = l \/ (m \in calls /\ m # k)
      /\ Cardinality(StartsToCome') \in Nat /\ Cardinality(UpdatesToCome') \in Nat
      /\ Cardinality(StartsToCome') <= Cardinality(StartsToCome)
      /\ Cardinality(UpdatesToCome') <= Cardinality(UpdatesToCome)
  BY <1>1, <1>3, <1>6, <1>7, CallGoesOn
<1>9. /\ seqNo' \in [Session -> Nat]
      /\ seqNo'[k.txn] = k.seq + 1 /\ \A s \in Session : s # k.txn => seqNo'[s] = seqNo[s]
      /\ disk'.builders = builders /\ disk'.seqNo = seqNo' /\ disk'.ints = ints /\ disk'.nextTx = nextTx
      /\ disk' = [builders |-> builders, seqNo |-> seqNo', ints |-> ints, nextTx |-> nextTx]
  BY <1>1, <1>6 DEF BooksTyped, Books
<1>10. BooksTyped'
  <2>1. disk' \in BookType
    BY <1>9 DEF BooksTyped, BookType
  <2>2. QED
    BY <1>2, <1>3, <1>9, <2>1 DEF BooksTyped
<1>11. Counts'
  <2>1. PutOf("Updated")' = PutOf("Updated")
    BY <1>3 DEF PutOf
  <2>2. QED
    BY <1>2, <1>3, <1>4, <1>8, <2>1, ToComeFinite DEF Counts
<1>12. Starts'
  <2>1. Heard' \subseteq Heard \cup {0}
    <3>1. \A m \in calls' : m.txn \in Heard \cup {0}
      BY <1>1, <1>7, <1>8, HeardOf
    <3>2. \A c \in Conn : builders'[c] \in Heard \cup {0} /\ disk'.builders[c] \in Heard \cup {0}
      BY <1>2, <1>9, HeardOf
    <3>3. QED
      BY <1>3, <3>1, <3>2, HeardLess
  <2>2. \A s \in Session : Fresh(s) => Fresh(s)'
    BY <1>1, <1>9, <2>1 DEF Fresh, Session
  <2>3. \A m \in calls' : m.kind = "Started" =>
          /\ \A n \in calls' : n.kind = "Started" /\ n.s = m.s => n = m
          /\ m.pc = "new" => Fresh(m.s)
          /\ InHand(m) => /\ m.txn = m.s /\ m.seq = 0
                          /\ \A j \in 1..Len(put) : put[j].s = m.s => put[j].kind # "Started"
    BY <1>1, <1>7, <1>8 DEF Starts
  <2>4. \A m \in calls' : m.s \in Session
    BY <1>8 DEF CallsTyped, CallType
  <2>5. QED
    BY <1>3, <2>2, <2>3, <2>4 DEF Starts, InHand
<1>13. Ends'
  <2>1. \A m \in calls' : m.kind = "Ended" /\ InHand(m) =>
          /\ \A c \in Conn : builders[c] # m.txn
          /\ \A j \in 1..Len(put) : put[j].s = m.txn => put[j].kind # "Ended"
          /\ \A n \in calls' : n.kind = "Ended" /\ InHand(n) /\ n.txn = m.txn => n = m
    BY <1>1, <1>7, <1>8 DEF Ends
  <2>2. QED
    BY <1>2, <1>3, <1>9, <2>1 DEF Ends, InHand
<1>14. Sequenced'
  <2>1. EventsInOrder'
    BY <1>3 DEF Sequenced, EventsInOrder
  <2>2. \A m, n \in calls' : InHand(m) /\ InHand(n) /\ m.txn = n.txn /\ m.txn \notin raced => m = n
    BY <1>1, <1>7, <1>8 DEF Sequenced
  <2>3. \A m \in calls : m # k /\ InHand(m) /\ m.txn \notin raced => m.txn # k.txn /\ m.txn \in Session
    BY <1>1, CallAt DEF Sequenced
  <2>4. \A j \in 1..Len(put) : put[j].s \notin raced =>
           put[j].seq < seqNo'[put[j].s]
    <3>1. ASSUME NEW j \in 1..Len(put), put[j].s \notin raced PROVE put[j].seq < seqNo'[put[j].s]
      <4>1. put[j].s \in Session /\ put[j].seq \in Nat /\ put[j].seq < seqNo[put[j].s]
        BY <3>1, PutAt DEF Sequenced
      <4>2. CASE put[j].s = k.txn
        BY <1>1, <1>9, <3>1, <4>1, <4>2 DEF Sequenced
      <4>3. CASE put[j].s # k.txn
        BY <1>9, <4>1, <4>3
      <4>4. QED
        BY <4>2, <4>3
    <3>2. QED
      BY <3>1
  <2>5. k.txn \notin raced => /\ l.seq < seqNo'[l.txn]
                              /\ \A j \in 1..Len(put) : put[j].s = l.txn => put[j].seq < l.seq
    <3>1. k.txn \notin raced => \A j \in 1..Len(put) : put[j].s = k.txn => put[j].seq < k.seq
      BY <1>1 DEF Sequenced
    <3>2. QED
      BY <1>1, <1>7, <1>9, <3>1
  <2>6. \A m \in calls' : m.txn \notin raced =>
          /\ m.pc \in {"last", "numbered"} => m.seq = seqNo'[m.txn]
          /\ m.pc = "stamped" =>
                /\ m.seq < seqNo'[m.txn]
                /\ \A j \in 1..Len(put) : put[j].s = m.txn => put[j].seq < m.seq
          /\ InHand(m) => \A j \in 1..Len(put) : put[j].s = m.txn => put[j].kind # "Ended"
    <3>1. l.txn \notin raced => \A j \in 1..Len(put) : put[j].s = l.txn => put[j].kind # "Ended"
      BY <1>1, <1>7 DEF Sequenced
    <3>2. ASSUME NEW m \in calls, m # k, m.txn \notin raced, InHand(m)
          PROVE  /\ m.pc \in {"last", "numbered"} => m.seq = seqNo'[m.txn]
                 /\ m.pc = "stamped" =>
                      /\ m.seq < seqNo'[m.txn]
                      /\ \A j \in 1..Len(put) : put[j].s = m.txn => put[j].seq < m.seq
                 /\ \A j \in 1..Len(put) : put[j].s = m.txn => put[j].kind # "Ended"
      BY <1>9, <2>3, <3>2 DEF Sequenced
    <3>3. QED
      BY <1>7, <1>8, <2>5, <3>1, <3>2 DEF InHand
  <2>7. QED
    BY <1>3, <1>9, <2>1, <2>2, <2>4, <2>6 DEF Sequenced, InHand
<1>15. Late'
  <2>1. \A m \in calls' : m.pc = "stamped" =>
          m.born <= drops /\ (m.born < drops => m.offline \/ <<m.txn, m.seq>> \in excused)
    BY <1>1, <1>7, <1>8 DEF Late
  <2>2. OfflineTold'
    BY <1>3 DEF Late, OfflineTold
  <2>3. \A r : ToBeMarked(r)' = ToBeMarked(r)
    BY <1>2 DEF ToBeMarked
  <2>4. QED
    BY <1>2, <1>3, <2>1, <2>2, <2>3 DEF Late, Pair
<1>16. Closing'
  <2>1. \A s : Ending(s) => Ending(s)'
    <3>1. \A m \in calls : m # k => m \in calls'
      BY <1>6
    <3>2. l \in calls'
      BY <1>6
    <3>3. ASSUME NEW s, NEW m \in calls, m.kind = "Ended", InHand(m), m.txn = s PROVE Ending(s)'
      BY <1>7, <3>1, <3>2, <3>3 DEF Ending, InHand
    <3>4. QED
      BY <1>3, <3>3 DEF Ending
  <2>2. \A m \in calls : m.pc = "new" => m \in calls'
    BY <1>1, <1>6
  <2>3. \A m \in calls' : \E n \in calls : /\ n.kind = m.kind /\ n.s = m.s /\ n.conn = m.conn /\ n.tx = m.tx
                                           /\ n.pc = "new" <=> m.pc = "new"
    BY <1>1, <1>7, <1>8
  <2>4. QED
    BY <1>2, <1>3, <2>1, <2>2, <2>3, KeepClosing
<1>17. QED
  BY <1>5, <1>8, <1>10, <1>11, <1>12, <1>13, <1>14, <1>15, <1>16

\* The record and its content are appended; the rest stands.
LEMMA EnqueueOps ==
    ASSUME Typed, NEW k \in calls, Enqueue(k)
    PROVE  /\ put' \in Seq(PutType) /\ Len(put') = Len(put) + 1 /\ queue' \in Seq(RecordType)
           /\ Len(queue') = Len(queue) + 1 /\ Len(put) \in Nat /\ Len(queue) \in Nat
           /\ \A j \in 1..Len(put) : put'[j] = put[j]
           /\ \A i \in 1..Len(queue) : queue'[i] = queue[i]
           /\ \A c \in {put'[Len(put) + 1]} : c.s = k.txn /\ c.kind = k.kind /\ c.seq = k.seq
           /\ \A r \in {queue'[Len(queue) + 1]} :
                 /\ r.id = Len(put) + 1 /\ Content(r) = put'[Len(put) + 1]
                 /\ r.s = k.txn /\ r.seq = k.seq /\ r.offline = k.offline /\ r.born = k.born
<1> USE DEF Typed
<1>1. /\ k.txn \in Session /\ k.kind \in Kind /\ k.seq \in Nat /\ k.born \in Nat /\ k.offline \in BOOLEAN
  BY CallAt DEF Enqueue, InHand, CallsTyped, CallType
<1>2. put \in Seq(PutType) /\ queue \in Seq(RecordType) /\ Len(put) \in Nat /\ Len(queue) \in Nat
  BY LenProperties DEF QueueTyped
<1>3. PICK c, r : /\ c = [s |-> k.txn, kind |-> k.kind, seq |-> k.seq]
                  /\ r = [Record(k.txn, k.kind, k.seq, k.offline, k.born) EXCEPT !.id = Len(put')]
                  /\ put' = Append(put, c) /\ queue' = Append(queue, r)
  BY DEF Enqueue
<1>4. c \in PutType /\ c.s = k.txn /\ c.kind = k.kind /\ c.seq = k.seq
  BY <1>1, <1>3 DEF PutType
<1>5. /\ put' \in Seq(PutType) /\ Len(put') = Len(put) + 1 /\ put'[Len(put) + 1] = c
      /\ \A j \in 1..Len(put) : put'[j] = put[j]
  BY <1>2, <1>3, <1>4, AppendProperties
<1>6. /\ r \in RecordType /\ r.id = Len(put) + 1 /\ r.s = k.txn /\ r.kind = k.kind /\ r.seq = k.seq
      /\ r.offline = k.offline /\ r.born = k.born
  <2>1. PICK n : n = Len(put) + 1
    OBVIOUS
  <2>2. n \in Nat
    BY <1>2, <2>1
  <2>3. r = [Record(k.txn, k.kind, k.seq, k.offline, k.born) EXCEPT !.id = n]
    BY <1>3, <1>5, <2>1
  <2>4. r = [s |-> k.txn, kind |-> k.kind, seq |-> k.seq, offline |-> k.offline, born |-> k.born,
             id |-> n, retries |-> 0, raw |-> FALSE]
    BY <2>3 DEF Record
  <2>5. r \in RecordType
    BY <1>1, <2>2, <2>4 DEF RecordType
  <2>6. QED
    BY <2>1, <2>4, <2>5
<1>7. /\ queue' \in Seq(RecordType) /\ Len(queue') = Len(queue) + 1 /\ queue'[Len(queue) + 1] = r
      /\ \A i \in 1..Len(queue) : queue'[i] = queue[i]
  <2>1. queue \in Seq(RecordType) /\ r \in RecordType /\ queue' = Append(queue, r)
    BY <1>2, <1>3, <1>6
  <2>2. QED
    BY <2>1, AppendProperties
<1>8. Content(r) = c
  BY <1>3, <1>4, <1>6 DEF Content
<1>9. QED
  BY <1>2, <1>4, <1>5, <1>6, <1>7, <1>8

\* Enqueue.
LEMMA EnqueueTx == ASSUME TxInv, NEW k \in calls, Enqueue(k) PROVE TxInv'
<1> USE DEF TxInv, Typed
<1>1. /\ k.pc = "stamped" /\ InHand(k) /\ k \in CallType /\ k.txn \in Session /\ k.seq \in Nat
      /\ k.txn # 0 /\ k.txn \in Heard /\ k.kind \in Kind
  BY CallAt, HeardOf DEF Enqueue, InHand, CallsTyped
<1>2. UNCHANGED <<engine, books, disk, drain, failed, marking, link, reset, bounds,
                  got, buried, raced, cut, excused>>
  BY DEF Enqueue
<1>3. UNCHANGED <<session, saved, started, updates, connected, registered, pendingReset, resetter,
                  drops, restarts, resets, builders, seqNo, ints, nextTx>>
  BY <1>2 DEF engine, books, link, reset, bounds
<1>4. started \in Nat /\ updates \in Nat /\ nextTx \in Nat
  BY DEF SessionsTyped, BooksTyped
<1>5. PICK n, m, c, r : /\ n = Len(put) + 1 /\ m = Len(queue) + 1 /\ c = put'[n] /\ r = queue'[m]
  OBVIOUS
<1>6. /\ put' \in Seq(PutType) /\ Len(put') = n /\ queue' \in Seq(RecordType)
      /\ Len(queue') = m /\ Len(put) \in Nat /\ Len(queue) \in Nat
      /\ n = Len(put) + 1 /\ m = Len(queue) + 1
      /\ \A j \in 1..Len(put) : put'[j] = put[j]
      /\ \A i \in 1..Len(queue) : queue'[i] = queue[i]
      /\ put'[n] = c /\ c.s = k.txn /\ c.kind = k.kind /\ c.seq = k.seq
      /\ queue'[m] = r /\ r.id = n /\ Content(r) = c
      /\ r.s = k.txn /\ r.seq = k.seq /\ r.offline = k.offline /\ r.born = k.born
  BY <1>5, EnqueueOps
<1>7. /\ \A j \in 1..Len(put') : j \in 1..Len(put) \/ j = n
      /\ \A i \in 1..Len(queue') : i \in 1..Len(queue) \/ i = m
      /\ \A j \in 1..Len(put) : j \in 1..Len(put') /\ j < n
      /\ \A i \in 1..Len(queue) : i \in 1..Len(queue') /\ i < m
      /\ n \in 1..Len(put') /\ m \in 1..Len(queue')
  BY <1>6
<1>8. PICK l : /\ l = [k EXCEPT !.pc = IF k.kind = "Ended" THEN "ended" ELSE "queued"]
               /\ \/ k.kind = "Updated" /\ calls' = calls \ {k}
                  \/ k.kind # "Updated" /\ calls' = (calls \ {k}) \cup {l}
  BY DEF Enqueue, Returns, Becomes
<1>9. /\ l \in CallType /\ l.kind = k.kind /\ l.s = k.s /\ l.conn = k.conn /\ l.tx = k.tx
      /\ l.pc \in {"ended", "queued"} /\ (l.pc = "ended" <=> k.kind = "Ended")
      /\ l.txn = k.txn /\ ~InHand(l)
  BY <1>1, <1>8 DEF CallType, InHand
<1>10. /\ \A x \in calls' : (x = l /\ k.kind # "Updated") \/ (x \in calls /\ x # k)
       /\ \A x \in calls' : InHand(x) => x \in calls /\ x # k
  BY <1>8, <1>9
<1>11. CallsTyped' /\ Counts'
  <2>1. PICK e : e = [k EXCEPT !.pc = "ended"]
    OBVIOUS
  <2>2. e \in CallType /\ e.kind = k.kind /\ e.s = k.s /\ e.pc = "ended" /\ ~InHand(e)
    BY <1>1, <2>1 DEF CallType, InHand
  <2>3. k.kind = "Updated" \/ k.kind = "Ended" \/ k.kind = "Started"
    BY <1>1 DEF Kind
  <2>4. /\ CallsTyped'
        /\ Cardinality(StartsToCome') \in Nat /\ Cardinality(UpdatesToCome') \in Nat
        /\ Cardinality(StartsToCome') <= Cardinality(StartsToCome)
        /\ Cardinality(UpdatesToCome') <= Cardinality(UpdatesToCome)
        /\ k.kind = "Updated" => Cardinality(UpdatesToCome') <= Cardinality(UpdatesToCome) - 1
    <3>1. CASE k.kind = "Updated"
      BY <1>3, <1>8, <2>2, <3>1, CallGoesOn
    <3>2. CASE k.kind # "Updated"
      <4>1. /\ l.kind = k.kind /\ l.pc # "new" /\ ~InHand(l) /\ started' = started
            /\ (l.pc = "queued" => l.kind = "Started") /\ (l.kind = "Started" => l.pc # "ended")
            /\ l.pc # "last"
        BY <1>3, <1>9, <2>3, <3>2 DEF InHand
      <4>2. l \in CallType /\ l.s = k.s /\ calls' = (calls \ {k}) \cup {l}
        BY <1>8, <1>9, <3>2
      <4>3. QED
        BY <3>2, <4>1, <4>2, CallGoesOn
    <3>3. QED
      BY <3>1, <3>2
  <2>5. /\ PutOf("Updated")' \subseteq PutOf("Updated") \cup {n}
        /\ k.kind # "Updated" => PutOf("Updated")' \subseteq PutOf("Updated")
    BY <1>6, <1>7 DEF PutOf
  <2>6. /\ Cardinality(PutOf("Updated")') \in Nat /\ Cardinality(PutOf("Updated")) \in Nat
        /\ Cardinality(PutOf("Updated")') <= Cardinality(PutOf("Updated")) + 1
        /\ k.kind # "Updated" => Cardinality(PutOf("Updated")') <= Cardinality(PutOf("Updated"))
    BY <2>5, ToComeFinite, Fewer
  <2>7. QED
    BY <1>3, <1>4, <2>4, <2>6, ToComeFinite DEF Counts
<1>12. SessionsTyped' /\ BooksTyped' /\ QueueTyped' /\ LinkTyped'
  <2>1. SessionsTyped' /\ BooksTyped' /\ LinkTyped'
    BY <1>2, <1>3, KeepTyped
  <2>2. QueueTyped'
    BY <1>2, <1>6 DEF QueueTyped
  <2>3. QED
    BY <2>1, <2>2
<1>13. Numbered'
  <2>1. \A i \in 1..Len(queue) : queue[i].id \in 1..Len(put) /\ put[queue[i].id] = Content(queue[i])
    BY DEF Numbered
  <2>2. \A i \in 1..Len(queue') : queue'[i].id \in 1..Len(put') /\ put'[queue'[i].id] = Content(queue'[i])
    BY <1>6, <1>7, <2>1
  <2>3. \A i \in 1..Len(marking) :
          marking[i].id \in 1..Len(put') /\ put'[marking[i].id] = Content(marking[i])
    BY <1>6, <1>7 DEF Numbered
  <2>4. \A i, j \in 1..Len(queue') : i < j => queue'[i].id < queue'[j].id
    <3>1. \A i, j \in 1..Len(queue) : i < j => queue'[i].id < queue'[j].id
      BY <1>6 DEF Numbered
    <3>2. \A i \in 1..Len(queue) : queue'[i].id < n
      BY <1>6, <1>7, <2>1
    <3>3. \A i, j \in 1..Len(queue') : i < j => i \in 1..Len(queue) /\ (j \in 1..Len(queue) \/ j = m)
      <4>1. \A i, j \in 1..(Len(queue) + 1) : i < j => i \in 1..Len(queue)
        BY <1>6
      <4>2. QED
        BY <1>6, <1>7, <4>1
    <3>4. QED
      BY <1>6, <3>1, <3>2, <3>3
  <2>5. \A g \in got : /\ g.id \in 1..Len(put') /\ put'[g.id] = Content(g)
                       /\ \A i \in 1..Len(queue') : g.id <= queue'[i].id
    <3>1. ASSUME NEW g \in got
          PROVE  /\ g.id \in 1..Len(put') /\ put'[g.id] = Content(g)
                 /\ \A i \in 1..Len(queue') : g.id <= queue'[i].id
      <4>1. g.id \in 1..Len(put) /\ put[g.id] = Content(g) /\ \A i \in 1..Len(queue) : g.id <= queue[i].id
        BY DEF Numbered
      <4>2. QED
        BY <1>6, <1>7, <4>1
    <3>2. QED
      BY <3>1
  <2>6. \A b \in buried : /\ b.id \in 1..Len(put') /\ put'[b.id].s = b.s /\ put'[b.id].kind = b.kind
                          /\ \A i \in 1..Len(queue') : b.id < queue'[i].id
    <3>1. ASSUME NEW b \in buried
          PROVE  /\ b.id \in 1..Len(put') /\ put'[b.id].s = b.s /\ put'[b.id].kind = b.kind
                 /\ \A i \in 1..Len(queue') : b.id < queue'[i].id
      <4>1. /\ b.id \in 1..Len(put) /\ put[b.id].s = b.s /\ put[b.id].kind = b.kind
            /\ \A i \in 1..Len(queue) : b.id < queue[i].id
        BY DEF Numbered
      <4>2. QED
        BY <1>6, <1>7, <4>1
    <3>2. QED
      BY <3>1
  <2>7. queue # <<>> => queue' # <<>> /\ queue'[1] = queue[1]
    <3>1. queue # <<>> => Len(queue) # 0
      BY EmptySeq DEF QueueTyped
    <3>2. queue' # <<>>
      BY <1>6, EmptySeq
    <3>3. QED
      BY <1>6, <3>1, <3>2
  <2>8. QED
    BY <1>2, <2>2, <2>3, <2>4, <2>5, <2>6, <2>7 DEF Numbered, GotIds
<1>14. Starts'
  <2>1. Heard' \subseteq Heard
    <3>1. \A x \in calls' : x.txn \in Heard
      BY <1>1, <1>9, <1>10, HeardOf
    <3>2. \A j \in 1..Len(put') : put'[j].s \in Heard
      BY <1>1, <1>6, <1>7, HeardOf
    <3>3. QED
      BY <1>2, <1>3, <3>1, <3>2, HeardOf DEF Heard
  <2>2. \A s \in Session : Fresh(s) => Fresh(s)'
    BY <1>2, <1>3, <2>1 DEF Fresh
  <2>3. k.kind = "Started" => k.txn = k.s /\ \A j \in 1..Len(put) : put[j].s = k.s => put[j].kind # "Started"
    BY <1>1 DEF Starts
  <2>4. \A x \in calls' : x.kind = "Started" =>
          /\ \A y \in calls' : y.kind = "Started" /\ y.s = x.s => y = x
          /\ x.pc = "new" => Fresh(x.s) /\ x.s \in Session
          /\ InHand(x) => /\ x.txn = x.s /\ x.seq = 0
                          /\ \A j \in 1..Len(put) : put[j].s = x.s => put[j].kind # "Started"
    BY <1>9, <1>10, CallAt DEF Starts
  <2>5. \A x \in calls' : x.kind = "Started" /\ InHand(x) =>
          \A j \in 1..Len(put') : put'[j].s = x.s => put'[j].kind # "Started"
    BY <1>6, <1>7, <1>10, <2>3, <2>4 DEF Starts
  <2>6. \A i, j \in 1..Len(put') :
          put'[i].kind = "Started" /\ put'[j].kind = "Started" /\ put'[i].s = put'[j].s => i = j
    <3>1. \A i, j \in 1..Len(put) :
            put'[i].kind = "Started" /\ put'[j].kind = "Started" /\ put'[i].s = put'[j].s => i = j
      BY <1>6 DEF Starts
    <3>2. \A i \in 1..Len(put) : put'[i].kind = "Started" /\ k.kind = "Started" => put'[i].s # k.txn
      BY <1>6, <2>3
    <3>3. QED
      BY <1>6, <1>7, <3>1, <3>2
  <2>7. QED
    BY <1>3, <2>2, <2>4, <2>5, <2>6 DEF Starts, InHand
<1>15. Ends'
  <2>1. k.kind = "Ended" => /\ \A c1 \in Conn : builders[c1] # k.txn /\ disk.builders[c1] # k.txn
                            /\ \A j \in 1..Len(put) : put[j].s = k.txn => put[j].kind # "Ended"
                            /\ \A x \in calls : x.kind = "Ended" /\ InHand(x) /\ x # k => x.txn # k.txn
    BY <1>1 DEF Ends
  <2>2. \A x \in calls' : x.kind = "Ended" /\ InHand(x) =>
          /\ \A c1 \in Conn : builders[c1] # x.txn
          /\ x.pc = "stamped" => \A c1 \in Conn : disk.builders[c1] # x.txn
          /\ \A j \in 1..Len(put') : put'[j].s = x.txn => put'[j].kind # "Ended"
          /\ \A y \in calls' : y.kind = "Ended" /\ InHand(y) /\ y.txn = x.txn => y = x
    BY <1>6, <1>7, <1>10, <2>1 DEF Ends
  <2>3. \A j \in 1..Len(put') : put'[j].kind = "Ended" =>
          \A c1 \in Conn : builders[c1] # put'[j].s /\ disk.builders[c1] # put'[j].s
    BY <1>6, <1>7, <2>1 DEF Ends
  <2>4. \A i, j \in 1..Len(put') :
          put'[i].kind = "Ended" /\ put'[j].kind = "Ended" /\ put'[i].s = put'[j].s => i = j
    <3>1. \A i, j \in 1..Len(put) :
            put'[i].kind = "Ended" /\ put'[j].kind = "Ended" /\ put'[i].s = put'[j].s => i = j
      BY <1>6 DEF Ends
    <3>2. \A i \in 1..Len(put) : put'[i].kind = "Ended" /\ k.kind = "Ended" => put'[i].s # k.txn
      BY <1>6, <2>1
    <3>3. QED
      BY <1>6, <1>7, <3>1, <3>2
  <2>5. /\ \A c1, d \in Conn : builders[c1] = builders[d] /\ builders[c1] # 0 => c1 = d
        /\ \A c1, d \in Conn : disk.builders[c1] = disk.builders[d] /\ disk.builders[c1] # 0 => c1 = d
    BY DEF Ends
  <2>6. QED
    BY <1>2, <1>3, <2>2, <2>3, <2>4, <2>5 DEF Ends, InHand
<1>16. Sequenced'
  <2>1. k.txn \notin raced =>
           /\ k.seq < seqNo[k.txn] /\ k.seq < disk.seqNo[k.txn]
           /\ \A j \in 1..Len(put) : put[j].s = k.txn => put[j].seq < k.seq /\ put[j].kind # "Ended"
           /\ \A x \in calls : InHand(x) /\ x # k => x.txn # k.txn
    BY <1>1 DEF Sequenced
  <2>2. k.kind = "Started" => k.seq = 0 /\ \A j \in 1..Len(put) : put[j].s = k.txn => put[j].kind # "Started"
    BY <1>1 DEF Starts
  <2>3. \A x, y \in calls' : InHand(x) /\ InHand(y) /\ x.txn = y.txn /\ x.txn \notin raced => x = y
    BY <1>10 DEF Sequenced
  <2>4. \A j \in 1..Len(put') : put'[j].s \notin raced =>
          put'[j].seq < seqNo[put'[j].s] /\ put'[j].seq < disk.seqNo[put'[j].s]
    BY <1>6, <1>7, <2>1 DEF Sequenced
  <2>5. \A x \in calls' : x.txn \notin raced =>
          /\ x.pc \in {"last", "numbered"} => x.seq = seqNo[x.txn]
          /\ x.pc = "stamped" =>
                /\ x.seq < seqNo[x.txn] /\ x.seq < disk.seqNo[x.txn]
                /\ \A j \in 1..Len(put') : put'[j].s = x.txn => put'[j].seq < x.seq
          /\ InHand(x) => \A j \in 1..Len(put') : put'[j].s = x.txn => put'[j].kind # "Ended"
    <3>1. ASSUME NEW x \in calls', InHand(x), x.txn \notin raced
          PROVE  /\ x \in calls /\ \A j \in 1..Len(put') : put'[j].s = x.txn => j \in 1..Len(put) /\ put'[j] = put[j]
      <4>1. x \in calls /\ x # k
        BY <1>10, <3>1
      <4>2. x.txn # k.txn
        BY <1>1, <2>1, <3>1, <4>1
      <4>3. QED
        BY <1>6, <1>7, <4>1, <4>2
    <3>2. QED
      BY <3>1 DEF Sequenced, InHand
  <2>6. EventsInOrder'
    <3>1. DOMAIN put = 1..Len(put) /\ DOMAIN put' = 1..Len(put')
      BY <1>6, LenProperties, PutAt
    <3>2. ASSUME NEW j \in 1..Len(put'), put'[j].s \notin raced
          PROVE  /\ put'[j].kind = "Started" => put'[j].seq = 0
                 /\ \A i \in 1..(j - 1) : put'[i].s = put'[j].s =>
                       put'[i].seq < put'[j].seq /\ put'[i].kind # "Ended" /\ put'[j].kind # "Started"
      <4>1. CASE j = n
        <5>1. \A i \in 1..(j - 1) : i \in 1..Len(put) /\ put'[i] = put[i] /\ put[i].seq \in Nat
          BY <1>6, <4>1, PutAt
        <5>2. k.kind = "Started" => \A i \in 1..(j - 1) : put[i].s # k.txn
          BY <1>6, <2>1, <2>2, <3>2, <4>1, <5>1
        <5>3. QED
          BY <1>6, <2>1, <2>2, <3>2, <4>1, <5>1, <5>2
      <4>2. CASE j \in 1..Len(put)
        <5>1. \A i \in 1..(j - 1) : i \in 1..Len(put) /\ put'[i] = put[i]
          BY <1>6, <4>2
        <5>2. put'[j] = put[j]
          BY <1>6, <4>2
        <5>3. /\ put[j].kind = "Started" => put[j].seq = 0
              /\ \A i \in 1..(j - 1) : put[i].s = put[j].s =>
                    put[i].seq < put[j].seq /\ put[i].kind # "Ended" /\ put[j].kind # "Started"
          BY <3>1, <3>2, <4>2, <5>2 DEF Sequenced, EventsInOrder
        <5>4. QED
          BY <5>1, <5>2, <5>3
      <4>3. QED
        BY <1>7, <4>1, <4>2
    <3>3. QED
      BY <1>2, <3>1, <3>2 DEF EventsInOrder
  <2>7. QED
    BY <1>2, <1>3, <2>3, <2>4, <2>5, <2>6 DEF Sequenced, InHand
<1>17. Late'
  <2>1. OfflineTold'
    BY <1>2 DEF Late, OfflineTold
  <2>2. \A x : ToBeMarked(x)' = ToBeMarked(x)
    BY <1>2 DEF ToBeMarked
  <2>3. k.born <= drops /\ (k.born < drops => k.offline \/ <<k.txn, k.seq>> \in excused)
    BY <1>1 DEF Late
  <2>4. \A j \in 1..Len(marking) : marking[j].id # n
    BY <1>6 DEF Numbered
  <2>5. \A i \in 1..Len(queue') :
          /\ queue'[i].born <= drops
          /\ queue'[i].born < drops =>
                queue'[i].offline \/ Pair(queue'[i]) \in excused \/ ToBeMarked(queue'[i])
          /\ \A j \in 1..Len(marking) : marking[j].id = queue'[i].id => marking[j].born = queue'[i].born
    <3>1. \A i \in 1..Len(queue) :
            /\ queue[i].born <= drops
            /\ queue[i].born < drops =>
                  queue[i].offline \/ Pair(queue[i]) \in excused \/ ToBeMarked(queue[i])
            /\ \A j \in 1..Len(marking) : marking[j].id = queue[i].id => marking[j].born = queue[i].born
      BY DEF Late
    <3>2. r.born <= drops /\ (r.born < drops => r.offline \/ Pair(r) \in excused)
      BY <1>6, <2>3 DEF Pair
    <3>3. \A j \in 1..Len(marking) : marking[j].id # r.id
      BY <1>6, <2>4
    <3>4. \A i \in 1..Len(queue') : (i \in 1..Len(queue) /\ queue'[i] = queue[i]) \/ queue'[i] = r
      BY <1>6, <1>7
    <3>5. QED
      BY <3>1, <3>2, <3>3, <3>4
  <2>6. drain.pc # "idle" => queue'[1] = queue[1]
    <3>1. queue # <<>> => Len(queue) # 0
      BY EmptySeq DEF QueueTyped
    <3>2. Len(queue) # 0 => 1 \in 1..Len(queue)
      BY <1>6
    <3>3. QED
      BY <1>6, <3>1, <3>2 DEF Numbered
  <2>7. \A x \in calls' : x.pc = "stamped" => x \in calls
    BY <1>9, <1>10
  <2>8. QED
    BY <1>2, <1>3, <2>1, <2>2, <2>5, <2>6, <2>7 DEF Late, Pair
<1>18. Cascades'
  BY <1>2, <1>3, KeepCascades
<1>19. Closing'
  <2>1. \A s : Ending(s) => Ending(s)'
    <3>1. ASSUME NEW s, NEW x \in calls, x.kind = "Ended", InHand(x), x.txn = s PROVE Ending(s)'
      <4>1. CASE x = k
        BY <1>6, <1>7, <3>1, <4>1 DEF Ending
      <4>2. CASE x # k
        BY <1>8, <3>1, <4>2 DEF Ending, InHand
      <4>3. QED
        BY <4>1, <4>2
    <3>2. \A j \in 1..Len(put) : j \in 1..Len(put') /\ put'[j] = put[j]
      BY <1>6, <1>7
    <3>3. QED
      BY <3>1, <3>2 DEF Ending
  <2>2. \A x \in calls : x.pc = "new" => x \in calls'
    BY <1>1, <1>8
  <2>3. \A x \in calls' : \E y \in calls : /\ y.kind = x.kind /\ y.s = x.s /\ y.conn = x.conn /\ y.tx = x.tx
                                           /\ y.pc = "new" <=> x.pc = "new"
    BY <1>1, <1>9, <1>10
  <2>4. QED
    BY <1>2, <1>3, <2>1, <2>2, <2>3, KeepClosing
<1>20. QED
  BY <1>11, <1>12, <1>13, <1>14, <1>15, <1>16, <1>17, <1>18, <1>19

\* SetActiveTransaction: the session that is the call's own has its number from now on.
LEMMA SetActiveTx == ASSUME TxInv, NEW k \in calls, SetActive(k) PROVE TxInv'
<1> USE DEF TxInv, Typed
<1>1. /\ k.pc = "queued" /\ ~InHand(k) /\ k \in CallType /\ k.kind = "Started"
      /\ k.conn \in Conn /\ k.tx \in Int /\ k.s \in Session /\ k.s # 0
  BY CallAt DEF SetActive, InHand, CallsTyped, Session
<1>2. UNCHANGED <<saved, started, updates, books, disk, queue, drain, failed,
                  marking, link, reset, bounds, history>>
  BY DEF SetActive
<1>3. UNCHANGED <<builders, seqNo, ints, nextTx, connected, registered, pendingReset, resetter,
                  drops, restarts, resets, put, got, buried, raced, cut, excused>>
  BY <1>2 DEF books, link, reset, bounds, history
<1>4. started \in Nat /\ updates \in Nat /\ nextTx \in Nat
  BY DEF SessionsTyped, BooksTyped
<1>5. PICK cur, new : /\ cur = session[k.conn]
                      /\ new = IF cur = NoSession THEN cur ELSE [cur EXCEPT !.tx = k.tx, !.own = cur.s = k.s]
                      /\ session' = [session EXCEPT ![k.conn] = new]
                      /\ calls' = calls \ {k}
  BY DEF SetActive, Returns
<1>6. /\ new \in SessionType /\ new.s = cur.s
      /\ cur # NoSession => new.tx = k.tx /\ (new.own <=> cur.s = k.s)
  <2>1. cur \in SessionType
    BY <1>1, <1>5 DEF SessionsTyped
  <2>2. CASE cur = NoSession
    BY <1>5, <2>1, <2>2
  <2>3. CASE cur # NoSession
    <3>1. cur \in [s : Session, tx : Int, own : BOOLEAN]
      BY <2>1, <2>3 DEF SessionType
    <3>2. new = [s |-> cur.s, tx |-> k.tx, own |-> (cur.s = k.s)]
      BY <1>5, <2>3, <3>1
    <3>3. new \in [s : Session, tx : Int, own : BOOLEAN]
      BY <1>1, <3>1, <3>2
    <3>4. QED
      BY <3>2, <3>3 DEF SessionType
  <2>4. QED
    BY <2>2, <2>3
<1>7. /\ session'[k.conn] = new /\ \A d \in Conn : d # k.conn => session'[d] = session[d]
      /\ \A d \in Conn : session'[d].s = session[d].s
  BY <1>1, <1>5, <1>6 DEF SessionsTyped
<1>8. SessionsTyped'
  <2>1. session' \in [Conn -> SessionType]
    BY <1>1, <1>5, <1>6 DEF SessionsTyped
  <2>2. QED
    BY <1>2, <1>3, <1>7, <2>1 DEF SessionsTyped
<1>9. CallsTyped' /\ Counts'
  <2>1. /\ CallsTyped'
        /\ Cardinality(StartsToCome') \in Nat /\ Cardinality(UpdatesToCome') \in Nat
        /\ Cardinality(StartsToCome') <= Cardinality(StartsToCome)
        /\ Cardinality(UpdatesToCome') <= Cardinality(UpdatesToCome)
    BY <1>1, <1>2, <1>5, CallGoesOn
  <2>2. PutOf("Updated")' = PutOf("Updated")
    BY <1>3 DEF PutOf
  <2>3. QED
    BY <1>2, <1>3, <1>4, <2>1, <2>2, ToComeFinite DEF Counts
<1>10. BooksTyped' /\ QueueTyped' /\ LinkTyped' /\ Numbered' /\ Cascades'
  BY <1>2, <1>3, KeepTyped, KeepNumbered, KeepCascades
<1>11. Starts'
  <2>1. Heard' \subseteq Heard \cup {0}
    BY <1>2, <1>3, <1>5, HeardOf, HeardLess
  <2>2. QED
    BY <1>2, <1>3, <1>4, <1>5, <2>1, CallAt, KeepStarts
<1>12. Ends' /\ Sequenced' /\ Late'
  <2>1. Ends'
    BY <1>2, <1>3, <1>5, PutAt, CallAt, KeepEnds DEF Session
  <2>2. QED
    BY <1>2, <1>3, <1>5, <2>1, KeepSequenced, KeepLate
<1>13. Closing'
  <2>1. \A s : Ending(s) => Ending(s)'
    BY <1>1, <1>3, <1>5 DEF Ending
  <2>2. \A s, c, t : Held(s, c, t)' = Held(s, c, t)
    BY <1>3 DEF Held
  <2>3. ASSUME NEW s \in 1..started, Closes(s) PROVE Closes(s)'
    <3>1. \A m \in calls : m.kind = "Ended" => m \in calls'
      BY <1>1, <1>5
    <3>2. ASSUME NEW c \in Conn, session'[c].s = s, session'[c].own
          PROVE  \A tx : tx = session'[c].tx => Held(s, c, tx)
      <4>1. CASE c = k.conn /\ cur # NoSession
        <5>1. s = k.s /\ session'[c].tx = k.tx
          BY <1>6, <1>7, <3>2, <4>1
        <5>2. Held(s, k.conn, k.tx)
          BY <1>1, <2>3, <5>1 DEF Closes
        <5>3. QED
          BY <4>1, <5>1, <5>2
      <4>2. CASE c # k.conn \/ cur = NoSession
        <5>1. session'[c] = session[c]
          BY <1>5, <1>7, <4>2
        <5>2. QED
          BY <2>3, <3>2, <5>1 DEF Closes
      <4>3. QED
        BY <4>1, <4>2
    <3>3. \A c \in Conn : session'[c].s = s /\ session'[c].own => \A tx : tx = session'[c].tx => Held(s, c, tx)'
      BY <2>2, <3>2
    <3>4. QED
      BY <1>5, <1>7, <2>2, <2>3, <3>1, <3>3 DEF Closes
  <2>4. QED
    BY <1>2, <1>3, <2>1, <2>3 DEF Closing
<1>14. QED
  BY <1>8, <1>9, <1>10, <1>11, <1>12, <1>13

-----------------------------------------------------------------------------
(* The link, registration and restarts.                                    *)

\* Steps of the link, of markQueuedEventsOffline and of the drain.
LEMMA BooksStand ==
    ASSUME TxInv, UNCHANGED <<engine, calls, books, disk, reset, put, raced, cut>>
    PROVE  /\ SessionsTyped' /\ CallsTyped' /\ BooksTyped' /\ Counts'
           /\ Starts' /\ Ends' /\ Sequenced' /\ Closing'
<1> USE DEF TxInv, Typed
<1>1. UNCHANGED <<session, saved, started, updates, pendingReset, resetter, builders, seqNo, ints, nextTx>>
  BY DEF engine, books, reset
<1>2. SessionsTyped' /\ CallsTyped' /\ BooksTyped' /\ Counts'
  BY <1>1, KeepTyped, KeepCounts
<1>3. Starts'
  <2>1. Heard' \subseteq Heard \cup {0}
    BY <1>1, HeardOf, HeardLess
  <2>2. started \in Nat
    BY DEF SessionsTyped
  <2>3. QED
    BY <1>1, <2>1, <2>2, CallAt, KeepStarts
<1>4. Ends' /\ Sequenced'
  <2>1. Ends'
    BY <1>1, PutAt, CallAt, KeepEnds DEF Session
  <2>2. QED
    BY <1>1, <2>1, KeepSequenced
<1>5. Closing'
  <2>1. \A s : Ending(s) => Ending(s)'
    BY DEF Ending
  <2>2. QED
    BY <1>1, <2>1, KeepClosing
<1>6. QED
  BY <1>2, <1>3, <1>4, <1>5

LEMMA QueueAt ==
    ASSUME QueueTyped
    PROVE  /\ Len(queue) \in Nat /\ DOMAIN queue = 1..Len(queue)
           /\ \A i \in 1..Len(queue) : queue[i] \in RecordType
           /\ queue # <<>> => 1 \in 1..Len(queue) /\ Head(queue) = queue[1]
           /\ Len(marking) \in Nat /\ DOMAIN marking = 1..Len(marking)
           /\ \A i \in 1..Len(marking) : marking[i] \in RecordType
           /\ marking # <<>> => 1 \in 1..Len(marking) /\ Head(marking) = marking[1]
<1>1. ASSUME NEW q \in Seq(RecordType)
      PROVE  /\ Len(q) \in Nat /\ DOMAIN q = 1..Len(q) /\ \A i \in 1..Len(q) : q[i] \in RecordType
             /\ q # <<>> => 1 \in 1..Len(q) /\ Head(q) = q[1]
  <2>1. Len(q) \in Nat /\ DOMAIN q = 1..Len(q) /\ \A i \in 1..Len(q) : q[i] \in RecordType
    BY LenProperties, ElementOfSeq
  <2>2. q # <<>> => Len(q) # 0
    BY EmptySeq
  <2>3. \A n \in Nat : n # 0 => 1 \in 1..n
    OBVIOUS
  <2>4. q # <<>> => Head(q) = q[1]
    OBVIOUS
  <2>5. QED
    BY <2>1, <2>2, <2>3, <2>4
<1>2. queue \in Seq(RecordType) /\ marking \in Seq(RecordType)
  BY DEF QueueTyped
<1>3. QED
  BY <1>1, <1>2

\* A record of the queue is replaced by a changed copy.
LEMMA UpdatedOps ==
    ASSUME QueueTyped, NEW r \in RecordType
    PROVE  /\ Updated(r) \in Seq(RecordType) /\ Len(Updated(r)) = Len(queue)
           /\ \A i \in 1..Len(queue) : Updated(r)[i] = IF queue[i].id = r.id THEN r ELSE queue[i]
<1>1. /\ Len(queue) \in Nat /\ DOMAIN queue = 1..Len(queue)
      /\ \A i \in 1..Len(queue) : queue[i] \in RecordType
  BY QueueAt
<1>2. Updated(r) = [i \in 1..Len(queue) |-> IF queue[i].id = r.id THEN r ELSE queue[i]]
  BY <1>1 DEF Updated
<1>3. Updated(r) \in [1..Len(queue) -> RecordType]
  BY <1>1, <1>2
<1>4. Updated(r) \in Seq(RecordType) /\ Len(Updated(r)) = Len(queue)
  BY <1>1, <1>3
<1>5. QED
  BY <1>2, <1>4

LEMMA ConnectTx == ASSUME TxInv, Connect \/ BootNotification PROVE TxInv'
<1> USE DEF TxInv, Typed
<1>1. UNCHANGED <<engine, calls, books, disk, queue, drain, failed, marking, reset, bounds, history>>
  BY DEF Connect, BootNotification
<1>2. UNCHANGED <<drops, restarts, put, got, buried, raced, cut, excused>>
  BY <1>1 DEF bounds, history
<1>3. SessionsTyped' /\ CallsTyped' /\ BooksTyped' /\ Counts' /\ Starts' /\ Ends' /\ Sequenced' /\ Closing'
  BY <1>1, <1>2, BooksStand
<1>4. QueueTyped' /\ Numbered' /\ Cascades'
  BY <1>1, <1>2, KeepTyped, KeepNumbered, KeepCascades
<1>5. LinkTyped'
  BY <1>2 DEF Connect, BootNotification, LinkTyped
<1>6. Late'
  <2>1. connected' => marking' = <<>>
    BY DEF Connect, BootNotification, Late
  <2>2. OfflineTold'
    BY <1>2 DEF Late, OfflineTold
  <2>3. \A r : ToBeMarked(r)' = ToBeMarked(r)
    BY <1>1 DEF ToBeMarked
  <2>4. QED
    BY <1>1, <1>2, <2>1, <2>2, <2>3 DEF Late, Pair
<1>7. QED
  BY <1>3, <1>4, <1>5, <1>6

\* The link is lost: every queued event is to be marked, or says so already.
LEMMA DisconnectTx == ASSUME TxInv, Disconnect PROVE TxInv'
<1> USE DEF TxInv, Typed
<1>1. UNCHANGED <<engine, calls, books, disk, queue, drain, failed, registered, reset,
                  restarts, resets, put, got, buried, raced, cut>>
  BY DEF Disconnect
<1>2. /\ connected' = FALSE /\ drops' = drops + 1 /\ marking' = queue /\ drops \in Nat
      /\ excused' = excused \cup {<<k.txn, k.seq>> : k \in {l \in calls : l.pc = "stamped"}}
                      \cup (IF drain.msg.raw THEN {<<drain.msg.s, drain.msg.seq>>} ELSE {})
  BY DEF Disconnect, LinkTyped
<1>3. SessionsTyped' /\ CallsTyped' /\ BooksTyped' /\ Counts' /\ Starts' /\ Ends' /\ Sequenced' /\ Closing'
  BY <1>1, BooksStand
<1>4. QueueTyped' /\ LinkTyped'
  <2>1. marking' = queue /\ connected' = FALSE /\ drops' \in Nat
    BY <1>2
  <2>2. QueueTyped'
    BY <1>1, <2>1 DEF QueueTyped
  <2>3. LinkTyped'
    BY <1>1, <2>1 DEF LinkTyped
  <2>4. QED
    BY <2>2, <2>3
<1>5. Numbered' /\ Cascades'
  <2>1. Cascades'
    BY <1>1, KeepCascades
  <2>2. Numbered'
    BY <1>1, <1>2 DEF Numbered, GotIds
  <2>3. QED
    BY <2>1, <2>2
<1>6. Late'
  <2>1. \A k \in calls : k.pc = "stamped" =>
          k.born <= drops + 1 /\ <<k.txn, k.seq>> \in excused'
    <3>1. \A k \in calls : k.pc = "stamped" => k.born \in Nat /\ k.born <= drops
      BY CallAt DEF Late
    <3>2. QED
      BY <1>2, <3>1
  <2>2. \A i \in 1..Len(queue) : queue[i].born <= drops + 1
    <3>1. \A i \in 1..Len(queue) : queue[i].born \in Nat /\ queue[i].born <= drops
      BY QueueAt DEF Late, RecordType
    <3>2. QED
      BY <1>2, <3>1
  <2>3. \A i \in 1..Len(queue) : queue[i].offline \/ ToBeMarked(queue[i])'
    <3>1. ASSUME NEW i \in 1..Len(queue), ~queue[i].offline PROVE ToBeMarked(queue[i])'
      <4>1. PICK r : r = queue[i]
        OBVIOUS
      <4>2. ToBeMarked(r)'
        BY <1>2, <3>1, <4>1 DEF ToBeMarked
      <4>3. queue' = queue
        BY <1>1
      <4>4. QED
        BY <4>1, <4>2, <4>3
    <3>2. QED
      BY <3>1
  <2>4. \A i, j \in 1..Len(queue) : queue[j].id = queue[i].id => queue[j].born = queue[i].born
    <3>1. \A i, j \in 1..Len(queue) : i < j => queue[i].id # queue[j].id
      <4>1. \A i \in 1..Len(queue) : queue[i].id \in Nat
        BY QueueAt DEF RecordType
      <4>2. \A i, j \in 1..Len(queue) : i < j => queue[i].id < queue[j].id
        BY DEF Numbered
      <4>3. QED
        BY <4>1, <4>2
    <3>2. \A i, j \in 1..Len(queue) : i # j => i < j \/ j < i
      BY QueueAt
    <3>3. QED
      BY <3>1, <3>2
  <2>5. drain.pc # "idle" /\ drain.msg.raw => Pair(drain.msg) \in excused'
    BY <1>2 DEF Pair
  <2>6. OfflineTold'
    BY <1>1, <1>2 DEF Late, OfflineTold
  <2>7. drain.pc # "idle" => drain.msg.born = queue[1].born
    BY DEF Late
  <2>8. QED
    BY <1>1, <1>2, <2>1, <2>2, <2>3, <2>4, <2>5, <2>6, <2>7 DEF Late, Pair
<1>7. QED
  BY <1>3, <1>4, <1>5, <1>6

\* markQueuedEventsOffline comes to one more record.
LEMMA MarkTx == ASSUME TxInv, Mark PROVE TxInv'
<1> USE DEF TxInv, Typed
<1>1. UNCHANGED <<engine, calls, books, disk, drain, failed, link, reset, bounds, history>>
  BY DEF Mark
<1>2. UNCHANGED <<connected, registered, drops, restarts, resets, put, got, buried, raced, cut, excused>>
  BY <1>1 DEF link, bounds, history
<1>3. SessionsTyped' /\ CallsTyped' /\ BooksTyped' /\ Counts' /\ Starts' /\ Ends' /\ Sequenced' /\ Closing'
  BY <1>1, <1>2, BooksStand
<1>4. PICK m : m = marking[1]
  OBVIOUS
<1>5. /\ marking # <<>> /\ m \in RecordType /\ Head(marking) = m /\ 1 \in 1..Len(marking)
      /\ marking' = Tail(marking) /\ Len(marking) \in Nat
      /\ queue' = IF m.offline THEN queue ELSE Updated(Marked(m))
  BY <1>4, QueueAt DEF Mark
<1>6. /\ marking' \in Seq(RecordType) /\ Len(marking') = Len(marking) - 1
      /\ \A j \in 1..Len(marking') : marking'[j] = marking[j + 1] /\ j + 1 \in 1..Len(marking)
      /\ \A j \in 1..Len(marking) : j = 1 \/ (j - 1 \in 1..Len(marking') /\ marking'[j - 1] = marking[j])
  <2>1. marking \in Seq(RecordType) /\ marking # <<>>
    BY <1>5 DEF QueueTyped
  <2>2. /\ Tail(marking) \in Seq(RecordType) /\ Len(Tail(marking)) = Len(marking) - 1
        /\ \A j \in 1..Len(Tail(marking)) : Tail(marking)[j] = marking[j + 1]
    BY <2>1, HeadTailProperties
  <2>3. /\ \A j \in 1..(Len(marking) - 1) : j + 1 \in 1..Len(marking)
        /\ \A j \in 1..Len(marking) : j = 1 \/ (j - 1 \in 1..(Len(marking) - 1) /\ (j - 1) + 1 = j)
    BY <1>5
  <2>4. QED
    BY <1>5, <2>2, <2>3
<1>7. PICK r : r = Marked(m)
  OBVIOUS
<1>8. /\ r \in RecordType /\ r.id = m.id /\ r.offline = TRUE /\ r.born = m.born /\ Content(r) = Content(m)
  BY <1>5, <1>7 DEF Marked, RecordType, Content
<1>9. /\ queue' \in Seq(RecordType) /\ Len(queue') = Len(queue) /\ Len(queue) \in Nat
      /\ \A i \in 1..Len(queue) : queue'[i] = queue[i] \/ (queue[i].id = m.id /\ queue'[i] = r)
      /\ \A i \in 1..Len(queue) : queue[i].id = m.id => m.offline \/ queue'[i] = r
  <2>1. CASE m.offline
    BY <1>5, <2>1, QueueAt DEF QueueTyped
  <2>2. CASE ~m.offline
    <3>1. queue' = Updated(r)
      BY <1>5, <1>7, <2>2
    <3>2. /\ Updated(r) \in Seq(RecordType) /\ Len(Updated(r)) = Len(queue)
          /\ \A i \in 1..Len(queue) : Updated(r)[i] = IF queue[i].id = r.id THEN r ELSE queue[i]
      BY <1>8, UpdatedOps
    <3>3. QED
      BY <1>8, <3>1, <3>2, QueueAt
  <2>3. QED
    BY <2>1, <2>2
<1>10. QueueTyped' /\ LinkTyped'
  <2>1. QueueTyped'
    BY <1>1, <1>2, <1>6, <1>9 DEF QueueTyped
  <2>2. QED
    BY <1>2, <2>1, KeepTyped
<1>11. /\ \A i \in 1..Len(queue) : queue'[i].id = queue[i].id /\ Content(queue'[i]) = Content(queue[i])
                                   /\ queue'[i].born = queue[i].born
       /\ \A i \in 1..Len(queue) : Pair(queue'[i]) = Pair(queue[i])
  <2>1. m.id \in 1..Len(put) /\ put[m.id] = Content(m)
    BY <1>4, <1>5 DEF Numbered
  <2>2. \A i \in 1..Len(queue) : queue[i].id = m.id => Content(queue[i]) = Content(r) /\ queue[i].born = r.born
    BY <1>4, <1>5, <1>8, <2>1 DEF Numbered, Late
  <2>3. \A i \in 1..Len(queue) : queue'[i].id = queue[i].id /\ Content(queue'[i]) = Content(queue[i])
                                   /\ queue'[i].born = queue[i].born
    BY <1>8, <1>9, <2>2
  <2>4. \A x, y : Content(x) = Content(y) => Pair(x) = Pair(y)
    BY DEF Content, Pair
  <2>5. QED
    BY <2>3, <2>4
<1>12. Numbered'
  <2>1. \A i \in 1..Len(queue') : queue'[i].id \in 1..Len(put) /\ put[queue'[i].id] = Content(queue'[i])
    BY <1>9, <1>11 DEF Numbered
  <2>2. \A i \in 1..Len(marking') :
          marking'[i].id \in 1..Len(put) /\ put[marking'[i].id] = Content(marking'[i])
    BY <1>6 DEF Numbered
  <2>3. \A i, j \in 1..Len(queue') : i < j => queue'[i].id < queue'[j].id
    BY <1>9, <1>11 DEF Numbered
  <2>4. \A g \in got : /\ g.id \in 1..Len(put) /\ put[g.id] = Content(g)
                       /\ \A i \in 1..Len(queue') : g.id <= queue'[i].id
    BY <1>9, <1>11 DEF Numbered
  <2>5. \A b \in buried : /\ b.id \in 1..Len(put) /\ put[b.id].s = b.s /\ put[b.id].kind = b.kind
                          /\ \A i \in 1..Len(queue') : b.id < queue'[i].id
    BY <1>9, <1>11 DEF Numbered
  <2>6. drain.pc # "idle" =>
          /\ queue' # <<>> /\ queue'[1].id = drain.msg.id /\ Content(queue'[1]) = Content(drain.msg)
          /\ drain.outcome = "accepted" => drain.msg.id \in GotIds
    <3>1. queue # <<>> => Len(queue') # 0 /\ 1 \in 1..Len(queue)
      BY <1>9, QueueAt
    <3>2. Len(queue') # 0 => queue' # <<>>
      BY EmptySeq
    <3>3. QED
      BY <1>11, <3>1, <3>2 DEF Numbered
  <2>7. QED
    BY <1>1, <1>2, <2>1, <2>2, <2>3, <2>4, <2>5, <2>6 DEF Numbered, GotIds
<1>13. Late'
  <2>1. ASSUME NEW i \in 1..Len(queue), ToBeMarked(queue[i])
        PROVE  queue'[i].offline \/ \E n \in 1..Len(marking') : marking'[n].id = queue[i].id /\ ~marking'[n].offline
    <3>1. PICK j \in 1..Len(marking) : marking[j].id = queue[i].id /\ ~marking[j].offline
      BY <2>1 DEF ToBeMarked
    <3>2. CASE j = 1
      BY <1>4, <1>8, <1>9, <3>1, <3>2
    <3>3. CASE j # 1
      BY <1>6, <3>1, <3>3
    <3>4. QED
      BY <3>2, <3>3
  <2>2. \A i \in 1..Len(queue) :
          /\ queue[i].born <= drops
          /\ queue[i].born < drops =>
                queue[i].offline \/ Pair(queue[i]) \in excused \/ ToBeMarked(queue[i])
          /\ \A j \in 1..Len(marking) : marking[j].id = queue[i].id => marking[j].born = queue[i].born
    BY DEF Late
  <2>3. ASSUME NEW i \in 1..Len(queue), NEW x, x = queue'[i]
        PROVE  /\ x.born <= drops
               /\ x.born < drops => x.offline \/ Pair(x) \in excused \/ ToBeMarked(x)'
               /\ \A j \in 1..Len(marking') : marking'[j].id = x.id => marking'[j].born = x.born
    <3>1. x.id = queue[i].id /\ x.born = queue[i].born /\ Pair(x) = Pair(queue[i])
          /\ (queue[i].offline => x.offline)
      BY <1>8, <1>9, <1>11, <2>3
    <3>2. ToBeMarked(queue[i]) => x.offline \/ ToBeMarked(x)'
      BY <2>1, <2>3, <3>1 DEF ToBeMarked
    <3>3. ASSUME NEW j \in 1..Len(marking'), marking'[j].id = x.id PROVE marking'[j].born = x.born
      <4>1. PICK n \in 1..Len(marking) : marking'[j] = marking[n]
        BY <1>6
      <4>2. QED
        BY <2>2, <3>1, <3>3, <4>1
    <3>4. QED
      BY <2>2, <3>1, <3>2, <3>3
  <2>4. \A i \in 1..Len(queue') :
          /\ queue'[i].born <= drops
          /\ queue'[i].born < drops =>
                queue'[i].offline \/ Pair(queue'[i]) \in excused
                \/ \A x : x = queue'[i] => ToBeMarked(x)'
          /\ \A j \in 1..Len(marking') : marking'[j].id = queue'[i].id => marking'[j].born = queue'[i].born
    BY <1>9, <2>3
  <2>5. connected' => marking' = <<>>
    BY <1>2, <1>5 DEF Late
  <2>6. drain.pc # "idle" =>
          /\ drain.msg.born = queue'[1].born
          /\ drain.msg.raw /\ drain.msg.born < drops => drain.msg.offline \/ Pair(drain.msg) \in excused
    BY <1>11, QueueAt DEF Late, Numbered
  <2>7. OfflineTold'
    BY <1>2 DEF Late, OfflineTold
  <2>8. \A i : (\A x : x = queue'[i] => ToBeMarked(x)') => ToBeMarked(queue[i])'
    BY DEF ToBeMarked
  <2>9. QED
    BY <1>1, <1>2, <2>4, <2>5, <2>6, <2>7, <2>8 DEF Late, Pair
<1>14. Cascades'
  BY <1>1, <1>2, KeepCascades
<1>15. QED
  BY <1>3, <1>10, <1>12, <1>13, <1>14

\* The engine's snapshot, and perhaps the books, are written.
LEMMA SaveSnapshotTx == ASSUME TxInv, NEW all \in BOOLEAN, SaveSnapshot(all) PROVE TxInv'
<1> USE DEF TxInv, Typed
<1>1. /\ saved' = session /\ disk' \in {disk, Books}
      /\ UNCHANGED <<session, started, updates, calls, books, queue, drain, failed,
                     marking, link, reset, bounds, history>>
  BY DEF SaveSnapshot
<1>2. UNCHANGED <<builders, seqNo, ints, nextTx, connected, registered, pendingReset, resetter,
                  drops, restarts, resets, put, got, buried, raced, cut, excused>>
  BY <1>1 DEF books, link, reset, bounds, history
<1>3. /\ disk'.builders \in {disk.builders, builders} /\ disk'.seqNo \in {disk.seqNo, seqNo}
      /\ disk'.ints \in {disk.ints, ints} /\ disk'.nextTx \in {disk.nextTx, nextTx}
      /\ disk' = disk \/ (disk'.ints = ints /\ disk'.nextTx = nextTx)
  BY <1>1 DEF Books
<1>4. started \in Nat
  BY DEF SessionsTyped
<1>5. SessionsTyped' /\ CallsTyped' /\ QueueTyped' /\ LinkTyped' /\ Counts' /\ Numbered' /\ Cascades'
  <2>1. SessionsTyped'
    BY <1>1, <1>2 DEF SessionsTyped
  <2>2. QED
    BY <1>1, <1>2, <2>1, KeepTyped, KeepCounts, KeepNumbered, KeepCascades
<1>6. BooksTyped'
  <2>1. disk' \in BookType
    BY <1>1 DEF BooksTyped, BookType, Books
  <2>2. QED
    BY <1>1, <1>2, <1>3, <2>1 DEF BooksTyped
<1>7. Starts'
  <2>1. \A c \in Conn : builders'[c] \in Heard \cup {0} /\ disk'.builders[c] \in Heard \cup {0}
    BY <1>2, <1>3, HeardOf
  <2>2. Heard' \subseteq Heard \cup {0}
    BY <1>1, <1>2, <2>1, HeardOf, HeardLess
  <2>3. \A s \in Session : seqNo'[s] \in {seqNo[s], disk.seqNo[s]} /\ disk'.seqNo[s] \in {seqNo[s], disk.seqNo[s]}
    BY <1>2, <1>3
  <2>4. QED
    BY <1>1, <1>2, <1>4, <2>2, <2>3, CallAt, KeepStarts
<1>8. Ends' /\ Sequenced' /\ Late'
  <2>1. Ends'
    BY <1>1, <1>2, <1>3, PutAt, CallAt, KeepEnds DEF Session
  <2>2. QED
    BY <1>1, <1>2, <1>3, <2>1, KeepSequenced, KeepLate
<1>9. Closing'
  <2>1. \A s : Ending(s) => Ending(s)'
    BY <1>1, <1>2 DEF Ending
  <2>2. QED
    BY <1>1, <1>2, <2>1, KeepClosing
<1>10. QED
  BY <1>5, <1>6, <1>7, <1>8, <1>9

\* A crash and LoadState: what is queued is excused; a transaction that is in the
\* file and whose session is in the snapshot goes on.
LEMMA RestartTx == ASSUME TxInv, NEW pick \in [Conn -> Session \cup {0}], Restart(pick) PROVE TxInv'
<1> USE DEF TxInv, Typed
<1>1. /\ restarts' = restarts + 1 /\ session' = saved /\ calls' = {}
      /\ builders' = disk.builders /\ seqNo' = disk.seqNo /\ nextTx' = disk.nextTx
      /\ drain' = Idle /\ failed' = {} /\ marking' = <<>>
      /\ connected' = FALSE /\ registered' = FALSE /\ pendingReset' = FALSE /\ resetter' = NoReset
      /\ cut' = cut \cup {s \in 1..started : ~Survives(s)}
      /\ excused' = excused \cup {<<r.s, r.seq>> : r \in Queued}
      /\ UNCHANGED <<saved, started, updates, disk, drops, resets, put, got, buried, raced>>
  BY DEF Restart
<1>2. /\ \A i \in Session : ints'[i] \in {disk.ints[i], 0}
      /\ ints' \in [Session -> Conn \cup {0}]
  <2>1. ints' = [i \in Session |-> IF \E c \in Conn : disk.builders[c] # 0 /\ pick[c] = i
                                   THEN disk.ints[i] ELSE 0]
    BY DEF Restart, Loaded
  <2>2. \A i \in Session : disk.ints[i] \in Conn \cup {0}
    BY BooksAt
  <2>3. QED
    BY <2>1, <2>2
<1>3. /\ queue' \in Seq(RecordType) /\ Len(queue') = Len(queue) /\ Len(queue) \in Nat
      /\ \A i \in 1..Len(queue) : queue'[i] = [queue[i] EXCEPT !.raw = TRUE] /\ queue[i] \in RecordType
  <2>1. queue' = [i \in 1..Len(queue) |-> [queue[i] EXCEPT !.raw = TRUE]]
    BY QueueAt DEF Restart
  <2>2. \A i \in 1..Len(queue) : [queue[i] EXCEPT !.raw = TRUE] \in RecordType
    BY QueueAt DEF RecordType
  <2>3. queue' \in [1..Len(queue) -> RecordType] /\ Len(queue) \in Nat
    BY <2>1, <2>2, QueueAt
  <2>4. queue' \in Seq(RecordType) /\ Len(queue') = Len(queue)
    BY <2>3
  <2>5. QED
    BY <2>1, <2>3, <2>4, QueueAt
<1>4. \A i \in 1..Len(queue) : /\ queue'[i].id = queue[i].id /\ queue'[i].born = queue[i].born
                               /\ Content(queue'[i]) = Content(queue[i]) /\ Pair(queue'[i]) = Pair(queue[i])
  BY <1>3 DEF Content, Pair, RecordType
<1>5. started \in Nat /\ updates \in Nat /\ restarts \in Nat
  BY DEF SessionsTyped, LinkTyped
<1>6. SessionsTyped' /\ CallsTyped' /\ LinkTyped'
  <2>1. SessionsTyped'
    BY <1>1 DEF SessionsTyped, NoReset
  <2>2. CallsTyped'
    BY <1>1, FS_EmptySet DEF CallsTyped
  <2>3. LinkTyped'
    <3>1. restarts' \in Nat /\ drops' = drops /\ connected' = FALSE /\ registered' = FALSE
      BY <1>1, <1>5
    <3>2. QED
      BY <3>1 DEF LinkTyped
  <2>4. QED
    BY <2>1, <2>2, <2>3
<1>7. BooksTyped'
  <2>1. builders' \in [Conn -> Session \cup {0}] /\ seqNo' \in [Session -> Nat] /\ nextTx' \in Nat
    BY <1>1 DEF BooksTyped, BookType
  <2>2. QED
    BY <1>1, <1>2, <2>1 DEF BooksTyped
<1>8. QueueTyped'
  <2>1. marking' \in Seq(RecordType)
    BY <1>1
  <2>2. QED
    BY <1>1, <1>3, <2>1 DEF QueueTyped, Idle
<1>9. Counts'
  <2>1. StartsToCome' = {} /\ UpdatesToCome' = {} /\ PutOf("Updated")' = PutOf("Updated")
    BY <1>1 DEF StartsToCome, UpdatesToCome, PutOf
  <2>2. \A S : S = {} => Cardinality(S) = 0
    BY FS_EmptySet
  <2>3. Cardinality(StartsToCome') = 0 /\ Cardinality(UpdatesToCome') = 0
    BY <2>1, <2>2
  <2>4. disk.nextTx \in Nat /\ disk.nextTx <= started
    BY BooksAt DEF BooksTyped
  <2>5. QED
    BY <1>1, <1>5, <2>1, <2>3, <2>4, ToComeFinite DEF Counts
<1>10. Numbered'
  <2>1. Len(marking') = 0
    BY <1>1, EmptySeq
  <2>2. \A i \in 1..Len(queue') : queue'[i].id \in 1..Len(put) /\ put[queue'[i].id] = Content(queue'[i])
    BY <1>3, <1>4 DEF Numbered
  <2>3. \A i, j \in 1..Len(queue') : i < j => queue'[i].id < queue'[j].id
    BY <1>3, <1>4 DEF Numbered
  <2>4. \A g \in got : /\ g.id \in 1..Len(put) /\ put[g.id] = Content(g)
                       /\ \A i \in 1..Len(queue') : g.id <= queue'[i].id
    BY <1>3, <1>4 DEF Numbered
  <2>5. \A b \in buried : /\ b.id \in 1..Len(put) /\ put[b.id].s = b.s /\ put[b.id].kind = b.kind
                          /\ \A i \in 1..Len(queue') : b.id < queue'[i].id
    BY <1>3, <1>4 DEF Numbered
  <2>6. drain'.pc = "idle"
    BY <1>1 DEF Idle
  <2>7. QED
    BY <1>1, <2>1, <2>2, <2>3, <2>4, <2>5, <2>6 DEF Numbered
<1>11. Starts'
  <2>1. Heard' \subseteq Heard \cup {0}
    BY <1>1, HeardOf, HeardLess
  <2>2. QED
    BY <1>1, <1>5, <2>1, KeepStarts
<1>12. Ends' /\ Sequenced'
  <2>1. Ends'
    BY <1>1 DEF Ends
  <2>2. EventsInOrder'
    BY <1>1 DEF Sequenced, EventsInOrder
  <2>3. QED
    BY <1>1, <2>1, <2>2 DEF Sequenced
<1>13. Cascades' /\ Late'
  <2>1. restarts' # 0 /\ restarts' > 0 /\ drain'.pc = "idle"
    BY <1>1, <1>5 DEF Idle
  <2>2. Cascades'
    BY <2>1 DEF Cascades, RejectedStartCascades
  <2>3. OfflineTold'
    BY <1>1 DEF Late, OfflineTold
  <2>4. \A i \in 1..Len(queue') : queue'[i].born <= drops /\ Pair(queue'[i]) \in excused'
    <3>1. \A i \in 1..Len(queue) : Pair(queue[i]) \in excused'
      BY <1>1, QueueAt DEF Queued, Pair
    <3>2. QED
      BY <1>3, <1>4, <3>1 DEF Late
  <2>5. Len(marking') = 0
    BY <1>1, EmptySeq
  <2>6. QED
    BY <1>1, <2>1, <2>2, <2>3, <2>4, <2>5 DEF Late, Pair
<1>14. Closing'
  <2>1. ASSUME NEW s \in 1..started, NEW c \in Conn, NEW tx, OnFile(s, c, tx)
        PROVE  builders'[c] = s /\ tx \in Session /\ ints'[tx] = c
    <3>1. disk.builders[c] = s /\ s # 0 /\ {i \in Session : disk.ints[i] = c} = {tx}
      BY <1>5, <2>1 DEF OnFile
    <3>2. pick[c] \in Session \cup {0} /\ (pick[c] # 0 => disk.ints[pick[c]] = c)
          /\ (pick[c] = 0 => \A i \in Session : disk.ints[i] # c)
      BY <3>1 DEF Restart
    <3>3. tx \in Session /\ disk.ints[tx] = c
      BY <3>1
    <3>4. pick[c] = tx
      BY <3>1, <3>2, <3>3
    <3>5. ints'[tx] = disk.ints[tx]
      BY <3>1, <3>3, <3>4 DEF Restart, Loaded
    <3>6. QED
      BY <1>1, <3>1, <3>3, <3>5
  <2>2. ASSUME NEW s \in (1..started) \ cut' PROVE Ending(s)' \/ Closes(s)'
    <3>1. Survives(s)
      BY <1>1, <2>2
    <3>2. CASE \E j \in DOMAIN put : put[j].s = s /\ put[j].kind = "Ended"
      <4>1. \E j \in 1..Len(put) : put[j].s = s /\ put[j].kind = "Ended"
        BY <3>2, PutAt
      <4>2. QED
        BY <1>1, <4>1 DEF Ending
    <3>3. CASE /\ \E c \in Conn : saved[c].s = s
               /\ \A c \in Conn : saved[c].s = s /\ saved[c].own => OnFile(s, c, saved[c].tx)
      <4>1. (\A c \in Conn : session[c].s = s /\ session[c].own => Held(s, c, session[c].tx))'
        BY <1>1, <2>1, <3>3 DEF Held
      <4>2. QED
        BY <1>1, <3>3, <4>1 DEF Closes
    <3>4. QED
      BY <3>1, <3>2, <3>3 DEF Survives
  <2>3. QED
    BY <1>1, <2>2 DEF Closing
<1>15. QED
  BY <1>6, <1>7, <1>8, <1>9, <1>10, <1>11, <1>12, <1>13, <1>14

-----------------------------------------------------------------------------
(* drainQueue.                                                             *)

\* Dequeue of the head.
LEMMA DequeuedOps ==
    ASSUME QueueTyped, Numbered, queue # <<>>, NEW r, r.id = queue[1].id
    PROVE  /\ Dequeued(r) \in Seq(RecordType) /\ Len(Dequeued(r)) = Len(queue) - 1
           /\ \A i \in 1..(Len(queue) - 1) : Dequeued(r)[i] = queue[i + 1] /\ i + 1 \in 1..Len(queue)
<1> DEFINE place == {i \in DOMAIN queue : queue[i].id = r.id}
           n == Len(queue)
<1>1. n \in Nat /\ 1 \in 1..n /\ DOMAIN queue = 1..n /\ queue \in Seq(RecordType)
      /\ \A i \in 1..n : queue[i] \in RecordType
  BY QueueAt DEF QueueTyped
<1>2. 1 \in place
  BY <1>1
<1>3. (CHOOSE i \in place : \A j \in place : i <= j) = 1
  <2>1. \A i \in place : i \in 1..n /\ 1 <= i
    BY <1>1
  <2>2. \A i \in place : (\A j \in place : i <= j) => i = 1
    BY <1>2, <2>1
  <2>3. QED
    BY <1>2, <2>1, <2>2
<1>4. Dequeued(r) = SubSeq(queue, 1, 0) \o SubSeq(queue, 2, n)
  <2>1. Dequeued(r) = RemoveAt(queue, CHOOSE i \in place : \A j \in place : i <= j)
    BY <1>2 DEF Dequeued
  <2>2. Dequeued(r) = RemoveAt(queue, 1)
    BY <1>3, <2>1
  <2>3. 1 - 1 = 0 /\ 1 + 1 = 2
    OBVIOUS
  <2>4. QED
    BY <2>2, <2>3 DEF RemoveAt
<1>5. SubSeq(queue, 1, 0) = <<>>
  BY SubSeqEmpty
<1>6. /\ SubSeq(queue, 2, n) \in Seq(RecordType) /\ Len(SubSeq(queue, 2, n)) = n - 1
      /\ \A i \in 1..(n - 1) : SubSeq(queue, 2, n)[i] = queue[i + 1] /\ i + 1 \in 1..n
  <2>1. \A i \in 2..n : queue[i] \in RecordType
    BY <1>1
  <2>2. /\ SubSeq(queue, 2, n) \in Seq(RecordType)
        /\ Len(SubSeq(queue, 2, n)) = IF 2 <= n THEN n - 2 + 1 ELSE 0
        /\ \A i \in 1..(n - 2 + 1) : SubSeq(queue, 2, n)[i] = queue[2 + i - 1]
    BY <1>1, <2>1, SubSeqProperties
  <2>3. n - 2 + 1 = n - 1 /\ \A i \in 1..(n - 1) : 2 + i - 1 = i + 1 /\ i + 1 \in 1..n
    BY <1>1
  <2>4. QED
    BY <1>1, <2>2, <2>3
<1>7. Dequeued(r) = SubSeq(queue, 2, n)
  BY <1>4, <1>5, <1>6, ConcatEmptySeq
<1>8. QED
  BY <1>6, <1>7

DrainStep ==
    UNCHANGED <<engine, calls, books, disk, marking, link, reset, bounds, put, raced, cut, excused>>

LEMMA DrainStepTx ==
    ASSUME TxInv, DrainStep, QueueTyped', Numbered', Cascades', Late' PROVE TxInv'
<1>1. UNCHANGED <<connected, registered, drops, restarts>>
  BY DEF DrainStep, link, bounds
<1>2. LinkTyped'
  BY <1>1, KeepTyped DEF TxInv, Typed
<1>3. SessionsTyped' /\ CallsTyped' /\ BooksTyped' /\ Counts' /\ Starts' /\ Ends' /\ Sequenced' /\ Closing'
  BY BooksStand DEF DrainStep
<1>4. QED
  BY <1>2, <1>3 DEF TxInv, Typed

\* The head leaves the queue for good.
LEMMA HeadLeaves ==
    ASSUME TxInv, queue # <<>>, NEW r, r.id = queue[1].id, Content(r) = Content(queue[1]),
           queue' = Dequeued(r), drain'.pc = "idle", DrainStep, UNCHANGED got,
           \A b \in buried' : b \in buried \/ (b.id = r.id /\ b.s = r.s /\ b.kind = r.kind)
    PROVE  queue' \in Seq(RecordType) /\ Numbered' /\ Late'
<1> USE DEF TxInv, Typed
<1>1. /\ queue' \in Seq(RecordType) /\ Len(queue') = Len(queue) - 1 /\ Len(queue) \in Nat
      /\ \A i \in 1..Len(queue') : queue'[i] = queue[i + 1] /\ i + 1 \in 1..Len(queue)
  BY DequeuedOps, QueueAt
<1>2. UNCHANGED <<marking, put, drops, connected, excused, calls>>
  BY DEF DrainStep, link, bounds
<1>3. \A i \in 1..Len(queue) : queue[i].id \in Nat
  BY QueueAt DEF RecordType
<1>4. \A i \in 1..Len(queue') : queue[1].id < queue'[i].id
  <2>1. 1 \in 1..Len(queue) /\ \A i \in 1..Len(queue') : 1 < i + 1
    BY <1>1, QueueAt
  <2>2. QED
    BY <1>1, <2>1 DEF Numbered
<1>5. Numbered'
  <2>1. \A i \in 1..Len(queue') : queue'[i].id \in 1..Len(put) /\ put[queue'[i].id] = Content(queue'[i])
    BY <1>1 DEF Numbered
  <2>2. \A i, j \in 1..Len(queue') : i < j => queue'[i].id < queue'[j].id
    <3>1. ASSUME NEW i \in 1..Len(queue'), NEW j \in 1..Len(queue'), i < j
          PROVE  queue'[i].id < queue'[j].id
      <4>1. PICK m : m = i + 1
        OBVIOUS
      <4>2. PICK n : n = j + 1
        OBVIOUS
      <4>3. /\ m \in 1..Len(queue) /\ n \in 1..Len(queue)
            /\ queue'[i] = queue[m] /\ queue'[j] = queue[n]
        BY <1>1, <4>1, <4>2
      <4>4. m < n
        BY <1>1, <3>1, <4>1, <4>2
      <4>5. QED
        BY <4>3, <4>4 DEF Numbered
    <3>2. QED
      BY <3>1
  <2>3. \A g \in got : /\ g.id \in 1..Len(put) /\ put[g.id] = Content(g)
                       /\ \A i \in 1..Len(queue') : g.id <= queue'[i].id
    BY <1>1 DEF Numbered
  <2>4. \A b \in buried : /\ b.id \in 1..Len(put) /\ put[b.id].s = b.s /\ put[b.id].kind = b.kind
                          /\ \A i \in 1..Len(queue') : b.id < queue'[i].id
    BY <1>1 DEF Numbered
  <2>5. /\ r.id \in 1..Len(put) /\ put[r.id].s = r.s /\ put[r.id].kind = r.kind
        /\ \A i \in 1..Len(queue') : r.id < queue'[i].id
    <3>1. 1 \in 1..Len(queue)
      BY QueueAt
    <3>2. r.id \in 1..Len(put) /\ put[r.id] = Content(r)
      BY <3>1 DEF Numbered
    <3>3. QED
      BY <1>4, <3>2 DEF Content
  <2>7. \A b \in buried' : /\ b.id \in 1..Len(put) /\ put[b.id].s = b.s /\ put[b.id].kind = b.kind
                          /\ \A i \in 1..Len(queue') : b.id < queue'[i].id
    BY <2>4, <2>5
  <2>8. \A i \in 1..Len(marking) :
          marking[i].id \in 1..Len(put) /\ put[marking[i].id] = Content(marking[i])
    BY DEF Numbered
  <2>9. QED
    BY <1>2, <2>1, <2>2, <2>3, <2>7, <2>8 DEF Numbered
<1>6. Late'
  <2>1. \A x : ToBeMarked(x)' = ToBeMarked(x)
    BY <1>2 DEF ToBeMarked
  <2>2. OfflineTold'
    BY <1>2 DEF Late, OfflineTold
  <2>3. \A i \in 1..Len(queue') :
          /\ queue'[i].born <= drops
          /\ queue'[i].born < drops =>
                queue'[i].offline \/ Pair(queue'[i]) \in excused \/ ToBeMarked(queue'[i])
          /\ \A j \in 1..Len(marking) : marking[j].id = queue'[i].id => marking[j].born = queue'[i].born
    <3>1. \A i \in 1..Len(queue) :
            /\ queue[i].born <= drops
            /\ queue[i].born < drops =>
                  queue[i].offline \/ Pair(queue[i]) \in excused \/ ToBeMarked(queue[i])
            /\ \A j \in 1..Len(marking) : marking[j].id = queue[i].id => marking[j].born = queue[i].born
      BY DEF Late
    <3>2. ASSUME NEW i \in 1..Len(queue'), NEW x, x = queue'[i]
          PROVE  /\ x.born <= drops
                 /\ x.born < drops => x.offline \/ Pair(x) \in excused \/ ToBeMarked(x)
                 /\ \A j \in 1..Len(marking) : marking[j].id = x.id => marking[j].born = x.born
      <4>1. PICK n \in 1..Len(queue) : n = i + 1 /\ x = queue[n]
        BY <1>1, <3>2
      <4>2. QED
        BY <3>1, <4>1
    <3>3. QED
      BY <3>2
  <2>4. QED
    BY <1>2, <2>1, <2>2, <2>3 DEF Late, Pair
<1>7. QED
  BY <1>1, <1>5, <1>6

\* What the drain holds is the head.
LEMMA DrainHolds ==
    ASSUME TxInv, drain.pc # "idle"
    PROVE  /\ queue # <<>> /\ drain.msg \in RecordType /\ drain.msg.id = queue[1].id
           /\ Content(drain.msg) = Content(queue[1]) /\ drain.msg.born = queue[1].born
           /\ put[drain.msg.id] = Content(drain.msg) /\ drain.msg.id \in 1..Len(put)
           /\ 1 \in 1..Len(queue) /\ queue[1] \in RecordType
<1>1. /\ queue # <<>> /\ drain.msg \in RecordType /\ drain.msg.id = queue[1].id
      /\ Content(drain.msg) = Content(queue[1]) /\ drain.msg.born = queue[1].born
  BY DEF TxInv, Typed, QueueTyped, Numbered, Late
<1>2. 1 \in 1..Len(queue) /\ queue[1] \in RecordType
  BY <1>1, QueueAt DEF TxInv, Typed
<1>3. QED
  BY <1>1, <1>2 DEF TxInv, Numbered

\* A Started event that is the head was not buried.
LEMMA HeadNotBuried ==
    ASSUME TxInv, queue # <<>>, NEW r, r.id = queue[1].id, Content(r) = Content(queue[1]),
           NEW b \in buried, b.kind = "Started", r.kind = "Started"
    PROVE  b.s # r.s
<1>1. 1 \in 1..Len(queue) /\ queue[1] \in RecordType
  BY QueueAt DEF TxInv, Typed
<1>2. /\ b.id \in 1..Len(put) /\ put[b.id].s = b.s /\ put[b.id].kind = b.kind /\ b.id < queue[1].id
      /\ r.id \in 1..Len(put) /\ put[r.id] = Content(r)
  BY <1>1 DEF TxInv, Numbered
<1>3. put[r.id].s = r.s /\ put[r.id].kind = r.kind /\ r.id \in Nat
  BY <1>1, <1>2 DEF Content, RecordType
<1>4. b.id # r.id
  BY <1>2, <1>3
<1>5. QED
  BY <1>2, <1>3, <1>4 DEF TxInv, Starts

\* The copy of the head is sent, or not, and the answer noted.
LEMMA SentTyped ==
    ASSUME TxInv, NEW pc \in {"send", "reply"}, NEW r \in RecordType,
           NEW outcome \in {"none", "accepted", "error", "fatal"}, Goto(pc, r, outcome)
    PROVE  /\ drain' \in [pc : {"idle", "send", "reply"}, msg : RecordType \cup {NoRecord},
                          outcome : {"none", "accepted", "error", "fatal"}]
           /\ drain'.pc = pc /\ drain'.msg = r /\ drain'.outcome = outcome
BY DEF Goto

LEMMA NotReceivedTx ==
    ASSUME TxInv, NEW outcome \in {"error", "fatal"}, NotReceived(outcome) PROVE TxInv'
<1> USE DEF TxInv, Typed
<1>1. PICK r : r = drain.msg
  OBVIOUS
<1>2. /\ drain.pc = "send" /\ Goto("reply", r, outcome)
      /\ UNCHANGED <<engine, calls, books, disk, queue, failed, marking, link, reset, bounds, history>>
  BY <1>1 DEF NotReceived
<1>3. UNCHANGED <<connected, drops, restarts, put, got, buried, raced, cut, excused>>
  BY <1>2 DEF link, bounds, history
<1>4. DrainStep
  BY <1>2, <1>3 DEF DrainStep
<1>5. /\ queue # <<>> /\ r \in RecordType /\ r.id = queue[1].id /\ Content(r) = Content(queue[1])
      /\ r.born = queue[1].born
  BY <1>1, <1>2, DrainHolds
<1>6. /\ drain' \in [pc : {"idle", "send", "reply"}, msg : RecordType \cup {NoRecord},
                     outcome : {"none", "accepted", "error", "fatal"}]
      /\ drain'.pc = "reply" /\ drain'.msg = r /\ drain'.outcome = outcome
  BY <1>2, <1>5, SentTyped
<1>7. QueueTyped'
  BY <1>2, <1>3, <1>5, <1>6 DEF QueueTyped
<1>8. Numbered'
  <2>1. drain'.outcome # "accepted" /\ queue' = queue
    BY <1>2, <1>6
  <2>2. QED
    BY <1>2, <1>3, <1>5, <1>6, <2>1 DEF Numbered
<1>9. Cascades'
  BY <1>2, <1>3, <1>6 DEF Cascades, RejectedStartCascades
<1>10. Late'
  <2>1. OfflineTold'
    BY <1>3 DEF Late, OfflineTold
  <2>2. \A x : ToBeMarked(x)' = ToBeMarked(x)
    BY <1>2 DEF ToBeMarked
  <2>3. r.raw /\ r.born < drops => r.offline \/ Pair(r) \in excused
    BY <1>1, <1>2 DEF Late
  <2>4. QED
    BY <1>2, <1>3, <1>5, <1>6, <2>1, <2>2, <2>3 DEF Late, Pair
<1>11. QED
  BY <1>4, <1>7, <1>8, <1>9, <1>10, DrainStepTx

\* The CSMS receives the head: it follows no rejected start, and is marked by now.
LEMMA ReceivedTx ==
    ASSUME TxInv, NEW outcome \in {"accepted", "error"}, Received(outcome) PROVE TxInv'
<1> USE DEF TxInv, Typed
<1>1. PICK r : r = drain.msg
  OBVIOUS
<1>2. PICK g : g = [id |-> r.id, s |-> r.s, kind |-> r.kind, seq |-> r.seq,
                    born |-> r.born, link |-> drops, offline |-> OnWire(r)]
  OBVIOUS
<1>3. /\ drain.pc = "send" /\ connected /\ Goto("reply", r, outcome) /\ got' = got \cup {g}
      /\ UNCHANGED <<engine, calls, books, disk, queue, failed, marking, link, reset,
                     bounds, put, buried, raced, cut, excused>>
  BY <1>1, <1>2 DEF Received
<1>4. UNCHANGED <<connected, drops, restarts>>
  BY <1>3 DEF link, bounds
<1>5. DrainStep
  BY <1>3 DEF DrainStep
<1>6. /\ queue # <<>> /\ r \in RecordType /\ r.id = queue[1].id /\ Content(r) = Content(queue[1])
      /\ r.born = queue[1].born /\ r.id \in 1..Len(put) /\ put[r.id] = Content(r)
      /\ 1 \in 1..Len(queue) /\ queue[1] \in RecordType
  BY <1>1, <1>3, DrainHolds
<1>7. /\ drain' \in [pc : {"idle", "send", "reply"}, msg : RecordType \cup {NoRecord},
                     outcome : {"none", "accepted", "error", "fatal"}]
      /\ drain'.pc = "reply" /\ drain'.msg = r /\ drain'.outcome = outcome
  BY <1>3, <1>6, SentTyped
<1>8. /\ g.id = r.id /\ g.s = r.s /\ g.born = r.born /\ g.link = drops /\ Content(g) = Content(r)
      /\ <<g.s, g.seq>> = Pair(r) /\ Pair(r) = Pair(queue[1])
      /\ g.offline <=> OnWire(r)
  <2>1. Pair(r) = Pair(queue[1])
    BY <1>6 DEF Content, Pair
  <2>2. QED
    BY <1>2, <2>1 DEF Content, Pair
<1>9. QueueTyped'
  BY <1>3, <1>6, <1>7 DEF QueueTyped
<1>10. Numbered'
  <2>1. \A i \in 1..Len(queue) : g.id <= queue[i].id
    <3>1. \A i \in 1..Len(queue) : queue[i].id \in Nat /\ (i = 1 \/ 1 < i)
      BY QueueAt DEF RecordType
    <3>2. \A i \in 1..Len(queue) : 1 < i => queue[1].id < queue[i].id
      BY <1>6 DEF Numbered
    <3>3. queue[1].id \in Nat /\ g.id = queue[1].id
      BY <1>6, <1>8, <3>1
    <3>4. QED
      BY <3>1, <3>2, <3>3
  <2>2. g \in got' /\ r.id \in GotIds'
    BY <1>3, <1>8 DEF GotIds
  <2>3. \A x \in got' : /\ x.id \in 1..Len(put) /\ put[x.id] = Content(x)
                        /\ \A i \in 1..Len(queue) : x.id <= queue[i].id
    BY <1>3, <1>6, <1>8, <2>1 DEF Numbered
  <2>4. QED
    BY <1>3, <1>6, <1>7, <2>2, <2>3 DEF Numbered
<1>11. Cascades'
  <2>1. ASSUME NEW b \in buried, b.kind = "Started", b.reason = "rejected", g.s = b.s, restarts = 0
        PROVE  \E e \in buried : e.s = b.s /\ e.kind = "Ended" /\ e.id < g.id
    <3>1. r.kind # "Started"
      BY <1>6, <1>8, <2>1, HeadNotBuried
    <3>2. r.s \notin failed
      BY <1>1, <1>3, <3>1 DEF Cascades, Orphaned
    <3>3. \E e \in buried : e.s = b.s /\ e.kind = "Ended"
      BY <1>8, <2>1, <3>2 DEF Cascades
    <3>4. \A e \in buried : e.id < g.id
      BY <1>6, <1>8 DEF Numbered
    <3>5. QED
      BY <3>3, <3>4
  <2>2. restarts = 0 \/ restarts > 0
    BY DEF LinkTyped
  <2>3. RejectedStartCascades'
    BY <1>3, <1>4, <2>1, <2>2 DEF Cascades, RejectedStartCascades
  <2>4. QED
    BY <1>3, <1>4, <1>7, <2>3 DEF Cascades
<1>12. Late'
  <2>1. r.raw /\ r.born < drops => r.offline \/ Pair(r) \in excused
    BY <1>1, <1>3 DEF Late
  <2>2. g.born < drops => g.offline \/ Pair(r) \in excused
    <3>1. CASE r.raw
      BY <1>8, <2>1, <3>1 DEF OnWire
    <3>2. CASE ~r.raw
      <4>1. ~ToBeMarked(queue[1])
        <5>1. Len(marking) = 0
          BY <1>3, EmptySeq DEF Late
        <5>2. QED
          BY <5>1 DEF ToBeMarked
      <4>2. r.born < drops => queue[1].offline \/ Pair(queue[1]) \in excused
        BY <1>6, <4>1 DEF Late
      <4>3. queue[1] \in Queued
        BY <1>6, QueueAt DEF Queued
      <4>4. queue[1].offline => OnWire(r)
        BY <1>6, <3>2, <4>3 DEF OnWire
      <4>5. QED
        BY <1>8, <4>2, <4>4
    <3>3. QED
      BY <3>1, <3>2
  <2>3. OfflineTold'
    <3>1. \A x \in got : x.link > x.born => x.offline \/ <<x.s, x.seq>> \in excused
      BY DEF Late, OfflineTold
    <3>2. g.link > g.born => g.offline \/ <<g.s, g.seq>> \in excused
      <4>1. drops \in Nat /\ r.born \in Nat
        BY <1>6 DEF LinkTyped, RecordType
      <4>2. QED
        BY <1>8, <2>2, <4>1
    <3>3. QED
      BY <1>3, <1>4, <3>1, <3>2 DEF OfflineTold
  <2>4. \A x : ToBeMarked(x)' = ToBeMarked(x)
    BY <1>3 DEF ToBeMarked
  <2>5. QED
    BY <1>3, <1>4, <1>6, <1>7, <2>1, <2>3, <2>4 DEF Late, Pair
<1>13. QED
  BY <1>5, <1>9, <1>10, <1>11, <1>12, DrainStepTx

\* What the drain may do to the memory of rejected starts.
LEMMA KeepsRejected ==
    ASSUME TxInv, drain'.pc # "send", UNCHANGED <<got, restarts>>, buried \subseteq buried',
           \A b \in buried' : b.kind = "Started" /\ b.reason = "rejected" =>
              b \in buried \/ (b.s \in failed' /\ \A g \in got : ~(g.id > b.id)),
           \A s \in failed : \/ s \in failed'
                             \/ \E e \in buried' : e.s = s /\ e.kind = "Ended"
                             \/ \A b \in buried : b.kind = "Started" => b.s # s
    PROVE  Cascades'
<1> USE DEF TxInv
<1>1. restarts' = 0 => \A b \in buried' : b.kind = "Started" /\ b.reason = "rejected" =>
          b.s \in failed' \/ \E e \in buried' : e.s = b.s /\ e.kind = "Ended"
  BY DEF Cascades
<1>2. RejectedStartCascades'
  BY DEF Cascades, RejectedStartCascades
<1>3. QED
  BY <1>1, <1>2 DEF Cascades

\* The head is the last record received, if it was, and it is in the order.
LEMMA HeadIsLast ==
    ASSUME TxInv, queue # <<>>, NEW g \in got PROVE ~(g.id > queue[1].id)
<1>1. /\ 1 \in 1..Len(queue) /\ queue[1].id \in Nat /\ Len(put) \in Nat
  BY QueueAt, PutAt DEF TxInv, Typed, RecordType
<1>2. g.id \in 1..Len(put) /\ g.id <= queue[1].id
  BY <1>1 DEF TxInv, Numbered
<1>3. QED
  BY <1>1, <1>2

LEMMA SucceedTx == ASSUME TxInv, Succeed PROVE TxInv'
<1> USE DEF TxInv, Typed
<1>1. PICK r : r = drain.msg
  OBVIOUS
<1>2. /\ drain.pc = "reply" /\ queue' = Dequeued(r) /\ drain' = Idle
      /\ failed' = IF r.kind = "Started" THEN failed \ {r.s} ELSE failed
      /\ UNCHANGED <<engine, calls, books, disk, marking, link, reset, bounds, history>>
  BY <1>1 DEF Succeed
<1>3. UNCHANGED <<restarts, put, got, buried, raced, cut, excused>>
  BY <1>2 DEF bounds, history
<1>4. DrainStep /\ drain'.pc = "idle"
  BY <1>2, <1>3 DEF DrainStep, Idle
<1>5. queue # <<>> /\ r.id = queue[1].id /\ Content(r) = Content(queue[1])
  BY <1>1, <1>2, DrainHolds
<1>6. queue' \in Seq(RecordType) /\ Numbered' /\ Late'
  <2>1. got' = got /\ buried' = buried /\ queue' = Dequeued(r)
    BY <1>2, <1>3
  <2>2. QED
    BY <1>4, <1>5, <2>1, HeadLeaves
<1>7. QueueTyped'
  BY <1>2, <1>3, <1>6 DEF QueueTyped, Idle
<1>8. Cascades'
  <2>1. ASSUME NEW s \in failed, s \notin failed', NEW b \in buried, b.kind = "Started" PROVE b.s # s
    <3>1. r.kind = "Started" /\ s = r.s
      BY <1>2, <2>1
    <3>2. QED
      BY <1>5, <2>1, <3>1, HeadNotBuried
  <2>2. QED
    BY <1>3, <1>4, <2>1, KeepsRejected
<1>9. QED
  BY <1>4, <1>6, <1>7, <1>8, DrainStepTx

LEMMA RejectTx == ASSUME TxInv, Reject PROVE TxInv'
<1> USE DEF TxInv, Typed
<1>1. PICK r : r = drain.msg
  OBVIOUS
<1>2. PICK d : d = [id |-> r.id, s |-> r.s, kind |-> r.kind, reason |-> "rejected"]
  OBVIOUS
<1>3. /\ drain.pc = "reply" /\ queue' = Dequeued(r) /\ drain' = Idle /\ buried' = buried \cup {d}
      /\ failed' = IF r.kind = "Started" THEN failed \cup {r.s} ELSE failed
      /\ UNCHANGED <<engine, calls, books, disk, marking, link, reset, bounds, put, got,
                     raced, cut, excused>>
  BY <1>1, <1>2 DEF Reject, Bury
<1>4. restarts' = restarts
  BY <1>3 DEF bounds
<1>5. DrainStep /\ drain'.pc = "idle"
  BY <1>3 DEF DrainStep, Idle
<1>6. queue # <<>> /\ r.id = queue[1].id /\ Content(r) = Content(queue[1]) /\ r \in RecordType
  BY <1>1, <1>3, DrainHolds
<1>7. queue' \in Seq(RecordType) /\ Numbered' /\ Late'
  <2>1. \A b \in buried' : b \in buried \/ (b.id = r.id /\ b.s = r.s /\ b.kind = r.kind)
    BY <1>2, <1>3
  <2>2. queue' = Dequeued(r) /\ drain'.pc = "idle" /\ got' = got /\ DrainStep
    BY <1>3, <1>5
  <2>3. QED
    BY <1>6, <2>1, <2>2, HeadLeaves
<1>8. QueueTyped'
  <2>1. failed' \subseteq Session
    BY <1>3, <1>6 DEF QueueTyped, RecordType
  <2>2. QED
    BY <1>3, <1>7, <2>1 DEF QueueTyped, Idle
<1>9. Cascades'
  <2>1. d.kind = "Started" => d.s \in failed'
    BY <1>2, <1>3
  <2>2. \A g \in got : ~(g.id > d.id)
    BY <1>2, <1>6, HeadIsLast
  <2>3. failed \subseteq failed'
    BY <1>3
  <2>4. \A b \in buried' : b.kind = "Started" /\ b.reason = "rejected" =>
              b \in buried \/ (b.s \in failed' /\ \A g \in got : ~(g.id > b.id))
    BY <1>3, <2>1, <2>2
  <2>5. QED
    BY <1>3, <1>4, <1>5, <2>3, <2>4, KeepsRejected
<1>10. QED
  BY <1>5, <1>7, <1>8, <1>9, DrainStepTx

LEMMA PickTx == ASSUME TxInv, NEW attempts \in Attempts, Pick(attempts) PROVE TxInv'
<1> USE DEF TxInv, Typed
<1>1. PICK r : r = queue[1]
  OBVIOUS
<1>2. /\ drain.pc = "idle" /\ connected /\ queue # <<>> /\ Head(queue) = r
      /\ r \in RecordType /\ r.id = queue[1].id /\ 1 \in 1..Len(queue)
      /\ UNCHANGED <<engine, calls, books, disk, marking, link, reset, bounds, put, got,
                     raced, cut, excused>>
  BY <1>1, QueueAt DEF Pick
<1>3. restarts' = restarts /\ DrainStep
  BY <1>2 DEF bounds, DrainStep
<1>4. \/ Bury(r, "exhausted") /\ UNCHANGED <<drain, failed>>
      \/ /\ Bury(r, "start-unconfirmed") /\ UNCHANGED drain
         /\ failed' = IF r.kind = "Ended" THEN failed \ {r.s} ELSE failed
      \/ ~Orphaned(r) /\ Goto("send", r, "none") /\ UNCHANGED <<queue, buried, failed>>
  BY <1>2 DEF Pick
<1>5. ASSUME NEW reason \in {"exhausted", "start-unconfirmed"}, Bury(r, reason), UNCHANGED drain,
             failed' = failed \/ (r.kind = "Ended" /\ failed' = failed \ {r.s})
      PROVE  TxInv'
  <2>1. PICK d : d = [id |-> r.id, s |-> r.s, kind |-> r.kind, reason |-> reason]
    OBVIOUS
  <2>2. queue' = Dequeued(r) /\ buried' = buried \cup {d} /\ drain'.pc = "idle"
    BY <1>2, <1>5, <2>1 DEF Bury
  <2>3. queue' \in Seq(RecordType) /\ Numbered' /\ Late'
    <3>1. \A b \in buried' : b \in buried \/ (b.id = r.id /\ b.s = r.s /\ b.kind = r.kind)
      BY <2>1, <2>2
    <3>2. /\ queue' = Dequeued(r) /\ drain'.pc = "idle" /\ got' = got /\ DrainStep
          /\ r.id = queue[1].id /\ Content(r) = Content(queue[1]) /\ queue # <<>>
      BY <1>1, <1>2, <1>3, <2>2
    <3>3. QED
      BY <3>1, <3>2, HeadLeaves
  <2>4. QueueTyped'
    BY <1>2, <1>5, <2>3 DEF QueueTyped
  <2>5. Cascades'
    <3>1. d.reason # "rejected"
      BY <1>5, <2>1
    <3>2. \A s \in failed : s \in failed' \/ (d.s = s /\ d.kind = "Ended")
      BY <1>5, <2>1
    <3>3. d \in buried' /\ buried \subseteq buried'
      BY <2>2
    <3>4. \A b \in buried' : b.reason = "rejected" => b \in buried
      BY <2>2, <3>1
    <3>5. drain'.pc # "send"
      BY <2>2
    <3>6. QED
      BY <1>2, <1>3, <3>2, <3>3, <3>4, <3>5, KeepsRejected
  <2>6. QED
    BY <1>3, <2>3, <2>4, <2>5, DrainStepTx
<1>6. ASSUME ~Orphaned(r), Goto("send", r, "none"), UNCHANGED <<queue, buried, failed>>
      PROVE  TxInv'
  <2>1. /\ drain' \in [pc : {"idle", "send", "reply"}, msg : RecordType \cup {NoRecord},
                       outcome : {"none", "accepted", "error", "fatal"}]
        /\ drain'.pc = "send" /\ drain'.msg = r /\ drain'.outcome = "none"
    BY <1>2, <1>6, SentTyped
  <2>2. QueueTyped'
    BY <1>2, <1>6, <2>1 DEF QueueTyped
  <2>3. Numbered'
    BY <1>1, <1>2, <1>6, <2>1 DEF Numbered
  <2>4. Cascades'
    <3>1. ~Orphaned(r)'
      BY <1>6 DEF Orphaned
    <3>2. RejectedStartCascades'
      BY <1>2, <1>3, <1>6 DEF Cascades, RejectedStartCascades
    <3>3. ~Orphaned(drain.msg)'
      BY <2>1, <3>1 DEF Orphaned
    <3>4. QED
      BY <1>2, <1>3, <1>6, <3>2, <3>3 DEF Cascades
  <2>5. Late'
    <3>1. UNCHANGED <<connected, drops>>
      BY <1>2 DEF link, bounds
    <3>2. \A x : ToBeMarked(x)' = ToBeMarked(x)
      BY <1>2 DEF ToBeMarked
    <3>3. ~ToBeMarked(r)
      <4>1. Len(marking) = 0
        BY <1>2, EmptySeq DEF Late
      <4>2. QED
        BY <4>1 DEF ToBeMarked
    <3>4. r.born < drops => r.offline \/ Pair(r) \in excused
      BY <1>1, <1>2, <3>3 DEF Late
    <3>5. OfflineTold'
      BY <1>2 DEF Late, OfflineTold
    <3>6. QED
      BY <1>1, <1>2, <1>6, <2>1, <3>1, <3>2, <3>4, <3>5 DEF Late, Pair
  <2>6. QED
    BY <1>3, <2>2, <2>3, <2>4, <2>5, DrainStepTx
<1>7. QED
  BY <1>4, <1>5, <1>6

\* The drain writes its own copy of the head back, or buries it.
LEMMA FailTx == ASSUME TxInv, NEW attempts \in Attempts, Fail(attempts) PROVE TxInv'
<1> USE DEF TxInv, Typed
<1>1. PICK m : m = drain.msg
  OBVIOUS
<1>2. PICK r : r = [m EXCEPT !.retries = IF @ < attempts THEN @ + 1 ELSE @, !.offline = OnWire(m)]
  OBVIOUS
<1>3. /\ drain.pc = "reply" /\ drain' = Idle
      /\ IF r.retries >= attempts
         THEN Bury(r, "exhausted")
         ELSE queue' = Updated(r) /\ UNCHANGED buried
      /\ UNCHANGED <<engine, calls, books, disk, failed, marking, link, reset, bounds,
                     put, got, raced, cut, excused>>
  BY <1>1, <1>2 DEF Fail
<1>4. UNCHANGED <<restarts, drops, connected>>
  BY <1>3 DEF bounds, link
<1>5. DrainStep /\ drain'.pc = "idle"
  BY <1>3 DEF DrainStep, Idle
<1>6. /\ queue # <<>> /\ m \in RecordType /\ m.id = queue[1].id /\ Content(m) = Content(queue[1])
      /\ m.born = queue[1].born /\ 1 \in 1..Len(queue) /\ queue[1] \in RecordType
  BY <1>1, <1>3, DrainHolds
<1>7. /\ r \in RecordType /\ r.id = queue[1].id /\ r.born = queue[1].born
      /\ Content(r) = Content(queue[1]) /\ Pair(r) = Pair(m) /\ Pair(r) = Pair(queue[1])
      /\ r.offline <=> OnWire(m)
  <2>1. OnWire(m) \in BOOLEAN
    BY <1>6 DEF OnWire, RecordType
  <2>2. attempts \in Nat
    BY Transactions201Assumption
  <2>3. r \in RecordType
    <3>1. PICK o : o = OnWire(m)
      OBVIOUS
    <3>2. PICK n : n = IF m.retries < attempts THEN m.retries + 1 ELSE m.retries
      OBVIOUS
    <3>3. o \in BOOLEAN /\ n \in Nat
      BY <1>6, <2>1, <2>2, <3>1, <3>2 DEF RecordType
    <3>4. r = [m EXCEPT !.retries = n, !.offline = o]
      BY <1>2, <3>1, <3>2
    <3>5. QED
      BY <1>6, <3>3, <3>4 DEF RecordType
  <2>4. r.id = m.id /\ r.born = m.born /\ Content(r) = Content(m) /\ r.offline = OnWire(m)
    BY <1>2, <1>6 DEF RecordType, Content
  <2>5. \A x, y : Content(x) = Content(y) => Pair(x) = Pair(y)
    BY DEF Content, Pair
  <2>6. QED
    BY <1>6, <2>1, <2>3, <2>4, <2>5
<1>8. CASE r.retries >= attempts
  <2>1. PICK d : d = [id |-> r.id, s |-> r.s, kind |-> r.kind, reason |-> "exhausted"]
    OBVIOUS
  <2>2. queue' = Dequeued(r) /\ buried' = buried \cup {d}
    BY <1>3, <1>8, <2>1 DEF Bury
  <2>3. queue' \in Seq(RecordType) /\ Numbered' /\ Late'
    <3>1. \A b \in buried' : b \in buried \/ (b.id = r.id /\ b.s = r.s /\ b.kind = r.kind)
      BY <2>1, <2>2
    <3>2. /\ queue' = Dequeued(r) /\ drain'.pc = "idle" /\ got' = got /\ DrainStep
          /\ r.id = queue[1].id /\ Content(r) = Content(queue[1]) /\ queue # <<>>
      BY <1>3, <1>5, <1>6, <1>7, <2>2
    <3>3. QED
      BY <3>1, <3>2, HeadLeaves
  <2>4. QueueTyped'
    BY <1>3, <2>3 DEF QueueTyped, Idle
  <2>5. Cascades'
    <3>1. \A b \in buried' : b.reason = "rejected" => b \in buried
      BY <2>1, <2>2
    <3>2. QED
      BY <1>3, <1>4, <1>5, <2>2, <3>1, KeepsRejected
  <2>6. QED
    BY <1>5, <2>3, <2>4, <2>5, DrainStepTx
<1>9. CASE ~(r.retries >= attempts)
  <2>1. queue' = Updated(r) /\ UNCHANGED buried
    BY <1>3, <1>9
  <2>2. /\ queue' \in Seq(RecordType) /\ Len(queue') = Len(queue) /\ Len(queue) \in Nat
        /\ \A i \in 1..Len(queue) : queue'[i] = IF queue[i].id = r.id THEN r ELSE queue[i]
    BY <1>7, <2>1, UpdatedOps, QueueAt
  <2>3. \A i \in 1..Len(queue) : IF i = 1 THEN queue'[i] = r ELSE queue'[i] = queue[i]
    <3>1. \A i \in 1..Len(queue) : queue[i].id \in Nat /\ (i = 1 \/ 1 < i)
      BY QueueAt DEF RecordType
    <3>2. \A i \in 1..Len(queue) : i = 1 \/ queue[1].id < queue[i].id
      BY <1>6, <3>1 DEF Numbered
    <3>3. QED
      BY <1>6, <1>7, <2>2, <3>1, <3>2
  <2>4. \A i \in 1..Len(queue) : /\ queue'[i].id = queue[i].id /\ queue'[i].born = queue[i].born
                                 /\ Content(queue'[i]) = Content(queue[i])
    BY <1>7, <2>3
  <2>5. QueueTyped'
    BY <1>3, <2>2 DEF QueueTyped, Idle
  <2>6. Numbered'
    <3>1. \A i \in 1..Len(queue') : queue'[i].id \in 1..Len(put) /\ put[queue'[i].id] = Content(queue'[i])
      BY <2>2, <2>4 DEF Numbered
    <3>2. \A i, j \in 1..Len(queue') : i < j => queue'[i].id < queue'[j].id
      BY <2>2, <2>4 DEF Numbered
    <3>3. \A g \in got : /\ g.id \in 1..Len(put) /\ put[g.id] = Content(g)
                         /\ \A i \in 1..Len(queue') : g.id <= queue'[i].id
      BY <2>2, <2>4 DEF Numbered
    <3>4. \A b \in buried : /\ b.id \in 1..Len(put) /\ put[b.id].s = b.s /\ put[b.id].kind = b.kind
                            /\ \A i \in 1..Len(queue') : b.id < queue'[i].id
      BY <2>2, <2>4 DEF Numbered
    <3>5. \A i \in 1..Len(marking) :
          marking[i].id \in 1..Len(put) /\ put[marking[i].id] = Content(marking[i])
      BY DEF Numbered
    <3>6. QED
      BY <1>3, <1>5, <2>1, <3>1, <3>2, <3>3, <3>4, <3>5 DEF Numbered
  <2>7. Cascades'
    BY <1>3, <1>4, <1>5, <2>1, KeepsRejected
  <2>8. Late'
    <3>1. \A x : ToBeMarked(x)' = ToBeMarked(x)
      BY <1>3 DEF ToBeMarked
    <3>2. OfflineTold'
      BY <1>3 DEF Late, OfflineTold
    <3>3. \A i \in 1..Len(queue) :
            /\ queue[i].born <= drops
            /\ queue[i].born < drops =>
                  queue[i].offline \/ Pair(queue[i]) \in excused \/ ToBeMarked(queue[i])
            /\ \A j \in 1..Len(marking) : marking[j].id = queue[i].id => marking[j].born = queue[i].born
      BY DEF Late
    <3>4. r.born < drops => r.offline \/ Pair(r) \in excused \/ ToBeMarked(r)
      <4>1. CASE m.raw
        <5>1. m.born < drops => m.offline \/ Pair(m) \in excused
          BY <1>1, <1>3, <4>1 DEF Late
        <5>2. QED
          BY <1>6, <1>7, <4>1, <5>1 DEF OnWire
      <4>2. CASE ~m.raw
        <5>1. queue[1].offline => OnWire(m)
          BY <1>6, <4>2, QueueAt DEF OnWire, Queued
        <5>2. ToBeMarked(queue[1]) => ToBeMarked(r)
          BY <1>7 DEF ToBeMarked
        <5>3. QED
          BY <1>6, <1>7, <3>3, <5>1, <5>2
      <4>3. QED
        BY <4>1, <4>2
    <3>5. \A i \in 1..Len(queue') :
            /\ queue'[i].born <= drops
            /\ queue'[i].born < drops =>
                  queue'[i].offline \/ Pair(queue'[i]) \in excused \/ ToBeMarked(queue'[i])
            /\ \A j \in 1..Len(marking) : marking[j].id = queue'[i].id => marking[j].born = queue'[i].born
      BY <1>6, <1>7, <2>2, <2>3, <3>3, <3>4
    <3>6. QED
      BY <1>3, <1>4, <1>5, <3>1, <3>2, <3>5 DEF Late, Pair
  <2>9. QED
    BY <1>5, <2>5, <2>6, <2>7, <2>8, DrainStepTx
<1>10. QED
  BY <1>8, <1>9

-----------------------------------------------------------------------------
(* Reset, and the invariant.                                               *)

LEMMA Completes ==
    ASSUME TxInv, MaybeCompleteReset PROVE ForgetsBooks /\ pendingReset' \in BOOLEAN
BY DEF MaybeCompleteReset, CompleteReset, ForgetsBooks, TxInv, Typed, SessionsTyped

LEMMA OnResetTx == ASSUME TxInv, NEW immediate \in BOOLEAN, OnReset(immediate) PROVE TxInv'
<1>1. UNCHANGED <<engine, calls, seqNo, nextTx, disk, queue, drain, failed, marking,
                  connected, drops, restarts, put, got, buried, raced, excused>>
  BY DEF OnReset
<1>2. /\ pendingReset \in BOOLEAN
      /\ resetter \in [pc : {"idle", "scheduling", "stopping"}, left : SUBSET Conn]
  BY DEF TxInv, Typed, SessionsTyped
<1>3. CASE NoSessions
  <2>1. CompleteReset /\ resetter' = resetter
    BY <1>3 DEF OnReset
  <2>2. ForgetsBooks /\ pendingReset' \in BOOLEAN
    BY <2>1 DEF CompleteReset, ForgetsBooks
  <2>3. QED
    BY <1>1, <1>2, <2>1, <2>2, ForgetTx
<1>4. CASE ~NoSessions
  <2>1. /\ UNCHANGED <<registered, builders, ints, cut>>
        /\ \/ pendingReset' = TRUE /\ resetter' = [pc |-> "stopping", left |-> {c \in Conn : session[c] # NoSession}]
           \/ pendingReset' = pendingReset /\ resetter' = [pc |-> "scheduling", left |-> {}]
    BY <1>4 DEF OnReset
  <2>2. pendingReset' \in BOOLEAN
        /\ resetter' \in [pc : {"idle", "scheduling", "stopping"}, left : SUBSET Conn]
    <3>1. pendingReset' \in BOOLEAN
      BY <1>2, <2>1
    <3>2. {c \in Conn : session[c] # NoSession} \subseteq Conn /\ {} \subseteq Conn
      OBVIOUS
    <3>3. QED
      BY <2>1, <3>1, <3>2
  <2>3. ForgetsBooks
    BY <2>1 DEF ForgetsBooks
  <2>4. QED
    BY <1>1, <2>2, <2>3, ForgetTx
<1>5. QED
  BY <1>3, <1>4

LEMMA ScheduleResetTx == ASSUME TxInv, ScheduleReset PROVE TxInv'
<1>1. /\ pendingReset' = TRUE /\ resetter' = NoReset
      /\ UNCHANGED <<engine, calls, books, disk, queue, drain, failed, marking, link,
                     bounds, history>>
  BY DEF ScheduleReset
<1>2. UNCHANGED <<builders, seqNo, ints, nextTx, connected, registered, drops, restarts, put, got,
                  buried, raced, cut, excused>>
  BY <1>1 DEF books, link, bounds, history
<1>3. ForgetsBooks
  BY <1>2 DEF ForgetsBooks
<1>4. resetter' \in [pc : {"idle", "scheduling", "stopping"}, left : SUBSET Conn]
  BY <1>1 DEF NoReset
<1>5. QED
  BY <1>1, <1>2, <1>3, <1>4, ForgetTx

LEMMA ResetStoppedTx == ASSUME TxInv, ResetStopped PROVE TxInv'
<1>1. /\ resetter' = NoReset /\ MaybeCompleteReset
      /\ UNCHANGED <<engine, calls, seqNo, nextTx, disk, queue, drain, failed, marking,
                     connected, bounds, put, got, buried, raced, excused>>
  BY DEF ResetStopped
<1>2. UNCHANGED <<drops, restarts>>
  BY <1>1 DEF bounds
<1>3. resetter' \in [pc : {"idle", "scheduling", "stopping"}, left : SUBSET Conn]
  BY <1>1 DEF NoReset
<1>4. QED
  BY <1>1, <1>2, <1>3, Completes, ForgetTx

LEMMA SettleTx == ASSUME TxInv, NEW k \in calls, Settle(k) PROVE TxInv'
<1>1. /\ k.pc = "ended" /\ calls' = calls \ {k} /\ MaybeCompleteReset
      /\ UNCHANGED <<engine, seqNo, nextTx, disk, queue, drain, failed, marking,
                     connected, resetter, bounds, put, got, buried, raced, excused>>
  BY DEF Settle, Returns
<1>2. UNCHANGED <<drops, restarts>>
  BY <1>1 DEF bounds
<1>3. resetter' \in [pc : {"idle", "scheduling", "stopping"}, left : SUBSET Conn]
  BY <1>1 DEF TxInv, Typed, SessionsTyped
<1>4. calls' \subseteq calls /\ \A l \in calls : l \notin calls' => l.pc = "ended"
  BY <1>1
<1>5. QED
  BY <1>1, <1>2, <1>3, <1>4, Completes, ForgetTx

\* The Reset handler stops a session, or finds it stopped.
LEMMA ResetStopTx == ASSUME TxInv, NEW c \in Conn, ResetStop(c) PROVE TxInv'
<1>1. /\ pendingReset' = pendingReset /\ resetter' = [resetter EXCEPT !.left = @ \ {c}]
      /\ \/ End(c, TRUE)
         \/ UNCHANGED <<engine, calls, books, disk, queue, drain, failed, marking, link, bounds, history>>
  BY DEF ResetStop
<1>2. /\ pendingReset' \in BOOLEAN
      /\ resetter' \in [pc : {"idle", "scheduling", "stopping"}, left : SUBSET Conn]
  BY <1>1 DEF TxInv, Typed, SessionsTyped
<1>3. CASE End(c, TRUE)
  BY <1>2, <1>3, EndTx
<1>4. CASE UNCHANGED <<engine, calls, books, disk, queue, drain, failed, marking, link, bounds, history>>
  <2>1. UNCHANGED <<builders, seqNo, ints, nextTx, connected, registered, drops, restarts, put, got,
                    buried, raced, cut, excused>>
    BY <1>4 DEF books, link, bounds, history
  <2>2. ForgetsBooks
    BY <2>1 DEF ForgetsBooks
  <2>3. QED
    BY <1>2, <1>4, <2>1, <2>2, ForgetTx
<1>5. QED
  BY <1>1, <1>3, <1>4

LEMMA StopSessionTx == ASSUME TxInv, NEW c \in Conn, StopSession(c) PROVE TxInv'
<1>1. End(c, FALSE) /\ UNCHANGED <<pendingReset, resetter>>
  BY DEF StopSession, reset
<1>2. /\ pendingReset' \in BOOLEAN
      /\ resetter' \in [pc : {"idle", "scheduling", "stopping"}, left : SUBSET Conn]
  BY <1>1 DEF TxInv, Typed, SessionsTyped
<1>3. QED
  BY <1>1, <1>2, EndTx

LEMMA StutterTx == ASSUME TxInv, UNCHANGED vars PROVE TxInv'
<1>1. /\ UNCHANGED <<engine, calls, books, disk, queue, drain, failed, marking, link, reset, bounds, history>>
  BY DEF vars
<1>2. UNCHANGED <<builders, seqNo, ints, nextTx, connected, registered, pendingReset, resetter, drops,
                  restarts, put, got, buried, raced, cut, excused>>
  BY <1>1 DEF books, link, reset, bounds, history
<1>3. ForgetsBooks
  BY <1>2 DEF ForgetsBooks
<1>4. /\ pendingReset' \in BOOLEAN
      /\ resetter' \in [pc : {"idle", "scheduling", "stopping"}, left : SUBSET Conn]
  BY <1>2 DEF TxInv, Typed, SessionsTyped
<1>5. QED
  BY <1>1, <1>2, <1>3, <1>4, ForgetTx

LEMMA CallStepTx == ASSUME TxInv, NEW k \in calls, CallStep(k) PROVE TxInv'
BY AllocateStartedTx, AllocateUpdatedTx, AllocateEndedTx, LastEndedTx, StampTx, EnqueueTx, SetActiveTx, SettleTx
   DEF CallStep

LEMMA DrainTx == ASSUME TxInv, Drain PROVE TxInv'
BY SucceedTx, RejectTx, PickTx, FailTx, ReceivedTx, NotReceivedTx DEF Drain

LEMMA NextTx == ASSUME TxInv, [Next]_vars PROVE TxInv'
<1>1. CASE Next
  <2>1. ASSUME NEW c \in Conn,
               \/ \E tx \in Provisional : StartSession(c, tx)
               \/ StopSession(c) \/ Update(c) \/ ResetStop(c)
        PROVE  TxInv'
    BY <2>1, StartSessionTx, StopSessionTx, UpdateTx, ResetStopTx
  <2>2. ASSUME NEW k \in calls, CallStep(k) PROVE TxInv'
    BY <2>2, CallStepTx
  <2>3. ASSUME NEW immediate \in BOOLEAN, OnReset(immediate) PROVE TxInv'
    BY <2>3, OnResetTx
  <2>4. CASE ScheduleReset \/ ResetStopped
    BY <2>4, ScheduleResetTx, ResetStoppedTx
  <2>5. CASE Connect \/ Disconnect \/ Mark \/ BootNotification
    BY <2>5, ConnectTx, DisconnectTx, MarkTx
  <2>6. ASSUME NEW all \in BOOLEAN, SaveSnapshot(all) PROVE TxInv'
    BY <2>6, SaveSnapshotTx
  <2>7. ASSUME NEW pick \in [Conn -> Session \cup {0}], Restart(pick) PROVE TxInv'
    BY <2>7, RestartTx
  <2>8. CASE Drain
    BY <2>8, DrainTx
  <2>9. QED
    BY <1>1, <2>1, <2>2, <2>3, <2>4, <2>5, <2>6, <2>7, <2>8 DEF Next
<1>2. CASE UNCHANGED vars
  BY <1>2, StutterTx
<1>3. QED
  BY <1>1, <1>2

\* In every reachable state, whatever the number of EVSEs, sessions, callbacks at
\* once, lost links, crashes and Resets, the inductive invariant holds.
THEOREM TxAlways == Spec => []TxInv
<1>1. Init => TxInv
  BY InitTx
<1>2. TxInv /\ [Next]_vars => TxInv'
  BY NextTx
<1>3. QED
  BY <1>1, <1>2, PTL DEF Spec

-----------------------------------------------------------------------------
(* The properties the runs check.                                          *)

\* Types of the program's state; the queue holds a record once, under the id it was
\* accepted with, and the drain's copy is of a record still queued.
THEOREM TxTypeCorrect == Spec => []TypeOK
<1>1. TxInv => TypeOK
  <2> SUFFICES ASSUME TxInv PROVE TypeOK
    OBVIOUS
  <2> USE DEF TxInv, Typed
  <2>1. \A c \in Conn : session[c].s \in Session \cup {0} /\ builders[c] \in Session \cup {0}
    <3>1. ASSUME NEW c \in Conn PROVE session[c].s \in 0..MaxSessions
      BY SessionAt, Transactions201Assumption
    <3>2. \A x \in 0..MaxSessions : x \in Session \cup {0}
      BY Transactions201Assumption DEF Session
    <3>3. QED
      BY <3>1, <3>2, BooksAt
  <2>2. started \in 0..MaxSessions /\ updates \in 0..MaxUpdates /\ nextTx \in 0..started
    BY Transactions201Assumption DEF SessionsTyped, BooksTyped
  <2>3. \A i \in Session : ints[i] \in Conn \cup {0} /\ (i > nextTx => ints[i] = 0)
    BY DEF BooksTyped
  <2>4. \A r \in Queued : \E i \in 1..Len(queue) : r = queue[i]
    BY QueueAt DEF Queued
  <2>5. \A r \in Queued : r.id \in DOMAIN put /\ put[r.id] = [s |-> r.s, kind |-> r.kind, seq |-> r.seq]
    <3>1. \A i \in 1..Len(queue) : queue[i].id \in 1..Len(put) /\ put[queue[i].id] = Content(queue[i])
      BY DEF Numbered
    <3>2. QED
      BY <2>4, <3>1, PutAt DEF Content
  <2>6. \A i, j \in DOMAIN queue : queue[i].id = queue[j].id => i = j
    <3>1. \A i \in 1..Len(queue) : queue[i].id \in Nat
      BY QueueAt DEF RecordType
    <3>2. \A i, j \in 1..Len(queue) : i = j \/ i < j \/ j < i
      BY QueueAt
    <3>3. \A i, j \in 1..Len(queue) : i < j => queue[i].id < queue[j].id
      BY DEF Numbered
    <3>4. \A i, j \in 1..Len(queue) : i < j => queue[i].id # queue[j].id
      BY <3>1, <3>3
    <3>5. QED
      BY <3>2, <3>4, QueueAt
  <2>7. drain.pc \in {"send", "reply"} => \E r \in Queued : r.id = drain.msg.id
    BY DrainHolds, QueueAt DEF Queued
  <2>8. failed \subseteq Session /\ resetter.left \subseteq Conn
    BY DEF QueueTyped, SessionsTyped
  <2>9. {connected, registered, pendingReset} \subseteq BOOLEAN
    BY DEF LinkTyped, SessionsTyped
  <2>10. QED
    BY <2>1, <2>2, <2>3, <2>5, <2>6, <2>7, <2>8, <2>9 DEF TypeOK
<1>2. QED
  BY <1>1, TxAlways, PTL

\* A transaction's events are queued in the order of their sequence numbers, Started
\* first and with number 0, Ended last, unless two callbacks worked on it at once
\* (the numbers of the v201 builder, transaction_queue.go).
THEOREM EventsKeepOrder == Spec => []EventsInOrder
<1>1. TxInv => EventsInOrder
  BY DEF TxInv, Sequenced
<1>2. QED
  BY <1>1, TxAlways, PTL

\* An event that reaches the CSMS over a later connection than the one it was created
\* in says so (markQueuedEventsOffline), whatever the drain writes back meanwhile.
THEOREM LateEventsSayOffline == Spec => []OfflineTold
<1>1. TxInv => OfflineTold
  BY DEF TxInv, Late
<1>2. QED
  BY <1>1, TxAlways, PTL

\* After a rejected Started nothing of its transaction reaches the CSMS, until an
\* Ended event is buried or the station restarts (failedTxUUID).
THEOREM RejectionCascades == Spec => []RejectedStartCascades
<1>1. TxInv => RejectedStartCascades
  BY DEF TxInv, Cascades
<1>2. QED
  BY <1>1, TxAlways, PTL

\* The CSMS is told of the end of every transaction it is told of, but for those
\* that were cut off from their session.
THEOREM TransactionsAreClosed == Spec => []TransactionsClosed
<1>1. TxInv => TransactionsClosed
  <2> SUFFICES ASSUME TxInv PROVE TransactionsClosed
    OBVIOUS
  <2> USE DEF TxInv, Typed
  <2>1. ASSUME NEW s, NEW i \in 1..Len(put), s = put[i].s, calls = {}, s \notin cut,
               \A c \in Conn : session[c].s # s
        PROVE  \E j \in 1..Len(put) : put[j].s = s /\ put[j].kind = "Ended"
    <3>1. s \in Session /\ s \in Heard
      BY <2>1, PutAt, HeardOf
    <3>2. ~Fresh(s)
      BY <3>1 DEF Fresh
    <3>3. s \in (1..started) \ cut
      <4>1. s \in Nat /\ s >= 1 /\ started \in Nat
        BY <3>1, Transactions201Assumption DEF Session, SessionsTyped
      <4>2. ~(s > started)
        BY <3>1, <3>2 DEF Starts
      <4>3. QED
        BY <2>1, <4>1, <4>2
    <3>4. Ending(s) \/ Closes(s)
      BY <3>3 DEF Closing
    <3>5. QED
      BY <2>1, <3>4 DEF Ending, Closes
  <2>2. QED
    BY <2>1, PutAt DEF TransactionsClosed
<1>2. QED
  BY <1>1, TxAlways, PTL

-----------------------------------------------------------------------------
(* The queue implements Outbox.                                            *)

\* Each session has one Started event and one Ended event, each update one Updated.
PutBounded == Len(put) <= 2 * MaxSessions + MaxUpdates

LEMMA PutBound == TxInv => PutBounded
<1> SUFFICES ASSUME TxInv PROVE Len(put) <= 2 * MaxSessions + MaxUpdates
  BY DEF PutBounded
<1> USE DEF TxInv, Typed
<1>1. MaxSessions \in Nat /\ MaxUpdates \in Nat
  BY Transactions201Assumption
<1>2. IsFiniteSet(Session) /\ Cardinality(Session) = MaxSessions
  <2>1. IsFiniteSet(1..MaxSessions)
        /\ Cardinality(1..MaxSessions) = IF 1 > MaxSessions THEN 0 ELSE MaxSessions - 1 + 1
    BY <1>1, FS_Interval
  <2>2. QED
    BY <1>1, <2>1 DEF Session
<1>3. ASSUME NEW kind, \A i, j \in PutOf(kind) : put[i].s = put[j].s => i = j
      PROVE  Cardinality(PutOf(kind)) <= MaxSessions
  <2>1. IsFiniteSet(PutOf(kind)) /\ Cardinality(PutOf(kind)) \in Nat
    BY ToComeFinite
  <2>2. \A j \in PutOf(kind) : put[j].s \in Session
    BY PutAt DEF PutOf
  <2>3. [j \in PutOf(kind) |-> put[j].s] \in [PutOf(kind) -> Session]
    BY <2>2
  <2>4. ~(Cardinality(Session) < Cardinality(PutOf(kind)))
    <3>1. SUFFICES ASSUME Cardinality(Session) < Cardinality(PutOf(kind)) PROVE FALSE
      OBVIOUS
    <3>2. PICK f : f = [j \in PutOf(kind) |-> put[j].s]
      OBVIOUS
    <3>3. \E x, y \in PutOf(kind) : x # y /\ f[x] = f[y]
      BY <1>2, <2>1, <2>3, <3>1, <3>2, FS_PigeonHole
    <3>4. QED
      BY <1>3, <3>2, <3>3
  <2>5. QED
    BY <1>1, <1>2, <2>1, <2>4
<1>4. Cardinality(PutOf("Started")) <= MaxSessions
  BY <1>3 DEF PutOf, Starts
<1>5. Cardinality(PutOf("Ended")) <= MaxSessions
  BY <1>3 DEF PutOf, Ends
<1>6. Cardinality(PutOf("Updated")) <= MaxUpdates
  BY <1>1, ToComeFinite DEF Counts, SessionsTyped
<1>7. ASSUME NEW S, NEW T, IsFiniteSet(S), IsFiniteSet(T)
      PROVE  /\ IsFiniteSet(S \cup T) /\ Cardinality(S \cup T) \in Nat
             /\ Cardinality(S \cup T) <= Cardinality(S) + Cardinality(T)
  <2>1. /\ IsFiniteSet(S \cup T)
        /\ Cardinality(S \cup T) = Cardinality(S) + Cardinality(T) - Cardinality(S \cap T)
    BY <1>7, FS_Union
  <2>2. IsFiniteSet(S \cap T)
    BY <1>7, FS_Subset
  <2>3. /\ Cardinality(S) \in Nat /\ Cardinality(T) \in Nat
        /\ Cardinality(S \cup T) \in Nat /\ Cardinality(S \cap T) \in Nat
    BY <1>7, <2>1, <2>2, FS_CardinalityType
  <2>4. QED
    BY <2>1, <2>3
<1>8. Cardinality(PutOf("Started") \cup PutOf("Ended")) <= 2 * MaxSessions
  <2>1. IsFiniteSet(PutOf("Started")) /\ IsFiniteSet(PutOf("Ended"))
        /\ Cardinality(PutOf("Started")) \in Nat /\ Cardinality(PutOf("Ended")) \in Nat
    BY ToComeFinite
  <2>2. /\ Cardinality(PutOf("Started") \cup PutOf("Ended")) \in Nat
        /\ Cardinality(PutOf("Started") \cup PutOf("Ended"))
              <= Cardinality(PutOf("Started")) + Cardinality(PutOf("Ended"))
    BY <1>7, <2>1
  <2>3. QED
    BY <1>1, <1>4, <1>5, <2>1, <2>2
<1>9. 1..Len(put) = (PutOf("Started") \cup PutOf("Ended")) \cup PutOf("Updated")
  BY PutAt DEF PutOf, Kind
<1>10. Cardinality(1..Len(put)) = Len(put)
  <2>1. Len(put) \in Nat
    BY PutAt
  <2>2. Cardinality(1..Len(put)) = IF 1 > Len(put) THEN 0 ELSE Len(put) - 1 + 1
    BY <2>1, FS_Interval
  <2>3. QED
    BY <2>1, <2>2
<1>11. QED
  <2>1. /\ IsFiniteSet(PutOf("Started") \cup PutOf("Ended"))
        /\ Cardinality(PutOf("Started") \cup PutOf("Ended")) \in Nat
        /\ IsFiniteSet(PutOf("Updated")) /\ Cardinality(PutOf("Updated")) \in Nat
    BY <1>7, ToComeFinite
  <2>2. Len(put) <= Cardinality(PutOf("Started") \cup PutOf("Ended")) + Cardinality(PutOf("Updated"))
    BY <1>7, <1>9, <1>10, <2>1
  <2>3. Len(put) \in Nat
    BY PutAt
  <2>4. QED
    BY <1>1, <1>6, <1>8, <2>1, <2>2, <2>3

LEMMA PutBoundNext == TxInv' => PutBounded'
<1>1. TxInv => PutBounded
  BY PutBound
<1>2. QED
  BY <1>1, PTL

Pending201 == {Name(r) : r \in Queued}
Delivered201 == {Name(g) : g \in got}
Buried201 == {Name(b) : b \in buried}
Keys201 == (1..(2 * MaxSessions + MaxUpdates)) \X Session \X Kind

LEMMA PendingAt ==
    ASSUME TxInv
    PROVE  /\ Pending201 = {Name(queue[i]) : i \in 1..Len(queue)}
           /\ \A i \in 1..Len(queue) : Name(queue[i]) \in Keys201
<1> USE DEF TxInv, Typed
<1>1. Pending201 = {Name(queue[i]) : i \in 1..Len(queue)}
  <2>1. /\ \A i \in 1..Len(queue) : queue[i] \in Queued
        /\ \A r \in Queued : \E i \in 1..Len(queue) : r = queue[i]
    BY QueueAt DEF Queued
  <2>2. QED
    BY <2>1 DEF Pending201
<1>2. \A i \in 1..Len(queue) : Name(queue[i]) \in Keys201
  <2>1. \A n \in 1..Len(put) : n \in 1..(2 * MaxSessions + MaxUpdates)
    BY PutBound, PutAt, Transactions201Assumption DEF PutBounded
  <2>2. ASSUME NEW i \in 1..Len(queue) PROVE Name(queue[i]) \in Keys201
    <3>1. queue[i] \in RecordType /\ queue[i].id \in 1..Len(put)
      BY QueueAt DEF Numbered
    <3>2. QED
      BY <2>1, <3>1 DEF Name, Keys201, RecordType
  <2>3. QED
    BY <2>2
<1>3. QED
  BY <1>1, <1>2

\* What a step is to the outbox.
Keeps == Pending201' = Pending201 /\ Delivered201' = Delivered201 /\ Buried201' = Buried201
Puts(k) == /\ k \notin Pending201 /\ Pending201' = Pending201 \cup {k}
           /\ Delivered201' = Delivered201 /\ Buried201' = Buried201
Delivers(k) == /\ k \in Pending201 /\ Delivered201' = Delivered201 \cup {k}
               /\ Pending201' = Pending201 /\ Buried201' = Buried201
Retires(k) == /\ k \in Pending201 \cap Delivered201 /\ Pending201' = Pending201 \ {k}
              /\ Delivered201' = Delivered201 /\ Buried201' = Buried201
Buries(k) == /\ k \in Pending201 /\ Pending201' = Pending201 \ {k}
             /\ Buried201' = Buried201 \cup {k} /\ Delivered201' = Delivered201
OutboxStep == Keeps \/ \E k \in Keys201 : Puts(k) \/ Delivers(k) \/ Retires(k) \/ Buries(k)

LEMMA StepsOfOutbox == OutboxStep => [Promise!Next]_Promise!outboxVars
<1> USE DEF Pending201, Delivered201, Buried201
<1>1. Keeps => UNCHANGED Promise!outboxVars
  BY DEF Keeps, Promise!outboxVars
<1>2. ASSUME NEW k \in Keys201
      PROVE  /\ Puts(k) => Promise!Put(k)
             /\ Delivers(k) => Promise!Deliver(k)
             /\ Retires(k) => Promise!Retire(k)
             /\ Buries(k) => Promise!Bury(k)
  BY DEF Puts, Delivers, Retires, Buries, Promise!Put, Promise!Deliver, Promise!Retire, Promise!Bury
<1>3. QED
  BY <1>1, <1>2 DEF OutboxStep, Promise!Next, Keys201

LEMMA QueueKeeps ==
    ASSUME TxInv, TxInv', Len(queue') = Len(queue), UNCHANGED <<got, buried>>,
           \A i \in 1..Len(queue) : Name(queue'[i]) = Name(queue[i])
    PROVE  OutboxStep
<1>1. Pending201' = {Name(queue'[i]) : i \in 1..Len(queue')}
  <2>1. /\ \A i \in 1..Len(queue') : queue'[i] \in Queued'
        /\ \A r \in Queued' : \E i \in 1..Len(queue') : r = queue'[i]
    <3>1. DOMAIN queue' = 1..Len(queue')
      BY LenProperties DEF TxInv, Typed, QueueTyped
    <3>2. QED
      BY <3>1 DEF Queued
  <2>2. QED
    BY <2>1 DEF Pending201
<1>2. Pending201' = Pending201
  BY <1>1, PendingAt
<1>3. QED
  BY <1>2 DEF OutboxStep, Keeps, Delivered201, Buried201

LEMMA HeadGone ==
    ASSUME TxInv, queue # <<>>, NEW r, r.id = queue[1].id, queue' = Dequeued(r)
    PROVE  /\ Name(queue[1]) \in Pending201 /\ Name(queue[1]) \in Keys201
           /\ Pending201' = Pending201 \ {Name(queue[1])}
<1> USE DEF TxInv, Typed
<1>1. /\ queue' \in Seq(RecordType) /\ Len(queue') = Len(queue) - 1 /\ Len(queue) \in Nat
      /\ \A i \in 1..Len(queue') : queue'[i] = queue[i + 1] /\ i + 1 \in 1..Len(queue)
  BY DequeuedOps, QueueAt
<1>2. 1 \in 1..Len(queue) /\ Name(queue[1]) \in Pending201 /\ Name(queue[1]) \in Keys201
  BY PendingAt, QueueAt
<1>3. Pending201' = {Name(queue'[i]) : i \in 1..Len(queue')}
  <2>1. DOMAIN queue' = 1..Len(queue')
    BY <1>1, LenProperties
  <2>2. /\ \A i \in 1..Len(queue') : queue'[i] \in Queued'
        /\ \A q \in Queued' : \E i \in 1..Len(queue') : q = queue'[i]
    BY <2>1 DEF Queued
  <2>3. QED
    BY <2>2 DEF Pending201
<1>4. \A i \in 1..Len(queue) : i # 1 => Name(queue[i]) # Name(queue[1])
  <2>1. \A i \in 1..Len(queue) : queue[i].id \in Nat /\ (i = 1 \/ 1 < i)
    BY QueueAt DEF RecordType
  <2>2. \A i \in 1..Len(queue) : i # 1 => queue[1].id < queue[i].id
    BY <1>2, <2>1 DEF Numbered
  <2>3. QED
    BY <1>2, <2>1, <2>2 DEF Name
<1>5. \A k : k \in Pending201' => k \in Pending201 /\ k # Name(queue[1])
  <2>1. ASSUME NEW k \in Pending201' PROVE k \in Pending201 /\ k # Name(queue[1])
    <3>1. PICK i \in 1..Len(queue') : k = Name(queue'[i])
      BY <1>3
    <3>2. PICK n \in 1..Len(queue) : n = i + 1 /\ n # 1 /\ k = Name(queue[n])
      BY <1>1, <3>1
    <3>3. QED
      BY <1>4, <3>2, PendingAt
  <2>2. QED
    BY <2>1
<1>6. \A k \in Pending201 : k # Name(queue[1]) => k \in Pending201'
  <2>1. ASSUME NEW k \in Pending201, k # Name(queue[1]) PROVE k \in Pending201'
    <3>1. PICK n \in 1..Len(queue) : k = Name(queue[n])
      BY PendingAt
    <3>2. PICK i : i = n - 1
      OBVIOUS
    <3>3. i \in 1..Len(queue') /\ i + 1 = n
      BY <1>1, <2>1, <3>1, <3>2
    <3>4. QED
      BY <1>1, <1>3, <3>1, <3>3
  <2>2. QED
    BY <2>1
<1>7. QED
  BY <1>2, <1>5, <1>6

LEMMA NamedAlike ==
    \A x, y : x.id = y.id /\ Content(x) = Content(y) => Name(x) = Name(y)
BY DEF Content, Name

\* Dead letters are no loss.
LEMMA BuryLoses ==
    ASSUME TxInv, queue # <<>>, NEW r, r.id = queue[1].id, Content(r) = Content(queue[1]),
           NEW reason, Bury(r, reason), UNCHANGED got
    PROVE  OutboxStep
<1>1. PICK d : d = [id |-> r.id, s |-> r.s, kind |-> r.kind, reason |-> reason]
  OBVIOUS
<1>2. queue' = Dequeued(r) /\ buried' = buried \cup {d}
  BY <1>1 DEF Bury
<1>3. Name(d) = Name(queue[1])
  <2>1. Name(d) = Name(r)
    BY <1>1 DEF Name
  <2>2. QED
    BY <2>1, NamedAlike
<1>4. Buried201' = Buried201 \cup {Name(queue[1])} /\ Delivered201' = Delivered201
  BY <1>2, <1>3 DEF Buried201, Delivered201
<1>5. Buries(Name(queue[1])) /\ Name(queue[1]) \in Keys201
  BY <1>2, <1>4, HeadGone DEF Buries
<1>6. QED
  BY <1>5 DEF OutboxStep

LEMMA EnqueuePuts == ASSUME TxInv, TxInv', NEW k \in calls, Enqueue(k) PROVE OutboxStep
<1> USE DEF TxInv, Typed
<1>1. PICK r : r = [Record(k.txn, k.kind, k.seq, k.offline, k.born) EXCEPT !.id = Len(put')]
  OBVIOUS
<1>2. /\ put' = Append(put, [s |-> k.txn, kind |-> k.kind, seq |-> k.seq])
      /\ queue' = Append(queue, r) /\ UNCHANGED <<got, buried>>
  BY <1>1 DEF Enqueue
<1>3. Len(put) \in Nat /\ Len(put') = Len(put) + 1
  <2>1. put \in Seq(PutType) /\ put' \in Seq(PutType)
    BY DEF QueueTyped
  <2>2. QED
    BY <1>2, <2>1
<1>4. r.id = Len(put')
  BY <1>1 DEF Record
<1>5. /\ queue \in Seq(RecordType) /\ queue' \in Seq(RecordType)
      /\ Len(queue) \in Nat /\ DOMAIN queue = 1..Len(queue)
  BY QueueAt DEF QueueTyped
<1>6. /\ Len(queue') = Len(queue) + 1 /\ queue'[Len(queue) + 1] = r
      /\ \A i \in 1..Len(queue) : queue'[i] = queue[i]
  BY <1>2, <1>5
<1>7. DOMAIN queue' = 1..(Len(queue) + 1)
  BY <1>5, <1>6, LenProperties
<1>8. Pending201' = Pending201 \cup {Name(r)}
  <2>1. \A i \in 1..(Len(queue) + 1) : i \in 1..Len(queue) \/ i = Len(queue) + 1
    BY <1>5
  <2>2. \A i \in 1..Len(queue) : i \in 1..(Len(queue) + 1)
    BY <1>5
  <2>3. Len(queue) + 1 \in 1..(Len(queue) + 1)
    BY <1>5
  <2>4. Queued' = {queue'[i] : i \in 1..(Len(queue) + 1)}
    BY <1>7 DEF Queued
  <2>5. Queued = {queue[i] : i \in 1..Len(queue)}
    BY <1>5 DEF Queued
  <2>6. Queued' = Queued \cup {r}
    BY <1>6, <2>1, <2>2, <2>3, <2>4, <2>5
  <2>7. QED
    BY <2>6 DEF Pending201
<1>9. Name(r) \notin Pending201
  <2>1. \A i \in 1..Len(queue) : queue[i].id # r.id
    BY <1>3, <1>4 DEF Numbered
  <2>2. QED
    BY <2>1, PendingAt DEF Name
<1>10. Name(r) \in Keys201
  <2>1. r \in RecordType
    BY <1>5, <1>6, <1>7, ElementOfSeq
  <2>2. Len(put') <= 2 * MaxSessions + MaxUpdates
    BY PutBoundNext DEF PutBounded
  <2>3. r.id \in 1..(2 * MaxSessions + MaxUpdates)
    BY <1>3, <1>4, <2>2, Transactions201Assumption
  <2>4. QED
    BY <2>1, <2>3 DEF Name, Keys201, RecordType
<1>11. Delivered201' = Delivered201 /\ Buried201' = Buried201
  BY <1>2 DEF Delivered201, Buried201
<1>12. QED
  BY <1>8, <1>9, <1>10, <1>11 DEF OutboxStep, Puts

\* A step that changes no id changes no name.
LEMMA SameIds ==
    ASSUME TxInv, TxInv', UNCHANGED <<put, got, buried>>, DOMAIN queue' = DOMAIN queue,
           \A i \in 1..Len(queue) : queue'[i].id = queue[i].id
    PROVE  OutboxStep
<1> USE DEF TxInv, Typed
<1>1. Len(queue') = Len(queue)
  <2>1. queue \in Seq(RecordType) /\ queue' \in Seq(RecordType)
    BY DEF QueueTyped
  <2>2. QED
    BY <2>1
<1>2. \A i \in 1..Len(queue) : put[queue[i].id] = Content(queue[i])
  BY DEF Numbered
<1>3. \A i \in 1..Len(queue') : put'[queue'[i].id] = Content(queue'[i])
  BY DEF Numbered
<1>4. \A i \in 1..Len(queue) : Content(queue'[i]) = Content(queue[i])
  BY <1>1, <1>2, <1>3
<1>5. \A i \in 1..Len(queue) : Name(queue'[i]) = Name(queue[i])
  BY <1>4, NamedAlike
<1>6. QED
  BY <1>1, <1>5, QueueKeeps

LEMMA UpdateKeeps ==
    ASSUME TxInv, TxInv', NEW r, queue' = Updated(r), UNCHANGED <<put, got, buried>>
    PROVE  OutboxStep
<1>1. DOMAIN queue = 1..Len(queue)
  BY QueueAt DEF TxInv, Typed
<1>2. queue' = [i \in DOMAIN queue |-> IF queue[i].id = r.id THEN r ELSE queue[i]]
  BY DEF Updated
<1>3. DOMAIN queue' = DOMAIN queue /\ \A i \in 1..Len(queue) : queue'[i].id = queue[i].id
  BY <1>1, <1>2
<1>4. QED
  BY <1>3, SameIds

LEMMA SameQueue == ASSUME UNCHANGED <<queue, got, buried>> PROVE OutboxStep
BY DEF OutboxStep, Keeps, Pending201, Delivered201, Buried201, Queued

LEMMA DrainLosesNothing == ASSUME TxInv, TxInv', Drain PROVE OutboxStep
<1>1. CASE Succeed
  <2>1. PICK r : r = drain.msg
    OBVIOUS
  <2>2. /\ drain.pc # "idle" /\ drain.outcome = "accepted" /\ queue' = Dequeued(r)
        /\ UNCHANGED <<got, buried>>
    BY <1>1, <2>1 DEF Succeed, history
  <2>3. queue # <<>> /\ r.id = queue[1].id /\ Content(r) = Content(queue[1]) /\ put[r.id] = Content(r)
    BY <2>1, <2>2, DrainHolds
  <2>4. PICK g \in got : g.id = r.id
    BY <2>1, <2>2 DEF TxInv, Numbered, GotIds
  <2>5. Name(g) = Name(queue[1])
    <3>1. put[g.id] = Content(g)
      BY DEF TxInv, Numbered
    <3>2. QED
      BY <2>3, <2>4, <3>1, NamedAlike
  <2>6. Name(queue[1]) \in Delivered201
    BY <2>5 DEF Delivered201
  <2>7. Retires(Name(queue[1])) /\ Name(queue[1]) \in Keys201
    BY <2>2, <2>3, <2>6, HeadGone DEF Retires, Delivered201, Buried201
  <2>8. QED
    BY <2>7 DEF OutboxStep
<1>2. CASE Reject
  <2>1. drain.pc # "idle" /\ Bury(drain.msg, "rejected") /\ UNCHANGED got
    BY <1>2 DEF Reject
  <2>2. QED
    BY <2>1, DrainHolds, BuryLoses
<1>3. ASSUME NEW attempts \in Attempts, Pick(attempts) PROVE OutboxStep
  <2>1. queue # <<>> /\ Head(queue) = queue[1] /\ UNCHANGED got
    BY <1>3, QueueAt DEF Pick, TxInv, Typed
  <2>2. \/ \E reason \in {"exhausted", "start-unconfirmed"} : Bury(Head(queue), reason)
        \/ UNCHANGED <<queue, buried>>
    BY <1>3 DEF Pick
  <2>3. CASE \E reason \in {"exhausted", "start-unconfirmed"} : Bury(Head(queue), reason)
    BY <2>1, <2>3, BuryLoses
  <2>4. CASE UNCHANGED <<queue, buried>>
    BY <2>1, <2>4, SameQueue
  <2>5. QED
    BY <2>2, <2>3, <2>4
<1>4. ASSUME NEW attempts \in Attempts, Fail(attempts) PROVE OutboxStep
  <2>1. PICK r : r = [drain.msg EXCEPT !.retries = IF @ < attempts THEN @ + 1 ELSE @,
                                       !.offline = OnWire(drain.msg)]
    OBVIOUS
  <2>2. /\ drain.pc # "idle" /\ UNCHANGED <<put, got>>
        /\ Bury(r, "exhausted") \/ (queue' = Updated(r) /\ UNCHANGED buried)
    BY <1>4, <2>1 DEF Fail
  <2>3. queue # <<>> /\ r.id = queue[1].id /\ Content(r) = Content(queue[1])
    <3>1. /\ queue # <<>> /\ drain.msg \in RecordType /\ drain.msg.id = queue[1].id
          /\ Content(drain.msg) = Content(queue[1])
      BY <2>2, DrainHolds
    <3>2. r.id = drain.msg.id /\ Content(r) = Content(drain.msg)
      BY <2>1, <3>1 DEF RecordType, Content
    <3>3. QED
      BY <3>1, <3>2
  <2>4. CASE Bury(r, "exhausted")
    BY <2>2, <2>3, <2>4, BuryLoses
  <2>5. CASE queue' = Updated(r) /\ UNCHANGED buried
    BY <2>2, <2>5, UpdateKeeps
  <2>6. QED
    BY <2>2, <2>4, <2>5
<1>5. ASSUME NEW outcome \in {"accepted", "error"}, Received(outcome) PROVE OutboxStep
  <2>1. PICK r : r = drain.msg
    OBVIOUS
  <2>2. PICK g : g = [id |-> r.id, s |-> r.s, kind |-> r.kind, seq |-> r.seq,
                      born |-> r.born, link |-> drops, offline |-> OnWire(r)]
    OBVIOUS
  <2>3. drain.pc # "idle" /\ got' = got \cup {g} /\ UNCHANGED <<queue, buried>>
    BY <1>5, <2>1, <2>2 DEF Received
  <2>4. Name(g) = Name(queue[1]) /\ queue # <<>>
    <3>1. queue # <<>> /\ r.id = queue[1].id /\ Content(r) = Content(queue[1])
      BY <2>1, <2>3, DrainHolds
    <3>2. Name(g) = Name(r)
      BY <2>2 DEF Name
    <3>3. QED
      BY <3>1, <3>2, NamedAlike
  <2>5. Name(queue[1]) \in Pending201 /\ Name(queue[1]) \in Keys201
    BY <2>4, PendingAt, QueueAt DEF TxInv, Typed
  <2>6. Delivered201' = Delivered201 \cup {Name(queue[1])} /\ Pending201' = Pending201
    BY <2>3, <2>4 DEF Delivered201, Pending201, Queued
  <2>7. Delivers(Name(queue[1]))
    BY <2>3, <2>5, <2>6 DEF Delivers, Buried201
  <2>8. QED
    BY <2>5, <2>7 DEF OutboxStep
<1>6. ASSUME NEW outcome \in {"error", "fatal"}, NotReceived(outcome) PROVE OutboxStep
  BY <1>6, SameQueue DEF NotReceived, history
<1>7. QED
  BY <1>1, <1>2, <1>3, <1>4, <1>5, <1>6 DEF Drain

LEMMA StepLosesNothing == ASSUME TxInv, [Next]_vars PROVE OutboxStep
<1>1. TxInv'
  BY NextTx
<1>2. CASE Drain
  BY <1>1, <1>2, DrainLosesNothing
<1>3. CASE Mark
  <2>1. UNCHANGED <<put, got, buried>>
    BY <1>3 DEF Mark, history
  <2>2. queue' = queue \/ queue' = Updated(Marked(Head(marking)))
    BY <1>3 DEF Mark
  <2>3. CASE queue' = queue
    BY <2>1, <2>3, SameQueue
  <2>4. CASE queue' = Updated(Marked(Head(marking)))
    BY <1>1, <2>1, <2>4, UpdateKeeps
  <2>5. QED
    BY <2>2, <2>3, <2>4
<1>4. ASSUME NEW pick \in [Conn -> Session \cup {0}], Restart(pick) PROVE OutboxStep
  <2>1. /\ UNCHANGED <<put, got, buried>>
        /\ queue' = [i \in DOMAIN queue |-> [queue[i] EXCEPT !.raw = TRUE]]
    BY <1>4 DEF Restart
  <2>2. DOMAIN queue = 1..Len(queue) /\ \A i \in 1..Len(queue) : queue[i] \in RecordType
    BY QueueAt DEF TxInv, Typed
  <2>3. DOMAIN queue' = DOMAIN queue /\ \A i \in 1..Len(queue) : queue'[i].id = queue[i].id
    BY <2>1, <2>2 DEF RecordType
  <2>4. QED
    BY <1>1, <2>1, <2>3, SameIds
<1>5. ASSUME NEW k \in calls, CallStep(k) PROVE OutboxStep
  <2>1. CASE Enqueue(k)
    BY <1>1, <2>1, EnqueuePuts
  <2>2. CASE ~Enqueue(k)
    <3>1. UNCHANGED <<queue, got, buried>>
      BY <1>5, <2>2 DEF CallStep, AllocateStarted, AllocateUpdated, AllocateEnded, LastEnded, Stamp,
                        SetActive, Settle, history
    <3>2. QED
      BY <3>1, SameQueue
  <2>3. QED
    BY <2>1, <2>2
<1>6. ASSUME NEW c \in Conn,
             \/ \E tx \in Provisional : StartSession(c, tx)
             \/ StopSession(c) \/ Update(c) \/ ResetStop(c)
      PROVE  OutboxStep
  <2>1. UNCHANGED <<queue, got, buried>>
    BY <1>6 DEF StartSession, StopSession, Update, ResetStop, End, history
  <2>2. QED
    BY <2>1, SameQueue
<1>7. CASE \/ \E immediate \in BOOLEAN : OnReset(immediate)
           \/ ScheduleReset \/ ResetStopped \/ Connect \/ Disconnect \/ BootNotification
           \/ \E all \in BOOLEAN : SaveSnapshot(all)
           \/ UNCHANGED vars
  <2>1. UNCHANGED <<queue, got, buried>>
    BY <1>7 DEF OnReset, ScheduleReset, ResetStopped, Connect, Disconnect, BootNotification,
                SaveSnapshot, vars, history
  <2>2. QED
    BY <2>1, SameQueue
<1>8. QED
  BY <1>2, <1>3, <1>4, <1>5, <1>6, <1>7 DEF Next

\* The queue, the CSMS and dead-letter storage together lose nothing: over markings,
\* retries, rejections, lost replies and crashes, the queue implements the outbox.
THEOREM QueueImplementsOutbox == Spec => NothingLost
<1>1. Init => Promise!Init
  <2> SUFFICES ASSUME Init PROVE Promise!Init
    OBVIOUS
  <2>1. queue = <<>> /\ got = {} /\ buried = {}
    BY DEF Init
  <2>2. Queued = {}
    BY <2>1 DEF Queued
  <2>3. QED
    BY <2>1, <2>2 DEF Promise!Init
<1>2. TxInv /\ [Next]_vars => [Promise!Next]_Promise!outboxVars
  BY StepLosesNothing, StepsOfOutbox
<1>3. QED
  BY <1>1, <1>2, TxAlways, PTL DEF Spec, NothingLost, Promise!Spec
=============================================================================
