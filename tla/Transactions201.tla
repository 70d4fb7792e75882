---------------------------- MODULE Transactions201 ----------------------------
(***************************************************************************)
(* OCPP 2.0.1 transactions: the engine's callbacks and the meter ticker    *)
(* turn sessions into TransactionEvents                                    *)
(* (internal/ocpp/v201/transaction_queue.go, transaction.go), drainQueue   *)
(* sends them (bridge.go, queue_drain.go), a Reset waits for them          *)
(* (bridge.go, handlers.go), and transactions_201.json lets a restart go    *)
(* on with them (persist.go).                                              *)
(*                                                                         *)
(* A callback runs after the engine has released its lock and takes the    *)
(* bridge's lock only for its map updates, so each is a call of several    *)
(* steps ("pc"): numbering an event reads and writes the builder's seqNo   *)
(* without a lock, and the offline flag is read before the record is       *)
(* queued.  The transaction id (a uuid) minted for session s is written s. *)
(* The drain is single-flighted (see Drain16), hence one process.  The     *)
(* WebSocket client runs the disconnect handler to its end before it dials *)
(* again.  Retry intervals, payloads other than kind, seqNo and offline,   *)
(* charging profiles and failing file writes are abstracted.               *)
(***************************************************************************)
EXTENDS Integers, FiniteSets, SequencesExt

CONSTANTS
    Conn,          \* EVSEs, each with one connector
    Attempts,      \* values RetryBackOffRepeatTimes may have at a read
    Provisional,   \* transaction ids callers pass to the engine's StartSession
    MaxSessions,   \* bound: sessions ever started
    MaxUpdates,    \* bound: meter samples and charging-state changes
    MaxCalls,      \* bound: callbacks running at once
    MaxDrops,      \* bound: times the link is lost
    MaxRestarts,   \* bound: crashes
    MaxResets      \* bound: Reset requests of the CSMS

ASSUME Transactions201Assumption ==
    /\ Conn \subseteq Nat \ {0}
    /\ Attempts \subseteq Nat \ {0}
    /\ Provisional \subseteq {-1, 0, 1}
    /\ {MaxSessions, MaxUpdates, MaxCalls, MaxDrops, MaxRestarts, MaxResets} \subseteq Nat

Session == 1..MaxSessions
Kind == {"Started", "Updated", "Ended"}

\* own: the session's own start callback set tx, and none has set it since.
NoSession == [s |-> 0, tx |-> 0, own |-> FALSE]

\* A queued TransactionEvent; raw: its payload was read back from the file and
\* is not shared with anybody.  "born" is the connection it was stamped in.
Record(s, kind, seq, offline, born) ==
    [s |-> s, kind |-> kind, seq |-> seq, offline |-> offline, born |-> born,
     id |-> 0, retries |-> 0, raw |-> FALSE]
NoRecord == Record(0, "none", 0, FALSE, 0)

VARIABLES
    session,      \* the engine's session on each connector
    saved,        \* the same in the engine's last snapshot on disk
    started,      \* sessions started so far
    updates,      \* Updated events triggered so far
    calls,        \* the callbacks under way
    builders,     \* txBuilders: the transaction of each EVSE, 0 for none
    seqNo,        \* the next sequence number of each transaction's builder
    ints,         \* txIntToEVSE: 0 where there is no entry
    nextTx,       \* nextTxInt
    disk,         \* transactions_201.json: builders, seqNo, ints, nextTx
    queue,        \* the message queue
    drain,        \* where drainQueue is, and with which copy of a record
    failed,       \* failedTxUUID
    marking,      \* copies of records markQueuedEventsOffline has still to look at
    connected, registered,
    pendingReset,
    resetter,     \* the Reset handler: step, and connectors still to stop
    drops, restarts, resets,
    \* History.
    put,          \* s, kind and seq of the records, as the queue accepted them;
                  \* a record's id is its position here
    got,          \* records the CSMS received, "link": over which connection
    buried,       \* dead letters: id, s, kind, reason
    raced,        \* transactions two callbacks worked on at once
    cut,          \* transactions whose stop cannot find them any more
    excused       \* ids or <<s, seq>> whose offline flag was overtaken

engine == <<session, saved, started, updates>>
books == <<builders, seqNo, ints, nextTx>>
link == <<connected, registered>>
reset == <<pendingReset, resetter>>
bounds == <<drops, restarts, resets>>
history == <<put, got, buried, raced, cut, excused>>
vars == <<engine, calls, books, disk, queue, drain, failed, marking, link, reset,
          bounds, history>>

Idle == [pc |-> "idle", msg |-> NoRecord, outcome |-> "none"]
NoReset == [pc |-> "idle", left |-> {}]

Books == [builders |-> builders, seqNo |-> seqNo, ints |-> ints, nextTx |-> nextTx]

Init ==
    /\ session = [c \in Conn |-> NoSession]
    /\ saved = session
    /\ started = 0 /\ updates = 0 /\ calls = {}
    /\ builders = [c \in Conn |-> 0]
    /\ seqNo = [s \in Session |-> 0]
    /\ ints = [i \in Session |-> 0]
    /\ nextTx = 0
    /\ disk = Books
    /\ queue = <<>>
    /\ drain = Idle
    /\ failed = {} /\ marking = <<>>
    /\ connected = FALSE /\ registered = FALSE
    /\ pendingReset = FALSE /\ resetter = NoReset
    /\ drops = 0 /\ restarts = 0 /\ resets = 0
    /\ put = <<>> /\ got = {} /\ buried = {}
    /\ raced = {} /\ cut = {} /\ excused = {}

-----------------------------------------------------------------------------
(* Sessions and the calls they cause.                                      *)

Call(kind, s, c, tx, sync) ==
    [kind |-> kind, s |-> s, conn |-> c, tx |-> tx, sync |-> sync, pc |-> "new",
     txn |-> 0, seq |-> 0, offline |-> FALSE, born |-> 0, id |-> started + updates]

NoSessions == \A c \in Conn : session[c] = NoSession
NoBuilders == \A c \in Conn : builders[c] = 0

StartSession(c, tx) ==
    /\ session[c] = NoSession
    /\ started < MaxSessions
    /\ Cardinality(calls) < MaxCalls
    /\ started' = started + 1
    /\ session' = [session EXCEPT ![c] = [s |-> started', tx |-> tx, own |-> FALSE]]
    /\ calls' = calls \cup {Call("Started", started', c, 0, FALSE)}
    /\ UNCHANGED <<saved, updates, books, disk, queue, drain, failed, marking, link,
                   reset, bounds, history>>

\* The session on c ends; "sync": the Reset handler waits for the callback.  A
\* transaction id that is not the session's own names another or none.
End(c, sync) ==
    /\ session[c] # NoSession
    /\ session' = [session EXCEPT ![c] = NoSession]
    /\ calls' = calls \cup {Call("Ended", session[c].s, c, session[c].tx, sync)}
    /\ cut' = IF session[c].own THEN cut ELSE cut \cup {session[c].s}
    /\ UNCHANGED <<saved, started, updates, books, disk, queue, drain, failed, marking,
                   link, bounds, put, got, buried, raced, excused>>

StopSession(c) ==
    /\ Cardinality(calls) < MaxCalls
    /\ End(c, FALSE)
    /\ UNCHANGED reset

\* A charging-state change, or the meter ticker: it passes over sessions whose
\* transaction id is 0.
Update(c) ==
    /\ session[c] # NoSession
    /\ updates < MaxUpdates
    /\ Cardinality(calls) < MaxCalls
    /\ updates' = updates + 1
    /\ calls' = calls \cup {Call("Updated", session[c].s, c, session[c].tx, FALSE)}
    /\ UNCHANGED <<session, saved, started, books, disk, queue, drain, failed, marking,
                   link, reset, bounds, history>>

-----------------------------------------------------------------------------
(* Reset.                                                                  *)

\* completeReset: transactions still in the books are forgotten.
CompleteReset ==
    /\ pendingReset' = FALSE
    /\ registered' = FALSE
    /\ builders' = [c \in Conn |-> 0]
    /\ ints' = [i \in Session |-> 0]
    /\ cut' = (cut \cup {builders[c] : c \in Conn}) \ {0}

MaybeCompleteReset ==
    IF pendingReset /\ NoBuilders
    THEN CompleteReset
    ELSE UNCHANGED <<pendingReset, registered, builders, ints, cut>>

\* OnReset.  Immediate: triggerReset stops the sessions one after the other.
\* OnIdle: whether a session is open is read first and pendingReset set after.
OnReset(immediate) ==
    /\ connected
    /\ resets < MaxResets
    /\ resetter = NoReset
    /\ resets' = resets + 1
    /\ IF NoSessions
       THEN CompleteReset /\ UNCHANGED resetter
       ELSE /\ IF immediate
               THEN /\ pendingReset' = TRUE
                    /\ resetter' = [pc |-> "stopping",
                                    left |-> {c \in Conn : session[c] # NoSession}]
               ELSE /\ resetter' = [pc |-> "scheduling", left |-> {}]
                    /\ UNCHANGED pendingReset
            /\ UNCHANGED <<registered, builders, ints, cut>>
    /\ UNCHANGED <<engine, calls, seqNo, nextTx, disk, queue, drain, failed, marking,
                   connected, drops, restarts, put, got, buried, raced, excused>>

ScheduleReset ==
    /\ resetter.pc = "scheduling"
    /\ pendingReset' = TRUE
    /\ resetter' = NoReset
    /\ UNCHANGED <<engine, calls, books, disk, queue, drain, failed, marking, link,
                   bounds, history>>

\* The loop's StopSession runs the callbacks before it returns.
ResetStop(c) ==
    /\ resetter.pc = "stopping"
    /\ c \in resetter.left
    /\ \A k \in calls : ~k.sync
    /\ resetter' = [resetter EXCEPT !.left = @ \ {c}]
    /\ \/ End(c, TRUE)
       \/ /\ session[c] = NoSession
          /\ UNCHANGED <<engine, calls, books, disk, queue, drain, failed, marking,
                         link, bounds, history>>
    /\ UNCHANGED pendingReset

ResetStopped ==
    /\ resetter.pc = "stopping"
    /\ resetter.left = {}
    /\ \A k \in calls : ~k.sync
    /\ resetter' = NoReset
    /\ MaybeCompleteReset
    /\ UNCHANGED <<engine, calls, seqNo, nextTx, disk, queue, drain, failed, marking,
                   connected, bounds, put, got, buried, raced, excused>>

-----------------------------------------------------------------------------
(* The steps of a call.                                                    *)

Becomes(k, l) == calls' = (calls \ {k}) \cup {l}
Returns(k) == calls' = calls \ {k}

\* Another callback has this transaction's builder in its hands.
Contended(k, txn) ==
    \E l \in calls \ {k} : l.txn = txn /\ l.pc \in {"last", "numbered", "stamped"}
Noted(k, txn) == raced' = IF Contended(k, txn) THEN raced \cup {txn} ELSE raced

Indexed(k) == [ints EXCEPT ![nextTx + 1] = k.conn]

\* EnqueueTransactionStart is refused while the station is not registered;
\* allocateStartedRequest: the builder replaces any other on its EVSE.
AllocateStarted(k) ==
    /\ k \in calls /\ k.kind = "Started" /\ k.pc = "new"
    /\ IF registered
       THEN /\ nextTx' = nextTx + 1
            /\ ints' = Indexed(k)
            /\ builders' = [builders EXCEPT ![k.conn] = k.s]
            /\ cut' = (cut \cup {builders[k.conn]}) \ {0}
            /\ Becomes(k, [k EXCEPT !.pc = "numbered", !.txn = k.s, !.tx = nextTx',
                                  !.seq = seqNo[k.s]])
       ELSE Returns(k) /\ UNCHANGED <<nextTx, ints, builders, cut>>
    /\ UNCHANGED <<engine, seqNo, disk, queue, drain, failed, marking, link, reset,
                   bounds, put, got, buried, raced, excused>>

\* allocateUpdatedRequest, allocateMeterUpdatedRequest
AllocateUpdated(k) ==
    LET txn == builders[k.conn]
    IN /\ k \in calls /\ k.kind = "Updated" /\ k.pc = "new"
       /\ IF txn = 0
          THEN Returns(k) /\ UNCHANGED raced
          ELSE /\ Becomes(k, [k EXCEPT !.pc = "numbered", !.txn = txn, !.seq = seqNo[txn]])
               /\ Noted(k, txn)
       /\ UNCHANGED <<engine, books, disk, queue, drain, failed, marking, link, reset,
                      bounds, put, got, buried, cut, excused>>

\* allocateEndedRequest: the transaction leaves the books; was it the last one?
AllocateEnded(k) ==
    LET evse == IF k.tx \in Session THEN ints[k.tx] ELSE 0
        txn  == IF evse = 0 THEN 0 ELSE builders[evse]
    IN /\ k \in calls /\ k.kind = "Ended" /\ k.pc = "new"
       /\ IF txn = 0
          THEN /\ Becomes(k, [k EXCEPT !.pc = "ended"])
               /\ UNCHANGED <<builders, ints, raced>>
          ELSE /\ builders' = [builders EXCEPT ![evse] = 0]
               /\ ints' = [ints EXCEPT ![k.tx] = 0]
               /\ Becomes(k, [k EXCEPT !.pc = IF NoBuilders' THEN "last" ELSE "numbered",
                                     !.txn = txn, !.seq = seqNo[txn]])
               /\ Noted(k, txn)
       /\ UNCHANGED <<engine, seqNo, nextTx, disk, queue, drain, failed, marking, link,
                      reset, bounds, put, got, buried, cut, excused>>

\* It was: a reset waiting for that is completed before the Ended event is built,
\* whatever was started meanwhile.
LastEnded(k) ==
    /\ k \in calls /\ k.pc = "last"
    /\ Becomes(k, [k EXCEPT !.pc = "numbered"])
    /\ IF pendingReset
       THEN CompleteReset
       ELSE UNCHANGED <<pendingReset, registered, builders, ints, cut>>
    /\ UNCHANGED <<engine, seqNo, nextTx, disk, queue, drain, failed, marking,
                   connected, resetter, bounds, put, got, buried, raced, excused>>

\* Started, Updated and Ended of the builder take b.seqNo without a lock (read
\* with the allocation here); b.seqNo++, persistTransactions and the offline flag.
BugCounted(k) == seqNo
Counted(k) == [seqNo EXCEPT ![k.txn] = k.seq + 1]

Stamp(k) ==
    /\ k \in calls /\ k.pc = "numbered"
    /\ seqNo' = Counted(k)
    /\ disk' = [Books EXCEPT !.seqNo = seqNo']
    /\ Becomes(k, [k EXCEPT !.pc = "stamped", !.offline = ~connected, !.born = drops])
    /\ UNCHANGED <<engine, builders, ints, nextTx, queue, drain, failed, marking, link,
                   reset, bounds, history>>

Enqueue(k) ==
    /\ k \in calls /\ k.pc = "stamped"
    /\ put' = Append(put, [s |-> k.txn, kind |-> k.kind, seq |-> k.seq])
    /\ queue' = Append(queue, [Record(k.txn, k.kind, k.seq, k.offline, k.born)
                                  EXCEPT !.id = Len(put')])
    /\ IF k.kind = "Updated" THEN Returns(k)
       ELSE Becomes(k, [k EXCEPT !.pc = IF k.kind = "Ended" THEN "ended" ELSE "queued"])
    /\ UNCHANGED <<engine, books, disk, drain, failed, marking, link, reset, bounds,
                   got, buried, raced, cut, excused>>

\* SetActiveTransaction: on whatever session the connector has by now.
SetActive(k) ==
    LET cur == session[k.conn]
    IN /\ k \in calls /\ k.pc = "queued"
       /\ session' = [session EXCEPT ![k.conn] =
              IF cur = NoSession THEN cur
              ELSE [cur EXCEPT !.tx = k.tx, !.own = cur.s = k.s]]
       /\ Returns(k)
       /\ UNCHANGED <<saved, started, updates, books, disk, queue, drain, failed,
                      marking, link, reset, bounds, history>>

\* The end of newSessionStoppedCallback.
Settle(k) ==
    /\ k \in calls /\ k.pc = "ended"
    /\ Returns(k)
    /\ MaybeCompleteReset
    /\ UNCHANGED <<engine, seqNo, nextTx, disk, queue, drain, failed, marking,
                   connected, resetter, bounds, put, got, buried, raced, excused>>

CallStep(k) ==
    \/ AllocateStarted(k) \/ AllocateUpdated(k) \/ AllocateEnded(k) \/ LastEnded(k)
    \/ Stamp(k) \/ Enqueue(k) \/ SetActive(k) \/ Settle(k)

-----------------------------------------------------------------------------
(* The link, registration and restarts.                                    *)

Queued == {queue[i] : i \in DOMAIN queue}
GotIds == {g.id : g \in got}
BuriedIds == {b.id : b \in buried}

Connect ==
    /\ ~connected
    /\ marking = <<>>
    /\ connected' = TRUE
    /\ UNCHANGED <<engine, calls, books, disk, queue, drain, failed, marking, registered,
                   reset, bounds, history>>

\* The disconnect handler goes through copies of the whole queue.  An event
\* stamped but not queued yet escapes it, and so does a raw one the drain holds,
\* for the drain may write its own copy back.
Disconnect ==
    /\ connected
    /\ drops < MaxDrops
    /\ connected' = FALSE
    /\ drops' = drops + 1
    /\ marking' = queue
    /\ excused' = excused \cup {<<k.txn, k.seq>> : k \in {l \in calls : l.pc = "stamped"}}
                          \cup (IF drain.msg.raw THEN {<<drain.msg.s, drain.msg.seq>>} ELSE {})
    /\ UNCHANGED <<engine, calls, books, disk, queue, drain, failed, registered, reset,
                   restarts, resets, put, got, buried, raced, cut>>

\* queue.Update of a copy r of a record: nothing if the record is gone.
BugUpdated(r) == Append(queue, r)
Updated(r) == [i \in DOMAIN queue |-> IF queue[i].id = r.id THEN r ELSE queue[i]]

BugMarked(r) == r
Marked(r) == [r EXCEPT !.offline = TRUE, !.raw = FALSE]

Mark ==
    /\ marking # <<>>
    /\ marking' = Tail(marking)
    /\ queue' = IF Head(marking).offline THEN queue ELSE Updated(Marked(Head(marking)))
    /\ UNCHANGED <<engine, calls, books, disk, drain, failed, link, reset, bounds, history>>

\* An accepted BootNotification; a rejected one leaves the station unregistered.
BootNotification ==
    /\ connected /\ ~registered
    /\ registered' = TRUE
    /\ UNCHANGED <<engine, calls, books, disk, queue, drain, failed, marking, connected,
                   reset, bounds, history>>

\* The persistence coordinator saves the engine, SaveAll (PersistStation) the
\* books as well (bound: while a crash may follow).
SaveSnapshot(all) ==
    /\ restarts < MaxRestarts
    /\ saved' = session
    /\ disk' = IF all THEN Books ELSE disk
    /\ <<saved, disk>>' # <<saved, disk>>
    /\ UNCHANGED <<session, started, updates, calls, books, queue, drain, failed,
                   marking, link, reset, bounds, history>>

\* A crash cuts a transaction off when its Ended event was not queued and its
\* session is out of the engine's snapshot, or the transaction out of the file,
\* or an earlier one of the EVSE is still in the file with it.
OnFile(s, c, tx) == disk.builders[c] = s /\ {i \in Session : disk.ints[i] = c} = {tx}
Survives(s) ==
    \/ \E j \in DOMAIN put : put[j].s = s /\ put[j].kind = "Ended"
    \/ /\ \E c \in Conn : saved[c].s = s
       /\ \A c \in Conn : saved[c].s = s /\ saved[c].own => OnFile(s, c, saved[c].tx)

\* loadTransactions.  The file has one txInt for the transaction of an EVSE, any
\* of those that point there.
BugLoaded(pick) == [i \in Session |-> 0]
Loaded(pick) ==
    [i \in Session |->
        IF \E c \in Conn : disk.builders[c] # 0 /\ pick[c] = i THEN disk.ints[i] ELSE 0]

\* A crash, and LoadState; transactions that are not in the file are lost.
Restart(pick) ==
    LET kept == {c \in Conn : disk.builders[c] # 0}
    IN /\ restarts < MaxRestarts
       /\ restarts' = restarts + 1
       /\ \A c \in Conn : pick[c] # 0 => disk.ints[pick[c]] = c
       /\ \A c \in kept : pick[c] = 0 => \A i \in Session : disk.ints[i] # c
       /\ session' = saved
       /\ calls' = {}
       /\ builders' = disk.builders
       /\ seqNo' = disk.seqNo
       /\ ints' = Loaded(pick)
       /\ nextTx' = disk.nextTx
       /\ queue' = [i \in DOMAIN queue |-> [queue[i] EXCEPT !.raw = TRUE]]
       /\ drain' = Idle
       /\ failed' = {} /\ marking' = <<>>
       /\ connected' = FALSE /\ registered' = FALSE
       /\ pendingReset' = FALSE /\ resetter' = NoReset
       /\ cut' = cut \cup {s \in 1..started : ~Survives(s)}
       /\ excused' = excused \cup {<<r.s, r.seq>> : r \in Queued}
       /\ UNCHANGED <<saved, started, updates, disk, drops, resets, put, got, buried, raced>>

-----------------------------------------------------------------------------
(* drainQueue.                                                             *)

Dequeued(r) ==
    LET place == {i \in DOMAIN queue : queue[i].id = r.id}
    IN  IF place = {} THEN queue
        ELSE RemoveAt(queue, CHOOSE i \in place : \A j \in place : i <= j)

BugBury(r, reason) ==
    /\ queue' = Dequeued(r)
    /\ UNCHANGED buried
Bury(r, reason) ==
    /\ queue' = Dequeued(r)
    /\ buried' = buried \cup {[id |-> r.id, s |-> r.s, kind |-> r.kind, reason |-> reason]}

Goto(pc, msg, outcome) == drain' = [pc |-> pc, msg |-> msg, outcome |-> outcome]

BugOrphaned(r) == FALSE
Orphaned(r) == r.kind # "Started" /\ r.s \in failed

\* The head is due: dead-lettered when its attempts are used up or its Started
\* was rejected (the Ended closes the transaction), sent otherwise.
Pick(attempts) ==
    LET r == Head(queue)
    IN /\ drain.pc = "idle"
       /\ connected /\ queue # <<>>
       /\ \/ /\ r.retries >= attempts
             /\ Bury(r, "exhausted")
             /\ UNCHANGED <<drain, failed>>
          \/ /\ r.retries < attempts /\ Orphaned(r)
             /\ Bury(r, "start-unconfirmed")
             /\ failed' = IF r.kind = "Ended" THEN failed \ {r.s} ELSE failed
             /\ UNCHANGED drain
          \/ /\ r.retries < attempts /\ ~Orphaned(r)
             /\ Goto("send", r, "none")
             /\ UNCHANGED <<queue, buried, failed>>
       /\ UNCHANGED <<engine, calls, books, disk, marking, link, reset, bounds, put, got,
                      raced, cut, excused>>

\* The offline flag on the wire: shared with the queue unless the copy is raw.
OnWire(r) ==
    IF r.raw THEN r.offline ELSE \E q \in Queued : q.id = r.id /\ q.offline

Received(outcome) ==
    LET r == drain.msg
    IN /\ drain.pc = "send" /\ connected
       /\ Goto("reply", r, outcome)
       /\ got' = got \cup {[id |-> r.id, s |-> r.s, kind |-> r.kind, seq |-> r.seq,
                            born |-> r.born, link |-> drops, offline |-> OnWire(r)]}
       /\ UNCHANGED <<engine, calls, books, disk, queue, failed, marking, link, reset,
                      bounds, put, buried, raced, cut, excused>>

\* The link is down, the request is lost, or it is answered with a CALLERROR.
NotReceived(outcome) ==
    /\ drain.pc = "send"
    /\ outcome = "fatal" => connected
    /\ Goto("reply", drain.msg, outcome)
    /\ UNCHANGED <<engine, calls, books, disk, queue, failed, marking, link, reset,
                   bounds, history>>

Succeed ==
    LET r == drain.msg
    IN /\ drain.pc = "reply" /\ drain.outcome = "accepted"
       /\ queue' = Dequeued(r)
       /\ failed' = IF r.kind = "Started" THEN failed \ {r.s} ELSE failed
       /\ drain' = Idle
       /\ UNCHANGED <<engine, calls, books, disk, marking, link, reset, bounds, history>>

Reject ==
    LET r == drain.msg
    IN /\ drain.pc = "reply" /\ drain.outcome = "fatal"
       /\ Bury(r, "rejected")
       /\ failed' = IF r.kind = "Started" THEN failed \cup {r.s} ELSE failed
       /\ drain' = Idle
       /\ UNCHANGED <<engine, calls, books, disk, marking, link, reset, bounds, put, got,
                      raced, cut, excused>>

\* markQueuedMessageFailure writes back the drain's own copy.
Fail(attempts) ==
    LET r == [drain.msg EXCEPT
                !.retries = IF @ < attempts THEN @ + 1 ELSE @,
                !.offline = OnWire(drain.msg)]
    IN /\ drain.pc = "reply" /\ drain.outcome = "error"
       /\ IF r.retries >= attempts
          THEN Bury(r, "exhausted")
          ELSE /\ queue' = Updated(r)
               /\ UNCHANGED buried
       /\ drain' = Idle
       /\ UNCHANGED <<engine, calls, books, disk, failed, marking, link, reset, bounds,
                      put, got, raced, cut, excused>>

Drain ==
    \/ Succeed \/ Reject
    \/ \E attempts \in Attempts : Pick(attempts) \/ Fail(attempts)
    \/ \E outcome \in {"accepted", "error"} : Received(outcome)
    \/ \E outcome \in {"error", "fatal"} : NotReceived(outcome)

-----------------------------------------------------------------------------
Next ==
    \/ \E c \in Conn :
          \/ \E tx \in Provisional : StartSession(c, tx)
          \/ StopSession(c) \/ Update(c) \/ ResetStop(c)
    \/ \E k \in calls : CallStep(k)
    \/ \E immediate \in BOOLEAN : OnReset(immediate)
    \/ ScheduleReset \/ ResetStopped
    \/ Connect \/ Disconnect \/ Mark
    \/ BootNotification
    \/ \E all \in BOOLEAN : SaveSnapshot(all)
    \/ \E pick \in [Conn -> Session \cup {0}] : Restart(pick)
    \/ Drain

Spec == Init /\ [][Next]_vars

-----------------------------------------------------------------------------
(* Properties.                                                             *)

\* Types; the queue holds a record once, under the id it was accepted with, and
\* the drain works on a queued record.
TypeOK ==
    /\ \A c \in Conn : session[c].s \in Session \cup {0} /\ builders[c] \in Session \cup {0}
    /\ started \in 0..MaxSessions /\ updates \in 0..MaxUpdates /\ nextTx \in 0..started
    /\ \A i \in Session : ints[i] \in Conn \cup {0} /\ (i > nextTx => ints[i] = 0)
    /\ \A r \in Queued : r.id \in DOMAIN put /\ put[r.id] = [s |-> r.s, kind |-> r.kind, seq |-> r.seq]
    /\ \A i, j \in DOMAIN queue : queue[i].id = queue[j].id => i = j
    /\ drain.pc \in {"send", "reply"} => \E r \in Queued : r.id = drain.msg.id
    /\ failed \subseteq Session /\ resetter.left \subseteq Conn
    /\ {connected, registered, pendingReset} \subseteq BOOLEAN

\* The queue, the CSMS and dead-letter storage together lose nothing: markings,
\* retries, rejections, lost replies and crashes implement the abstract outbox.
Name(r) == <<r.id, r.s, r.kind>>
Promise == INSTANCE Outbox WITH
    Key <- (1..(2 * MaxSessions + MaxUpdates)) \X Session \X Kind,
    pending <- {Name(r) : r \in Queued},
    delivered <- {Name(g) : g \in got},
    buried <- {Name(b) : b \in buried}
NothingLost == Promise!Spec

\* A transaction's events are queued, hence sent, in the order of their sequence
\* numbers, none twice, Started first and with number 0, Ended last - across link
\* losses, crashes and resets, unless two callbacks worked on it at the same time.
EventsInOrder ==
    \A j \in DOMAIN put :
        put[j].s \notin raced =>
            /\ put[j].kind = "Started" => put[j].seq = 0
            /\ \A i \in 1..(j - 1) : put[i].s = put[j].s =>
                  put[i].seq < put[j].seq /\ put[i].kind # "Ended" /\ put[j].kind # "Started"

\* An event that reaches the CSMS over a later connection than the one it was
\* created in says so (E11.FR.07, markQueuedEventsOffline), even if the drain
\* wrote its copy of the record back - but for the overtaken and crashed ones.
OfflineTold ==
    \A g \in got : g.link > g.born => g.offline \/ <<g.s, g.seq>> \in excused

\* Once a transaction's Started was rejected for good, nothing of it queued later
\* reaches the CSMS, up to its Ended, which ends the memory of the rejection
\* (failedTxUUID) as a restart does.
RejectedStartCascades ==
    \A b \in buried : \A g \in got :
        b.kind = "Started" /\ b.reason = "rejected" /\ g.s = b.s /\ g.id > b.id =>
            \/ restarts > 0
            \/ \E e \in buried : e.s = b.s /\ e.kind = "Ended" /\ e.id < g.id

\* A transaction the CSMS is told of is closed: once its session has stopped and
\* the callbacks have returned, its Ended event was queued - over restarts, which
\* go on with it from transactions_201.json (loadTransactions).  Excepted: the
\* session stopped before its start callback had returned, another start callback
\* took the EVSE, a reset emptied the books under it, or a crash came before the
\* snapshot had the session or after the file had given up the transaction.
TransactionsClosed ==
    \A i \in DOMAIN put :
        LET s == put[i].s
        IN calls = {} /\ s \notin cut /\ (\A c \in Conn : session[c].s # s) =>
              \E j \in DOMAIN put : put[j].s = s /\ put[j].kind = "Ended"
=============================================================================
