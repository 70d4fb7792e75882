------------------------------- MODULE Drain16 -------------------------------
(***************************************************************************)
(* Durable delivery of OCPP 1.6 transactions: the session callbacks and    *)
(* the meter ticker append records (internal/ocpp/v16/transaction_queue.go *)
(* and cmd/chargeghost/callbacks.go), drainQueue sends them               *)
(* (internal/ocpp/v16/bridge.go), SendStartTransaction and                 *)
(* SendStopTransaction talk to the CSMS (senders.go).                      *)
(*                                                                         *)
(* The engine runs a callback after it has released its lock, so a         *)
(* callback is a call of its own ("calls") that other threads can          *)
(* overtake.  drainQueue is started by three goroutines ("Drainers"): the  *)
(* reconnect handler, the 30 s loop and the dispatcher.  The link may be   *)
(* lost and the process may crash between any two steps; the queue file    *)
(* survives (PersistMessageQueue).  A record carries its kind, session and  *)
(* transaction id; the rest of the payload, timestamps, the length of the   *)
(* retry interval and failing writes of the file are abstracted.           *)
(***************************************************************************)
EXTENDS Integers, FiniteSets, SequencesExt

CONSTANTS
    Conn,          \* connectors
    Drainers,      \* goroutines that start a drain pass
    Attempts,      \* values TransactionMessageAttempts may have at a read
    Provisional,   \* transaction ids callers pass to the engine's StartSession
    MaxSessions,   \* bound: sessions ever started
    MaxSamples,    \* bound: sessions with a meter sample, one each
    MaxCalls,      \* bound: callbacks running at once
    MaxDrops,      \* bound: times the link is lost
    MaxRestarts    \* bound: crashes

ASSUME Drain16Assumption ==
    /\ Attempts \subseteq Nat \ {0}
    /\ Provisional \subseteq {-1, 1} /\ Provisional # {}
    /\ {MaxSessions, MaxSamples, MaxCalls, MaxDrops, MaxRestarts} \subseteq Nat

Session == 1..MaxSessions
Kind == {"Start", "Meter", "Stop"}
Key == Kind \X Session

\* The transaction id the CSMS assigns to session s; until then the session
\* has a provisional one (-1 from REST and remote start, the literal 1 from the
\* sessions API).
CsmsTx(s) == s + 1
Tx == Provisional \cup {CsmsTx(s) : s \in Session}

\* The engine's view of a connector: no session, or session s with id tx.
NoSession == [s |-> 0, tx |-> 0]

Record(kind, s, c, tx) ==
    [kind |-> kind, s |-> s, conn |-> c, tx |-> tx, id |-> 0, retries |-> 0, raw |-> FALSE]
NoRecord == Record("none", 0, 0, 0)

VARIABLES
    session,    \* the session on each connector
    saved,      \* the same in the engine's last snapshot on disk
    started,    \* sessions started so far
    sampled,    \* sessions with a meter sample
    calls,      \* records that running callbacks are about to enqueue
    queue,      \* the message queue; raw: loaded from the file by this process
    connected, registered,
    draining,   \* the single-flight flag
    work,       \* where each drainer is, and with which record and outcome
    failedStart,\* startFailed: connectors whose last Start was rejected
    drops, restarts,
    \* History.
    put,        \* keys in the order in which the queue accepted them; a record's
                \* id is its position here and stands for its uuid
    got,        \* records the CSMS received: id, kind, session, transaction id
    buried,     \* dead letters: id, kind, session, reason
    doubt,      \* ids received by the CSMS while the station missed the reply
    moved       \* ids queued again because the link was down at the send

engine == <<session, saved, started, sampled, calls>>
link == <<connected, registered>>
bounds == <<drops, restarts>>
history == <<put, got, buried, doubt, moved>>
vars == <<engine, queue, link, draining, work, failedStart, bounds, history>>

Idle == [pc |-> "idle", msg |-> NoRecord, outcome |-> "none"]

Init ==
    /\ session = [c \in Conn |-> NoSession]
    /\ saved = session
    /\ started = 0 /\ sampled = {} /\ calls = {}
    /\ queue = <<>>
    /\ connected = FALSE /\ registered = FALSE
    /\ draining = FALSE
    /\ work = [d \in Drainers |-> Idle]
    /\ failedStart = {}
    /\ drops = 0 /\ restarts = 0
    /\ put = <<>> /\ got = {} /\ buried = {} /\ doubt = {} /\ moved = {}

-----------------------------------------------------------------------------
(* Queue operations.                                                       *)

KeyOf(r) == <<r.kind, r.s>>
Queued == {queue[i] : i \in DOMAIN queue}
GotIds == {g.id : g \in got}
BuriedIds == {b.id : b \in buried}

\* Appending record r, which gets a new id, to queue q.
Enqueued(q, r) == Append(q, [r EXCEPT !.id = Len(put) + 1, !.retries = 0, !.raw = FALSE])
Logged(r) == Append(put, KeyOf(r))

\* The first record with the id of r leaves, if there is one.
Dequeued(r) ==
    LET place == {i \in DOMAIN queue : queue[i].id = r.id}
    IN  IF place = {} THEN queue
        ELSE RemoveAt(queue, CHOOSE i \in place : \A j \in place : i <= j)
BugUpdated(r) == Append(Dequeued(r), r)
Updated(r) == [i \in DOMAIN queue |-> IF queue[i].id = r.id THEN r ELSE queue[i]]

BugBury(r, reason) ==
    /\ queue' = Dequeued(r)
    /\ UNCHANGED buried
Bury(r, reason) ==
    /\ queue' = Dequeued(r)
    /\ buried' = buried \cup {[id |-> r.id, kind |-> r.kind, s |-> r.s, reason |-> reason]}

-----------------------------------------------------------------------------
(* Sessions, and the callbacks that report them.                           *)

StartSession(c, tx) ==
    /\ session[c] = NoSession
    /\ started < MaxSessions
    /\ Cardinality(calls) < MaxCalls
    /\ started' = started + 1
    /\ session' = [session EXCEPT ![c] = [s |-> started', tx |-> tx]]
    /\ calls' = calls \cup {Record("Start", started', c, 0)}
    /\ UNCHANGED <<saved, sampled, queue, link, draining, work, failedStart, bounds, history>>

StopSession(c) ==
    /\ session[c] # NoSession
    /\ Cardinality(calls) < MaxCalls
    /\ session' = [session EXCEPT ![c] = NoSession]
    /\ calls' = calls \cup {Record("Stop", session[c].s, c, session[c].tx)}
    /\ UNCHANGED <<saved, started, sampled, queue, link, draining, work, failedStart, bounds, history>>

\* The ticker reads the session's transaction id, then enqueues.
MeterSample(c) ==
    /\ session[c] # NoSession
    /\ session[c].s \notin sampled
    /\ Cardinality(sampled) < MaxSamples
    /\ Cardinality(calls) < MaxCalls
    /\ sampled' = sampled \cup {session[c].s}
    /\ calls' = calls \cup {Record("Meter", session[c].s, c, session[c].tx)}
    /\ UNCHANGED <<saved, session, started, queue, link, draining, work, failedStart, bounds, history>>

\* EnqueueTransactionStart, -Stop or EnqueueMeterValues.  Only the start is
\* refused while the station is not registered.
EnqueueTransaction(r) ==
    /\ r \in calls
    /\ calls' = calls \ {r}
    /\ IF r.kind = "Start" /\ ~registered
       THEN UNCHANGED <<queue, put>>
       ELSE /\ queue' = Enqueued(queue, r)
            /\ put' = Logged(r)
    /\ UNCHANGED <<saved, session, started, sampled, link, draining, work, failedStart,
                   bounds, got, buried, doubt, moved>>

-----------------------------------------------------------------------------
(* The link, registration and restarts.                                    *)

Connect ==
    /\ ~connected
    /\ connected' = TRUE
    /\ UNCHANGED <<engine, queue, registered, draining, work, failedStart, bounds, history>>

\* registered is left alone by a disconnect.
Disconnect ==
    /\ connected
    /\ drops < MaxDrops
    /\ connected' = FALSE
    /\ drops' = drops + 1
    /\ UNCHANGED <<engine, queue, registered, draining, work, failedStart, restarts, history>>

\* The answer to a BootNotification; a Reset request also clears registered.
BootNotification(accepted) ==
    /\ connected
    /\ registered' = accepted
    /\ UNCHANGED <<engine, queue, connected, draining, work, failedStart, bounds, history>>

\* The persistence coordinator's periodic snapshot of the engine (bound: only
\* while a crash may still follow, for nothing else reads it).
SaveSnapshot ==
    /\ restarts < MaxRestarts
    /\ saved' = session
    /\ UNCHANGED <<session, started, sampled, calls, queue, link, draining, work,
                   failedStart, bounds, history>>

\* A crash and a restart from the snapshot and the queue file.
Restart ==
    /\ restarts < MaxRestarts
    /\ restarts' = restarts + 1
    /\ session' = saved
    /\ calls' = {}
    /\ queue' = [i \in DOMAIN queue |-> [queue[i] EXCEPT !.raw = TRUE]]
    /\ connected' = FALSE /\ registered' = FALSE
    /\ draining' = FALSE
    /\ work' = [d \in Drainers |-> Idle]
    /\ failedStart' = {}
    /\ doubt' = doubt \cup (GotIds \cap {work[d].msg.id : d \in Drainers})
    /\ UNCHANGED <<saved, started, sampled, drops, put, got, buried, moved>>

-----------------------------------------------------------------------------
(* drainQueue.  A pass that finds the link down or the queue empty has no  *)
(* effect and is not a step.                                               *)

Goto(d, pc, msg, outcome) ==
    work' = [work EXCEPT ![d] = [pc |-> pc, msg |-> msg, outcome |-> outcome]]

BugSingleFlight == TRUE
SingleFlight == ~draining

Begin(d) ==
    /\ work[d].pc = "idle"
    /\ SingleFlight
    /\ connected /\ queue # <<>>
    /\ draining' = TRUE
    /\ Goto(d, "loop", NoRecord, "none")
    /\ UNCHANGED <<engine, queue, link, failedStart, bounds, history>>

\* The pass returns: link down, nothing queued, or the head not due yet.
Finish(d) ==
    /\ work[d].pc = "loop"
    /\ connected /\ queue # <<>> => Head(queue).retries > 0
    /\ draining' = FALSE
    /\ Goto(d, "idle", NoRecord, "none")
    /\ UNCHANGED <<engine, queue, link, failedStart, bounds, history>>

\* blockedByFailedStart.  A Stop is looked up among the open sessions by its
\* transaction id; several may have the same, and any of them is found.
Holders(tx) == {c \in Conn : session[c] # NoSession /\ session[c].tx = tx}
MayBlock(r) ==
    \/ r.kind = "Stop" /\ Holders(r.tx) \cap failedStart # {}
    \/ r.kind = "Meter" /\ r.conn \in failedStart
MayPass(r) ==
    \/ r.kind = "Start"
    \/ r.kind = "Stop" /\ (Holders(r.tx) = {} \/ Holders(r.tx) \ failedStart # {})
    \/ r.kind = "Meter" /\ r.conn \notin failedStart

\* A Stop read back from the file needs a positive transaction id.
Malformed(r) == r.raw /\ r.kind = "Stop" /\ r.tx <= 0

\* The head is due (its retry interval has passed) and is buried or sent.
Pick(d, attempts) ==
    LET r == Head(queue)
        Discard(reason) ==
            /\ Bury(r, reason)
            /\ UNCHANGED work
        Take ==
            /\ Goto(d, "send", r, "none")
            /\ UNCHANGED <<queue, buried>>
    IN /\ work[d].pc = "loop"
       /\ connected /\ queue # <<>>
       /\ \/ r.retries >= attempts /\ Discard("exhausted")
          \/ r.retries < attempts /\ ~Malformed(r) /\ MayBlock(r) /\ Discard("start-unconfirmed")
          \/ r.retries < attempts /\ Malformed(r) /\ Discard("invalid-payload")
          \/ r.retries < attempts /\ ~Malformed(r) /\ MayPass(r) /\ Take
       /\ UNCHANGED <<engine, link, draining, failedStart, bounds, put, got, doubt, moved>>

\* SendStartTransaction refuses while the station is not registered, and
\* sendMeterValuesAt fails, while the link is down, like any request.
Refused(d) ==
    LET r == work[d].msg
    IN /\ work[d].pc = "send"
       /\ \/ r.kind = "Start" /\ ~registered
          \/ r.kind = "Meter" /\ ~connected
       /\ Goto(d, "reply", r, "error")
       /\ UNCHANGED <<engine, queue, link, draining, failedStart, bounds, history>>

\* SendStartTransaction and SendStopTransaction queue a copy while the link is
\* down, and report success.
QueuedAgain(d) ==
    LET r == work[d].msg
    IN /\ work[d].pc = "send"
       /\ \/ r.kind = "Start" /\ registered
          \/ r.kind = "Stop"
       /\ ~connected
       /\ queue' = Enqueued(queue, r)
       /\ put' = Logged(r)
       /\ moved' = moved \cup {r.id}
       /\ Goto(d, "reply", r, "queued")
       /\ UNCHANGED <<engine, link, draining, failedStart, bounds, got, buried, doubt>>

\* The link looks up: the request goes out.
Sends(d) ==
    /\ work[d].pc = "send"
    /\ work[d].msg.kind = "Start" => registered
    /\ connected

\* The request reaches the CSMS; its answer comes back, or is lost ("error").
Received(d, outcome) ==
    LET r == work[d].msg
    IN /\ Sends(d)
       /\ outcome = "refusedTag" => r.kind = "Start"
       /\ Goto(d, "reply", r, outcome)
       /\ got' = got \cup {[id |-> r.id, kind |-> r.kind, s |-> r.s, tx |-> r.tx]}
       /\ doubt' = IF outcome = "error" THEN doubt \cup {r.id} ELSE doubt
       /\ UNCHANGED <<engine, queue, link, draining, failedStart, bounds, put, buried, moved>>

\* The request is lost or times out ("error"), or is answered with a CALLERROR,
\* transient ("error") or deterministic ("fatal").
NotReceived(d, outcome) ==
    /\ Sends(d)
    /\ Goto(d, "reply", work[d].msg, outcome)
    /\ UNCHANGED <<engine, queue, link, draining, failedStart, bounds, history>>

\* A StartTransaction answered with a refused idTag stops the session now on the
\* connector; the callback of that stop runs in the same goroutine.
Deauthorize(d) ==
    LET r    == work[d].msg
        cur  == session[r.conn]
        stop == Record("Stop", cur.s, r.conn, cur.tx)
    IN /\ work[d].pc = "reply" /\ work[d].outcome = "refusedTag"
       /\ IF cur = NoSession
          THEN UNCHANGED <<session, queue, put>>
          ELSE /\ session' = [session EXCEPT ![r.conn] = NoSession]
               /\ queue' = Enqueued(queue, stop)
               /\ put' = Logged(stop)
       /\ Goto(d, "reply", r, "accepted")
       /\ UNCHANGED <<saved, started, sampled, calls, link, draining, failedStart, bounds,
                      got, buried, doubt, moved>>

BugRetired(r) == queue
Retired(r) == Dequeued(r)

\* The record was sent, or a copy of it queued.  The new transaction id goes to
\* whatever session is on the connector now.
Succeed(d) ==
    LET r   == work[d].msg
        cur == session[r.conn]
        tx  == IF r.kind = "Start" /\ work[d].outcome = "accepted" /\ cur # NoSession
               THEN CsmsTx(r.s) ELSE cur.tx
    IN /\ work[d].pc = "reply" /\ work[d].outcome \in {"accepted", "queued"}
       /\ session' = [session EXCEPT ![r.conn].tx = tx]
       /\ queue' = Retired(r)
       /\ failedStart' = IF r.kind = "Start" THEN failedStart \ {r.conn} ELSE failedStart
       /\ Goto(d, "loop", NoRecord, "none")
       /\ UNCHANGED <<saved, started, sampled, calls, link, draining, bounds, history>>

\* A fatal CALLERROR: dead-letter and go on with the next record.
Reject(d) ==
    LET r == work[d].msg
    IN /\ work[d].pc = "reply"
       /\ work[d].outcome = "fatal"
       /\ Bury(r, "rejected")
       /\ failedStart' = IF r.kind = "Start" THEN failedStart \cup {r.conn} ELSE failedStart
       /\ Goto(d, "loop", NoRecord, "none")
       /\ UNCHANGED <<engine, link, draining, bounds, put, got, doubt, moved>>

\* The attempts counted after a failure.
BugAttempted(r, attempts) == r.retries
Attempted(r, attempts) == IF r.retries < attempts THEN r.retries + 1 ELSE r.retries

\* markQueuedMessageFailure, and the pass ends.
Fail(d, attempts) ==
    LET r == [work[d].msg EXCEPT !.retries = Attempted(work[d].msg, attempts)]
    IN /\ work[d].pc = "reply"
       /\ work[d].outcome = "error"
       /\ IF r.retries >= attempts
          THEN Bury(r, "exhausted")
          ELSE /\ queue' = Updated(r)
               /\ UNCHANGED buried
       /\ draining' = FALSE
       /\ Goto(d, "idle", NoRecord, "none")
       /\ UNCHANGED <<engine, link, failedStart, bounds, put, got, doubt, moved>>

Send(d) ==
    \/ Refused(d)
    \/ QueuedAgain(d)
    \/ \E outcome \in {"accepted", "refusedTag", "error"} : Received(d, outcome)
    \/ \E outcome \in {"error", "fatal"} : NotReceived(d, outcome)

Next ==
    \/ \E c \in Conn : (\E tx \in Provisional : StartSession(c, tx)) \/ StopSession(c) \/ MeterSample(c)
    \/ \E r \in calls : EnqueueTransaction(r)
    \/ Connect
    \/ Disconnect
    \/ \E accepted \in BOOLEAN : BootNotification(accepted)
    \/ SaveSnapshot
    \/ Restart
    \/ \E d \in Drainers :
          \/ Begin(d) \/ Finish(d) \/ Send(d)
          \/ Deauthorize(d) \/ Succeed(d) \/ Reject(d)
          \/ \E attempts \in Attempts : Pick(d, attempts) \/ Fail(d, attempts)

Spec == Init /\ [][Next]_vars

\* A running callback and a running pass proceed (SendRequest times out), the
\* loop starts a pass again and again, and the retry interval of the head, which
\* is finite, eventually passes (SF: passes that come too early return).
Fairness ==
    /\ WF_vars(\E r \in calls : EnqueueTransaction(r))
    /\ WF_vars(\E d \in Drainers : Begin(d))
    /\ \A d \in Drainers :
          /\ WF_vars(\/ Finish(d) \/ Send(d)
                     \/ Deauthorize(d) \/ Succeed(d) \/ Reject(d)
                     \/ \E attempts \in Attempts : Fail(d, attempts))
          /\ SF_vars(\E attempts \in Attempts : Pick(d, attempts))

FairSpec == Spec /\ Fairness

-----------------------------------------------------------------------------
(* Properties.                                                             *)

RecordType ==
    [kind : Kind, s : Session, conn : Conn, tx : Tx \cup {0}, id : Nat, retries : Nat, raw : BOOLEAN]

\* Types, and: the queue holds each uuid once, retries stay below every budget
\* a failure was counted against, and only one pass is under way.
TypeOK ==
    /\ session \in [Conn -> {NoSession} \cup [s : Session, tx : Tx]]
    /\ saved \in [Conn -> {NoSession} \cup [s : Session, tx : Tx]]
    /\ started \in 0..MaxSessions /\ sampled \subseteq Session
    /\ calls \subseteq RecordType
    /\ Queued \subseteq RecordType /\ Cardinality(Queued) = Len(queue)
    /\ \A r \in Queued : r.id \in DOMAIN put /\ put[r.id] = KeyOf(r)
    /\ connected \in BOOLEAN /\ registered \in BOOLEAN
    /\ draining = (\E d \in Drainers : work[d].pc # "idle")
    /\ \A d, e \in Drainers : work[d].pc # "idle" /\ work[e].pc # "idle" => d = e
    /\ \A d \in Drainers : work[d].pc \in {"idle", "loop"} \/ work[d].msg \in Queued
    /\ failedStart \subseteq Conn

\* No overtaking between the queue and the CSMS: once a record has been sent or
\* dead-lettered, every record the queue accepted before it has been as well,
\* unless drainQueue itself queued that one again behind it.  Retries, restarts
\* and lost replies do not reorder records.
InOrder ==
    \A later \in GotIds \cup BuriedIds :
        \A earlier \in 1..later : earlier \in GotIds \cup BuriedIds \cup moved

\* drainQueue removes what it delivered: a record the CSMS has received is still
\* queued only while a pass holds it, or when its reply was lost (draining: "two
\* overlapping passes could both Peek the same message and send it twice").
DeliveredLeaves ==
    \A r \in Queued :
        r.id \in GotIds => \/ r.id \in doubt
                           \/ \E d \in Drainers : work[d].pc = "reply" /\ work[d].msg.id = r.id

\* The queue, the CSMS and dead-letter storage together lose nothing: drainQueue
\* over retries, rejections, re-queued records, lost replies and crashes
\* implements the abstract outbox.
Promise == INSTANCE Outbox WITH
    pending <- {KeyOf(r) : r \in Queued},
    delivered <- {KeyOf(g) : g \in got},
    buried <- {KeyOf(b) : b \in buried}
NothingLost == Promise!Spec

\* When the link stays up, the queue empties: every record is delivered or
\* dead-lettered, whatever the CSMS answers and however often it fails.
DrainsWhenConnected == <>[]connected => <>[](queue = <<>>)

\* "the drain loop sends it in order behind the start": a stop reaches the CSMS
\* only after the start of its session that was queued before it
\* (newSessionStoppedCallback).
StopBehindStart ==
    \A g \in got :
        g.kind = "Stop" /\ (\E i \in 1..g.id : put[i] = <<"Start", g.s>>)
            => \E h \in got \cup buried : h.kind = "Start" /\ h.s = g.s
=============================================================================
