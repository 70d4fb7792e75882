------------------------------ MODULE Notifier ------------------------------
(***************************************************************************)
(* Status reporting: newConnectorStatusChangedCallback                     *)
(* (cmd/chargeghost/callbacks.go) turns the engine's status notifications  *)
(* into commands, CommandDispatcher (internal/ocpp/command.go) sends them  *)
(* one at a time and holds them while the link is down, and a              *)
(* BootNotification after every reconnect re-sends the live statuses       *)
(* (SendBootNotification, internal/ocpp/v16/senders.go).                   *)
(*                                                                         *)
(* The engine runs its callbacks after it has released its lock, so        *)
(* goroutines that called the engine ("Callers") deliver their             *)
(* notifications concurrently.  Other traffic of the dispatcher, timing    *)
(* and the WebSocket hub are abstracted; the NotifyEvent that repeats every *)
(* status (kind "event") is treated exactly like the status itself and is  *)
(* left out.                                                               *)
(***************************************************************************)
EXTENDS Integers, SequencesExt

CONSTANTS
    Conn,          \* connectors
    Callers,       \* goroutines that operate the engine
    Status,        \* connector statuses, among them "Faulted"
    Faults,        \* notification kinds "fault:<code>", one per fault code
    Capacity,      \* of the dispatcher's channel
    MaxChanges,    \* bound: engine operations
    MaxPath,       \* bound: statuses one operation goes through
    MaxDrops,      \* bound: times the link is lost
    MaxFailures,   \* bound: sends that fail
    MaxTriggers    \* bound: TriggerMessage requests

ASSUME NotifierAssumption ==
    /\ Conn \subseteq Nat \ {0} /\ IsFiniteSet(Conn)
    /\ {"status", "NoError", "resync", "boot"} \cap Faults = {}
    /\ "Available" \in Status /\ {"none", "unknown"} \cap Status = {}
    /\ Capacity \in Nat \ {0}
    /\ {MaxChanges, MaxPath, MaxDrops, MaxFailures, MaxTriggers} \subseteq Nat

Kind == {"status"} \cup Faults

VARIABLES
    status, code,  \* the engine's status and fault code of each connector
    call,          \* what each goroutine still has to notify
    sent,          \* sent[c][k]: the status kind k was last marked sent for
    commands,      \* the dispatcher's channel
    held,          \* the command the dispatcher holds or executes, as <<cmd>>
    later,         \* commands that a timer will enqueue (again)
    linkUp,
    csms,          \* what the CSMS received last, per connector and kind
    lost,          \* history: some command was dropped, or its send failed
    changes, drops, failures, triggers

engine == <<status, code>>
dispatcher == <<commands, held, later>>
bounds == <<changes, drops, failures, triggers>>
vars == <<engine, call, sent, dispatcher, linkUp, csms, lost, bounds>>

\* Notifications left, the kinds left of the first one, and whether the first
\* of these is marked as sent and about to be enqueued.
Reports(c, path) == [conn |-> c, path |-> path, kinds |-> <<>>, marked |-> FALSE]
Idle == Reports(0, <<>>)

Init ==
    /\ status = [c \in Conn |-> "Available"] /\ code = [c \in Conn |-> "NoError"]
    /\ call = [t \in Callers |-> Idle]
    /\ sent = [c \in Conn |-> [k \in Kind |-> "none"]]
    /\ commands = <<>> /\ held = <<>> /\ later = {}
    /\ linkUp = FALSE
    /\ csms = [c \in Conn |-> [k \in Kind |-> "unknown"]]
    /\ lost = FALSE
    /\ changes = 0 /\ drops = 0 /\ failures = 0 /\ triggers = 0

-----------------------------------------------------------------------------
(* The dispatcher's channel.                                               *)

Command(c, kind, s) == [conn |-> c, kind |-> kind, status |-> s]
Boot == Command(0, "boot", "none")
Resync(c) == Command(c, "resync", "none")

BugRoom(q, n) == TRUE
Room(q, n) == Len(q) + n <= Capacity

\* EnqueueWithRetry of a sequence of commands: those the channel has no room for
\* are tried once more later.  (Equal commands waiting at once count as one.)
Late(cmd, last) == [cmd |-> cmd, last |-> last]
EnqueueAllWithRetry(cmds) ==
    LET n == CHOOSE n \in 0..Len(cmds) :
                /\ n = 0 \/ Room(commands, n)
                /\ n = Len(cmds) \/ ~Room(commands, n + 1)
    IN /\ commands' = commands \o SubSeq(cmds, 1, n)
       /\ later' = later \cup {Late(cmds[i], TRUE) : i \in (n + 1)..Len(cmds)}

\* A timer fires: the second try of EnqueueWithRetry, or the BootNotification
\* retry, which has two tries of its own.
TimerFires(l) ==
    /\ l \in later
    /\ commands' = IF Room(commands, 1) THEN Append(commands, l.cmd) ELSE commands
    /\ later' = (later \ {l}) \cup (IF l.last \/ Room(commands, 1) THEN {} ELSE {Late(l.cmd, TRUE)})
    /\ lost' = (lost \/ (l.last /\ ~Room(commands, 1)))
    /\ UNCHANGED <<engine, call, sent, held, linkUp, csms, bounds>>

-----------------------------------------------------------------------------
(* The callback.                                                           *)

\* An engine operation gives connector c one or more new statuses, and leaves
\* their notifications to its caller t.
ChangeStatus(t, c, path, fault) ==
    /\ call[t].path = <<>>
    /\ fault = "NoError" <=> Last(path) # "Faulted"
    /\ changes < MaxChanges
    /\ changes' = changes + 1
    /\ status' = [status EXCEPT ![c] = Last(path)]
    /\ code' = [code EXCEPT ![c] = fault]
    /\ call' = [call EXCEPT ![t] = Reports(c, path)]
    /\ UNCHANGED <<sent, dispatcher, linkUp, csms, drops, failures, triggers, lost>>

\* The callback starts: it reads the connector's fault code.
NotifyBegin(t) ==
    LET c     == call[t].conn
        kinds == IF Head(call[t].path) = "Faulted" /\ code[c] # "NoError"
                 THEN <<"status", code[c]>> ELSE <<"status">>
    IN /\ call[t].path # <<>> /\ call[t].kinds = <<>>
       /\ call' = [call EXCEPT ![t].kinds = kinds]
       /\ UNCHANGED <<engine, sent, dispatcher, linkUp, csms, lost, bounds>>

\* The goroutine goes on to the next kind, or to the next notification.
Advanced(r) ==
    IF Len(r.kinds) > 1 THEN [r EXCEPT !.kinds = Tail(@), !.marked = FALSE]
    ELSE IF Len(r.path) > 1 THEN [r EXCEPT !.path = Tail(@), !.kinds = <<>>, !.marked = FALSE]
    ELSE Idle

BugDuplicate(c, k, s) == sent[c][k] # "none"
Duplicate(c, k, s) == sent[c][k] = s

\* markSent: skip a duplicate, otherwise mark it; a fault code displaces others.
MarkSent(t) ==
    LET r == call[t]
        k == Head(r.kinds)
        s == Head(r.path)
    IN /\ r.kinds # <<>> /\ ~r.marked
       /\ IF Duplicate(r.conn, k, s)
          THEN /\ call' = [call EXCEPT ![t] = Advanced(r)]
               /\ UNCHANGED sent
          ELSE /\ call' = [call EXCEPT ![t].marked = TRUE]
               /\ sent' = [sent EXCEPT ![r.conn] =
                    [j \in Kind |-> IF j = k THEN s
                                    ELSE IF {j, k} \subseteq Faults THEN "none" ELSE @[j]]]
       /\ UNCHANGED <<engine, dispatcher, linkUp, csms, lost, bounds>>

\* unmark, of a notification that was dropped or failed.
BugUnmarked(c, k, s) == sent
Unmarked(c, k, s) == IF sent[c][k] = s THEN [sent EXCEPT ![c][k] = "none"] ELSE sent

\* Enqueue; a full channel drops the command and unmarks it.
EnqueueStatus(t) ==
    LET r   == call[t]
        cmd == Command(r.conn, Head(r.kinds), Head(r.path))
    IN /\ r.marked
       /\ IF Room(commands, 1)
          THEN /\ commands' = Append(commands, cmd)
               /\ UNCHANGED <<sent, lost>>
          ELSE /\ lost' = TRUE
               /\ sent' = Unmarked(cmd.conn, cmd.kind, cmd.status)
               /\ UNCHANGED commands
       /\ call' = [call EXCEPT ![t] = Advanced(r)]
       /\ UNCHANGED <<engine, held, later, linkUp, csms, bounds>>

-----------------------------------------------------------------------------
(* CommandDispatcher.Run.                                                  *)

\* The next command is received from the channel, and held while the link is down.
Take ==
    /\ held = <<>> /\ commands # <<>>
    /\ held' = <<Head(commands)>>
    /\ commands' = Tail(commands)
    /\ UNCHANGED <<engine, call, sent, later, linkUp, csms, lost, bounds>>

\* The held command is executed.  A status command sends the status it was
\* made for, a resync command the live one.
Executing(kinds) == held # <<>> /\ linkUp /\ held[1].kind \in kinds

Send ==
    LET cmd == held[1]
    IN /\ Executing(Kind \cup {"resync"})
       /\ csms' = IF cmd.kind = "resync" THEN [csms EXCEPT ![cmd.conn]["status"] = status[cmd.conn]]
                  ELSE [csms EXCEPT ![cmd.conn][cmd.kind] = cmd.status]
       /\ held' = <<>>
       /\ UNCHANGED <<engine, call, sent, commands, later, linkUp, lost, bounds>>

\* The request fails; it may have reached the CSMS all the same.
SendFails(received) ==
    LET cmd == held[1]
    IN /\ Executing(Kind \cup {"resync", "boot"})
       /\ failures < MaxFailures
       /\ failures' = failures + 1
       /\ lost' = TRUE
       /\ csms' = IF received /\ cmd.kind \in Kind THEN [csms EXCEPT ![cmd.conn][cmd.kind] = cmd.status]
                  ELSE csms
       /\ sent' = IF cmd.kind \in Kind THEN Unmarked(cmd.conn, cmd.kind, cmd.status) ELSE sent
       /\ held' = <<>>
       /\ UNCHANGED <<engine, call, commands, later, linkUp, changes, drops, triggers>>

\* GetConnectorIDs has no order: it ranges over a map.
Order == Bijection(1..Cardinality(Conn), Conn)

\* SendBootNotification: Accepted re-sends every status; otherwise try again.
BootAccepted(order) ==
    /\ Executing({"boot"})
    /\ EnqueueAllWithRetry([i \in 1..Cardinality(Conn) |-> Resync(order[i])])
    /\ held' = <<>>
    /\ UNCHANGED <<engine, call, sent, linkUp, csms, lost, bounds>>
BootNotAccepted ==
    /\ Executing({"boot"})
    /\ later' = later \cup {Late(Boot, FALSE)}
    /\ held' = <<>>
    /\ UNCHANGED <<engine, call, sent, commands, linkUp, csms, lost, bounds>>

Disconnect ==
    /\ linkUp
    /\ drops < MaxDrops
    /\ drops' = drops + 1
    /\ linkUp' = FALSE
    /\ UNCHANGED <<engine, call, sent, dispatcher, csms, changes, failures, triggers, lost>>

Connect ==
    /\ ~linkUp
    /\ linkUp' = TRUE
    /\ EnqueueAllWithRetry(<<Boot>>)
    /\ UNCHANGED <<engine, call, sent, held, csms, lost, bounds>>

\* TriggerMessage: the message asked for joins the queue, a status to be read
\* when it is sent.  (Heartbeats and meter values touch nothing here.)
OnTriggerMessage(cmd) ==
    /\ linkUp
    /\ triggers < MaxTriggers
    /\ triggers' = triggers + 1
    /\ EnqueueAllWithRetry(<<cmd>>)
    /\ UNCHANGED <<engine, call, sent, held, linkUp, csms, lost, changes, drops, failures>>

Path == UNION {[1..n -> Status] : n \in 1..MaxPath}

Notify(t) == NotifyBegin(t) \/ MarkSent(t) \/ EnqueueStatus(t)
Execute ==
    \/ Send
    \/ \E received \in BOOLEAN : SendFails(received)
    \/ \E order \in Order : BootAccepted(order)
    \/ BootNotAccepted

Next ==
    \/ \E t \in Callers : Notify(t)
    \/ \E t \in Callers, c \in Conn, path \in Path, fault \in Faults \cup {"NoError"} :
          ChangeStatus(t, c, path, fault)
    \/ \E l \in later : TimerFires(l)
    \/ Take
    \/ Execute
    \/ Disconnect
    \/ Connect
    \/ \E cmd \in {Boot} \cup {Resync(c) : c \in Conn} : OnTriggerMessage(cmd)

Spec == Init /\ [][Next]_vars

\* Goroutines run, timers fire, and the dispatcher executes what it holds while
\* the link is up (a request that is not answered times out).
FairSpec ==
    /\ Spec
    /\ \A t \in Callers : WF_vars(Notify(t))
    /\ WF_vars(\E l \in later : TimerFires(l))
    /\ WF_vars(Take)
    /\ WF_vars(Execute)

-----------------------------------------------------------------------------
(* Properties.                                                             *)

Commands == {commands[i] : i \in DOMAIN commands} \cup {held[i] : i \in DOMAIN held}

\* Types, and: the channel never holds more than it has room for.
TypeOK ==
    /\ status \in [Conn -> Status] /\ code \in [Conn -> Faults \cup {"NoError"}]
    /\ \A t \in Callers :
          /\ call[t].kinds # <<>> => call[t].path # <<>>
          /\ call[t].marked => call[t].kinds # <<>>
    /\ sent \in [Conn -> [Kind -> Status \cup {"none"}]]
    /\ csms \in [Conn -> [Kind -> Status \cup {"unknown"}]]
    /\ lost \in BOOLEAN
    /\ Len(commands) <= Capacity /\ Len(held) <= 1
    /\ \A cmd \in Commands \cup {l.cmd : l \in later} :
          cmd = Boot \/ cmd \in {Resync(c) : c \in Conn} \/ cmd \in [conn : Conn, kind : Kind, status : Status]

Working(c) == \E t \in Callers : call[t].conn = c

\* Suppressing a duplicate is justified: when kind k is marked as sent for a
\* status and nothing about it is under way, that status is the last one the CSMS
\* received for k.  So a lost or failed send is never taken for a delivered one.
MarkIsDelivered ==
    \A c \in Conn, k \in Kind :
        sent[c][k] # "none" /\ ~Working(c) /\ (\A cmd \in Commands : cmd.conn = c => cmd.kind # k)
            => csms[c][k] = sent[c][k]

Quiet == linkUp /\ Commands = {} /\ later = {} /\ \A t \in Callers : call[t] = Idle

\* "the CSMS converges to the latest state after reconnect": when nothing is
\* left to do and no command was dropped or failed, the CSMS knows
\* every connector's current status.
Converged ==
    Quiet /\ ~lost => \A c \in Conn : csms[c]["status"] = status[c]

\* Eventually, when the link stays up, every status is known to the CSMS or, if
\* its notification was lost, forgotten, so that a repeat is not suppressed.
SettlesWhenUp ==
    <>[]linkUp => <>[](\A c \in Conn : csms[c]["status"] = status[c] \/ sent[c]["status"] # status[c])
=============================================================================
