------------------------------- MODULE Station -------------------------------
(***************************************************************************)
(* A station as its callers see it: which REST endpoint, which request of  *)
(* the CSMS and which loop of the process calls which operation of the     *)
(* engine, and what a restart from engine.json leaves of the engine.       *)
(*                                                                         *)
(* Most handlers are one call of the engine.  Some look at the engine      *)
(* first and act in a later call, with the lock released in between: these *)
(* are the requests in progress ("request").  The CSMS sends one request   *)
(* at a time, and REST calls and simulation ticks run beside it; the one   *)
(* REST handler with two calls is StopCharging, which takes the same two   *)
(* steps as a remote stop.                                                 *)
(*                                                                         *)
(* Whether an idTag is admitted is in Admission, what a remote start does  *)
(* with a charging profile in Charging, and what happens to transactions   *)
(* on the way to the CSMS in Drain16 and Transactions201: here a start the *)
(* handler refuses is simply not made.                                     *)
(***************************************************************************)
EXTENDS Engine

CONSTANTS
    Restarts,    \* whether the process restarts
    Requests     \* bound: the requests of several calls the CSMS makes

ASSUME StationOK ==
    /\ Restarts \in BOOLEAN
    /\ FaultOps => ~Restarts     \* only tests fault a connector, and none restarts then
    /\ Requests \subseteq {"Availability", "Reset", "Stop", "Unlock16", "Unlock201"}

VARIABLES
    request   \* the request in progress; "open" notes which of the sessions
              \* open when it came in have been open ever since

stationVars == <<vars, request>>

Idle == [op |-> "none", c |-> 0, left |-> {}, open |-> {}, type |-> "none"]

Ops == {"none", "Availability", "Reset", "Stop", "Unlock16", "Stop16", "Open16", "Open201"}

Request ==
    [op: Ops, c: Conn \cup {0}, left: SUBSET Conn, open: SUBSET Conn,
     type: AvailabilityTypes \cup {"none"}]

StationInit == Init /\ request = Idle

\* The sessions of S that this step neither ends nor replaces.
StillOpen(S) == {c \in S \cap sessions' : unclosed'[c] <= unclosed[c]}

\* A step of somebody else.
Beside == request' = [request EXCEPT !.open = StillOpen(@)]

\* StopSession answers nil, and changes nothing, without a session.
StopIfOpen(c) ==
    IF c \in sessions THEN StopSessions({c}) ELSE Unlocked /\ UNCHANGED vars

-----------------------------------------------------------------------------
(* REST: once the request is decoded and the connector found, one call.    *)

CreateConnector    == AddConnector /\ Beside
DeleteConnector(c) == RemoveConnector(c) /\ Beside
PostPlugIn(c) ==
    /\ \E X \in SUBSET reservations, inTime \in BOOLEAN : PlugInConnector(c, X, inTime)
    /\ Beside

\* The two ...OnEVSideDisconnect keys are read during the call.
PostUnplug(c) ==
    /\ \E stop \in StopOnDisconnect, unlock \in BOOLEAN : UnplugConnector(c, stop, unlock)
    /\ Beside
PostSuspendEV(c)      == Suspend(c) /\ Beside
PostResumeCharging(c) == Resume(c) /\ Beside

\* start-charging and sessions/start: any idTag or none, and with a timeout the
\* start may wait for the cable.
PostStart(c) ==
    /\ \E X \in SUBSET reservations, tag \in IdTag :
          StoreRemoteStart(c, tag, X) \/ StartSession(c, tag, X)
    /\ Beside
PostStopAll == StopSessions(sessions) /\ Beside

PutAvailability(c) ==
    /\ \E X \in SUBSET reservations, type \in AvailabilityTypes :
          SetConnectorAvailability(c, type, X)
    /\ Beside

PostReservation ==
    /\ \E X \in SUBSET reservations, r \in Reservation : ReserveConnector(r, X)
    /\ Beside
DeleteReservation == (\E r \in reservations : CancelReservation(r)) /\ Beside

-----------------------------------------------------------------------------
(* Requests of the CSMS.  A remote start and an availability change of one *)
(* connector are single calls with the effect of the REST endpoint of the  *)
(* same name, the remote start always with an idTag and a timeout.         *)

\* ReserveNow and CancelReservation: single calls too; 2.0.1 passes no parent.
ReserveNow16 == PostReservation
ReserveNow201 ==
    /\ \E X \in SUBSET reservations, r \in Reservation :
          r.parentIdTag = NoTag /\ ReserveConnector(r, X)
    /\ Beside
CancelReservation16  == DeleteReservation
CancelReservation201 == DeleteReservation

\* ChangeAvailability for the whole station: the ids first, then one call each.
\* A connector removed meanwhile is refused, and the request goes on.
ReceiveAvailability(type) ==
    /\ "Availability" \in Requests
    /\ Unlocked
    /\ request = Idle
    /\ connectors # {}
    /\ request' = [Idle EXCEPT !.op = "Availability", !.left = connectors, !.type = type]
    /\ UNCHANGED vars

ChangeOne(c) ==
    /\ request.op = "Availability"
    /\ c \in request.left
    /\ \E X \in SUBSET reservations :
          IF c \in connectors THEN SetConnectorAvailability(c, request.type, X)
          ELSE RefusedCall(X) \/ (X = {} /\ Unlocked /\ UNCHANGED vars)
    /\ request' = IF request.left = {c} THEN Idle ELSE [request EXCEPT !.left = @ \ {c}]

\* RemoteStopTransaction, RequestStopTransaction and stop-charging look the
\* session up and stop whatever session its connector has by then.
ReceiveStop(c) ==
    /\ "Stop" \in Requests
    /\ Unlocked
    /\ request = Idle
    /\ c \in sessions
    /\ request' = [Idle EXCEPT !.op = "Stop", !.c = c, !.open = {c}]
    /\ UNCHANGED vars

DoStop ==
    /\ request.op = "Stop"
    /\ StopIfOpen(request.c)
    /\ request' = Idle

\* Reset: every connector's session is stopped in a call of its own before the
\* connectors are normalised.  (The registration it drops and the boot it
\* queues are in Drain16 and Notifier.)
BugResetTargets == {c \in connectors : conn[c].status = "Charging"}
ResetTargets == connectors

ReceiveReset ==
    /\ "Reset" \in Requests
    /\ Unlocked
    /\ request = Idle
    /\ request' = [Idle EXCEPT !.op = "Reset", !.left = ResetTargets, !.open = sessions]
    /\ UNCHANGED vars

ResetStop(c) ==
    /\ request.op = "Reset"
    /\ c \in request.left
    /\ StopIfOpen(c)
    /\ request' = [request EXCEPT !.left = @ \ {c}, !.open = StillOpen(@)]

ResetDone ==
    /\ request.op = "Reset"
    /\ request.left = {}
    /\ NormalizeAfterReset
    /\ request' = Idle

\* UnlockConnector, 1.6: only a locked connector needs anything done; the
\* session it has is stopped before the lock opens.
Unlock16(c) ==
    /\ "Unlock16" \in Requests
    /\ Unlocked
    /\ request = Idle
    /\ c \in connectors
    /\ conn[c].locked
    /\ request' = [Idle EXCEPT !.op = "Unlock16", !.c = c, !.open = {c} \cap sessions]
    /\ UNCHANGED vars

BugUnlockLook ==
    /\ request.op = "Unlock16"
    /\ Unlocked
    /\ request' = [request EXCEPT !.op = "Open16"]
    /\ UNCHANGED vars
UnlockLook ==
    /\ request.op = "Unlock16"
    /\ Unlocked
    /\ request' = [request EXCEPT !.op = IF request.c \in sessions THEN "Stop16" ELSE "Open16"]
    /\ UNCHANGED vars

UnlockStop ==
    /\ request.op = "Stop16"
    /\ StopIfOpen(request.c)
    /\ request' = [request EXCEPT !.op = "Open16", !.open = StillOpen(@)]

\* UnlockConnector, 2.0.1: refused while there is a session.
Unlock201(c) ==
    /\ "Unlock201" \in Requests
    /\ Unlocked
    /\ request = Idle
    /\ c \in connectors \ sessions
    /\ request' = [Idle EXCEPT !.op = "Open201", !.c = c]
    /\ UNCHANGED vars

\* The last call of both; a connector removed meanwhile is answered UnlockFailed.
UnlockOpen ==
    /\ request.op \in {"Open16", "Open201"}
    /\ IF request.c \in connectors THEN SetLock(request.c, FALSE)
       ELSE Unlocked /\ UNCHANGED vars
    /\ request' = Idle

-----------------------------------------------------------------------------
(* The process itself.                                                     *)

\* runSimulationLoop calls Simulate; calls that only expire reservations.
Tick ==
    /\ \/ \E c \in Conn : TickNext(c)
       \/ \E X \in SUBSET reservations :
             \/ RefusedCall(X)
             \/ \E timedOut \in SUBSET connectors, invalid \in SUBSET sessions :
                   TickBegin(X, timedOut, invalid)
    /\ Beside

\* Faults and locks: exported by the engine, called by nothing but tests.
Bench(c) ==
    /\ \/ FaultOps /\ (FaultConnector(c) \/ ClearConnectorFault(c))
       \/ LockOps /\ \E lock \in BOOLEAN : SetLock(c, lock)
    /\ Beside

\* buildSnapshot keeps a connector without its lock and the status a fault
\* displaced.
BugKept(r) == [r EXCEPT !.locked = FALSE, !.preFault = "none", !.plugged = FALSE]
Kept(r) == [r EXCEPT !.locked = FALSE, !.preFault = "none"]

\* The end of the process after a save, and LoadState in the next one.  What
\* happened between the save and the end is lost, so only the state at the save
\* matters here and both are one step.  Reservations (X) and pending starts (P)
\* found expired are dropped, their connectors stay as they were.  A request in
\* progress is lost, no session has been announced to the new process, and the
\* resync after its boot reports every status (Notifier).
Restart(X, P) ==
    /\ Restarts
    /\ Unlocked
    /\ conn' = [c \in Conn |-> Kept(conn[c])]
    /\ reservations' = reservations \ X
    /\ pendingStart' = [c \in Conn |-> IF c \in P THEN NoStart ELSE pendingStart[c]]
    /\ unclosed' = [c \in Conn |-> 0]
    /\ reported' = [c \in Conn |-> conn[c].status]
    /\ request' = Idle
    /\ UNCHANGED <<registry, sessions, energy, metering, pendingAvailability, ticking>>

-----------------------------------------------------------------------------
ConnectorCall(c) ==
    \/ DeleteConnector(c)
    \/ PostPlugIn(c)
    \/ PostUnplug(c)
    \/ PostSuspendEV(c)
    \/ PostResumeCharging(c)
    \/ PostStart(c)
    \/ PutAvailability(c)

CsmsNext ==
    \/ \E type \in AvailabilityTypes : ReceiveAvailability(type)
    \/ \E c \in Conn : ChangeOne(c) \/ ReceiveStop(c) \/ ResetStop(c) \/ Unlock16(c) \/ Unlock201(c)
    \/ DoStop
    \/ ReserveNow16 \/ ReserveNow201 \/ CancelReservation16 \/ CancelReservation201
    \/ ReceiveReset
    \/ ResetDone
    \/ UnlockLook
    \/ UnlockStop
    \/ UnlockOpen

\* What the process does without ending.
StationStep ==
    \/ CreateConnector
    \/ PostStopAll
    \/ PostReservation
    \/ DeleteReservation
    \/ \E c \in Conn : ConnectorCall(c) \/ Bench(c)
    \/ CsmsNext
    \/ Tick

StationNext ==
    \/ StationStep
    \/ \E X \in SUBSET reservations, P \in SUBSET Conn : Restart(X, P)

StationSpec == StationInit /\ [][StationNext]_stationVars

-----------------------------------------------------------------------------
(* Properties.                                                             *)

\* The station is well typed, the request in progress included.
StationTypeOK == TypeOK /\ request \in Request

\* A Reset, and an UnlockConnector of OCPP 1.6, do what they are for only when
\* every session that was open at their arrival has ended, whatever was plugged,
\* started or suspended while they stopped them one by one.
StopsFirst ==
    (request.op = "Reset" /\ request.left = {}) \/ request.op = "Open16" => request.open = {}

\* A connector made Inoperative stays so until it is made Operative again, at once
\* or by a deferred change, whatever cables, sessions, resets and restarts come between -
\* unless a reservation is on it, whose end makes it Available.
InoperativeStays ==
    [][\A c \in connectors \cap connectors' :
          /\ conn[c].persistent = "Unavailable"
          /\ ReservationsOf(c, reservations) = {}
          /\ conn'[c].persistent \notin Inoperable
          => \/ c \notin sessions' /\ pendingAvailability[c] = "Operative"
             \/ \E X \in SUBSET reservations : SetConnectorAvailability(c, "Operative", X)]_stationVars

\* A connector is Reserved for somebody.
Held(c) ==
    conn[c].persistent = "Reserved" => ReservationsOf(c, reservations) # {}

\* Only a restart, which drops expired reservations and nothing else, and the end
\* of a fault, which brings back a status from before it, leave a connector
\* Reserved for nobody: a reservation that is used, cancelled or expires frees it.
ReservationFrees ==
    [][\A c \in connectors \cap connectors' :
          Held(c) /\ conn[c].persistent # "Faulted" /\ ~Held(c)'
          => Restarts /\ \E X \in SUBSET reservations, P \in SUBSET Conn : Restart(X, P)]_stationVars
=============================================================================
