------------------------------- MODULE Engine -------------------------------
(***************************************************************************)
(* The station engine, internal/engine/engine.go: the single source of     *)
(* truth for connectors, sessions, meters, pending remote starts, deferred *)
(* availability changes and reservations.  Every exported method holds     *)
(* e.mu from its first to its last write, so each is one action, except    *)
(* Simulate, whose loop over the session map is taken one connector at a   *)
(* time with the lock held ("ticking" is what is left of the range).       *)
(*                                                                         *)
(* Time is abstracted by choice: at each call that reads the clock, any    *)
(* reservation, pending remote start or Finishing connector may be found   *)
(* to have timed out.  Configuration values read during a call (the two    *)
(* ...OnEVSideDisconnect keys, the charging limit, the validity of an      *)
(* idTag) can change between calls and are choices too.                    *)
(***************************************************************************)
EXTENDS Connector, Integers, FiniteSets

CONSTANTS
    MaxConnectors,    \* bound: how many connectors AddConnector ever creates
    MultiEVSE,        \* multiEVSEMode
    Tags,             \* idTags of drivers
    NoTag,            \* a nil idTag
    Parents,          \* parentIdTags of reservations
    NoStart,          \* no pending remote start
    ReservationIds,   \* reservation ids the CSMS uses
    AvailabilityTypes,\* types passed to SetConnectorAvailability
    StopOnDisconnect, \* values StopTransactionOnEVSideDisconnect may have
    FaultOps,         \* whether FaultConnector and ClearFault are called
    LockOps,          \* whether LockConnector and UnlockConnector are called
    MaxEnergy,        \* EVBatteryCapacity, in units of energy
    Deltas            \* energy one tick may add

Conn == 1..MaxConnectors

\* In single-EVSE mode all sessions share globalMeter.
GlobalMeter == 0
Meter == IF MultiEVSE THEN Conn ELSE {GlobalMeter}
MeterOf(c) == IF MultiEVSE THEN c ELSE GlobalMeter

ASSUME ConstantsOK ==
    /\ MaxConnectors \in Nat \ {0}
    /\ MultiEVSE \in BOOLEAN
    /\ NoTag \notin Tags
    /\ Parents \subseteq Tags \cup {NoTag}
    /\ NoStart \notin Tags \cup {NoTag}
    /\ StopOnDisconnect \subseteq BOOLEAN
    /\ FaultOps \in BOOLEAN
    /\ LockOps \in BOOLEAN
    /\ MaxEnergy \in Nat \ {0}
    /\ Deltas \subseteq Nat

\* "none": no deferred change.
ASSUME AvailabilityOK == "none" \notin AvailabilityTypes

IdTag == Tags \cup {NoTag}

Reservation ==
    [id: ReservationIds, connector: Conn, idTag: Tags, parentIdTag: Parents]

VARIABLES
    connectors,          \* ids present in the connectors map
    nextConnectorID,     \* id of the next connector, never reused
    conn,                \* the connector behind each id
    sessions,            \* keys of the sessions map
    energy,              \* EnergyCharged of the session on each connector
    metering,            \* meters whose IsCharging is set
    pendingStart,        \* pendingRemoteStarts: the idTag waiting for a cable
    pendingAvailability, \* pendingAvailabilityChanges
    reservations,        \* values of the reservations map
    ticking,             \* sessions the running Simulate has still to visit
    reported,            \* last status passed to OnConnectorStatusChanged
    unclosed             \* OnSessionStarted calls without an OnSessionStopped

vars == <<connectors, nextConnectorID, conn, sessions, energy, metering,
          pendingStart, pendingAvailability, reservations, ticking,
          reported, unclosed>>

registry == <<connectors, nextConnectorID>>
sessionVars == <<sessions, energy, metering, unclosed>>

Init ==
    /\ connectors = {}
    /\ nextConnectorID = 1
    /\ conn = [c \in Conn |-> NewConnector]
    /\ sessions = {}
    /\ energy = [c \in Conn |-> 0]
    /\ metering = {}
    /\ pendingStart = [c \in Conn |-> NoStart]
    /\ pendingAvailability = [c \in Conn |-> "none"]
    /\ reservations = {}
    /\ ticking = {}
    /\ reported = [c \in Conn |-> "Available"]
    /\ unclosed = [c \in Conn |-> 0]

-----------------------------------------------------------------------------
(* Helpers shared by the operations.                                       *)

\* e.mu is free unless Simulate is inside its loop.
Unlocked == ticking = {}

ReservationsOf(c, R) == {r \in R : r.connector = c}

\* idTagMatchesReservation
Matches(tag, r) == tag # NoTag /\ tag \in {r.idTag, r.parentIdTag}

\* expireReservations: the connectors once the reservations X are dropped.  A
\* reservation outlives the removal of its connector.
BugAfterExpiry(X) == conn
AfterExpiry(X) ==
    [c \in Conn |-> IF c \in connectors /\ ReservationsOf(c, X) # {}
                    THEN ClearReservation(conn[c]) ELSE conn[c]]

\* Status callbacks run for the connectors in "always" and for those whose
\* status differs from the one they had before the call.
BugReport(after, always) ==
    reported' = [c \in Conn |->
        IF c \in always THEN after[c].status ELSE reported[c]]
Report(after, always) ==
    reported' = [c \in Conn |->
        IF c \in always \/ after[c].status # conn[c].status
        THEN after[c].status ELSE reported[c]]

\* The connector after stopSessionLocked on c: the transition to Finishing,
\* then the deferred availability change.
BugStopped(c, r) == StopCharging(r)
Stopped(c, r) == ApplyAvailability(StopCharging(r), pendingAvailability[c])

\* The meters and the deferred changes once the sessions in S have ended.
MetersAfter(S) == metering \ {MeterOf(c) : c \in S}

DeferredAfter(S) == [c \in Conn |-> IF c \in S THEN "none" ELSE pendingAvailability[c]]

\* What stopSessionLocked does besides, for every connector in S.
EndSessions(S) ==
    /\ sessions' = sessions \ S
    /\ energy' = [c \in Conn |-> IF c \in S THEN 0 ELSE energy[c]]
    /\ metering' = MetersAfter(S)
    /\ pendingAvailability' = DeferredAfter(S)
    /\ unclosed' = [c \in Conn |->
           IF c \in S /\ unclosed[c] > 0 THEN unclosed[c] - 1 ELSE unclosed[c]]

\* startSessionLocked consumes the reservation its idTag matches; with any
\* other reservation on the connector it returns before it changes anything.
Admits(c, tag, R) == \A r \in ReservationsOf(c, R) : Matches(tag, r)

ReadyToStart(c, r, R) ==
    IF ReservationsOf(c, R) # {} THEN ClearReservation(r) ELSE r

\* The rest of startSessionLocked.  The session is stored and the meter set to
\* charging before StartCharging can fail; a failure returns no callbacks.
\* "unclosed" stops counting at two, which already means a lost session.
BeginSession(c, announced) ==
    /\ sessions' = sessions \cup {c}
    /\ energy' = [energy EXCEPT ![c] = 0]
    /\ unclosed' = IF announced /\ unclosed[c] < 2
                   THEN [unclosed EXCEPT ![c] = @ + 1] ELSE unclosed

\* The guards of StartSession on the cable, the status and sessions already open.
CableMissing(c) == ~conn[c].plugged

BugStartable(r) == r.status \notin Inoperable
Startable(r) == r.status \in {"Available", "Preparing"}

BugSessionFree(c) == TRUE
SessionFree(c) == IF MultiEVSE THEN c \notin sessions ELSE sessions = {}

\* PlugIn in single-EVSE mode takes these cables out.
OtherCables(c) ==
    IF MultiEVSE THEN {} ELSE {d \in connectors \ {c} : conn[d].plugged}

\* ReserveConnector: neither the id nor the connector is reserved yet.
Reservable(r, R) == \A s \in R : s.id # r.id /\ s.connector # r.connector

\* RemoveConnector keeps the last connector and any with a session.
Removable(c) == Cardinality(connectors) # 1 /\ c \notin sessions

-----------------------------------------------------------------------------
(* Connector registry.                                                     *)

AddConnector ==
    /\ Unlocked
    /\ nextConnectorID <= MaxConnectors
    /\ connectors' = connectors \cup {nextConnectorID}
    /\ nextConnectorID' = nextConnectorID + 1
    /\ UNCHANGED <<conn, sessionVars, pendingStart, pendingAvailability,
                   reservations, ticking, reported>>

\* Pending starts and reservations of the connector stay behind.
RemoveConnector(c) ==
    /\ Unlocked
    /\ c \in connectors
    /\ Removable(c)
    /\ connectors' = connectors \ {c}
    /\ conn' = [conn EXCEPT ![c] = NewConnector]
    /\ reported' = [reported EXCEPT ![c] = "Available"]
    /\ UNCHANGED <<nextConnectorID, sessionVars, pendingStart,
                   pendingAvailability, reservations, ticking>>

\* Any call that expires reservations and is then refused (unknown connector,
\* reservation held for another tag, no cable, wrong status, session active).
RefusedCall(X) ==
    /\ Unlocked
    /\ X # {}
    /\ conn' = AfterExpiry(X)
    /\ reservations' = reservations \ X
    /\ Report(conn', {})
    /\ UNCHANGED <<registry, sessionVars, pendingStart, pendingAvailability, ticking>>

-----------------------------------------------------------------------------
(* Cable.                                                                  *)

\* PlugIn.  "inTime": a pending remote start on c has not passed its expiry.
PlugInConnector(c, X, inTime) ==
    LET others == OtherCables(c)
        left   == reservations \ X
        cable  == PlugIn(AfterExpiry(X)[c])
        starts == /\ pendingStart[c] # NoStart
                  /\ inTime
                  /\ Admits(c, pendingStart[c], left)
        ready  == ReadyToStart(c, cable, left)
        begun  == ready.status = "Preparing"
        before == [d \in Conn |->   \* what the status comparisons see
                     IF d = c THEN cable
                     ELSE IF d \in others THEN Unplug(AfterExpiry(X)[d])
                     ELSE AfterExpiry(X)[d]]
    IN /\ Unlocked
       /\ c \in connectors
       /\ pendingStart' = [pendingStart EXCEPT ![c] = NoStart]
       /\ \/ /\ starts
             /\ conn' = [before EXCEPT ![c] = StartCharging(ready)]
             /\ reservations' = left \ ReservationsOf(c, left)
             /\ metering' = MetersAfter(others) \cup {MeterOf(c)}
             /\ BeginSession(c, begun)
             /\ IF begun THEN Report(conn', {c}) ELSE Report(before, {})
          \/ /\ ~starts
             /\ conn' = before
             /\ reservations' = left
             /\ metering' = MetersAfter(others)
             /\ Report(conn', {})
             /\ UNCHANGED <<sessions, energy, unclosed>>
       /\ UNCHANGED <<registry, pendingAvailability, ticking>>

\* Unplug, with the value the two configuration keys have at the call.
UnplugConnector(c, stop, unlock) ==
    LET ended == {c} \cap (IF stop THEN sessions ELSE {})
        done  == IF ended # {} THEN Stopped(c, conn[c]) ELSE conn[c]
        free  == IF unlock THEN UnlockConnector(done) ELSE done
    IN /\ Unlocked
       /\ c \in connectors
       /\ conn' = [conn EXCEPT ![c] = Unplug(free)]
       /\ EndSessions(ended)
       /\ Report(conn', ended)
       /\ UNCHANGED <<registry, pendingStart, reservations, ticking>>

-----------------------------------------------------------------------------
(* Sessions.                                                               *)

\* StartSession with a timeout on a connector without a cable.
StoreRemoteStart(c, tag, X) ==
    LET left == reservations \ X
    IN /\ Unlocked
       /\ c \in connectors
       /\ Admits(c, tag, left)
       /\ CableMissing(c)
       /\ pendingStart' = [pendingStart EXCEPT ![c] = tag]
       /\ conn' = AfterExpiry(X)
       /\ reservations' = left
       /\ Report(conn', {})
       /\ UNCHANGED <<registry, sessionVars, pendingAvailability, ticking>>

\* StartSession on a plugged connector.
StartSession(c, tag, X) ==
    LET left  == reservations \ X
        base  == AfterExpiry(X)
        ready == ReadyToStart(c, base[c], left)
        begun == ready.status = "Preparing"
    IN /\ Unlocked
       /\ c \in connectors
       /\ Admits(c, tag, left)
       /\ ~CableMissing(c)
       /\ Startable(base[c])
       /\ SessionFree(c)
       /\ conn' = [base EXCEPT ![c] = StartCharging(ready)]
       /\ reservations' = left \ ReservationsOf(c, left)
       /\ metering' = metering \cup {MeterOf(c)}
       /\ BeginSession(c, begun)
       /\ IF begun THEN Report(conn', {c}) ELSE Report(base, {})
       /\ UNCHANGED <<registry, pendingStart, pendingAvailability, ticking>>

\* StopSession on one connector; StopAllSessions on all that have a session.
StopSessions(S) ==
    /\ Unlocked
    /\ S # {}
    /\ S \subseteq sessions
    /\ conn' = [c \in Conn |-> IF c \in S THEN Stopped(c, conn[c]) ELSE conn[c]]
    /\ EndSessions(S)
    /\ Report(conn', S)
    /\ UNCHANGED <<registry, pendingStart, reservations, ticking>>

\* SuspendEV and ResumeCharging go by the connector's status alone.
Suspend(c) ==
    /\ Unlocked
    /\ c \in connectors
    /\ conn[c].status = "Charging"
    /\ conn' = [conn EXCEPT ![c] = SuspendEV(@)]
    /\ metering' = metering \ {MeterOf(c)}
    /\ Report(conn', {})
    /\ UNCHANGED <<registry, sessions, energy, unclosed, pendingStart,
                   pendingAvailability, reservations, ticking>>

Resume(c) ==
    /\ Unlocked
    /\ c \in connectors
    /\ conn[c].status \in {"SuspendedEV", "SuspendedEVSE"}
    /\ conn' = [conn EXCEPT ![c] = ResumeCharging(@)]
    /\ metering' = metering \cup {MeterOf(c)}
    /\ Report(conn', {})
    /\ UNCHANGED <<registry, sessions, energy, unclosed, pendingStart,
                   pendingAvailability, reservations, ticking>>

-----------------------------------------------------------------------------
(* Availability, reservations, faults and locks.                           *)

SetConnectorAvailability(c, type, X) ==
    LET base == AfterExpiry(X)
    IN /\ Unlocked
       /\ c \in connectors
       /\ \/ /\ c \in sessions
             /\ pendingAvailability' = [pendingAvailability EXCEPT ![c] = type]
             /\ conn' = base
          \/ /\ c \notin sessions
             /\ conn' = [base EXCEPT ![c] = ApplyAvailability(@, type)]
             /\ UNCHANGED pendingAvailability
       /\ reservations' = reservations \ X
       /\ Report(conn', {})
       /\ UNCHANGED <<registry, sessionVars, pendingStart, ticking>>

ReserveConnector(r, X) ==
    LET c    == r.connector
        base == AfterExpiry(X)
        left == reservations \ X
    IN /\ Unlocked
       /\ c \in connectors
       /\ base[c].status \notin Inoperable
       /\ c \notin sessions
       /\ ~base[c].plugged
       /\ Reservable(r, left)
       /\ reservations' = left \cup {r}
       /\ conn' = [base EXCEPT ![c] = SetReserved(@)]
       /\ Report(conn', {})
       /\ UNCHANGED <<registry, sessionVars, pendingStart, pendingAvailability, ticking>>

CancelReservation(r) ==
    /\ Unlocked
    /\ r \in reservations
    /\ reservations' = reservations \ {r}
    /\ conn' = AfterExpiry({r})
    /\ Report(conn', {})
    /\ UNCHANGED <<registry, sessionVars, pendingStart, pendingAvailability, ticking>>

FaultConnector(c) ==
    LET ended == {c} \cap sessions
        done  == IF ended # {} THEN Stopped(c, conn[c]) ELSE conn[c]
    IN /\ Unlocked
       /\ c \in connectors
       /\ conn' = [conn EXCEPT ![c] = SetFaulted(done)]
       /\ EndSessions(ended)
       /\ Report(conn', ended)
       /\ UNCHANGED <<registry, pendingStart, reservations, ticking>>

\* The engine's ClearFault also runs on a connector that is not faulted: the
\* reservation and the pre-fault status are applied all the same.
ClearConnectorFault(c) ==
    LET clear == ClearFault(conn[c])
    IN /\ Unlocked
       /\ c \in connectors
       /\ conn' = [conn EXCEPT ![c] =
              IF ReservationsOf(c, reservations) # {} THEN SetReserved(clear)
              ELSE IF clear.preFault = "Unavailable" THEN SetUnavailable(clear)
              ELSE clear]
       /\ Report(conn', {})
       /\ UNCHANGED <<registry, sessionVars, pendingStart, pendingAvailability,
                      reservations, ticking>>

SetLock(c, lock) ==
    /\ Unlocked
    /\ c \in connectors
    /\ conn' = [conn EXCEPT ![c] = IF lock THEN LockConnector(@) ELSE UnlockConnector(@)]
    /\ UNCHANGED <<registry, sessionVars, pendingStart, pendingAvailability,
                   reservations, ticking, reported>>

-----------------------------------------------------------------------------
(* Simulation ticks and reset.                                             *)

\* Simulate up to its loop over the sessions: expired reservations, Finishing
\* connectors past FinishingTimeout (timedOut), sessions whose idTag is no
\* longer valid (invalid).
TickBegin(X, timedOut, invalid) ==
    LET base == AfterExpiry(X)
        idle == [c \in Conn |->
                   IF c \in timedOut
                   THEN [base[c] EXCEPT !.status =
                            IF base[c].plugged THEN "Preparing" ELSE base[c].persistent]
                   ELSE base[c]]
    IN /\ Unlocked
       /\ \A c \in timedOut : base[c].status = "Finishing"
       /\ conn' = [c \in Conn |-> IF c \in invalid THEN Stopped(c, idle[c]) ELSE idle[c]]
       /\ reservations' = reservations \ X
       /\ EndSessions(invalid)
       /\ Report(conn', invalid)
       /\ ticking' = sessions'
       /\ UNCHANGED <<registry, pendingStart>>

\* The body of the loop for connector c.  (It would skip a session whose
\* connector is gone; there is none, see SessionsExist, and one would show here
\* as a deadlock.)  A limit of zero pauses a charging connector.
TickThrottle(c) ==
    /\ c \in ticking \cap connectors
    /\ conn[c].status = "Charging"
    /\ conn' = [conn EXCEPT ![c] = SuspendEVSE(@)]
    /\ metering' = metering \ {MeterOf(c)}
    /\ ticking' = ticking \ {c}
    /\ Report(conn', {c})
    /\ UNCHANGED <<registry, sessions, energy, unclosed, pendingStart,
                   pendingAvailability, reservations>>

\* Otherwise a positive limit lifts the pause and, if the meter is charging,
\* the tick's energy is added up to MaxEnergy, where charging is suspended once.
TickCharge(c, limited, delta) ==
    LET awake  == IF limited THEN conn[c]
                  ELSE Transition(conn[c], {"SuspendedEVSE"}, "Charging")
        resume == awake.status # conn[c].status
        flows  == MeterOf(c) \in metering \/ resume
        gain   == IF flows /\ ~limited THEN delta ELSE 0
        total  == IF energy[c] + gain < MaxEnergy THEN energy[c] + gain ELSE MaxEnergy
        full   == energy[c] < MaxEnergy /\ total = MaxEnergy
    IN /\ c \in ticking \cap connectors
       /\ limited => conn[c].status # "Charging"
       /\ conn' = [conn EXCEPT ![c] = IF full THEN SuspendEV(awake) ELSE awake]
       /\ energy' = [energy EXCEPT ![c] = total]
       /\ metering' = IF full THEN metering \ {MeterOf(c)}
                      ELSE IF resume THEN metering \cup {MeterOf(c)}
                      ELSE metering
       /\ ticking' = ticking \ {c}
       /\ Report(conn', IF full \/ resume THEN {c} ELSE {})
       /\ UNCHANGED <<registry, sessions, unclosed, pendingStart,
                      pendingAvailability, reservations>>

\* Sessions are not dropped; the OCPP reset handlers stop them first, in
\* calls of their own.
NormalizeAfterReset ==
    /\ Unlocked
    /\ pendingStart' = [c \in Conn |-> NoStart]
    /\ pendingAvailability' = [c \in Conn |-> "none"]
    /\ metering' = MetersAfter(connectors)
    /\ conn' = [c \in Conn |->
          IF c \notin connectors \/ conn[c].status \in Inoperable \cup {"Reserved"}
          THEN conn[c]
          ELSE [conn[c] EXCEPT !.status =
                   IF conn[c].plugged THEN "Preparing" ELSE "Available"]]
    /\ Report(conn', {})
    /\ UNCHANGED <<registry, sessions, energy, unclosed, reservations, ticking>>

-----------------------------------------------------------------------------
ConnectorNext(c) ==
    \/ RemoveConnector(c)
    \/ \E stop \in StopOnDisconnect, unlock \in BOOLEAN : UnplugConnector(c, stop, unlock)
    \/ Suspend(c)
    \/ Resume(c)
    \/ FaultOps /\ FaultConnector(c)
    \/ FaultOps /\ ClearConnectorFault(c)
    \/ \E lock \in BOOLEAN : LockOps /\ SetLock(c, lock)
    \/ \E X \in SUBSET reservations :
          \/ \E inTime \in BOOLEAN : PlugInConnector(c, X, inTime)
          \/ \E tag \in IdTag : StoreRemoteStart(c, tag, X) \/ StartSession(c, tag, X)
          \/ \E type \in AvailabilityTypes : SetConnectorAvailability(c, type, X)

TickNext(c) ==
    \/ TickThrottle(c)
    \/ \E limited \in BOOLEAN, delta \in Deltas : TickCharge(c, limited, delta)

Next ==
    \/ AddConnector
    \/ NormalizeAfterReset
    \/ \E c \in Conn : ConnectorNext(c) \/ TickNext(c)
    \/ \E c \in Conn : StopSessions({c})
    \/ StopSessions(sessions)
    \/ \E X \in SUBSET reservations :
          \/ RefusedCall(X)
          \/ \E r \in Reservation : ReserveConnector(r, X)
          \/ \E timedOut \in SUBSET connectors, invalid \in SUBSET sessions :
                TickBegin(X, timedOut, invalid)
    \/ \E r \in reservations : CancelReservation(r)

Spec == Init /\ [][Next]_vars

-----------------------------------------------------------------------------
(* Properties.                                                             *)

TypeOK ==
    /\ connectors \subseteq Conn
    /\ nextConnectorID \in 1..(MaxConnectors + 1)
    /\ conn \in [Conn -> ConnectorType]
    /\ sessions \subseteq Conn
    /\ energy \in [Conn -> 0..MaxEnergy]
    /\ metering \subseteq Meter
    /\ pendingStart \in [Conn -> IdTag \cup {NoStart}]
    /\ pendingAvailability \in [Conn -> AvailabilityTypes \cup {"none"}]
    /\ reservations \subseteq Reservation
    /\ ticking \subseteq Conn
    /\ reported \in [Conn -> ConnectorState]
    /\ unclosed \in [Conn -> 0..2]

\* The connectors map covers every session, so that no handler meets a session
\* whose connector was removed (RemoveConnector refuses; ids are never reused).
SessionsExist ==
    /\ sessions \subseteq connectors
    /\ \A c \in connectors : c < nextConnectorID

\* A connector shown as Charging or Suspended has a cable and a session, however
\* unplugging, faults, resets and availability changes are interleaved.
EnergizedHasSession ==
    \A c \in connectors : conn[c].status \in Energized => conn[c].plugged /\ c \in sessions

\* Single-EVSE mode: one cable at a time, hence one connector delivers energy,
\* even when several sessions are open (PlugIn unplugs the others).
OneOutlet ==
    ~MultiEVSE => \A c, d \in connectors : conn[c].plugged /\ conn[d].plugged => c = d

\* Without a cable a connector shows its persistent status, with one it never
\* shows Available or Reserved: the two notions of status do not drift apart.
CableStatus ==
    \A c \in connectors :
        IF conn[c].plugged THEN conn[c].status \notin {"Available", "Reserved"}
        ELSE conn[c].status = conn[c].persistent

\* A meter accumulates energy only on behalf of a session.
MeteringHasSession == \A m \in metering : \E c \in sessions : MeterOf(c) = m

\* Per-connector meters run while the connector shows Charging and stand still
\* while it shows Suspended or Finishing.
MeterFollowsStatus ==
    MultiEVSE => \A c \in connectors :
        /\ conn[c].status = "Charging" => MeterOf(c) \in metering
        /\ conn[c].status \in {"SuspendedEV", "SuspendedEVSE", "Finishing"} =>
              MeterOf(c) \notin metering

\* A reservation never waits on a connector that is in use, nor do two wait on
\* the same one, nor do two share an id: a session consumes the reservation.
ReservationExclusive ==
    /\ \A r \in reservations : r.connector \notin sessions
    /\ \A r, s \in reservations : r.id = s.id \/ r.connector = s.connector => r = s

\* A pending remote start waits on a connector without a cable, so the plug-in
\* that consumes it always meets a connector that was idle before it.
PendingStartWaits ==
    \A c \in connectors : pendingStart[c] # NoStart => ~conn[c].plugged

\* A deferred availability change is never left behind by its session.
DeferredHasSession ==
    \A c \in Conn : pendingAvailability[c] # "none" => c \in sessions

\* The last status handed to the protocol side is the connector's status
\* whenever no session is open on it: no operation changes status silently.
ReportedIsCurrent ==
    \A c \in connectors \ sessions : reported[c] = conn[c].status

\* While its cable is attached a session is not displaced by another one: no
\* second OnSessionStarted before the OnSessionStopped.
PluggedSessionKept ==
    [][\A c \in sessions : conn[c].plugged => unclosed'[c] <= unclosed[c]]_vars

\* Whoever opens a session announces it: OnSessionStarted is called for every
\* session, unless its cable is plugged into a connector that is locked or
\* inoperable, where a waiting remote start leaves a session without a word.
StartAnnounced ==
    [][\A c \in sessions' \ sessions :
          \/ unclosed'[c] > unclosed[c]
          \/ ~conn[c].plugged /\ (conn[c].locked \/ conn[c].status \in Inoperable)]_vars

\* The strengthening that makes the invariants above inductive.  A connector is
\* sound when its statuses agree with its cable and a fault remembers what it
\* displaced; ids not (or no longer) in the map stand for a new connector.
Sound(r) ==
    /\ r \in ConnectorType
    /\ r.status \in Energized \cup {"Preparing", "Finishing"} => r.plugged
    /\ r.plugged => r.status \notin {"Available", "Reserved"}
    /\ ~r.plugged => r.status = r.persistent
    /\ "Faulted" \in {r.status, r.persistent} => r.preFault # "none"

\* The inductive invariant: the engine's cross-checks between connectors,
\* sessions, meters, reservations and waiting requests, all at once.
IInv ==
    /\ TypeOK
    /\ \A c \in Conn : Sound(conn[c])
    /\ \A c \in Conn \ connectors : conn[c] = NewConnector /\ reported[c] = "Available"
    /\ SessionsExist
    /\ EnergizedHasSession
    /\ OneOutlet
    /\ MeteringHasSession
    /\ MeterFollowsStatus
    /\ ReservationExclusive
    /\ PendingStartWaits
    /\ DeferredHasSession
    /\ ReportedIsCurrent

\* Ending a session applies the Inoperative change deferred for it, whatever
\* ended the session; a fault that ends it takes precedence but remembers the
\* change.  (On a connector already faulted SetUnavailable has no effect.)
DeferredApplied ==
    [][\A c \in sessions \ sessions' :
          pendingAvailability[c] = "Inoperative" /\ conn[c].status # "Faulted" =>
          \/ conn'[c].status = "Unavailable"
          \/ conn'[c].status = "Faulted" /\ conn'[c].preFault = "Unavailable"]_vars

=============================================================================
