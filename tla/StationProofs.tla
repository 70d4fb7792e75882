--------------------------- MODULE StationProofs ---------------------------
(***************************************************************************)
(* Proofs about Station: the engine's invariant survives every handler and *)
(* every restart, and a Reset or UnlockConnector stops the sessions it is  *)
(* to stop.  They rest on the step lemmas of EngineProofs.                 *)
(***************************************************************************)
EXTENDS Station, EngineProofs

USE DEF ConnectorState, PersistentState, Energized, Inoperable

\* A connector that neither is nor will come back as Faulted.
Unfaulted(r) == "Faulted" \notin {r.status, r.persistent}

\* A connector whose status is Unavailable or Faulted will come back as such.
Agreed(r) == r.status \in Inoperable => r.persistent = r.status

\* The connectors there are: in agreement with themselves, and where nothing
\* faults a connector, none is faulted.
Class == {r \in ConnectorType : Agreed(r) /\ (FaultOps \/ Unfaulted(r))}

\* What a request in progress has still to do and to stop.
RequestInv ==
    /\ request.op = "Availability" => request.type \in AvailabilityTypes
    /\ request.op = "Reset" => request.open \subseteq request.left
    /\ request.op \in {"Unlock16", "Stop16"} => request.open \subseteq {request.c} \cap sessions
    /\ request.op = "Open16" => request.open = {}

\* Where no session is, at most one OnSessionStarted is without its
\* OnSessionStopped (that of a session displaced after its cable was gone).
OneUnclosed == \A c \in Conn \ sessions : unclosed[c] <= 1

StationInv == IInv /\ conn \in [Conn -> Class] /\ RequestInv /\ OneUnclosed

-----------------------------------------------------------------------------
(* Methods of the connector keep it in its class.                           *)

\* Transition and Settle.
LEMMA TransitionClass ==
    ASSUME NEW r \in Class, NEW from, NEW to \in ConnectorState \ Inoperable
    PROVE  Transition(r, from, to) \in Class
BY DEF Class, Agreed, Unfaulted, Transition, ConnectorType

LEMMA SettleClass ==
    ASSUME NEW r \in Class, NEW p \in PersistentState, FaultOps \/ p # "Faulted"
    PROVE  Settle(r, p) \in Class
<1>1. Settle(r, p) \in ConnectorType
  BY DEF Class, Settle, ConnectorType
<1>2. Settle(r, p).persistent = p /\ Settle(r, p).status \in {"Preparing", p}
  BY DEF Class, Settle, ConnectorType
<1>3. QED
  BY <1>1, <1>2 DEF Class, Agreed, Unfaulted

\* Every method of the connector, the fault's where there are faults.
LEMMA MethodsClass ==
    ASSUME NEW r \in Class
    PROVE  /\ PlugIn(r) \in Class /\ Unplug(r) \in Class
           /\ StartCharging(r) \in Class /\ StopCharging(r) \in Class
           /\ SuspendEV(r) \in Class /\ SuspendEVSE(r) \in Class
           /\ ResumeCharging(r) \in Class
           /\ SetReserved(r) \in Class /\ ClearReservation(r) \in Class
           /\ LockConnector(r) \in Class /\ UnlockConnector(r) \in Class
           /\ \A type : ApplyAvailability(r, type) \in Class
           /\ SetUnavailable(r) \in Class
           /\ FaultOps => SetFaulted(r) \in Class
           /\ FaultOps /\ (r.status = "Faulted" => r.preFault # "none") => ClearFault(r) \in Class
<1> USE DEF Class
<1>1. [r EXCEPT !.plugged = TRUE] \in Class
  BY DEF Agreed, Unfaulted, ConnectorType
<1>2. PlugIn(r) \in Class
  BY <1>1, TransitionClass DEF PlugIn
<1>3. Unplug(r) \in Class /\ LockConnector(r) \in Class /\ UnlockConnector(r) \in Class
  BY DEF Agreed, Unfaulted, ConnectorType, Unplug, LockConnector, UnlockConnector
<1>4. /\ StartCharging(r) \in Class /\ StopCharging(r) \in Class
      /\ SuspendEV(r) \in Class /\ SuspendEVSE(r) \in Class
      /\ ResumeCharging(r) \in Class
  BY TransitionClass DEF StartCharging, StopCharging, SuspendEV, SuspendEVSE, ResumeCharging
<1>5. SetReserved(r) \in Class /\ SetOperative(r) \in Class
  BY SettleClass DEF SetReserved, SetOperative
<1>6. SetUnavailable(r) \in Class
  BY DEF Agreed, Unfaulted, ConnectorType, SetUnavailable
<1>7. FaultOps => SetFaulted(r) \in Class
  BY DEF Agreed, SetFaulted, ConnectorType
<1>8. FaultOps /\ (r.status = "Faulted" => r.preFault # "none") => ClearFault(r) \in Class
  BY SettleClass DEF ClearFault, ConnectorType
<1>9. QED
  BY <1>2, <1>3, <1>4, <1>5, <1>6, <1>7, <1>8 DEF ClearReservation, ApplyAvailability

\* So do the connectors once reservations have expired, and a session stopped.
LEMMA ComposedClass ==
    ASSUME conn \in [Conn -> Class], NEW c \in Conn, NEW X
    PROVE  /\ AfterExpiry(X)[c] \in Class
           /\ \A r \in Class : Stopped(c, r) \in Class /\ ReadyToStart(c, r, X) \in Class
BY MethodsClass DEF AfterExpiry, Stopped, ReadyToStart

\* The engine's steps, and the opening of a lock, which UnlockConnector may do
\* where nothing else locks or unlocks.
EngineStep == [Next]_vars \/ \E c \in Conn : SetLock(c, FALSE)

\* Nothing the engine does takes a connector out of the class.  Each case names
\* the methods its operation applies.
LEMMA ClassStep ==
    ASSUME IInv, conn \in [Conn -> Class], EngineStep
    PROVE  conn' \in [Conn -> Class]
<1> DEFINE Goal == conn' \in [Conn -> Class]
<1>1. ASSUME NEW c \in Conn PROVE conn[c] \in Class /\ (conn[c].status = "Faulted" => conn[c].preFault # "none")
  BY DEF IInv, Sound
<1>2. CASE conn' = conn
  BY <1>2
<1>3. ASSUME NEW d \in Conn, NEW r \in Class, conn' = [conn EXCEPT ![d] = r] PROVE Goal
  BY <1>3
<1>4. ASSUME NEW d \in Conn, RemoveConnector(d) PROVE Goal
  <2>1. NewConnector \in Class
    BY DEF NewConnector, Class, Agreed, Unfaulted, ConnectorType
  <2>2. QED
    BY <1>3, <1>4, <2>1 DEF RemoveConnector
<1>5. ASSUME NEW d \in Conn, NEW stop, NEW unlock, UnplugConnector(d, stop, unlock) PROVE Goal
  <2>1. Stopped(d, conn[d]) \in Class
    BY ComposedClass
  <2>2. \A r \in Class : Unplug(r) \in Class /\ Unplug(UnlockConnector(r)) \in Class
    BY MethodsClass
  <2>3. QED
    BY <1>1, <1>3, <1>5, <2>1, <2>2 DEF UnplugConnector
<1>6. ASSUME NEW d \in Conn, Suspend(d) \/ Resume(d) \/ (\E lock : SetLock(d, lock)) PROVE Goal
  BY <1>1, <1>6, MethodsClass DEF Suspend, Resume, SetLock
<1>7. ASSUME NEW d \in Conn, NEW X \in SUBSET reservations, NEW inTime, PlugInConnector(d, X, inTime)
      PROVE  Goal
  <2> DEFINE base == AfterExpiry(X)
             cable == PlugIn(base[d])
             before == [c \in Conn |-> IF c = d THEN cable
                                       ELSE IF c \in OtherCables(d) THEN Unplug(base[c]) ELSE base[c]]
             started == StartCharging(ReadyToStart(d, cable, reservations \ X))
  <2>1. \A c \in Conn : base[c] \in Class /\ Unplug(base[c]) \in Class
    BY MethodsClass, ComposedClass
  <2>2. cable \in Class
    BY <2>1, MethodsClass
  <2>3. started \in Class
    BY <2>2, MethodsClass, ComposedClass
  <2>4. before \in [Conn -> Class]
    BY <2>1, <2>2
  <2>5. conn' = before \/ conn' = [before EXCEPT ![d] = started]
    BY <1>7 DEF PlugInConnector
  <2> HIDE DEF base, cable, before, started
  <2>6. QED
    BY <2>3, <2>4, <2>5
<1>8. ASSUME NEW d \in Conn, NEW X \in SUBSET reservations, NEW tag, StartSession(d, tag, X) PROVE Goal
  <2>1. AfterExpiry(X) \in [Conn -> Class]
    BY ComposedClass DEF AfterExpiry
  <2>2. StartCharging(ReadyToStart(d, AfterExpiry(X)[d], reservations \ X)) \in Class
    BY <2>1, MethodsClass, ComposedClass
  <2>3. QED
    BY <1>8, <2>1, <2>2 DEF StartSession
<1>9. ASSUME NEW d, NEW X \in SUBSET reservations,
             \/ \E tag : StoreRemoteStart(d, tag, X)
             \/ \E type : SetConnectorAvailability(d, type, X)
             \/ RefusedCall(X)
             \/ \E r \in Reservation : ReserveConnector(r, X)
      PROVE  Goal
  <2>1. AfterExpiry(X) \in [Conn -> Class]
    BY ComposedClass DEF AfterExpiry
  <2>2. \A r \in Class : SetReserved(r) \in Class /\ \A type : ApplyAvailability(r, type) \in Class
    BY MethodsClass
  <2>3. ASSUME NEW type, SetConnectorAvailability(d, type, X) PROVE Goal
    BY <2>1, <2>2, <2>3 DEF SetConnectorAvailability
  <2>4. ASSUME NEW r \in Reservation, ReserveConnector(r, X) PROVE Goal
    BY <2>1, <2>2, <2>4 DEF ReserveConnector
  <2>5. ASSUME RefusedCall(X) \/ \E tag : StoreRemoteStart(d, tag, X) PROVE Goal
    BY <2>1, <2>5 DEF RefusedCall, StoreRemoteStart
  <2>6. QED
    BY <1>9, <2>3, <2>4, <2>5
<1>10. ASSUME NEW S, StopSessions(S) PROVE Goal
  <2>1. \A c \in Conn : Stopped(c, conn[c]) \in Class
    BY ComposedClass
  <2>2. QED
    BY <1>10, <2>1 DEF StopSessions
<1>11. ASSUME NEW r \in reservations, CancelReservation(r) PROVE Goal
  BY <1>11, ComposedClass DEF CancelReservation, AfterExpiry
<1>12. ASSUME NEW X \in SUBSET reservations, NEW timedOut, NEW invalid, TickBegin(X, timedOut, invalid)
       PROVE  Goal
  <2> DEFINE base == AfterExpiry(X)
             Idled(c) == [base[c] EXCEPT !.status =
                            IF base[c].plugged THEN "Preparing" ELSE base[c].persistent]
  <2>1. \A c \in Conn : base[c] \in Class
    BY ComposedClass
  <2>2. \A r \in Class : [r EXCEPT !.status = IF r.plugged THEN "Preparing" ELSE r.persistent] \in Class
    BY DEF Class, Agreed, Unfaulted, ConnectorType
  <2>3. \A c \in Conn : Idled(c) \in Class
    BY <2>1, <2>2
  <2>4. \A c \in Conn : Stopped(c, base[c]) \in Class /\ Stopped(c, Idled(c)) \in Class
    BY <2>1, <2>3, ComposedClass
  <2>5. QED
    BY <1>12, <2>1, <2>3, <2>4 DEF TickBegin
<1>13. ASSUME NEW d \in Conn, TickThrottle(d) PROVE Goal
  BY <1>1, <1>3, <1>13, MethodsClass DEF TickThrottle
<1>14. ASSUME NEW d \in Conn, NEW limited, NEW delta, TickCharge(d, limited, delta) PROVE Goal
  <2> DEFINE awake == IF limited THEN conn[d] ELSE Transition(conn[d], {"SuspendedEVSE"}, "Charging")
  <2>1. awake \in Class
    BY <1>1, TransitionClass
  <2>2. SuspendEV(awake) \in Class
    BY <2>1, MethodsClass
  <2>3. QED
    BY <1>3, <1>14, <2>1, <2>2 DEF TickCharge
<1>15. ASSUME NormalizeAfterReset PROVE Goal
  <2>1. \A r \in Class : r.status \notin Inoperable =>
           [r EXCEPT !.status = IF r.plugged THEN "Preparing" ELSE "Available"] \in Class
    BY DEF Class, Agreed, Unfaulted, ConnectorType
  <2>2. QED
    BY <1>1, <1>15, <2>1 DEF NormalizeAfterReset
<1>16. ASSUME NEW d \in Conn, FaultOps, FaultConnector(d) \/ ClearConnectorFault(d) PROVE Goal
  <2>1. ClearFault(conn[d]) \in Class
    BY <1>1, <1>16, MethodsClass
  <2>2. /\ SetReserved(ClearFault(conn[d])) \in Class
        /\ SetUnavailable(ClearFault(conn[d])) \in Class
    BY <2>1, MethodsClass
  <2>3. SetFaulted(conn[d]) \in Class /\ SetFaulted(Stopped(d, conn[d])) \in Class
    BY <1>1, <1>16, MethodsClass, ComposedClass
  <2>4. CASE FaultConnector(d)
    BY <1>3, <2>3, <2>4 DEF FaultConnector
  <2>5. CASE ClearConnectorFault(d)
    BY <1>3, <2>1, <2>2, <2>5 DEF ClearConnectorFault
  <2>6. QED
    BY <1>16, <2>4, <2>5
<1>17. CASE AddConnector \/ UNCHANGED vars
  BY <1>2, <1>17 DEF AddConnector, vars
<1>18. ASSUME NEW d \in Conn, ConnectorNext(d) PROVE Goal
  BY <1>4, <1>5, <1>6, <1>7, <1>8, <1>9, <1>16, <1>18 DEF ConnectorNext
<1>19. QED
  BY <1>6, <1>9, <1>10, <1>11, <1>12, <1>13, <1>14, <1>15, <1>17, <1>18 DEF EngineStep, Next, TickNext

-----------------------------------------------------------------------------
(* Steps of the station.                                                   *)

\* Every handler calls the engine's operations or leaves it alone.
LEMMA StepIsEngineStep ==
    ASSUME IInv, RequestInv, StationStep PROVE EngineStep
<1>1. connectors \subseteq Conn /\ sessions \subseteq Conn
  BY DEF IInv, TypeOK
<1>2. ASSUME NEW c \in Conn, ConnectorCall(c) PROVE EngineStep
  BY <1>2 DEF ConnectorCall, DeleteConnector, PostPlugIn, PostUnplug, PostSuspendEV,
     PostResumeCharging, PostStart, PutAvailability, EngineStep, Next, ConnectorNext
<1>3. ASSUME NEW c \in Conn, Bench(c) PROVE EngineStep
  BY <1>3 DEF Bench, EngineStep, Next, ConnectorNext
<1>4. ASSUME NEW c, StopIfOpen(c) PROVE EngineStep
  BY <1>1, <1>4 DEF StopIfOpen, EngineStep, Next
<1>5. ASSUME NEW c \in Conn, ChangeOne(c) PROVE EngineStep
  BY <1>5 DEF RequestInv, ChangeOne, EngineStep, Next, ConnectorNext
<1>6. CASE Tick
  BY <1>6 DEF Tick, EngineStep, Next
<1>7. CASE CreateConnector \/ PostStopAll \/ PostReservation \/ DeleteReservation
  BY <1>7 DEF CreateConnector, PostStopAll, PostReservation, DeleteReservation, EngineStep, Next
<1>8. CASE CsmsNext
  <2>1. CASE ResetDone
    BY <2>1 DEF ResetDone, EngineStep, Next
  <2>2. CASE UnlockOpen
    BY <1>1, <2>2 DEF UnlockOpen, EngineStep
  <2>3. CASE ReserveNow16 \/ ReserveNow201 \/ CancelReservation16 \/ CancelReservation201
    BY <2>3 DEF ReserveNow16, ReserveNow201, CancelReservation16, CancelReservation201,
       PostReservation, DeleteReservation, EngineStep, Next
  <2>4. QED
    BY <1>4, <1>5, <1>8, <2>1, <2>2, <2>3 DEF CsmsNext, ReceiveAvailability, ReceiveStop, DoStop,
       ReceiveReset, ResetStop, Unlock16, Unlock201, UnlockLook, UnlockStop, EngineStep
<1>9. QED
  BY <1>2, <1>3, <1>6, <1>7, <1>8 DEF StationStep

\* The engine's invariant survives every step of the station.
LEMMA EngineStepIInv == IInv /\ EngineStep => IInv'
BY NextIInv, SetLockStep DEF EngineStep

\* What LoadState brings back satisfies the engine's invariant if no connector
\* was faulted: all the rest of it speaks of what the snapshot keeps.
LEMMA RestartStep ==
    ASSUME IInv, conn \in [Conn -> Class], ~FaultOps,
           NEW X \in SUBSET reservations, NEW P \in SUBSET Conn, Restart(X, P)
    PROVE  IInv' /\ conn' \in [Conn -> Class]
<1> USE DEF Restart, registry
<1>1. ASSUME NEW c \in Conn
      PROVE  /\ Sound(conn'[c]) /\ conn'[c] \in Class
             /\ conn'[c].status = conn[c].status /\ conn'[c].plugged = conn[c].plugged
             /\ conn[c] = NewConnector => conn'[c] = NewConnector
  <2>1. conn'[c] = [conn[c] EXCEPT !.locked = FALSE, !.preFault = "none"]
    BY DEF Kept
  <2>2. conn[c] \in ConnectorType /\ Sound(conn[c]) /\ conn[c] \in Class
    BY DEF IInv, Sound
  <2>3. conn'[c] \in ConnectorType
    BY <2>1, <2>2 DEF ConnectorType
  <2>4. /\ conn'[c].status = conn[c].status /\ conn'[c].plugged = conn[c].plugged
        /\ conn'[c].persistent = conn[c].persistent
    BY <2>1, <2>2 DEF ConnectorType
  <2>5. conn[c] = NewConnector => conn'[c] = NewConnector
    <3>1. NewConnector \in ConnectorType /\ NewConnector.locked = FALSE /\ NewConnector.preFault = "none"
      BY DEF NewConnector, ConnectorType
    <3>2. ASSUME NEW r \in ConnectorType, r.locked = FALSE, r.preFault = "none"
          PROVE  [r EXCEPT !.locked = FALSE, !.preFault = "none"] = r
      BY <3>2 DEF ConnectorType
    <3>3. QED
      BY <2>1, <3>1, <3>2
  <2>6. QED
    BY <2>2, <2>3, <2>4, <2>5 DEF Sound, Class, Agreed, Unfaulted
<1>2. TypeOK'
  <2>1. conn' \in [Conn -> ConnectorType] /\ reported' \in [Conn -> ConnectorState]
    BY <1>1 DEF Sound, ConnectorType
  <2>2. pendingStart' \in [Conn -> IdTag \cup {NoStart}] /\ unclosed' \in [Conn -> 0..2]
    BY DEF IInv, TypeOK
  <2>3. QED
    BY <2>1, <2>2 DEF IInv, TypeOK
<1>3. \A c \in Conn \ connectors' : conn'[c] = NewConnector /\ reported'[c] = "Available"
  BY <1>1 DEF IInv, NewConnector
<1>4. EnergizedHasSession' /\ OneOutlet' /\ MeterFollowsStatus' /\ SessionsExist' /\ MeteringHasSession'
  BY <1>1 DEF IInv, TypeOK, EnergizedHasSession, OneOutlet, MeterFollowsStatus, SessionsExist,
     MeteringHasSession
<1>5. ReservationExclusive' /\ PendingStartWaits' /\ DeferredHasSession' /\ ReportedIsCurrent'
  BY <1>1 DEF IInv, TypeOK, ReservationExclusive, PendingStartWaits, DeferredHasSession,
     ReportedIsCurrent
<1>6. conn' \in [Conn -> Class]
  BY <1>1
<1>7. QED
  BY <1>6, <1>1, <1>2, <1>3, <1>4, <1>5 DEF IInv

\* The requests in progress keep track of what they have stopped.
LEMMA RequestStep ==
    ASSUME IInv, RequestInv, StationNext PROVE RequestInv'
<1> USE DEF RequestInv, Idle
<1>1. connectors \subseteq Conn /\ sessions \subseteq connectors
  BY DEF IInv, TypeOK, SessionsExist
<1>2. ASSUME NEW X \in SUBSET reservations, NEW P \in SUBSET Conn, Restart(X, P) PROVE RequestInv'
  BY <1>2 DEF Restart
<1>3. CASE Beside
  BY <1>3 DEF Beside, StillOpen
<1>4. ASSUME NEW c \in Conn, ConnectorCall(c) \/ Bench(c) PROVE RequestInv'
  BY <1>3, <1>4 DEF ConnectorCall, Bench, DeleteConnector, PostPlugIn, PostUnplug,
     PostSuspendEV, PostResumeCharging, PostStart, PutAvailability
<1>5. CASE CreateConnector \/ PostStopAll \/ PostReservation \/ DeleteReservation \/ Tick
  BY <1>3, <1>5 DEF CreateConnector, PostStopAll, PostReservation, DeleteReservation, Tick
<1>6. ASSUME NEW c, StopIfOpen(c) PROVE c \notin sessions'
  BY <1>6 DEF StopIfOpen, StopSessions, EndSessions, vars
<1>7. CASE CsmsNext
  <2>1. ASSUME NEW type \in AvailabilityTypes, ReceiveAvailability(type) PROVE RequestInv'
    BY <2>1 DEF ReceiveAvailability
  <2>2. ASSUME NEW c \in Conn, ChangeOne(c) PROVE RequestInv'
    BY <2>2 DEF ChangeOne
  <2>3. ASSUME NEW c \in Conn, ReceiveStop(c) \/ Unlock201(c) PROVE RequestInv'
    BY <2>3 DEF ReceiveStop, Unlock201
  <2>4. ASSUME NEW c \in Conn, Unlock16(c) PROVE RequestInv'
    <3>1. request' = [Idle EXCEPT !.op = "Unlock16", !.c = c, !.open = {c} \cap sessions]
      BY <2>4 DEF Unlock16
    <3>2. request'.op = "Unlock16" /\ request'.c = c /\ request'.open = {c} \cap sessions
      BY <3>1
    <3>3. sessions' = sessions
      BY <2>4 DEF Unlock16, vars
    <3>4. request'.open \subseteq {request'.c} \cap sessions'
      BY <3>2, <3>3
    <3>5. request'.op \notin {"Availability", "Reset", "Open16"}
      BY <3>2
    <3>6. QED
      BY <3>4, <3>5
  <2>5. ASSUME NEW c \in Conn, ResetStop(c) PROVE RequestInv'
    BY <1>6, <2>5 DEF ResetStop, StillOpen
  <2>6. CASE ReceiveReset
    BY <1>1, <2>6 DEF ReceiveReset, ResetTargets
  <2>7. CASE UnlockLook
    BY <2>7 DEF UnlockLook, vars, sessionVars
  <2>8. CASE UnlockStop
    BY <1>6, <2>8 DEF UnlockStop, StillOpen
  <2>9. CASE DoStop \/ ResetDone \/ UnlockOpen
    <3>1. request' = Idle
      BY <2>9 DEF DoStop, ResetDone, UnlockOpen
    <3>2. QED
      BY <3>1
  <2>10. CASE ReserveNow16 \/ ReserveNow201 \/ CancelReservation16 \/ CancelReservation201
    BY <1>5, <1>3, <2>10 DEF ReserveNow16, ReserveNow201, CancelReservation16, CancelReservation201
  <2>11. QED
    BY <1>7, <2>1, <2>2, <2>3, <2>4, <2>5, <2>6, <2>7, <2>8, <2>9, <2>10 DEF CsmsNext
<1>8. QED
  BY <1>2, <1>4, <1>5, <1>7 DEF StationNext, StationStep

\* They stay well typed.
LEMMA RequestTyped ==
    ASSUME IInv, request \in Request, StationNext PROVE request' \in Request
<1> USE DEF Request, Idle, Ops, StillOpen
<1>1. connectors \subseteq Conn /\ sessions \subseteq Conn
  BY DEF IInv, TypeOK
<1>2. Idle \in Request
  OBVIOUS
<1>3. CASE Beside
  BY <1>3 DEF Beside
<1>4. ASSUME NEW c \in Conn, ConnectorCall(c) \/ Bench(c) PROVE Beside
  BY <1>4 DEF ConnectorCall, Bench, DeleteConnector, PostPlugIn, PostUnplug,
     PostSuspendEV, PostResumeCharging, PostStart, PutAvailability
<1>5. CASE \/ CreateConnector \/ PostStopAll \/ PostReservation \/ DeleteReservation \/ Tick
           \/ ReserveNow16 \/ ReserveNow201 \/ CancelReservation16 \/ CancelReservation201
  BY <1>3, <1>5 DEF CreateConnector, PostStopAll, PostReservation, DeleteReservation, Tick,
     ReserveNow16, ReserveNow201, CancelReservation16, CancelReservation201
<1>6. CASE DoStop \/ ResetDone \/ UnlockOpen
  <2>1. request' = Idle
    BY <1>6 DEF DoStop, ResetDone, UnlockOpen
  <2>2. QED
    BY <1>2, <2>1
<1>7. ASSUME NEW c \in Conn,
             \/ ChangeOne(c) \/ ReceiveStop(c) \/ ResetStop(c) \/ Unlock16(c) \/ Unlock201(c)
      PROVE  request' \in Request
  <2>1. CASE ChangeOne(c)
    BY <1>1, <1>2, <2>1 DEF ChangeOne
  <2>2. CASE ResetStop(c)
    BY <1>1, <2>2 DEF ResetStop
  <2>3. CASE ReceiveStop(c) \/ Unlock16(c) \/ Unlock201(c)
    <3>1. {c} \in SUBSET Conn /\ {c} \cap sessions \in SUBSET Conn
      OBVIOUS
    <3>2. CASE ReceiveStop(c)
      BY <3>1, <3>2 DEF ReceiveStop
    <3>3. CASE Unlock16(c)
      BY <3>1, <3>3 DEF Unlock16
    <3>4. CASE Unlock201(c)
      BY <3>4 DEF Unlock201
    <3>5. QED
      BY <2>3, <3>2, <3>3, <3>4
  <2>4. QED
    BY <1>7, <2>1, <2>2, <2>3
<1>8. ASSUME NEW type \in AvailabilityTypes, ReceiveAvailability(type)
      PROVE  request' \in Request
  BY <1>1, <1>8 DEF ReceiveAvailability
<1>9. CASE ReceiveReset \/ UnlockLook \/ UnlockStop
  BY <1>1, <1>9 DEF ReceiveReset, ResetTargets, UnlockLook, UnlockStop
<1>10. ASSUME NEW X \in SUBSET reservations, NEW P \in SUBSET Conn, Restart(X, P)
       PROVE  request' \in Request
  BY <1>2, <1>10 DEF Restart
<1>11. QED
  BY <1>3, <1>4, <1>5, <1>6, <1>7, <1>8, <1>9, <1>10 DEF StationNext, StationStep, CsmsNext

-----------------------------------------------------------------------------
(* What a step does to the persistent status of a connector.               *)

\* A persistent status only goes from r's to s's for a reason: a reservation on the
\* connector ended, the connector was made Operative, or it became Inoperative,
\* Reserved with a reservation, or Faulted.
Moves(c, r, s, left) ==
    \/ s.persistent = r.persistent /\ ReservationsOf(c, reservations) \subseteq left
    \/ s.persistent = "Available" /\ ReservationsOf(c, reservations) # {}
    \/ s.persistent \in Inoperable
    \/ r.persistent = "Faulted"

\* ClearReservation, SetReserved, ApplyAvailability and the transitions, seen from
\* the persistent status.
LEMMA Persists ==
    ASSUME NEW r \in ConnectorType, Agreed(r)
    PROVE  /\ r.persistent # "Faulted" => ClearReservation(r).persistent = "Available"
           /\ \A type : \/ ApplyAvailability(r, type).persistent = r.persistent
                        \/ ApplyAvailability(r, type).persistent = "Unavailable"
                        \/ /\ type = "Operative"
                           /\ ApplyAvailability(r, type).persistent = "Available"
           /\ PlugIn(r).persistent = r.persistent /\ Unplug(r).persistent = r.persistent
           /\ StartCharging(r).persistent = r.persistent /\ StopCharging(r).persistent = r.persistent
           /\ SuspendEV(r).persistent = r.persistent /\ SuspendEVSE(r).persistent = r.persistent
           /\ ResumeCharging(r).persistent = r.persistent
           /\ LockConnector(r).persistent = r.persistent
           /\ UnlockConnector(r).persistent = r.persistent
BY DEF ConnectorType, Agreed, ClearReservation, SetOperative, Settle, ApplyAvailability,
   SetUnavailable, PlugIn, Unplug, Transition, StartCharging, StopCharging, SuspendEV,
   SuspendEVSE, ResumeCharging, LockConnector, UnlockConnector

\* expireReservations makes the connectors of X Available and leaves the others.
LEMMA ExpiryMoves ==
    ASSUME IInv, conn \in [Conn -> Class], NEW X \in SUBSET reservations, NEW c \in connectors
    PROVE  /\ Moves(c, conn[c], AfterExpiry(X)[c], reservations \ X)
           /\ Sound(AfterExpiry(X)[c]) /\ AfterExpiry(X)[c] \in Class
           /\ AfterExpiry(X)[c] # conn[c] => ReservationsOf(c, reservations) # {}
<1>1. c \in Conn /\ conn[c] \in Class /\ Sound(conn[c])
  BY DEF IInv, TypeOK
<1>2. AfterExpiry(X)[c] \in Class
  BY <1>1, ComposedClass
<1>3. Sound(AfterExpiry(X)[c])
  BY <1>1, ExpiryCalm DEF Calmer
<1>4. CASE ReservationsOf(c, X) = {}
  <2>1. AfterExpiry(X)[c] = conn[c]
    BY <1>1, <1>4 DEF AfterExpiry
  <2>2. ReservationsOf(c, reservations) \subseteq reservations \ X
    BY <1>4 DEF ReservationsOf
  <2>3. QED
    BY <1>2, <1>3, <2>1, <2>2 DEF Moves
<1>5. CASE ReservationsOf(c, X) # {}
  <2>1. AfterExpiry(X)[c] = ClearReservation(conn[c])
    BY <1>1, <1>5 DEF AfterExpiry
  <2>2. ReservationsOf(c, reservations) # {}
    BY <1>5 DEF ReservationsOf
  <2>3. conn[c].persistent # "Faulted" => AfterExpiry(X)[c].persistent = "Available"
    BY <1>1, <2>1, Persists DEF Class
  <2>4. QED
    BY <1>2, <1>3, <2>2, <2>3 DEF Moves
<1>6. QED
  BY <1>4, <1>5

\* Nor does it fault a connector.
LEMMA ExpiryFault ==
    ASSUME IInv, conn \in [Conn -> Class], NEW X \in SUBSET reservations, NEW c \in connectors,
           AfterExpiry(X)[c].persistent = "Faulted"
    PROVE  conn[c].persistent = "Faulted"
<1>1. c \in Conn /\ conn[c] \in Class
  BY DEF IInv, TypeOK
<1>2. AfterExpiry(X)[c] \in {conn[c], ClearReservation(conn[c])}
  BY <1>1 DEF AfterExpiry
<1>3. QED
  BY <1>1, <1>2, Persists DEF Class

\* Ending a session moves the persistent status as its deferred change says.
LEMMA StopMoves ==
    ASSUME NEW c, NEW r \in Class, NEW s \in Class, NEW left, Moves(c, r, s, left)
    PROVE  \/ Moves(c, r, Stopped(c, s), left)
           \/ Stopped(c, s).persistent = "Available" /\ pendingAvailability[c] = "Operative"
<1>1. StopCharging(s) \in Class /\ StopCharging(s).persistent = s.persistent
  BY MethodsClass, Persists DEF Class
<1>2. \/ Stopped(c, s).persistent = s.persistent
      \/ Stopped(c, s).persistent = "Unavailable"
      \/ Stopped(c, s).persistent = "Available" /\ pendingAvailability[c] = "Operative"
  BY <1>1, Persists DEF Class, Stopped
<1>3. QED
  BY <1>2 DEF Moves

\* The reasons a step of the engine may have for changing a persistent status that
\* are not among Moves.
Told(c) ==
    \/ /\ conn'[c].persistent = "Available"
       /\ c \in sessions \ sessions'
       /\ pendingAvailability[c] = "Operative"
    \/ /\ conn'[c].persistent = "Available"
       /\ \E X \in SUBSET reservations : SetConnectorAvailability(c, "Operative", X)
    \/ /\ conn'[c].persistent = "Reserved"
       /\ ReservationsOf(c, reservations') # {}
       /\ conn[c].persistent = "Unavailable" => ReservationsOf(c, reservations) # {}

\* Every step of the engine has one of these reasons.
LEMMA PersistentStep ==
    ASSUME IInv, conn \in [Conn -> Class], EngineStep, NEW c \in connectors \cap connectors'
    PROVE  Moves(c, conn[c], conn'[c], reservations') \/ Told(c)
<1> DEFINE Goal == Moves(c, conn[c], conn'[c], reservations') \/ Told(c)
           base(X) == AfterExpiry(X)[c]
<1>1. c \in Conn /\ conn[c] \in Class /\ Sound(conn[c]) /\ reservations \subseteq Reservation
  BY DEF IInv, TypeOK
<1>2. \A X \in SUBSET reservations :
         Moves(c, conn[c], base(X), reservations \ X) /\ base(X) \in Class /\ Sound(base(X))
  BY ExpiryMoves
<1>3. ASSUME conn'[c].persistent = conn[c].persistent, reservations' = reservations PROVE Goal
  BY <1>3 DEF Moves, ReservationsOf
<1>4. ASSUME NEW X \in SUBSET reservations, conn'[c].persistent = base(X).persistent,
             reservations' = reservations \ X PROVE Goal
  BY <1>2, <1>4 DEF Moves
<1>5. ASSUME NEW d \in Conn, NEW stop, NEW unlock, UnplugConnector(d, stop, unlock) PROVE Goal
  <2>1. CASE d = c /\ c \in sessions \ sessions'
    <3>1. conn'[c].persistent = Stopped(c, conn[c]).persistent \/ conn'[c].persistent = conn[c].persistent
      <4>1. Stopped(c, conn[c]) \in Class
        BY <1>1, ComposedClass
      <4>2. \A r \in Class : Unplug(r).persistent = r.persistent
                             /\ Unplug(UnlockConnector(r)).persistent = r.persistent
        BY Persists, MethodsClass DEF Class
      <4>3. QED
        BY <1>1, <1>5, <2>1, <4>1, <4>2 DEF UnplugConnector
    <3>2. reservations' = reservations /\ Moves(c, conn[c], conn[c], reservations)
      BY <1>5 DEF UnplugConnector, Moves, ReservationsOf
    <3>3. \/ Moves(c, conn[c], Stopped(c, conn[c]), reservations)
          \/ Stopped(c, conn[c]).persistent = "Available" /\ pendingAvailability[c] = "Operative"
      BY <1>1, <3>2, StopMoves
    <3>4. QED
      BY <1>3, <2>1, <3>1, <3>2, <3>3 DEF Moves, Told
  <2>2. CASE d = c /\ c \notin sessions \ sessions'
    <3>1. \A r \in Class : Unplug(r).persistent = r.persistent
                           /\ Unplug(UnlockConnector(r)).persistent = r.persistent
      BY Persists, MethodsClass DEF Class
    <3>2. {c} \cap (IF stop THEN sessions ELSE {}) = {}
      BY <1>5, <2>2 DEF UnplugConnector, EndSessions
    <3>3. conn'[c] = Unplug(conn[c]) \/ conn'[c] = Unplug(UnlockConnector(conn[c]))
      BY <1>1, <1>5, <2>2, <3>2 DEF UnplugConnector
    <3>4. QED
      BY <1>1, <1>3, <1>5, <3>1, <3>3 DEF UnplugConnector
  <2>3. CASE d # c
    BY <1>1, <1>3, <1>5, <2>3 DEF UnplugConnector
  <2>4. QED
    BY <2>1, <2>2, <2>3
<1>6. ASSUME NEW d \in Conn,
             Suspend(d) \/ Resume(d) \/ TickThrottle(d) \/ (\E lock : SetLock(d, lock)) PROVE Goal
  <2>1. conn'[c].persistent = conn[c].persistent
    BY <1>1, <1>6, Persists DEF Class, Suspend, Resume, TickThrottle, SetLock
  <2>2. QED
    BY <1>3, <1>6, <2>1 DEF Suspend, Resume, TickThrottle, SetLock
<1>7. ASSUME NEW d \in Conn, NEW limited, NEW delta, TickCharge(d, limited, delta) PROVE Goal
  <2> DEFINE awake == IF limited THEN conn[d] ELSE Transition(conn[d], {"SuspendedEVSE"}, "Charging")
  <2>1. conn[d] \in Class
    OBVIOUS
  <2>2. awake \in Class /\ awake.persistent = conn[d].persistent
    <3>1. awake \in Class
      BY <2>1, TransitionClass
    <3>2. awake.persistent = conn[d].persistent
      BY <2>1 DEF Transition, Class, ConnectorType
    <3>3. QED
      BY <3>1, <3>2
  <2>3. SuspendEV(awake).persistent = conn[d].persistent
    BY <2>2, Persists DEF Class
  <2>4. QED
    BY <1>1, <1>3, <1>7, <2>2, <2>3 DEF TickCharge
<1>8. ASSUME NEW d \in Conn, NEW X \in SUBSET reservations, NEW inTime, PlugInConnector(d, X, inTime)
      PROVE  Goal
  <2>1. \A r \in Class : /\ PlugIn(r) \in Class /\ PlugIn(r).persistent = r.persistent
                         /\ Unplug(r).persistent = r.persistent
                         /\ StartCharging(r).persistent = r.persistent
                         /\ r.persistent # "Faulted" => ClearReservation(r).persistent = "Available"
                         /\ ClearReservation(r) \in Class
    BY Persists, MethodsClass DEF Class
  <2>2. CASE d = c /\ reservations' = reservations \ X
    <3>1. \/ conn'[c] = PlugIn(base(X))
          \/ conn'[c] = StartCharging(ReadyToStart(c, PlugIn(base(X)), reservations \ X))
             /\ reservations' = (reservations \ X) \ ReservationsOf(c, reservations \ X)
      BY <1>1, <1>8, <2>2 DEF PlugInConnector
    <3>2. ReservationsOf(c, reservations \ X) = {} \/ conn'[c] = PlugIn(base(X))
      BY <2>2, <3>1 DEF ReservationsOf
    <3>3. conn'[c].persistent = base(X).persistent
      <4>1. PlugIn(base(X)) \in Class /\ PlugIn(base(X)).persistent = base(X).persistent
        BY <1>2, <2>1
      <4>2. conn'[c] \in {PlugIn(base(X)), StartCharging(PlugIn(base(X)))}
        BY <3>1, <3>2 DEF ReadyToStart
      <4>3. QED
        BY <2>1, <4>1, <4>2
    <3>4. QED
      BY <1>4, <2>2, <3>3
  <2>3. CASE d = c /\ reservations' # reservations \ X
    <3>1. /\ conn'[c] = StartCharging(ReadyToStart(c, PlugIn(base(X)), reservations \ X))
          /\ ReservationsOf(c, reservations \ X) # {}
      BY <1>1, <1>8, <2>3 DEF PlugInConnector
    <3>2. conn'[c].persistent = ClearReservation(PlugIn(base(X))).persistent
      BY <1>2, <2>1, <3>1 DEF ReadyToStart
    <3>3. base(X).persistent # "Faulted" => conn'[c].persistent = "Available"
      BY <1>2, <2>1, <3>2
    <3>4. ReservationsOf(c, reservations) # {}
      BY <3>1 DEF ReservationsOf
    <3>5. base(X).persistent = "Faulted" => conn[c].persistent = "Faulted"
      BY ExpiryFault
    <3>6. QED
      BY <3>3, <3>4, <3>5 DEF Moves
  <2>4. CASE d # c
    <3>1. conn'[c].persistent = base(X).persistent
      <4>1. conn'[c] \in {base(X), Unplug(base(X))}
        BY <1>1, <1>8, <2>4 DEF PlugInConnector
      <4>2. QED
        BY <1>2, <2>1, <4>1
    <3>2. reservations' = reservations \ X \/ reservations' = (reservations \ X) \ ReservationsOf(d, reservations \ X)
      BY <1>8 DEF PlugInConnector
    <3>3. ReservationsOf(c, reservations \ X) \subseteq reservations'
      BY <2>4, <3>2 DEF ReservationsOf
    <3>4. QED
      BY <1>2, <3>1, <3>3 DEF Moves, ReservationsOf
  <2>5. QED
    BY <2>2, <2>3, <2>4
<1>9. ASSUME NEW d \in Conn, NEW X \in SUBSET reservations, NEW tag, StartSession(d, tag, X) PROVE Goal
  <2>1. \A r \in Class : /\ StartCharging(r).persistent = r.persistent
                         /\ r.persistent # "Faulted" => ClearReservation(r).persistent = "Available"
                         /\ ClearReservation(r) \in Class
    BY Persists, MethodsClass DEF Class
  <2>2. reservations' = (reservations \ X) \ ReservationsOf(d, reservations \ X)
    BY <1>9 DEF StartSession
  <2>3. CASE d = c /\ ReservationsOf(c, reservations \ X) # {}
    <3>1. conn'[c] = StartCharging(ClearReservation(base(X)))
      BY <1>1, <1>9, <2>3 DEF StartSession, ReadyToStart, AfterExpiry
    <3>2. base(X).persistent # "Faulted" => conn'[c].persistent = "Available"
      BY <1>2, <2>1, <3>1
    <3>3. ReservationsOf(c, reservations) # {}
      BY <2>3 DEF ReservationsOf
    <3>4. QED
      BY <3>2, <3>3, ExpiryFault DEF Moves
  <2>4. CASE d = c /\ ReservationsOf(c, reservations \ X) = {}
    <3>1. conn'[c] = StartCharging(base(X))
      BY <1>1, <1>9, <2>4 DEF StartSession, ReadyToStart, AfterExpiry
    <3>2. reservations' = reservations \ X
      BY <2>2, <2>4
    <3>3. QED
      BY <1>2, <1>4, <2>1, <3>1, <3>2
  <2>5. CASE d # c
    <3>1. conn'[c] = base(X)
      BY <1>1, <1>9, <2>5 DEF StartSession, AfterExpiry
    <3>2. ReservationsOf(c, reservations \ X) \subseteq reservations'
      BY <2>2, <2>5 DEF ReservationsOf
    <3>3. QED
      BY <1>2, <3>1, <3>2 DEF Moves, ReservationsOf
  <2>6. QED
    BY <2>3, <2>4, <2>5
<1>10. ASSUME NEW X \in SUBSET reservations,
              RefusedCall(X) \/ \E d, tag : StoreRemoteStart(d, tag, X) PROVE Goal
  BY <1>4, <1>10 DEF RefusedCall, StoreRemoteStart
<1>11. ASSUME NEW d \in Conn, NEW X \in SUBSET reservations, NEW type,
              SetConnectorAvailability(d, type, X) PROVE Goal
  <2>1. reservations' = reservations \ X
    BY <1>11 DEF SetConnectorAvailability
  <2>2. CASE d = c /\ c \notin sessions /\ type # "Operative"
    <3>1. conn'[c] = ApplyAvailability(base(X), type)
      BY <1>1, <1>11, <2>2 DEF SetConnectorAvailability, AfterExpiry
    <3>2. ApplyAvailability(base(X), type).persistent \in {base(X).persistent, "Unavailable"}
      <4>1. base(X) \in ConnectorType /\ Agreed(base(X))
        BY <1>2 DEF Class
      <4> HIDE DEF base
      <4>2. QED
        BY <2>2, <4>1, Persists
    <3>3. QED
      BY <1>4, <2>1, <3>1, <3>2 DEF Moves
  <2>3. CASE d = c /\ c \notin sessions /\ type = "Operative"
    <3>1. conn'[c] = ClearReservation(base(X))
      BY <1>1, <1>11, <2>3 DEF SetConnectorAvailability, AfterExpiry, ApplyAvailability, ClearReservation
    <3>2. base(X).persistent # "Faulted" => ClearReservation(base(X)).persistent = "Available"
      BY <1>2, Persists DEF Class
    <3>3. base(X).persistent = "Faulted" => conn[c].persistent = "Faulted"
      BY ExpiryFault
    <3>4. QED
      BY <1>11, <2>3, <3>1, <3>2, <3>3 DEF Told, Moves
  <2>4. CASE d # c \/ c \in sessions
    <3>1. conn'[c] = base(X)
      BY <1>1, <1>11, <2>4 DEF SetConnectorAvailability, AfterExpiry
    <3>2. QED
      BY <1>4, <2>1, <3>1
  <2>5. QED
    BY <2>2, <2>3, <2>4
<1>12. ASSUME NEW S, StopSessions(S) PROVE Goal
  <2>1. CASE c \in S
    <3>1. c \in sessions \ sessions'
      BY <1>12, <2>1 DEF StopSessions, EndSessions
    <3>2. conn'[c] = Stopped(c, conn[c]) /\ reservations' = reservations
      BY <1>1, <1>12, <2>1 DEF StopSessions
    <3>3. Moves(c, conn[c], conn[c], reservations)
      BY DEF Moves, ReservationsOf
    <3>4. QED
      BY <1>1, <3>1, <3>2, <3>3, StopMoves DEF Told
  <2>2. CASE c \notin S
    BY <1>1, <1>3, <1>12, <2>2 DEF StopSessions
  <2>3. QED
    BY <2>1, <2>2
<1>13. ASSUME NEW r \in Reservation, NEW X \in SUBSET reservations, ReserveConnector(r, X) PROVE Goal
  <2>1. CASE r.connector = c
    <3>1. conn'[c] = SetReserved(base(X)) /\ base(X).status \notin Inoperable /\ ~base(X).plugged
      BY <1>1, <1>13, <2>1 DEF ReserveConnector, AfterExpiry
    <3>2. conn'[c].persistent = "Reserved"
      BY <1>2, <3>1 DEF SetReserved, Settle, Class, ConnectorType
    <3>3. r \in reservations' /\ r \in ReservationsOf(c, reservations')
      BY <1>13, <2>1 DEF ReserveConnector, ReservationsOf
    <3>4. base(X).persistent # "Unavailable"
      BY <1>2, <3>1 DEF Sound
    <3>5. QED
      BY <3>2, <3>3, <3>4, ExpiryMoves DEF Told
  <2>2. CASE r.connector # c
    <3>1. conn'[c] = base(X)
      BY <1>1, <1>13, <2>2 DEF ReserveConnector, AfterExpiry
    <3>2. reservations \ X \subseteq reservations'
      BY <1>13 DEF ReserveConnector
    <3>3. QED
      BY <1>2, <3>1, <3>2 DEF Moves
  <2>3. QED
    BY <2>1, <2>2
<1>14. ASSUME NEW r \in reservations, CancelReservation(r) PROVE Goal
  BY <1>4, <1>14 DEF CancelReservation
<1>15. ASSUME NEW d \in Conn, FaultConnector(d) PROVE Goal
  <2>1. CASE d = c
    <3>1. Stopped(c, conn[c]) \in Class
      BY <1>1, ComposedClass
    <3>2. conn'[c].persistent = "Faulted"
      BY <1>1, <1>15, <2>1, <3>1 DEF FaultConnector, SetFaulted, Class, ConnectorType
    <3>3. QED
      BY <3>2 DEF Moves
  <2>2. CASE d # c
    BY <1>1, <1>3, <1>15, <2>2 DEF FaultConnector
  <2>3. QED
    BY <2>1, <2>2
<1>16. ASSUME NEW d \in Conn, ClearConnectorFault(d) PROVE Goal
  <2>1. reservations' = reservations
    BY <1>16 DEF ClearConnectorFault
  <2>2. CASE d = c /\ conn[c].persistent # "Faulted"
    <3>1. ClearFault(conn[c]) = conn[c]
      BY <1>1, <2>2 DEF ClearFault, Class, Agreed
    <3>2. \/ ReservationsOf(c, reservations) # {} /\ conn'[c] = SetReserved(conn[c])
          \/ conn'[c] = SetUnavailable(conn[c])
          \/ conn'[c] = conn[c]
      BY <1>1, <1>16, <2>2, <3>1 DEF ClearConnectorFault
    <3>3. conn'[c].persistent \in {conn[c].persistent, "Unavailable", "Reserved"}
      BY <1>1, <3>2 DEF SetReserved, SetUnavailable, Settle, Class, ConnectorType
    <3>4. conn'[c].persistent = "Reserved" => \/ ReservationsOf(c, reservations) # {}
                                              \/ conn[c].persistent = "Reserved"
      BY <1>1, <3>2 DEF SetReserved, SetUnavailable, Settle, Class, ConnectorType
    <3>5. QED
      BY <1>3, <2>1, <3>3, <3>4 DEF Moves, Told
  <2>3. CASE d = c /\ conn[c].persistent = "Faulted"
    BY <2>3 DEF Moves
  <2>4. CASE d # c
    BY <1>1, <1>3, <1>16, <2>1, <2>4 DEF ClearConnectorFault
  <2>5. QED
    BY <2>2, <2>3, <2>4
<1>17. ASSUME NEW X \in SUBSET reservations, NEW timedOut, NEW invalid, invalid \subseteq sessions,
              TickBegin(X, timedOut, invalid) PROVE Goal
  <2> DEFINE idle == IF c \in timedOut
                     THEN [base(X) EXCEPT !.status =
                              IF base(X).plugged THEN "Preparing" ELSE base(X).persistent]
                     ELSE base(X)
  <2>1. reservations' = reservations \ X /\ conn'[c] = IF c \in invalid THEN Stopped(c, idle) ELSE idle
    BY <1>1, <1>17 DEF TickBegin
  <2>2. idle \in Class
    <3>1. \A r \in Class : [r EXCEPT !.status = IF r.plugged THEN "Preparing" ELSE r.persistent] \in Class
      BY DEF Class, Agreed, Unfaulted, ConnectorType
    <3>2. QED
      BY <1>2, <3>1
  <2>3. idle.persistent = base(X).persistent
    BY <1>2 DEF Class, ConnectorType
  <2>4. Moves(c, conn[c], idle, reservations \ X)
    BY <1>2, <2>3 DEF Moves
  <2> HIDE DEF idle
  <2>5. CASE c \in invalid
    <3>1. c \in sessions \ sessions'
      BY <1>17, <2>5 DEF TickBegin, EndSessions
    <3>2. QED
      BY <1>1, <2>1, <2>2, <2>4, <2>5, <3>1, StopMoves DEF Told
  <2>6. CASE c \notin invalid
    BY <2>1, <2>4, <2>6
  <2>7. QED
    BY <2>5, <2>6
<1>18. ASSUME NormalizeAfterReset PROVE Goal
  <2>1. conn'[c].persistent = conn[c].persistent
    BY <1>1, <1>18 DEF NormalizeAfterReset, Class, ConnectorType
  <2>2. QED
    BY <1>3, <1>18, <2>1 DEF NormalizeAfterReset
<1>19. CASE AddConnector \/ UNCHANGED vars
  BY <1>3, <1>19 DEF AddConnector, vars
<1>20. ASSUME NEW d \in Conn, RemoveConnector(d) PROVE Goal
  BY <1>1, <1>3, <1>20 DEF RemoveConnector
<1>21. ASSUME NEW d \in Conn, ConnectorNext(d) \/ TickNext(d) PROVE Goal
  BY <1>5, <1>6, <1>7, <1>8, <1>9, <1>10, <1>11, <1>15, <1>16, <1>20, <1>21 DEF ConnectorNext, TickNext
<1>22. QED
  BY <1>6, <1>10, <1>12, <1>13, <1>14, <1>17, <1>18, <1>19, <1>21 DEF EngineStep, Next

-----------------------------------------------------------------------------
(* What a step does to the sessions.                                       *)

\* What the deferred change must leave of a connector.
Downed(r) == \/ r.status = "Unavailable"
             \/ r.status = "Faulted" /\ r.preFault = "Unavailable"

\* Ending a session deferred to Inoperative takes the connector down.
LEMMA StopDowns ==
    ASSUME NEW c, NEW r \in Class, r.status # "Faulted", pendingAvailability[c] = "Inoperative"
    PROVE  LET s == Stopped(c, r) IN s \in Class /\ s.status = "Unavailable" /\ s.persistent = "Unavailable"
<1>1. StopCharging(r) \in Class /\ StopCharging(r).status # "Faulted"
  BY MethodsClass DEF StopCharging, Transition, Class, ConnectorType
<1>2. Stopped(c, r) = SetUnavailable(StopCharging(r))
  BY DEF Stopped, ApplyAvailability
<1>3. SetUnavailable(StopCharging(r)) \in Class
  BY <1>1, MethodsClass
<1>4. QED
  BY <1>1, <1>2, <1>3 DEF SetUnavailable, Class, Agreed, ConnectorType

\* The engine ends no session without applying its deferred Inoperative change.
LEMMA DeferredStep ==
    ASSUME IInv, conn \in [Conn -> Class], EngineStep, NEW c \in sessions \ sessions',
           pendingAvailability[c] = "Inoperative", conn[c].status # "Faulted"
    PROVE  Downed(conn'[c])
<1>1. c \in Conn /\ conn[c] \in Class /\ Sound(conn[c])
  BY DEF IInv, TypeOK
<1>2. LET s == Stopped(c, conn[c])
      IN  s \in Class /\ s.status = "Unavailable" /\ s.persistent = "Unavailable"
  BY <1>1, StopDowns
<1>3. ASSUME NEW d, NEW stop, NEW unlock, UnplugConnector(d, stop, unlock) PROVE Downed(conn'[c])
  <2>1. d = c /\ {c} \cap (IF stop THEN sessions ELSE {}) = {c}
    BY <1>3 DEF UnplugConnector, EndSessions
  <2>2. \A r \in Class : r.persistent = "Unavailable" =>
           /\ Unplug(r).status = "Unavailable"
           /\ Unplug(UnlockConnector(r)).status = "Unavailable"
    BY DEF Class, ConnectorType, Unplug, UnlockConnector
  <2>3. QED
    BY <1>1, <1>2, <1>3, <2>1, <2>2 DEF UnplugConnector, Downed
<1>4. ASSUME NEW S, StopSessions(S) PROVE Downed(conn'[c])
  BY <1>1, <1>2, <1>4 DEF StopSessions, EndSessions, Downed
<1>5. ASSUME NEW d, FaultConnector(d) PROVE Downed(conn'[c])
  <2>1. d = c /\ {c} \cap sessions = {c}
    BY <1>5 DEF FaultConnector, EndSessions
  <2>2. conn'[c] = SetFaulted(Stopped(c, conn[c]))
    BY <1>1, <1>5, <2>1 DEF FaultConnector
  <2>3. QED
    BY <1>2, <2>2 DEF SetFaulted, Downed, Class, ConnectorType
<1>6. ASSUME NEW X \in SUBSET reservations, NEW timedOut, NEW invalid,
             TickBegin(X, timedOut, invalid) PROVE Downed(conn'[c])
  <2> DEFINE idle == IF c \in timedOut
                     THEN [conn[c] EXCEPT !.status =
                              IF conn[c].plugged THEN "Preparing" ELSE conn[c].persistent]
                     ELSE conn[c]
  <2>1. AfterExpiry(X)[c] = conn[c]
    BY <1>1, ExpiryCalm
  <2>2. c \in invalid
    BY <1>6 DEF TickBegin, EndSessions
  <2>3. conn'[c] = Stopped(c, idle)
    BY <1>1, <1>6, <2>1, <2>2 DEF TickBegin
  <2>4. c \in timedOut => conn[c].status = "Finishing" /\ conn[c].plugged
    BY <1>1, <1>6, <2>1 DEF TickBegin, Sound
  <2>5. idle \in Class /\ idle.status # "Faulted"
    BY <1>1, <2>4 DEF Class, Agreed, Unfaulted, ConnectorType
  <2> HIDE DEF idle
  <2>6. Stopped(c, idle).status = "Unavailable"
    BY <2>5, StopDowns
  <2>7. QED
    BY <2>3, <2>6 DEF Downed
<1>7. QED
  <2>1. ~ UNCHANGED sessions
    OBVIOUS
  <2>2. ASSUME NEW d \in Conn, ConnectorNext(d) PROVE Downed(conn'[c])
    <3>1. ASSUME NEW X, NEW inTime, PlugInConnector(d, X, inTime) PROVE FALSE
      BY <3>1 DEF PlugInConnector, BeginSession
    <3>2. ASSUME NEW X, NEW tag, StartSession(d, tag, X) PROVE FALSE
      BY <3>2 DEF StartSession, BeginSession
    <3>3. QED
      BY <1>3, <1>5, <2>1, <2>2, <3>1, <3>2 DEF ConnectorNext, RemoveConnector, Suspend, Resume,
         ClearConnectorFault, SetLock, StoreRemoteStart, SetConnectorAvailability, sessionVars
  <2>3. ASSUME NEW d, TickNext(d) \/ SetLock(d, FALSE) PROVE FALSE
    BY <2>1, <2>3 DEF TickNext, TickThrottle, TickCharge, SetLock, sessionVars
  <2>4. ~ UNCHANGED vars /\ ~AddConnector /\ ~NormalizeAfterReset
    BY <2>1 DEF vars, AddConnector, NormalizeAfterReset, sessionVars
  <2>5. ASSUME NEW X, NEW r, RefusedCall(X) \/ ReserveConnector(r, X) \/ CancelReservation(r) PROVE FALSE
    BY <2>1, <2>5 DEF RefusedCall, ReserveConnector, CancelReservation, sessionVars
  <2>6. QED
    BY <1>4, <1>6, <2>2, <2>3, <2>4, <2>5 DEF EngineStep, Next

\* Nor does it start a session where one has its cable attached.
LEMMA KeptStep ==
    ASSUME IInv, EngineStep, NEW c \in sessions, conn[c].plugged
    PROVE  unclosed'[c] <= unclosed[c]
<1>1. c \in connectors /\ c \in Conn /\ unclosed \in [Conn -> 0..2] /\ unclosed[c] \in 0..2
  BY DEF IInv, TypeOK, SessionsExist
<1>2. pendingStart[c] = NoStart
  BY <1>1 DEF IInv, PendingStartWaits
<1>3. CASE unclosed' = unclosed
  BY <1>1, <1>3
<1>4. ASSUME NEW S, EndSessions(S) PROVE unclosed'[c] <= unclosed[c]
  BY <1>1, <1>4 DEF EndSessions
<1>5. ASSUME NEW d, d # c, NEW begun, BeginSession(d, begun) PROVE unclosed'[c] <= unclosed[c]
  BY <1>1, <1>5 DEF BeginSession
<1>6. ASSUME NEW d, NEW X, NEW inTime, PlugInConnector(d, X, inTime) PROVE unclosed'[c] <= unclosed[c]
  BY <1>1, <1>2, <1>3, <1>5, <1>6 DEF PlugInConnector
<1>7. ASSUME NEW d, NEW tag, NEW X, StartSession(d, tag, X) PROVE unclosed'[c] <= unclosed[c]
  <2>1. d # c
    BY <1>7 DEF StartSession, SessionFree
  <2>2. QED
    BY <1>5, <1>7, <2>1 DEF StartSession
<1>8. ASSUME NEW d, ConnectorNext(d) \/ TickNext(d) PROVE unclosed'[c] <= unclosed[c]
  BY <1>3, <1>4, <1>6, <1>7, <1>8 DEF ConnectorNext, RemoveConnector, Suspend, Resume,
     ClearConnectorFault, SetLock, StoreRemoteStart, SetConnectorAvailability, sessionVars,
     UnplugConnector, FaultConnector, TickNext, TickThrottle, TickCharge
<1>9. QED
  BY <1>3, <1>4, <1>8 DEF EngineStep, vars, Next, AddConnector, NormalizeAfterReset, StopSessions,
     RefusedCall, ReserveConnector, TickBegin, CancelReservation, SetLock, sessionVars

\* A cable put into an operable, unlocked connector makes it Preparing, and using
\* up its reservation leaves it so.
LEMMA PlugReady ==
    ASSUME IInv, NEW X \in SUBSET reservations, NEW c \in connectors, NEW R,
           ~conn[c].plugged, ~conn[c].locked, conn[c].status \notin Inoperable
    PROVE  ReadyToStart(c, PlugIn(AfterExpiry(X)[c]), R).status = "Preparing"
<1> DEFINE base == AfterExpiry(X)[c]
<1>1. c \in Conn /\ conn[c] \in ConnectorType /\ conn[c].status = conn[c].persistent
  BY DEF IInv, TypeOK, Sound
<1>2. base \in {conn[c], Settle(conn[c], "Available")}
  BY <1>1 DEF AfterExpiry, ClearReservation, SetOperative
<1>3. /\ base \in ConnectorType /\ ~base.locked /\ ~base.plugged
      /\ base.status \in {"Available", "Reserved"}
  BY <1>1, <1>2 DEF Settle, ConnectorType
<1> HIDE DEF base
<1>4. PlugIn(base) \in ConnectorType /\ PlugIn(base).plugged /\ PlugIn(base).status = "Preparing"
  BY <1>3 DEF PlugIn, Transition, ConnectorType
<1>5. ASSUME NEW r \in ConnectorType, r.plugged, r.status = "Preparing"
      PROVE  ReadyToStart(c, r, R).status = "Preparing"
  BY <1>5 DEF ReadyToStart, ClearReservation, SetOperative, Settle, ConnectorType
<1>6. QED
  BY <1>4, <1>5 DEF base

\* A session begins where there was none only with its announcement, or unheard on
\* a connector that was locked or inoperable when its cable came.
LEMMA BeginStep ==
    ASSUME IInv, OneUnclosed, EngineStep
    PROVE  /\ OneUnclosed'
           /\ \A c \in sessions' \ sessions :
                 \/ unclosed'[c] > unclosed[c]
                 \/ ~conn[c].plugged /\ (conn[c].locked \/ conn[c].status \in Inoperable)
<1> DEFINE Goal ==
              /\ OneUnclosed'
              /\ \A c \in sessions' \ sessions :
                    \/ unclosed'[c] > unclosed[c]
                    \/ ~conn[c].plugged /\ (conn[c].locked \/ conn[c].status \in Inoperable)
<1>1. sessions \subseteq Conn /\ connectors \subseteq Conn /\ unclosed \in [Conn -> 0..2]
      /\ conn \in [Conn -> ConnectorType] /\ \A c \in Conn : Sound(conn[c])
  BY DEF IInv, TypeOK
<1>2. CASE UNCHANGED <<sessions, unclosed>>
  BY <1>2 DEF OneUnclosed
<1>3. ASSUME NEW S, EndSessions(S) PROVE Goal
  <2>1. \A c \in Conn : unclosed[c] \in 0..2
    BY <1>1
  <2>2. sessions' = sessions \ S
        /\ \A c \in Conn : unclosed'[c] = IF c \in S /\ unclosed[c] > 0 THEN unclosed[c] - 1 ELSE unclosed[c]
    BY <1>3 DEF EndSessions
  <2>3. QED
    BY <2>1, <2>2 DEF OneUnclosed
<1>4. ASSUME NEW d \in Conn, NEW begun, BeginSession(d, begun),
             d \notin sessions =>
                \/ begun
                \/ ~conn[d].plugged /\ (conn[d].locked \/ conn[d].status \in Inoperable)
      PROVE  Goal
  <2>1. sessions' = sessions \cup {d} /\ unclosed[d] \in 0..2
    BY <1>1, <1>4 DEF BeginSession
  <2>2. \A c \in Conn \ {d} : unclosed'[c] = unclosed[c]
    BY <1>1, <1>4 DEF BeginSession
  <2>3. begun /\ d \notin sessions => unclosed'[d] > unclosed[d]
    BY <1>1, <1>4, <2>1 DEF BeginSession, OneUnclosed
  <2>4. QED
    BY <1>1, <1>4, <2>1, <2>2, <2>3 DEF OneUnclosed
<1>5. ASSUME NEW d \in Conn, NEW X \in SUBSET reservations, NEW inTime \in BOOLEAN,
             PlugInConnector(d, X, inTime)
      PROVE  Goal
  <2> DEFINE left == reservations \ X
             ready == ReadyToStart(d, PlugIn(AfterExpiry(X)[d]), left)
  <2>1. CASE pendingStart[d] # NoStart /\ BeginSession(d, ready.status = "Preparing")
    <3>1. d \in connectors /\ ~conn[d].plugged
      BY <1>5, <2>1 DEF PlugInConnector, IInv, PendingStartWaits
    <3>2. ready.status = "Preparing" \/ conn[d].locked \/ conn[d].status \in Inoperable
      BY <3>1, PlugReady
    <3> HIDE DEF ready
    <3>3. QED
      BY <1>4, <2>1, <3>1, <3>2
  <2>2. CASE UNCHANGED <<sessions, unclosed>>
    BY <1>2, <2>2
  <2>3. QED
    BY <1>5, <2>1, <2>2 DEF PlugInConnector
<1>6. ASSUME NEW d \in Conn, NEW tag \in IdTag, NEW X \in SUBSET reservations, StartSession(d, tag, X)
      PROVE  Goal
  <2> DEFINE left == reservations \ X
             base == AfterExpiry(X)[d]
             ready == ReadyToStart(d, base, left)
  <2>1. /\ d \in connectors /\ conn[d].plugged /\ base.status \in {"Available", "Preparing"}
        /\ BeginSession(d, ready.status = "Preparing")
    BY <1>6 DEF StartSession, Startable, CableMissing
  <2>2. conn[d] \in ConnectorType /\ conn[d].status \notin {"Available", "Reserved"}
    BY <1>1, <2>1 DEF Sound
  <2>3. base \in {conn[d], Settle(conn[d], "Available")}
    BY <1>1, <2>1 DEF AfterExpiry, ClearReservation, SetOperative
  <2>4. base \in ConnectorType /\ base.plugged /\ base.status = "Preparing"
    BY <2>1, <2>2, <2>3 DEF Settle, ConnectorType
  <2> HIDE DEF base
  <2>5. ready.status = "Preparing"
    BY <2>4 DEF ReadyToStart, ClearReservation, SetOperative, Settle, ConnectorType
  <2> HIDE DEF ready
  <2>6. QED
    BY <1>4, <2>1, <2>5
<1>7. ASSUME NEW d \in Conn, ConnectorNext(d) \/ TickNext(d) PROVE Goal
  BY <1>2, <1>3, <1>5, <1>6, <1>7 DEF ConnectorNext, RemoveConnector, Suspend, Resume,
     ClearConnectorFault, SetLock, StoreRemoteStart, SetConnectorAvailability, sessionVars,
     UnplugConnector, FaultConnector, TickNext, TickThrottle, TickCharge
<1>8. QED
  BY <1>2, <1>3, <1>7 DEF EngineStep, vars, Next, AddConnector, NormalizeAfterReset, StopSessions,
     RefusedCall, ReserveConnector, TickBegin, CancelReservation, SetLock, sessionVars

-----------------------------------------------------------------------------
(* The theorems.                                                           *)

\* The invariant of the station is inductive.
LEMMA StationInductive == StationInv /\ [StationNext]_stationVars => StationInv'
<1> SUFFICES ASSUME StationInv, [StationNext]_stationVars PROVE StationInv'
  OBVIOUS
<1> USE DEF StationInv
<1>1. CASE UNCHANGED stationVars
  <2>1. UNCHANGED vars
    BY <1>1 DEF stationVars
  <2>2. IInv'
    BY <2>1, NextIInv
  <2>3. QED
    BY <1>1, <2>2 DEF stationVars, vars, sessionVars, RequestInv, OneUnclosed
<1>2. CASE StationStep
  <2>1. EngineStep
    BY <1>2, StepIsEngineStep
  <2>2. QED
    BY <1>2, <2>1, EngineStepIInv, ClassStep, RequestStep, BeginStep DEF StationNext
<1>3. ASSUME NEW X \in SUBSET reservations, NEW P \in SUBSET Conn, Restart(X, P) PROVE StationInv'
  <2>1. ~FaultOps
    BY <1>3, StationOK DEF Restart
  <2>2. RequestInv'
    BY <1>3, RequestStep DEF StationNext
  <2>3. OneUnclosed'
    BY <1>3 DEF Restart, OneUnclosed
  <2>4. QED
    BY <1>3, <2>1, <2>2, <2>3, RestartStep
<1>4. QED
  BY <1>1, <1>2, <1>3 DEF StationNext

\* It holds at the start.
LEMMA StationInitial == StationInit => StationInv
<1>1. NewConnector \in Class
  BY DEF Class, Agreed, Unfaulted, NewConnector, ConnectorType
<1>2. StationInit => IInv /\ conn \in [Conn -> Class] /\ RequestInv /\ OneUnclosed
  BY <1>1, InitIInv DEF StationInit, Init, RequestInv, Idle, OneUnclosed
<1>3. QED
  BY <1>2 DEF StationInv

\* The engine's cross-checks hold in a whole station, whichever handlers overlap
\* and whenever the process is restarted from engine.json (handlers.go of v16,
\* v201 and api, persist.go).
THEOREM StationInvariant == StationSpec => []IInv
<1>1. StationInv => IInv
  BY DEF StationInv
<1>2. QED
  BY <1>1, StationInitial, StationInductive, PTL DEF StationSpec

\* When a Reset normalises the connectors, or a 1.6 UnlockConnector opens the
\* lock, the sessions open at its arrival have ended.
THEOREM RequestsStopFirst == StationSpec => []StopsFirst
<1>1. StationInv => StopsFirst
  BY DEF StationInv, RequestInv, StopsFirst
<1>2. QED
  BY <1>1, StationInitial, StationInductive, PTL DEF StationSpec

\* Every reachable station is well typed, its request in progress included.
THEOREM StationTypeCorrect == StationSpec => []StationTypeOK
<1> DEFINE I == StationInv /\ request \in Request
<1>1. StationInit => I
  BY StationInitial DEF StationInit, Idle, Request, Ops
<1>2. I /\ [StationNext]_stationVars => I'
  BY StationInductive, RequestTyped DEF StationInv, stationVars
<1>3. I => StationTypeOK
  BY DEF StationInv, IInv, StationTypeOK
<1>4. QED
  BY <1>1, <1>2, <1>3, PTL DEF StationSpec

\* A deferred Inoperative change is applied by whatever ends the session it waits
\* for: a stop, an unplugging, a tick that finds the idTag invalid, a fault
\* (stopSessionLocked, engine.go).  Ending several sessions and restarts are included.
THEOREM DeferredChangeApplied == StationSpec => DeferredApplied
<1>1. StationInv /\ [StationNext]_stationVars =>
        [\A c \in sessions \ sessions' :
            pendingAvailability[c] = "Inoperative" /\ conn[c].status # "Faulted" =>
            \/ conn'[c].status = "Unavailable"
            \/ conn'[c].status = "Faulted" /\ conn'[c].preFault = "Unavailable"]_vars
  <2> SUFFICES ASSUME StationInv, StationNext, NEW c \in sessions \ sessions',
                      pendingAvailability[c] = "Inoperative", conn[c].status # "Faulted"
               PROVE  Downed(conn'[c])
    BY DEF Downed, stationVars
  <2>1. ASSUME NEW X, NEW P, Restart(X, P) PROVE FALSE
    BY <2>1 DEF Restart
  <2>2. EngineStep
    BY <2>1, StepIsEngineStep DEF StationNext, StationInv
  <2>3. QED
    BY <2>2, DeferredStep DEF StationInv
<1>2. QED
  BY <1>1, StationInitial, StationInductive, PTL DEF StationSpec, DeferredApplied

\* OnSessionStarted is not called a second time while the cable of an open session
\* stays attached (PlugIn, StartSession): no transaction is displaced by another.
THEOREM SessionNotDisplaced == StationSpec => PluggedSessionKept
<1>1. StationInv /\ [StationNext]_stationVars =>
        [\A c \in sessions : conn[c].plugged => unclosed'[c] <= unclosed[c]]_vars
  <2> SUFFICES ASSUME StationInv, StationNext, NEW c \in sessions, conn[c].plugged
               PROVE  unclosed'[c] <= unclosed[c]
    BY DEF stationVars
  <2>1. c \in Conn /\ unclosed[c] \in 0..2
    BY DEF StationInv, IInv, TypeOK
  <2>2. ASSUME NEW X, NEW P, Restart(X, P) PROVE unclosed'[c] <= unclosed[c]
    BY <2>1, <2>2 DEF Restart
  <2>3. ASSUME StationStep PROVE EngineStep
    BY <2>3, StepIsEngineStep DEF StationInv
  <2>4. QED
    BY <2>2, <2>3, KeptStep DEF StationNext, StationInv
<1>2. QED
  BY <1>1, StationInitial, StationInductive, PTL DEF StationSpec, PluggedSessionKept

\* Every session is announced to the CSMS's side when it begins, but the one a waiting
\* remote start leaves on a connector that was locked or inoperable when the cable
\* came (PlugIn, startSessionLocked).
THEOREM SessionsAnnounced == StationSpec => StartAnnounced
<1>1. StationInv /\ [StationNext]_stationVars =>
        [\A c \in sessions' \ sessions :
            \/ unclosed'[c] > unclosed[c]
            \/ ~conn[c].plugged /\ (conn[c].locked \/ conn[c].status \in Inoperable)]_vars
  <2> SUFFICES ASSUME StationInv, StationNext, NEW c \in sessions' \ sessions
               PROVE  \/ unclosed'[c] > unclosed[c]
                      \/ ~conn[c].plugged /\ (conn[c].locked \/ conn[c].status \in Inoperable)
    BY DEF stationVars
  <2>1. ASSUME NEW X, NEW P, Restart(X, P) PROVE FALSE
    BY <2>1 DEF Restart
  <2>2. EngineStep
    BY <2>1, StepIsEngineStep DEF StationNext, StationInv
  <2>3. QED
    BY <2>2, BeginStep DEF StationInv
<1>2. QED
  BY <1>1, StationInitial, StationInductive, PTL DEF StationSpec, StartAnnounced

\* A connector made Inoperative does not come back by itself: not by a plug-in, a
\* session's end, a reset (NormalizeAfterReset) or a restart (LoadState).
THEOREM InoperativeEndures == StationSpec => InoperativeStays
<1> DEFINE Step(c) ==
        /\ conn[c].persistent = "Unavailable"
        /\ ReservationsOf(c, reservations) = {}
        /\ conn'[c].persistent \notin Inoperable
        => \/ c \notin sessions' /\ pendingAvailability[c] = "Operative"
           \/ \E X \in SUBSET reservations : SetConnectorAvailability(c, "Operative", X)
<1>1. StationInv /\ [StationNext]_stationVars => [\A c \in connectors \cap connectors' : Step(c)]_stationVars
  <2> SUFFICES ASSUME StationInv, StationNext, NEW c \in connectors \cap connectors' PROVE Step(c)
    OBVIOUS
  <2>1. c \in Conn /\ conn[c] \in Class
    BY DEF StationInv, IInv, TypeOK
  <2>2. ASSUME NEW X, NEW P, Restart(X, P) PROVE Step(c)
    BY <2>1, <2>2 DEF Restart, Kept, Class, ConnectorType
  <2>3. ASSUME StationStep PROVE Step(c)
    <3>1. Moves(c, conn[c], conn'[c], reservations') \/ Told(c)
      BY <2>3, StepIsEngineStep, PersistentStep DEF StationInv
    <3>2. QED
      BY <3>1 DEF Moves, Told
  <2>4. QED
    BY <2>2, <2>3 DEF StationNext
<1>2. QED
  BY <1>1, StationInitial, StationInductive, PTL DEF StationSpec, InoperativeStays

\* A reservation that is used, cancelled or expires frees its connector
\* (expireReservations, startSessionLocked, CancelReservation); only a restart that
\* drops expired reservations leaves one Reserved for nobody.
THEOREM ReservationEndsFree == StationSpec => ReservationFrees
<1> DEFINE Step(c) ==
        Held(c) /\ conn[c].persistent # "Faulted" /\ ~Held(c)'
        => Restarts /\ \E X \in SUBSET reservations, P \in SUBSET Conn : Restart(X, P)
<1>1. StationInv /\ [StationNext]_stationVars => [\A c \in connectors \cap connectors' : Step(c)]_stationVars
  <2> SUFFICES ASSUME StationInv, StationNext, NEW c \in connectors \cap connectors' PROVE Step(c)
    OBVIOUS
  <2>1. ASSUME NEW X \in SUBSET reservations, NEW P \in SUBSET Conn, Restart(X, P) PROVE Step(c)
    BY <2>1 DEF Restart
  <2>2. ASSUME StationStep PROVE Step(c)
    <3>1. Moves(c, conn[c], conn'[c], reservations') \/ Told(c)
      BY <2>2, StepIsEngineStep, PersistentStep DEF StationInv
    <3>2. SUFFICES ASSUME Held(c), conn[c].persistent # "Faulted", ~Held(c)' PROVE FALSE
      OBVIOUS
    <3>3. conn'[c].persistent = "Reserved" /\ ReservationsOf(c, reservations') = {}
      BY <3>2 DEF Held
    <3>4. ~Told(c)
      BY <3>3 DEF Told
    <3>5. conn[c].persistent = "Reserved" /\ ReservationsOf(c, reservations) \subseteq reservations'
      BY <3>1, <3>2, <3>3, <3>4 DEF Moves
    <3>6. ReservationsOf(c, reservations) \subseteq ReservationsOf(c, reservations')
      BY <3>5 DEF ReservationsOf
    <3>7. QED
      BY <3>2, <3>3, <3>5, <3>6 DEF Held
  <2>3. QED
    BY <2>1, <2>2 DEF StationNext
<1>2. QED
  BY <1>1, StationInitial, StationInductive, PTL DEF StationSpec, ReservationFrees
=============================================================================
