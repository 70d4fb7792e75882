---------------------------- MODULE EngineProofs ----------------------------
(***************************************************************************)
(* Proofs about Engine for every number of connectors, every set of tags,  *)
(* reservation ids and availability types, both EVSE modes and both values *)
(* of the disconnect key.                                                  *)
(***************************************************************************)
EXTENDS Engine, TLAPS

-----------------------------------------------------------------------------
(* What the connector methods preserve.                                    *)

\* s is a sound connector that differs from r only by becoming quieter: no new
\* cable, and no new Charging, Suspended or Finishing status.
Calmer(r, s) ==
    /\ Sound(s)
    /\ s.plugged => r.plugged
    /\ s.status \in Energized \cup {"Finishing"} => s.status = r.status

USE DEF ConnectorState, PersistentState, Energized, Inoperable

\* A sound connector is calmer than itself, and calmer is transitive.
LEMMA CalmerRefl == ASSUME NEW r, Sound(r) PROVE Calmer(r, r)
BY DEF Calmer, Sound

\* Calming steps compose.
LEMMA CalmerTrans ==
    ASSUME NEW r, NEW s, NEW t, Calmer(r, s), Calmer(s, t) PROVE Calmer(r, t)
BY DEF Calmer

\* Settle shows p only without a cable.
LEMMA SettleCalm ==
    ASSUME NEW r, Sound(r), NEW p \in PersistentState,
           p = "Faulted" => r.preFault # "none"
    PROVE  Calmer(r, Settle(r, p))
BY DEF Calmer, Sound, Settle, ConnectorType

\* Every method except PlugIn and the charging transitions is calming.
LEMMA CalmOps ==
    ASSUME NEW r, Sound(r)
    PROVE  /\ Calmer(r, Unplug(r)) /\ ~Unplug(r).plugged
           /\ Calmer(r, SetUnavailable(r))
           /\ Calmer(r, SetReserved(r))
           /\ Calmer(r, SetOperative(r)) /\ Calmer(r, ClearReservation(r))
           /\ Calmer(r, SetFaulted(r))
           /\ Calmer(r, ClearFault(r))
           /\ Calmer(r, LockConnector(r)) /\ Calmer(r, UnlockConnector(r))
<1>1. Calmer(r, Unplug(r)) /\ ~Unplug(r).plugged
  BY DEF Calmer, Sound, Unplug, ConnectorType
<1>2. Calmer(r, SetUnavailable(r))
  BY DEF Calmer, Sound, SetUnavailable, ConnectorType
<1>3. Calmer(r, SetReserved(r))
  BY SettleCalm, CalmerRefl DEF SetReserved
<1>4. Calmer(r, SetOperative(r))
  BY SettleCalm, CalmerRefl DEF SetOperative
<1>5. Calmer(r, SetFaulted(r))
  BY DEF Calmer, Sound, SetFaulted, ConnectorType
<1>6. Calmer(r, ClearFault(r))
  <2>1. CASE r.status # "Faulted"
    BY <2>1, CalmerRefl DEF ClearFault
  <2>2. CASE r.status = "Faulted"
    <3>1. r.preFault \in PersistentState
      BY <2>2 DEF Sound, ConnectorType
    <3>2. QED
      BY <3>1, <2>2, SettleCalm DEF ClearFault, Sound
  <2>3. QED
    BY <2>1, <2>2
<1>7. Calmer(r, LockConnector(r)) /\ Calmer(r, UnlockConnector(r))
  BY DEF Calmer, Sound, LockConnector, UnlockConnector, ConnectorType
<1>8. QED
  BY <1>1, <1>2, <1>3, <1>4, <1>5, <1>6, <1>7 DEF ClearReservation

\* An availability change is calming, whatever its type.
LEMMA AvailabilityCalm ==
    ASSUME NEW r, NEW type, Sound(r) PROVE Calmer(r, ApplyAvailability(r, type))
BY CalmOps, CalmerRefl DEF ApplyAvailability

\* The charging transitions keep a connector sound and its cable where it is.
LEMMA ChargingOps ==
    ASSUME NEW r, Sound(r), NEW from \in SUBSET {"Preparing", "Charging", "SuspendedEV", "SuspendedEVSE"},
           NEW to \in Energized \cup {"Finishing"}
    PROVE  /\ Sound(Transition(r, from, to))
           /\ Transition(r, from, to).plugged = r.plugged
           /\ Transition(r, from, to).status = IF r.status \in from THEN to ELSE r.status
<1>1. CASE r.status \in from
  BY <1>1 DEF Transition, Sound, ConnectorType
<1>2. CASE r.status \notin from
  BY <1>2 DEF Transition, Sound
<1>3. QED
  BY <1>1, <1>2

\* After StopCharging no status is energized.
LEMMA StopOps ==
    ASSUME NEW r, Sound(r)
    PROVE  /\ Sound(StopCharging(r))
           /\ StopCharging(r).plugged = r.plugged
           /\ StopCharging(r).status \notin Energized
<1>1. CASE r.status \in Energized
  BY <1>1 DEF StopCharging, Transition, Sound, ConnectorType
<1>2. CASE r.status \notin Energized
  BY <1>2 DEF StopCharging, Transition
<1>3. QED
  BY <1>1, <1>2

\* PlugIn moves a status only to Preparing.
LEMMA PlugInOps ==
    ASSUME NEW r, Sound(r)
    PROVE  /\ Sound(PlugIn(r))
           /\ PlugIn(r).status \in {r.status, "Preparing"}
<1>1. CASE r.locked
  BY <1>1 DEF PlugIn
<1>2. CASE ~r.locked
  BY <1>2 DEF PlugIn, Transition, Sound, ConnectorType
<1>3. QED
  BY <1>1, <1>2

-----------------------------------------------------------------------------
(* The inductive invariant in two parts.                                   *)

\* Connectors, sessions, meters and what was reported of them.
ConnPart ==
    /\ \A c \in Conn : Sound(conn[c])
    /\ \A c \in Conn \ connectors : conn[c] = NewConnector /\ reported[c] = "Available"
    /\ SessionsExist
    /\ EnergizedHasSession
    /\ OneOutlet
    /\ MeteringHasSession
    /\ MeterFollowsStatus
    /\ ReportedIsCurrent

\* Requests that wait: reservations, pending starts, deferred changes.
WaitPart == ReservationExclusive /\ PendingStartWaits /\ DeferredHasSession

\* IInv splits into types, what relates each connector to its session and
\* meter, and what waits for a session to end.
LEMMA Parts == IInv <=> TypeOK /\ ConnPart /\ WaitPart
BY DEF IInv, ConnPart, WaitPart

\* Report leaves the last reported status of every connector it concerns
\* current.
LEMMA ReportCurrent ==
    ASSUME TypeOK, NEW after \in [Conn -> ConnectorType], NEW S \in SUBSET Conn,
           Report(after, S)
    PROVE  /\ reported' \in [Conn -> ConnectorState]
           /\ \A c \in Conn :
                 /\ c \in S => reported'[c] = after[c].status
                 /\ reported[c] = conn[c].status => reported'[c] = after[c].status
                 /\ c \notin S /\ after[c] = conn[c] => reported'[c] = reported[c]
<1>1. \A c \in Conn : after[c].status \in ConnectorState /\ reported[c] \in ConnectorState
  BY DEF TypeOK, ConnectorType
<1>2. \A c \in Conn : reported'[c] = IF c \in S \/ after[c].status # conn[c].status
                                     THEN after[c].status ELSE reported[c]
  BY DEF Report
<1>3. reported' \in [Conn -> ConnectorState]
  BY <1>1 DEF Report
<1>4. QED
  BY <1>2, <1>3

\* Dropping expired reservations is calming and does not touch a connector with
\* a session.
LEMMA ExpiryCalm ==
    ASSUME IInv, NEW X \in SUBSET reservations
    PROVE  /\ AfterExpiry(X) \in [Conn -> ConnectorType]
           /\ \A c \in Conn :
                 /\ Calmer(conn[c], AfterExpiry(X)[c])
                 /\ c \notin connectors \/ c \in sessions => AfterExpiry(X)[c] = conn[c]
<1>1. ASSUME NEW c \in Conn PROVE Calmer(conn[c], AfterExpiry(X)[c])
  BY CalmOps, CalmerRefl DEF AfterExpiry, IInv
<1>2. ASSUME NEW c \in Conn PROVE AfterExpiry(X)[c] \in ConnectorType
  BY <1>1 DEF Calmer, Sound
<1>3. AfterExpiry(X) \in [Conn -> ConnectorType]
  BY <1>2 DEF AfterExpiry
<1>4. ASSUME NEW c \in Conn, c \notin connectors \/ c \in sessions
      PROVE  AfterExpiry(X)[c] = conn[c]
  <2>1. c \in sessions => ReservationsOf(c, X) = {}
    BY DEF IInv, ReservationExclusive, ReservationsOf
  <2>2. QED
    BY <1>4, <2>1 DEF AfterExpiry
<1>5. QED
  BY <1>1, <1>3, <1>4

\* How one connector may change while the sessions in S end.
Quiets(c, S) ==
    /\ Sound(conn'[c])
    /\ conn'[c].plugged => conn[c].plugged
    /\ IF c \in S THEN conn'[c].status \notin Energized ELSE Calmer(conn[c], conn'[c])
    /\ c \notin connectors => conn'[c] = conn[c]

\* A step that ends the sessions in S (perhaps none), quiets the connectors and
\* reports them preserves ConnPart.
LEMMA CalmStep ==
    ASSUME TypeOK, ConnPart, NEW S \in SUBSET sessions,
           UNCHANGED registry,
           conn' \in [Conn -> ConnectorType],
           \A c \in Conn : Quiets(c, S),
           Report(conn', S),
           sessions' = sessions \ S,
           metering' \subseteq metering,
           \A c \in S : MeterOf(c) \notin metering',
           MultiEVSE => \A c \in connectors \ S : conn'[c].status = "Charging" =>
                          (MeterOf(c) \in metering => MeterOf(c) \in metering')
    PROVE  ConnPart'
<1> USE DEF ConnPart
<1>0. connectors' = connectors /\ nextConnectorID' = nextConnectorID /\ S \subseteq Conn
      /\ connectors \subseteq Conn
  BY DEF registry, TypeOK
<1>1. (\A c \in Conn : Sound(conn[c]))'
  BY DEF Quiets
<1>2. \A c \in Conn :
        /\ c \in S => reported'[c] = conn'[c].status
        /\ reported[c] = conn[c].status => reported'[c] = conn'[c].status
        /\ c \notin S /\ conn'[c] = conn[c] => reported'[c] = reported[c]
  BY <1>0, ReportCurrent
<1>3. (\A c \in Conn \ connectors : conn[c] = NewConnector /\ reported[c] = "Available")'
  <2> SUFFICES ASSUME NEW c \in Conn, c \notin connectors
               PROVE  conn'[c] = NewConnector /\ reported'[c] = "Available"
    BY <1>0
  <2>1. conn'[c] = conn[c] /\ c \notin S
    BY DEF Quiets, SessionsExist
  <2>2. reported'[c] = reported[c]
    BY <1>2, <2>1
  <2>3. QED
    BY <2>1, <2>2
<1>4. SessionsExist'
  BY <1>0 DEF SessionsExist
<1>5. EnergizedHasSession'
  BY <1>0 DEF EnergizedHasSession, Quiets, Calmer, Sound
<1>6. OneOutlet'
  BY <1>0 DEF OneOutlet, Quiets
<1>7. MeteringHasSession'
  BY DEF MeteringHasSession, MeterOf
<1>8. MeterFollowsStatus'
  <2> SUFFICES ASSUME MultiEVSE, NEW c \in connectors
               PROVE  /\ conn'[c].status = "Charging" => MeterOf(c) \in metering'
                      /\ conn'[c].status \in {"SuspendedEV", "SuspendedEVSE", "Finishing"} =>
                            MeterOf(c) \notin metering'
    BY <1>0 DEF MeterFollowsStatus, MeterOf
  <2>1. CASE c \in S
    BY <2>1, <1>0 DEF Quiets
  <2>2. CASE c \notin S
    BY <2>2, <1>0 DEF Quiets, Calmer, MeterFollowsStatus
  <2>3. QED
    BY <2>1, <2>2
<1>9. ReportedIsCurrent'
  <2> SUFFICES ASSUME NEW c \in connectors, c \notin sessions'
               PROVE  reported'[c] = conn'[c].status
    BY <1>0 DEF ReportedIsCurrent
  <2>1. c \in Conn /\ (c \in S \/ reported[c] = conn[c].status)
    BY <1>0 DEF ReportedIsCurrent
  <2>2. QED
    BY <1>2, <2>1
<1>10. QED
  BY <1>1, <1>3, <1>4, <1>5, <1>6, <1>7, <1>8, <1>9

\* No session ends: the quieting of every connector is enough.
LEMMA IdleStep ==
    ASSUME IInv, UNCHANGED <<registry, sessions, metering>>,
           conn' \in [Conn -> ConnectorType],
           \A c \in Conn : Calmer(conn[c], conn'[c]),
           \A c \in Conn \ connectors : conn'[c] = conn[c],
           Report(conn', {})
    PROVE  ConnPart' /\ reported' \in [Conn -> ConnectorState]
<1>1. \A c \in Conn : Quiets(c, {})
  BY DEF Quiets, Calmer
<1>2. TypeOK /\ ConnPart
  BY Parts
<1>3. reported' \in [Conn -> ConnectorState]
  BY <1>2, ReportCurrent
<1>4. QED
  BY <1>1, <1>2, <1>3, CalmStep

\* Waiting requests survive a step that adds no cable, session, reservation or
\* pending start and keeps deferred changes with their sessions.
LEMMA WaitStep ==
    ASSUME TypeOK, WaitPart,
           UNCHANGED connectors,
           reservations' \subseteq reservations,
           sessions' \subseteq sessions,
           \A c \in Conn : conn'[c].plugged => conn[c].plugged,
           \A c \in Conn : pendingStart'[c] \in {pendingStart[c], NoStart},
           \A c \in Conn : pendingAvailability'[c] # "none" => c \in sessions'
    PROVE  WaitPart'
<1>1. ReservationExclusive'
  BY DEF WaitPart, ReservationExclusive
<1>2. PendingStartWaits'
  BY DEF WaitPart, PendingStartWaits, TypeOK
<1>3. DeferredHasSession'
  BY DEF DeferredHasSession
<1>4. QED
  BY <1>1, <1>2, <1>3 DEF WaitPart

\* The state EndSessions leaves behind.
LEMMA EndOps ==
    ASSUME TypeOK, WaitPart, NEW S \in SUBSET sessions, EndSessions(S)
    PROVE  /\ sessions' = sessions \ S
           /\ metering' \subseteq metering
           /\ \A c \in S : MeterOf(c) \notin metering'
           /\ MultiEVSE => \A c \in Conn \ S : MeterOf(c) \in metering => MeterOf(c) \in metering'
           /\ sessions' \subseteq Conn
           /\ energy' \in [Conn -> 0..MaxEnergy]
           /\ metering' \subseteq Meter
           /\ pendingAvailability' \in [Conn -> AvailabilityTypes \cup {"none"}]
           /\ unclosed' \in [Conn -> 0..2]
           /\ \A c \in Conn : pendingAvailability'[c] # "none" => c \in sessions'
<1> USE DEF EndSessions, TypeOK
<1>1. sessions' = sessions \ S /\ sessions' \subseteq Conn
  OBVIOUS
<1>2. /\ metering' \subseteq metering /\ metering' \subseteq Meter
      /\ \A c \in S : MeterOf(c) \notin metering'
  BY DEF MetersAfter
<1>3. MultiEVSE => \A c \in Conn \ S : MeterOf(c) \in metering => MeterOf(c) \in metering'
  BY DEF MetersAfter, MeterOf
<1>4. energy' \in [Conn -> 0..MaxEnergy]
  BY ConstantsOK
<1>5. pendingAvailability' \in [Conn -> AvailabilityTypes \cup {"none"}]
  BY DEF DeferredAfter
<1>6. unclosed' \in [Conn -> 0..2]
  <2>1. \A c \in Conn : unclosed[c] \in 0..2
    OBVIOUS
  <2>2. QED
    BY <2>1
<1>7. ASSUME NEW c \in Conn, pendingAvailability'[c] # "none" PROVE c \in sessions'
  BY <1>7, <1>1 DEF DeferredAfter, WaitPart, DeferredHasSession
<1>8. QED
  BY <1>1, <1>2, <1>3, <1>4, <1>5, <1>6, <1>7

\* stopSessionLocked quiets the connector.
LEMMA StoppedQuiet ==
    ASSUME NEW c, NEW r, Sound(r)
    PROVE  /\ Sound(Stopped(c, r))
           /\ Stopped(c, r).plugged => r.plugged
           /\ Stopped(c, r).status \notin Energized
<1>1. Sound(StopCharging(r)) /\ StopCharging(r).plugged = r.plugged
      /\ StopCharging(r).status \notin Energized
  BY StopOps
<1>2. Calmer(StopCharging(r), Stopped(c, r))
  BY <1>1, AvailabilityCalm DEF Stopped
<1>3. QED
  BY <1>1, <1>2 DEF Calmer

\* Ending the sessions in S with every connector quieted preserves IInv.
LEMMA EndStep ==
    ASSUME IInv, NEW S \in SUBSET sessions, EndSessions(S),
           UNCHANGED <<registry, pendingStart>>,
           conn' \in [Conn -> ConnectorType],
           \A c \in Conn : Quiets(c, S),
           Report(conn', S),
           reservations' \subseteq reservations,
           ticking' \subseteq Conn
    PROVE  IInv'
<1>1. TypeOK /\ ConnPart /\ WaitPart
  BY Parts
<1>2. /\ sessions' = sessions \ S
      /\ metering' \subseteq metering
      /\ \A c \in S : MeterOf(c) \notin metering'
      /\ MultiEVSE => \A c \in Conn \ S : MeterOf(c) \in metering => MeterOf(c) \in metering'
      /\ \A c \in Conn : pendingAvailability'[c] # "none" => c \in sessions'
  BY <1>1, EndOps
<1>3. ConnPart'
  BY <1>1, <1>2, CalmStep DEF TypeOK
<1>4. TypeOK'
  <2>1. reported' \in [Conn -> ConnectorState]
    BY <1>1, ReportCurrent DEF TypeOK
  <2>2. /\ sessions' \subseteq Conn
        /\ energy' \in [Conn -> 0..MaxEnergy]
        /\ metering' \subseteq Meter
        /\ pendingAvailability' \in [Conn -> AvailabilityTypes \cup {"none"}]
        /\ unclosed' \in [Conn -> 0..2]
    BY <1>1, EndOps
  <2>3. QED
    BY <1>1, <2>1, <2>2 DEF TypeOK, registry
<1>5. \A c \in Conn : conn'[c].plugged => conn[c].plugged
  BY DEF Quiets
<1>6. WaitPart'
  BY <1>1, <1>2, <1>5, WaitStep DEF registry
<1>7. QED
  BY <1>3, <1>4, <1>6 DEF IInv, ConnPart, WaitPart

\* A step that quiets every connector but c, and on c keeps status, session and
\* meter in agreement, preserves ConnPart.
LEMMA FocusStep ==
    ASSUME TypeOK, ConnPart, NEW c \in connectors,
           UNCHANGED registry,
           \A d \in Conn : Sound(conn'[d]),
           \A d \in Conn \ {c} : Calmer(conn[d], conn'[d]),
           \A d \in Conn \ connectors : conn'[d] = conn[d] /\ reported'[d] = reported[d],
           sessions' \in {sessions, sessions \cup {c}},
           conn'[c].status \in Energized => c \in sessions',
           OneOutlet',
           metering' \subseteq metering \/ (c \in sessions' /\ metering' \subseteq metering \cup {MeterOf(c)}),
           MultiEVSE => \A d \in connectors \ {c} :
                           MeterOf(d) \in metering <=> MeterOf(d) \in metering',
           MultiEVSE => /\ conn'[c].status = "Charging" => MeterOf(c) \in metering'
                        /\ conn'[c].status \in {"SuspendedEV", "SuspendedEVSE", "Finishing"} =>
                              MeterOf(c) \notin metering',
           \A d \in Conn \ {c} : reported[d] = conn[d].status => reported'[d] = conn'[d].status,
           c \notin sessions' => reported'[c] = conn'[c].status
    PROVE  ConnPart'
<1> USE DEF ConnPart
<1>1. connectors' = connectors /\ nextConnectorID' = nextConnectorID /\ connectors \subseteq Conn
  BY DEF registry, TypeOK
<1>2. (\A d \in Conn : Sound(conn[d]))'
  OBVIOUS
<1>3. (\A d \in Conn \ connectors : conn[d] = NewConnector /\ reported[d] = "Available")'
  BY <1>1
<1>4. SessionsExist'
  BY <1>1 DEF SessionsExist
<1>5. EnergizedHasSession'
  <2> SUFFICES ASSUME NEW d \in connectors, conn'[d].status \in Energized
               PROVE  conn'[d].plugged /\ d \in sessions'
    BY <1>1 DEF EnergizedHasSession
  <2>1. conn'[d].plugged
    BY <1>1 DEF Sound
  <2>2. CASE d # c
    BY <2>1, <2>2, <1>1 DEF Calmer, EnergizedHasSession
  <2>3. QED
    BY <2>1, <2>2
<1>6. MeteringHasSession'
  BY <1>1 DEF MeteringHasSession
<1>7. MeterFollowsStatus'
  <2> SUFFICES ASSUME MultiEVSE, NEW d \in connectors
               PROVE  /\ conn'[d].status = "Charging" => MeterOf(d) \in metering'
                      /\ conn'[d].status \in {"SuspendedEV", "SuspendedEVSE", "Finishing"} =>
                            MeterOf(d) \notin metering'
    BY <1>1 DEF MeterFollowsStatus, MeterOf
  <2>1. CASE d # c
    BY <2>1, <1>1 DEF Calmer, MeterFollowsStatus
  <2>2. QED
    BY <2>1
<1>8. ReportedIsCurrent'
  BY <1>1 DEF ReportedIsCurrent
<1>9. QED
  BY <1>2, <1>3, <1>4, <1>5, <1>6, <1>7, <1>8

-----------------------------------------------------------------------------
(* Each operation preserves the invariant.                                 *)

\* A refused call preserves the invariant: all it changes is what has expired.
LEMMA RefusedCallStep ==
    ASSUME IInv, NEW X \in SUBSET reservations, RefusedCall(X) PROVE IInv'
<1> USE DEF RefusedCall
<1>1. TypeOK /\ WaitPart
  BY Parts
<1>2. ConnPart' /\ reported' \in [Conn -> ConnectorState]
  BY ExpiryCalm, IdleStep DEF sessionVars
<1>3. TypeOK'
  BY <1>1, <1>2, ExpiryCalm DEF TypeOK, registry, sessionVars
<1>4. WaitPart'
  BY <1>1, ExpiryCalm, WaitStep DEF Calmer, WaitPart, DeferredHasSession, sessionVars, registry
<1>5. QED
  BY <1>2, <1>3, <1>4 DEF IInv, ConnPart, WaitPart

\* AddConnector preserves it: the new connector has no cable and no session.
LEMMA AddConnectorStep == ASSUME IInv, AddConnector PROVE IInv'
<1> USE DEF AddConnector, IInv, sessionVars
<1>1. nextConnectorID \in Conn /\ nextConnectorID \notin connectors
  BY ConstantsOK DEF Conn, TypeOK, SessionsExist
<1>2. conn[nextConnectorID] = NewConnector /\ reported[nextConnectorID] = "Available"
  BY <1>1
<1>3. TypeOK'
  BY <1>1, ConstantsOK DEF TypeOK, Conn
<1>4. SessionsExist'
  BY <1>1, ConstantsOK DEF SessionsExist, TypeOK, Conn
<1>5. EnergizedHasSession' /\ OneOutlet' /\ ReportedIsCurrent'
  BY <1>2 DEF EnergizedHasSession, OneOutlet, ReportedIsCurrent, NewConnector
<1>6. MeteringHasSession' /\ ReservationExclusive' /\ DeferredHasSession'
  BY DEF MeteringHasSession, ReservationExclusive, DeferredHasSession
<1>7. MeterFollowsStatus'
  BY <1>2 DEF MeterFollowsStatus, NewConnector
<1>8. PendingStartWaits'
  BY <1>2 DEF PendingStartWaits, NewConnector
<1>9. QED
  BY <1>3, <1>4, <1>5, <1>6, <1>7, <1>8

\* RemoveConnector preserves it: its connector has no session.
LEMMA RemoveConnectorStep ==
    ASSUME IInv, NEW c \in Conn, RemoveConnector(c) PROVE IInv'
<1> USE DEF RemoveConnector, IInv, sessionVars, Removable
<1>1. NewConnector \in ConnectorType /\ Sound(NewConnector)
  BY DEF NewConnector, ConnectorType, Sound
<1>2. TypeOK'
  BY <1>1 DEF TypeOK
<1>3. (\A d \in Conn : Sound(conn[d]))'
  BY <1>1 DEF TypeOK
<1>4. (\A d \in Conn \ connectors : conn[d] = NewConnector /\ reported[d] = "Available")'
  BY DEF TypeOK
<1>5. SessionsExist' /\ EnergizedHasSession' /\ OneOutlet'
  BY DEF SessionsExist, EnergizedHasSession, OneOutlet, TypeOK
<1>6. MeteringHasSession' /\ ReservationExclusive' /\ DeferredHasSession'
  BY DEF MeteringHasSession, ReservationExclusive, DeferredHasSession
<1>7. MeterFollowsStatus' /\ PendingStartWaits' /\ ReportedIsCurrent'
  BY DEF MeterFollowsStatus, PendingStartWaits, ReportedIsCurrent, TypeOK
<1>8. QED
  BY <1>2, <1>3, <1>4, <1>5, <1>6, <1>7

\* UnplugConnector preserves it, whether the session ends with the cable or not.
LEMMA UnplugStep ==
    ASSUME IInv, NEW c \in Conn, NEW stop \in BOOLEAN, NEW unlock \in BOOLEAN,
           UnplugConnector(c, stop, unlock)
    PROVE  IInv'
<1> DEFINE ended == {c} \cap (IF stop THEN sessions ELSE {})
           done  == IF ended # {} THEN Stopped(c, conn[c]) ELSE conn[c]
           free  == IF unlock THEN UnlockConnector(done) ELSE done
<1>1. /\ conn' = [conn EXCEPT ![c] = Unplug(free)]
      /\ EndSessions(ended)
      /\ Report(conn', ended)
      /\ c \in connectors
      /\ UNCHANGED <<registry, pendingStart, reservations, ticking>>
  BY DEF UnplugConnector
<1>2. TypeOK /\ \A d \in Conn : Sound(conn[d])
  BY DEF IInv
<1>3. Sound(done)
  BY <1>2, StoppedQuiet
<1>4. Sound(free)
  <2> HIDE DEF done
  <2>1. QED
    BY <1>3, CalmOps DEF Calmer
<1>5. Sound(Unplug(free)) /\ ~Unplug(free).plugged /\ Unplug(free).status \notin Energized \cup {"Finishing"}
  <2> HIDE DEF free
  <2>1. Sound(Unplug(free)) /\ ~Unplug(free).plugged
    BY <1>4, CalmOps DEF Calmer
  <2>2. QED
    BY <2>1 DEF Sound
<1>6. conn' \in [Conn -> ConnectorType] /\ conn'[c] = Unplug(free)
      /\ \A d \in Conn \ {c} : conn'[d] = conn[d]
  BY <1>1, <1>2, <1>5 DEF TypeOK, Sound
<1>7. \A d \in Conn : Quiets(d, ended)
  <2> SUFFICES ASSUME NEW d \in Conn PROVE Quiets(d, ended)
    OBVIOUS
  <2> HIDE DEF free
  <2>1. CASE d = c
    BY <2>1, <1>1, <1>5, <1>6 DEF Quiets, Calmer
  <2>2. CASE d # c
    BY <2>2, <1>2, <1>6, CalmerRefl DEF Quiets
  <2>3. QED
    BY <2>1, <2>2
<1>8. ended \in SUBSET sessions /\ reservations' \subseteq reservations /\ ticking' \subseteq Conn
  BY <1>1, <1>2 DEF TypeOK
<1>9. QED
  <2> HIDE DEF ended, free
  <2>1. QED
    BY <1>1, <1>6, <1>7, <1>8, EndStep

\* Stopping any set of sessions preserves it.
LEMMA StopSessionsStep ==
    ASSUME IInv, NEW S \in SUBSET Conn, StopSessions(S) PROVE IInv'
<1> USE DEF StopSessions
<1>1. TypeOK /\ \A d \in Conn : Sound(conn[d])
  BY DEF IInv
<1>2. ASSUME NEW d \in Conn
      PROVE  conn'[d] \in ConnectorType /\ Quiets(d, S)
  <2>1. CASE d \in S
    <3>1. conn'[d] = Stopped(d, conn[d])
      BY <2>1
    <3>2. d \in connectors
      BY <2>1 DEF IInv, SessionsExist
    <3>3. QED
      BY <1>1, <2>1, <3>1, <3>2, StoppedQuiet DEF Quiets, Sound
  <2>2. CASE d \notin S
    BY <2>2, <1>1, CalmerRefl DEF Quiets, Sound
  <2>3. QED
    BY <2>1, <2>2
<1>3. conn' \in [Conn -> ConnectorType]
  BY <1>2
<1>4. S \in SUBSET sessions /\ reservations' \subseteq reservations /\ ticking' \subseteq Conn
  BY <1>1 DEF TypeOK
<1>5. QED
  BY <1>2, <1>3, <1>4, EndStep

\* FaultConnector preserves it: the session ends, the cable stays.
LEMMA FaultStep == ASSUME IInv, NEW c \in Conn, FaultConnector(c) PROVE IInv'
<1> DEFINE ended == {c} \cap sessions
           done  == IF ended # {} THEN Stopped(c, conn[c]) ELSE conn[c]
<1>1. /\ conn' = [conn EXCEPT ![c] = SetFaulted(done)]
      /\ EndSessions(ended)
      /\ Report(conn', ended)
      /\ c \in connectors
      /\ UNCHANGED <<registry, pendingStart, reservations, ticking>>
  BY DEF FaultConnector
<1>2. TypeOK /\ \A d \in Conn : Sound(conn[d])
  BY DEF IInv
<1>3. Sound(done) /\ (done.plugged => conn[c].plugged)
  BY <1>2, StoppedQuiet
<1>4. /\ Sound(SetFaulted(done))
      /\ SetFaulted(done).plugged => conn[c].plugged
      /\ SetFaulted(done).status = "Faulted"
  <2> HIDE DEF done
  <2>1. Sound(SetFaulted(done)) /\ (SetFaulted(done).plugged => conn[c].plugged)
    BY <1>3, CalmOps DEF Calmer
  <2>2. SetFaulted(done).status = "Faulted"
    BY <1>3 DEF SetFaulted, Sound, ConnectorType
  <2>3. QED
    BY <2>1, <2>2
<1>5. conn' \in [Conn -> ConnectorType] /\ conn'[c] = SetFaulted(done)
      /\ \A d \in Conn \ {c} : conn'[d] = conn[d]
  BY <1>1, <1>2, <1>4 DEF TypeOK, Sound
<1>6. \A d \in Conn : Quiets(d, ended)
  <2> SUFFICES ASSUME NEW d \in Conn PROVE Quiets(d, ended)
    OBVIOUS
  <2> HIDE DEF done
  <2>1. CASE d = c
    BY <2>1, <1>1, <1>4, <1>5 DEF Quiets, Calmer
  <2>2. CASE d # c
    BY <2>2, <1>2, <1>5, CalmerRefl DEF Quiets
  <2>3. QED
    BY <2>1, <2>2
<1>7. ended \in SUBSET sessions /\ reservations' \subseteq reservations /\ ticking' \subseteq Conn
  BY <1>1, <1>2 DEF TypeOK
<1>8. QED
  <2> HIDE DEF ended, done
  <2>1. QED
    BY <1>1, <1>5, <1>6, <1>7, EndStep

\* A remote start without a cable is stored only for a connector without one.
LEMMA StoreRemoteStartStep ==
    ASSUME IInv, NEW c \in Conn, NEW tag \in IdTag, NEW X \in SUBSET reservations,
           StoreRemoteStart(c, tag, X)
    PROVE  IInv'
<1> USE DEF StoreRemoteStart
<1>1. TypeOK /\ WaitPart
  BY Parts
<1>2. ConnPart' /\ reported' \in [Conn -> ConnectorState]
  BY ExpiryCalm, IdleStep DEF sessionVars
<1>3. TypeOK'
  BY <1>1, <1>2, ExpiryCalm DEF TypeOK, registry, sessionVars
<1>4. PendingStartWaits'
  <2>1. connectors' = connectors /\ connectors \subseteq Conn /\ ~conn[c].plugged
    BY <1>1 DEF registry, TypeOK, CableMissing
  <2>2. \A d \in Conn : conn'[d].plugged => conn[d].plugged
    BY ExpiryCalm DEF Calmer
  <2>3. \A d \in Conn : pendingStart'[d] # NoStart => d = c \/ pendingStart[d] # NoStart
    BY <1>1 DEF TypeOK
  <2>4. QED
    BY <1>1, <2>1, <2>2, <2>3 DEF PendingStartWaits, WaitPart
<1>5. ReservationExclusive' /\ DeferredHasSession'
  BY <1>1 DEF WaitPart, ReservationExclusive, DeferredHasSession, sessionVars
<1>6. QED
  BY <1>2, <1>3, <1>4, <1>5 DEF IInv, ConnPart

\* SetConnectorAvailability preserves it: it is deferred while a session runs.
LEMMA AvailabilityStep ==
    ASSUME IInv, NEW c \in Conn, NEW type \in AvailabilityTypes,
           NEW X \in SUBSET reservations, SetConnectorAvailability(c, type, X)
    PROVE  IInv'
<1> USE DEF SetConnectorAvailability
<1>1. TypeOK /\ WaitPart
  BY Parts
<1>2. conn' \in [Conn -> ConnectorType] /\ \A d \in Conn :
         /\ Calmer(conn[d], conn'[d])
         /\ d \notin connectors => conn'[d] = conn[d]
  <2>1. CASE c \in sessions
    BY <2>1, ExpiryCalm
  <2>2. CASE c \notin sessions
    <3>1. Calmer(AfterExpiry(X)[c], ApplyAvailability(AfterExpiry(X)[c], type))
      BY ExpiryCalm, AvailabilityCalm DEF Calmer
    <3>2. Calmer(conn[c], ApplyAvailability(AfterExpiry(X)[c], type))
      BY <3>1, ExpiryCalm, CalmerTrans
    <3>3. conn' = [AfterExpiry(X) EXCEPT ![c] = ApplyAvailability(AfterExpiry(X)[c], type)]
      BY <2>2
    <3>4. AfterExpiry(X) \in [Conn -> ConnectorType]
      BY ExpiryCalm
    <3>5. QED
      BY <3>2, <3>3, <3>4, ExpiryCalm DEF Calmer, Sound
  <2>3. QED
    BY <2>1, <2>2
<1>3. ConnPart' /\ reported' \in [Conn -> ConnectorState]
  BY <1>2, IdleStep DEF sessionVars
<1>4. TypeOK'
  BY <1>1, <1>2, <1>3 DEF TypeOK, registry, sessionVars
<1>5. WaitPart'
  <2>1. \A d \in Conn : pendingAvailability'[d] # "none" => d \in sessions'
    BY <1>1 DEF WaitPart, DeferredHasSession, sessionVars, TypeOK
  <2>2. QED
    BY <1>1, <1>2, <2>1, WaitStep DEF Calmer, sessionVars, registry
<1>6. QED
  BY <1>3, <1>4, <1>5 DEF IInv, ConnPart, WaitPart

\* ReserveConnector preserves it: it replaces the reservation with its id only
\* and takes a connector without a session.
LEMMA ReserveStep ==
    ASSUME IInv, NEW r \in Reservation, NEW X \in SUBSET reservations,
           ReserveConnector(r, X)
    PROVE  IInv'
<1> USE DEF ReserveConnector
<1> DEFINE c == r.connector
<1>1. TypeOK /\ WaitPart /\ c \in Conn
  BY Parts DEF Reservation
<1>2. conn' \in [Conn -> ConnectorType] /\ \A d \in Conn :
         /\ Calmer(conn[d], conn'[d])
         /\ d \notin connectors => conn'[d] = conn[d]
  <2>1. Calmer(AfterExpiry(X)[c], SetReserved(AfterExpiry(X)[c]))
    BY <1>1, ExpiryCalm, CalmOps DEF Calmer
  <2>2. Calmer(conn[c], SetReserved(AfterExpiry(X)[c]))
    BY <1>1, <2>1, ExpiryCalm, CalmerTrans
  <2>3. conn' = [AfterExpiry(X) EXCEPT ![c] = SetReserved(AfterExpiry(X)[c])]
    OBVIOUS
  <2>4. QED
    BY <1>1, <2>2, <2>3, ExpiryCalm DEF Calmer, Sound
<1>3. ConnPart' /\ reported' \in [Conn -> ConnectorState]
  BY <1>2, IdleStep DEF sessionVars
<1>4. TypeOK'
  BY <1>1, <1>2, <1>3 DEF TypeOK, registry, sessionVars
<1>5. ReservationExclusive'
  BY <1>1 DEF WaitPart, ReservationExclusive, Reservable, sessionVars
<1>6. PendingStartWaits' /\ DeferredHasSession'
  BY <1>1, <1>2 DEF WaitPart, PendingStartWaits, DeferredHasSession, Calmer,
                    sessionVars, registry, TypeOK
<1>7. QED
  BY <1>3, <1>4, <1>5, <1>6 DEF IInv, ConnPart

\* CancelReservation preserves it.
LEMMA CancelReservationStep ==
    ASSUME IInv, NEW r \in reservations, CancelReservation(r) PROVE IInv'
<1> USE DEF CancelReservation
<1>1. TypeOK /\ WaitPart /\ {r} \in SUBSET reservations
  BY Parts
<1>2. ConnPart' /\ reported' \in [Conn -> ConnectorState]
  BY <1>1, ExpiryCalm, IdleStep DEF sessionVars
<1>3. TypeOK'
  BY <1>1, <1>2, ExpiryCalm DEF TypeOK, registry, sessionVars
<1>4. WaitPart'
  BY <1>1, ExpiryCalm, WaitStep DEF Calmer, WaitPart, DeferredHasSession, sessionVars, registry
<1>5. QED
  BY <1>2, <1>3, <1>4 DEF IInv, ConnPart, WaitPart

\* ClearFault preserves it: the status it returns to agrees with the cable.
LEMMA ClearFaultStep ==
    ASSUME IInv, NEW c \in Conn, ClearConnectorFault(c) PROVE IInv'
<1> USE DEF ClearConnectorFault
<1>1. TypeOK /\ WaitPart /\ \A d \in Conn : Sound(conn[d])
  BY Parts DEF IInv
<1>2. Calmer(conn[c], ClearFault(conn[c])) /\ Sound(ClearFault(conn[c]))
  BY <1>1, CalmOps DEF Calmer
<1>3. /\ Calmer(ClearFault(conn[c]), SetReserved(ClearFault(conn[c])))
      /\ Calmer(ClearFault(conn[c]), SetUnavailable(ClearFault(conn[c])))
  BY <1>2, CalmOps
<1>4. Calmer(conn[c], conn'[c])
  BY <1>1, <1>2, <1>3, CalmerTrans DEF TypeOK
<1>5. \A d \in Conn \ {c} : conn'[d] = conn[d] /\ Calmer(conn[d], conn'[d])
  BY <1>1, CalmerRefl DEF TypeOK
<1>6. conn' \in [Conn -> ConnectorType]
  <2>1. \A d \in Conn : conn'[d] \in ConnectorType
    BY <1>4, <1>5 DEF Calmer, Sound
  <2>2. QED
    BY <1>1, <2>1 DEF TypeOK
<1>7. ConnPart' /\ reported' \in [Conn -> ConnectorState]
  BY <1>4, <1>5, <1>6, IdleStep DEF sessionVars
<1>8. TypeOK'
  BY <1>1, <1>6, <1>7 DEF TypeOK, registry, sessionVars
<1>9. WaitPart'
  BY <1>1, <1>4, <1>5, WaitStep DEF Calmer, WaitPart, DeferredHasSession, sessionVars, registry
<1>10. QED
  BY <1>7, <1>8, <1>9 DEF IInv, ConnPart, WaitPart

\* The lock operations preserve it: they leave status and cable alone.
LEMMA SetLockStep ==
    ASSUME IInv, NEW c \in Conn, NEW lock \in BOOLEAN, SetLock(c, lock) PROVE IInv'
<1> USE DEF SetLock
<1>1. TypeOK /\ ConnPart /\ WaitPart
  BY Parts
<1>2. \A d \in Conn \ {c} : conn'[d] = conn[d]
  BY <1>1 DEF TypeOK
<1>3. Calmer(conn[c], conn'[c]) /\ conn'[c].status = conn[c].status
      /\ conn'[c].plugged = conn[c].plugged
  <2>1. conn'[c] = IF lock THEN LockConnector(conn[c]) ELSE UnlockConnector(conn[c])
    BY <1>1 DEF TypeOK
  <2>2. Calmer(conn[c], conn'[c])
    BY <1>1, <2>1, CalmOps DEF ConnPart
  <2>3. conn[c] \in ConnectorType
    BY <1>1 DEF TypeOK
  <2>4. QED
    BY <2>1, <2>2, <2>3 DEF LockConnector, UnlockConnector, ConnectorType
<1>4. conn' \in [Conn -> ConnectorType]
  BY <1>1, <1>2, <1>3 DEF TypeOK, Calmer, Sound
<1>5. \A d \in Conn : Sound(conn'[d]) /\ conn'[d].status = conn[d].status
                      /\ conn'[d].plugged = conn[d].plugged
  BY <1>1, <1>2, <1>3 DEF ConnPart, Calmer
<1>6. TypeOK'
  BY <1>1, <1>4 DEF TypeOK, registry, sessionVars
<1>7. ConnPart'
  BY <1>1, <1>2, <1>5 DEF ConnPart, SessionsExist, EnergizedHasSession, OneOutlet,
       MeteringHasSession, MeterFollowsStatus, ReportedIsCurrent, TypeOK, registry, sessionVars
<1>8. WaitPart'
  BY <1>1, <1>5, WaitStep DEF WaitPart, DeferredHasSession, sessionVars, registry
<1>9. QED
  BY <1>6, <1>7, <1>8 DEF IInv, ConnPart, WaitPart

\* The start of a tick preserves it: sessions with a refused idTag end, idle
\* connectors move on.
LEMMA TickBeginStep ==
    ASSUME IInv, NEW X \in SUBSET reservations, NEW timedOut \in SUBSET connectors,
           NEW invalid \in SUBSET sessions, TickBegin(X, timedOut, invalid)
    PROVE  IInv'
<1> DEFINE base == AfterExpiry(X)
           idle(d) == IF d \in timedOut
                      THEN [base[d] EXCEPT !.status =
                              IF base[d].plugged THEN "Preparing" ELSE base[d].persistent]
                      ELSE base[d]
<1> USE DEF TickBegin
<1>1. TypeOK /\ sessions \subseteq connectors /\ connectors \subseteq Conn
  BY DEF IInv, SessionsExist, TypeOK
<1>2. ASSUME NEW d \in Conn PROVE Calmer(conn[d], idle(d)) /\ (d \notin connectors => idle(d) = conn[d])
  <2>1. Calmer(conn[d], base[d]) /\ (d \notin connectors => base[d] = conn[d])
    BY ExpiryCalm
  <2>2. CASE d \in timedOut
    <3>1. base[d].status = "Finishing" /\ base[d].plugged
      BY <2>1, <2>2 DEF Calmer, Sound
    <3>2. QED
      BY <2>1, <2>2, <3>1 DEF Calmer, Sound, ConnectorType
  <2>3. CASE d \notin timedOut
    BY <2>1, <2>3
  <2>4. QED
    BY <2>2, <2>3
<1>3. ASSUME NEW d \in Conn PROVE conn'[d] \in ConnectorType /\ Quiets(d, invalid)
  <2>1. conn'[d] = IF d \in invalid THEN Stopped(d, idle(d)) ELSE idle(d)
    OBVIOUS
  <2> HIDE DEF idle
  <2>2. CASE d \in invalid
    BY <1>1, <1>2, <2>1, <2>2, StoppedQuiet DEF Quiets, Calmer, Sound
  <2>3. CASE d \notin invalid
    <3>1. conn'[d] = idle(d) /\ Calmer(conn[d], conn'[d]) /\ (d \notin connectors => conn'[d] = conn[d])
      BY <1>2, <2>1, <2>3
    <3>2. QED
      BY <2>3, <3>1 DEF Quiets, Calmer, Sound
  <2>4. QED
    BY <2>2, <2>3
<1>4. conn' \in [Conn -> ConnectorType]
  BY <1>3
<1>5. ticking' \subseteq Conn /\ reservations' \subseteq reservations
  BY <1>1 DEF EndSessions
<1>6. QED
  BY <1>3, <1>4, <1>5, EndStep

\* NormalizeAfterReset preserves it, whatever sessions and cables it finds.
LEMMA ResetStep == ASSUME IInv, NormalizeAfterReset PROVE IInv'
<1> USE DEF NormalizeAfterReset
<1>1. TypeOK /\ ConnPart /\ WaitPart
  BY Parts
<1>2. ASSUME NEW d \in Conn
      PROVE  /\ Calmer(conn[d], conn'[d])
             /\ d \notin connectors => conn'[d] = conn[d]
             /\ d \in connectors => conn'[d].status # "Charging"
  <2>1. Sound(conn[d]) /\ conn[d] \in ConnectorType
    BY <1>1 DEF ConnPart, TypeOK
  <2>2. CASE d \notin connectors \/ conn[d].status \in Inoperable \cup {"Reserved"}
    BY <2>1, <2>2, CalmerRefl
  <2>3. CASE d \in connectors /\ conn[d].status \notin Inoperable \cup {"Reserved"}
    <3>1. conn'[d] = [conn[d] EXCEPT !.status = IF conn[d].plugged THEN "Preparing" ELSE "Available"]
      BY <2>3
    <3>2. QED
      BY <2>1, <2>3, <3>1 DEF Calmer, Sound, ConnectorType
  <2>4. QED
    BY <2>2, <2>3
<1>3. conn' \in [Conn -> ConnectorType]
  <2>1. \A d \in Conn : conn'[d] \in ConnectorType
    BY <1>2 DEF Calmer, Sound
  <2>2. QED
    BY <2>1
<1>4. \A d \in Conn : Quiets(d, {})
  BY <1>2 DEF Quiets, Calmer
<1>5. metering' \subseteq metering
  BY DEF MetersAfter
<1>6. ConnPart'
  BY <1>1, <1>2, <1>3, <1>4, <1>5, CalmStep DEF TypeOK
<1>7. TypeOK'
  <2>1. reported' \in [Conn -> ConnectorState]
    BY <1>1, <1>3, ReportCurrent
  <2>2. QED
    BY <1>1, <1>3, <1>5, <2>1 DEF TypeOK, registry
<1>8. WaitPart'
  BY <1>1, <1>2, WaitStep DEF Calmer, registry
<1>9. QED
  BY <1>6, <1>7, <1>8 DEF IInv, ConnPart, WaitPart

\* What FocusStep asks of every connector but c, when c alone changes.
LEMMA OnlyOne ==
    ASSUME IInv, NEW c \in connectors, NEW r, Sound(r), NEW S \in SUBSET {c},
           UNCHANGED registry, conn' = [conn EXCEPT ![c] = r], Report(conn', S),
           r.plugged => conn[c].plugged
    PROVE  /\ conn' \in [Conn -> ConnectorType] /\ conn'[c] = r
           /\ reported' \in [Conn -> ConnectorState]
           /\ \A d \in Conn : Sound(conn'[d]) /\ (conn'[d].plugged => conn[d].plugged)
           /\ \A d \in Conn \ {c} : conn'[d] = conn[d] /\ Calmer(conn[d], conn'[d])
                                    /\ reported'[d] = reported[d]
           /\ OneOutlet'
           /\ reported[c] = conn[c].status => reported'[c] = r.status
<1>1. TypeOK /\ c \in Conn /\ \A d \in Conn : Sound(conn[d])
  BY DEF IInv, TypeOK
<1>2. conn' \in [Conn -> ConnectorType] /\ conn'[c] = r
  BY <1>1 DEF TypeOK, Sound
<1>3. \A d \in Conn \ {c} : conn'[d] = conn[d] /\ Calmer(conn[d], conn'[d])
  BY <1>1, CalmerRefl DEF TypeOK
<1>4. \A d \in Conn : Sound(conn'[d]) /\ (conn'[d].plugged => conn[d].plugged)
  BY <1>1, <1>2, <1>3
<1>5. /\ reported' \in [Conn -> ConnectorState]
      /\ \A d \in Conn :
            /\ reported[d] = conn[d].status => reported'[d] = conn'[d].status
            /\ d \notin S /\ conn'[d] = conn[d] => reported'[d] = reported[d]
  BY <1>1, <1>2, ReportCurrent
<1>6. OneOutlet'
  BY <1>1, <1>4 DEF IInv, OneOutlet, registry, TypeOK
<1>7. QED
  BY <1>1, <1>2, <1>3, <1>4, <1>5, <1>6

\* Suspend preserves it: the meter stops with the status.
LEMMA SuspendStep == ASSUME IInv, NEW c \in Conn, Suspend(c) PROVE IInv'
<1> USE DEF Suspend
<1>1. TypeOK /\ ConnPart /\ WaitPart /\ c \in connectors /\ c \in sessions
  BY Parts DEF ConnPart, EnergizedHasSession
<1> DEFINE r == SuspendEV(conn[c])
<1>2. Sound(r) /\ r.plugged = conn[c].plugged /\ r.status = "SuspendedEV"
  BY <1>1, ChargingOps DEF ConnPart, SuspendEV
<1>3. conn' = [conn EXCEPT ![c] = r] /\ {} \subseteq {c}
  OBVIOUS
<1> HIDE DEF r
<1>4. /\ conn' \in [Conn -> ConnectorType] /\ conn'[c] = r
      /\ reported' \in [Conn -> ConnectorState]
      /\ \A d \in Conn : Sound(conn'[d]) /\ (conn'[d].plugged => conn[d].plugged)
      /\ \A d \in Conn \ {c} : conn'[d] = conn[d] /\ Calmer(conn[d], conn'[d])
                               /\ reported'[d] = reported[d]
      /\ OneOutlet'
  BY <1>1, <1>2, <1>3, OnlyOne
<1>5. ConnPart'
  BY <1>1, <1>2, <1>4, FocusStep DEF TypeOK, MeterOf
<1>6. TypeOK'
  BY <1>1, <1>4 DEF TypeOK, registry
<1>7. WaitPart'
  BY <1>1, <1>4, WaitStep DEF WaitPart, DeferredHasSession, registry
<1>8. QED
  BY <1>5, <1>6, <1>7 DEF IInv, ConnPart, WaitPart

\* Resume preserves it: the meter starts with the status.
LEMMA ResumeStep == ASSUME IInv, NEW c \in Conn, Resume(c) PROVE IInv'
<1> USE DEF Resume
<1>1. TypeOK /\ ConnPart /\ WaitPart /\ c \in connectors /\ c \in sessions
  BY Parts DEF ConnPart, EnergizedHasSession
<1> DEFINE r == ResumeCharging(conn[c])
<1>2. Sound(r) /\ r.plugged = conn[c].plugged /\ r.status = "Charging"
  BY <1>1, ChargingOps DEF ConnPart, ResumeCharging
<1>3. conn' = [conn EXCEPT ![c] = r] /\ {} \subseteq {c}
  OBVIOUS
<1> HIDE DEF r
<1>4. /\ conn' \in [Conn -> ConnectorType] /\ conn'[c] = r
      /\ reported' \in [Conn -> ConnectorState]
      /\ \A d \in Conn : Sound(conn'[d]) /\ (conn'[d].plugged => conn[d].plugged)
      /\ \A d \in Conn \ {c} : conn'[d] = conn[d] /\ Calmer(conn[d], conn'[d])
                               /\ reported'[d] = reported[d]
      /\ OneOutlet'
  BY <1>1, <1>2, <1>3, OnlyOne
<1>5. ConnPart'
  BY <1>1, <1>2, <1>4, FocusStep DEF TypeOK, MeterOf
<1>6. TypeOK'
  BY <1>1, <1>4 DEF TypeOK, registry, Meter, MeterOf
<1>7. WaitPart'
  BY <1>1, <1>4, WaitStep DEF WaitPart, DeferredHasSession, registry
<1>8. QED
  BY <1>5, <1>6, <1>7 DEF IInv, ConnPart, WaitPart

\* A tick that finds the limit at zero preserves it.
LEMMA ThrottleStep == ASSUME IInv, NEW c \in Conn, TickThrottle(c) PROVE IInv'
<1> USE DEF TickThrottle
<1>1. TypeOK /\ ConnPart /\ WaitPart /\ c \in connectors /\ c \in sessions
  BY Parts DEF ConnPart, EnergizedHasSession
<1> DEFINE r == SuspendEVSE(conn[c])
<1>2. Sound(r) /\ r.plugged = conn[c].plugged /\ r.status = "SuspendedEVSE"
  BY <1>1, ChargingOps DEF ConnPart, SuspendEVSE
<1>3. conn' = [conn EXCEPT ![c] = r]
  OBVIOUS
<1> HIDE DEF r
<1>4. /\ conn' \in [Conn -> ConnectorType] /\ conn'[c] = r
      /\ reported' \in [Conn -> ConnectorState]
      /\ \A d \in Conn : Sound(conn'[d]) /\ (conn'[d].plugged => conn[d].plugged)
      /\ \A d \in Conn \ {c} : conn'[d] = conn[d] /\ Calmer(conn[d], conn'[d])
                               /\ reported'[d] = reported[d]
      /\ OneOutlet'
  BY <1>1, <1>2, <1>3, OnlyOne
<1>5. ConnPart'
  BY <1>1, <1>2, <1>4, FocusStep DEF TypeOK, MeterOf
<1>6. TypeOK'
  BY <1>1, <1>4 DEF TypeOK, registry
<1>7. WaitPart'
  BY <1>1, <1>4, WaitStep DEF WaitPart, DeferredHasSession, registry
<1>8. QED
  BY <1>5, <1>6, <1>7 DEF IInv, ConnPart, WaitPart

\* The meter switches on only with the status Charging, off with Suspended.
LEMMA ChargeStep ==
    ASSUME IInv, NEW c \in Conn, NEW limited \in BOOLEAN, NEW delta \in Deltas,
           TickCharge(c, limited, delta)
    PROVE  IInv'
<1> DEFINE awake  == IF limited THEN conn[c]
                     ELSE Transition(conn[c], {"SuspendedEVSE"}, "Charging")
           resume == awake.status # conn[c].status
           flows  == MeterOf(c) \in metering \/ resume
           gain   == IF flows /\ ~limited THEN delta ELSE 0
           total  == IF energy[c] + gain < MaxEnergy THEN energy[c] + gain ELSE MaxEnergy
           full   == energy[c] < MaxEnergy /\ total = MaxEnergy
           r      == IF full THEN SuspendEV(awake) ELSE awake
<1>1. /\ c \in connectors
      /\ limited => conn[c].status # "Charging"
      /\ conn' = [conn EXCEPT ![c] = r]
      /\ energy' = [energy EXCEPT ![c] = total]
      /\ metering' = IF full THEN metering \ {MeterOf(c)}
                     ELSE IF resume THEN metering \cup {MeterOf(c)}
                     ELSE metering
      /\ ticking' = ticking \ {c}
      /\ Report(conn', IF full \/ resume THEN {c} ELSE {})
      /\ UNCHANGED <<registry, sessions, unclosed, pendingStart,
                     pendingAvailability, reservations>>
  BY DEF TickCharge
<1>2. TypeOK /\ ConnPart /\ WaitPart
  BY Parts
<1>3. /\ Sound(awake) /\ awake.plugged = conn[c].plugged
      /\ resume => conn[c].status = "SuspendedEVSE" /\ awake.status = "Charging"
      /\ ~limited => awake.status # "SuspendedEVSE"
  <2>1. Sound(conn[c])
    BY <1>2 DEF ConnPart
  <2>2. CASE limited
    BY <2>1, <2>2
  <2>3. CASE ~limited
    <3>1. /\ Sound(Transition(conn[c], {"SuspendedEVSE"}, "Charging"))
          /\ Transition(conn[c], {"SuspendedEVSE"}, "Charging").plugged = conn[c].plugged
          /\ Transition(conn[c], {"SuspendedEVSE"}, "Charging").status =
                IF conn[c].status \in {"SuspendedEVSE"} THEN "Charging" ELSE conn[c].status
      BY <2>1, ChargingOps
    <3>2. QED
      BY <2>3, <3>1
  <2>4. QED
    BY <2>2, <2>3
<1>4. resume => c \in sessions
  BY <1>1, <1>2, <1>3 DEF ConnPart, EnergizedHasSession
<1>5. energy[c] \in 0..MaxEnergy /\ MaxEnergy \in Nat /\ delta \in Nat
  BY <1>2, ConstantsOK DEF TypeOK
<1>6. total \in 0..MaxEnergy /\ (full => ~limited /\ flows)
  BY <1>5
<1> HIDE DEF total, gain
<1>7. /\ Sound(r) /\ r.plugged = conn[c].plugged
      /\ r.status = IF full /\ awake.status = "Charging" THEN "SuspendedEV" ELSE awake.status
  <2> HIDE DEF awake, full
  <2>1. /\ Sound(SuspendEV(awake)) /\ SuspendEV(awake).plugged = awake.plugged
        /\ SuspendEV(awake).status =
              IF awake.status \in {"Charging"} THEN "SuspendedEV" ELSE awake.status
    BY <1>3, ChargingOps DEF SuspendEV
  <2>2. QED
    BY <1>3, <2>1
<1> HIDE DEF r, full, awake
<1>8. /\ conn' \in [Conn -> ConnectorType] /\ conn'[c] = r
      /\ reported' \in [Conn -> ConnectorState]
      /\ \A d \in Conn : Sound(conn'[d]) /\ (conn'[d].plugged => conn[d].plugged)
      /\ \A d \in Conn \ {c} : conn'[d] = conn[d] /\ Calmer(conn[d], conn'[d])
                               /\ reported'[d] = reported[d]
      /\ OneOutlet'
      /\ reported[c] = conn[c].status => reported'[c] = r.status
  <2>1. (IF full \/ resume THEN {c} ELSE {}) \in SUBSET {c}
    OBVIOUS
  <2>2. QED
    BY <1>1, <1>7, <2>1, OnlyOne
<1>9. r.status \in Energized => c \in sessions
  BY <1>1, <1>2, <1>3, <1>4, <1>7 DEF ConnPart, EnergizedHasSession
<1>10. MultiEVSE => /\ r.status = "Charging" => MeterOf(c) \in metering'
                    /\ r.status \in {"SuspendedEV", "SuspendedEVSE", "Finishing"} =>
                          MeterOf(c) \notin metering'
  <2> SUFFICES ASSUME MultiEVSE
               PROVE  /\ r.status = "Charging" => MeterOf(c) \in metering'
                      /\ r.status \in {"SuspendedEV", "SuspendedEVSE", "Finishing"} =>
                            MeterOf(c) \notin metering'
    OBVIOUS
  <2>1. /\ conn[c].status = "Charging" => MeterOf(c) \in metering
        /\ conn[c].status \in {"SuspendedEV", "SuspendedEVSE", "Finishing"} =>
              MeterOf(c) \notin metering
    BY <1>1, <1>2 DEF ConnPart, MeterFollowsStatus
  <2>2. CASE full
    BY <1>1, <1>7, <2>2
  <2>3. CASE ~full /\ resume
    BY <1>1, <1>3, <1>7, <2>3
  <2>4. CASE ~full /\ ~resume
    BY <1>1, <1>7, <2>1, <2>4
  <2>5. QED
    BY <2>2, <2>3, <2>4
<1>11. /\ metering' \subseteq metering \/ (c \in sessions /\ metering' \subseteq metering \cup {MeterOf(c)})
       /\ MultiEVSE => \A d \in connectors \ {c} :
                          MeterOf(d) \in metering <=> MeterOf(d) \in metering'
  BY <1>1, <1>4 DEF MeterOf
<1>12. ConnPart'
  <2>1. c \notin sessions => reported'[c] = conn'[c].status
    BY <1>1, <1>2, <1>8 DEF ConnPart, ReportedIsCurrent
  <2>2. \A d \in Conn \ {c} : reported[d] = conn[d].status => reported'[d] = conn'[d].status
    BY <1>8
  <2>3. \A d \in Conn \ connectors : conn'[d] = conn[d] /\ reported'[d] = reported[d]
    BY <1>1, <1>8
  <2>4. QED
    BY <1>1, <1>2, <1>8, <1>9, <1>10, <1>11, <2>1, <2>2, <2>3, FocusStep
<1>13. TypeOK'
  <2>1. metering' \subseteq Meter
    BY <1>1, <1>2 DEF TypeOK, Meter, MeterOf
  <2>2. energy' \in [Conn -> 0..MaxEnergy]
    BY <1>1, <1>2, <1>6 DEF TypeOK
  <2>3. QED
    BY <1>1, <1>2, <1>8, <2>1, <2>2 DEF TypeOK, registry
<1>14. WaitPart'
  BY <1>1, <1>2, <1>8, WaitStep DEF WaitPart, DeferredHasSession, registry
<1>15. QED
  BY <1>12, <1>13, <1>14 DEF IInv, ConnPart, WaitPart

\* What startSessionLocked does to a connector that is not charging.
LEMMA ReadyOps ==
    ASSUME NEW c, NEW r, NEW R, Sound(r), r.status \notin Energized \cup {"Finishing"}
    PROVE  /\ Calmer(r, ReadyToStart(c, r, R))
           /\ Sound(StartCharging(ReadyToStart(c, r, R)))
           /\ StartCharging(ReadyToStart(c, r, R)).plugged => r.plugged
           /\ StartCharging(ReadyToStart(c, r, R)).status =
                 IF ReadyToStart(c, r, R).status = "Preparing" THEN "Charging"
                 ELSE ReadyToStart(c, r, R).status
           /\ ReadyToStart(c, r, R).status \notin Energized \cup {"Finishing"}
<1>1. Calmer(r, ReadyToStart(c, r, R))
  BY CalmOps, CalmerRefl DEF ReadyToStart
<1> DEFINE s == ReadyToStart(c, r, R)
<1>2. Sound(s) /\ (s.plugged => r.plugged) /\ s.status \notin Energized \cup {"Finishing"}
  BY <1>1 DEF Calmer
<1> HIDE DEF s
<1>3. /\ Sound(StartCharging(s)) /\ StartCharging(s).plugged = s.plugged
      /\ StartCharging(s).status = IF s.status \in {"Preparing"} THEN "Charging" ELSE s.status
  BY <1>2, ChargingOps DEF StartCharging
<1>4. QED
  BY <1>1, <1>2, <1>3 DEF s

\* StartSession preserves it: session, meter and status begin together, and the
\* reservation of the connector is used up.
LEMMA StartSessionStep ==
    ASSUME IInv, NEW c \in Conn, NEW tag \in IdTag, NEW X \in SUBSET reservations,
           StartSession(c, tag, X)
    PROVE  IInv'
<1> DEFINE left  == reservations \ X
           base  == AfterExpiry(X)
           ready == ReadyToStart(c, base[c], left)
           begun == ready.status = "Preparing"
           r     == StartCharging(ready)
<1>1. /\ c \in connectors
      /\ ~CableMissing(c)
      /\ base[c].status \in {"Available", "Preparing"}
      /\ conn' = [base EXCEPT ![c] = r]
      /\ reservations' = left \ ReservationsOf(c, left)
      /\ metering' = metering \cup {MeterOf(c)}
      /\ BeginSession(c, begun)
      /\ IF begun THEN Report(conn', {c}) ELSE Report(base, {})
      /\ UNCHANGED <<registry, pendingStart, pendingAvailability, ticking>>
  BY DEF StartSession, Startable
<1>2. TypeOK /\ ConnPart /\ WaitPart
  BY Parts
<1>3. base \in [Conn -> ConnectorType]
      /\ \A d \in Conn : Calmer(conn[d], base[d]) /\ (d \notin connectors => base[d] = conn[d])
  BY ExpiryCalm
<1> HIDE DEF base, left
<1>4. Sound(base[c]) /\ (base[c].plugged => conn[c].plugged)
      /\ base[c].status \notin Energized \cup {"Finishing"}
  BY <1>1, <1>3 DEF Calmer
<1>5. /\ Sound(r)
      /\ r.plugged => conn[c].plugged
      /\ r.status = IF begun THEN "Charging" ELSE ready.status
      /\ ready.status \notin Energized \cup {"Finishing"}
  BY <1>4, ReadyOps
<1> HIDE DEF ready, r
<1>6. /\ conn' \in [Conn -> ConnectorType] /\ conn'[c] = r
      /\ \A d \in Conn \ {c} : conn'[d] = base[d]
      /\ \A d \in Conn : Sound(conn'[d]) /\ (conn'[d].plugged => conn[d].plugged)
  <2>1. conn' \in [Conn -> ConnectorType] /\ conn'[c] = r
        /\ \A d \in Conn \ {c} : conn'[d] = base[d]
    BY <1>1, <1>3, <1>5 DEF Sound
  <2>2. QED
    BY <1>3, <1>5, <2>1 DEF Calmer
<1>7. /\ sessions' = sessions \cup {c}
      /\ energy' \in [Conn -> 0..MaxEnergy]
      /\ unclosed' \in [Conn -> 0..2]
  <2>1. energy' \in [Conn -> 0..MaxEnergy]
    BY <1>1, <1>2, ConstantsOK DEF BeginSession, TypeOK
  <2>2. unclosed' \in [Conn -> 0..2]
    <3>1. \A d \in Conn : unclosed[d] \in 0..2
      BY <1>2 DEF TypeOK
    <3>2. unclosed[c] < 2 => unclosed[c] + 1 \in 0..2
      BY <3>1
    <3>3. QED
      BY <1>1, <1>2, <3>1, <3>2, SMTT(20) DEF BeginSession, TypeOK
  <2>3. QED
    BY <1>1, <2>1, <2>2 DEF BeginSession
<1>8. /\ reported' \in [Conn -> ConnectorState]
      /\ \A d \in Conn \ {c} :
            /\ reported[d] = conn[d].status => reported'[d] = conn'[d].status
            /\ conn'[d] = conn[d] => reported'[d] = reported[d]
  <2>1. CASE begun
    <3>1. conn' \in [Conn -> ConnectorType] /\ {c} \in SUBSET Conn /\ Report(conn', {c}) /\ TypeOK
      BY <1>1, <1>2, <1>6, <2>1
    <3>2. /\ reported' \in [Conn -> ConnectorState]
          /\ \A d \in Conn :
                /\ reported[d] = conn[d].status => reported'[d] = conn'[d].status
                /\ d \notin {c} /\ conn'[d] = conn[d] => reported'[d] = reported[d]
      BY <3>1, ReportCurrent
    <3>3. QED
      BY <3>2
  <2>2. CASE ~begun
    <3>1. /\ reported' \in [Conn -> ConnectorState]
          /\ \A d \in Conn :
                /\ reported[d] = conn[d].status => reported'[d] = base[d].status
                /\ d \notin {} /\ base[d] = conn[d] => reported'[d] = reported[d]
      BY <1>1, <1>2, <1>3, <2>2, ReportCurrent
    <3>2. QED
      BY <1>6, <3>1
  <2>3. QED
    BY <2>1, <2>2
<1>9. ConnPart'
  <2>1. OneOutlet'
    BY <1>1, <1>2, <1>6 DEF ConnPart, OneOutlet, registry, TypeOK
  <2>2. \A d \in Conn \ connectors : conn'[d] = conn[d] /\ reported'[d] = reported[d]
    BY <1>1, <1>3, <1>6, <1>8
  <2>3. \A d \in Conn \ {c} : Calmer(conn[d], conn'[d])
    BY <1>3, <1>6
  <2>4. metering' \subseteq metering \cup {MeterOf(c)}
    BY <1>1
  <2>5. MultiEVSE => /\ r.status = "Charging" => MeterOf(c) \in metering'
                     /\ r.status \in {"SuspendedEV", "SuspendedEVSE", "Finishing"} =>
                           MeterOf(c) \notin metering'
    BY <1>1, <1>5
  <2>6. MultiEVSE => \A d \in connectors \ {c} :
                        MeterOf(d) \in metering <=> MeterOf(d) \in metering'
    BY <1>1 DEF MeterOf
  <2>7. c \in sessions'
    BY <1>7
  <2>8. QED
    BY <1>1, <1>2, <1>6, <1>7, <1>8, <2>1, <2>2, <2>3, <2>4, <2>5, <2>6, <2>7, FocusStep
<1>10. TypeOK'
  BY <1>1, <1>2, <1>6, <1>7, <1>8 DEF TypeOK, registry, left, Meter, MeterOf
<1>11. ReservationExclusive' /\ DeferredHasSession'
  BY <1>1, <1>2, <1>7 DEF WaitPart, ReservationExclusive, DeferredHasSession, left, ReservationsOf
<1>12. PendingStartWaits'
  BY <1>1, <1>2, <1>6 DEF WaitPart, PendingStartWaits, registry, TypeOK
<1>13. QED
  BY <1>9, <1>10, <1>11, <1>12 DEF IInv, ConnPart

\* PlugIn.  A pending start meets a connector that was idle before the call, so
\* startSessionLocked never interrupts a charging status.
LEMMA PlugInStep ==
    ASSUME IInv, NEW c \in Conn, NEW X \in SUBSET reservations, NEW inTime \in BOOLEAN,
           PlugInConnector(c, X, inTime)
    PROVE  IInv'
<1> DEFINE others == OtherCables(c)
           left   == reservations \ X
           base   == AfterExpiry(X)
           cable  == PlugIn(base[c])
           starts == /\ pendingStart[c] # NoStart
                     /\ inTime
                     /\ Admits(c, pendingStart[c], left)
           ready  == ReadyToStart(c, cable, left)
           begun  == ready.status = "Preparing"
           r      == StartCharging(ready)
           before == [d \in Conn |->
                        IF d = c THEN cable
                        ELSE IF d \in others THEN Unplug(base[d])
                        ELSE base[d]]
<1>1. /\ c \in connectors
      /\ pendingStart' = [pendingStart EXCEPT ![c] = NoStart]
      /\ \/ /\ starts
            /\ conn' = [before EXCEPT ![c] = r]
            /\ reservations' = left \ ReservationsOf(c, left)
            /\ metering' = MetersAfter(others) \cup {MeterOf(c)}
            /\ BeginSession(c, begun)
            /\ IF begun THEN Report(conn', {c}) ELSE Report(before, {})
         \/ /\ ~starts
            /\ conn' = before
            /\ reservations' = left
            /\ metering' = MetersAfter(others)
            /\ Report(conn', {})
            /\ UNCHANGED <<sessions, energy, unclosed>>
      /\ UNCHANGED <<registry, pendingAvailability, ticking>>
  BY DEF PlugInConnector
<1>2. TypeOK /\ ConnPart /\ WaitPart
  BY Parts
<1>3. base \in [Conn -> ConnectorType]
      /\ \A d \in Conn : Calmer(conn[d], base[d]) /\ (d \notin connectors => base[d] = conn[d])
  BY ExpiryCalm
<1>4. /\ others \subseteq connectors \ {c}
      /\ MultiEVSE => others = {}
      /\ ~MultiEVSE => \A d \in connectors \ {c} : conn[d].plugged => d \in others
  BY DEF OtherCables
<1> HIDE DEF base, others
<1>5. Sound(base[c]) /\ Sound(cable) /\ cable.status \in {base[c].status, "Preparing"}
  BY <1>3, PlugInOps DEF Calmer
<1> HIDE DEF cable
<1>6. ASSUME NEW d \in Conn \ {c}
      PROVE  /\ Calmer(conn[d], before[d])
             /\ d \in others => ~before[d].plugged
             /\ d \notin connectors => before[d] = conn[d]
  <2>1. Calmer(conn[d], base[d]) /\ Sound(base[d])
    BY <1>3 DEF Calmer
  <2>2. CASE d \in others
    BY <1>4, <2>1, <2>2, CalmOps, CalmerTrans
  <2>3. CASE d \notin others
    BY <1>3, <2>1, <2>3
  <2>4. QED
    BY <2>2, <2>3
<1>7. before \in [Conn -> ConnectorType] /\ before[c] = cable
  <2>1. \A d \in Conn : before[d] \in ConnectorType
    BY <1>5, <1>6 DEF Calmer, Sound
  <2>2. QED
    BY <2>1
<1> HIDE DEF before
<1>8. ~MultiEVSE => \A d \in connectors \ {c} : ~before[d].plugged
  BY <1>2, <1>4, <1>6 DEF Calmer, TypeOK
<1>9. /\ MetersAfter(others) \subseteq metering
      /\ MultiEVSE => MetersAfter(others) = metering
  BY <1>4 DEF MetersAfter
<1>10. \A d \in Conn : pendingStart'[d] # NoStart => d # c /\ pendingStart'[d] = pendingStart[d]
  BY <1>1, <1>2 DEF TypeOK
<1>11. CASE /\ ~starts
            /\ conn' = before
            /\ reservations' = left
            /\ metering' = MetersAfter(others)
            /\ Report(conn', {})
            /\ UNCHANGED <<sessions, energy, unclosed>>
  <2>1. \A d \in Conn : Sound(conn'[d])
    BY <1>5, <1>6, <1>7, <1>11 DEF Calmer
  <2>2. /\ reported' \in [Conn -> ConnectorState]
        /\ \A d \in Conn :
              /\ reported[d] = conn[d].status => reported'[d] = conn'[d].status
              /\ conn'[d] = conn[d] => reported'[d] = reported[d]
    BY <1>2, <1>7, <1>11, ReportCurrent
  <2>3. conn'[c].status \in Energized \cup {"Finishing"} => conn'[c].status = conn[c].status
    BY <1>3, <1>5, <1>7, <1>11 DEF Calmer
  <2>4. c \notin sessions' => reported'[c] = conn'[c].status
    BY <1>1, <1>2, <1>11, <2>2 DEF ConnPart, ReportedIsCurrent
  <2>5. OneOutlet'
    BY <1>1, <1>8, <1>11 DEF OneOutlet, registry
  <2>6. \A d \in Conn \ connectors : conn'[d] = conn[d] /\ reported'[d] = reported[d]
    BY <1>1, <1>6, <1>11, <2>2
  <2>7. \A d \in Conn \ {c} : Calmer(conn[d], conn'[d])
    BY <1>6, <1>11
  <2>8. MultiEVSE => /\ conn'[c].status = "Charging" => MeterOf(c) \in metering'
                     /\ conn'[c].status \in {"SuspendedEV", "SuspendedEVSE", "Finishing"} =>
                           MeterOf(c) \notin metering'
    BY <1>1, <1>2, <1>9, <1>11, <2>3 DEF ConnPart, MeterFollowsStatus
  <2>9. conn'[c].status \in Energized => c \in sessions'
    BY <1>1, <1>2, <1>11, <2>3 DEF ConnPart, EnergizedHasSession
  <2>10. ConnPart'
    BY <1>1, <1>2, <1>9, <1>11, <2>1, <2>2, <2>4, <2>5, <2>6, <2>7, <2>8, <2>9, FocusStep
  <2>11. TypeOK'
    BY <1>1, <1>2, <1>7, <1>9, <1>11, <2>2 DEF TypeOK, registry, left
  <2>12. PendingStartWaits'
    BY <1>1, <1>2, <1>10, <2>7 DEF WaitPart, PendingStartWaits, Calmer, registry, TypeOK
  <2>13. ReservationExclusive' /\ DeferredHasSession'
    BY <1>1, <1>2, <1>11 DEF WaitPart, ReservationExclusive, DeferredHasSession, left
  <2>14. QED
    BY <2>10, <2>11, <2>12, <2>13 DEF IInv, ConnPart
<1>12. CASE /\ starts
            /\ conn' = [before EXCEPT ![c] = r]
            /\ reservations' = left \ ReservationsOf(c, left)
            /\ metering' = MetersAfter(others) \cup {MeterOf(c)}
            /\ BeginSession(c, begun)
            /\ IF begun THEN Report(conn', {c}) ELSE Report(before, {})
  <2>1. conn[c].status \notin Energized \cup {"Finishing"}
    BY <1>1, <1>2, <1>12 DEF WaitPart, PendingStartWaits, ConnPart, Sound
  <2>2. cable.status \notin Energized \cup {"Finishing"}
    BY <1>3, <1>5, <2>1 DEF Calmer
  <2>3. /\ Sound(r)
        /\ r.status = IF begun THEN "Charging" ELSE ready.status
        /\ ready.status \notin Energized \cup {"Finishing"}
    BY <1>5, <2>2, ReadyOps
  <2> HIDE DEF ready, r, left, starts
  <2>4. /\ conn' \in [Conn -> ConnectorType] /\ conn'[c] = r
        /\ \A d \in Conn \ {c} : conn'[d] = before[d]
    BY <1>7, <1>12, <2>3 DEF Sound
  <2>5. \A d \in Conn : Sound(conn'[d])
    BY <1>6, <2>3, <2>4 DEF Calmer
  <2>6. /\ sessions' = sessions \cup {c}
        /\ energy' \in [Conn -> 0..MaxEnergy]
        /\ unclosed' \in [Conn -> 0..2]
    <3>1. energy' \in [Conn -> 0..MaxEnergy]
      BY <1>2, <1>12, ConstantsOK DEF BeginSession, TypeOK
    <3>2. unclosed' \in [Conn -> 0..2]
      <4>1. \A d \in Conn : unclosed[d] \in 0..2
        BY <1>2 DEF TypeOK
      <4>2. unclosed[c] < 2 => unclosed[c] + 1 \in 0..2
        BY <4>1
      <4>3. QED
        BY <1>2, <1>12, <4>1, <4>2 DEF BeginSession, TypeOK
    <3>3. QED
      BY <1>12, <3>1, <3>2 DEF BeginSession
  <2>7. /\ reported' \in [Conn -> ConnectorState]
        /\ \A d \in Conn \ {c} :
              /\ reported[d] = conn[d].status => reported'[d] = conn'[d].status
              /\ conn'[d] = conn[d] => reported'[d] = reported[d]
    <3>1. CASE begun
      BY <1>2, <1>12, <2>4, <3>1, ReportCurrent
    <3>2. CASE ~begun
      <4>1. /\ reported' \in [Conn -> ConnectorState]
            /\ \A d \in Conn :
                  /\ reported[d] = conn[d].status => reported'[d] = before[d].status
                  /\ d \notin {} /\ before[d] = conn[d] => reported'[d] = reported[d]
        BY <1>2, <1>7, <1>12, <3>2, ReportCurrent
      <4>2. QED
        BY <2>4, <4>1
    <3>3. QED
      BY <3>1, <3>2
  <2>8. OneOutlet'
    BY <1>1, <1>2, <1>8, <2>4 DEF OneOutlet, registry, TypeOK
  <2>9. \A d \in Conn \ connectors : conn'[d] = conn[d] /\ reported'[d] = reported[d]
    BY <1>1, <1>6, <2>4, <2>7
  <2>10. \A d \in Conn \ {c} : Calmer(conn[d], conn'[d])
    BY <1>6, <2>4
  <2>11. MultiEVSE => /\ r.status = "Charging" => MeterOf(c) \in metering'
                      /\ r.status \in {"SuspendedEV", "SuspendedEVSE", "Finishing"} =>
                            MeterOf(c) \notin metering'
    BY <1>12, <2>3
  <2>12. /\ metering' \subseteq metering \cup {MeterOf(c)}
         /\ MultiEVSE => \A d \in connectors \ {c} :
                            MeterOf(d) \in metering <=> MeterOf(d) \in metering'
    BY <1>9, <1>12 DEF MeterOf
  <2>13. c \in sessions'
    BY <2>6
  <2>14. ConnPart'
    BY <1>1, <1>2, <2>4, <2>5, <2>6, <2>7, <2>8, <2>9, <2>10, <2>11, <2>12, <2>13, FocusStep
  <2>15. TypeOK'
    <3>1. metering' \subseteq Meter
      BY <1>2, <2>12 DEF TypeOK, Meter, MeterOf
    <3>2. reservations' \subseteq Reservation /\ sessions' \subseteq Conn
      BY <1>2, <1>12, <2>6 DEF TypeOK, left
    <3>3. QED
      BY <1>1, <1>2, <2>4, <2>6, <2>7, <3>1, <3>2 DEF TypeOK, registry
  <2>16. PendingStartWaits'
    BY <1>1, <1>2, <1>10, <2>10 DEF WaitPart, PendingStartWaits, Calmer, registry, TypeOK
  <2>17. ReservationExclusive' /\ DeferredHasSession'
    BY <1>1, <1>2, <1>12, <2>6 DEF WaitPart, ReservationExclusive, DeferredHasSession, left, ReservationsOf
  <2>18. QED
    BY <2>14, <2>15, <2>16, <2>17 DEF IInv, ConnPart
<1>13. QED
  BY <1>1, <1>11, <1>12

-----------------------------------------------------------------------------
(* The theorems.                                                           *)

\* The invariant holds before the first call.
LEMMA InitIInv == Init => IInv
<1> SUFFICES ASSUME Init PROVE IInv
  OBVIOUS
<1> USE DEF Init
<1>1. NewConnector \in ConnectorType /\ Sound(NewConnector)
  BY DEF NewConnector, ConnectorType, Sound
<1>2. TypeOK
  BY <1>1, ConstantsOK DEF TypeOK
<1>3. QED
  BY <1>1, <1>2 DEF IInv, SessionsExist, EnergizedHasSession, OneOutlet, MeteringHasSession,
       MeterFollowsStatus, ReservationExclusive, PendingStartWaits, DeferredHasSession,
       ReportedIsCurrent

\* Every step preserves the invariant.
LEMMA NextIInv == IInv /\ [Next]_vars => IInv'
<1> SUFFICES ASSUME IInv, [Next]_vars PROVE IInv'
  OBVIOUS
<1>1. sessions \in SUBSET Conn /\ connectors \in SUBSET Conn /\ IdTag = Tags \cup {NoTag}
  BY DEF IInv, TypeOK, IdTag
<1>2. CASE UNCHANGED vars
  BY <1>2 DEF vars, IInv, TypeOK, SessionsExist, EnergizedHasSession, OneOutlet,
       MeteringHasSession, MeterFollowsStatus, ReservationExclusive, PendingStartWaits,
       DeferredHasSession, ReportedIsCurrent
<1>3. ASSUME NEW c \in Conn, ConnectorNext(c) PROVE IInv'
  BY <1>3, RemoveConnectorStep, UnplugStep, SuspendStep, ResumeStep, FaultStep,
     ClearFaultStep, SetLockStep, PlugInStep, StoreRemoteStartStep, StartSessionStep,
     AvailabilityStep, ConstantsOK DEF ConnectorNext
<1>4. ASSUME NEW c \in Conn, TickNext(c) PROVE IInv'
  BY <1>4, ThrottleStep, ChargeStep DEF TickNext
<1>5. ASSUME NEW c \in Conn, StopSessions({c}) PROVE IInv'
  BY <1>5, StopSessionsStep
<1>6. ASSUME StopSessions(sessions) PROVE IInv'
  BY <1>1, <1>6, StopSessionsStep
<1>7. ASSUME NEW X \in SUBSET reservations,
             \/ RefusedCall(X)
             \/ \E r \in Reservation : ReserveConnector(r, X)
             \/ \E timedOut \in SUBSET connectors, invalid \in SUBSET sessions :
                   TickBegin(X, timedOut, invalid)
      PROVE IInv'
  BY <1>7, RefusedCallStep, ReserveStep, TickBeginStep
<1>8. ASSUME NEW r \in reservations, CancelReservation(r) PROVE IInv'
  BY <1>8, CancelReservationStep
<1>9. QED
  BY <1>2, <1>3, <1>4, <1>5, <1>6, <1>7, <1>8, AddConnectorStep, ResetStep DEF Next

\* The engine's cross-checks hold in every reachable state: connectors agree
\* with their cables, sessions, meters, reservations and waiting requests
\* whatever the order of calls (engine.go, all exported operations).
THEOREM Invariant == Spec => []IInv
<1>1. QED
  BY InitIInv, NextIInv, PTL DEF Spec

\* Every variable keeps its type; in particular the energy of a session never
\* passes the battery's capacity.
THEOREM TypeCorrect == Spec => []TypeOK
<1>1. IInv => TypeOK
  BY DEF IInv
<1>2. QED
  BY <1>1, Invariant, PTL

\* Energy flows, and is shown to flow, only on behalf of a session.
THEOREM EnergyNeedsSession == Spec => [](EnergizedHasSession /\ MeteringHasSession)
<1>1. IInv => EnergizedHasSession /\ MeteringHasSession
  BY DEF IInv
<1>2. QED
  BY <1>1, Invariant, PTL

\* Between sessions the protocol side was told the connector's current status.
THEOREM NoSilentStatus == Spec => []ReportedIsCurrent
<1>1. IInv => ReportedIsCurrent
  BY DEF IInv
<1>2. QED
  BY <1>1, Invariant, PTL
=============================================================================
