----------------------------- MODULE Connector -----------------------------
(***************************************************************************)
(* One charging outlet: internal/engine/connector.go and the transition    *)
(* table of internal/engine/state.go.  A connector is a value; each method *)
(* of *Connector is an operator from the connector before the call to the  *)
(* connector after it.  Methods that return an error leave the connector   *)
(* as the operator returns it, so a caller that ignores the error sees the *)
(* same record.  Voltage, current, phase, the displayed idTag, the fault   *)
(* code and the stop time are data no property here distinguishes.         *)
(*                                                                         *)
(* Operators named Bug... , here and in the other modules, are seeded      *)
(* defects: each stands in for the definition that follows it when a       *)
(* property is tested for being able to fail.  Nothing else uses them.     *)
(***************************************************************************)

\* PersistentStatus: what the connector shows when no cable is attached.
PersistentState == {"Available", "Reserved", "Unavailable", "Faulted"}

\* The three states in which a transaction holds the outlet.
Energized == {"Charging", "SuspendedEV", "SuspendedEVSE"}

ConnectorState == PersistentState \cup Energized \cup {"Preparing", "Finishing"}

\* SetUnavailable and SetReserved do nothing in these states.
Inoperable == {"Unavailable", "Faulted"}

ConnectorType ==
    [status: ConnectorState, persistent: PersistentState, plugged: BOOLEAN,
     locked: BOOLEAN, preFault: PersistentState \cup {"none"}]

NewConnector ==
    [status |-> "Available", persistent |-> "Available", plugged |-> FALSE,
     locked |-> FALSE, preFault |-> "none"]

\* ApplyTransition: from the states of "from" to "to", otherwise an error that
\* leaves the status alone.
Transition(c, from, to) ==
    IF c.status \in from THEN [c EXCEPT !.status = to] ELSE c

PlugIn(c) ==
    IF c.locked THEN c
    ELSE Transition([c EXCEPT !.plugged = TRUE], {"Available", "Reserved"}, "Preparing")

BugUnplug(c) ==
    [c EXCEPT !.plugged = FALSE, !.status = "Available", !.persistent = "Available"]
Unplug(c) == [c EXCEPT !.plugged = FALSE, !.status = c.persistent]

StartCharging(c)  == Transition(c, {"Preparing"}, "Charging")
StopCharging(c)   == Transition(c, Energized, "Finishing")
SuspendEV(c)      == Transition(c, {"Charging"}, "SuspendedEV")
SuspendEVSE(c)    == Transition(c, {"Charging"}, "SuspendedEVSE")
ResumeCharging(c) == Transition(c, {"SuspendedEV", "SuspendedEVSE"}, "Charging")

\* The persistent status becomes p, and shows unless a cable is attached.
Settle(c, p) ==
    [c EXCEPT !.persistent = p, !.status = IF c.plugged THEN "Preparing" ELSE p]

SetUnavailable(c) ==
    IF c.status \in Inoperable THEN c
    ELSE [c EXCEPT !.persistent = "Unavailable", !.status = "Unavailable"]

SetReserved(c) == IF c.status \in Inoperable THEN c ELSE Settle(c, "Reserved")

SetOperative(c) == IF c.status = "Faulted" THEN c ELSE Settle(c, "Available")

ClearReservation(c) == SetOperative(c)

SetFaulted(c) ==
    [c EXCEPT !.preFault = c.persistent, !.persistent = "Faulted", !.status = "Faulted"]

BugClearFaultUnguarded(c) == Settle(c, c.preFault)
ClearFault(c) == IF c.status # "Faulted" THEN c ELSE Settle(c, c.preFault)

LockConnector(c)   == [c EXCEPT !.locked = TRUE]
UnlockConnector(c) == [c EXCEPT !.locked = FALSE]

\* The deferred or immediate change of availability; an unknown type is
\* rejected without effect.
ApplyAvailability(c, type) ==
    IF type = "Inoperative" THEN SetUnavailable(c)
    ELSE IF type = "Operative" THEN SetOperative(c)
    ELSE c
=============================================================================
