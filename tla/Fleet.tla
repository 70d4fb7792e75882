-------------------------------- MODULE Fleet --------------------------------
(***************************************************************************)
(* One station of the fleet: FleetManager                                  *)
(* (cmd/chargeghost/fleet_manager.go) builds, starts, stops, replaces and  *)
(* removes the StationRuntimes (cmd/chargeghost/station_runtime.go) of a   *)
(* station while requests arrive on several goroutines ("Callers").        *)
(*                                                                         *)
(* The manager's lock fm.mu is held for short sections, each one step      *)
(* here.  The lock of a ManagedStation (opMu) is held over a whole stop    *)
(* and start, which may take seconds: an operation in "Holding" has it.  A *)
(* ManagedStation outlives its removal from fm.stations in the operations  *)
(* that looked it up before.  Stations do not share either lock across     *)
(* steps nor a runtime, so one station id shows everything; the other      *)
(* stations, the default id, passwords, the operation history and          *)
(* broadcasts are left out.                                                *)
(***************************************************************************)
EXTENDS Integers, FiniteSets

CONSTANTS
    Callers,       \* goroutines that serve requests
    MaxOperations  \* bound: requests served

ASSUME FleetAssumption == MaxOperations \in Nat

\* A request makes at most one ManagedStation and builds at most one runtime.
Managed == 1..(MaxOperations + 1)
Runtime == 1..MaxOperations

VARIABLES
    inConfig,    \* the configuration in memory has the station
    enabled,     \* ... and its enabled flag
    registered,  \* the ManagedStation in fm.stations, or 0
    runtimeOf,   \* Runtime of each ManagedStation, or 0
    enabledFor,  \* Config.Enabled of each ManagedStation
    managed,     \* ManagedStations made so far
    state,       \* lifecycleState of each runtime
    phase,       \* its goroutines: none, built (not started), live, cancelled, done
    failed,      \* runtimes whose bridge goroutine reported a failure
    op,          \* the operation of each caller
    operations,
    astray       \* history: runtimes that an operation let go of while they ran

config == <<inConfig, enabled>>
stations == <<registered, runtimeOf, enabledFor, managed>>
runtimes == <<state, phase, failed>>
vars == <<config, stations, runtimes, op, operations, astray>>

Idle == [kind |-> "none", pc |-> "idle", ms |-> 0]

\* NewFleetManager, with the station in the configuration file.
Init ==
    /\ inConfig = TRUE /\ enabled \in BOOLEAN
    /\ registered = 1 /\ managed = 1
    /\ runtimeOf = [m \in Managed |-> 0]
    /\ enabledFor = [m \in Managed |-> m = 1 /\ enabled]
    /\ state = [r \in Runtime |-> "Configured"]
    /\ phase = [r \in Runtime |-> "none"]
    /\ failed = {}
    /\ op = [t \in Callers |-> Idle]
    /\ operations = 0
    /\ astray = {}

-----------------------------------------------------------------------------
(* Helpers.                                                                *)

Live == {"live", "cancelled"}

\* Where an operation holds the opMu of its ManagedStation.
Holding == {"stop", "mark", "drain", "lookup", "assign", "launch", "running"}
Locked(m) == \E t \in Callers : op[t].ms = m /\ op[t].pc \in Holding

\* The runtime the operation of t works on, or 0.
Target(t) == runtimeOf[op[t].ms]
TargetIn(t, states) == Target(t) # 0 /\ state[Target(t)] \in states

Begins(t) ==
    /\ op[t] = Idle
    /\ operations < MaxOperations
    /\ operations' = operations + 1

\* The operation of t goes on to pc with ManagedStation m, or is over.
Goto(t, kind, pc, m) == op' = [op EXCEPT ![t] = [kind |-> kind, pc |-> pc, ms |-> m]]
Continue(t, pc) == op' = [op EXCEPT ![t].pc = pc]
Return(t) == op' = [op EXCEPT ![t] = Idle]

\* fm.stations[id], made when there is none.
Make(on) ==
    /\ managed' = managed + 1
    /\ registered' = managed'
    /\ enabledFor' = [enabledFor EXCEPT ![managed'] = on]

\* Runtimes of ManagedStation m that an operation lets go of while they run.
Dropped(m) == {r \in Runtime : m # 0 /\ r = runtimeOf[m] /\ phase[r] \in Live \cup {"built"}}

-----------------------------------------------------------------------------
(* Requests, up to the wait for opMu.  A request that is refused without   *)
(* an effect is not a step.  "saves": the configuration file was written.  *)

\* StopStation; Shutdown does the same for every station.
StopStation(t) ==
    /\ Begins(t)
    /\ registered # 0
    /\ Goto(t, "stop", "lock", registered)
    /\ UNCHANGED <<config, stations, runtimes, astray>>

StartStation(t) ==
    /\ Begins(t)
    /\ registered # 0 /\ enabledFor[registered]
    /\ Goto(t, "start", "lock", registered)
    /\ UNCHANGED <<config, stations, runtimes, astray>>

RestartStation(t) ==
    /\ Begins(t)
    /\ registered # 0
    /\ Goto(t, "replace", "lock", registered)
    /\ UNCHANGED <<config, stations, runtimes, astray>>

EnableStation(t, saves) ==
    /\ Begins(t)
    /\ inConfig /\ ~enabled
    /\ enabled' = TRUE
    /\ IF saves THEN Goto(t, "replace", "find", 0) ELSE UNCHANGED op
    /\ IF saves /\ registered = 0 THEN Make(FALSE)
       ELSE UNCHANGED <<managed, registered, enabledFor>>
    /\ UNCHANGED <<inConfig, runtimeOf, runtimes, astray>>

DisableStation(t, saves) ==
    /\ Begins(t)
    /\ inConfig
    /\ enabled' = FALSE
    /\ IF saves /\ registered # 0 THEN Goto(t, "disable", "lock", registered) ELSE UNCHANGED op
    /\ UNCHANGED <<inConfig, stations, runtimes, astray>>

\* UpdateStation with the enabled flag "on"; "restart" as in the request.
UpdateStation(t, on, restart, saves) ==
    /\ Begins(t)
    /\ inConfig
    /\ enabled' = on
    /\ IF saves /\ restart /\ on THEN Goto(t, "replace", "find", 0) ELSE UNCHANGED op
    /\ \/ /\ saves /\ registered = 0
          /\ Make(on)
       \/ /\ saves /\ registered # 0
          /\ enabledFor' = [enabledFor EXCEPT ![registered] = on]
          /\ UNCHANGED <<managed, registered>>
       \/ /\ ~saves
          /\ UNCHANGED <<managed, registered, enabledFor>>
    /\ UNCHANGED <<inConfig, runtimeOf, runtimes, astray>>

\* A failed save returns with the station in the configuration only.
CreateStation(t, on, start, saves) ==
    /\ Begins(t)
    /\ ~inConfig
    /\ inConfig' = TRUE /\ enabled' = on
    /\ \/ /\ saves
          /\ Make(on)
          /\ astray' = astray \cup Dropped(registered)
          /\ IF start /\ on THEN Goto(t, "create", "lock", managed') ELSE UNCHANGED op
       \/ /\ ~saves
          /\ UNCHANGED <<managed, registered, enabledFor, op, astray>>
    /\ UNCHANGED <<runtimeOf, runtimes>>

DeleteStation(t, force) ==
    LET r == IF registered = 0 THEN 0 ELSE runtimeOf[registered]
    IN /\ Begins(t)
       /\ inConfig
       /\ r # 0 /\ state[r] = "Running" => force
       /\ IF r # 0 /\ state[r] # "Stopped"
          THEN Goto(t, "delete", "lock", registered)
          ELSE Goto(t, "delete", "remove", 0)
       /\ UNCHANGED <<config, stations, runtimes, astray>>

\* Reload, once the file on disk has ("has") the station, enabled or not:
\* planReconcileLocked.
NeedsStart(r) == r = 0 \/ state[r] \notin {"Running", "Starting"}
Reload(t, has, on) ==
    LET r == IF registered = 0 THEN 0 ELSE runtimeOf[registered]
    IN /\ Begins(t)
       /\ inConfig' = has /\ enabled' = (has /\ on)
       /\ \/ /\ has /\ registered = 0
             /\ Make(on)
             /\ IF on THEN Goto(t, "reloadStart", "lock", managed') ELSE UNCHANGED op
          \/ /\ has /\ registered # 0
             /\ enabledFor' = [enabledFor EXCEPT ![registered] = on]
             /\ CASE on /\ NeedsStart(r) -> Goto(t, "reloadStart", "lock", registered)
                  [] ~on /\ r # 0 -> Goto(t, "reloadStop", "lock", registered)
                  [] OTHER -> UNCHANGED op
             /\ UNCHANGED <<managed, registered>>
          \/ /\ ~has
             /\ IF registered # 0 THEN Goto(t, "reloadRemove", "lock", registered) ELSE UNCHANGED op
             /\ UNCHANGED <<managed, registered, enabledFor>>
       /\ UNCHANGED <<runtimeOf, runtimes, astray>>

\* replaceRuntime looks the station up again.
Find(t) ==
    /\ op[t].pc = "find"
    /\ IF registered # 0 THEN Goto(t, op[t].kind, "lock", registered) ELSE Return(t)
    /\ UNCHANGED <<config, stations, runtimes, operations, astray>>

-----------------------------------------------------------------------------
(* With opMu held: stop the runtime ...                                    *)

BugLockFree(m) == TRUE
LockFree(m) == ~Locked(m)

Lock(t) ==
    LET kind == op[t].kind
    IN /\ op[t].pc = "lock"
       /\ LockFree(op[t].ms)
       /\ IF \/ kind = "stop" /\ Target(t) = 0
             \/ kind = "start" /\ TargetIn(t, {"Running", "Starting"})
          THEN Return(t)
          ELSE Continue(t, IF kind \in {"create", "reloadStart"} THEN "lookup" ELSE "stop")
       /\ UNCHANGED <<config, stations, runtimes, operations, astray>>

\* StationRuntime.Stop cancels the goroutines and unlocks ...
Cancel(t) ==
    LET r == Target(t)
    IN /\ op[t].pc = "stop"
       /\ TargetIn(t, {"Running", "Failed"})
       /\ phase' = [phase EXCEPT ![r] = IF @ = "live" THEN "cancelled" ELSE @]
       /\ Continue(t, "mark")
       /\ UNCHANGED <<config, stations, state, failed, operations, astray>>

\* ... sets the state, saves, and waits.
BugShownWhileDraining == "Stopped"
ShownWhileDraining == "Stopping"
Mark(t) ==
    /\ op[t].pc = "mark"
    /\ state' = [state EXCEPT ![Target(t)] = ShownWhileDraining]
    /\ Continue(t, "drain")
    /\ UNCHANGED <<config, stations, phase, failed, operations, astray>>

\* A runtime that an earlier Stop gave up on is waited for as well.
Rejoin(t) ==
    /\ op[t].pc = "stop"
    /\ TargetIn(t, {"Stopping"})
    /\ Continue(t, "drain")
    /\ UNCHANGED <<config, stations, runtimes, operations, astray>>

\* Stop returned nil: there was nothing to stop, or it has drained.
BugDrained(t) == state[Target(t)] = "Stopped"
Drained(t) == phase[Target(t)] = "done"

Stopped(t) ==
    \/ op[t].pc = "stop" /\ (Target(t) = 0 \/ TargetIn(t, {"Stopped"}))
    \/ op[t].pc = "drain" /\ Drained(t)

\* What each operation does once Stop returned, without an error ("ok") or with
\* ErrStopTimeout.
BugRebuilds(kind, ok) == kind \in {"start", "replace"}
Rebuilds(kind, ok) == ok /\ kind \in {"start", "replace"}

AfterStop(t, ok) ==
    LET kind == op[t].kind
        m    == op[t].ms
        next == IF Rebuilds(kind, ok) THEN "lookup" ELSE IF kind = "delete" THEN "remove" ELSE "idle"
    IN /\ IF ok THEN Stopped(t) ELSE op[t].pc = "drain"
       /\ IF next = "idle" THEN Return(t) ELSE Continue(t, next)
       /\ runtimeOf' = IF ok /\ kind \in {"disable", "reloadStop"} THEN [runtimeOf EXCEPT ![m] = 0]
                       ELSE runtimeOf
       /\ enabledFor' = IF ok /\ kind = "disable" /\ inConfig THEN [enabledFor EXCEPT ![m] = FALSE]
                        ELSE enabledFor
       /\ registered' = IF kind = "reloadRemove" THEN 0 ELSE registered
       /\ astray' = IF kind = "reloadRemove" THEN astray \cup Dropped(registered) ELSE astray
       /\ UNCHANGED <<config, managed, runtimes, operations>>

\* DeleteStation has released opMu; the configuration may have lost the id.
Remove(t) ==
    /\ op[t].pc = "remove"
    /\ IF inConfig
       THEN /\ inConfig' = FALSE /\ enabled' = FALSE
            /\ registered' = 0
            /\ astray' = astray \cup Dropped(registered)
       ELSE UNCHANGED <<inConfig, enabled, registered, astray>>
    /\ Return(t)
    /\ UNCHANGED <<runtimeOf, enabledFor, managed, runtimes, operations>>

-----------------------------------------------------------------------------
(* ... and build and start a new one.                                      *)

\* startRuntimeFor: the configuration must still have the station.
Lookup(t) ==
    /\ op[t].pc = "lookup"
    /\ IF inConfig THEN Continue(t, "assign") ELSE Return(t)
    /\ UNCHANGED <<config, stations, runtimes, operations, astray>>

\* buildAndStartRuntime: the new runtime, or none when building failed, takes
\* the place of what the ManagedStation had; CreateStation and Reload have not
\* stopped that, and the ManagedStation may have left fm.stations.
Assign(t, built) ==
    LET m   == op[t].ms
        old == IF op[t].kind \in {"create", "reloadStart"} THEN Dropped(m) ELSE {}
        r   == Cardinality({q \in Runtime : phase[q] # "none"}) + 1
    IN /\ op[t].pc = "assign"
       /\ enabledFor' = [enabledFor EXCEPT ![m] = TRUE]
       /\ astray' = astray \cup old \cup (IF built /\ registered # m THEN {r} ELSE {})
       /\ IF built
          THEN /\ runtimeOf' = [runtimeOf EXCEPT ![m] = r]
               /\ phase' = [phase EXCEPT ![r] = "built"]
               /\ Continue(t, "launch")
          ELSE /\ runtimeOf' = [runtimeOf EXCEPT ![m] = 0]
               /\ Return(t)
               /\ UNCHANGED phase
       /\ UNCHANGED <<config, registered, managed, state, failed, operations>>

\* StationRuntime.Start launches the goroutines ...
Launch(t) ==
    /\ op[t].pc = "launch"
    /\ state' = [state EXCEPT ![Target(t)] = "Starting"]
    /\ phase' = [phase EXCEPT ![Target(t)] = "live"]
    /\ Continue(t, "running")
    /\ UNCHANGED <<config, stations, failed, operations, astray>>

\* ... and sets Running, which setState drops for a runtime that has failed.
BugRunningFrom(s) == "Running"
RunningFrom(s) == IF s = "Failed" THEN "Failed" ELSE "Running"
Running(t) ==
    /\ op[t].pc = "running"
    /\ state' = [state EXCEPT ![Target(t)] = RunningFrom(@)]
    /\ Return(t)
    /\ UNCHANGED <<config, stations, phase, failed, operations, astray>>

-----------------------------------------------------------------------------
(* The runtime's goroutines.                                               *)

\* The bridge goroutine finds that the bridge could not be set up; the other
\* goroutines go on.  It may be scheduled late.
BridgeFails(r) ==
    /\ phase[r] \in Live
    /\ r \notin failed
    /\ failed' = failed \cup {r}
    /\ state' = [state EXCEPT ![r] = "Failed"]
    /\ UNCHANGED <<config, stations, phase, op, operations, astray>>

\* All goroutines have returned; superviseShutdown, which Start launched last.
Supervise(r) ==
    /\ phase[r] = "cancelled"
    /\ phase' = [phase EXCEPT ![r] = "done"]
    /\ state' = [state EXCEPT ![r] = "Stopped"]
    /\ UNCHANGED <<config, stations, failed, op, operations, astray>>

Request(t) ==
    \/ StopStation(t) \/ StartStation(t) \/ RestartStation(t)
    \/ \E saves \in BOOLEAN :
          \/ EnableStation(t, saves) \/ DisableStation(t, saves)
          \/ \E on, flag \in BOOLEAN : UpdateStation(t, on, flag, saves) \/ CreateStation(t, on, flag, saves)
    \/ \E force \in BOOLEAN : DeleteStation(t, force)
    \/ \E has, on \in BOOLEAN : Reload(t, has, on)

Proceed(t) ==
    \/ Find(t) \/ Cancel(t) \/ Mark(t) \/ Rejoin(t) \/ AfterStop(t, TRUE) \/ Remove(t)
    \/ Lookup(t) \/ Assign(t, TRUE) \/ Launch(t) \/ Running(t)

Next ==
    \/ \E t \in Callers :
          Request(t) \/ Lock(t) \/ Proceed(t) \/ AfterStop(t, FALSE) \/ Assign(t, FALSE)
    \/ \E r \in Runtime : BridgeFails(r) \/ Supervise(r)

Spec == Init /\ [][Next]_vars

\* A mutex is not denied forever, running code goes on, cancelled goroutines
\* return.  No timeout, no failing build and no request is ever certain.
FairSpec ==
    /\ Spec
    /\ \A t \in Callers : SF_vars(Lock(t)) /\ WF_vars(Proceed(t))
    /\ \A r \in Runtime : WF_vars(Supervise(r))

-----------------------------------------------------------------------------
(* Properties.                                                             *)

LifecycleState == {"Configured", "Starting", "Running", "Stopping", "Stopped", "Failed"}

\* Types, and: a runtime belongs to one ManagedStation, and is shown as stopped
\* only when its goroutines have returned.
TypeOK ==
    /\ inConfig \in BOOLEAN /\ enabled \in BOOLEAN
    /\ registered \in 0..managed /\ managed \in Managed
    /\ runtimeOf \in [Managed -> Runtime \cup {0}]
    /\ enabledFor \in [Managed -> BOOLEAN]
    /\ state \in [Runtime -> LifecycleState]
    /\ phase \in [Runtime -> {"none", "built", "done"} \cup Live]
    /\ failed \subseteq Runtime /\ astray \subseteq Runtime
    /\ \A t \in Callers : op[t].pc \in {"idle", "find", "remove"} \/ op[t].ms \in 1..managed
    /\ \A m, n \in Managed : runtimeOf[m] = runtimeOf[n] /\ runtimeOf[m] # 0 => m = n
    /\ \A r \in Runtime : state[r] = "Stopped" => phase[r] = "done"

\* Two runtimes of a station, each with a persistence coordinator writing the
\* station's directory, never run at once, except behind the back of Reload,
\* CreateStation and DeleteStation ("astray"): every other operation waits for
\* the goroutines of the old runtime, however stops time out and requests race.
WritersApart ==
    \A r, q \in Runtime :
        phase[r] \in Live /\ phase[q] \in Live => r = q \/ {r, q} \cap astray # {}

\* No runtime is lost while it runs: unless astray it is the one its registered
\* ManagedStation names, so that StopStation and Shutdown reach it.
Reachable ==
    \A r \in Runtime :
        phase[r] = "live" => r \in astray \/ (registered # 0 /\ runtimeOf[registered] = r)

\* setState: a runtime whose bridge failed is not shown as Running again, and one
\* that has drained does not come back to life, however late the goroutines of
\* Start, Stop and the bridge set the state.
NotResurrected ==
    [][\A r \in Runtime :
          /\ state[r] = "Failed" => state'[r] # "Running"
          /\ phase[r] = "done" => state'[r] \in {"Stopped", "Stopping"}]_vars

\* Every operation ends: nobody waits forever for an opMu or for a runtime whose
\* goroutines are gone.
OperationsEnd == \A t \in Callers : op[t] # Idle ~> op[t] = Idle
=============================================================================
