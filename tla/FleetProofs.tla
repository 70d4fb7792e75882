----------------------------- MODULE FleetProofs -----------------------------
(***************************************************************************)
(* Proofs about Fleet, for any number of callers and of requests: the      *)
(* runtimes of a station never run at once, none is lost while it runs,    *)
(* and none that failed or drained comes back, but for those the code      *)
(* itself lets go of ("astray").                                           *)
(***************************************************************************)
EXTENDS Fleet, FiniteSetTheorems, TLAPS

Kind == {"none", "stop", "start", "replace", "disable", "delete", "create",
         "reloadStart", "reloadStop", "reloadRemove"}
Building == {"start", "replace", "create", "reloadStart"}
Pc == {"idle", "find", "lock", "remove"} \cup Holding

\* What may stand in op[t].
Operation ==
    {o \in [kind : Kind, pc : Pc, ms : Managed \cup {0}] :
        /\ o.pc = "idle" => o = Idle
        /\ o.pc \in {"lookup", "assign", "launch", "running"} => o.kind \in Building}

OpOK == op \in [Callers -> Operation]

\* The opMu of a ManagedStation has one holder.
HoldersApart ==
    \A t, u \in Callers :
        op[t].pc \in Holding /\ op[u].pc \in Holding /\ op[t].ms = op[u].ms => t = u

\* Operations that may still build a runtime, and the runtimes built.
Pending == {t \in Callers : op[t].pc \notin {"idle", "launch", "running"}}
Built == {q \in Runtime : phase[q] # "none"}

\* A request in progress has its number left for the runtime it may build.
Counted ==
    /\ operations \in 0..MaxOperations
    /\ managed <= operations + 1
    /\ IsFiniteSet(Pending)
    /\ Cardinality(Built) + Cardinality(Pending) <= operations
    /\ \A q \in Runtime : phase[q] # "none" <=> q <= Cardinality(Built)

\* What the holder of an opMu knows of its runtime, wherever it stands.
Stage(t) ==
    LET r == Target(t)
    IN /\ op[t].pc \in {"mark", "drain"} => r # 0 /\ phase[r] \in {"cancelled", "done"}
       /\ op[t].pc \in {"lookup", "assign"} /\ op[t].kind \in {"start", "replace"} =>
             r = 0 \/ phase[r] = "done"
       /\ op[t].pc = "launch" => r # 0 /\ phase[r] = "built"
       /\ op[t].pc = "running" => r # 0 /\ phase[r] = "live"

\* What the state shown says of the goroutines.
Shown ==
    /\ \A r \in Runtime : phase[r] = "done" => state[r] \in {"Stopped", "Stopping"}
    /\ \A r \in Runtime : phase[r] \in {"none", "built"} => state[r] = "Configured"
    /\ \A r \in Runtime : phase[r] = "live" => state[r] \in {"Starting", "Running", "Failed"}
    /\ \A m \in Managed : runtimeOf[m] # 0 => phase[runtimeOf[m]] # "none"

\* Whatever has goroutines, or is about to, is astray or the registered one's.
Kept ==
    \A r \in Runtime :
        phase[r] \in Live \cup {"built"} =>
            r \in astray \/ (registered # 0 /\ runtimeOf[registered] = r)

FleetInv ==
    /\ TypeOK /\ OpOK /\ HoldersApart /\ Counted
    /\ \A t \in Callers : Stage(t)
    /\ Shown /\ Kept

USE FleetAssumption

-----------------------------------------------------------------------------
(* One operation goes on: what its caller's new place o asks of the others. *)

LEMMA IdleIsOperation == Idle \in Operation
BY DEF Idle, Operation, Kind, Pc, Managed

\* A lock is taken only where nobody has it.
LEMMA HoldersStep ==
    ASSUME OpOK, HoldersApart, NEW t \in Callers, NEW o \in Operation,
           op' = [op EXCEPT ![t] = o],
           o.pc \in Holding => (op[t].pc \in Holding /\ o.ms = op[t].ms) \/ LockFree(o.ms)
    PROVE  OpOK' /\ HoldersApart'
BY DEF OpOK, HoldersApart, LockFree, Locked

\* The operations pending: at most one more, and one less when t is over or has
\* built its runtime.
LEMMA PendingStep ==
    ASSUME OpOK, IsFiniteSet(Pending), NEW t \in Callers, NEW o \in Operation,
           op' = [op EXCEPT ![t] = o]
    PROVE  /\ IsFiniteSet(Pending')
           /\ Cardinality(Pending) \in Nat /\ Cardinality(Pending') \in Nat
           /\ Cardinality(Pending') <= Cardinality(Pending) + 1
           /\ t \in Pending \/ o.pc \in {"idle", "launch", "running"} =>
                 Cardinality(Pending') <= Cardinality(Pending)
           /\ t \in Pending /\ o.pc \in {"idle", "launch", "running"} =>
                 Cardinality(Pending') = Cardinality(Pending) - 1
<1>1. Cardinality(Pending) \in Nat
  BY FS_CardinalityType
<1>2. CASE o.pc \in {"idle", "launch", "running"}
  <2>1. Pending' = Pending \ {t}
    BY <1>2 DEF OpOK, Pending
  <2>2. IsFiniteSet(Pending')
    BY <2>1, FS_RemoveElement
  <2>3. Cardinality(Pending') \in Nat
    BY <2>2, FS_CardinalityType
  <2>4. Cardinality(Pending') = IF t \in Pending THEN Cardinality(Pending) - 1 ELSE Cardinality(Pending)
    BY <2>1, FS_RemoveElement
  <2>5. QED
    BY <1>1, <1>2, <2>2, <2>3, <2>4
<1>3. CASE o.pc \notin {"idle", "launch", "running"}
  <2>1. Pending' = Pending \cup {t}
    BY <1>3 DEF OpOK, Pending
  <2>2. /\ IsFiniteSet(Pending')
        /\ Cardinality(Pending') = IF t \in Pending THEN Cardinality(Pending) ELSE Cardinality(Pending) + 1
    BY <1>1, <2>1, FS_AddElement
  <2>3. Cardinality(Pending') \in Nat
    BY <2>2, FS_CardinalityType
  <2>4. QED
    BY <1>1, <1>3, <2>2, <2>3
<1>4. QED
  BY <1>2, <1>3

-----------------------------------------------------------------------------
(* Requests.                                                               *)

\* What every request does: it may make and register a ManagedStation, and it
\* touches no runtime.
Asked(t) ==
    /\ op[t] = Idle /\ operations < MaxOperations /\ operations' = operations + 1
    /\ UNCHANGED <<runtimeOf, runtimes>>
    /\ inConfig' \in BOOLEAN /\ enabled' \in BOOLEAN /\ enabledFor' \in [Managed -> BOOLEAN]
    /\ \/ UNCHANGED <<managed, registered, astray>>
       \/ /\ managed' = managed + 1 /\ registered' = managed'
          /\ astray' = astray \cup Dropped(registered)
    /\ \E o \in Operation :
          /\ op' = [op EXCEPT ![t] = o]
          /\ o.pc \in {"idle", "find", "lock", "remove"}
          /\ o.pc = "lock" => o.ms \in 1..managed'

\* The two ways a request answers its caller's place.
LEMMA Answers ==
    ASSUME OpOK, NEW t \in Callers, op[t] = Idle
    PROVE  /\ UNCHANGED op =>
                 \E o \in Operation :
                    op' = [op EXCEPT ![t] = o] /\ o.pc = "idle"
           /\ \A kind \in Kind, pc \in {"find", "lock", "remove"}, m \in Managed \cup {0} :
                 Goto(t, kind, pc, m) =>
                    \E o \in Operation :
                       op' = [op EXCEPT ![t] = o] /\ o.pc = pc /\ o.ms = m
<1>1. op = [op EXCEPT ![t] = Idle]
  BY DEF OpOK
<1>2. UNCHANGED op => op' = [op EXCEPT ![t] = Idle]
  BY <1>1
<1>3. Idle.pc = "idle"
  BY DEF Idle
<1>4. ASSUME NEW kind \in Kind, NEW pc \in {"find", "lock", "remove"}, NEW m \in Managed \cup {0}
      PROVE  [kind |-> kind, pc |-> pc, ms |-> m] \in Operation
  BY DEF Operation, Pc
<1>5. ASSUME NEW kind \in Kind, NEW pc \in {"find", "lock", "remove"}, NEW m \in Managed \cup {0},
             Goto(t, kind, pc, m)
      PROVE  \E o \in Operation : op' = [op EXCEPT ![t] = o] /\ o.pc = pc /\ o.ms = m
  <2> DEFINE o == [kind |-> kind, pc |-> pc, ms |-> m]
  <2>1. op' = [op EXCEPT ![t] = o]
    BY <1>5 DEF Goto
  <2>2. o \in Operation /\ o.pc = pc /\ o.ms = m
    BY <1>4
  <2>3. QED
    BY <2>1, <2>2
<1>6. QED
  BY <1>2, <1>3, <1>5, IdleIsOperation

\* Make, when a request is served.
LEMMA Makes ==
    ASSUME FleetInv, operations < MaxOperations, NEW on \in BOOLEAN, Make(on)
    PROVE  /\ managed' = managed + 1 /\ registered' = managed' /\ managed' \in Managed
           /\ enabledFor' \in [Managed -> BOOLEAN]
BY DEF FleetInv, TypeOK, Counted, Make, Managed

LEMMA NothingDropped == Dropped(0) = {}
BY DEF Dropped

LEMMA RequestAsks ==
    ASSUME FleetInv, NEW t \in Callers, Request(t)
    PROVE  Asked(t)
<1> USE DEF config, stations, runtimes, Begins
<1>0. /\ registered \in 0..managed /\ managed \in Managed /\ OpOK
      /\ inConfig \in BOOLEAN /\ enabled \in BOOLEAN /\ enabledFor \in [Managed -> BOOLEAN]
      /\ astray \cup {} = astray
      /\ \A m \in 0..managed : m \in Managed \cup {0}
      /\ \A m \in 0..managed : m # 0 => m \in 1..managed
      /\ {"stop", "start", "replace", "disable", "delete", "create",
          "reloadStart", "reloadStop", "reloadRemove"} \subseteq Kind
  BY DEF FleetInv, TypeOK, Managed, Kind
<1>1. ASSUME StopStation(t) \/ StartStation(t) \/ RestartStation(t)
      PROVE  Asked(t)
  <2>1. StopStation(t) => Asked(t)
    BY <1>0, Answers DEF StopStation, Asked
  <2>2. StartStation(t) => Asked(t)
    BY <1>0, Answers DEF StartStation, Asked
  <2>3. RestartStation(t) => Asked(t)
    BY <1>0, Answers DEF RestartStation, Asked
  <2>4. QED
    BY <1>1, <2>1, <2>2, <2>3
<1>2. ASSUME NEW saves \in BOOLEAN, EnableStation(t, saves)
      PROVE  Asked(t)
  <2>1. CASE ~saves
    BY <1>0, <1>2, <2>1, Answers DEF EnableStation, Asked
  <2>2. CASE saves /\ registered # 0
    BY <1>0, <1>2, <2>2, Answers DEF EnableStation, Asked
  <2>3. CASE saves /\ registered = 0
    BY <1>0, <1>2, <2>3, Answers, Makes, NothingDropped DEF EnableStation, Asked
  <2>4. QED
    BY <2>1, <2>2, <2>3
<1>3. ASSUME NEW saves \in BOOLEAN, DisableStation(t, saves)
      PROVE  Asked(t)
  <2>1. \/ Goto(t, "disable", "lock", registered) /\ registered # 0
        \/ UNCHANGED op
    BY <1>3 DEF DisableStation
  <2>2. /\ op[t] = Idle /\ operations < MaxOperations /\ operations' = operations + 1
        /\ UNCHANGED <<inConfig, stations, runtimes, astray>> /\ enabled' \in BOOLEAN
    BY <1>3 DEF DisableStation
  <2>3. QED
    BY <1>0, <2>1, <2>2, Answers DEF Asked
<1>4. ASSUME NEW saves \in BOOLEAN, NEW on \in BOOLEAN, NEW restart \in BOOLEAN,
             UpdateStation(t, on, restart, saves)
      PROVE  Asked(t)
  BY <1>0, <1>4, Answers, Makes, NothingDropped DEF UpdateStation, Asked
<1>5. ASSUME NEW saves \in BOOLEAN, NEW on \in BOOLEAN, NEW start \in BOOLEAN,
             CreateStation(t, on, start, saves)
      PROVE  Asked(t)
  <2>1. \/ /\ Make(on) /\ astray' = astray \cup Dropped(registered)
           /\ Goto(t, "create", "lock", managed') \/ UNCHANGED op
        \/ UNCHANGED <<managed, registered, enabledFor, op, astray>>
    BY <1>5 DEF CreateStation
  <2>2. /\ op[t] = Idle /\ operations < MaxOperations /\ operations' = operations + 1
        /\ UNCHANGED <<runtimeOf, runtimes>> /\ inConfig' \in BOOLEAN /\ enabled' \in BOOLEAN
    BY <1>5 DEF CreateStation
  <2>3. CASE UNCHANGED <<managed, registered, enabledFor, op, astray>>
    BY <1>0, <2>2, <2>3, Answers DEF Asked
  <2>4. CASE /\ Make(on) /\ astray' = astray \cup Dropped(registered)
             /\ Goto(t, "create", "lock", managed') \/ UNCHANGED op
    <3>1. /\ managed' = managed + 1 /\ registered' = managed' /\ managed' \in Managed
          /\ enabledFor' \in [Managed -> BOOLEAN]
      BY <2>2, <2>4, Makes
    <3>2. managed' \in 1..managed'
      BY <1>0, <3>1 DEF Managed
    <3>3. QED
      BY <1>0, <2>2, <2>4, <3>1, <3>2, Answers DEF Asked
  <2>5. QED
    BY <2>1, <2>3, <2>4
<1>6. ASSUME NEW force \in BOOLEAN, DeleteStation(t, force)
      PROVE  Asked(t)
  BY <1>0, <1>6, Answers DEF DeleteStation, Asked
<1>7. ASSUME NEW has \in BOOLEAN, NEW on \in BOOLEAN, Reload(t, has, on)
      PROVE  Asked(t)
  <2>1. \/ /\ registered = 0 /\ Make(on)
           /\ Goto(t, "reloadStart", "lock", managed') \/ UNCHANGED op
        \/ /\ registered # 0 /\ UNCHANGED <<managed, registered>>
           /\ enabledFor' \in [Managed -> BOOLEAN]
           /\ \/ Goto(t, "reloadStart", "lock", registered)
              \/ Goto(t, "reloadStop", "lock", registered)
              \/ UNCHANGED op
        \/ /\ UNCHANGED <<managed, registered, enabledFor>>
           /\ \/ registered # 0 /\ Goto(t, "reloadRemove", "lock", registered)
              \/ UNCHANGED op
    BY <1>0, <1>7 DEF Reload
  <2>2. /\ op[t] = Idle /\ operations < MaxOperations /\ operations' = operations + 1
        /\ UNCHANGED <<runtimeOf, runtimes, astray>> /\ inConfig' \in BOOLEAN /\ enabled' \in BOOLEAN
    BY <1>7 DEF Reload
  <2>3. CASE registered # 0 /\ UNCHANGED <<managed, registered>>
    BY <1>0, <2>1, <2>2, <2>3, Answers DEF Asked
  <2>4. CASE /\ registered = 0 /\ Make(on)
             /\ Goto(t, "reloadStart", "lock", managed') \/ UNCHANGED op
    <3>1. /\ managed' = managed + 1 /\ registered' = managed' /\ managed' \in Managed
          /\ enabledFor' \in [Managed -> BOOLEAN]
      BY <2>2, <2>4, Makes
    <3>2. managed' \in 1..managed'
      BY <1>0, <3>1 DEF Managed
    <3>3. QED
      BY <1>0, <2>2, <2>4, <3>1, <3>2, Answers, NothingDropped DEF Asked
  <2>5. CASE UNCHANGED <<managed, registered, enabledFor, op>>
    BY <1>0, <2>2, <2>5, Answers DEF Asked
  <2>6. QED
    BY <2>1, <2>3, <2>4, <2>5
<1>8. QED
  BY <1>1, <1>2, <1>3, <1>4, <1>5, <1>6, <1>7 DEF Request

-----------------------------------------------------------------------------
(* The invariant holds at first, and every request keeps it.               *)

LEMMA InitFleetInv == Init => FleetInv
<1> SUFFICES ASSUME Init PROVE FleetInv
  OBVIOUS
<1>1. TypeOK
  BY DEF Init, TypeOK, Managed, Runtime, LifecycleState, Idle
<1>2. OpOK
  BY IdleIsOperation DEF Init, OpOK
<1>3. HoldersApart /\ \A t \in Callers : Stage(t)
  BY DEF Init, HoldersApart, Stage, Holding, Idle
<1>4. Counted
  <2>1. Built = {} /\ Pending = {}
    BY DEF Init, Built, Pending, Idle
  <2>2. IsFiniteSet(Pending) /\ Cardinality(Pending) = 0 /\ Cardinality(Built) = 0
    BY <2>1, FS_EmptySet
  <2>3. QED
    BY <2>2 DEF Init, Counted, Runtime
<1>5. Shown /\ Kept
  BY DEF Init, Shown, Kept, Live
<1>6. QED
  BY <1>1, <1>2, <1>3, <1>4, <1>5 DEF FleetInv

LEMMA BuiltFinite == Built \subseteq Runtime /\ IsFiniteSet(Built) /\ Cardinality(Built) \in Nat
<1>1. IsFiniteSet(Runtime)
  BY FS_Interval DEF Runtime
<1>2. Built \subseteq Runtime
  BY DEF Built
<1>3. QED
  BY <1>1, <1>2, FS_Subset, FS_CardinalityType

LEMMA AskedKeepsInv ==
    ASSUME FleetInv, NEW t \in Callers, Asked(t)
    PROVE  FleetInv'
<1> PICK o \in Operation :
        /\ op' = [op EXCEPT ![t] = o]
        /\ o.pc \in {"idle", "find", "lock", "remove"}
        /\ o.pc = "lock" => o.ms \in 1..managed'
  BY DEF Asked
<1>0. /\ OpOK /\ op[t] = Idle /\ operations < MaxOperations /\ operations' = operations + 1
      /\ UNCHANGED <<runtimeOf, state, phase, failed>>
      /\ registered \in 0..managed /\ managed \in Managed /\ managed' \in {managed, managed + 1}
      /\ managed' <= operations' + 1 /\ operations \in 0..MaxOperations
  BY DEF FleetInv, TypeOK, Counted, Asked, runtimes, Managed
<1>1. Dropped(registered) \subseteq Runtime
  BY DEF Dropped
<1>2. \A u \in Callers : op'[u] = IF u = t THEN o ELSE op[u]
  BY <1>0 DEF OpOK
<1>3. TypeOK'
  <2>1. \A u \in Callers : op'[u].pc \in {"idle", "find", "remove"} \/ op'[u].ms \in 1..managed'
    BY <1>0, <1>2 DEF FleetInv, TypeOK, Managed
  <2>2. registered' \in 0..managed' /\ managed' \in Managed
    BY <1>0 DEF Asked, Managed
  <2>3. astray' \subseteq Runtime
    BY <1>1 DEF FleetInv, TypeOK, Asked
  <2>4. inConfig' \in BOOLEAN /\ enabled' \in BOOLEAN /\ enabledFor' \in [Managed -> BOOLEAN]
    BY DEF Asked
  <2>5. QED
    BY <1>0, <2>1, <2>2, <2>3, <2>4 DEF FleetInv, TypeOK
<1>4. OpOK' /\ HoldersApart'
  BY <1>0, HoldersStep DEF FleetInv, Holding
<1>5. Counted'
  <2>1. IsFiniteSet(Pending') /\ Cardinality(Pending') <= Cardinality(Pending) + 1
        /\ Cardinality(Pending) \in Nat /\ Cardinality(Pending') \in Nat
    BY <1>0, PendingStep DEF FleetInv, Counted
  <2>2. Built' = Built /\ Cardinality(Built) \in Nat
    BY <1>0, BuiltFinite DEF Built
  <2>3. QED
    BY <1>0, <2>1, <2>2 DEF FleetInv, Counted
<1>6. \A u \in Callers : Stage(u)'
  BY <1>0, <1>2 DEF FleetInv, Stage, Target, Holding
<1>7. Shown'
  BY <1>0 DEF FleetInv, Shown
<1>8. Kept'
  BY <1>0 DEF FleetInv, Kept, Asked, Dropped
<1>9. QED
  BY <1>3, <1>4, <1>5, <1>6, <1>7, <1>8 DEF FleetInv

-----------------------------------------------------------------------------
(* The steps of an operation.                                              *)

\* Continue and Return put an operation in the place of the old one.
LEMMA ContinueMoves ==
    ASSUME OpOK, NEW t \in Callers, NEW pc \in Pc \ {"idle"}, Continue(t, pc),
           pc \in {"lookup", "assign", "launch", "running"} => op[t].kind \in Building
    PROVE  \E o \in Operation :
              op' = [op EXCEPT ![t] = o] /\ o.pc = pc /\ o.ms = op[t].ms /\ o.kind = op[t].kind
<1> DEFINE o == [op[t] EXCEPT !.pc = pc]
<1>1. op[t] \in [kind : Kind, pc : Pc, ms : Managed \cup {0}]
  BY DEF OpOK, Operation
<1>2. o \in [kind : Kind, pc : Pc, ms : Managed \cup {0}]
      /\ o.pc = pc /\ o.ms = op[t].ms /\ o.kind = op[t].kind
  BY <1>1
<1>3. o \in Operation
  BY <1>2 DEF Operation
<1>4. op' = [op EXCEPT ![t] = o]
  BY DEF Continue
<1>5. QED
  BY <1>2, <1>3, <1>4

LEMMA ReturnMoves ==
    ASSUME NEW t \in Callers, Return(t)
    PROVE  \E o \in Operation : op' = [op EXCEPT ![t] = o] /\ o.pc = "idle"
BY IdleIsOperation DEF Return, Idle

\* The operation of t goes on to o, and takes a lock only where nobody has it.
GoesOn(t, o) ==
    /\ op' = [op EXCEPT ![t] = o]
    /\ op[t].pc # "idle"
    /\ o.pc \in Holding => (op[t].pc \in Holding /\ o.ms = op[t].ms) \/ LockFree(o.ms)
    /\ o.pc \in {"idle", "remove"} \/ o.ms \in 1..managed
    /\ UNCHANGED <<operations, managed>>

LEMMA GoesOnKeeps ==
    ASSUME FleetInv, NEW t \in Callers, NEW o \in Operation, GoesOn(t, o)
    PROVE  /\ op'[t] = o /\ \A u \in Callers \ {t} : op'[u] = op[u]
           /\ OpOK' /\ HoldersApart'
           /\ \A u \in Callers : op'[u].pc \in {"idle", "find", "remove"} \/ op'[u].ms \in 1..managed'
<1>1. op'[t] = o /\ \A u \in Callers \ {t} : op'[u] = op[u]
  BY DEF FleetInv, OpOK, GoesOn
<1>2. OpOK' /\ HoldersApart'
  BY HoldersStep DEF FleetInv, GoesOn, Holding
<1>3. \A u \in Callers : op'[u].pc \in {"idle", "find", "remove"} \/ op'[u].ms \in 1..managed'
  BY <1>1 DEF FleetInv, TypeOK, GoesOn
<1>4. QED
  BY <1>1, <1>2, <1>3

\* No runtime is built, and a step out of "launch" or "running" does not go back.
LEMMA CountKept ==
    ASSUME FleetInv, NEW t \in Callers, NEW o \in Operation, op' = [op EXCEPT ![t] = o],
           t \in Pending \/ o.pc \in {"idle", "launch", "running"},
           UNCHANGED <<operations, managed>>,
           \A q \in Runtime : phase'[q] = "none" <=> phase[q] = "none"
    PROVE  Counted'
<1>1. IsFiniteSet(Pending') /\ Cardinality(Pending') <= Cardinality(Pending)
      /\ Cardinality(Pending) \in Nat /\ Cardinality(Pending') \in Nat
  BY PendingStep DEF FleetInv, Counted
<1>2. Built' = Built /\ Cardinality(Built) \in Nat
  BY BuiltFinite DEF Built
<1>3. QED
  BY <1>1, <1>2 DEF FleetInv, Counted

\* A holder knows its own ManagedStation, and nobody else's runtime is its own.
LEMMA TargetsApart ==
    ASSUME FleetInv, NEW t \in Callers, op[t].pc \in Holding
    PROVE  /\ op[t].ms \in 1..managed /\ op[t].ms \in Managed
           /\ Target(t) \in Runtime \cup {0}
           /\ \A u \in Callers \ {t} : op[u].pc \in Holding =>
                 /\ op[u].ms \in Managed \ {op[t].ms}
                 /\ Target(u) \in Runtime \cup {0}
                 /\ Target(u) # 0 => Target(u) # Target(t)
<1>1. \A u \in Callers : op[u].pc \in Holding => op[u].ms \in 1..managed /\ op[u].ms \in Managed
  BY DEF FleetInv, TypeOK, Holding, Managed
<1>2. \A u \in Callers \ {t} : op[u].pc \in Holding => op[u].ms # op[t].ms
  BY DEF FleetInv, HoldersApart
<1>3. QED
  BY <1>1, <1>2 DEF FleetInv, TypeOK, Target

\* What the others know is left alone by a step of t on its own runtime.
LEMMA OthersStage ==
    ASSUME FleetInv, NEW t \in Callers, op[t].pc \in Holding,
           \A u \in Callers \ {t} : op'[u] = op[u],
           \A m \in Managed \ {op[t].ms} : runtimeOf'[m] = runtimeOf[m],
           \A r \in Runtime : r # Target(t) /\ phase[r] # "none" => phase'[r] = phase[r]
    PROVE  \A u \in Callers \ {t} : Stage(u)'
<1> SUFFICES ASSUME NEW u \in Callers \ {t} PROVE Stage(u)'
  OBVIOUS
<1>1. CASE op[u].pc \notin Holding
  BY <1>1 DEF Stage, Holding
<1>2. CASE op[u].pc \in Holding
  <2>1. Target(u)' = Target(u)
    BY <1>2, TargetsApart DEF Target
  <2>2. Target(u) # 0 => phase[Target(u)] # "none"
    BY <1>2, TargetsApart DEF FleetInv, Shown, Target
  <2>3. Target(u) # 0 => phase'[Target(u)] = phase[Target(u)]
    BY <1>2, <2>2, TargetsApart
  <2>4. QED
    BY <2>1, <2>3 DEF FleetInv, Stage
<1>3. QED
  BY <1>1, <1>2

\* A step that changes the operation of t only.
LEMMA OperationOnly ==
    ASSUME FleetInv, NEW t \in Callers, NEW o \in Operation, GoesOn(t, o),
           t \in Pending \/ o.pc \in {"idle", "launch", "running"},
           UNCHANGED <<config, stations, runtimes, astray>>,
           o.pc \in Holding => Stage(t)'
    PROVE  FleetInv'
<1> USE DEF config, stations, runtimes
<1>1. /\ op'[t] = o /\ \A u \in Callers \ {t} : op'[u] = op[u]
      /\ OpOK' /\ HoldersApart'
      /\ \A u \in Callers : op'[u].pc \in {"idle", "find", "remove"} \/ op'[u].ms \in 1..managed'
  BY GoesOnKeeps
<1>2. TypeOK'
  BY <1>1 DEF FleetInv, TypeOK
<1>3. Counted'
  BY CountKept DEF GoesOn
<1>4. ASSUME NEW u \in Callers PROVE Stage(u)'
  <2>1. CASE u = t
    BY <1>1, <2>1 DEF Stage, Holding
  <2>2. CASE u # t
    BY <1>1, <2>2 DEF FleetInv, Stage, Target
  <2>3. QED
    BY <2>1, <2>2
<1>5. Shown' /\ Kept'
  BY DEF FleetInv, Shown, Kept
<1>6. QED
  BY <1>1, <1>2, <1>3, <1>4, <1>5 DEF FleetInv

\* Find, Lock, Rejoin and Lookup.
LEMMA WaysKeepInv ==
    ASSUME FleetInv, NEW t \in Callers, Find(t) \/ Lock(t) \/ Rejoin(t) \/ Lookup(t)
    PROVE  FleetInv'
<1>0. OpOK /\ op[t] \in Operation /\ registered \in 0..managed
      /\ UNCHANGED <<config, stations, runtimes, astray, operations, managed>>
      /\ t \in Pending /\ op[t].pc # "idle"
  BY DEF FleetInv, OpOK, TypeOK, Find, Lock, Rejoin, Lookup, Pending, stations
<1>1. ASSUME Return(t) PROVE FleetInv'
  <2>1. PICK o \in Operation : op' = [op EXCEPT ![t] = o] /\ o.pc = "idle"
    BY <1>1, ReturnMoves
  <2>2. GoesOn(t, o) /\ o.pc \notin Holding
    BY <1>0, <2>1 DEF GoesOn, Holding
  <2>3. QED
    BY <1>0, <2>2, OperationOnly
<1>2. ASSUME Find(t), ~Return(t) PROVE FleetInv'
  <2> DEFINE o == [kind |-> op[t].kind, pc |-> "lock", ms |-> registered]
  <2>1. op' = [op EXCEPT ![t] = o] /\ registered # 0
    BY <1>2 DEF Find, Goto
  <2>2. o \in Operation /\ o.ms \in 1..managed
    BY <1>0, <2>1 DEF Operation, Pc, FleetInv, TypeOK, Managed
  <2>3. GoesOn(t, o) /\ o.pc \notin Holding
    BY <1>0, <2>1, <2>2 DEF GoesOn, Holding
  <2>4. QED
    BY <1>0, <2>2, <2>3, OperationOnly
<1>3. ASSUME NEW pc \in {"stop", "drain", "lookup", "assign"}, Continue(t, pc),
             op[t].pc \in Holding \/ (op[t].pc = "lock" /\ LockFree(op[t].ms)),
             pc \in {"lookup", "assign"} => op[t].kind \in Building,
             pc = "drain" => Target(t) # 0 /\ phase[Target(t)] \in {"cancelled", "done"},
             pc = "lookup" => op[t].kind \in {"create", "reloadStart"},
             pc = "assign" /\ op[t].kind \in {"start", "replace"} =>
                Target(t) = 0 \/ phase[Target(t)] = "done"
      PROVE  FleetInv'
  <2>1. PICK o \in Operation :
           op' = [op EXCEPT ![t] = o] /\ o.pc = pc /\ o.ms = op[t].ms /\ o.kind = op[t].kind
    BY <1>0, <1>3, ContinueMoves DEF Pc, Holding
  <2>2. op[t].ms \in 1..managed
    BY <1>3 DEF FleetInv, TypeOK, Holding
  <2>3. GoesOn(t, o)
    BY <1>0, <1>3, <2>1, <2>2 DEF GoesOn
  <2>4. op'[t] = o
    BY <1>0, <2>1 DEF OpOK
  <2>5. Stage(t)'
    BY <1>0, <1>3, <2>1, <2>4 DEF Stage, Target, stations, runtimes
  <2>6. QED
    BY <1>0, <2>3, <2>5, OperationOnly
<1>4. ASSUME Lock(t), ~Return(t) PROVE FleetInv'
  BY <1>3, <1>4 DEF Lock, Building
<1>5. ASSUME Rejoin(t) PROVE FleetInv'
  <2>1. op[t].pc \in Holding /\ Target(t) # 0 /\ state[Target(t)] = "Stopping" /\ Continue(t, "drain")
    BY <1>5 DEF Rejoin, TargetIn, Holding
  <2>2. Target(t) \in Runtime
    BY <2>1, TargetsApart
  <2>3. phase[Target(t)] \in {"cancelled", "done"}
    BY <2>1, <2>2 DEF FleetInv, TypeOK, Shown, Live
  <2>4. QED
    BY <1>3, <2>1, <2>3
<1>6. ASSUME Lookup(t), ~Return(t) PROVE FleetInv'
  <2>1. op[t].pc = "lookup" /\ Continue(t, "assign") /\ op[t].pc \in Holding
    BY <1>6 DEF Lookup, Holding
  <2>2. op[t].kind \in Building
    BY <1>0, <2>1 DEF Operation
  <2>3. op[t].kind \in {"start", "replace"} => Target(t) = 0 \/ phase[Target(t)] = "done"
    BY <2>1 DEF FleetInv, Stage
  <2>4. QED
    BY <1>3, <2>1, <2>2, <2>3
<1>7. QED
  BY <1>1, <1>2, <1>4, <1>5, <1>6

\* A state shown that fits the goroutines of a runtime.
Fits(s, p) ==
    /\ p = "done" => s \in {"Stopped", "Stopping"}
    /\ p \in {"none", "built"} => s = "Configured"
    /\ p = "live" => s \in {"Starting", "Running", "Failed"}
    /\ s = "Stopped" => p = "done"

\* A holder's step on its own runtime.
LEMMA RuntimeStep ==
    ASSUME FleetInv, NEW t \in Callers, NEW o \in Operation, GoesOn(t, o), op[t].pc \in Holding,
           t \in Pending \/ o.pc \in {"idle", "launch", "running"},
           UNCHANGED <<config, stations, failed, astray>>,
           Target(t) # 0, phase[Target(t)] # "none",
           NEW s \in LifecycleState, NEW p \in {"done"} \cup Live, Fits(s, p),
           p = "done" \/ phase[Target(t)] # "done",
           state' = [state EXCEPT ![Target(t)] = s],
           phase' = [phase EXCEPT ![Target(t)] = p],
           Stage(t)'
    PROVE  FleetInv'
<1> DEFINE r == Target(t)
<1> USE DEF config, stations
<1>0. /\ op'[t] = o /\ \A u \in Callers \ {t} : op'[u] = op[u]
      /\ OpOK' /\ HoldersApart'
      /\ \A u \in Callers : op'[u].pc \in {"idle", "find", "remove"} \/ op'[u].ms \in 1..managed'
  BY GoesOnKeeps
<1>1. r \in Runtime
  BY TargetsApart
<1>2. /\ state \in [Runtime -> LifecycleState]
      /\ phase \in [Runtime -> {"none", "built", "done"} \cup Live]
  BY DEF FleetInv, TypeOK
<1>3. state'[r] = s /\ phase'[r] = p
      /\ \A q \in Runtime \ {r} : state'[q] = state[q] /\ phase'[q] = phase[q]
  BY <1>1, <1>2
<1>4. TypeOK'
  <2>1. /\ state' \in [Runtime -> LifecycleState]
        /\ phase' \in [Runtime -> {"none", "built", "done"} \cup Live]
    BY <1>2
  <2>2. \A q \in Runtime : state'[q] = "Stopped" => phase'[q] = "done"
    BY <1>3 DEF FleetInv, TypeOK, Fits
  <2>3. QED
    BY <1>0, <2>1, <2>2 DEF FleetInv, TypeOK
<1>5. Counted'
  <2>1. \A q \in Runtime : phase'[q] = "none" <=> phase[q] = "none"
    BY <1>1, <1>3 DEF Live
  <2>2. QED
    BY <2>1, CountKept DEF GoesOn
<1>6. \A u \in Callers : Stage(u)'
  <2>1. \A u \in Callers \ {t} : Stage(u)'
    BY <1>0, <1>3, OthersStage
  <2>2. QED
    BY <2>1
<1>7. Shown'
  <2>1. \A m \in Managed : runtimeOf[m] # 0 => runtimeOf[m] \in Runtime
    BY DEF FleetInv, TypeOK
  <2>2. QED
    BY <1>1, <1>3, <2>1 DEF FleetInv, Shown, Fits, Live
<1>8. Kept'
  BY <1>1, <1>2, <1>3 DEF FleetInv, Kept, Live
<1>9. QED
  BY <1>0, <1>4, <1>5, <1>6, <1>7, <1>8 DEF FleetInv

LEMMA CancelKeepsInv ==
    ASSUME FleetInv, NEW t \in Callers, Cancel(t)
    PROVE  FleetInv'
<1> DEFINE r == Target(t)
<1>1. op[t].pc = "stop" /\ op[t].pc \in Holding /\ t \in Pending /\ r # 0
      /\ state[r] \in {"Running", "Failed"}
  BY DEF Cancel, TargetIn, Holding, Pending
<1>2. r \in Runtime /\ op[t].ms \in 1..managed
  BY <1>1, TargetsApart
<1>3. phase[r] \in Live
  BY <1>1, <1>2 DEF FleetInv, TypeOK, Shown
<1>4. phase' = [phase EXCEPT ![r] = "cancelled"]
  BY <1>3 DEF Cancel, Live, FleetInv, TypeOK
<1>5. state' = [state EXCEPT ![r] = state[r]]
  BY DEF Cancel, FleetInv, TypeOK
<1>6. PICK o \in Operation : op' = [op EXCEPT ![t] = o] /\ o.pc = "mark" /\ o.ms = op[t].ms
  BY ContinueMoves DEF Cancel, FleetInv, Pc, Holding
<1>7. GoesOn(t, o)
  BY <1>1, <1>2, <1>6 DEF GoesOn, Cancel, stations
<1>8. Stage(t)'
  <2>1. op'[t] = o
    BY <1>6 DEF FleetInv, OpOK
  <2>2. Target(t)' = r /\ phase'[r] = "cancelled"
    BY <1>2, <1>4, <1>6, <2>1 DEF Target, Cancel, stations, FleetInv, TypeOK
  <2>3. QED
    BY <1>1, <1>6, <2>1, <2>2 DEF Stage
<1>9. state[r] \in LifecycleState /\ Fits(state[r], "cancelled") /\ phase[r] \notin {"none", "done"}
  BY <1>1, <1>3 DEF Fits, LifecycleState, Live
<1>10. QED
  BY <1>1, <1>4, <1>5, <1>7, <1>8, <1>9, RuntimeStep DEF Cancel, Live

LEMMA MarkKeepsInv ==
    ASSUME FleetInv, NEW t \in Callers, Mark(t)
    PROVE  FleetInv'
<1> DEFINE r == Target(t)
<1>1. op[t].pc = "mark" /\ op[t].pc \in Holding /\ t \in Pending
  BY DEF Mark, Holding, Pending
<1>2. r # 0 /\ r \in Runtime /\ op[t].ms \in 1..managed /\ phase[r] \in {"cancelled", "done"}
  BY <1>1, TargetsApart DEF FleetInv, Stage
<1>3. phase' = [phase EXCEPT ![r] = phase[r]]
  BY DEF Mark, FleetInv, TypeOK
<1>4. PICK o \in Operation : op' = [op EXCEPT ![t] = o] /\ o.pc = "drain" /\ o.ms = op[t].ms
  BY ContinueMoves DEF Mark, FleetInv, Pc, Holding
<1>5. GoesOn(t, o)
  BY <1>1, <1>2, <1>4 DEF GoesOn, Mark, stations
<1>6. Stage(t)'
  <2>1. op'[t] = o
    BY <1>4 DEF FleetInv, OpOK
  <2>2. Target(t)' = r /\ phase' = phase
    BY <1>4, <2>1 DEF Target, Mark, stations
  <2>3. QED
    BY <1>2, <1>4, <2>1, <2>2 DEF Stage
<1>7. Fits("Stopping", phase[r]) /\ phase[r] # "none"
  BY <1>2 DEF Fits
<1>8. QED
  BY <1>1, <1>2, <1>3, <1>5, <1>6, <1>7, RuntimeStep
     DEF Mark, ShownWhileDraining, LifecycleState, Live

LEMMA LaunchKeepsInv ==
    ASSUME FleetInv, NEW t \in Callers, Launch(t)
    PROVE  FleetInv'
<1> DEFINE r == Target(t)
<1>1. op[t].pc = "launch" /\ op[t].pc \in Holding
  BY DEF Launch, Holding
<1>2. r # 0 /\ r \in Runtime /\ op[t].ms \in 1..managed /\ phase[r] = "built"
  BY <1>1, TargetsApart DEF FleetInv, Stage
<1>3. op[t].kind \in Building
  BY <1>1 DEF FleetInv, OpOK, Operation
<1>4. PICK o \in Operation : op' = [op EXCEPT ![t] = o] /\ o.pc = "running" /\ o.ms = op[t].ms
  BY <1>3, ContinueMoves DEF Launch, FleetInv, Pc, Holding
<1>5. GoesOn(t, o)
  BY <1>1, <1>2, <1>4 DEF GoesOn, Launch, stations
<1>6. Stage(t)'
  <2>1. op'[t] = o
    BY <1>4 DEF FleetInv, OpOK
  <2>2. Target(t)' = r /\ phase'[r] = "live"
    BY <1>2, <1>4, <2>1 DEF Target, Launch, stations, FleetInv, TypeOK
  <2>3. QED
    BY <1>2, <1>4, <2>1, <2>2 DEF Stage
<1>7. QED
  BY <1>1, <1>2, <1>4, <1>5, <1>6, RuntimeStep DEF Launch, LifecycleState, Live, Fits

LEMMA RunningKeepsInv ==
    ASSUME FleetInv, NEW t \in Callers, Running(t)
    PROVE  FleetInv'
<1> DEFINE r == Target(t)
<1>1. op[t].pc = "running" /\ op[t].pc \in Holding
  BY DEF Running, Holding
<1>2. r # 0 /\ r \in Runtime /\ phase[r] = "live"
  BY <1>1, TargetsApart DEF FleetInv, Stage
<1>3. phase' = [phase EXCEPT ![r] = "live"] /\ state' = [state EXCEPT ![r] = RunningFrom(state[r])]
  BY <1>2 DEF Running, FleetInv, TypeOK
<1>4. PICK o \in Operation : op' = [op EXCEPT ![t] = o] /\ o.pc = "idle"
  BY ReturnMoves DEF Running
<1>5. GoesOn(t, o)
  BY <1>1, <1>4 DEF GoesOn, Running, stations, Holding
<1>6. Stage(t)'
  BY <1>4 DEF FleetInv, OpOK, Stage
<1>7. QED
  BY <1>1, <1>2, <1>3, <1>4, <1>5, <1>6, RuntimeStep DEF Running, RunningFrom, LifecycleState, Live, Fits

\* Stop has returned, and the operation rebuilds, leaves its runtime, removes the
\* station or ends.
LEMMA AfterStopKeepsInv ==
    ASSUME FleetInv, NEW t \in Callers, NEW ok \in BOOLEAN, AfterStop(t, ok)
    PROVE  FleetInv'
<1> DEFINE r == Target(t)
           kind == op[t].kind
           m == op[t].ms
           next == IF Rebuilds(kind, ok) THEN "lookup" ELSE IF kind = "delete" THEN "remove" ELSE "idle"
<1>0. /\ IF ok THEN Stopped(t) ELSE op[t].pc = "drain"
      /\ IF next = "idle" THEN Return(t) ELSE Continue(t, next)
      /\ runtimeOf' = IF ok /\ kind \in {"disable", "reloadStop"} THEN [runtimeOf EXCEPT ![m] = 0]
                      ELSE runtimeOf
      /\ enabledFor' = IF ok /\ kind = "disable" /\ inConfig THEN [enabledFor EXCEPT ![m] = FALSE]
                       ELSE enabledFor
      /\ registered' = IF kind = "reloadRemove" THEN 0 ELSE registered
      /\ astray' = IF kind = "reloadRemove" THEN astray \cup Dropped(registered) ELSE astray
      /\ UNCHANGED <<inConfig, enabled, managed, state, phase, failed, operations>>
  BY DEF AfterStop, config, runtimes
<1> HIDE DEF next
<1>1. op[t].pc \in {"stop", "drain"} /\ op[t].pc \in Holding /\ t \in Pending
  BY <1>0 DEF Stopped, Holding, Pending
<1>2. m \in 1..managed /\ m \in Managed /\ r \in Runtime \cup {0}
  BY <1>1, TargetsApart
<1>3. ok => r = 0 \/ phase[r] = "done"
  BY <1>0, <1>2 DEF Stopped, Drained, TargetIn, FleetInv, TypeOK
<1>4. PICK o \in Operation :
         /\ op' = [op EXCEPT ![t] = o] /\ o.pc \in {"idle", "remove", "lookup"}
         /\ o.pc = "lookup" => o.ms = m /\ ok
  <2>1. CASE next = "idle"
    BY <1>0, <2>1, ReturnMoves
  <2>2. CASE next = "remove"
    BY <1>0, <2>2, ContinueMoves DEF FleetInv, Pc
  <2>3. CASE next = "lookup"
    <3>1. ok /\ kind \in Building
      BY <2>3 DEF next, Rebuilds, Building
    <3>2. QED
      BY <1>0, <2>3, <3>1, ContinueMoves DEF FleetInv, Pc, Holding
  <2>4. QED
    BY <2>1, <2>2, <2>3 DEF next
<1>5. GoesOn(t, o)
  BY <1>0, <1>1, <1>2, <1>4 DEF GoesOn, Holding
<1>6. /\ op'[t] = o /\ \A u \in Callers \ {t} : op'[u] = op[u]
      /\ OpOK' /\ HoldersApart'
      /\ \A u \in Callers : op'[u].pc \in {"idle", "find", "remove"} \/ op'[u].ms \in 1..managed'
  BY <1>5, GoesOnKeeps
<1>7. /\ runtimeOf' \in [Managed -> Runtime \cup {0}]
      /\ \A n \in Managed \ {m} : runtimeOf'[n] = runtimeOf[n]
      /\ runtimeOf'[m] \in {0, runtimeOf[m]}
      /\ runtimeOf'[m] # runtimeOf[m] => ok
  BY <1>0, <1>2 DEF FleetInv, TypeOK
<1>8. TypeOK'
  <2>1. Dropped(registered) \subseteq Runtime
    BY DEF Dropped
  <2>2. enabledFor' \in [Managed -> BOOLEAN]
    BY <1>0 DEF FleetInv, TypeOK
  <2>3. registered' \in 0..managed' /\ astray' \subseteq Runtime
    BY <1>0, <2>1 DEF FleetInv, TypeOK, Managed
  <2>4. \A k, n \in Managed : runtimeOf'[k] = runtimeOf'[n] /\ runtimeOf'[k] # 0 => k = n
    BY <1>2, <1>7 DEF FleetInv, TypeOK
  <2>5. QED
    BY <1>0, <1>6, <1>7, <2>2, <2>3, <2>4 DEF FleetInv, TypeOK
<1>9. Counted'
  BY <1>0, <1>1, <1>4, CountKept
<1>10. \A u \in Callers : Stage(u)'
  <2>1. \A u \in Callers \ {t} : Stage(u)'
    BY <1>0, <1>1, <1>6, <1>7, OthersStage
  <2>2. Stage(t)'
    BY <1>0, <1>3, <1>4, <1>6, <1>7 DEF Stage, Target
  <2>3. QED
    BY <2>1, <2>2
<1>11. Shown'
  BY <1>0, <1>7 DEF FleetInv, Shown
<1>12. Kept'
  <2> SUFFICES ASSUME NEW q \in Runtime, phase[q] \in Live \cup {"built"}, q \notin astray'
               PROVE  registered' # 0 /\ runtimeOf'[registered'] = q
    BY <1>0 DEF Kept
  <2>1. registered \in Managed /\ runtimeOf[registered] = q
    BY <1>0 DEF FleetInv, TypeOK, Kept, Managed
  <2>2. registered' = registered
    BY <1>0, <2>1 DEF Dropped
  <2>3. runtimeOf'[registered] = runtimeOf[registered]
    BY <1>3, <1>7, <2>1 DEF Target, Live
  <2>4. QED
    BY <2>1, <2>2, <2>3 DEF Managed
<1>13. QED
  BY <1>6, <1>8, <1>9, <1>10, <1>11, <1>12 DEF FleetInv

LEMMA RemoveKeepsInv ==
    ASSUME FleetInv, NEW t \in Callers, Remove(t)
    PROVE  FleetInv'
<1>0. /\ op[t].pc = "remove" /\ t \in Pending
      /\ inConfig' \in BOOLEAN /\ enabled' \in BOOLEAN
      /\ \/ registered' = 0 /\ astray' = astray \cup Dropped(registered)
         \/ registered' = registered /\ astray' = astray
      /\ UNCHANGED <<runtimeOf, enabledFor, managed, state, phase, failed, operations>>
  BY DEF Remove, runtimes, Pending, FleetInv, TypeOK
<1>1. PICK o \in Operation : op' = [op EXCEPT ![t] = o] /\ o.pc = "idle"
  BY ReturnMoves DEF Remove
<1>2. GoesOn(t, o)
  BY <1>0, <1>1 DEF GoesOn, Holding
<1>3. /\ op'[t] = o /\ \A u \in Callers \ {t} : op'[u] = op[u]
      /\ OpOK' /\ HoldersApart'
      /\ \A u \in Callers : op'[u].pc \in {"idle", "find", "remove"} \/ op'[u].ms \in 1..managed'
  BY <1>2, GoesOnKeeps
<1>4. TypeOK'
  <2>1. Dropped(registered) \subseteq Runtime
    BY DEF Dropped
  <2>2. registered' \in 0..managed' /\ astray' \subseteq Runtime
    BY <1>0, <2>1 DEF FleetInv, TypeOK, Managed
  <2>3. QED
    BY <1>0, <1>3, <2>2 DEF FleetInv, TypeOK
<1>5. Counted'
  BY <1>0, <1>1, CountKept
<1>6. \A u \in Callers : Stage(u)'
  BY <1>0, <1>1, <1>3 DEF FleetInv, Stage, Target
<1>7. Shown'
  BY <1>0 DEF FleetInv, Shown
<1>8. Kept'
  BY <1>0 DEF FleetInv, Kept, Dropped
<1>9. QED
  BY <1>3, <1>4, <1>5, <1>6, <1>7, <1>8 DEF FleetInv

\* A new runtime gets the next number, and a request that still may build one has
\* left room for it.
LEMMA FreshRuntime ==
    ASSUME FleetInv, NEW t \in Pending
    PROVE  /\ Cardinality(Built) + 1 \in Runtime
           /\ phase[Cardinality(Built) + 1] = "none"
<1>1. t \in Callers /\ Cardinality(Built) \in Nat /\ IsFiniteSet(Pending)
  BY BuiltFinite DEF Pending, FleetInv, Counted
<1>2. Cardinality(Pending) \in Nat /\ Cardinality(Pending) # 0
  BY <1>1, FS_CardinalityType, FS_EmptySet
<1>3. Cardinality(Built) + 1 \in Runtime
  BY <1>1, <1>2 DEF FleetInv, Counted, Runtime
<1>4. QED
  BY <1>1, <1>3 DEF FleetInv, Counted

LEMMA AssignKeepsInv ==
    ASSUME FleetInv, NEW t \in Callers, NEW built \in BOOLEAN, Assign(t, built)
    PROVE  FleetInv'
<1> DEFINE m == op[t].ms
           kind == op[t].kind
           old == IF kind \in {"create", "reloadStart"} THEN Dropped(m) ELSE {}
           r == Cardinality(Built) + 1
<1>0. /\ op[t].pc = "assign" /\ op[t].pc \in Holding /\ t \in Pending /\ kind \in Building
      /\ enabledFor' = [enabledFor EXCEPT ![m] = TRUE]
      /\ astray' = astray \cup old \cup (IF built /\ registered # m THEN {r} ELSE {})
      /\ runtimeOf' = [runtimeOf EXCEPT ![m] = IF built THEN r ELSE 0]
      /\ IF built THEN phase' = [phase EXCEPT ![r] = "built"] /\ Continue(t, "launch")
         ELSE phase' = phase /\ Return(t)
      /\ UNCHANGED <<inConfig, enabled, registered, managed, state, failed, operations>>
  BY DEF Assign, Built, Holding, Pending, config, FleetInv, OpOK, Operation
<1> HIDE DEF r
<1>1. r \in Runtime /\ phase[r] = "none" /\ r # 0 /\ state[r] = "Configured"
  BY <1>0, FreshRuntime DEF r, Runtime, FleetInv, Shown
<1>2. m \in 1..managed /\ m \in Managed /\ Target(t) \in Runtime \cup {0}
  BY <1>0, TargetsApart
<1>3. /\ runtimeOf \in [Managed -> Runtime \cup {0}]
      /\ phase \in [Runtime -> {"none", "built", "done"} \cup Live]
      /\ \A n \in Managed : runtimeOf[n] # r
  BY <1>1 DEF FleetInv, TypeOK, Shown
<1>4. PICK o \in Operation :
         /\ op' = [op EXCEPT ![t] = o] /\ o.pc = IF built THEN "launch" ELSE "idle"
         /\ built => o.ms = m
  BY <1>0, ContinueMoves, ReturnMoves DEF FleetInv, Pc, Holding
<1>5. GoesOn(t, o)
  BY <1>0, <1>2, <1>4 DEF GoesOn, Holding
<1>6. /\ op'[t] = o /\ \A u \in Callers \ {t} : op'[u] = op[u]
      /\ OpOK' /\ HoldersApart'
      /\ \A u \in Callers : op'[u].pc \in {"idle", "find", "remove"} \/ op'[u].ms \in 1..managed'
  BY <1>5, GoesOnKeeps
<1>7. /\ \A n \in Managed \ {m} : runtimeOf'[n] = runtimeOf[n]
      /\ runtimeOf'[m] = IF built THEN r ELSE 0
      /\ \A q \in Runtime \ {r} : phase'[q] = phase[q]
      /\ phase'[r] = IF built THEN "built" ELSE "none"
  BY <1>0, <1>1, <1>2, <1>3
<1>8. TypeOK'
  <2>1. enabledFor' \in [Managed -> BOOLEAN]
    BY <1>0 DEF FleetInv, TypeOK
  <2>2. old \subseteq Runtime
    BY DEF Dropped
  <2>3. registered' \in 0..managed' /\ astray' \subseteq Runtime
    BY <1>0, <1>1, <2>2 DEF FleetInv, TypeOK
  <2>4. /\ runtimeOf' \in [Managed -> Runtime \cup {0}]
        /\ phase' \in [Runtime -> {"none", "built", "done"} \cup Live]
    BY <1>0, <1>1, <1>3
  <2>5. \A k, n \in Managed : runtimeOf'[k] = runtimeOf'[n] /\ runtimeOf'[k] # 0 => k = n
    BY <1>2, <1>3, <1>7 DEF FleetInv, TypeOK
  <2>6. \A q \in Runtime : state'[q] = "Stopped" => phase'[q] = "done"
    BY <1>0, <1>1, <1>7 DEF FleetInv, TypeOK
  <2>7. QED
    BY <1>0, <1>6, <2>1, <2>3, <2>4, <2>5, <2>6 DEF FleetInv, TypeOK
<1>9. Counted'
  <2>1. /\ IsFiniteSet(Pending') /\ Cardinality(Pending') = Cardinality(Pending) - 1
        /\ Cardinality(Pending) \in Nat /\ Cardinality(Pending') \in Nat
    BY <1>0, <1>4, PendingStep DEF FleetInv, Counted
  <2>2. CASE ~built
    <3>1. \A q \in Runtime : phase'[q] = "none" <=> phase[q] = "none"
      BY <1>0, <2>2
    <3>2. QED
      BY <1>0, <1>4, <2>2, <3>1, CountKept
  <2>3. CASE built
    <3>1. Built' = Built \cup {r} /\ r \notin Built
      BY <1>1, <1>7, <2>3 DEF Built
    <3>2. Cardinality(Built') = r /\ Cardinality(Built) \in Nat
      BY <3>1, BuiltFinite, FS_AddElement DEF r
    <3>3. \A q \in Runtime : phase'[q] # "none" <=> q <= r
      <4>1. \A q \in Runtime \ {r} : q <= r <=> q <= Cardinality(Built)
        BY <3>2 DEF r, Runtime
      <4>2. \A q \in Runtime \ {r} : phase'[q] # "none" <=> q <= Cardinality(Built)
        BY <1>7 DEF FleetInv, Counted
      <4>3. phase'[r] # "none" /\ r <= r
        BY <1>7, <2>3, <3>2 DEF r
      <4>4. QED
        BY <4>1, <4>2, <4>3
    <3>4. Cardinality(Built') + Cardinality(Pending') <= operations'
      BY <1>0, <2>1, <3>2 DEF r, FleetInv, Counted
    <3>5. QED
      BY <1>0, <2>1, <3>2, <3>3, <3>4 DEF FleetInv, Counted
  <2>4. QED
    BY <2>2, <2>3
<1>10. \A u \in Callers : Stage(u)'
  <2>1. \A u \in Callers \ {t} : Stage(u)'
    BY <1>0, <1>1, <1>6, <1>7, OthersStage
  <2>2. Stage(t)'
    BY <1>1, <1>4, <1>6, <1>7 DEF Stage, Target
  <2>3. QED
    BY <2>1, <2>2
<1>11. Shown'
  BY <1>0, <1>1, <1>3, <1>7 DEF FleetInv, Shown
<1>12. Kept'
  <2> SUFFICES ASSUME NEW q \in Runtime, phase'[q] \in Live \cup {"built"}, q \notin astray'
               PROVE  registered' # 0 /\ runtimeOf'[registered'] = q
    BY DEF Kept
  <2>1. CASE q = r
    BY <1>0, <1>2, <1>7, <2>1 DEF Live, Managed
  <2>2. CASE q # r
    <3>1. registered # 0 /\ runtimeOf[registered] = q /\ registered \in Managed
      BY <1>0, <1>7, <2>2 DEF FleetInv, TypeOK, Kept, Managed
    <3>2. CASE registered = m
      <4>1. kind \in {"start", "replace"}
        BY <1>0, <1>2, <1>7, <2>2, <3>1, <3>2 DEF Dropped, Building, Managed
      <4>2. phase[q] = "done"
        BY <1>0, <3>1, <3>2, <4>1 DEF FleetInv, Stage, Target, Runtime
      <4>3. QED
        BY <1>7, <2>2, <4>2 DEF Live
    <3>3. CASE registered # m
      BY <1>0, <1>7, <3>1, <3>3
    <3>4. QED
      BY <3>2, <3>3
  <2>3. QED
    BY <2>1, <2>2
<1>13. QED
  BY <1>6, <1>8, <1>9, <1>10, <1>11, <1>12 DEF FleetInv

-----------------------------------------------------------------------------
(* The steps of the goroutines, and the theorems.                          *)

\* BridgeFails and Supervise.
LEMMA GoroutinesKeepInv ==
    ASSUME FleetInv, NEW r \in Runtime, BridgeFails(r) \/ Supervise(r)
    PROVE  FleetInv'
<1>0. /\ state \in [Runtime -> LifecycleState]
      /\ phase \in [Runtime -> {"none", "built", "done"} \cup Live]
      /\ UNCHANGED <<inConfig, enabled, registered, runtimeOf, enabledFor, managed, op, operations, astray>>
      /\ failed' \subseteq Runtime /\ phase[r] \in Live
      /\ \A q \in Runtime \ {r} : state'[q] = state[q] /\ phase'[q] = phase[q]
  BY DEF FleetInv, TypeOK, BridgeFails, Supervise, config, stations, Live
<1>1. \/ phase'[r] = phase[r] /\ state'[r] = "Failed"
      \/ phase[r] = "cancelled" /\ phase'[r] = "done" /\ state'[r] = "Stopped"
  BY <1>0 DEF BridgeFails, Supervise
<1>2. /\ state' \in [Runtime -> LifecycleState]
      /\ phase' \in [Runtime -> {"none", "built", "done"} \cup Live]
  BY <1>0 DEF BridgeFails, Supervise, LifecycleState
<1>3. TypeOK'
  <2>1. \A q \in Runtime : state'[q] = "Stopped" => phase'[q] = "done"
    BY <1>0, <1>1 DEF FleetInv, TypeOK
  <2>2. QED
    BY <1>0, <1>2, <2>1 DEF FleetInv, TypeOK
<1>4. OpOK' /\ HoldersApart'
  BY <1>0 DEF FleetInv, OpOK, HoldersApart
<1>5. Counted'
  <2>1. \A q \in Runtime : phase'[q] = "none" <=> phase[q] = "none"
    BY <1>0, <1>1 DEF Live
  <2>2. Built' = Built /\ Pending' = Pending
    BY <1>0, <2>1 DEF Built, Pending
  <2>3. QED
    BY <1>0, <2>1, <2>2 DEF FleetInv, Counted
<1>6. ASSUME NEW u \in Callers PROVE Stage(u)'
  <2>1. Target(u)' = Target(u)
    BY <1>0 DEF Target
  <2>2. CASE op[u].pc \in Holding
    BY <1>0, <1>1, <2>1, <2>2, TargetsApart DEF FleetInv, Stage
  <2>3. CASE op[u].pc \notin Holding
    BY <1>0, <2>3 DEF Stage, Holding
  <2>4. QED
    BY <2>2, <2>3
<1>7. Shown'
  <2>1. \A m \in Managed : runtimeOf[m] # 0 => runtimeOf[m] \in Runtime
    BY DEF FleetInv, TypeOK
  <2>2. \A q \in Runtime :
           /\ phase'[q] = "done" => state'[q] \in {"Stopped", "Stopping"}
           /\ phase'[q] \in {"none", "built"} => state'[q] = "Configured"
           /\ phase'[q] = "live" => state'[q] \in {"Starting", "Running", "Failed"}
    BY <1>0, <1>1 DEF FleetInv, Shown, Live
  <2>3. \A q \in Runtime : phase[q] # "none" => phase'[q] # "none"
    BY <1>0, <1>1
  <2>4. QED
    BY <1>0, <2>1, <2>2, <2>3 DEF FleetInv, Shown
<1>8. Kept'
  BY <1>0, <1>1 DEF FleetInv, Kept, Live
<1>9. QED
  BY <1>3, <1>4, <1>5, <1>6, <1>7, <1>8 DEF FleetInv

LEMMA FleetInvStep == FleetInv /\ [Next]_vars => FleetInv'
<1> SUFFICES ASSUME FleetInv, [Next]_vars PROVE FleetInv'
  OBVIOUS
<1>1. ASSUME NEW t \in Callers, Request(t) PROVE FleetInv'
  BY <1>1, RequestAsks, AskedKeepsInv
<1>2. ASSUME NEW t \in Callers, Lock(t) PROVE FleetInv'
  BY <1>2, WaysKeepInv
<1>3. ASSUME NEW t \in Callers, Proceed(t) PROVE FleetInv'
  BY <1>3, WaysKeepInv, CancelKeepsInv, MarkKeepsInv, AfterStopKeepsInv, RemoveKeepsInv,
     AssignKeepsInv, LaunchKeepsInv, RunningKeepsInv DEF Proceed
<1>4. ASSUME NEW t \in Callers, AfterStop(t, FALSE) PROVE FleetInv'
  BY <1>4, AfterStopKeepsInv
<1>5. ASSUME NEW t \in Callers, Assign(t, FALSE) PROVE FleetInv'
  BY <1>5, AssignKeepsInv
<1>6. ASSUME NEW r \in Runtime, BridgeFails(r) \/ Supervise(r) PROVE FleetInv'
  BY <1>6, GoroutinesKeepInv
<1>7. CASE UNCHANGED vars
  <2>1. UNCHANGED <<inConfig, enabled, registered, runtimeOf, enabledFor, managed,
                    state, phase, failed, op, operations, astray>>
    BY <1>7 DEF vars, config, stations, runtimes
  <2>2. TypeOK' /\ OpOK' /\ HoldersApart'
    BY <2>1 DEF FleetInv, TypeOK, OpOK, HoldersApart
  <2>3. Counted'
    BY <2>1 DEF FleetInv, Counted, Built, Pending
  <2>4. (\A t \in Callers : Stage(t)') /\ Shown' /\ Kept'
    BY <2>1 DEF FleetInv, Stage, Target, Shown, Kept
  <2>5. QED
    BY <2>2, <2>3, <2>4 DEF FleetInv
<1>8. QED
  BY <1>1, <1>2, <1>3, <1>4, <1>5, <1>6, <1>7 DEF Next

LEMMA FleetInvariant == Spec => []FleetInv
BY InitFleetInv, FleetInvStep, PTL DEF Spec

\* Every state of the fleet manager is well typed, for any number of callers and
\* requests: in particular no two ManagedStations share a runtime, and "Stopped"
\* is shown only once superviseShutdown has seen the goroutines return.
THEOREM FleetTypeCorrect == Spec => []TypeOK
<1>1. FleetInv => TypeOK
  BY DEF FleetInv
<1>2. QED
  BY <1>1, FleetInvariant, PTL

\* Two runtimes of a station run at once only where one is astray: what
\* startLocked, replaceRuntime and stopRuntimeLocked wait for keeps the
\* persistence coordinators of a station's directory apart, however many
\* requests race and however many stops time out.
THEOREM RuntimesWriteApart == Spec => []WritersApart
<1>1. FleetInv => WritersApart
  BY DEF FleetInv, Kept, WritersApart
<1>2. QED
  BY <1>1, FleetInvariant, PTL

\* A running runtime that no operation let go of is the one fm.stations leads
\* to, so StopStation and Shutdown find it.
THEOREM RunningReachable == Spec => []Reachable
<1>1. FleetInv => Reachable
  BY DEF FleetInv, Kept, Reachable, Live
<1>2. QED
  BY <1>1, FleetInvariant, PTL

\* What a step can do to a runtime that failed or has drained.
LEMMA NotResurrectedStep ==
    ASSUME FleetInv, FleetInv', [Next]_vars, NEW r \in Runtime
    PROVE  /\ state[r] = "Failed" => state'[r] # "Running"
           /\ phase[r] = "done" => state'[r] \in {"Stopped", "Stopping"}
<1> USE DEF config, stations, runtimes
<1>0. /\ state \in [Runtime -> LifecycleState]
      /\ phase \in [Runtime -> {"none", "built", "done"} \cup Live]
  BY DEF FleetInv, TypeOK
<1>1. state[r] = "Failed" => state'[r] # "Running"
  <2>1. ASSUME NEW t \in Callers, Mark(t) \/ Launch(t) \/ Running(t)
        PROVE  state[r] = "Failed" => state'[r] # "Running"
    BY <1>0, <2>1 DEF Mark, Launch, Running, ShownWhileDraining, RunningFrom
  <2>2. ASSUME NEW q \in Runtime, BridgeFails(q) \/ Supervise(q)
        PROVE  state[r] = "Failed" => state'[r] # "Running"
    BY <1>0, <2>2 DEF BridgeFails, Supervise
  <2>3. ASSUME NEW t \in Callers, Request(t)
        PROVE  state' = state
    BY <2>3, RequestAsks DEF Asked
  <2>4. ASSUME NEW t \in Callers, NEW b \in BOOLEAN,
               \/ Lock(t) \/ Find(t) \/ Cancel(t) \/ Rejoin(t) \/ AfterStop(t, b)
               \/ Remove(t) \/ Lookup(t) \/ Assign(t, b)
        PROVE  state' = state
    BY <2>4 DEF Lock, Find, Cancel, Rejoin, AfterStop, Remove, Lookup, Assign
  <2>5. QED
    BY <2>1, <2>2, <2>3, <2>4 DEF Next, Proceed, vars
<1>2. phase[r] = "done" => phase'[r] = "done"
  <2>1. ASSUME NEW t \in Callers, Cancel(t)
        PROVE  phase[r] = "done" => phase'[r] = "done"
    BY <1>0, <2>1 DEF Cancel
  <2>2. ASSUME NEW t \in Callers, Launch(t)
        PROVE  phase[r] = "done" => phase'[r] = "done"
    BY <1>0, <2>2 DEF Launch, FleetInv, Stage
  <2>3. ASSUME NEW t \in Callers, NEW b \in BOOLEAN, Assign(t, b)
        PROVE  phase[r] = "done" => phase'[r] = "done"
    <3>1. t \in Pending
      BY <2>3 DEF Assign, Pending
    <3>2. phase[Cardinality(Built) + 1] = "none"
      BY <3>1, FreshRuntime
    <3>3. QED
      BY <1>0, <2>3, <3>2 DEF Assign, Built
  <2>4. ASSUME NEW q \in Runtime, BridgeFails(q) \/ Supervise(q)
        PROVE  phase[r] = "done" => phase'[r] = "done"
    BY <1>0, <2>4 DEF BridgeFails, Supervise
  <2>5. ASSUME NEW t \in Callers, Request(t)
        PROVE  phase' = phase
    BY <2>5, RequestAsks DEF Asked
  <2>6. ASSUME NEW t \in Callers, NEW b \in BOOLEAN,
               \/ Lock(t) \/ Find(t) \/ Mark(t) \/ Rejoin(t) \/ AfterStop(t, b)
               \/ Remove(t) \/ Lookup(t) \/ Running(t)
        PROVE  phase' = phase
    BY <2>6 DEF Lock, Find, Mark, Rejoin, AfterStop, Remove, Lookup, Running
  <2>7. QED
    BY <2>1, <2>2, <2>3, <2>4, <2>5, <2>6 DEF Next, Proceed, vars
<1>3. QED
  BY <1>1, <1>2 DEF FleetInv, Shown

\* setState never shows a failed runtime as Running, and a drained one stays
\* stopped: the late state changes of Start, Stop and the bridge goroutine cannot
\* reach it, since each is made by the holder of its opMu or by a live goroutine.
THEOREM FailedNotResurrected == Spec => NotResurrected
<1>1. FleetInv /\ FleetInv' /\ [Next]_vars =>
        [\A r \in Runtime :
            /\ state[r] = "Failed" => state'[r] # "Running"
            /\ phase[r] = "done" => state'[r] \in {"Stopped", "Stopping"}]_vars
  BY NotResurrectedStep
<1>2. QED
  BY <1>1, FleetInvariant, PTL DEF Spec, NotResurrected
==============================================================================
