-------------------------------- MODULE Charging --------------------------------
(***************************************************************************)
(* Charging profiles: the profile managers of OCPP 1.6                      *)
(* (internal/ocpp/v16/profile_manager.go, profile_manager_persist.go) and   *)
(* 2.0.1 (internal/ocpp/v201/profile_manager.go, persist.go), the requests  *)
(* that fill and empty them (handlers.go of each, and the REST API), the    *)
(* sessions whose current they limit, and their file.                       *)
(*                                                                         *)
(* A station speaks one "version".  Time is counted in steps; a session, a  *)
(* profile and a schedule start on one.  Transaction n is the one of the    *)
(* nth session, 0 none, Provisional one the CSMS has not numbered.  Limits  *)
(* are sets: of profiles with the same stack level the one that counts      *)
(* depends on Go's map order.  Unlimited is the code's nil.  The file holds *)
(* what the manager held at some earlier time (a goroutine writes it after  *)
(* every change; Admission has the steps of such a save).  Units (W and A), *)
(* minimum rates and phase numbers are abstracted; a schedule's Duration is *)
(* stored and, as in the code, never looked at.                             *)
(***************************************************************************)
EXTENDS Integers, FiniteSets, FiniteSetsExt, SequencesExt

CONSTANTS
    Connectors,    \* connectors (EVSEs); 0 is the station
    Versions,      \* the versions to look at
    Catalogue,     \* what the CSMS may set: profiles without a transaction
    Attached,      \* what it may attach to a remote start
    Filters,       \* criteria of ClearChargingProfile: the fields that are given
    ProfileCap,    \* maxProfiles
    Cycle,         \* the length of a recurrence
    Window,        \* the duration asked of GetCompositeSchedule
    Horizon,       \* bound: time
    MaxSessions,   \* bound: sessions ever started
    MaxRequests,   \* bound: requests that change profiles
    MaxRestarts,   \* bound: crashes
    MaxEvents      \* bound: all of these together

ASSUME ChargingAssumption ==
    /\ Connectors \subseteq Nat \ {0}
    /\ Versions \subseteq {"1.6", "2.0.1"}
    /\ {ProfileCap, Cycle, Window} \subseteq Nat \ {0}
    /\ {Horizon, MaxSessions, MaxRequests, MaxRestarts, MaxEvents} \subseteq Nat
    /\ Attached \subseteq Catalogue

\* A period starts some seconds after its schedule (ChargingSchedulePeriod of
\* internal/engine/engine.go).
ASSUME CatalogueAssumption ==
    \A entry \in Catalogue :
        /\ {entry.level, entry.from, entry.to, entry.start} \subseteq Int
        /\ \A i \in DOMAIN entry.periods : entry.periods[i].at \in Nat

Unlimited == 1000
NoTime == -1
Provisional == -1
NoProfile == [id |-> 0]

\* start: when the transaction began; stash: RemoteStartChargingProfile.
Session(n, start, stash) == [n |-> n, tx |-> Provisional, start |-> start, stash |-> stash]
NoSession == [n |-> 0, tx |-> 0, start |-> NoTime, stash |-> NoProfile]

VARIABLES
    version,
    now,
    session,      \* the engine's session on each connector
    pending,      \* pendingRemoteStarts
    saved,        \* both, in the engine's last snapshot on disk
    sessions,     \* sessions started so far
    starting,     \* <<n, c>>: start callbacks (1.6: queued StartTransactions) under way
    ending,       \* <<tx, c>>: stop callbacks under way
    known,        \* txStringToEVSE, as <<n, c>>
    builder,      \* txBuilders: the transaction of each EVSE, 0 for none
    ints,         \* transactions in txIntToEVSE
    handler,      \* a remote start between StartSession and its profile
    profiles,     \* profiles: a catalogue entry with conn, tx and, for history,
                  \* the transaction it was meant for ("for")
    disk,         \* charging_profiles.json, profiles_201.json
    requests, restarts,
    lost          \* history.  2.0.1: <<n, c>> left in known by a crash or by a start
                  \* callback that ran after the stop or before the predecessor's;
                  \* 1.6: sessions <<n, c>> that bear another's number

clock == <<version, now>>
engine == <<session, pending, sessions>>
callbacks == <<starting, ending>>
books == <<known, builder, ints>>
vars == <<clock, engine, saved, callbacks, books, handler, profiles, disk, requests,
          restarts, lost>>

Within == now + sessions + requests + restarts < MaxEvents

NoHandler == [conn |-> 0, n |-> 0, profile |-> NoProfile]

Init ==
    /\ version \in Versions
    /\ now = 0
    /\ session = [c \in Connectors |-> NoSession]
    /\ pending = [c \in Connectors |-> NoSession]
    /\ saved = [session |-> session, pending |-> pending]
    /\ sessions = 0
    /\ starting = {} /\ ending = {}
    /\ known = {} /\ builder = [c \in Connectors |-> 0] /\ ints = {}
    /\ handler = NoHandler
    /\ profiles = {}
    /\ disk = {}
    /\ requests = 0 /\ restarts = 0
    /\ lost = {}

-----------------------------------------------------------------------------
(* What limits a transaction.                                              *)

AppliesTo(p, c) == p.conn \in {c, 0}

Valid(p, t) == p.from <= t /\ t <= p.to

ScheduleStart(p, txStart) == IF p.kind = "Relative" THEN txStart ELSE p.start

Elapsed(p, t, start) == IF p.kind = "Recurring" THEN (t - start) % Cycle ELSE t - start

\* The last listed period that has begun.
ActivePeriods(p, elapsed) == {i \in DOMAIN p.periods : p.periods[i].at <= elapsed}

LimitFromProfile(p, t, txStart) ==
    LET start == ScheduleStart(p, txStart)
        begun == ActivePeriods(p, Elapsed(p, t, start))
    IN  IF start = NoTime \/ t < start \/ begun = {}
        THEN Unlimited
        ELSE p.periods[Max(begun)].limit

\* A TxProfile must name the transaction; another profile may name none (as a
\* fault: or any).
BugInScope(p, tx) == p.purpose = "Tx" => p.tx # 0 /\ p.tx = tx

InScope(p, tx) == IF p.purpose = "Tx" THEN p.tx # 0 /\ p.tx = tx ELSE p.tx \in {0, tx}

Candidates(purpose, c, tx, t) ==
    {p \in profiles : p.purpose = purpose /\ AppliesTo(p, c) /\ Valid(p, t) /\ InScope(p, tx)}

ResolveLimit(purpose, c, tx, t, txStart) ==
    LET found == Candidates(purpose, c, tx, t)
        best == {p \in found : \A q \in found : q.level <= p.level}
    IN  IF found = {} THEN {Unlimited} ELSE {LimitFromProfile(p, t, txStart) : p \in best}

ResolveTxLimit(c, tx, t, txStart) ==
    LET own == ResolveLimit("Tx", c, tx, t, txStart)
    IN  (own \ {Unlimited})
            \cup (IF Unlimited \in own THEN ResolveLimit("TxDefault", c, tx, t, txStart) ELSE {})

Composite(c, tx, t, txStart) ==
    {Min({most, own}) : most \in ResolveLimit("Max", c, tx, t, txStart),
                        own \in ResolveTxLimit(c, tx, t, txStart)}

\* The transaction the engine's GetLimit hook names.  2.0.1: ActiveTxIDForEVSE
\* takes any entry of the EVSE.
ActiveTx(c) ==
    LET entries == {e[1] : e \in {e \in known : e[2] = c}}
    IN  IF version = "1.6" THEN {session[c].tx}
        ELSE IF entries = {} THEN {0} ELSE entries

GetLimit(c, t) == UNION {Composite(c, tx, t, session[c].start) : tx \in ActiveTx(c)}

-----------------------------------------------------------------------------
(* GetCompositeSchedule: the limits at some instants of the window.         *)

Inside == now .. now + Window - 1

Boundaries16(c) ==
    {now} \cup {t \in Inside : \E p \in profiles :
        /\ AppliesTo(p, c) /\ Valid(p, now)
        /\ ScheduleStart(p, session[c].start) # NoTime
        /\ \E i \in DOMAIN p.periods :
               t = ScheduleStart(p, session[c].start) + p.periods[i].at}

\* (As a fault: only the first recurrence has boundaries.)
BugScheduleBoundary(p, t, start) ==
    start # NoTime /\ \E i \in DOMAIN p.periods : t = start + p.periods[i].at

ScheduleBoundary(p, t, start) ==
    /\ start # NoTime
    /\ IF p.kind = "Recurring"
       THEN (t - start) % Cycle \in {0} \cup {p.periods[i].at : i \in DOMAIN p.periods}
       ELSE \E i \in DOMAIN p.periods : t = start + p.periods[i].at

Boundaries201(c) ==
    {now} \cup {t \in Inside : \E p \in profiles :
        /\ AppliesTo(p, c)
        /\ \/ t \in {p.from, p.to}
           \/ ScheduleBoundary(p, t, ScheduleStart(p, session[c].start))}

Boundaries(c) == IF version = "1.6" THEN Boundaries16(c) ELSE Boundaries201(c)

\* What the schedule is sampled with; 2.0.1 asks for no transaction's limits.
Sampled(c, t) ==
    Composite(c, IF version = "1.6" THEN session[c].tx ELSE 0, t, session[c].start)

\* What a reader of the schedule takes the limit at t for: the last period that
\* has begun.  Instants without a limit get no period.
Foretold(c, t) ==
    LET begun == {b \in Boundaries(c) : b <= t}
    IN  UNION {Sampled(c, b) \ {Unlimited} :
                  b \in {b \in begun : \A later \in begun :
                                          later > b => Unlimited \in Sampled(c, later)}}

-----------------------------------------------------------------------------
(* Profiles come and go.                                                   *)

Profile(entry, c, tx, for) ==
    [id |-> entry.id, level |-> entry.level, purpose |-> entry.purpose, kind |-> entry.kind,
     from |-> entry.from, to |-> entry.to, start |-> entry.start, periods |-> entry.periods,
     conn |-> c, tx |-> tx, for |-> for]

\* 1.6: keyed by connector and id, at most ProfileCap (as a fault: one more).
BugSetProfile16(p) ==
    LET same == {q \in profiles : q.conn = p.conn /\ q.id = p.id}
    IN  IF same = {} /\ Cardinality(profiles) > ProfileCap
        THEN UNCHANGED profiles
        ELSE profiles' = (profiles \ same) \cup {p}

SetProfile16(p) ==
    LET same == {q \in profiles : q.conn = p.conn /\ q.id = p.id}
    IN  IF same = {} /\ Cardinality(profiles) >= ProfileCap
        THEN UNCHANGED profiles
        ELSE profiles' = (profiles \ same) \cup {p}

ResolvedEVSE(p) ==
    LET owners == {e[2] : e \in {e \in known : e[1] = p.tx}}
    IN  IF p.conn = 0 /\ owners # {} THEN CHOOSE c \in owners : TRUE ELSE p.conn

\* 2.0.1: keyed by id; a TxProfile without a transaction is dropped.
SetProfile201(p) ==
    IF p.purpose = "Tx" /\ p.tx = 0
    THEN UNCHANGED profiles
    ELSE profiles' = {q \in profiles : q.id # p.id}
                        \cup {[p EXCEPT !.conn = ResolvedEVSE(p)]}

SetProfile(p) == IF version = "1.6" THEN SetProfile16(p) ELSE SetProfile201(p)

\* The CSMS may name a transaction as soon as it has heard of it, and after it.
OnSetChargingProfile(c, entry, tx) ==
    /\ requests < MaxRequests /\ Within
    /\ requests' = requests + 1
    /\ entry.purpose = "Max" => tx = 0
    /\ SetProfile(Profile(entry, c, tx, tx))
    /\ UNCHANGED <<clock, engine, saved, callbacks, books, handler, disk, restarts, lost>>

Matches(p, filter) == \A field \in DOMAIN filter : p[field] = filter[field]
Cleared(filter) == {p \in profiles : Matches(p, filter)}

OnClearChargingProfile(filter) ==
    /\ requests < MaxRequests /\ Within
    /\ requests' = requests + 1
    /\ profiles' = profiles \ Cleared(filter)
    /\ UNCHANGED <<clock, engine, saved, callbacks, books, handler, disk, restarts, lost>>

ClearTxProfiles(n) == {p \in profiles : p.tx # n}

-----------------------------------------------------------------------------
(* Sessions.                                                               *)

\* The engine's startSessionLocked, whose start callback runs afterwards.
Begin(c, stash) ==
    /\ sessions < MaxSessions /\ Within
    /\ sessions' = sessions + 1
    /\ session' = [session EXCEPT ![c] = Session(sessions', now, stash)]
    /\ starting' = starting \cup {<<sessions', c>>}

StartLocal(c) ==
    /\ session[c] = NoSession
    /\ Begin(c, NoProfile)
    /\ UNCHANGED <<clock, pending, saved, ending, books, handler, profiles, disk,
                   requests, restarts, lost>>

\* OnRemoteStartTransaction, OnRequestStartTransaction up to StartSession, which
\* starts the session at once or leaves a pending start.  2.0.1 has handed the
\* profile to the manager by then, even when the start is refused.
OnRemoteStart(c, entry, plugged) ==
    /\ requests < MaxRequests /\ Within
    /\ handler = NoHandler
    /\ requests' = requests + 1
    /\ IF version = "2.0.1"
       THEN SetProfile201(Profile(entry, c, 0, 0))
       ELSE UNCHANGED profiles
    /\ IF session[c] # NoSession
       THEN UNCHANGED <<engine, starting, handler>>
       ELSE IF plugged
       THEN /\ Begin(c, NoProfile)
            /\ handler' = [conn |-> c, n |-> sessions', profile |-> entry]
            /\ UNCHANGED pending
       ELSE /\ pending' = [pending EXCEPT ![c] = Session(0, NoTime, NoProfile)]
            /\ handler' = [conn |-> c, n |-> 0, profile |-> entry]
            /\ UNCHANGED <<session, sessions, starting>>
    /\ UNCHANGED <<clock, saved, ending, books, disk, restarts, lost>>

\* The rest of the handler.  2.0.1: StartSession has returned, so the callback
\* of a session it started has run.
StashProfile ==
    LET c == handler.conn
    IN  /\ handler # NoHandler
        /\ version = "2.0.1" => <<handler.n, c>> \notin starting
        /\ IF version = "1.6"
           THEN SetProfile16(Profile(handler.profile, c, 0, 0))
           ELSE UNCHANGED profiles
        /\ IF session[c] # NoSession
           THEN /\ session' = [session EXCEPT ![c].stash = handler.profile]
                /\ UNCHANGED pending
           ELSE /\ pending' = [pending EXCEPT ![c].stash =
                                  IF pending[c] = NoSession THEN @ ELSE handler.profile]
                /\ UNCHANGED session
        /\ handler' = NoHandler
        /\ UNCHANGED <<clock, sessions, saved, callbacks, books, disk,
                       requests, restarts, lost>>

\* PlugIn with a pending start; with an expired one it only drops it.
PlugIn(c) ==
    /\ pending[c] # NoSession /\ session[c] = NoSession
    /\ Begin(c, pending[c].stash)
    /\ pending' = [pending EXCEPT ![c] = NoSession]
    /\ UNCHANGED <<clock, saved, ending, books, handler, profiles, disk, requests,
                   restarts, lost>>

ExpireStart(c) ==
    /\ pending[c] # NoSession
    /\ pending' = [pending EXCEPT ![c] = NoSession]
    /\ UNCHANGED <<clock, session, sessions, saved, callbacks, books, handler, profiles,
                   disk, requests, restarts, lost>>

\* 1.6: the CSMS's answer to StartTransaction numbers the session that is on the
\* connector by now (SetActiveTransaction).  Answers come in any order: a start
\* may be queued again behind others (see Drain16).
Started16(n, c) ==
    /\ version = "1.6"
    /\ <<n, c>> \in starting
    /\ starting' = starting \ {<<n, c>>}
    /\ session' = [session EXCEPT ![c].tx = IF session[c] = NoSession THEN @ ELSE n]
    /\ lost' = (lost \ {<<n, c>>}) \cup {<<m, c>> : m \in {session[c].n} \ {0, n}}
    /\ UNCHANGED <<clock, pending, sessions, saved, ending, books, handler, profiles,
                   disk, requests, restarts>>

\* 1.6: the start is not queued (no registration), rejected or given up.
Refused16(n, c) ==
    /\ version = "1.6"
    /\ <<n, c>> \in starting
    /\ starting' = starting \ {<<n, c>>}
    /\ UNCHANGED <<clock, engine, saved, ending, books, handler, profiles, disk, requests,
                   restarts, lost>>

\* 2.0.1: allocateStartedRequest, then SetActiveTransaction; both look at the
\* session that is on the connector by now.
Started201(n, c) ==
    /\ version = "2.0.1"
    /\ <<n, c>> \in starting
    /\ starting' = starting \ {<<n, c>>}
    /\ known' = known \cup {<<n, c>>}
    /\ ints' = ints \cup {n}
    /\ builder' = [builder EXCEPT ![c] = n]
    /\ IF session[c].stash # NoProfile
       THEN SetProfile201(Profile(session[c].stash, c, n, n))
       ELSE UNCHANGED profiles
    /\ session' = [session EXCEPT ![c].tx = IF session[c] = NoSession THEN @ ELSE n]
    /\ lost' = lost \cup {<<m, c>> : m \in {n, builder[c]} \ {0, session[c].n}}
    /\ UNCHANGED <<clock, pending, sessions, saved, ending, handler, disk, requests, restarts>>

Stop(c) ==
    /\ session[c] # NoSession
    /\ session' = [session EXCEPT ![c] = NoSession]
    /\ ending' = IF version = "1.6" THEN ending ELSE ending \cup {<<session[c].tx, c>>}
    /\ UNCHANGED <<clock, pending, sessions, saved, starting, books, handler, profiles,
                   disk, requests, restarts, lost>>

\* allocateEndedRequest: the id finds the EVSE, the EVSE the transaction.
Ended(tx, c) ==
    /\ <<tx, c>> \in ending
    /\ ending' = ending \ {<<tx, c>>}
    /\ IF tx \in ints /\ builder[c] # 0
       THEN /\ builder' = [builder EXCEPT ![c] = 0]
            /\ ints' = ints \ {tx}
            /\ known' = {e \in known : e[1] # builder[c]}
            /\ profiles' = ClearTxProfiles(builder[c])
       ELSE UNCHANGED <<builder, ints, known, profiles>>
    /\ UNCHANGED <<clock, engine, saved, starting, handler, disk,
                   requests, restarts, lost>>

Tick ==
    /\ now < Horizon /\ Within
    /\ now' = now + 1
    /\ UNCHANGED <<engine, saved, callbacks, books, handler, profiles, disk, requests,
                   restarts, lost, version>>

-----------------------------------------------------------------------------
(* The file.                                                               *)

\* What it can hold: the 1.6 format has no transaction.
Persisted == IF version = "1.6" THEN {[p EXCEPT !.tx = 0] : p \in profiles} ELSE profiles

Save ==
    /\ restarts < MaxRestarts
    /\ disk' = Persisted
    /\ UNCHANGED <<clock, engine, saved, callbacks, books, handler, profiles, requests,
                   restarts, lost>>

\* The coordinator saves the engine every five seconds, not the profiles.
SaveEngine ==
    /\ restarts < MaxRestarts
    /\ saved' = [session |-> session, pending |-> pending]
    /\ UNCHANGED <<clock, engine, callbacks, books, handler, profiles, disk, requests,
                   restarts, lost>>

\* A crash and a start: the managers' and the engine's LoadState.  A file whose
\* write was cut short is not read; the books of transactions_201.json are
\* written with every change, and a queued StartTransaction is in the queue's
\* file (see Drain16).
Restart(torn) ==
    /\ restarts < MaxRestarts /\ Within
    /\ torn => disk # Persisted
    /\ restarts' = restarts + 1
    /\ session' = saved.session /\ pending' = saved.pending
    /\ disk' = IF torn THEN {} ELSE disk
    /\ profiles' = disk'
    /\ starting' = IF version = "1.6" THEN starting ELSE {}
    /\ ending' = {}
    /\ handler' = NoHandler
    /\ lost' = lost \cup IF version = "1.6"
                         THEN {<<session'[c].n, c>> : c \in {c \in Connectors :
                                  session'[c].tx \notin {Provisional, session'[c].n}}}
                         ELSE {e \in known : session'[e[2]].n # e[1]}
    /\ UNCHANGED <<clock, sessions, saved, books, requests>>

Next ==
    \/ \E c \in Connectors \cup {0}, entry \in Catalogue, tx \in 0..sessions :
           OnSetChargingProfile(c, entry, tx)
    \/ \E filter \in Filters : OnClearChargingProfile(filter)
    \/ \E c \in Connectors : StartLocal(c) \/ PlugIn(c) \/ ExpireStart(c) \/ Stop(c)
    \/ \E c \in Connectors, entry \in Attached, plugged \in BOOLEAN :
           OnRemoteStart(c, entry, plugged)
    \/ StashProfile
    \/ \E n \in 1..sessions, c \in Connectors : 
           Started16(n, c) \/ Refused16(n, c) \/ Started201(n, c)
    \/ \E e \in ending : Ended(e[1], e[2])
    \/ Tick
    \/ Save
    \/ SaveEngine
    \/ \E torn \in BOOLEAN : Restart(torn)

Spec == Init /\ [][Next]_vars

-----------------------------------------------------------------------------
(* Properties.                                                             *)

\* Every variable has its type; an id is stored once (per connector in 1.6), and
\* 1.6 stores at most ProfileCap profiles (profile_manager.go).
TypeOK ==
    /\ version \in Versions /\ now \in 0..Horizon
    /\ \A c \in Connectors : session[c].n \in 0..sessions /\ pending[c].n = 0
    /\ sessions \in 0..MaxSessions
    /\ starting \cup known \subseteq (1..sessions) \X Connectors
    /\ ending \subseteq (Provisional..sessions) \X Connectors
    /\ builder \in [Connectors -> 0..sessions] /\ ints \subseteq 1..sessions
    /\ version = "1.6" => Cardinality(profiles) <= ProfileCap
    /\ \A p, q \in profiles :
           p.id = q.id /\ (version = "1.6" => p.conn = q.conn) => p = q

\* What a composite schedule says of an instant is a limit that holds then, or
\* none holds, and where it says nothing none holds (GetCompositeSchedule of
\* both managers).  Where the code falls short: 1.6 looks at validity only at
\* the start of the window and at recurrence only up to the end of the first
\* cycle; 2.0.1 notices an expiry at the next boundary and leaves out profiles
\* that name a transaction.
Blurred(c, t) ==
    \E p \in profiles :
        /\ AppliesTo(p, c)
        /\ IF version = "1.6"
           THEN \/ p.from \in now + 1 .. t
                \/ p.to \in now .. t - 1
                \/ p.kind = "Recurring" /\ p.start + Cycle <= t
           ELSE \/ p.to \in now .. t - 1 /\ Boundaries(c) \cap (p.to + 1 .. t) = {}
                \/ p.tx # 0 /\ p.tx \in ActiveTx(c)

ScheduleForetells ==
    \A c \in Connectors : \A t \in Inside :
        LET says == Foretold(c, t)
        IN  \/ Blurred(c, t)
            \/ Unlimited \in GetLimit(c, t)
            \/ says # {} /\ says \subseteq GetLimit(c, t)

\* A profile that names a transaction limits no other (resolveLimit of both
\* managers, ClearTxProfilesForTransaction).  Where the code falls short: a 1.6
\* session may bear another's number, before its own start is answered or from
\* then on (a late answer goes to the session it finds), and the 1.6 file forgets
\* the transaction; in 2.0.1 callbacks under way, a crash or callbacks out of
\* order leave other transactions of the EVSE in the bridge's books.
Settled(c) ==
    /\ session[c].n # 0
    /\ IF version = "1.6"
       THEN <<session[c].n, c>> \notin starting \cup lost
       ELSE \A e \in starting \cup ending \cup lost : e[2] # c

LimitsOnlyItsOwn ==
    \A c \in Connectors : Settled(c) =>
        \A tx \in ActiveTx(c), p \in profiles :
            (AppliesTo(p, c) /\ p.purpose # "Max" /\ InScope(p, tx)) =>
                \/ p.for \in {0, session[c].n}
                \/ version = "1.6" /\ p.tx = 0 /\ restarts > 0
=============================================================================
