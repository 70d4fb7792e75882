---------------------------- MODULE ChargingProofs ----------------------------
(***************************************************************************)
(* Proofs about Charging, for any connectors, profiles, criteria and       *)
(* bounds: the manager stores every id once and no more profiles than its  *)
(* capacity, and a profile that names a transaction limits no other.       *)
(***************************************************************************)
EXTENDS Charging, FiniteSetTheorems, WellFoundedInduction, TLAPS

\* Time in a recurrence goes on with the instants, and starts anew.
LEMMA CycleRange ==
    ASSUME NEW C \in Nat \ {0}, NEW a \in Int
    PROVE  a % C \in 0..(C - 1)
OBVIOUS

LEMMA CycleOn ==
    ASSUME NEW C \in Nat \ {0}, NEW a \in Int, NEW d \in Nat, (a % C) + d < C
    PROVE  (a + d) % C = (a % C) + d
OBVIOUS

LEMMA CycleAnew ==
    ASSUME NEW C \in Nat \ {0}, NEW a \in Int
    PROVE  (a + (C - (a % C))) % C = 0
OBVIOUS

LEMMA CycleFirst ==
    ASSUME NEW C \in Nat \ {0}, NEW a \in Nat, a < C
    PROVE  a % C = a
OBVIOUS

USE ChargingAssumption

-----------------------------------------------------------------------------
(* The invariant.                                                          *)

Sessions == [n : 0..sessions, tx : Provisional..sessions, start : Int,
             stash : Attached \cup {NoProfile}]

Typed ==
    /\ version \in Versions /\ now \in 0..Horizon /\ sessions \in 0..MaxSessions
    /\ session \in [Connectors -> Sessions] /\ pending \in [Connectors -> Sessions]
    /\ saved \in [session : [Connectors -> Sessions], pending : [Connectors -> Sessions]]
    /\ starting \subseteq (1..sessions) \X Connectors
    /\ known \subseteq (1..sessions) \X Connectors
    /\ ending \subseteq (Provisional..sessions) \X Connectors
    /\ builder \in [Connectors -> 0..sessions] /\ ints \subseteq 1..sessions
    /\ handler # NoHandler =>
           handler \in [conn : Connectors, n : 0..sessions, profile : Attached]
    /\ restarts \in Nat

\* A start that waits for a plug has no transaction yet.
Waiting == \A c \in Connectors : pending[c].n = 0 /\ saved.pending[c].n = 0

\* 1.6: a session's transaction is its own or none, unless a late answer gave it
\* another's.
Numbered ==
    version = "1.6" =>
        \A c \in Connectors : session[c].n # 0 =>
            \/ session[c].tx \in {Provisional, session[c].n}
            \/ <<session[c].n, c>> \in lost

Shaped(p) ==
    \E entry \in Catalogue, c \in Connectors \cup {0}, tx \in Nat, for \in Nat :
        p = Profile(entry, c, tx, for)

\* What a manager of version v may hold.
Kept(P, v) ==
    /\ \A p \in P : Shaped(p)
    /\ \A p \in P, q \in P : (p.id = q.id /\ (v = "1.6" => p.conn = q.conn)) => p = q
    /\ IsFiniteSet(P)
    /\ v = "1.6" => Cardinality(P) <= ProfileCap

\* A profile names the transaction it is for; 1.6 forgets it in n restarts.
Meant(P, v, n) == \A p \in P : p.tx = p.for \/ (v = "1.6" /\ p.tx = 0 /\ n > 0)

\* 2.0.1: while no callback was lost on an EVSE, the transactions in its books
\* are its builder's, and that is the session's or the session's has yet to start.
Owned ==
    version = "2.0.1" =>
        \A c \in Connectors : (\A e \in lost : e[2] # c) =>
            \A n \in 1..sessions : <<n, c>> \in known =>
                /\ n = builder[c]
                /\ \/ session[c].n \in {0, n}
                   \/ <<session[c].n, c>> \in starting

ChargingInv ==
    /\ Typed
    /\ Waiting
    /\ Numbered
    /\ Kept(profiles, version) /\ Kept(disk, version)
    /\ Meant(profiles, version, restarts) /\ Meant(disk, version, 1)
    /\ Owned

-----------------------------------------------------------------------------
(* Lemmas about what a manager holds.                                      *)

\* A profile has its fields, and keeps its shape on another connector and
\* without its transaction.
LEMMA ProfileShape ==
    ASSUME NEW p, Shaped(p)
    PROVE  /\ p.tx \in Nat /\ p.conn \in Connectors \cup {0}
           /\ \A c \in Connectors \cup {0} :
                  LET q == [p EXCEPT !.conn = c]
                  IN  Shaped(q) /\ q.id = p.id /\ q.conn = c /\ q.tx = p.tx /\ q.for = p.for
           /\ LET q == [p EXCEPT !.tx = 0]
              IN  Shaped(q) /\ q.id = p.id /\ q.conn = p.conn /\ q.tx = 0 /\ q.for = p.for
<1>1. PICK entry \in Catalogue, d \in Connectors \cup {0}, tx \in Nat, for \in Nat :
          p = Profile(entry, d, tx, for)
      BY DEF Shaped
<1>2. p.tx \in Nat /\ p.conn \in Connectors \cup {0}
      BY <1>1 DEF Profile
<1>3. ASSUME NEW c \in Connectors \cup {0}
      PROVE  LET q == [p EXCEPT !.conn = c]
             IN  Shaped(q) /\ q.id = p.id /\ q.conn = c /\ q.tx = p.tx /\ q.for = p.for
      <2>1. [p EXCEPT !.conn = c] = Profile(entry, c, tx, for)
            BY <1>1 DEF Profile
      <2>2. Shaped([p EXCEPT !.conn = c])
            BY <2>1 DEF Shaped
      <2>3. QED BY <1>1, <2>1, <2>2 DEF Profile
<1>4. LET q == [p EXCEPT !.tx = 0]
      IN  Shaped(q) /\ q.id = p.id /\ q.conn = p.conn /\ q.tx = 0 /\ q.for = p.for
      <2>1. [p EXCEPT !.tx = 0] = Profile(entry, d, 0, for)
            BY <1>1 DEF Profile
      <2>2. Shaped([p EXCEPT !.tx = 0])
            BY <2>1 DEF Shaped
      <2>3. QED BY <1>1, <2>1, <2>2 DEF Profile
<1>5. QED BY <1>2, <1>3, <1>4

\* A manager may drop profiles.
LEMMA KeptSubset ==
    ASSUME NEW P, NEW Q, NEW v, Kept(P, v), Q \subseteq P
    PROVE  Kept(Q, v)
<1>1. IsFiniteSet(P)
      BY DEF Kept
<1>2. IsFiniteSet(Q) /\ Cardinality(Q) <= Cardinality(P)
      BY <1>1, FS_Subset
<1>3. Cardinality(Q) \in Nat /\ Cardinality(P) \in Nat
      BY <1>1, <1>2, FS_CardinalityType
<1>4. v = "1.6" => Cardinality(Q) <= ProfileCap
      BY <1>2, <1>3 DEF Kept
<1>5. QED BY <1>2, <1>4 DEF Kept

\* 1.6 replaces the profile with the connector and id, or adds one within its
\* capacity (SetProfile of internal/ocpp/v16/profile_manager.go).
LEMMA SetProfile16Keeps ==
    ASSUME NEW p, Shaped(p), Kept(profiles, "1.6"), SetProfile16(p)
    PROVE  Kept(profiles', "1.6")
<1> DEFINE same == {q \in profiles : q.conn = p.conn /\ q.id = p.id}
           others == profiles \ same
<1>1. CASE profiles' = profiles
      BY <1>1
<1>2. CASE profiles' = others \cup {p} /\ (same # {} \/ ~(Cardinality(profiles) >= ProfileCap))
      <2>1. IsFiniteSet(profiles) /\ Cardinality(profiles) \in Nat /\ Cardinality(profiles) <= ProfileCap
            BY FS_CardinalityType DEF Kept
      <2>2. IsFiniteSet(others) /\ Cardinality(others) \in Nat /\ Cardinality(others) <= Cardinality(profiles)
            BY <2>1, FS_Subset, FS_CardinalityType
      <2>3. Cardinality(others) < ProfileCap
            <3>1. CASE same # {}
                  <4>1. others \subseteq profiles /\ others # profiles
                        BY <3>1
                  <4>2. Cardinality(others) # Cardinality(profiles)
                        BY ONLY <2>1, <4>1, FS_Subset
                  <4>3. QED BY <2>1, <2>2, <4>2
            <3>2. CASE ~(Cardinality(profiles) >= ProfileCap)
                  BY <2>1, <2>2, <3>2
            <3>3. QED BY <1>2, <3>1, <3>2
      <2>4. /\ IsFiniteSet(others \cup {p})
            /\ Cardinality(others \cup {p}) = Cardinality(others) + 1
                   \/ Cardinality(others \cup {p}) = Cardinality(others)
            BY <2>2, FS_AddElement
      <2>5. Cardinality(profiles') <= ProfileCap /\ IsFiniteSet(profiles')
            BY <1>2, <2>2, <2>3, <2>4
      <2>6. \A q \in profiles' : Shaped(q)
            BY <1>2 DEF Kept
      <2>7. ASSUME NEW q \in profiles', NEW r \in profiles', q.id = r.id, q.conn = r.conn
            PROVE  q = r
            BY <1>2, <2>7 DEF Kept
      <2>8. QED BY <2>5, <2>6, <2>7 DEF Kept
<1>3. QED
      <2>1. CASE same = {} /\ Cardinality(profiles) >= ProfileCap
            BY <1>1, <2>1 DEF SetProfile16
      <2>2. CASE ~(same = {} /\ Cardinality(profiles) >= ProfileCap)
            <3>1. profiles' = others \cup {p}
                  BY <2>2 DEF SetProfile16
            <3>2. QED BY <1>2, <2>2, <3>1
      <2>3. QED BY <2>1, <2>2

\* The EVSE a 2.0.1 profile is stored for is one of the station.
LEMMA ResolvedType ==
    ASSUME NEW p, Shaped(p), known \subseteq (1..sessions) \X Connectors
    PROVE  ResolvedEVSE(p) \in Connectors \cup {0}
<1> DEFINE owners == {e[2] : e \in {e \in known : e[1] = p.tx}}
<1>1. owners \subseteq Connectors
      OBVIOUS
<1>2. p.conn \in Connectors \cup {0}
      BY ProfileShape
<1>3. CASE p.conn = 0 /\ owners # {}
      <2>1. (CHOOSE c \in owners : TRUE) \in owners
            BY <1>3
      <2>2. QED BY <1>1, <1>3, <2>1 DEF ResolvedEVSE
<1>4. CASE ~(p.conn = 0 /\ owners # {})
      BY <1>2, <1>4 DEF ResolvedEVSE
<1>5. QED BY <1>3, <1>4

\* 2.0.1 replaces the profile with the id, or adds one (SetProfile of
\* internal/ocpp/v201/profile_manager.go).
LEMMA SetProfile201Keeps ==
    ASSUME NEW p, Shaped(p), Kept(profiles, "2.0.1"), SetProfile201(p),
           known \subseteq (1..sessions) \X Connectors
    PROVE  Kept(profiles', "2.0.1")
<1> DEFINE others == {q \in profiles : q.id # p.id}
           set == [p EXCEPT !.conn = ResolvedEVSE(p)]
<1>1. Shaped(set) /\ set.id = p.id
      BY ProfileShape, ResolvedType
<1>2. CASE profiles' = others \cup {set}
      <2> HIDE DEF set
      <2>1. \A q \in profiles' : Shaped(q)
            BY <1>1, <1>2 DEF Kept
      <2>2. ASSUME NEW q \in profiles', NEW r \in profiles', q.id = r.id
            PROVE  q = r
            BY <1>1, <1>2, <2>2 DEF Kept
      <2>3. IsFiniteSet(profiles')
            <3>1. IsFiniteSet(others)
                  BY FS_Subset DEF Kept
            <3>2. QED BY <1>2, <3>1, FS_AddElement
      <2>4. QED BY <2>1, <2>2, <2>3 DEF Kept
<1>3. CASE profiles' = profiles
      BY <1>3
<1>4. QED BY <1>2, <1>3 DEF SetProfile201

\* A profile that is set as what it is meant for stays so.
LEMMA SetProfileKeeps ==
    ASSUME NEW entry \in Catalogue, NEW c \in Connectors \cup {0}, NEW tx \in Nat,
           version \in {"1.6", "2.0.1"}, Kept(profiles, version),
           known \subseteq (1..sessions) \X Connectors,
           NEW n, Meant(profiles, version, n),
           SetProfile(Profile(entry, c, tx, tx))
    PROVE  Kept(profiles', version) /\ Meant(profiles', version, n)
<1> DEFINE p == Profile(entry, c, tx, tx)
           set == [p EXCEPT !.conn = ResolvedEVSE(p)]
<1>1. Shaped(p) /\ p.tx = p.for
      BY DEF Shaped, Profile
<1> HIDE DEF p
<1>2. CASE version = "1.6"
      <2>1. SetProfile16(p)
            BY <1>2 DEF SetProfile, p
      <2>2. Kept(profiles', version)
            BY <1>1, <1>2, <2>1, SetProfile16Keeps
      <2>3. \A q \in profiles' : q \in profiles \/ q = p
            BY <2>1 DEF SetProfile16
      <2>4. QED BY <1>1, <2>2, <2>3 DEF Meant
<1>3. CASE version = "2.0.1"
      <2>1. SetProfile201(p)
            BY <1>3 DEF SetProfile, p
      <2>2. Kept(profiles', version)
            BY <1>1, <1>3, <2>1, SetProfile201Keeps
      <2>3. \A q \in profiles' : q \in profiles \/ q = set
            BY <2>1 DEF SetProfile201
      <2>4. set.tx = set.for
            BY <1>1, ProfileShape, ResolvedType
      <2> HIDE DEF set
      <2>5. QED BY <2>2, <2>3, <2>4 DEF Meant
<1>4. QED BY <1>2, <1>3

\* What the file can hold is what a manager may hold, without transactions in
\* 1.6 (persistedChargingProfile of profile_manager_persist.go).
LEMMA PersistedKeeps ==
    ASSUME Kept(profiles, version), NEW n, Meant(profiles, version, n),
           version \in {"1.6", "2.0.1"}
    PROVE  Kept(Persisted, version) /\ Meant(Persisted, version, 1)
<1> DEFINE bare(p) == [p EXCEPT !.tx = 0]
<1>1. CASE version = "1.6"
      <2> DEFINE f == [p \in profiles |-> bare(p)]
      <2>1. Persisted = {bare(p) : p \in profiles}
            BY <1>1 DEF Persisted
      <2>2. \A p \in profiles : /\ Shaped(bare(p)) /\ bare(p).tx = 0
                                /\ bare(p).id = p.id /\ bare(p).conn = p.conn
            BY ProfileShape DEF Kept
      <2>3. f \in Surjection(profiles, Persisted)
            BY <2>1 DEF Surjection
      <2>4. IsFiniteSet(profiles) /\ Cardinality(profiles) <= ProfileCap
            BY <1>1 DEF Kept
      <2>5. IsFiniteSet(Persisted) /\ Cardinality(Persisted) <= Cardinality(profiles)
            BY <2>3, <2>4, FS_Surjection
      <2>6. Cardinality(profiles) \in Nat /\ Cardinality(Persisted) \in Nat
            BY <2>4, <2>5, FS_CardinalityType
      <2>7. Cardinality(Persisted) <= ProfileCap
            BY <2>4, <2>5, <2>6
      <2> HIDE DEF bare
      <2>8. \A q \in Persisted : Shaped(q) /\ q.tx = 0
            BY <2>1, <2>2
      <2>9. ASSUME NEW q \in Persisted, NEW r \in Persisted, q.id = r.id, q.conn = r.conn
            PROVE  q = r
            <3>1. PICK q0 \in profiles, r0 \in profiles : q = bare(q0) /\ r = bare(r0)
                  BY <2>1
            <3>2. q0.id = r0.id /\ q0.conn = r0.conn
                  BY <2>2, <2>9, <3>1
            <3>3. q0 = r0
                  BY <3>2 DEF Kept
            <3>4. QED BY <3>1, <3>3
      <2>10. QED BY <1>1, <2>5, <2>7, <2>8, <2>9 DEF Kept, Meant
<1>2. CASE version = "2.0.1"
      BY <1>2 DEF Persisted, Meant
<1>3. QED BY <1>1, <1>2

-----------------------------------------------------------------------------
(* Every step keeps the invariant.                                         *)

\* What a step does to the profiles and their file.
LEMMA ProfilesChange ==
    ASSUME Typed, Next
    PROVE  /\ version' = version
           /\ \/ profiles' \subseteq profiles /\ UNCHANGED <<disk, restarts>>
              \/ \E entry \in Catalogue, c \in Connectors \cup {0}, tx \in Nat :
                     SetProfile(Profile(entry, c, tx, tx)) /\ UNCHANGED <<disk, restarts>>
              \/ disk' = Persisted /\ UNCHANGED <<profiles, restarts>>
              \/ profiles' = disk' /\ disk' \subseteq disk /\ restarts' = restarts + 1
<1>1. ASSUME NEW c \in Connectors \cup {0}, NEW entry \in Catalogue, NEW tx \in 0..sessions,
             OnSetChargingProfile(c, entry, tx)
      PROVE  /\ version' = version /\ UNCHANGED <<disk, restarts>>
             /\ tx \in Nat /\ SetProfile(Profile(entry, c, tx, tx))
      BY <1>1 DEF OnSetChargingProfile, clock, Typed
<1>2. ASSUME NEW filter, OnClearChargingProfile(filter)
      PROVE  version' = version /\ profiles' \subseteq profiles /\ UNCHANGED <<disk, restarts>>
      BY <1>2 DEF OnClearChargingProfile, clock
<1>3. ASSUME NEW c, StartLocal(c) \/ PlugIn(c) \/ ExpireStart(c) \/ Stop(c)
      PROVE  version' = version /\ profiles' \subseteq profiles /\ UNCHANGED <<disk, restarts>>
      BY <1>3 DEF StartLocal, PlugIn, ExpireStart, Stop, clock
<1>4. ASSUME NEW c \in Connectors, NEW entry \in Attached, NEW plugged, OnRemoteStart(c, entry, plugged)
      PROVE  /\ version' = version /\ UNCHANGED <<disk, restarts>>
             /\ \/ profiles' \subseteq profiles
                \/ entry \in Catalogue /\ SetProfile(Profile(entry, c, 0, 0))
      BY <1>4 DEF OnRemoteStart, clock, SetProfile
<1>5. ASSUME StashProfile
      PROVE  /\ version' = version /\ UNCHANGED <<disk, restarts>>
             /\ \/ profiles' \subseteq profiles
                \/ /\ handler.profile \in Catalogue /\ handler.conn \in Connectors
                   /\ SetProfile(Profile(handler.profile, handler.conn, 0, 0))
      <2>1. handler.profile \in Attached /\ handler.conn \in Connectors
            BY <1>5 DEF StashProfile, Typed
      <2>2. QED BY <1>5, <2>1 DEF StashProfile, clock, SetProfile
<1>6. ASSUME NEW n \in 1..sessions, NEW c \in Connectors, Started16(n, c) \/ Refused16(n, c)
      PROVE  version' = version /\ profiles' \subseteq profiles /\ UNCHANGED <<disk, restarts>>
      BY <1>6 DEF Started16, Refused16, clock
<1>7. ASSUME NEW n \in 1..sessions, NEW c \in Connectors, Started201(n, c)
      PROVE  /\ version' = version /\ UNCHANGED <<disk, restarts>>
             /\ \/ profiles' \subseteq profiles
                \/ /\ session[c].stash \in Catalogue /\ n \in Nat
                   /\ SetProfile(Profile(session[c].stash, c, n, n))
      <2>1. session[c] \in Sessions
            BY DEF Typed
      <2>2. session[c].stash \in Attached \cup {NoProfile}
            BY <2>1 DEF Sessions
      <2>3. CASE session[c].stash = NoProfile
            BY <1>7, <2>3 DEF Started201, clock
      <2>4. CASE session[c].stash # NoProfile
            BY <1>7, <2>2, <2>4 DEF Started201, clock, SetProfile, Typed
      <2>5. QED BY <2>3, <2>4
<1>8. ASSUME NEW tx, NEW c, Ended(tx, c)
      PROVE  version' = version /\ profiles' \subseteq profiles /\ UNCHANGED <<disk, restarts>>
      BY <1>8 DEF Ended, clock, ClearTxProfiles
<1>9. ASSUME Tick \/ SaveEngine
      PROVE  version' = version /\ profiles' \subseteq profiles /\ UNCHANGED <<disk, restarts>>
      BY <1>9 DEF Tick, SaveEngine, clock
<1>10. ASSUME Save
       PROVE  version' = version /\ disk' = Persisted /\ UNCHANGED <<profiles, restarts>>
       BY <1>10 DEF Save, clock
<1>11. ASSUME NEW torn, Restart(torn)
       PROVE  /\ version' = version
              /\ profiles' = disk' /\ disk' \subseteq disk /\ restarts' = restarts + 1
       BY <1>11 DEF Restart, clock
<1> DEFINE Sets == \E entry \in Catalogue, c \in Connectors \cup {0}, tx \in Nat :
                      SetProfile(Profile(entry, c, tx, tx)) /\ UNCHANGED <<disk, restarts>>
           Drops == profiles' \subseteq profiles /\ UNCHANGED <<disk, restarts>>
           Loads == profiles' = disk' /\ disk' \subseteq disk /\ restarts' = restarts + 1
<1>12. ASSUME NEW c \in Connectors \cup {0}, NEW entry \in Catalogue, NEW tx \in 0..sessions,
              OnSetChargingProfile(c, entry, tx)
       PROVE  version' = version /\ Sets
       BY <1>1, <1>12
<1>13. ASSUME NEW c \in Connectors, NEW entry \in Attached, NEW plugged \in BOOLEAN,
              OnRemoteStart(c, entry, plugged)
       PROVE  version' = version /\ (Sets \/ Drops)
       BY <1>4, <1>13
<1>14. ASSUME StashProfile
       PROVE  version' = version /\ (Sets \/ Drops)
       BY <1>5, <1>14
<1>15. ASSUME NEW n \in 1..sessions, NEW c \in Connectors, Started201(n, c)
       PROVE  version' = version /\ (Sets \/ Drops)
       BY <1>7, <1>15
<1>16. ASSUME NEW torn \in BOOLEAN, Restart(torn)
       PROVE  version' = version /\ Loads
       BY <1>11, <1>16
<1> HIDE DEF Sets, Loads
<1>17. version' = version /\ (Sets \/ Drops \/ Loads \/ (disk' = Persisted /\ UNCHANGED <<profiles, restarts>>))
       BY <1>2, <1>3, <1>6, <1>8, <1>9, <1>10, <1>12, <1>13, <1>14, <1>15, <1>16 DEF Next
<1>18. QED BY <1>17 DEF Sets, Loads

\* What the manager and the file hold stays right.
LEMMA KeptStep ==
    ASSUME ChargingInv, Next
    PROVE  /\ Kept(profiles', version') /\ Kept(disk', version')
           /\ Meant(profiles', version', restarts') /\ Meant(disk', version', 1)
<1>1. /\ version' = version /\ version \in {"1.6", "2.0.1"} /\ restarts \in Nat
      /\ known \subseteq (1..sessions) \X Connectors
      /\ Kept(profiles, version) /\ Kept(disk, version)
      /\ Meant(profiles, version, restarts) /\ Meant(disk, version, 1)
      BY ProfilesChange DEF ChargingInv, Typed
<1>2. CASE profiles' \subseteq profiles /\ UNCHANGED <<disk, restarts>>
      <2>1. Kept(profiles', version)
            BY <1>1, <1>2, KeptSubset
      <2>2. Meant(profiles', version, restarts)
            BY <1>1, <1>2 DEF Meant
      <2>3. QED BY <1>1, <1>2, <2>1, <2>2
<1>3. ASSUME NEW entry \in Catalogue, NEW c \in Connectors \cup {0}, NEW tx \in Nat,
             SetProfile(Profile(entry, c, tx, tx)), UNCHANGED <<disk, restarts>>
      PROVE  /\ Kept(profiles', version') /\ Kept(disk', version')
             /\ Meant(profiles', version', restarts') /\ Meant(disk', version', 1)
      <2>1. Kept(profiles', version) /\ Meant(profiles', version, restarts)
            BY <1>1, <1>3, SetProfileKeeps
      <2>2. QED BY <1>1, <1>3, <2>1
<1>4. CASE disk' = Persisted /\ UNCHANGED <<profiles, restarts>>
      <2>1. Kept(Persisted, version) /\ Meant(Persisted, version, 1)
            BY <1>1, PersistedKeeps
      <2>2. QED BY <1>1, <1>4, <2>1
<1>5. CASE profiles' = disk' /\ disk' \subseteq disk /\ restarts' = restarts + 1
      <2>1. Kept(disk', version)
            BY <1>1, <1>5, KeptSubset
      <2>2. Meant(disk', version, 1) /\ Meant(disk', version, restarts')
            BY <1>1, <1>5 DEF Meant
      <2>3. QED BY <1>1, <1>5, <2>1, <2>2
<1>6. QED BY <1>2, <1>3, <1>4, <1>5, ProfilesChange DEF ChargingInv

\* A session stays one when more have been started.
LEMMA SessionsGrow ==
    ASSUME sessions \in Nat, sessions' \in Nat, sessions <= sessions'
    PROVE  /\ \A s \in Sessions : s \in Sessions'
           /\ 0..sessions \subseteq 0..sessions' /\ 1..sessions \subseteq 1..sessions'
           /\ Provisional..sessions \subseteq Provisional..sessions'
BY DEF Sessions, Provisional

LEMMA SessionType ==
    ASSUME Typed
    PROVE  /\ NoSession \in Sessions
           /\ \A start \in Int, stash \in Attached \cup {NoProfile} :
                  Session(0, start, stash) \in Sessions
BY DEF Typed, Sessions, NoSession, Session, NoTime, Provisional

\* A session that starts is typed, and so is everything else (startSessionLocked).
LEMMA BeginTyped ==
    ASSUME Typed, NEW c \in Connectors, NEW stash \in Attached \cup {NoProfile}, Begin(c, stash)
    PROVE  /\ sessions' = sessions + 1 /\ sessions' \in 0..MaxSessions
           /\ session' \in [Connectors -> Sessions']
           /\ session' = [session EXCEPT ![c] = Session(sessions', now, stash)]
           /\ starting' = starting \cup {<<sessions', c>>}
           /\ starting' \subseteq (1..sessions') \X Connectors
           /\ \A s \in Sessions : s \in Sessions'
<1>1. sessions' = sessions + 1 /\ sessions \in Nat /\ sessions < MaxSessions
      BY DEF Begin, Typed
<1>2. \A s \in Sessions : s \in Sessions'
      BY <1>1, SessionsGrow
<1>3. Session(sessions', now, stash) \in Sessions'
      BY <1>1 DEF Sessions, Session, Typed, Provisional
<1>4. session' \in [Connectors -> Sessions']
      BY <1>2, <1>3 DEF Begin, Typed
<1>5. starting' \subseteq (1..sessions') \X Connectors
      BY <1>1 DEF Begin, Typed
<1>6. QED BY <1>1, <1>2, <1>4, <1>5 DEF Begin

\* Typed after a step that starts no session.
LEMMA TypedSame ==
    ASSUME Typed, UNCHANGED sessions, version' = version, now' \in 0..Horizon,
           session' \in [Connectors -> Sessions], pending' \in [Connectors -> Sessions],
           saved' \in [session : [Connectors -> Sessions], pending : [Connectors -> Sessions]],
           starting' \subseteq (1..sessions) \X Connectors,
           known' \subseteq (1..sessions) \X Connectors,
           ending' \subseteq (Provisional..sessions) \X Connectors,
           builder' \in [Connectors -> 0..sessions], ints' \subseteq 1..sessions,
           handler' # NoHandler =>
               handler' \in [conn : Connectors, n : 0..sessions, profile : Attached],
           restarts' \in Nat
    PROVE  Typed'
BY DEF Typed, Sessions

\* Typed after a step that starts one and leaves the callbacks and the books alone.
LEMMA TypedBegin ==
    ASSUME Typed, NEW c \in Connectors, NEW stash \in Attached \cup {NoProfile}, Begin(c, stash),
           version' = version, pending' \in [Connectors -> Sessions],
           handler' # NoHandler =>
               handler' \in [conn : Connectors, n : 0..sessions', profile : Attached],
           UNCHANGED <<now, saved, ending, books, restarts>>
    PROVE  Typed'
<1>1. /\ sessions' = sessions + 1 /\ sessions \in Nat /\ sessions' \in 0..MaxSessions
      /\ session' \in [Connectors -> Sessions']
      /\ starting' \subseteq (1..sessions') \X Connectors
      /\ \A s \in Sessions : s \in Sessions'
      BY BeginTyped DEF Typed
<1>2. /\ 1..sessions \subseteq 1..sessions' /\ 0..sessions \subseteq 0..sessions'
      /\ Provisional..sessions \subseteq Provisional..sessions'
      BY <1>1, SessionsGrow
<1>3. /\ pending' \in [Connectors -> Sessions']
      /\ saved' \in [session : [Connectors -> Sessions'], pending : [Connectors -> Sessions']]
      BY <1>1 DEF Typed
<1>4. /\ known' \subseteq (1..sessions') \X Connectors
      /\ ending' \subseteq (Provisional..sessions') \X Connectors
      /\ builder' \in [Connectors -> 0..sessions'] /\ ints' \subseteq 1..sessions'
      BY <1>2 DEF Typed, books
<1>5. QED BY <1>1, <1>3, <1>4 DEF Typed

\* Types, in every step.
LEMMA TypedStep ==
    ASSUME Typed, Waiting, Next
    PROVE  Typed'
<1> USE DEF clock, engine, callbacks, books
<1>1. /\ now \in 0..Horizon /\ sessions \in Nat /\ sessions \in 0..MaxSessions
      /\ session \in [Connectors -> Sessions] /\ pending \in [Connectors -> Sessions]
      /\ starting \subseteq (1..sessions) \X Connectors
      /\ known \subseteq (1..sessions) \X Connectors
      /\ ending \subseteq (Provisional..sessions) \X Connectors
      /\ builder \in [Connectors -> 0..sessions] /\ ints \subseteq 1..sessions
      /\ restarts \in Nat
      BY DEF Typed
<1>2. ASSUME NEW c, NEW entry, NEW tx, OnSetChargingProfile(c, entry, tx)
      PROVE  Typed'
      BY <1>2, TypedSame DEF OnSetChargingProfile, Typed
<1>3. ASSUME NEW filter, OnClearChargingProfile(filter)
      PROVE  Typed'
      BY <1>3, TypedSame DEF OnClearChargingProfile, Typed
<1>4. ASSUME NEW c \in Connectors, StartLocal(c)
      PROVE  Typed'
      <2>1. Begin(c, NoProfile)
            BY <1>4 DEF StartLocal
      <2>2. handler' # NoHandler =>
                handler' \in [conn : Connectors, n : 0..sessions', profile : Attached]
            BY <1>1, <1>4, <2>1, BeginTyped DEF StartLocal, Typed
      <2>3. version' = version /\ UNCHANGED <<now, pending, saved, ending, books, restarts>>
            BY <1>4 DEF StartLocal
      <2>4. QED BY <1>1, <2>1, <2>2, <2>3, TypedBegin
<1>5. ASSUME NEW c \in Connectors, PlugIn(c)
      PROVE  Typed'
      <2>1. Begin(c, pending[c].stash) /\ pending[c].stash \in Attached \cup {NoProfile}
            BY <1>1, <1>5 DEF PlugIn, Sessions
      <2>2. pending' \in [Connectors -> Sessions]
            BY <1>1, <1>5, SessionType DEF PlugIn
      <2>3. handler' # NoHandler =>
                handler' \in [conn : Connectors, n : 0..sessions', profile : Attached]
            BY <1>1, <1>5, <2>1, BeginTyped DEF PlugIn, Typed
      <2>4. version' = version /\ UNCHANGED <<now, saved, ending, books, restarts>>
            BY <1>5 DEF PlugIn
      <2>5. QED BY <2>1, <2>2, <2>3, <2>4, TypedBegin
<1>6. ASSUME NEW c \in Connectors, ExpireStart(c)
      PROVE  Typed'
      <2>1. pending' \in [Connectors -> Sessions]
            BY <1>1, <1>6, SessionType DEF ExpireStart
      <2>2. QED BY <1>6, <2>1, TypedSame DEF ExpireStart, Typed
<1>7. ASSUME NEW c \in Connectors, Stop(c)
      PROVE  Typed'
      <2>1. session' \in [Connectors -> Sessions]
            BY <1>1, <1>7, SessionType DEF Stop
      <2>2. session[c].tx \in Provisional..sessions
            BY <1>1 DEF Sessions
      <2>3. ending' \subseteq (Provisional..sessions) \X Connectors
            BY <1>1, <1>7, <2>2 DEF Stop
      <2>4. QED BY <1>7, <2>1, <2>3, TypedSame DEF Stop, Typed
<1>8. ASSUME NEW c \in Connectors, NEW entry \in Attached, NEW plugged, OnRemoteStart(c, entry, plugged)
      PROVE  Typed'
      <2>0. version' = version /\ UNCHANGED <<now, saved, ending, books, restarts>>
            BY <1>8 DEF OnRemoteStart
      <2>1. CASE session[c] # NoSession
            <3>1. UNCHANGED <<session, pending, sessions, starting, handler>>
                  BY <1>8, <2>1 DEF OnRemoteStart
            <3>2. QED BY <2>0, <3>1, TypedSame DEF Typed
      <2>2. CASE session[c] = NoSession /\ plugged
            <3>1. Begin(c, NoProfile)
                  BY <1>8, <2>2 DEF OnRemoteStart
            <3>2. sessions' \in 0..sessions'
                  BY <3>1, BeginTyped
            <3>3. handler' \in [conn : Connectors, n : 0..sessions', profile : Attached]
                  BY <1>8, <2>2, <3>2 DEF OnRemoteStart
            <3>4. pending' \in [Connectors -> Sessions]
                  BY <1>1, <1>8, <2>2 DEF OnRemoteStart
            <3>5. QED BY <2>0, <3>1, <3>3, <3>4, TypedBegin
      <2>3. CASE session[c] = NoSession /\ ~plugged
            <3>1. Session(0, NoTime, NoProfile) \in Sessions
                  BY SessionType DEF NoTime
            <3>2. pending' \in [Connectors -> Sessions]
                  BY <1>1, <1>8, <2>3, <3>1 DEF OnRemoteStart
            <3>3. handler' \in [conn : Connectors, n : 0..sessions, profile : Attached]
                  BY <1>1, <1>8, <2>3 DEF OnRemoteStart
            <3>4. QED BY <1>8, <2>3, <3>2, <3>3, TypedSame DEF OnRemoteStart, Typed
      <2>4. QED BY <2>1, <2>2, <2>3
<1>9. ASSUME StashProfile
      PROVE  Typed'
      <2> DEFINE d == handler.conn
      <2>1. d \in Connectors /\ handler.profile \in Attached
            BY <1>9 DEF StashProfile, Typed
      <2>2. \A s \in Sessions, e \in Attached : [s EXCEPT !.stash = e] \in Sessions
            BY DEF Sessions
      <2>3. \A s \in Sessions : [s EXCEPT !.stash = s.stash] \in Sessions
            BY DEF Sessions
      <2>4. session' \in [Connectors -> Sessions]
            BY <1>1, <1>9, <2>1, <2>2 DEF StashProfile
      <2>5. pending' \in [Connectors -> Sessions]
            BY <1>1, <1>9, <2>1, <2>2, <2>3 DEF StashProfile
      <2>6. QED BY <1>9, <2>4, <2>5, TypedSame DEF StashProfile, Typed
<1>10. ASSUME NEW n \in 1..sessions, NEW c \in Connectors, Started16(n, c)
       PROVE  Typed'
      <2>1. \A s \in Sessions, t \in Provisional..sessions : [s EXCEPT !.tx = t] \in Sessions
            BY DEF Sessions
      <2>2. session[c].tx \in Provisional..sessions /\ n \in Provisional..sessions
            BY <1>1 DEF Sessions, Provisional
      <2>3. session' \in [Connectors -> Sessions]
            BY <1>1, <1>10, <2>1, <2>2 DEF Started16
      <2>4. QED BY <1>10, <2>3, TypedSame DEF Started16, Typed
<1>11. ASSUME NEW n \in 1..sessions, NEW c \in Connectors, Started201(n, c)
       PROVE  Typed'
      <2>1. \A s \in Sessions, t \in Provisional..sessions : [s EXCEPT !.tx = t] \in Sessions
            BY DEF Sessions
      <2>2. session[c].tx \in Provisional..sessions /\ n \in Provisional..sessions
            BY <1>1 DEF Sessions, Provisional
      <2>3. session' \in [Connectors -> Sessions]
            BY <1>1, <1>11, <2>1, <2>2 DEF Started201
      <2>4. /\ known' \subseteq (1..sessions) \X Connectors /\ ints' \subseteq 1..sessions
            /\ builder' \in [Connectors -> 0..sessions]
            BY <1>1, <1>11 DEF Started201
      <2>5. QED BY <1>11, <2>3, <2>4, TypedSame DEF Started201, Typed
<1>12. ASSUME NEW tx, NEW c, Ended(tx, c)
       PROVE  Typed'
      <2>1. builder' \in [Connectors -> 0..sessions]
            BY <1>1, <1>12 DEF Ended
      <2>2. known' \subseteq (1..sessions) \X Connectors /\ ints' \subseteq 1..sessions
            BY <1>1, <1>12 DEF Ended
      <2>3. QED BY <1>12, <2>1, <2>2, TypedSame DEF Ended, Typed
<1>13. ASSUME Tick
       PROVE  Typed'
      <2>1. now' \in 0..Horizon
            BY <1>1, <1>13 DEF Tick
      <2>2. QED BY <1>13, <2>1, TypedSame DEF Tick, Typed
<1>14. ASSUME Save
       PROVE  Typed'
      BY <1>14, TypedSame DEF Save, Typed
<1>15. ASSUME SaveEngine
       PROVE  Typed'
      BY <1>15, TypedSame DEF SaveEngine, Typed
<1>16. ASSUME NEW torn, Restart(torn)
       PROVE  Typed'
      <2>1. handler' = NoHandler /\ starting' \subseteq (1..sessions) \X Connectors
            BY <1>1, <1>16 DEF Restart
      <2>2. QED BY <1>16, <2>1, TypedSame DEF Restart, Typed
<1>17. ASSUME NEW n \in 1..sessions, NEW c \in Connectors, Refused16(n, c)
       PROVE  Typed'
       BY <1>17, TypedSame DEF Refused16, Typed
<1>18. QED BY <1>2, <1>3, <1>4, <1>5, <1>6, <1>7, <1>8, <1>9, <1>10, <1>11, <1>12, <1>13,
              <1>14, <1>15, <1>16, <1>17 DEF Next

\* What a step does to the starts that wait and to the engine's snapshot.
LEMMA WaitingStep ==
    ASSUME Typed, Waiting, Next
    PROVE  Waiting'
<1> USE DEF clock, engine, callbacks, books
<1>1. /\ pending \in [Connectors -> Sessions]
      /\ saved \in [session : [Connectors -> Sessions], pending : [Connectors -> Sessions]]
      BY DEF Typed
<1>2. CASE UNCHANGED <<pending, saved>>
      BY <1>2 DEF Waiting
<1>3. ASSUME NEW c \in Connectors, PlugIn(c) \/ ExpireStart(c)
      PROVE  Waiting'
      <2>1. pending' = [pending EXCEPT ![c] = NoSession] /\ saved' = saved
            BY <1>3 DEF PlugIn, ExpireStart
      <2>2. QED BY <1>1, <2>1 DEF Waiting, NoSession
<1>4. ASSUME NEW c \in Connectors, NEW entry, NEW plugged, OnRemoteStart(c, entry, plugged)
      PROVE  Waiting'
      <2>1. /\ saved' = saved
            /\ \/ pending' = pending
               \/ pending' = [pending EXCEPT ![c] = Session(0, NoTime, NoProfile)]
            BY <1>4 DEF OnRemoteStart
      <2>2. Session(0, NoTime, NoProfile).n = 0
            BY DEF Session
      <2> HIDE DEF Session
      <2>3. \A e \in Connectors : pending'[e] \in {pending[e], Session(0, NoTime, NoProfile)}
            BY <1>1, <2>1
      <2>4. QED BY <2>1, <2>2, <2>3 DEF Waiting
<1>5. ASSUME StashProfile
      PROVE  Waiting'
      <2> DEFINE d == handler.conn
      <2>1. /\ saved' = saved
            /\ \/ pending' = pending
               \/ \E e : pending' = [pending EXCEPT ![d] = [pending[d] EXCEPT !.stash = e]]
            BY <1>5 DEF StashProfile
      <2>2. d \in Connectors
            BY <1>5 DEF StashProfile, Typed
      <2>3. \A e : [pending[d] EXCEPT !.stash = e].n = pending[d].n
            BY <1>1, <2>2 DEF Sessions
      <2>4. CASE pending' = pending
            BY <2>1, <2>4 DEF Waiting
      <2>5. ASSUME NEW e, pending' = [pending EXCEPT ![d] = [pending[d] EXCEPT !.stash = e]]
            PROVE  \A c \in Connectors : pending'[c].n = pending[c].n
            BY <1>1, <2>2, <2>3, <2>5
      <2>6. QED BY <2>1, <2>4, <2>5 DEF Waiting
<1>6. ASSUME SaveEngine
      PROVE  Waiting'
      BY <1>6 DEF SaveEngine, Waiting
<1>7. ASSUME NEW torn, Restart(torn)
      PROVE  Waiting'
      BY <1>7 DEF Restart, Waiting
<1>8. ASSUME NEW c, NEW entry, NEW tx, OnSetChargingProfile(c, entry, tx)
      PROVE  UNCHANGED <<pending, saved>>
      BY <1>8 DEF OnSetChargingProfile
<1>9. ASSUME NEW c, StartLocal(c) \/ Stop(c)
      PROVE  UNCHANGED <<pending, saved>>
      BY <1>9 DEF StartLocal, Stop
<1>10. ASSUME NEW c, NEW n, Started16(n, c) \/ Refused16(n, c) \/ Started201(n, c) \/ Ended(n, c)
       PROVE  UNCHANGED <<pending, saved>>
       BY <1>10 DEF Started16, Refused16, Started201, Ended
<1>11. ASSUME NEW filter, OnClearChargingProfile(filter)
       PROVE  UNCHANGED <<pending, saved>>
       BY <1>11 DEF OnClearChargingProfile
<1>12. ASSUME Tick \/ Save
       PROVE  UNCHANGED <<pending, saved>>
       BY <1>12 DEF Tick, Save
<1>13. QED BY <1>2, <1>3, <1>4, <1>5, <1>6, <1>7, <1>8, <1>9, <1>10, <1>11, <1>12 DEF Next

\* How the session of a connector d changes.
LEMMA SessionChange ==
    ASSUME Typed, Waiting, Next, NEW d \in Connectors
    PROVE  \/ session'[d].n = session[d].n /\ session'[d].tx = session[d].tx
           \/ session'[d] = NoSession
           \/ session'[d].n = sessions' /\ session'[d].tx = Provisional
              /\ <<session'[d].n, d>> \in starting'
           \/ session'[d] = saved.session[d] /\ \E torn \in BOOLEAN : Restart(torn)
           \/ /\ session'[d].n = session[d].n
              /\ \E n \in 1..sessions, c \in Connectors : Started16(n, c) \/ Started201(n, c)
<1> USE DEF clock, engine, callbacks, books
<1> DEFINE Same == session'[d].n = session[d].n /\ session'[d].tx = session[d].tx
           New == /\ session'[d].n = sessions' /\ session'[d].tx = Provisional
                  /\ <<session'[d].n, d>> \in starting'
           Begun == /\ session'[d].n = session[d].n
                    /\ \E n \in 1..sessions, c \in Connectors : Started16(n, c) \/ Started201(n, c)
<1>1. session \in [Connectors -> Sessions] /\ session[d] \in Sessions
      BY DEF Typed
<1>2. session' = session => Same
      OBVIOUS
<1>3. ASSUME NEW c \in Connectors, NEW stash, Begin(c, stash)
      PROVE  Same \/ New
      <2>1. CASE c = d
            BY <1>1, <1>3, <2>1 DEF Begin, Session
      <2>2. CASE c # d
            BY <1>1, <1>3, <2>2 DEF Begin
      <2>3. QED BY <2>1, <2>2
<1>4. ASSUME NEW c \in Connectors, StartLocal(c) \/ PlugIn(c) \/ ExpireStart(c) \/ Stop(c)
      PROVE  Same \/ New \/ session'[d] = NoSession
      BY <1>1, <1>2, <1>3, <1>4 DEF StartLocal, PlugIn, ExpireStart, Stop
<1>5. ASSUME NEW c \in Connectors, NEW entry, NEW plugged, OnRemoteStart(c, entry, plugged)
      PROVE  Same \/ New
      BY <1>2, <1>3, <1>5 DEF OnRemoteStart
<1>6. ASSUME StashProfile
      PROVE  Same
      <2> DEFINE stashed(e) == [session[d] EXCEPT !.stash = e]
      <2>1. \A e : stashed(e).n = session[d].n /\ stashed(e).tx = session[d].tx
            BY <1>1 DEF Sessions
      <2>2. session' = session \/ session' = [session EXCEPT ![handler.conn].stash = handler.profile]
            BY <1>6 DEF StashProfile
      <2>3. session'[d] = session[d] \/ session'[d] = stashed(handler.profile)
            BY <1>1, <2>2
      <2> HIDE DEF stashed
      <2>4. QED BY <2>1, <2>3
<1>7. ASSUME NEW n \in 1..sessions, NEW c \in Connectors, Started16(n, c) \/ Started201(n, c)
      PROVE  Begun
      <2>1. \A t : [session[d] EXCEPT !.tx = t].n = session[d].n
            BY <1>1 DEF Sessions
      <2>2. session' = [session EXCEPT ![c].tx = IF session[c] = NoSession THEN @ ELSE n]
            BY <1>7 DEF Started16, Started201
      <2>3. session'[d].n = session[d].n
            <3>1. CASE c = d
                  BY <1>1, <2>1, <2>2, <3>1
            <3>2. CASE c # d
                  BY <1>1, <2>2, <3>2
            <3>3. QED BY <3>1, <3>2
      <2>4. QED BY <1>7, <2>3
<1>8. ASSUME NEW torn \in BOOLEAN, Restart(torn)
      PROVE  session'[d] = saved.session[d] /\ \E t \in BOOLEAN : Restart(t)
      BY <1>8 DEF Restart
<1>9. ASSUME NEW c, NEW n, Ended(n, c)
      PROVE  session' = session
      BY <1>9 DEF Ended
<1>10. ASSUME NEW c, NEW entry, NEW tx, OnSetChargingProfile(c, entry, tx)
       PROVE  session' = session
       BY <1>10 DEF OnSetChargingProfile
<1>11. ASSUME NEW filter, OnClearChargingProfile(filter)
       PROVE  session' = session
       BY <1>11 DEF OnClearChargingProfile
<1>12. ASSUME Tick \/ Save \/ SaveEngine \/ \E n \in 1..sessions, c \in Connectors : Refused16(n, c)
       PROVE  session' = session
       BY <1>12 DEF Tick, Save, SaveEngine, Refused16
<1> DEFINE Back == session'[d] = saved.session[d] /\ \E torn \in BOOLEAN : Restart(torn)
<1>13. ASSUME NEW torn \in BOOLEAN, Restart(torn) PROVE Back
       BY <1>8, <1>13
<1> HIDE DEF Same, New, Begun, Back
<1>14. Same \/ New \/ Begun \/ Back \/ session'[d] = NoSession
       BY <1>2, <1>4, <1>5, <1>6, <1>7, <1>9, <1>10, <1>11, <1>12, <1>13 DEF Next
<1>15. QED BY <1>14 DEF Same, New, Begun, Back

LEMMA NumberedStep ==
    ASSUME Typed, Waiting, Numbered, Next
    PROVE  Numbered'
<1>1. SUFFICES ASSUME version = "1.6", NEW d \in Connectors, session'[d].n # 0
               PROVE  \/ session'[d].tx \in {Provisional, session'[d].n}
                      \/ <<session'[d].n, d>> \in lost'
      BY ProfilesChange DEF Numbered
<1>2. /\ session \in [Connectors -> Sessions] /\ session[d] \in Sessions
      /\ session[d].n # 0 => \/ session[d].tx \in {Provisional, session[d].n}
                             \/ <<session[d].n, d>> \in lost
      BY <1>1 DEF Typed, Numbered
<1>3. ASSUME NEW n \in 1..sessions, NEW c \in Connectors, Started16(n, c)
      PROVE  \/ session'[d].tx \in {Provisional, session'[d].n}
             \/ <<session'[d].n, d>> \in lost'
      <2>1. /\ session' = [session EXCEPT ![c].tx = IF session[c] = NoSession THEN @ ELSE n]
            /\ lost' = (lost \ {<<n, c>>}) \cup {<<m, c>> : m \in {session[c].n} \ {0, n}}
            BY <1>3 DEF Started16
      <2>2. CASE c # d
            <3>1. session'[d] = session[d]
                  BY <1>2, <2>1, <2>2
            <3>2. <<session[d].n, d>> \in lost => <<session[d].n, d>> \in lost'
                  BY <2>1, <2>2
            <3>3. QED BY <1>1, <1>2, <3>1, <3>2
      <2>3. CASE c = d /\ session[d] # NoSession
            <3>1. session'[d] = [session[d] EXCEPT !.tx = n]
                  BY <1>2, <2>1, <2>3
            <3>2. session'[d].n = session[d].n /\ session'[d].tx = n
                  BY <1>2, <3>1 DEF Sessions
            <3>3. CASE session[d].n # n
                  BY <1>1, <2>1, <2>3, <3>2, <3>3
            <3>4. QED BY <3>2, <3>3
      <2>4. CASE c = d /\ session[d] = NoSession
            <3>1. session'[d] = [session[d] EXCEPT !.tx = session[d].tx]
                  BY <1>2, <2>1, <2>4
            <3>2. session'[d].n = session[d].n
                  BY <1>2, <3>1 DEF Sessions
            <3>3. QED BY <1>1, <2>4, <3>2 DEF NoSession
      <2>5. QED BY <2>2, <2>3, <2>4
<1>4. ASSUME NEW torn \in BOOLEAN, Restart(torn)
      PROVE  \/ session'[d].tx \in {Provisional, session'[d].n}
             \/ <<session'[d].n, d>> \in lost'
      <2>1. SUFFICES ASSUME session'[d].tx \notin {Provisional, session'[d].n}
                     PROVE  <<session'[d].n, d>> \in lost'
            OBVIOUS
      <2>2. lost' = lost \cup {<<session'[c].n, c>> : c \in {c \in Connectors :
                                   session'[c].tx \notin {Provisional, session'[c].n}}}
            BY <1>1, <1>4 DEF Restart
      <2>3. QED BY <2>1, <2>2
<1>5. \/ lost' = lost
      \/ \E n \in 1..sessions, c \in Connectors : Started16(n, c)
      \/ \E torn \in BOOLEAN : Restart(torn)
      <2>1. ASSUME NEW c, StartLocal(c) \/ PlugIn(c) \/ ExpireStart(c) \/ Stop(c)
            PROVE  lost' = lost
            BY <2>1 DEF StartLocal, PlugIn, ExpireStart, Stop
      <2>2. ASSUME NEW c, NEW n, Refused16(n, c) \/ Ended(n, c)
            PROVE  lost' = lost
            BY <2>2 DEF Refused16, Ended
      <2>3. ASSUME NEW c, NEW entry, NEW x, OnSetChargingProfile(c, entry, x) \/ OnRemoteStart(c, entry, x)
            PROVE  lost' = lost
            BY <2>3 DEF OnSetChargingProfile, OnRemoteStart
      <2>4. ASSUME NEW filter, OnClearChargingProfile(filter)
            PROVE  lost' = lost
            BY <2>4 DEF OnClearChargingProfile
      <2>5. ASSUME StashProfile \/ Tick \/ Save \/ SaveEngine
            PROVE  lost' = lost
            BY <2>5 DEF StashProfile, Tick, Save, SaveEngine
      <2>6. \A n, c : ~Started201(n, c)
            BY <1>1 DEF Started201
      <2>7. QED BY <2>1, <2>2, <2>3, <2>4, <2>5, <2>6 DEF Next
<1>6. CASE lost' = lost /\ ~\E n \in 1..sessions, c \in Connectors : Started16(n, c)
      <2>1. \A n, c : ~Started201(n, c)
            BY <1>1 DEF Started201
      <2>2. CASE \E torn \in BOOLEAN : Restart(torn)
            BY <1>4, <2>2
      <2>3. CASE ~\E torn \in BOOLEAN : Restart(torn)
            <3>1. \/ session'[d].n = session[d].n /\ session'[d].tx = session[d].tx
                  \/ session'[d] = NoSession
                  \/ session'[d].tx = Provisional
                  BY <1>6, <2>1, <2>3, SessionChange
            <3>2. QED BY <1>1, <1>2, <1>6, <3>1 DEF NoSession
      <2>4. QED BY <2>2, <2>3
<1>7. QED BY <1>3, <1>4, <1>5, <1>6

\* What a step does to the books and the callbacks of 2.0.1.
LEMMA BooksChange ==
    ASSUME Typed, Next, version = "2.0.1"
    PROVE  \/ UNCHANGED <<books, lost>> /\ \A e \in starting : e \in starting'
           \/ \E n \in 1..sessions, c \in Connectors : Started201(n, c)
           \/ \E e \in ending : Ended(e[1], e[2])
           \/ \E torn \in BOOLEAN : Restart(torn)
<1> USE DEF clock, engine, callbacks
<1>1. ASSUME NEW c, StartLocal(c) \/ PlugIn(c) \/ ExpireStart(c) \/ Stop(c)
      PROVE  UNCHANGED <<books, lost>> /\ \A e \in starting : e \in starting'
      BY <1>1 DEF StartLocal, PlugIn, ExpireStart, Stop, Begin
<1>2. ASSUME NEW c, NEW entry, NEW x, OnSetChargingProfile(c, entry, x) \/ OnRemoteStart(c, entry, x)
      PROVE  UNCHANGED <<books, lost>> /\ \A e \in starting : e \in starting'
      BY <1>2 DEF OnSetChargingProfile, OnRemoteStart, Begin
<1>3. ASSUME NEW filter, OnClearChargingProfile(filter)
      PROVE  UNCHANGED <<books, lost>> /\ \A e \in starting : e \in starting'
      BY <1>3 DEF OnClearChargingProfile
<1>4. ASSUME StashProfile \/ Tick \/ Save \/ SaveEngine
      PROVE  UNCHANGED <<books, lost>> /\ \A e \in starting : e \in starting'
      BY <1>4 DEF StashProfile, Tick, Save, SaveEngine
<1>5. \A n, c : ~Started16(n, c) /\ ~Refused16(n, c)
      BY DEF Started16, Refused16
<1>6. QED BY <1>1, <1>2, <1>3, <1>4, <1>5 DEF Next

LEMMA OwnedStep ==
    ASSUME Typed, Waiting, Owned, Next
    PROVE  Owned'
<1>1. SUFFICES ASSUME version' = "2.0.1", NEW c \in Connectors, \A e \in lost' : e[2] # c,
                      NEW n \in 1..sessions', <<n, c>> \in known'
               PROVE  /\ n = builder'[c]
                      /\ \/ session'[c].n \in {0, n}
                         \/ <<session'[c].n, c>> \in starting'
      BY DEF Owned
<1>2. version = "2.0.1"
      BY <1>1, ProfilesChange
<1>3. /\ known \subseteq (1..sessions) \X Connectors
      /\ session \in [Connectors -> Sessions]
      /\ builder \in [Connectors -> 0..sessions] /\ sessions \in Nat
      BY DEF Typed
<1>4. ASSUME \A e \in lost : e \in lost', <<n, c>> \in known
      PROVE  /\ n \in 1..sessions /\ n = builder[c]
             /\ \/ session[c].n \in {0, n}
                \/ <<session[c].n, c>> \in starting
      <2>1. n \in 1..sessions
            BY <1>3, <1>4
      <2>2. \A e \in lost : e[2] # c
            BY <1>1, <1>4
      <2>3. QED BY <1>2, <1>4, <2>1, <2>2 DEF Owned
<1>5. CASE UNCHANGED <<books, lost>> /\ (\A e \in starting : e \in starting') /\ ~\E torn \in BOOLEAN : Restart(torn)
      <2>1. /\ n = builder'[c] /\ n = builder[c]
            /\ session[c].n \in {0, n} \/ <<session[c].n, c>> \in starting'
            BY <1>1, <1>4, <1>5 DEF books
      <2>2. \/ session'[c].n = session[c].n
            \/ session'[c].n = 0
            \/ <<session'[c].n, c>> \in starting'
            BY <1>5, SessionChange DEF NoSession
      <2>3. QED BY <2>1, <2>2
<1>6. ASSUME NEW m \in 1..sessions, NEW d \in Connectors, Started201(m, d)
      PROVE  /\ n = builder'[c]
             /\ \/ session'[c].n \in {0, n}
                \/ <<session'[c].n, c>> \in starting'
      <2>1. /\ known' = known \cup {<<m, d>>} /\ builder' = [builder EXCEPT ![d] = m]
            /\ starting' = starting \ {<<m, d>>}
            /\ lost' = lost \cup {<<k, d>> : k \in {m, builder[d]} \ {0, session[d].n}}
            /\ session' = [session EXCEPT ![d].tx = IF session[d] = NoSession THEN @ ELSE m]
            BY <1>6 DEF Started201
      <2>2. session'[c].n = session[c].n
            <3>1. \A t : [session[c] EXCEPT !.tx = t].n = session[c].n
                  BY <1>3 DEF Sessions
            <3>2. CASE c = d
                  BY <1>3, <2>1, <3>1, <3>2
            <3>3. CASE c # d
                  BY <1>3, <2>1, <3>3
            <3>4. QED BY <3>2, <3>3
      <2>3. \A e \in lost : e \in lost'
            BY <2>1
      <2>4. CASE c = d
            <3>1. ASSUME NEW k \in {m, builder[d]}, k # 0, k # session[d].n
                  PROVE  FALSE
                  <4>1. <<k, d>> \in lost'
                        BY <2>1, <3>1
                  <4>2. QED BY <1>1, <2>4, <4>1
            <3>2. m = session[c].n /\ builder[c] \in {0, m}
                  BY <1>3, <2>4, <3>1
            <3>3. CASE <<n, c>> \in known
                  BY <1>3, <1>4, <2>1, <2>2, <2>3, <2>4, <3>2, <3>3
            <3>4. CASE n = m
                  BY <1>3, <2>1, <2>2, <2>4, <3>2, <3>4
            <3>5. QED BY <1>1, <2>1, <3>3, <3>4
      <2>5. CASE c # d
            <3>1. <<n, c>> \in known /\ builder'[c] = builder[c]
                  BY <1>1, <1>3, <2>1, <2>5
            <3>2. QED BY <1>4, <2>1, <2>2, <2>3, <2>5, <3>1
      <2>6. QED BY <2>4, <2>5
<1>7. ASSUME NEW e \in ending, Ended(e[1], e[2])
      PROVE  /\ n = builder'[c]
             /\ \/ session'[c].n \in {0, n}
                \/ <<session'[c].n, c>> \in starting'
      <2>1. /\ UNCHANGED <<session, starting, lost>>
            /\ \/ UNCHANGED <<builder, known>>
               \/ /\ builder' = [builder EXCEPT ![e[2]] = 0]
                  /\ known' = {f \in known : f[1] # builder[e[2]]}
            BY <1>7 DEF Ended, engine
      <2>2. <<n, c>> \in known
            BY <1>1, <2>1
      <2>3. /\ n = builder[c]
            /\ session[c].n \in {0, n} \/ <<session[c].n, c>> \in starting
            BY <1>4, <2>1, <2>2
      <2>4. builder'[c] = builder[c]
            <3>1. CASE UNCHANGED <<builder, known>>
                  BY <3>1
            <3>2. CASE /\ builder' = [builder EXCEPT ![e[2]] = 0]
                       /\ known' = {f \in known : f[1] # builder[e[2]]}
                  <4>1. <<n, c>>[1] # builder[e[2]]
                        BY <1>1, <3>2
                  <4>2. e[2] # c
                        BY <2>3, <4>1
                  <4>3. QED BY <1>3, <3>2, <4>2
            <3>3. QED BY <2>1, <3>1, <3>2
      <2>5. QED BY <2>1, <2>3, <2>4
<1>8. ASSUME NEW torn \in BOOLEAN, Restart(torn)
      PROVE  /\ n = builder'[c]
             /\ \/ session'[c].n \in {0, n}
                \/ <<session'[c].n, c>> \in starting'
      <2>1. /\ known' = known /\ builder' = builder
            /\ lost' = lost \cup {e \in known : session'[e[2]].n # e[1]}
            BY <1>2, <1>8 DEF Restart, books
      <2>2. n = builder[c]
            BY <1>1, <1>4, <2>1
      <2>3. session'[c].n = n
            <3>1. SUFFICES ASSUME session'[c].n # n PROVE FALSE
                  OBVIOUS
            <3>2. <<n, c>> \in lost'
                  BY <1>1, <2>1, <3>1
            <3>3. QED BY <1>1, <3>2
      <2>4. QED BY <2>1, <2>2, <2>3
<1>9. QED BY <1>2, <1>5, <1>6, <1>7, <1>8, BooksChange

-----------------------------------------------------------------------------
(* The theorems.                                                           *)

LEMMA ChargingInit == Init => ChargingInv
<1> SUFFICES ASSUME Init PROVE ChargingInv
      OBVIOUS
<1> USE DEF Init
<1>1. NoSession \in Sessions
      BY DEF Sessions, NoSession, NoTime, Provisional
<1>2. Typed
      BY <1>1 DEF Typed
<1>3. Waiting /\ Numbered
      BY DEF Waiting, Numbered, NoSession
<1>4. Kept({}, version) /\ Meant({}, version, 0) /\ Meant({}, version, 1)
      <2>1. IsFiniteSet({}) /\ Cardinality({}) = 0
            BY FS_EmptySet
      <2>2. QED BY <2>1 DEF Kept, Meant
<1>5. Owned
      BY DEF Owned
<1>6. QED BY <1>2, <1>3, <1>4, <1>5 DEF ChargingInv

LEMMA ChargingStep == ChargingInv /\ [Next]_vars => ChargingInv'
<1>1. SUFFICES ASSUME ChargingInv, [Next]_vars PROVE ChargingInv'
      OBVIOUS
<1>2. CASE Next
      <2>1. Typed' /\ Waiting' /\ Numbered' /\ Owned'
            BY <1>1, <1>2, TypedStep, WaitingStep, NumberedStep, OwnedStep DEF ChargingInv
      <2>2. /\ Kept(profiles', version') /\ Kept(disk', version')
            /\ Meant(profiles', version', restarts') /\ Meant(disk', version', 1)
            BY <1>1, <1>2, KeptStep
      <2>3. QED BY <2>1, <2>2 DEF ChargingInv
<1>3. CASE UNCHANGED vars
      BY <1>1, <1>3 DEF vars, clock, engine, callbacks, books, ChargingInv, Typed, Sessions,
             Waiting, Numbered, Kept, Meant, Owned
<1>4. QED BY <1>1, <1>2, <1>3

\* The invariant holds in every state of every behaviour.
THEOREM ChargingAlways == Spec => []ChargingInv
<1>1. QED BY ChargingInit, ChargingStep, PTL DEF Spec

\* Every variable has its type, an id is stored once and 1.6 holds no more
\* profiles than its capacity, also in what a restart reads from the file
\* (SetProfile and LoadState of both managers).
THEOREM ChargingTypeCorrect == Spec => []TypeOK
<1>1. ChargingInv => TypeOK
      <2>1. SUFFICES ASSUME ChargingInv PROVE TypeOK
            OBVIOUS
      <2>2. Typed /\ Waiting /\ Kept(profiles, version)
            BY <2>1 DEF ChargingInv
      <2>3. \A c \in Connectors : session[c].n \in 0..sessions /\ pending[c].n = 0
            BY <2>2 DEF Typed, Sessions, Waiting
      <2>4. QED BY <2>2, <2>3 DEF TypeOK, Typed, Kept
<1>2. QED BY <1>1, ChargingAlways, PTL

\* A profile that names a transaction limits no other (resolveLimit of both
\* managers, SetActiveTransaction, ActiveTxIDForEVSE).  1.6: once its own start is
\* answered, a session asks for its own transaction's limits, unless another's
\* answer came after that or its own was never to come (lost).  2.0.1: with no
\* callback under way or lost on an EVSE, the books name its session's
\* transaction.  A profile in scope is for that one or for any.
THEOREM ProfilesLimitTheirOwn == Spec => []LimitsOnlyItsOwn
<1>1. ASSUME ChargingInv PROVE LimitsOnlyItsOwn
      <2>1. SUFFICES ASSUME NEW c \in Connectors, Settled(c), NEW tx \in ActiveTx(c),
                            NEW p \in profiles, InScope(p, tx)
                     PROVE  \/ p.for \in {0, session[c].n}
                            \/ version = "1.6" /\ p.tx = 0 /\ restarts > 0
            BY DEF LimitsOnlyItsOwn
      <2>2. /\ p.tx \in Nat /\ p.tx \in {0, tx}
            /\ p.tx = p.for \/ (version = "1.6" /\ p.tx = 0 /\ restarts > 0)
            <3>1. Shaped(p) /\ (p.tx = p.for \/ (version = "1.6" /\ p.tx = 0 /\ restarts > 0))
                  BY <1>1 DEF ChargingInv, Kept, Meant
            <3>2. p.tx \in Nat
                  BY <3>1, ProfileShape
            <3>3. QED BY <2>1, <3>1, <3>2 DEF InScope
      <2>3. version \in {"1.6", "2.0.1"}
            BY <1>1 DEF ChargingInv, Typed
      <2>4. CASE version = "1.6"
            <3>1. tx \in {Provisional, session[c].n}
                  BY <1>1, <2>1, <2>4 DEF ChargingInv, Numbered, ActiveTx, Settled
            <3>2. p.tx \in {0, session[c].n}
                  BY <2>2, <3>1 DEF Provisional
            <3>3. QED BY <2>2, <3>2
      <2>5. CASE version = "2.0.1"
            <3> DEFINE entries == {e[1] : e \in {e \in known : e[2] = c}}
            <3>1. CASE entries = {}
                  <4>1. tx = 0
                        BY <2>1, <2>5, <3>1 DEF ActiveTx
                  <4>2. QED BY <2>2, <2>5, <4>1
            <3>2. CASE entries # {}
                  <4>1. tx \in entries
                        BY <2>1, <2>5, <3>2 DEF ActiveTx
                  <4>2. tx \in 1..sessions /\ <<tx, c>> \in known
                        BY <1>1, <4>1 DEF ChargingInv, Typed
                  <4>3. session[c].n \in {0, tx} \/ <<session[c].n, c>> \in starting
                        BY <1>1, <2>1, <2>5, <4>2 DEF ChargingInv, Owned, Settled
                  <4>4. session[c].n = tx
                        <5>1. session[c].n # 0 /\ \A e \in starting : e[2] # c
                              BY <2>1, <2>5 DEF Settled
                        <5>2. <<session[c].n, c>> \notin starting
                              BY <5>1
                        <5>3. QED BY <4>3, <5>1, <5>2
                  <4>5. QED BY <2>2, <2>5, <4>4
            <3>3. QED BY <3>1, <3>2
      <2>6. QED BY <2>3, <2>4, <2>5
<1>2. QED BY <1>1, ChargingAlways, PTL

-----------------------------------------------------------------------------
(* Between two boundaries no limit changes.                                *)

LEMMA LeastNatural ==
    ASSUME NEW T, T \subseteq Nat, T # {}
    PROVE  \E n \in T : \A m \in T : n <= m
<1> DEFINE R == {ss \in Nat \X Nat : ss[1] < ss[2]}
<1>1. IsWellFoundedOn(R, Nat)
      BY NatLessThanWellFounded DEF OpToRel
<1>2. \E n \in T : \A m \in T : <<m, n>> \notin R
      <2> HIDE DEF R
      <2>1. QED BY <1>1, WFMin
<1>3. PICK n \in T : \A m \in T : <<m, n>> \notin R
      BY <1>2
<1>4. \A m \in T : m \in Nat /\ n \in Nat /\ ~(m < n)
      BY <1>3
<1>5. \A m \in T : n <= m
      BY <1>4
<1>6. QED BY <1>5

\* A finite set has a member whose value is the greatest.
LEMMA MostExists ==
    ASSUME NEW S, IsFiniteSet(S), S # {}, NEW f \in [S -> Int]
    PROVE  \E x \in S : \A y \in S : f[y] <= f[x]
<1> DEFINE above(x) == {y \in S : f[y] > f[x]}
           T == {Cardinality(above(x)) : x \in S}
<1>1. \A x \in S : IsFiniteSet(above(x)) /\ Cardinality(above(x)) \in Nat
      <2>1. \A x \in S : above(x) \in SUBSET S
            OBVIOUS
      <2> HIDE DEF above
      <2>2. QED BY <2>1, FS_Subset, FS_CardinalityType
<1>2. T \subseteq Nat /\ T # {}
      <2> HIDE DEF above
      <2>1. QED BY <1>1
<1>3. PICK n \in T : \A m \in T : n <= m
      BY <1>2, LeastNatural
<1>4. PICK x \in S : n = Cardinality(above(x))
      BY <1>3
<1>5. ASSUME NEW y \in S, f[y] > f[x]
      PROVE  FALSE
      <2>1. above(y) \subseteq above(x) /\ above(y) # above(x)
            BY <1>5
      <2>2. Cardinality(above(y)) < Cardinality(above(x))
            <3> HIDE DEF above
            <3>1. QED BY ONLY <1>1, <1>5, <2>1, FS_Subset, FS_CardinalityType
      <2>3. Cardinality(above(y)) \in T
            OBVIOUS
      <2> HIDE DEF T, above
      <2>4. QED BY <1>1, <1>3, <1>4, <1>5, <2>2, <2>3
<1>6. QED BY <1>5

\* The types of a profile's schedule.
LEMMA ScheduleType ==
    ASSUME NEW p, Shaped(p)
    PROVE  /\ p.level \in Int /\ p.from \in Int /\ p.to \in Int /\ p.start \in Int
           /\ \A i \in DOMAIN p.periods : p.periods[i].at \in Nat
<1>1. PICK entry \in Catalogue, d \in Connectors \cup {0}, tx \in Nat, for \in Nat :
          p = Profile(entry, d, tx, for)
      BY DEF Shaped
<1>2. /\ p.level = entry.level /\ p.from = entry.from /\ p.to = entry.to
      /\ p.start = entry.start /\ p.periods = entry.periods
      BY <1>1 DEF Profile
<1>3. QED BY <1>2, CatalogueAssumption

\* A schedule that does not recur, between two starts of periods.
LEMMA PeriodsSteady ==
    ASSUME NEW p, Shaped(p), NEW start \in Int, NEW b \in Int, NEW t \in Int, b <= t,
           \A i \in DOMAIN p.periods : start + p.periods[i].at \notin b + 1 .. t
    PROVE  /\ ActivePeriods(p, b - start) = ActivePeriods(p, t - start)
           /\ b < start => ActivePeriods(p, b - start) = {}
<1>1. \A i \in DOMAIN p.periods : p.periods[i].at \in Nat
      BY ScheduleType
<1>2. \A i \in DOMAIN p.periods : p.periods[i].at <= b - start <=> p.periods[i].at <= t - start
      <2>1. SUFFICES ASSUME NEW i \in DOMAIN p.periods
                     PROVE  p.periods[i].at <= b - start <=> p.periods[i].at <= t - start
            OBVIOUS
      <2>2. PICK k \in Nat : k = p.periods[i].at
            BY <1>1
      <2>3. start + k \notin b + 1 .. t
            BY <2>2
      <2>4. k <= b - start <=> k <= t - start
            BY <2>3
      <2>5. QED BY <2>2, <2>4
<1>3. b < start => \A i \in DOMAIN p.periods : ~(p.periods[i].at <= b - start)
      BY <1>1
<1>4. QED BY <1>2, <1>3 DEF ActivePeriods

\* A schedule that recurs, between two boundaries of it.
LEMMA CyclesSteady ==
    ASSUME NEW p, Shaped(p), NEW start \in Int, NEW b \in Int, NEW t \in Int, b <= t,
           \A u \in b + 1 .. t :
               (u - start) % Cycle \notin {0} \cup {p.periods[i].at : i \in DOMAIN p.periods}
    PROVE  /\ ActivePeriods(p, (b - start) % Cycle) = ActivePeriods(p, (t - start) % Cycle)
           /\ t >= start => b >= start
<1>1. /\ \A i \in DOMAIN p.periods : p.periods[i].at \in Nat
      /\ Cycle \in Nat \ {0}
      BY ScheduleType
<1> DEFINE r == (b - start) % Cycle
<1>2. r \in 0..(Cycle - 1)
      <2>1. b - start \in Int
            OBVIOUS
      <2>2. QED BY <1>1, <2>1, CycleRange
<1>3. r + (t - b) < Cycle
      <2>1. SUFFICES ASSUME ~(r + (t - b) < Cycle) PROVE FALSE
            OBVIOUS
      <2>2. ((b - start) + (Cycle - r)) % Cycle = 0
            BY CycleAnew
      <2> HIDE DEF r
      <2>3. PICK u \in Int : u = b + (Cycle - r)
            BY <1>1, <1>2
      <2>4. u \in b + 1 .. t /\ u - start = (b - start) + (Cycle - r)
            BY <1>1, <1>2, <2>1, <2>3
      <2>5. (u - start) % Cycle = 0
            BY <2>2, <2>4
      <2>6. QED BY <2>4, <2>5
<1>4. \A d \in 0..(t - b) : ((b - start) + d) % Cycle = r + d
      <2>1. \A d \in 0..(t - b) : d \in Nat /\ r + d < Cycle
            BY <1>1, <1>2, <1>3
      <2>2. b - start \in Int /\ r = (b - start) % Cycle
            OBVIOUS
      <2>3. SUFFICES ASSUME NEW a \in Int, r = a % Cycle
                     PROVE  \A d \in 0..(t - b) : (a + d) % Cycle = r + d
            BY <2>2
      <2> HIDE DEF r
      <2>4. QED BY <1>1, <2>1, <2>3, CycleOn
<1> HIDE DEF r
<1>5. (t - start) % Cycle = r + (t - b)
      <2>1. t - b \in 0..(t - b) /\ (b - start) + (t - b) = t - start
            OBVIOUS
      <2>2. QED BY <1>4, <2>1
<1>6. \A i \in DOMAIN p.periods : p.periods[i].at <= r <=> p.periods[i].at <= r + (t - b)
      <2>1. SUFFICES ASSUME NEW i \in DOMAIN p.periods, NEW k \in Nat, k = p.periods[i].at,
                            r < k, k <= r + (t - b)
                     PROVE  FALSE
            BY <1>1, <1>2
      <2>2. PICK u \in Int : u = b + (k - r)
            BY <1>2
      <2>3. u \in b + 1 .. t /\ k - r \in 0..(t - b) /\ u - start = (b - start) + (k - r)
            BY <1>2, <2>1, <2>2
      <2>4. (u - start) % Cycle = r + (k - r)
            BY <1>4, <2>3
      <2>5. (u - start) % Cycle = k
            BY <1>2, <2>4
      <2>6. QED BY <2>1, <2>3, <2>5
<1>7. t >= start => b >= start
      <2>1. SUFFICES ASSUME t >= start, b < start PROVE FALSE
            OBVIOUS
      <2>2. start \in b + 1 .. t /\ (start - start) % Cycle = 0
            BY <1>1, <2>1
      <2>3. QED BY <2>2
<1>8. QED BY <1>5, <1>6, <1>7 DEF ActivePeriods, r

\* The limit of a profile at two instants, from the periods that have begun.
LEMMA LimitSame ==
    ASSUME NEW p, NEW txStart, NEW start \in Int, start = ScheduleStart(p, txStart),
           NEW b \in Int, NEW t \in Int, b <= t,
           start # NoTime /\ start <= t =>
               /\ start <= b => ActivePeriods(p, Elapsed(p, b, start)) = ActivePeriods(p, Elapsed(p, t, start))
               /\ b < start => ActivePeriods(p, Elapsed(p, t, start)) = {}
    PROVE  LimitFromProfile(p, b, txStart) = LimitFromProfile(p, t, txStart)
<1>1. CASE start = NoTime
      BY <1>1 DEF LimitFromProfile
<1>2. CASE t < start
      BY <1>2 DEF LimitFromProfile
<1>3. CASE start # NoTime /\ start <= t /\ start <= b
      BY <1>3 DEF LimitFromProfile
<1>4. CASE start # NoTime /\ start <= t /\ b < start
      BY <1>4 DEF LimitFromProfile
<1>5. QED BY <1>1, <1>2, <1>3, <1>4

LEMMA StartType ==
    ASSUME NEW p, Shaped(p), NEW txStart \in Int
    PROVE  ScheduleStart(p, txStart) \in Int
BY ScheduleType DEF ScheduleStart

\* 1.6, inside the first cycle of a recurrence.
LEMMA LimitSteady16 ==
    ASSUME NEW p, Shaped(p), NEW txStart \in Int, NEW b \in Int, NEW t \in Int, b <= t,
           ScheduleStart(p, txStart) # NoTime =>
               \A i \in DOMAIN p.periods :
                   ScheduleStart(p, txStart) + p.periods[i].at \notin b + 1 .. t,
           p.kind = "Recurring" => t < p.start + Cycle
    PROVE  LimitFromProfile(p, b, txStart) = LimitFromProfile(p, t, txStart)
<1>1. PICK start \in Int : start = ScheduleStart(p, txStart)
      BY StartType
<1>2. SUFFICES ASSUME start # NoTime, start <= t
               PROVE  /\ start <= b => ActivePeriods(p, Elapsed(p, b, start)) = ActivePeriods(p, Elapsed(p, t, start))
                      /\ b < start => ActivePeriods(p, Elapsed(p, t, start)) = {}
      BY <1>1, LimitSame
<1>3. /\ ActivePeriods(p, b - start) = ActivePeriods(p, t - start)
      /\ b < start => ActivePeriods(p, b - start) = {}
      BY <1>1, <1>2, PeriodsSteady
<1>4. ASSUME NEW x \in Int, start <= x, x <= t
      PROVE  Elapsed(p, x, start) = x - start
      <2>1. CASE p.kind # "Recurring"
            BY <2>1 DEF Elapsed
      <2>2. CASE p.kind = "Recurring"
            <3>1. start = p.start /\ p.start \in Int
                  BY <1>1, <2>2, ScheduleType DEF ScheduleStart
            <3>2. PICK d \in Int : d = x - start
                  OBVIOUS
            <3>3. d \in Nat /\ d < Cycle
                  BY <1>4, <2>2, <3>1, <3>2
            <3>4. Cycle \in Nat \ {0}
                  OBVIOUS
            <3>5. d % Cycle = d
                  BY <3>3, <3>4, CycleFirst
            <3>6. QED BY <2>2, <3>2, <3>5 DEF Elapsed
      <2>3. QED BY <2>1, <2>2
<1>5. start <= b => Elapsed(p, b, start) = b - start
      BY <1>4
<1>6. Elapsed(p, t, start) = t - start
      BY <1>2, <1>4
<1>7. QED BY <1>3, <1>5, <1>6

\* 2.0.1, in every cycle.
LEMMA LimitSteady201 ==
    ASSUME NEW p, Shaped(p), NEW txStart \in Int, NEW b \in Int, NEW t \in Int, b <= t,
           \A u \in b + 1 .. t : ~ScheduleBoundary(p, u, ScheduleStart(p, txStart))
    PROVE  LimitFromProfile(p, b, txStart) = LimitFromProfile(p, t, txStart)
<1>1. PICK start \in Int : start = ScheduleStart(p, txStart)
      BY StartType
<1>2. SUFFICES ASSUME start # NoTime, start <= t
               PROVE  /\ start <= b => ActivePeriods(p, Elapsed(p, b, start)) = ActivePeriods(p, Elapsed(p, t, start))
                      /\ b < start => ActivePeriods(p, Elapsed(p, t, start)) = {}
      BY <1>1, LimitSame
<1>3. CASE p.kind # "Recurring"
      <2>1. \A i \in DOMAIN p.periods : start + p.periods[i].at \notin b + 1 .. t
            BY <1>1, <1>2, <1>3 DEF ScheduleBoundary
      <2>2. /\ ActivePeriods(p, b - start) = ActivePeriods(p, t - start)
            /\ b < start => ActivePeriods(p, b - start) = {}
            BY <2>1, PeriodsSteady
      <2>3. Elapsed(p, b, start) = b - start /\ Elapsed(p, t, start) = t - start
            BY <1>3 DEF Elapsed
      <2>4. QED BY <2>2, <2>3
<1>4. CASE p.kind = "Recurring"
      <2>1. \A u \in b + 1 .. t :
                (u - start) % Cycle \notin {0} \cup {p.periods[i].at : i \in DOMAIN p.periods}
            BY <1>1, <1>2, <1>4 DEF ScheduleBoundary
      <2>2. /\ ActivePeriods(p, (b - start) % Cycle) = ActivePeriods(p, (t - start) % Cycle)
            /\ t >= start => b >= start
            <3>1. Shaped(p) /\ start \in Int /\ b \in Int /\ t \in Int /\ b <= t
                  OBVIOUS
            <3>2. QED BY ONLY <2>1, <3>1, CyclesSteady
      <2>3. /\ Elapsed(p, b, start) = (b - start) % Cycle
            /\ Elapsed(p, t, start) = (t - start) % Cycle
            BY <1>4 DEF Elapsed
      <2>4. start <= b
            BY <1>2, <2>2
      <2>5. QED BY <2>2, <2>3, <2>4
<1>5. QED BY <1>3, <1>4

-----------------------------------------------------------------------------
(* The composite limit.                                                    *)

\* It is the same when the profiles that count are, with their limits.
LEMMA ResolveSame ==
    ASSUME NEW c, NEW tx, NEW ty, NEW b, NEW t, NEW txStart, NEW purpose,
           \A p \in profiles : AppliesTo(p, c) =>
               /\ Valid(p, b) /\ InScope(p, tx) <=> Valid(p, t) /\ InScope(p, ty)
               /\ Valid(p, b) => LimitFromProfile(p, b, txStart) = LimitFromProfile(p, t, txStart)
    PROVE  ResolveLimit(purpose, c, tx, b, txStart) = ResolveLimit(purpose, c, ty, t, txStart)
<1>1. Candidates(purpose, c, tx, b) = Candidates(purpose, c, ty, t)
      BY DEF Candidates
<1>2. PICK found : found = Candidates(purpose, c, tx, b) /\ found = Candidates(purpose, c, ty, t)
      BY <1>1
<1>3. \A p \in found : LimitFromProfile(p, b, txStart) = LimitFromProfile(p, t, txStart)
      BY <1>2 DEF Candidates
<1> DEFINE best == {p \in found : \A q \in found : q.level <= p.level}
<1>4. {LimitFromProfile(p, b, txStart) : p \in best} = {LimitFromProfile(p, t, txStart) : p \in best}
      BY <1>3
<1>5. /\ ResolveLimit(purpose, c, tx, b, txStart) =
             IF found = {} THEN {Unlimited} ELSE {LimitFromProfile(p, b, txStart) : p \in best}
      /\ ResolveLimit(purpose, c, ty, t, txStart) =
             IF found = {} THEN {Unlimited} ELSE {LimitFromProfile(p, t, txStart) : p \in best}
      BY <1>2 DEF ResolveLimit
<1>6. QED BY <1>4, <1>5

LEMMA CompositeSame ==
    ASSUME NEW c, NEW tx, NEW ty, NEW b, NEW t, NEW txStart,
           \A p \in profiles : AppliesTo(p, c) =>
               /\ Valid(p, b) /\ InScope(p, tx) <=> Valid(p, t) /\ InScope(p, ty)
               /\ Valid(p, b) => LimitFromProfile(p, b, txStart) = LimitFromProfile(p, t, txStart)
    PROVE  Composite(c, tx, b, txStart) = Composite(c, ty, t, txStart)
<1>1. \A purpose \in {"Max", "Tx", "TxDefault"} :
          ResolveLimit(purpose, c, tx, b, txStart) = ResolveLimit(purpose, c, ty, t, txStart)
      BY ResolveSame
<1>2. ResolveTxLimit(c, tx, b, txStart) = ResolveTxLimit(c, ty, t, txStart)
      BY <1>1 DEF ResolveTxLimit
<1>3. ASSUME NEW x
      PROVE  x \in Composite(c, tx, b, txStart) <=> x \in Composite(c, ty, t, txStart)
      <2>1. ResolveLimit("Max", c, tx, b, txStart) = ResolveLimit("Max", c, ty, t, txStart)
            BY <1>1
      <2>2. x \in Composite(c, tx, b, txStart) <=>
                \E most \in ResolveLimit("Max", c, tx, b, txStart),
                   own \in ResolveTxLimit(c, tx, b, txStart) : x = Min({most, own})
            BY DEF Composite
      <2>3. x \in Composite(c, ty, t, txStart) <=>
                \E most \in ResolveLimit("Max", c, ty, t, txStart),
                   own \in ResolveTxLimit(c, ty, t, txStart) : x = Min({most, own})
            BY DEF Composite
      <2>4. QED BY ONLY <1>2, <2>1, <2>2, <2>3
<1>4. QED BY <1>3

\* It is never nothing: of finitely many candidates one has the highest level.
LEMMA ResolveSome ==
    ASSUME IsFiniteSet(profiles), \A p \in profiles : Shaped(p),
           NEW purpose, NEW c, NEW tx, NEW t, NEW txStart
    PROVE  ResolveLimit(purpose, c, tx, t, txStart) # {}
<1> DEFINE found == Candidates(purpose, c, tx, t)
<1>1. found \subseteq profiles /\ IsFiniteSet(found)
      <2>1. found \subseteq profiles
            BY DEF Candidates
      <2>2. QED BY <2>1, FS_Subset
<1>2. CASE found = {}
      BY <1>2 DEF ResolveLimit
<1>3. CASE found # {}
      <2> DEFINE f == [p \in found |-> p.level]
      <2>1. f \in [found -> Int]
            BY <1>1, ScheduleType
      <2>2. PICK p \in found : \A q \in found : f[q] <= f[p]
            <3> HIDE DEF found, f
            <3>1. QED BY <1>1, <1>3, <2>1, MostExists
      <2>3. \A q \in found : q.level <= p.level
            BY <2>2
      <2>4. LimitFromProfile(p, t, txStart) \in ResolveLimit(purpose, c, tx, t, txStart)
            BY <1>3, <2>3 DEF ResolveLimit
      <2>5. QED BY <2>4
<1>4. QED BY <1>2, <1>3

LEMMA CompositeSome ==
    ASSUME IsFiniteSet(profiles), \A p \in profiles : Shaped(p),
           NEW c, NEW tx, NEW t, NEW txStart
    PROVE  Composite(c, tx, t, txStart) # {}
<1>1. PICK most : most \in ResolveLimit("Max", c, tx, t, txStart)
      BY ResolveSome
<1>2. PICK own : own \in ResolveLimit("Tx", c, tx, t, txStart)
      BY ResolveSome
<1>3. PICK default : default \in ResolveLimit("TxDefault", c, tx, t, txStart)
      BY ResolveSome
<1>4. \E x : x \in ResolveTxLimit(c, tx, t, txStart)
      BY <1>2, <1>3 DEF ResolveTxLimit
<1>5. PICK x : x \in ResolveTxLimit(c, tx, t, txStart)
      BY <1>4
<1>6. Min({most, x}) \in Composite(c, tx, t, txStart)
      BY <1>1, <1>5 DEF Composite
<1>7. QED BY <1>6

-----------------------------------------------------------------------------
(* What a composite schedule says.                                         *)

\* Validity at b and at t, with neither end of it between them.
LEMMA ValidSteady ==
    ASSUME NEW p, Shaped(p), NEW b \in Int, NEW t \in Int, b <= t,
           p.from \notin b + 1 .. t, p.to \notin b .. t - 1
    PROVE  Valid(p, b) <=> Valid(p, t)
<1>1. PICK from \in Int, to \in Int : from = p.from /\ to = p.to
      BY ScheduleType
<1>2. QED BY <1>1 DEF Valid

\* What the schedule is sampled with at its last boundary is what holds at t
\* (1.6).
LEMMA SampledSteady16 ==
    ASSUME ChargingInv, version = "1.6", NEW c \in Connectors, NEW t \in Inside,
           ~Blurred(c, t), NEW b \in now .. t, Boundaries(c) \cap (b + 1 .. t) = {}
    PROVE  Sampled(c, b) = Sampled(c, t)
<1>1. /\ now \in Int /\ b \in Int /\ t \in Int /\ now <= b /\ b <= t
      /\ t \in Inside /\ b + 1 .. t \subseteq Inside
      /\ session[c].start \in Int /\ \A p \in profiles : Shaped(p)
      BY DEF ChargingInv, Typed, Inside, Sessions, Kept
<1>2. ASSUME NEW p \in profiles, AppliesTo(p, c)
      PROVE  /\ Valid(p, b) <=> Valid(p, t)
             /\ Valid(p, b) => LimitFromProfile(p, b, session[c].start)
                                   = LimitFromProfile(p, t, session[c].start)
      <2>1. /\ p.from \notin now + 1 .. t /\ p.to \notin now .. t - 1
            /\ ~(p.kind = "Recurring" /\ p.start + Cycle <= t)
            BY <1>2 DEF Blurred
      <2>2. PICK from \in Int, to \in Int, start \in Int : from = p.from /\ to = p.to /\ start = p.start
            BY <1>1, ScheduleType
      <2>3. from \notin b + 1 .. t /\ to \notin b .. t - 1 /\ from \notin now + 1 .. b /\ to \notin now .. b - 1
            BY <1>1, <2>1, <2>2
      <2>4. (Valid(p, b) <=> Valid(p, t)) /\ (Valid(p, now) <=> Valid(p, b))
            BY <1>1, <2>2, <2>3, ValidSteady
      <2>5. p.kind = "Recurring" => t < p.start + Cycle
            BY <1>1, <2>1, <2>2
      <2>6. ASSUME Valid(p, b), ScheduleStart(p, session[c].start) # NoTime, NEW i \in DOMAIN p.periods
            PROVE  ScheduleStart(p, session[c].start) + p.periods[i].at \notin b + 1 .. t
            <3>1. Valid(p, now)
                  BY <2>4, <2>6
            <3>2. ASSUME NEW u \in b + 1 .. t, u = ScheduleStart(p, session[c].start) + p.periods[i].at
                  PROVE  FALSE
                  <4>1. u \in Boundaries16(c)
                        BY <1>1, <1>2, <2>6, <3>1, <3>2 DEF Boundaries16
                  <4>2. QED BY <3>2, <4>1 DEF Boundaries
            <3>3. QED BY <3>2
      <2>7. QED BY <1>1, <2>4, <2>5, <2>6, LimitSteady16
<1>3. Composite(c, session[c].tx, b, session[c].start) = Composite(c, session[c].tx, t, session[c].start)
      BY <1>2, CompositeSame
<1>4. QED BY <1>3 DEF Sampled

\* The same of 2.0.1.
LEMMA SampledSteady201 ==
    ASSUME ChargingInv, version = "2.0.1", NEW c \in Connectors, NEW t \in Inside,
           ~Blurred(c, t), NEW b \in now .. t, Boundaries(c) \cap (b + 1 .. t) = {}
    PROVE  Sampled(c, b) = Sampled(c, t)
<1>1. /\ now \in Int /\ b \in Int /\ t \in Int /\ now <= b /\ b <= t
      /\ t \in Inside /\ b + 1 .. t \subseteq Inside
      /\ session[c].start \in Int /\ \A p \in profiles : Shaped(p)
      BY DEF ChargingInv, Typed, Inside, Sessions, Kept
<1>2. ASSUME NEW p \in profiles, AppliesTo(p, c)
      PROVE  /\ Valid(p, b) <=> Valid(p, t)
             /\ LimitFromProfile(p, b, session[c].start) = LimitFromProfile(p, t, session[c].start)
      <2>1. ~(p.to \in now .. t - 1 /\ Boundaries(c) \cap (p.to + 1 .. t) = {})
            BY <1>2 DEF Blurred
      <2>2. PICK from \in Int, to \in Int : from = p.from /\ to = p.to
            BY <1>1, ScheduleType
      <2>3. \A u \in b + 1 .. t : u \notin Boundaries201(c)
            BY DEF Boundaries
      <2>4. \A u \in b + 1 .. t : u # from /\ u # to
                                /\ ~ScheduleBoundary(p, u, ScheduleStart(p, session[c].start))
            BY <1>1, <1>2, <2>2, <2>3 DEF Boundaries201
      <2>5. to \notin b .. t - 1
            <3>1. SUFFICES ASSUME to \in b .. t - 1 PROVE FALSE
                  OBVIOUS
            <3>2. to \in now .. t - 1 /\ to + 1 .. t \subseteq b + 1 .. t
                  BY <1>1, <3>1
            <3>3. Boundaries(c) \cap (to + 1 .. t) = {}
                  BY <3>2
            <3>4. QED BY <2>1, <2>2, <3>2, <3>3
      <2>6. from \notin b + 1 .. t
            BY <2>4
      <2>7. Valid(p, b) <=> Valid(p, t)
            BY <1>1, <2>2, <2>5, <2>6, ValidSteady
      <2>8. QED BY <1>1, <2>4, <2>7, LimitSteady201
<1>3. Composite(c, 0, b, session[c].start) = Composite(c, 0, t, session[c].start)
      BY <1>2, CompositeSame
<1>4. QED BY <1>3 DEF Sampled

\* What the schedule is sampled with is what limits the session.
LEMMA SampledHolds ==
    ASSUME ChargingInv, NEW c \in Connectors, NEW t \in Inside, ~Blurred(c, t)
    PROVE  GetLimit(c, t) = Sampled(c, t)
<1>1. CASE version = "1.6"
      BY <1>1 DEF GetLimit, ActiveTx, Sampled
<1>2. CASE version = "2.0.1"
      <2>1. \A p \in profiles : AppliesTo(p, c) => p.tx = 0 \/ p.tx \notin ActiveTx(c)
            BY <1>2 DEF Blurred
      <2>2. ASSUME NEW tx \in ActiveTx(c)
            PROVE  Composite(c, tx, t, session[c].start) = Composite(c, 0, t, session[c].start)
            <3>1. \A p \in profiles : AppliesTo(p, c) => (InScope(p, tx) <=> InScope(p, 0))
                  BY <2>1 DEF InScope
            <3>2. QED BY <3>1, CompositeSame
      <2>3. ActiveTx(c) # {}
            BY <1>2 DEF ActiveTx
      <2>4. Sampled(c, t) = Composite(c, 0, t, session[c].start)
            BY <1>2 DEF Sampled
      <2>5. QED BY <2>2, <2>3, <2>4 DEF GetLimit
<1>3. QED BY <1>1, <1>2 DEF ChargingInv, Typed

\* What a composite schedule says of an instant is a limit that holds then, and
\* where it says nothing none holds: between its boundaries no limit changes,
\* but for what the property names (GetCompositeSchedule of both managers).
THEOREM SchedulesForetell == Spec => []ScheduleForetells
<1>1. ASSUME ChargingInv, NEW c \in Connectors, NEW t \in Inside,
             ~Blurred(c, t), Unlimited \notin GetLimit(c, t)
      PROVE  Foretold(c, t) # {} /\ Foretold(c, t) \subseteq GetLimit(c, t)
      <2> DEFINE begun == {b \in Boundaries(c) : b <= t}
      <2>1. /\ now \in Nat /\ Inside \subseteq Int /\ t \in now .. t /\ Boundaries(c) \subseteq Inside
            /\ now \in Boundaries(c)
            BY <1>1 DEF ChargingInv, Typed, Inside, Boundaries, Boundaries16, Boundaries201
      <2>2. begun \subseteq now .. t /\ now \in begun
            BY <2>1 DEF Inside
      <2>3. IsFiniteSet(begun)
            BY <2>1, <2>2, FS_Interval, FS_Subset
      <2>4. PICK last \in begun : \A b \in begun : b <= last
            <3> DEFINE f == [b \in begun |-> b]
            <3> HIDE DEF begun
            <3>1. f \in [begun -> Int]
                  BY <2>1, <2>2
            <3>2. PICK x \in begun : \A y \in begun : f[y] <= f[x]
                  <4> HIDE DEF f
                  <4>1. QED BY <2>2, <2>3, <3>1, MostExists
            <3>3. QED BY <3>2
      <2>5. last \in now .. t /\ Boundaries(c) \cap (last + 1 .. t) = {}
            BY <2>1, <2>2, <2>4
      <2>6. Sampled(c, last) = Sampled(c, t)
            BY <1>1, <2>5, SampledSteady16, SampledSteady201 DEF ChargingInv, Typed
      <2>7. Sampled(c, last) = GetLimit(c, t)
            BY <1>1, <2>6, SampledHolds
      <2>8. Unlimited \notin Sampled(c, last)
            BY <1>1, <2>7
      <2>9. Sampled(c, last) # {}
            BY <1>1, CompositeSome DEF Sampled, ChargingInv, Kept
      <2>10. Foretold(c, t) = Sampled(c, last)
             <3>1. \A b \in begun : (\A later \in begun : later > b => Unlimited \in Sampled(c, later)) <=> b = last
                   <4> HIDE DEF begun
                   <4>1. \A b \in begun : b \in Int
                         BY <2>1, <2>2
                   <4>2. \A b \in begun : b # last => last > b
                         BY <2>4, <4>1
                   <4>3. \A later \in begun : ~(later > last)
                         BY <2>4, <4>1
                   <4>4. QED BY <2>4, <2>8, <4>2, <4>3
             <3>2. {b \in begun : \A later \in begun : later > b => Unlimited \in Sampled(c, later)} = {last}
                   <4> HIDE DEF begun
                   <4>1. QED BY <2>4, <3>1
             <3>3. Foretold(c, t) = UNION {Sampled(c, b) \ {Unlimited} : b \in {last}}
                   BY <3>2 DEF Foretold
             <3>4. QED BY <2>8, <3>3
      <2>11. QED BY <2>7, <2>9, <2>10
<1>2. ChargingInv => ScheduleForetells
      BY <1>1 DEF ScheduleForetells
<1>3. QED BY <1>2, ChargingAlways, PTL
=============================================================================
