------------------------------- MODULE Admission -------------------------------
(***************************************************************************)
(* Who may start a session: the local authorization list                   *)
(* (internal/ocpp/local_auth_list.go, local_auth_persist.go), the           *)
(* authorization cache (auth_cache.go, auth_cache_persist.go), what fills   *)
(* and empties them (requests and answers of the CSMS, the REST API), their *)
(* files, and the three readers: AdmitLocalSession for a start at the      *)
(* station, admitRemoteStart of each bridge, and ValidateIDTag, which the  *)
(* engine asks during a session.                                           *)
(*                                                                         *)
(* A station speaks one "version".  An entry may have an expiry; all        *)
(* expiries are at one moment, after which "late" holds.  An admission      *)
(* changes no state here, so it is an operator: its session is Station's.   *)
(* A crash may lose the changes of the keys.  A debounced save is over      *)
(* before the next is due a second later; the list's saves may overlap.     *)
(* A stop ends the process or only the runtime: the cache's timer outlives   *)
(* the latter, and fires once the next runtime has loaded the cache.         *)
(***************************************************************************)
EXTENDS Naturals, FiniteSets

CONSTANTS
    Tags,          \* idTags (idTokens)
    NoTag,         \* of a start for which no tag is configured
    Versions,      \* the versions to look at
    Entry,         \* what may be said of a tag: status, and whether it expires
    ListVersions,  \* version numbers of lists
    Offered,       \* the updates of the list the CSMS and the operator make
    ListCap,       \* maxLocalAuthListEntries
    Savers,        \* bound: autosaves of the list under way at once
    MaxChanges     \* bound: changes of the list, the cache and the keys

Books == UNION {[S -> Entry] : S \in SUBSET Tags}
Updates == {u \in [version : ListVersions, full : BOOLEAN, set : Books, del : SUBSET Tags] :
               DOMAIN u.set \cap u.del = {}}

\* A tag is a string of at most 20 (a token: 36) characters.
ASSUME AdmissionAssumption ==
    /\ IsFiniteSet(Tags)
    /\ NoTag \notin Tags
    /\ Versions \subseteq {"1.6", "2.0.1"}
    /\ Entry \subseteq [status : {"Accepted", "Blocked", "Expired", "ConcurrentTx", "Invalid"},
                        expires : BOOLEAN]
    /\ ListVersions \subseteq Nat \ {0}
    /\ {ListCap, MaxChanges} \subseteq Nat
    /\ Offered \subseteq Updates

VARIABLES
    version,
    on,         \* the keys that are true
    linkUp,
    late,
    list,       \* LocalAuthListManager: version, entries
    cache,      \* AuthorizationCache.entries
    listFile, cacheFile,
    savers,     \* goroutines of the list's autoSave
    timer,      \* the cache's: goroutine, saveScheduled, its function, its copy
    left,       \* the timer of a runtime that was stopped, with that cache
    request,    \* a SendLocalList past its version check
    told,       \* the list the CSMS takes the station to have, from its answers
    clean,      \* nothing the CSMS was not told of has touched the list
    overlap,    \* the latest save of the list began while another was writing
    said,       \* what was said of a tag so far, by the book it was said to
    changes

settings == <<version, on, linkUp, late>>
listState == <<list, savers, request, told, clean>>
cacheState == <<cache, timer, left>>
files == <<listFile, cacheFile, overlap>>
vars == <<settings, listState, cacheState, files, said, changes>>

Keys == IF version = "1.6" THEN {"LocalAuthListEnabled", "AuthorizationCacheEnabled"}
        ELSE {"Enabled", "LocalAuthorizeOffline", "AuthorizeRemoteStart"}

Empty == [t \in {} |-> [status |-> "Accepted", expires |-> FALSE]]
Lists == [version : ListVersions \cup {0}, entries : Books]
NewList == [version |-> 0, entries |-> Empty]

File(state, l) == [state |-> state, list |-> l]
Whole(l) == File("whole", l)
LoadList(f) == IF f.state = "whole" THEN f.list ELSE NewList
LoadCache(f) == IF f = {} THEN Empty ELSE CHOOSE b \in f : TRUE

Idle == [at |-> "idle", copy |-> NewList]
Quiet == [wake |-> FALSE, scheduled |-> FALSE, fired |-> FALSE, copy |-> {}]

TypeOK ==
    /\ version \in Versions
    /\ on \subseteq Keys
    /\ {linkUp, late, clean, overlap} \subseteq BOOLEAN
    /\ {list, told} \subseteq Lists
    /\ Cardinality(DOMAIN list.entries) <= ListCap
    /\ cache \in Books
    /\ listFile \in [state : {"none", "cut", "mixed", "whole"}, list : Lists]
    /\ cacheFile = {} \/ \E b \in Books : cacheFile = {b}
    /\ savers \in [Savers -> [at : {"idle", "wake", "writing"}, copy : Lists]]
    /\ {timer.wake, timer.scheduled, timer.fired} \subseteq BOOLEAN
    /\ timer.copy = {} \/ \E b \in Books : timer.copy = {b}
    /\ request = {} \/ \E u \in Offered : request = {u}
    /\ left = {} \/ \E at \in {"due", "writing"}, b \in Books : left = {[at |-> at, copy |-> b]}
    /\ said \subseteq {"list", "cache"} \X Tags \X Entry
    /\ changes \in 0 .. MaxChanges

Init ==
    /\ version \in Versions
    /\ on = Keys
    /\ linkUp = FALSE
    /\ late = FALSE
    /\ list = NewList
    /\ cache = Empty
    /\ listFile = File("none", NewList)
    /\ cacheFile = {}
    /\ savers = [s \in Savers |-> Idle]
    /\ timer = Quiet
    /\ left = {}
    /\ request = {}
    /\ told = NewList
    /\ clean = TRUE
    /\ overlap = FALSE
    /\ said = {}
    /\ changes = 0

-----------------------------------------------------------------------------
(* The readers.                                                            *)

BugAuthorizationDecision(e) ==
    CASE e.status = "Accepted" -> "Accepted"
      [] e.status = "Expired" -> "Expired"
      [] e.status = "Invalid" -> "Malformed"
      [] OTHER -> "Blocked"
AuthorizationDecision(e) ==
    IF e.expires /\ late THEN "Expired"
    ELSE CASE e.status = "Invalid" -> "Malformed"
           [] e.status \in {"Accepted", "Expired"} -> e.status
           [] OTHER -> "Blocked"

Decision(book, t) ==
    IF t \in DOMAIN book THEN AuthorizationDecision(book[t]) ELSE "Missing"

\* The first source that is consulted and knows the tag decides.
LocalSessionDecision(t, useList, useCache) ==
    IF useList /\ Decision(list.entries, t) # "Missing" THEN Decision(list.entries, t)
    ELSE IF useCache THEN Decision(cache, t) ELSE "Missing"

ListOn == IF version = "1.6" THEN "LocalAuthListEnabled" \in on
          ELSE {"Enabled", "LocalAuthorizeOffline"} \subseteq on
CacheOn == IF version = "1.6" THEN "AuthorizationCacheEnabled" \in on
           ELSE "Enabled" \in on

\* newV201LocalSessionAdmission makes the cache wait for LocalAuthorizeOffline too.
\* A start without a tag is nobody's to refuse.
AdmitLocalSession(t) ==
    \/ t = NoTag \/ linkUp
    \/ LocalSessionDecision(t, ListOn, CacheOn /\ (version = "1.6" \/ ListOn)) = "Accepted"

\* Offline; while the link is up the answer is the CSMS's (SendAuthorize).
AdmitRemoteStart16(t) == LocalSessionDecision(t, ListOn, CacheOn) = "Accepted"
AdmitRemoteStart201(t) ==
    \/ "AuthorizeRemoteStart" \notin on
    \/ LocalSessionDecision(t, ListOn, CacheOn) = "Accepted"
AdmitRemoteStart(t) ==
    IF version = "1.6" THEN AdmitRemoteStart16(t) ELSE AdmitRemoteStart201(t)

\* The engine's question about the tag of a session: no key is looked at, and
\* only a positive refusal counts.
ValidateIDTag(t) == LocalSessionDecision(t, TRUE, TRUE) \in {"Accepted", "Missing"}

-----------------------------------------------------------------------------
(* Saves of the list: a goroutine for every change.                        *)

\* Every change of the list starts an autosave.
ChangeList(l, s) ==
    /\ savers[s] = Idle
    /\ list' = l
    /\ savers' = [savers EXCEPT ![s].at = "wake"]

Gives(book, B) == said' = said \cup {<<book, t, B[t]>> : t \in DOMAIN B}

Counted == changes < MaxChanges /\ changes' = changes + 1

\* SaveState copies under the lock; os.WriteFile cuts the file, then writes.
SaveList(s) ==
    /\ savers[s].at = "wake"
    /\ savers' = [savers EXCEPT ![s] = [at |-> "writing", copy |-> list]]
    /\ listFile' = File("cut", NewList)
    /\ overlap' = \E o \in Savers : savers[o].at = "writing"
    /\ UNCHANGED <<settings, list, request, told, clean, cacheState, cacheFile, said, changes>>

\* Over what another has written since, a longer text may leave its tail.
WriteList(s) ==
    /\ savers[s].at = "writing"
    /\ \/ listFile' = Whole(savers[s].copy)
       \/ listFile.state # "cut" /\ listFile' = File("mixed", NewList)
    /\ savers' = [savers EXCEPT ![s] = Idle]
    /\ UNCHANGED <<settings, list, request, told, clean, cacheState, cacheFile, overlap, said, changes>>

-----------------------------------------------------------------------------
(* The list.                                                               *)

BugAccepts(l, u) == u.full \/ Cardinality(DOMAIN l.entries \cup DOMAIN u.set) <= ListCap
Accepts(l, u) ==
    IF u.full THEN Cardinality(DOMAIN u.set \cup u.del) <= ListCap
    ELSE Cardinality(DOMAIN l.entries \cup DOMAIN u.set) <= ListCap

BugUpdated(l, u) ==
    LET old == IF u.full THEN Empty ELSE l.entries
    IN  [version |-> u.version,
         entries |-> [t \in DOMAIN old \cup DOMAIN u.set \cup u.del |->
                         IF t \in DOMAIN u.set THEN u.set[t]
                         ELSE IF t \in u.del THEN [status |-> "Blocked", expires |-> FALSE]
                         ELSE old[t]]]
Updated(l, u) ==
    LET old == IF u.full THEN Empty ELSE l.entries
    IN  [version |-> u.version,
         entries |-> [t \in (DOMAIN old \cup DOMAIN u.set) \ u.del |->
                         IF t \in DOMAIN u.set THEN u.set[t] ELSE old[t]]]

\* A list the CSMS sends: the version is compared in one call ...
SendLocalList(u) ==
    /\ linkUp
    /\ request = {}
    /\ u.full \/ u.version > list.version
    /\ request' = {u}
    /\ UNCHANGED <<settings, list, savers, told, clean, cacheState, files, said, changes>>

\* ... and the list changed in another.  A Full update that is accepted puts
\* both sides right again; an answer the link loses leaves the CSMS guessing.
AcceptList(u) ==
    /\ u \in request
    /\ Accepts(list, u)
    /\ \E s \in Savers : ChangeList(Updated(list, u), s)
    /\ request' = {}
    /\ told' = Updated(told, u)
    /\ clean' = (linkUp /\ (u.full \/ clean))
    /\ Gives("list", u.set)
    /\ Counted
    /\ UNCHANGED <<settings, cacheState, files>>

BugListFailed(u) == IF u.full THEN [list EXCEPT !.entries = Empty] ELSE list
ListFailed(u) == list

RefuseList(u) ==
    /\ u \in request
    /\ ~Accepts(list, u)
    /\ list' = ListFailed(u)
    /\ request' = {}
    /\ UNCHANGED <<settings, savers, told, clean, cacheState, files, said, changes>>

\* The operator's edits; the version of an update is not compared with anything.
Edit(l, B) ==
    /\ \E s \in Savers : ChangeList(l, s)
    /\ clean' = FALSE
    /\ Gives("list", B)
    /\ Counted
    /\ UNCHANGED <<settings, request, told, cacheState, files>>

UpdateList(u) == Accepts(list, u) /\ Edit(Updated(list, u), u.set)

Without(t) == [list EXCEPT !.entries = [x \in DOMAIN list.entries \ {t} |-> list.entries[x]]]
BugRemoveEntry(t) ==
    /\ t \in DOMAIN list.entries
    /\ list' = Without(t)
    /\ clean' = FALSE
    /\ Counted
    /\ UNCHANGED <<settings, savers, request, told, cacheState, files, said>>
RemoveEntry(t) == t \in DOMAIN list.entries /\ Edit(Without(t), Empty)

ClearList == Edit(NewList, Empty)

-----------------------------------------------------------------------------
(* The cache: what the CSMS says of a tag, saved a second later.           *)

ChangeCache(b) == cache' = b /\ timer' = [timer EXCEPT !.wake = TRUE] /\ left' = left

Put(t, e) ==
    /\ linkUp
    /\ ChangeCache([x \in DOMAIN cache \cup {t} |-> IF x = t THEN e ELSE cache[x]])
    /\ Gives("cache", [x \in {t} |-> e])
    /\ Counted
    /\ UNCHANGED <<settings, listState, files>>

\* Answers to Authorize and to the start of a transaction.  Only 2.0.1 asks
\* whether the cache is in use.
AuthorizeAnswer16(t, e)  == version = "1.6" /\ Put(t, e)
AuthorizeAnswer201(t, e) == version = "2.0.1" /\ "Enabled" \in on /\ Put(t, e)
StartAnswer16(t, e)      == AuthorizeAnswer16(t, e)
StartAnswer201(t, e)     == AuthorizeAnswer201(t, e)

\* The same in both versions.
ClearCache ==
    /\ linkUp
    /\ ChangeCache(Empty)
    /\ Counted
    /\ UNCHANGED <<settings, listState, files, said>>

\* autoSave: one timer at a time.
BugAutoSave ==
    /\ timer.wake
    /\ timer' = [timer EXCEPT !.wake = FALSE, !.scheduled = timer.copy = {}]
    /\ UNCHANGED <<settings, listState, cache, left, files, said, changes>>
AutoSave ==
    /\ timer.wake
    /\ timer' = [timer EXCEPT !.wake = FALSE, !.scheduled = TRUE]
    /\ UNCHANGED <<settings, listState, cache, left, files, said, changes>>

\* Its function: the flag, then a copy and the file cut, then the write.
TimerFires ==
    /\ timer.scheduled
    /\ ~timer.fired
    /\ timer.copy = {}
    /\ timer' = [timer EXCEPT !.scheduled = FALSE, !.fired = TRUE]
    /\ UNCHANGED <<settings, listState, cache, left, files, said, changes>>

SaveCache ==
    /\ timer.fired
    /\ left = {}
    /\ timer' = [timer EXCEPT !.fired = FALSE, !.copy = {cache}]
    /\ cacheFile' = {}
    /\ UNCHANGED <<settings, listState, cache, left, listFile, overlap, said, changes>>

WriteCache ==
    /\ timer.copy # {}
    /\ cacheFile' = timer.copy
    /\ timer' = [timer EXCEPT !.copy = {}]
    /\ UNCHANGED <<settings, listState, cache, left, listFile, overlap, said, changes>>

\* The timer of a runtime that was stopped within the second still fires, and
\* saves that runtime's cache where the next one saves its own.
LeftFires ==
    /\ \E l \in left : l.at = "due" /\ left' = {[l EXCEPT !.at = "writing"]}
    /\ cacheFile' = {}
    /\ UNCHANGED <<settings, listState, cache, timer, listFile, overlap, said, changes>>

LeftWrites ==
    /\ \E l \in left : l.at = "writing" /\ cacheFile' = {l.copy}
    /\ left' = {}
    /\ UNCHANGED <<settings, listState, cache, timer, listFile, overlap, said, changes>>

-----------------------------------------------------------------------------
(* The rest of the station.                                                *)

\* A key that is already so is no change.
Flip(k) ==
    /\ on' = IF k \in on THEN on \ {k} ELSE on \cup {k}
    /\ Counted
    /\ UNCHANGED <<version, linkUp, late, listState, cacheState, files, said>>

\* ChangeConfiguration, SetVariables, and REST.
SetConfigValue(k) == version = "1.6" /\ Flip(k)
SetVariable(k)    == version = "2.0.1" /\ Flip(k)

Link ==
    /\ linkUp' = ~linkUp
    /\ UNCHANGED <<version, on, late, listState, cacheState, files, said, changes>>

Expire ==
    /\ ~late
    /\ late' = TRUE
    /\ UNCHANGED <<version, on, linkUp, listState, cacheState, files, said, changes>>

Reborn ==
    /\ linkUp' = FALSE
    /\ savers' = [s \in Savers |-> Idle]
    /\ timer' = Quiet
    /\ request' = {}
    /\ overlap' = FALSE
    /\ Counted
    /\ UNCHANGED <<version, late, told, said>>

\* A stop saves both; one during a write is left to two overlapping saves above,
\* and no two stops fall within one second.
Stop ==
    /\ \A s \in Savers : savers[s].at # "writing"
    /\ timer.copy = {}
    /\ left = {}
    /\ left' \in {{}, IF timer = Quiet THEN {} ELSE {[at |-> "due", copy |-> cache]}}
    /\ listFile' = Whole(list)
    /\ cacheFile' = {cache}
    /\ Reborn
    /\ UNCHANGED <<on, list, cache, clean>>

Crash ==
    /\ left' = {}
    /\ list' = LoadList(listFile)
    /\ cache' = LoadCache(cacheFile)
    /\ clean' = FALSE
    /\ on' \in {on, Keys}
    /\ Reborn
    /\ UNCHANGED <<listFile, cacheFile>>

Next ==
    \/ \E u \in Offered : SendLocalList(u) \/ UpdateList(u)
    \/ \E u \in request : AcceptList(u) \/ RefuseList(u)
    \/ \E t \in Tags : RemoveEntry(t)
    \/ ClearList
    \/ \E s \in Savers : SaveList(s) \/ WriteList(s)
    \/ \E t \in Tags, e \in Entry :
          \/ AuthorizeAnswer16(t, e) \/ AuthorizeAnswer201(t, e)
          \/ StartAnswer16(t, e) \/ StartAnswer201(t, e)
    \/ ClearCache
    \/ AutoSave \/ TimerFires \/ SaveCache \/ WriteCache
    \/ LeftFires \/ LeftWrites
    \/ \E k \in Keys : SetConfigValue(k) \/ SetVariable(k)
    \/ Link
    \/ Expire
    \/ Stop
    \/ Crash

Spec == Init /\ [][Next]_vars

-----------------------------------------------------------------------------
\* A book was told to accept the tag, in words that still hold; or to refuse it,
\* or in words that have run out.
Granted(book, t) ==
    \E e \in Entry : <<book, t, e>> \in said /\ e.status = "Accepted" /\ ~(e.expires /\ late)
Denied(book, t) ==
    \E e \in Entry : <<book, t, e>> \in said /\ (e.status # "Accepted" \/ (e.expires /\ late))

\* Offline, a session of a tag starts only on an acceptance that the CSMS or the
\* operator once gave to a book that is switched on, and that has not expired:
\* no order of updates, clears, key changes, torn files and restarts makes one
\* up.  The code makes two exceptions, a start at the station without a tag and,
\* in 2.0.1, a remote start while AuthorizeRemoteStart is off
\* (local_session_admission.go, v16/bridge.go, v201/auth.go, local_auth_persist.go).
OfflineNeedsGrant ==
    LET InUse(t) == (ListOn /\ Granted("list", t)) \/ (CacheOn /\ Granted("cache", t))
    IN  ~linkUp =>
            /\ \A t \in Tags \cup {NoTag} : AdmitLocalSession(t) => t = NoTag \/ InUse(t)
            /\ \A t \in Tags : AdmitRemoteStart(t) =>
                   InUse(t) \/ (version = "2.0.1" /\ "AuthorizeRemoteStart" \notin on)

\* The engine takes no session from a tag for what the station has forgotten or
\* never knew: a tag is refused only when the CSMS or the operator once had a
\* book refuse it, or what they said has expired, and a cleared list, an emptied
\* cache, a torn file or a crash never refuses anybody (station_runtime.go,
\* local_auth_list.go, auth_cache.go).
RefusalNeedsReason ==
    \A t \in Tags : ~ValidateIDTag(t) => Denied("list", t) \/ Denied("cache", t)

\* The station's list is the one the CSMS takes it to have from the answers it
\* got, until the operator edits it, an answer is lost or the station crashes,
\* and again from the next accepted Full update on: a refused update leaves no
\* trace, and a stop keeps the list (OnSendLocalList, UpdateList, SaveAll).
ListAsTold == clean => list = told

\* With no save under way a restart would find the list as it is, unless the
\* last save overlapped with another (autoSave of local_auth_persist.go).
ListOnDisk ==
    (~overlap /\ \A s \in Savers : savers[s] = Idle) => LoadList(listFile) = list

\* With no save due or under way a restart would find the cache as it is: no
\* change falls between the flag, the copy and the write, nor does a timer that
\* outlived its runtime undo a later save (auth_cache_persist.go).
CacheOnDisk == timer = Quiet /\ left = {} => LoadCache(cacheFile) = cache
=============================================================================
