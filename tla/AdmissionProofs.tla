--------------------------- MODULE AdmissionProofs ---------------------------
(***************************************************************************)
(* Proofs about Admission, for any tags, entries, updates and number of    *)
(* saves under way: nothing but an acceptance once given admits a tag      *)
(* offline, nothing but a refusal once given, or an entry that ran out,    *)
(* turns one away during a session, the CSMS and the station have the same *)
(* list, and what is on disk is what a restart should find.                *)
(***************************************************************************)
EXTENDS Admission, FiniteSetTheorems, TLAPS

USE AdmissionAssumption

-----------------------------------------------------------------------------
(* The invariant.                                                          *)

Capped(l) == Cardinality(DOMAIN l.entries) <= ListCap

\* What a restart, or a save that is under way, may bring back.
Copies ==
    /\ timer \in [wake : BOOLEAN, scheduled : BOOLEAN, fired : BOOLEAN, copy : SUBSET Books]
    /\ Capped(listFile.list)
    /\ \A s \in Savers : Capped(savers[s].copy)

\* Every entry of a book, in use or saved, was said to that book.
Given(name, book) == \A t \in DOMAIN book : <<name, t, book[t]>> \in said

SavedCaches == cacheFile \cup timer.copy \cup {l.copy : l \in left}

AllGiven ==
    /\ Given("list", list.entries)
    /\ Given("list", listFile.list.entries)
    /\ \A s \in Savers : Given("list", savers[s].copy.entries)
    /\ Given("cache", cache)
    /\ \A b \in SavedCaches : Given("cache", b)

\* Unless the latest save of the list overlaps with another, it is the only one
\* that writes, over a file it has cut; and what it writes, or has written, is
\* the list unless an autosave is still to come.
ListSaves ==
    ~overlap =>
        /\ \A s, o \in Savers : savers[s].at = "writing" /\ savers[o].at = "writing" => s = o
        /\ \A s \in Savers : savers[s].at = "writing" => listFile.state = "cut"
        /\ (\A s \in Savers : savers[s].at # "wake") =>
              /\ \A s \in Savers : savers[s].at = "writing" => savers[s].copy = list
              /\ (\A s \in Savers : savers[s].at # "writing") => LoadList(listFile) = list

\* With no save of the cache due, what is being written, or was, is the cache;
\* a timer that outlived its runtime has written before the next save begins.
CacheSaves ==
    /\ timer.copy # {} => left = {}
    /\ ~timer.wake /\ ~timer.scheduled /\ ~timer.fired =>
          IF timer.copy # {} THEN timer.copy = {cache}
          ELSE IF left # {} THEN \A l \in left : l.copy = cache
          ELSE LoadCache(cacheFile) = cache

\* What may be left of a stopped runtime.
LeftType(L) == L = {} \/ \E at \in {"due", "writing"}, b \in Books : L = {[at |-> at, copy |-> b]}

AdmissionInv == TypeOK /\ Copies /\ AllGiven /\ ListSaves /\ CacheSaves /\ ListAsTold

-----------------------------------------------------------------------------
(* Books, lists and updates.                                               *)

\* A book is a function from some of the tags.
LEMMA BookType ==
    /\ \A b \in Books : DOMAIN b \in SUBSET Tags /\ b \in [DOMAIN b -> Entry]
    /\ \A S \in SUBSET Tags : [S -> Entry] \subseteq Books
<1>1. ASSUME NEW b \in Books PROVE DOMAIN b \in SUBSET Tags /\ b \in [DOMAIN b -> Entry]
  <2>1. PICK S \in SUBSET Tags : b \in [S -> Entry]
    BY DEF Books
  <2>2. QED
    BY <2>1
<1>2. \A S \in SUBSET Tags : [S -> Entry] \subseteq Books
  BY DEF Books
<1>3. QED
  BY <1>1, <1>2

LEMMA EmptyBook == Empty \in Books /\ DOMAIN Empty = {}
<1>1. Empty \in [{} -> Entry] /\ DOMAIN Empty = {}
  BY DEF Empty
<1>2. QED
  BY <1>1, BookType

\* A set of tags is no larger than one that contains it.
LEMMA Fewer ==
    ASSUME NEW S \in SUBSET Tags, NEW T \in SUBSET S, Cardinality(S) <= ListCap
    PROVE  Cardinality(T) <= ListCap
<1>1. IsFiniteSet(S)
  BY FS_Subset
<1>2. Cardinality(T) <= Cardinality(S) /\ Cardinality(S) \in Nat /\ IsFiniteSet(T)
  BY <1>1, FS_Subset, FS_CardinalityType
<1>3. Cardinality(T) \in Nat
  BY <1>2, FS_CardinalityType
<1>4. QED
  BY <1>2, <1>3

LEMMA NewListType == NewList \in Lists /\ Capped(NewList) /\ Given("list", NewList.entries)
<1>1. NewList \in Lists /\ NewList.entries = Empty
  BY EmptyBook DEF NewList, Lists
<1>2. Cardinality({}) = 0
  BY FS_EmptySet
<1>3. QED
  BY <1>1, <1>2, EmptyBook DEF Capped, Given

\* An update yields a list, which respects the cap when the update was accepted,
\* and which names only what was in the list or in the update.
LEMMA UpdatedType ==
    ASSUME NEW l \in Lists, NEW u \in Offered
    PROVE  /\ Updated(l, u) \in Lists
           /\ Accepts(l, u) => Capped(Updated(l, u))
           /\ \A t \in DOMAIN Updated(l, u).entries :
                 \/ t \in DOMAIN u.set /\ Updated(l, u).entries[t] = u.set[t]
                 \/ t \in DOMAIN l.entries /\ Updated(l, u).entries[t] = l.entries[t]
<1> DEFINE old == IF u.full THEN Empty ELSE l.entries
           S == (DOMAIN old \cup DOMAIN u.set) \ u.del
           f == [t \in S |-> IF t \in DOMAIN u.set THEN u.set[t] ELSE old[t]]
<1>1. u.version \in ListVersions /\ u.full \in BOOLEAN /\ u.set \in Books /\ u.del \subseteq Tags
  BY DEF Updates
<1>2. old \in Books /\ (\A t \in DOMAIN old : t \in DOMAIN l.entries /\ old[t] = l.entries[t])
  BY EmptyBook DEF Lists
<1>3. /\ DOMAIN old \in SUBSET Tags /\ old \in [DOMAIN old -> Entry]
      /\ DOMAIN u.set \in SUBSET Tags /\ u.set \in [DOMAIN u.set -> Entry]
  BY <1>1, <1>2, BookType
<1>4. S \in SUBSET Tags /\ f \in [S -> Entry]
  BY <1>3
<1>5. Updated(l, u) = [version |-> u.version, entries |-> f]
  BY DEF Updated
<1>6. Updated(l, u) \in Lists
  <2>1. f \in Books
    BY <1>4, BookType
  <2> HIDE DEF f
  <2>2. QED
    BY <1>1, <1>5, <2>1 DEF Lists
<1>7. ASSUME Accepts(l, u) PROVE Capped(Updated(l, u))
  <2> DEFINE T == IF u.full THEN DOMAIN u.set \cup u.del ELSE DOMAIN l.entries \cup DOMAIN u.set
  <2>1. DOMAIN l.entries \in SUBSET Tags
    BY BookType DEF Lists
  <2>2. T \in SUBSET Tags /\ Cardinality(T) <= ListCap
    BY <1>1, <1>3, <1>7, <2>1 DEF Accepts
  <2>3. S \in SUBSET T
    BY <1>2, EmptyBook
  <2>4. QED
    BY <1>5, <2>2, <2>3, Fewer DEF Capped
<1>8. QED
  BY <1>2, <1>5, <1>6, <1>7

LEMMA WithoutType ==
    ASSUME list \in Lists, Capped(list), NEW t
    PROVE  /\ Without(t) \in Lists /\ Capped(Without(t))
           /\ \A x \in DOMAIN Without(t).entries :
                 x \in DOMAIN list.entries /\ Without(t).entries[x] = list.entries[x]
<1> DEFINE S == DOMAIN list.entries \ {t}
           f == [x \in S |-> list.entries[x]]
<1>1. DOMAIN list.entries \in SUBSET Tags /\ list.entries \in [DOMAIN list.entries -> Entry]
  BY BookType DEF Lists
<1>2. f \in Books
  BY <1>1, BookType
<1>3. Without(t) = [list EXCEPT !.entries = f] /\ Without(t).entries = f
  BY DEF Without, Lists
<1>4. Without(t) \in Lists
  BY <1>2, <1>3 DEF Lists
<1>5. Capped(Without(t))
  BY <1>1, <1>3, Fewer DEF Capped
<1>6. QED
  BY <1>3, <1>4, <1>5

\* Gives forgets nothing and remembers what the book says.
LEMMA GivesSays ==
    ASSUME said \subseteq {"list", "cache"} \X Tags \X Entry,
           NEW name \in {"list", "cache"}, NEW B \in Books, Gives(name, B)
    PROVE  /\ said \subseteq said'
           /\ said' \subseteq {"list", "cache"} \X Tags \X Entry
           /\ \A t \in DOMAIN B : <<name, t, B[t]>> \in said'
<1>1. \A t \in DOMAIN B : t \in Tags /\ B[t] \in Entry
  BY BookType
<1>2. QED
  BY <1>1 DEF Gives

-----------------------------------------------------------------------------
(* The invariant holds at first, and every change of the list keeps it.    *)

LEMMA InitAdmissionInv == Init => AdmissionInv
<1> SUFFICES ASSUME Init PROVE AdmissionInv
  OBVIOUS
<1>1. NewList \in Lists /\ Capped(NewList) /\ Empty \in Books /\ DOMAIN Empty = {}
      /\ NewList.entries = Empty
  BY NewListType, EmptyBook DEF NewList
<1>2. TypeOK
  <2>1. changes \in 0 .. MaxChanges
    BY DEF Init
  <2>2. Cardinality(DOMAIN list.entries) <= ListCap
    BY <1>1 DEF Init, Capped
  <2>3. listFile \in [state : {"none", "cut", "mixed", "whole"}, list : Lists]
    BY <1>1 DEF Init, File
  <2>4. savers \in [Savers -> [at : {"idle", "wake", "writing"}, copy : Lists]]
    BY <1>1 DEF Init, Idle
  <2>5. /\ {timer.wake, timer.scheduled, timer.fired} \subseteq BOOLEAN /\ timer.copy = {}
    BY DEF Init, Quiet
  <2>6. QED
    BY <1>1, <2>1, <2>2, <2>3, <2>4, <2>5 DEF Init, TypeOK
<1>3. Copies
  BY <1>1 DEF Init, Copies, Quiet, File, Idle
<1>4. AllGiven
  BY <1>1 DEF Init, AllGiven, SavedCaches, Given, File, Idle, Quiet
<1>5. ListSaves
  BY <1>1 DEF Init, ListSaves, Idle, LoadList, File
<1>6. CacheSaves
  BY DEF Init, CacheSaves, Quiet, LoadCache
<1>7. ListAsTold
  BY DEF Init, ListAsTold
<1>8. QED
  BY <1>2, <1>3, <1>4, <1>5, <1>6, <1>7 DEF AdmissionInv

\* The list is replaced by l, whose entries come from the list or from the book B
\* that the CSMS or the operator gave.
Edited(l, B) ==
    /\ l \in Lists /\ Capped(l) /\ B \in Books
    /\ \A t \in DOMAIN l.entries :
          \/ t \in DOMAIN B /\ l.entries[t] = B[t]
          \/ t \in DOMAIN list.entries /\ l.entries[t] = list.entries[t]
    /\ \E s \in Savers : ChangeList(l, s)
    /\ Gives("list", B)
    /\ Counted
    /\ request' \in {request, {}} /\ told' \in Lists /\ clean' \in BOOLEAN
    /\ clean' => l = told'
    /\ UNCHANGED <<settings, cacheState, files>>

LEMMA EditedKeepsInv ==
    ASSUME AdmissionInv, NEW l, NEW B, Edited(l, B)
    PROVE  AdmissionInv'
<1> USE DEF settings, cacheState, files
<1>1. PICK s \in Savers : ChangeList(l, s)
  BY DEF Edited
<1>2. /\ savers \in [Savers -> [at : {"idle", "wake", "writing"}, copy : Lists]]
      /\ savers[s] = Idle /\ list' = l /\ savers' = [savers EXCEPT ![s].at = "wake"]
  BY <1>1 DEF AdmissionInv, TypeOK, ChangeList
<1>3. /\ savers' \in [Savers -> [at : {"idle", "wake", "writing"}, copy : Lists]]
      /\ savers'[s].at = "wake"
      /\ \A o \in Savers : savers'[o].copy = savers[o].copy
      /\ \A o \in Savers \ {s} : savers'[o] = savers[o]
  BY <1>2
<1>4. UNCHANGED <<version, on, linkUp, late, cache, timer, left, listFile, cacheFile, overlap>>
  BY DEF Edited
<1>5. /\ said \subseteq said'
      /\ said' \subseteq {"list", "cache"} \X Tags \X Entry
      /\ \A t \in DOMAIN B : <<"list", t, B[t]>> \in said'
  BY GivesSays DEF AdmissionInv, TypeOK, Edited
<1>6. TypeOK'
  <2>1. Keys' = Keys
    BY <1>4 DEF Keys
  <2>2. changes' \in 0 .. MaxChanges
    BY DEF AdmissionInv, TypeOK, Edited, Counted
  <2>3. request' = {} \/ \E u \in Offered : request' = {u}
    BY DEF AdmissionInv, TypeOK, Edited
  <2>4. list' \in Lists /\ Cardinality(DOMAIN list'.entries) <= ListCap
        /\ told' \in Lists /\ clean' \in BOOLEAN
    BY <1>2 DEF Edited, Capped
  <2>5. QED
    BY <1>3, <1>4, <1>5, <2>1, <2>2, <2>3, <2>4 DEF AdmissionInv, TypeOK
<1>7. Copies'
  BY <1>3, <1>4 DEF AdmissionInv, Copies, Capped
<1>8. AllGiven'
  <2>1. Given("list", list.entries)'
    BY <1>2, <1>5 DEF AdmissionInv, AllGiven, SavedCaches, Given, Edited
  <2>2. \A o \in Savers : Given("list", savers[o].copy.entries)'
    BY <1>3, <1>5 DEF AdmissionInv, AllGiven, SavedCaches, Given
  <2>3. QED
    BY <1>4, <1>5, <2>1, <2>2 DEF AdmissionInv, AllGiven, SavedCaches, Given
<1>9. ListSaves'
  BY <1>2, <1>3, <1>4 DEF AdmissionInv, ListSaves, Idle
<1>10. CacheSaves'
  BY <1>4 DEF AdmissionInv, CacheSaves
<1>11. ListAsTold'
  BY <1>2 DEF Edited, ListAsTold
<1>12. QED
  BY <1>6, <1>7, <1>8, <1>9, <1>10, <1>11 DEF AdmissionInv

\* AcceptList, UpdateList, RemoveEntry and ClearList.
LEMMA ListKeepsInv ==
    ASSUME AdmissionInv,
           \/ \E u \in request : AcceptList(u)
           \/ \E u \in Offered : UpdateList(u)
           \/ \E t \in Tags : RemoveEntry(t)
           \/ ClearList
    PROVE  AdmissionInv'
<1>0. list \in Lists /\ told \in Lists /\ clean \in BOOLEAN /\ linkUp \in BOOLEAN
      /\ Capped(list) /\ request \subseteq Offered
  BY DEF AdmissionInv, TypeOK, Capped
<1>1. ASSUME NEW u \in request, AcceptList(u) PROVE AdmissionInv'
  <2>1. u \in Offered /\ u.set \in Books /\ u.full \in BOOLEAN
    BY <1>0 DEF Updates
  <2>2. told' = Updated(told, u) /\ told' \in Lists
    BY <1>0, <1>1, <2>1, UpdatedType DEF AcceptList
  <2>3. clean' \in BOOLEAN /\ (clean' => Updated(list, u) = told')
    BY <1>0, <1>1, <2>1, <2>2 DEF AcceptList, Updated, AdmissionInv, ListAsTold
  <2>4. Edited(Updated(list, u), u.set)
    BY <1>0, <1>1, <2>1, <2>2, <2>3, UpdatedType DEF AcceptList, Edited
  <2>5. QED
    BY <2>4, EditedKeepsInv
<1>2. ASSUME NEW u \in Offered, UpdateList(u) PROVE AdmissionInv'
  <2>1. u.set \in Books
    BY DEF Updates
  <2>2. Edited(Updated(list, u), u.set)
    BY <1>0, <1>2, <2>1, UpdatedType DEF UpdateList, Edit, Edited
  <2>3. QED
    BY <2>2, EditedKeepsInv
<1>3. ASSUME NEW t \in Tags, RemoveEntry(t) PROVE AdmissionInv'
  <2>1. Edited(Without(t), Empty)
    BY <1>0, <1>3, WithoutType, EmptyBook DEF RemoveEntry, Edit, Edited
  <2>2. QED
    BY <2>1, EditedKeepsInv
<1>4. ASSUME ClearList PROVE AdmissionInv'
  <2>1. NewList.entries = Empty
    BY DEF NewList
  <2>2. Edited(NewList, Empty)
    BY <1>0, <1>4, <2>1, NewListType, EmptyBook DEF ClearList, Edit, Edited
  <2>3. QED
    BY <2>2, EditedKeepsInv
<1>5. QED
  BY <1>1, <1>2, <1>3, <1>4

-----------------------------------------------------------------------------
(* The other steps.                                                        *)

\* SendLocalList, RefuseList and the steps of the settings touch no book.
LEMMA SettingsKeepInv ==
    ASSUME AdmissionInv,
           \/ \E u \in Offered : SendLocalList(u)
           \/ \E u \in request : RefuseList(u)
           \/ \E k \in Keys : SetConfigValue(k) \/ SetVariable(k)
           \/ Link \/ Expire
    PROVE  AdmissionInv'
<1>1. /\ UNCHANGED <<version, list, savers, told, clean, cache, timer, left, listFile, cacheFile,
                     overlap, said>>
      /\ request' = request \/ request' = {} \/ \E u \in Offered : request' = {u}
      /\ on' \subseteq Keys /\ linkUp' \in BOOLEAN /\ late' \in BOOLEAN /\ changes' \in 0 .. MaxChanges
  <2> USE DEF settings, listState, cacheState, files
  <2>0. /\ on \subseteq Keys /\ linkUp \in BOOLEAN /\ late \in BOOLEAN /\ changes \in 0 .. MaxChanges
    BY DEF AdmissionInv, TypeOK
  <2>1. CASE (\E u \in Offered : SendLocalList(u)) \/ \E u \in request : RefuseList(u)
    BY <2>0, <2>1 DEF SendLocalList, RefuseList, ListFailed
  <2>2. ASSUME NEW k \in Keys, Flip(k)
        PROVE  /\ on' \subseteq Keys /\ changes' \in 0 .. MaxChanges
               /\ UNCHANGED <<version, linkUp, late, listState, cacheState, files, said>>
    BY <2>0, <2>2 DEF Flip, Counted
  <2>3. CASE \E k \in Keys : SetConfigValue(k) \/ SetVariable(k)
    BY <2>0, <2>2, <2>3 DEF SetConfigValue, SetVariable
  <2>4. CASE Link \/ Expire
    BY <2>0, <2>4 DEF Link, Expire
  <2>5. QED
    BY <2>1, <2>3, <2>4
<1>2. TypeOK'
  <2>1. Keys' = Keys
    BY <1>1 DEF Keys
  <2>2. QED
    BY <1>1, <2>1 DEF AdmissionInv, TypeOK
<1>3. Copies' /\ AllGiven'
  BY <1>1 DEF AdmissionInv, Copies, AllGiven, SavedCaches, Given
<1>4. ListSaves' /\ CacheSaves' /\ ListAsTold'
  BY <1>1 DEF AdmissionInv, ListSaves, LoadList, CacheSaves, LoadCache, ListAsTold
<1>5. QED
  BY <1>2, <1>3, <1>4 DEF AdmissionInv

\* The list's saves.
LEMMA SaveListKeepsInv ==
    ASSUME AdmissionInv, NEW s \in Savers, SaveList(s) \/ WriteList(s)
    PROVE  AdmissionInv'
<1> USE DEF settings, cacheState
<1>0. /\ savers \in [Savers -> [at : {"idle", "wake", "writing"}, copy : Lists]]
      /\ list \in Lists /\ Capped(list)
      /\ UNCHANGED <<version, on, linkUp, late, list, request, told, clean, cache, timer, left,
                     cacheFile, said, changes>>
      /\ NewList \in Lists /\ Capped(NewList) /\ Given("list", NewList.entries)
  BY NewListType DEF AdmissionInv, TypeOK, Capped, SaveList, WriteList
<1>1. \A o \in Savers \ {s} : savers'[o] = savers[o]
  BY <1>0 DEF SaveList, WriteList
<1>2. \/ /\ savers[s].at = "wake" /\ savers'[s] = [at |-> "writing", copy |-> list]
         /\ listFile' = File("cut", NewList)
         /\ overlap' = \E o \in Savers : savers[o].at = "writing"
      \/ /\ savers[s].at = "writing" /\ savers'[s] = Idle /\ overlap' = overlap
         /\ \/ listFile' = Whole(savers[s].copy)
            \/ listFile.state # "cut" /\ listFile' = File("mixed", NewList)
  BY <1>0 DEF SaveList, WriteList
<1>3. /\ savers' \in [Savers -> [at : {"idle", "wake", "writing"}, copy : Lists]]
      /\ overlap' \in BOOLEAN
      /\ listFile' \in [state : {"none", "cut", "mixed", "whole"}, list : Lists]
  <2>1. Idle \in [at : {"idle", "wake", "writing"}, copy : Lists]
    BY <1>0 DEF Idle
  <2>2. [at |-> "writing", copy |-> list] \in [at : {"idle", "wake", "writing"}, copy : Lists]
    BY <1>0
  <2>3. savers' \in [Savers -> [at : {"idle", "wake", "writing"}, copy : Lists]]
    BY <1>0, <2>1, <2>2 DEF SaveList, WriteList
  <2>4. overlap' \in BOOLEAN
    BY <1>2 DEF AdmissionInv, TypeOK
  <2>5. listFile' \in [state : {"none", "cut", "mixed", "whole"}, list : Lists]
    <3>1. savers[s].copy \in Lists
      BY <1>0
    <3>2. listFile' \in {File("cut", NewList), File("mixed", NewList), File("whole", savers[s].copy)}
      BY <1>2 DEF Whole
    <3>3. QED
      BY <1>0, <3>1, <3>2 DEF File
  <2>6. QED
    BY <2>3, <2>4, <2>5
<1>4. listFile'.list \in {NewList, savers[s].copy} /\ savers'[s].copy \in {list, NewList}
  <2>1. PICK l \in {NewList, savers[s].copy}, at \in {"cut", "mixed", "whole"} : listFile' = File(at, l)
    BY <1>2 DEF Whole
  <2>2. listFile'.list \in {NewList, savers[s].copy}
    BY <2>1, ZenonT(30) DEF File
  <2>3. Idle.copy = NewList /\ [at |-> "writing", copy |-> list].copy = list
    BY DEF Idle
  <2>4. savers'[s].copy \in {list, NewList}
    BY <1>2, <2>3
  <2>5. QED
    BY <2>2, <2>4
<1>5. TypeOK'
  <2>1. Keys' = Keys
    BY <1>0 DEF Keys
  <2>2. QED
    BY <1>0, <1>3, <2>1 DEF AdmissionInv, TypeOK
<1>6. Copies'
  <2>1. Capped(listFile'.list) /\ Capped(savers'[s].copy)
    BY <1>0, <1>4 DEF AdmissionInv, Copies
  <2>2. QED
    BY <1>0, <1>1, <2>1 DEF AdmissionInv, Copies, Capped
<1>7. AllGiven'
  <2>1. Given("list", listFile'.list.entries) /\ Given("list", savers'[s].copy.entries)
    BY <1>0, <1>4 DEF AdmissionInv, AllGiven
  <2>2. QED
    BY <1>0, <1>1, <2>1 DEF AdmissionInv, AllGiven, SavedCaches, Given
<1>8. ListSaves'
  <2>1. CASE /\ savers[s].at = "wake" /\ savers'[s] = [at |-> "writing", copy |-> list]
             /\ listFile' = File("cut", NewList)
             /\ overlap' = \E o \in Savers : savers[o].at = "writing"
    <3>1. ~overlap' => \A o \in Savers \ {s} : savers'[o].at # "writing"
      BY <1>1, <2>1
    <3>2. savers'[s].at = "writing" /\ savers'[s].copy = list' /\ listFile'.state = "cut"
      BY <1>0, <2>1 DEF File
    <3>3. QED
      BY <3>1, <3>2 DEF ListSaves
  <2>2. CASE /\ savers[s].at = "writing" /\ savers'[s] = Idle /\ overlap' = overlap
             /\ \/ listFile' = Whole(savers[s].copy)
                \/ listFile.state # "cut" /\ listFile' = File("mixed", NewList)
    <3>1. savers'[s].at = "idle"
      BY <2>2 DEF Idle
    <3>2. ~overlap => /\ \A o \in Savers \ {s} : savers'[o].at # "writing"
                      /\ listFile' = Whole(savers[s].copy)
      BY <1>1, <2>2 DEF AdmissionInv, ListSaves
    <3>3. ~overlap /\ (\A o \in Savers : savers'[o].at # "wake") => savers[s].copy = list
      BY <1>1, <2>2 DEF AdmissionInv, ListSaves
    <3>4. QED
      BY <1>0, <2>2, <3>1, <3>2, <3>3 DEF ListSaves, LoadList, Whole, File
  <2>3. QED
    BY <1>2, <2>1, <2>2
<1>9. CacheSaves' /\ ListAsTold'
  BY <1>0 DEF AdmissionInv, CacheSaves, ListAsTold
<1>10. QED
  BY <1>5, <1>6, <1>7, <1>8, <1>9 DEF AdmissionInv

\* A list step leaves what the cache's steps do not touch.
LEMMA CacheStepKeeps ==
    ASSUME AdmissionInv,
           UNCHANGED <<settings, listState, listFile, overlap>>,
           cache' \in Books, changes' \in 0 .. MaxChanges,
           timer' \in [wake : BOOLEAN, scheduled : BOOLEAN, fired : BOOLEAN, copy : SUBSET Books],
           cacheFile' = {} \/ \E b \in Books : cacheFile' = {b},
           timer'.copy = {} \/ \E b \in Books : timer'.copy = {b},
           LeftType(left'),
           said \subseteq said',
           said' \subseteq {"list", "cache"} \X Tags \X Entry,
           Given("cache", cache)',
           \A b \in SavedCaches' : b = cache \/ b \in SavedCaches,
           CacheSaves'
    PROVE  AdmissionInv'
<1> USE DEF settings, listState
<1>1. TypeOK'
  <2>1. Keys' = Keys
    BY DEF Keys
  <2>2. QED
    BY <2>1 DEF AdmissionInv, TypeOK, LeftType
<1>2. Copies'
  BY DEF AdmissionInv, Copies, Capped
<1>3. AllGiven'
  BY DEF AdmissionInv, AllGiven, Given
<1>4. ListSaves' /\ ListAsTold'
  BY DEF AdmissionInv, ListSaves, LoadList, ListAsTold
<1>5. QED
  BY <1>1, <1>2, <1>3, <1>4 DEF AdmissionInv

\* An answer of the CSMS puts an entry into the cache.
LEMMA PutKeepsInv ==
    ASSUME AdmissionInv, NEW t \in Tags, NEW e \in Entry, Put(t, e)
    PROVE  AdmissionInv'
<1> DEFINE b == [x \in DOMAIN cache \cup {t} |-> IF x = t THEN e ELSE cache[x]]
           g == [x \in {t} |-> e]
<1>0. cache \in Books /\ DOMAIN cache \in SUBSET Tags /\ cache \in [DOMAIN cache -> Entry]
      /\ timer \in [wake : BOOLEAN, scheduled : BOOLEAN, fired : BOOLEAN, copy : SUBSET Books]
  BY BookType DEF AdmissionInv, TypeOK, Copies
<1>1. b \in [DOMAIN cache \cup {t} -> Entry] /\ g \in [{t} -> Entry]
  BY <1>0
<1>2. b \in Books /\ g \in Books
  BY <1>0, <1>1, BookType
<1>3. cache' = b /\ timer' = [timer EXCEPT !.wake = TRUE] /\ left' = left /\ Gives("cache", g)
      /\ UNCHANGED <<settings, listState, files>>
  BY DEF Put, ChangeCache
<1>4. /\ said \subseteq said'
      /\ said' \subseteq {"list", "cache"} \X Tags \X Entry
      /\ \A x \in DOMAIN g : <<"cache", x, g[x]>> \in said'
  BY <1>2, <1>3, GivesSays DEF AdmissionInv, TypeOK
<1>5. Given("cache", cache)'
  <2>1. \A x \in DOMAIN b :
           \/ x \in DOMAIN g /\ b[x] = g[x]
           \/ x \in DOMAIN cache /\ b[x] = cache[x]
    OBVIOUS
  <2> HIDE DEF b, g
  <2>2. QED
    BY <1>3, <1>4, <2>1 DEF AdmissionInv, AllGiven, SavedCaches, Given
<1>6. timer' \in [wake : BOOLEAN, scheduled : BOOLEAN, fired : BOOLEAN, copy : SUBSET Books]
      /\ timer'.wake /\ timer'.copy = timer.copy
  BY <1>0, <1>3
<1>7. CacheSaves'
  BY <1>3, <1>6 DEF AdmissionInv, CacheSaves
<1>8. changes' \in 0 .. MaxChanges
  BY DEF Put, Counted, AdmissionInv, TypeOK
<1>9. LeftType(left') /\ SavedCaches' = SavedCaches
  BY <1>3, <1>6 DEF AdmissionInv, TypeOK, LeftType, SavedCaches, files
<1>10. QED
  BY <1>2, <1>3, <1>4, <1>5, <1>6, <1>7, <1>8, <1>9, CacheStepKeeps DEF AdmissionInv, TypeOK, files

\* ClearCache, the timer of the cache's autosave, and that of a stopped runtime.
LEMMA TimerKeepsInv ==
    ASSUME AdmissionInv,
           \/ ClearCache \/ AutoSave \/ TimerFires \/ SaveCache \/ WriteCache
           \/ LeftFires \/ LeftWrites
    PROVE  AdmissionInv'
<1>0. /\ timer \in [wake : BOOLEAN, scheduled : BOOLEAN, fired : BOOLEAN, copy : SUBSET Books]
      /\ cache \in Books /\ Empty \in Books /\ DOMAIN Empty = {}
      /\ said \subseteq {"list", "cache"} \X Tags \X Entry
      /\ changes \in 0 .. MaxChanges /\ changes' \in 0 .. MaxChanges
      /\ UNCHANGED <<settings, listState, listFile, overlap, said>>
      /\ LeftType(left)
      /\ timer.copy = {} \/ \E b \in Books : timer.copy = {b}
      /\ cacheFile = {} \/ \E b \in Books : cacheFile = {b}
  BY EmptyBook DEF AdmissionInv, TypeOK, Copies, Counted, LeftType,
     ClearCache, AutoSave, TimerFires, SaveCache, WriteCache, LeftFires, LeftWrites, files
<1>1. Given("cache", cache)
  BY DEF AdmissionInv, AllGiven
<1>2. CASE ClearCache
  <2>1. /\ cache' = Empty /\ timer' = [timer EXCEPT !.wake = TRUE]
        /\ cacheFile' = cacheFile /\ left' = left
    BY <1>2 DEF ClearCache, ChangeCache, files
  <2>2. timer' \in [wake : BOOLEAN, scheduled : BOOLEAN, fired : BOOLEAN, copy : SUBSET Books]
        /\ timer'.wake /\ timer'.copy = timer.copy
    BY <1>0, <2>1
  <2>3. Given("cache", cache)' /\ CacheSaves'
    BY <1>0, <2>1, <2>2 DEF AdmissionInv, Given, CacheSaves
  <2>4. SavedCaches' = SavedCaches
    BY <2>1, <2>2 DEF SavedCaches
  <2>5. QED
    BY <1>0, <2>1, <2>2, <2>3, <2>4, CacheStepKeeps
<1>3. CASE AutoSave \/ TimerFires
  <2>1. cache' = cache /\ cacheFile' = cacheFile /\ left' = left
        /\ timer'.copy = timer.copy /\ (timer'.scheduled \/ timer'.fired)
        /\ timer' \in [wake : BOOLEAN, scheduled : BOOLEAN, fired : BOOLEAN, copy : SUBSET Books]
    BY <1>0, <1>3 DEF AutoSave, TimerFires, files
  <2>2. Given("cache", cache)' /\ CacheSaves'
    BY <1>0, <1>1, <2>1 DEF AdmissionInv, Given, CacheSaves
  <2>3. SavedCaches' = SavedCaches
    BY <2>1 DEF SavedCaches
  <2>4. QED
    BY <1>0, <2>1, <2>2, <2>3, CacheStepKeeps
<1>4. CASE SaveCache
  <2>1. cache' = cache /\ cacheFile' = {} /\ timer'.copy = {cache} /\ left = {} /\ left' = {}
        /\ timer' \in [wake : BOOLEAN, scheduled : BOOLEAN, fired : BOOLEAN, copy : SUBSET Books]
    BY <1>0, <1>4 DEF SaveCache
  <2>2. Given("cache", cache)' /\ CacheSaves'
    BY <1>0, <1>1, <2>1 DEF Given, CacheSaves
  <2>3. \A b \in SavedCaches' : b = cache
    BY <2>1 DEF SavedCaches
  <2>4. QED
    BY <1>0, <2>1, <2>2, <2>3, CacheStepKeeps
<1>5. CASE WriteCache
  <2>1. /\ left' = left /\ cache' = cache /\ cacheFile' = timer.copy /\ timer.copy # {}
        /\ timer' = [timer EXCEPT !.copy = {}]
    BY <1>5 DEF WriteCache
  <2>2. /\ timer' \in [wake : BOOLEAN, scheduled : BOOLEAN, fired : BOOLEAN, copy : SUBSET Books]
        /\ timer'.copy = {} /\ timer'.wake = timer.wake
        /\ timer'.scheduled = timer.scheduled /\ timer'.fired = timer.fired
    BY <1>0, <2>1
  <2>3. CacheSaves'
    <3>1. LoadCache({cache}) = cache
      BY DEF LoadCache
    <3>2. QED
      BY <2>1, <2>2, <3>1 DEF AdmissionInv, CacheSaves
  <2>4. Given("cache", cache)'
    BY <1>0, <1>1, <2>1 DEF Given
  <2>5. \A b \in SavedCaches' : b \in SavedCaches
    BY <2>1, <2>2 DEF SavedCaches
  <2>6. QED
    BY <1>0, <2>1, <2>2, <2>3, <2>4, <2>5, CacheStepKeeps
<1>6. ASSUME NEW at \in {"due", "writing"}, NEW b \in Books, left = {[at |-> at, copy |-> b]},
             LeftFires \/ LeftWrites
      PROVE  AdmissionInv'
  <2>1. /\ UNCHANGED <<cache, timer>>
        /\ \/ left' = {[at |-> "writing", copy |-> b]} /\ cacheFile' = {}
           \/ left' = {} /\ cacheFile' = {b}
    BY <1>6 DEF LeftFires, LeftWrites
  <2>2. LeftType(left') /\ (cacheFile' = {} \/ \E f \in Books : cacheFile' = {f})
    BY <2>1 DEF LeftType
  <2>3. \A f \in SavedCaches' : f \in SavedCaches
    <3>1. b \in {l.copy : l \in left}
      BY <1>6
    <3>2. \A f \in {l.copy : l \in left'} : f = b
      BY <2>1
    <3>3. QED
      BY <2>1, <3>1, <3>2 DEF SavedCaches
  <2>4. CacheSaves'
    <3>1. LoadCache({b}) = b
      BY DEF LoadCache
    <3>2. timer.copy = {} /\ (~timer.wake /\ ~timer.scheduled /\ ~timer.fired => b = cache)
      BY <1>6 DEF AdmissionInv, CacheSaves
    <3>3. CASE left' = {} /\ cacheFile' = {b}
      <4>1. LoadCache(cacheFile') = b
        BY <3>1, <3>3
      <4>2. QED
        BY <2>1, <3>2, <3>3, <4>1 DEF CacheSaves, LoadCache
    <3>4. CASE left' = {[at |-> "writing", copy |-> b]}
      <4>1. left' # {} /\ \A l \in left' : l.copy = b
        BY <3>4
      <4>2. QED
        BY <2>1, <3>2, <4>1 DEF CacheSaves
    <3>5. QED
      BY <2>1, <3>3, <3>4
  <2>5. Given("cache", cache)'
    BY <1>0, <1>1, <2>1 DEF Given
  <2>6. QED
    BY <1>0, <2>1, <2>2, <2>3, <2>4, <2>5, CacheStepKeeps
<1>7. left # {} => \E at \in {"due", "writing"}, b \in Books : left = {[at |-> at, copy |-> b]}
  BY <1>0 DEF LeftType
<1>8. LeftFires \/ LeftWrites => left # {}
  BY DEF LeftFires, LeftWrites
<1>9. QED
  BY <1>2, <1>3, <1>4, <1>5, <1>6, <1>7, <1>8

\* A restart: what it has in memory and on disk agrees, and was there before.
LEMMA RebornKeepsInv ==
    ASSUME AdmissionInv, Reborn, on' \subseteq Keys, clean' \in BOOLEAN,
           LeftType(left'), \A l \in left' : l.copy = cache',
           list' \in Lists, Capped(list'), cache' \in Books,
           listFile' \in [state : {"none", "cut", "mixed", "whole"}, list : Lists],
           Capped(listFile'.list),
           cacheFile' = {} \/ \E b \in Books : cacheFile' = {b},
           Given("list", list'.entries), Given("list", listFile'.list.entries),
           Given("cache", cache'), \A b \in cacheFile' : Given("cache", b),
           LoadList(listFile') = list', LoadCache(cacheFile') = cache',
           clean' => list' = told
    PROVE  AdmissionInv'
<1>1. /\ UNCHANGED <<version, late, told, said>>
      /\ linkUp' = FALSE /\ savers' = [s \in Savers |-> Idle] /\ timer' = Quiet
      /\ request' = {} /\ overlap' = FALSE /\ changes' \in 0 .. MaxChanges
  BY DEF AdmissionInv, TypeOK, Reborn, Counted
<1>2. NewList \in Lists /\ Capped(NewList) /\ Given("list", NewList.entries)
  BY NewListType
<1>3. \A s \in Savers : savers'[s].at = "idle" /\ savers'[s].copy = NewList
  BY <1>1 DEF Idle
<1>4. /\ timer' \in [wake : BOOLEAN, scheduled : BOOLEAN, fired : BOOLEAN, copy : SUBSET Books]
      /\ timer'.copy = {}
  BY <1>1 DEF Quiet
<1>5. TypeOK'
  <2>1. Keys' = Keys
    BY <1>1 DEF Keys
  <2>2. Idle \in [at : {"idle", "wake", "writing"}, copy : Lists]
    BY <1>2 DEF Idle
  <2>3. savers' \in [Savers -> [at : {"idle", "wake", "writing"}, copy : Lists]]
    BY <1>1, <2>2
  <2>4. QED
    BY <1>1, <1>4, <2>1, <2>3 DEF AdmissionInv, TypeOK, LeftType, Capped
<1>6. Copies'
  BY <1>2, <1>3, <1>4 DEF Copies, Capped
<1>7. AllGiven'
  <2>1. \A b \in SavedCaches' : b \in cacheFile' \/ b = cache'
    BY <1>4 DEF SavedCaches
  <2>2. QED
    BY <1>1, <1>2, <1>3, <2>1 DEF AllGiven, Given
<1>8. ListSaves'
  BY <1>3 DEF ListSaves, LoadList
<1>9. CacheSaves'
  <2>1. LoadCache(cacheFile)' = cache'
    BY DEF LoadCache
  <2>2. QED
    BY <1>4, <2>1 DEF CacheSaves
<1>10. ListAsTold'
  BY <1>1 DEF ListAsTold
<1>11. QED
  BY <1>5, <1>6, <1>7, <1>8, <1>9, <1>10 DEF AdmissionInv

LEMMA StopKeepsInv ==
    ASSUME AdmissionInv, Stop
    PROVE  AdmissionInv'
<1>1. /\ Reborn /\ listFile' = Whole(list) /\ cacheFile' = {cache}
      /\ left' \in {{}, {[at |-> "due", copy |-> cache]}}
      /\ UNCHANGED <<on, list, cache, clean, told>>
  BY DEF Stop, Reborn
<1>2. /\ on \subseteq Keys /\ clean \in BOOLEAN /\ list \in Lists /\ Capped(list) /\ cache \in Books
      /\ Given("list", list.entries) /\ Given("cache", cache) /\ (clean => list = told)
  BY DEF AdmissionInv, TypeOK, AllGiven, Capped, ListAsTold
<1>3. listFile' = [state |-> "whole", list |-> list]
  BY <1>1 DEF Whole, File
<1>4. /\ listFile' \in [state : {"none", "cut", "mixed", "whole"}, list : Lists]
      /\ listFile'.list = list /\ LoadList(listFile') = list
  BY <1>2, <1>3 DEF LoadList
<1>5. LoadCache({cache}) = cache
  BY DEF LoadCache
<1>6. LeftType(left') /\ \A l \in left' : l.copy = cache
  BY <1>1, <1>2 DEF LeftType
<1>7. QED
  BY <1>1, <1>2, <1>4, <1>5, <1>6, RebornKeepsInv

LEMMA CrashKeepsInv ==
    ASSUME AdmissionInv, Crash
    PROVE  AdmissionInv'
<1>1. /\ Reborn /\ list' = LoadList(listFile) /\ cache' = LoadCache(cacheFile)
      /\ clean' = FALSE /\ on' \subseteq Keys /\ UNCHANGED <<listFile, cacheFile>>
      /\ left' = {}
  BY DEF Crash, AdmissionInv, TypeOK
<1>2. /\ listFile \in [state : {"none", "cut", "mixed", "whole"}, list : Lists]
      /\ Capped(listFile.list) /\ Given("list", listFile.list.entries)
      /\ cacheFile = {} \/ \E b \in Books : cacheFile = {b}
      /\ \A b \in cacheFile : Given("cache", b)
  BY DEF AdmissionInv, TypeOK, Copies, AllGiven, SavedCaches
<1>3. LoadList(listFile) \in {NewList, listFile.list}
  BY DEF LoadList
<1>4. list' \in Lists /\ Capped(list') /\ Given("list", list'.entries)
  BY <1>1, <1>2, <1>3, NewListType
<1>5. cache' \in Books /\ Given("cache", cache')
  <2>1. CASE cacheFile = {}
    BY <1>1, <2>1, EmptyBook DEF LoadCache, Given
  <2>2. ASSUME NEW b \in Books, cacheFile = {b}
        PROVE  cache' \in Books /\ Given("cache", cache')
    BY <1>1, <1>2, <2>2 DEF LoadCache
  <2>3. QED
    BY <1>2, <2>1, <2>2
<1>6. LoadList(listFile') = list' /\ LoadCache(cacheFile') = cache' /\ LeftType(left')
  BY <1>1 DEF LoadList, LoadCache, LeftType
<1>7. QED
  BY <1>1, <1>2, <1>4, <1>5, <1>6, RebornKeepsInv

LEMMA AdmissionInvStep == AdmissionInv /\ [Next]_vars => AdmissionInv'
<1> SUFFICES ASSUME AdmissionInv, [Next]_vars PROVE AdmissionInv'
  OBVIOUS
<1>1. ASSUME NEW t \in Tags, NEW e \in Entry,
             \/ AuthorizeAnswer16(t, e) \/ AuthorizeAnswer201(t, e)
             \/ StartAnswer16(t, e) \/ StartAnswer201(t, e)
      PROVE  AdmissionInv'
  BY <1>1, PutKeepsInv DEF AuthorizeAnswer16, AuthorizeAnswer201, StartAnswer16, StartAnswer201
<1>2. CASE UNCHANGED vars
  <2>1. UNCHANGED <<version, on, linkUp, late, list, savers, request, told, clean, cache, timer, left,
                    listFile, cacheFile, overlap, said, changes>>
    BY <1>2 DEF vars, settings, listState, cacheState, files
  <2>2. TypeOK'
    BY <2>1 DEF AdmissionInv, TypeOK, Keys
  <2>3. Copies' /\ AllGiven'
    BY <2>1 DEF AdmissionInv, Copies, AllGiven, SavedCaches, Given
  <2>4. ListSaves' /\ CacheSaves' /\ ListAsTold'
    BY <2>1 DEF AdmissionInv, ListSaves, LoadList, CacheSaves, LoadCache, ListAsTold
  <2>5. QED
    BY <2>2, <2>3, <2>4 DEF AdmissionInv
<1>3. QED
  BY <1>1, <1>2, SettingsKeepInv, ListKeepsInv, SaveListKeepsInv, TimerKeepsInv,
     StopKeepsInv, CrashKeepsInv DEF Next

LEMMA AdmissionInvariant == Spec => []AdmissionInv
BY InitAdmissionInv, AdmissionInvStep, PTL DEF Spec

-----------------------------------------------------------------------------
(* The theorems.                                                           *)

\* The state is well typed and the list within its cap, whatever is sent, edited,
\* saved and loaded.
THEOREM AdmissionTypeCorrect == Spec => []TypeOK
<1>1. AdmissionInv => TypeOK
  BY DEF AdmissionInv
<1>2. QED
  BY <1>1, AdmissionInvariant, PTL

\* The first source that knows the tag decides as it was told: it was told to
\* accept the tag, in words that hold, or the contrary.
LEMMA DecisionWasSaid ==
    ASSUME AllGiven, late \in BOOLEAN, NEW t,
           list.entries \in Books, cache \in Books,
           NEW useList, NEW useCache
    PROVE  /\ LocalSessionDecision(t, useList, useCache) = "Accepted" =>
                 (useList /\ Granted("list", t)) \/ (useCache /\ Granted("cache", t))
           /\ LocalSessionDecision(t, useList, useCache) \notin {"Accepted", "Missing"} =>
                 Denied("list", t) \/ Denied("cache", t)
<1>1. ASSUME NEW book \in Books, NEW name, Given(name, book), Decision(book, t) # "Missing"
      PROVE  IF Decision(book, t) = "Accepted" THEN Granted(name, t) ELSE Denied(name, t)
  <2>1. t \in DOMAIN book /\ Decision(book, t) = AuthorizationDecision(book[t])
    BY <1>1 DEF Decision
  <2>2. book[t] \in Entry /\ <<name, t, book[t]>> \in said
    BY <1>1, <2>1, BookType DEF Given
  <2>3. book[t].expires \in BOOLEAN
    BY <2>2
  <2>4. IF book[t].status = "Accepted" /\ ~(book[t].expires /\ late)
        THEN AuthorizationDecision(book[t]) = "Accepted"
        ELSE AuthorizationDecision(book[t]) # "Accepted"
    BY <2>3 DEF AuthorizationDecision
  <2>5. QED
    BY <2>1, <2>2, <2>4 DEF Granted, Denied
<1>2. Given("list", list.entries) /\ Given("cache", cache)
  BY DEF AllGiven
<1>3. QED
  BY <1>1, <1>2 DEF LocalSessionDecision

\* Offline a session of a tag starts only on an acceptance that the CSMS or the
\* operator once gave to a book that is switched on and that has not expired,
\* whatever updates, clears, torn files and restarts lie between.  A start at the
\* station without a tag and, in 2.0.1, a remote start while AuthorizeRemoteStart
\* is off need none.
THEOREM OfflineAcceptanceWasGiven == Spec => []OfflineNeedsGrant
<1>1. AdmissionInv => OfflineNeedsGrant
  <2> SUFFICES ASSUME AdmissionInv, ~linkUp PROVE OfflineNeedsGrant
    BY DEF OfflineNeedsGrant
  <2>1. AllGiven /\ late \in BOOLEAN /\ list.entries \in Books /\ cache \in Books
        /\ version \in {"1.6", "2.0.1"}
    BY DEF AdmissionInv, TypeOK, Lists
  <2>2. \A t : LocalSessionDecision(t, ListOn, CacheOn) = "Accepted" =>
                  (ListOn /\ Granted("list", t)) \/ (CacheOn /\ Granted("cache", t))
    BY <2>1, DecisionWasSaid
  <2>3. \A t : LocalSessionDecision(t, ListOn, CacheOn /\ (version = "1.6" \/ ListOn)) = "Accepted" =>
                  (ListOn /\ Granted("list", t)) \/ (CacheOn /\ Granted("cache", t))
    BY <2>1, DecisionWasSaid
  <2>4. \A t : AdmitLocalSession(t) =>
                  t = NoTag \/ (ListOn /\ Granted("list", t)) \/ (CacheOn /\ Granted("cache", t))
    BY <2>3 DEF AdmitLocalSession
  <2>5. \A t : AdmitRemoteStart(t) =>
                  \/ (ListOn /\ Granted("list", t)) \/ (CacheOn /\ Granted("cache", t))
                  \/ version = "2.0.1" /\ "AuthorizeRemoteStart" \notin on
    BY <2>1, <2>2 DEF AdmitRemoteStart, AdmitRemoteStart16, AdmitRemoteStart201
  <2>6. QED
    BY <2>4, <2>5 DEF OfflineNeedsGrant
<1>2. QED
  BY <1>1, AdmissionInvariant, PTL

\* The engine turns a tag away only when a book was once told to refuse it, or
\* what it was told has expired: no clear, torn file or crash refuses anybody.
THEOREM RefusalWasGiven == Spec => []RefusalNeedsReason
<1>1. AdmissionInv => RefusalNeedsReason
  <2> SUFFICES ASSUME AdmissionInv, NEW t \in Tags, ~ValidateIDTag(t)
               PROVE  Denied("list", t) \/ Denied("cache", t)
    BY DEF RefusalNeedsReason
  <2>1. AllGiven /\ late \in BOOLEAN /\ list.entries \in Books /\ cache \in Books
    BY DEF AdmissionInv, TypeOK, Lists
  <2>2. LocalSessionDecision(t, TRUE, TRUE) \notin {"Accepted", "Missing"}
    BY DEF ValidateIDTag
  <2>3. QED
    BY <2>1, <2>2, DecisionWasSaid
<1>2. QED
  BY <1>1, AdmissionInvariant, PTL

\* The list the CSMS takes the station to have is the one it has, until the
\* operator edits it, an answer is lost or the station crashes.
THEOREM ListIsAsTold == Spec => []ListAsTold
<1>1. AdmissionInv => ListAsTold
  BY DEF AdmissionInv
<1>2. QED
  BY <1>1, AdmissionInvariant, PTL

\* With no autosave of the list under way the file holds the list, unless the
\* last save overlapped with another: for any number of saves at once.
THEOREM ListIsOnDisk == Spec => []ListOnDisk
<1>1. AdmissionInv => ListOnDisk
  BY DEF AdmissionInv, ListSaves, ListOnDisk, Idle
<1>2. QED
  BY <1>1, AdmissionInvariant, PTL

\* With no autosave of the cache due or under way the file holds the cache: no
\* change falls between the timer's flag, its copy and its write.
THEOREM CacheIsOnDisk == Spec => []CacheOnDisk
<1>1. AdmissionInv => CacheOnDisk
  BY DEF AdmissionInv, CacheSaves, CacheOnDisk, Quiet
<1>2. QED
  BY <1>1, AdmissionInvariant, PTL
==============================================================================
