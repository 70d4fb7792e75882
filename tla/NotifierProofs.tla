---------------------------- MODULE NotifierProofs ----------------------------
(***************************************************************************)
(* Proofs about Notifier, for any number of goroutines, connectors, fault  *)
(* codes and changes and any capacity of the channel: type correctness;    *)
(* and, for as long as no two goroutines report the same connector at      *)
(* once, that a suppressed duplicate was delivered and that the CSMS       *)
(* converges.  When two do, neither holds (run notifier_race).             *)
(***************************************************************************)
EXTENDS Notifier, FiniteSetTheorems, SequenceTheorems, TLAPS

\* The commands the station makes; only those without a status are retried.
Ask == {Boot} \cup {Resync(c) : c \in Conn}
Cmd == Ask \cup [conn : Conn, kind : Kind, status : Status]

\* What a goroutine still has to notify of.
KindsLeft == {<<>>, <<"status">>} \cup {<<"status", f>> : f \in Faults} \cup {<<f>> : f \in Faults}
Report == [conn : Conn, path : Seq(Status), kinds : KindsLeft, marked : BOOLEAN]

Typed ==
    /\ status \in [Conn -> Status] /\ code \in [Conn -> Faults \cup {"NoError"}]
    /\ call \in [Callers -> {Idle} \cup Report]
    /\ \A t \in Callers : call[t] # Idle => call[t].path # <<>>
    /\ \A t \in Callers : call[t].marked => call[t].kinds # <<>>
    /\ sent \in [Conn -> [Kind -> Status \cup {"none"}]]
    /\ csms \in [Conn -> [Kind -> Status \cup {"unknown"}]]
    /\ commands \in Seq(Cmd) /\ Len(commands) <= Capacity
    /\ held = <<>> \/ \E cmd \in Cmd : held = <<cmd>>
    /\ \A l \in later : l.cmd \in Ask
    /\ lost \in BOOLEAN /\ linkUp \in BOOLEAN

-----------------------------------------------------------------------------
(* Commands and reports.                                                   *)

LEMMA TailFacts ==
    ASSUME NEW S, NEW q \in Seq(S), Len(q) > 1
    PROVE  /\ Tail(q) \in Seq(S) /\ Tail(q) # <<>>
           /\ Tail(q)[Len(Tail(q))] = q[Len(q)]
<1>1. Len(q) \in Nat /\ q # <<>> /\ Len(<<>>) = 0
  OBVIOUS
<1> DEFINE u == Tail(q)
<1>2. u \in Seq(S) /\ Len(u) = Len(q) - 1 /\ \A i \in 1..Len(u) : u[i] = q[i + 1]
  BY <1>1, HeadTailProperties
<1> HIDE DEF u
<1>3. Len(u) \in 1..Len(u) /\ Len(u) + 1 = Len(q) /\ Len(u) # 0
  BY <1>1, <1>2
<1>4. u # <<>>
  BY <1>1, <1>3
<1>5. u[Len(u)] = q[Len(u) + 1]
  BY <1>2, <1>3
<1>6. u[Len(u)] = q[Len(q)]
  BY <1>3, <1>5
<1>7. QED
  BY <1>2, <1>4, <1>6 DEF u

LEMMA OnlyOne ==
    ASSUME NEW S, NEW q \in Seq(S), q # <<>>, ~(Len(q) > 1)
    PROVE  Head(q) = q[Len(q)]
<1>1. Len(q) \in Nat
  BY LenProperties
<1>a. Len(q) # 0
  BY EmptySeq
<1>2. Len(q) = 1
  <2>1. \A n \in Nat : n # 0 /\ ~(n > 1) => n = 1
    OBVIOUS
  <2>2. QED
    BY <1>1, <1>a, <2>1, Zenon
<1>3. Head(q) = q[1]
  OBVIOUS
<1>4. QED
  BY <1>2, <1>3

LEMMA CommandTyped ==
    /\ \A c \in Conn, k \in Kind, s \in Status : Command(c, k, s) \in Cmd
    /\ \A c \in Conn : Resync(c) \in Cmd
    /\ Boot \in Ask /\ \A c \in Conn : Resync(c) \in Ask
    /\ Ask \subseteq Cmd
BY DEF Ask, Cmd, Command

\* Only a status command has a kind of its own.
LEMMA CommandKinds ==
    ASSUME NEW cmd \in Cmd
    PROVE  \/ /\ cmd \in [conn : Conn, kind : Kind, status : Status]
              /\ cmd.kind \in Kind /\ cmd # Boot /\ \A c \in Conn : cmd # Resync(c)
           \/ cmd = Boot /\ cmd.kind = "boot" /\ cmd.kind \notin Kind /\ \A c \in Conn : cmd # Resync(c)
           \/ /\ \E c \in Conn : cmd = Resync(c) /\ cmd.conn = c
              /\ cmd.kind = "resync" /\ cmd.kind \notin Kind /\ cmd # Boot
<1>1. "boot" \notin Kind /\ "resync" \notin Kind
  BY NotifierAssumption DEF Kind
<1>2. Boot.kind = "boot" /\ \A c \in Conn : Resync(c).kind = "resync" /\ Resync(c).conn = c
  BY DEF Boot, Resync, Command
<1>3. QED
  BY <1>1, <1>2 DEF Cmd, Ask

LEMMA AskKinds == \A cmd \in Ask : cmd.kind \notin Kind
BY CommandKinds, CommandTyped DEF Ask

LEMMA HeldTyped ==
    ASSUME Typed, held # <<>>
    PROVE  held[1] \in Cmd /\ held = <<held[1]>>
<1>1. PICK cmd \in Cmd : held = <<cmd>>
  BY DEF Typed
<1>2. QED
  BY <1>1

LEMMA KindsFacts ==
    ASSUME NEW q \in KindsLeft, q # <<>>
    PROVE  /\ Head(q) \in Kind
           /\ Len(q) > 1 => /\ Head(q) = "status" /\ Tail(q) \in KindsLeft /\ Tail(q) # <<>>
                            /\ Head(Tail(q)) # "status"
           /\ ~(Len(q) > 1) => Len(q) = 1
<1>1. CASE q = <<"status">>
  BY <1>1 DEF Kind
<1>2. ASSUME NEW f \in Faults, q = <<"status", f>>
      PROVE  /\ Head(q) = "status" /\ Tail(q) \in KindsLeft /\ Tail(q) # <<>>
             /\ Head(Tail(q)) # "status" /\ Len(q) > 1
  <2>1. Tail(q) = <<f>> /\ Head(q) = "status" /\ Len(q) = 2
    BY <1>2
  <2>2. f # "status"
    BY NotifierAssumption
  <2>3. Head(<<f>>) = f /\ <<f>> # <<>> /\ <<f>> \in KindsLeft
    BY DEF KindsLeft
  <2>4. Head(Tail(q)) = f
    BY <2>1, <2>3
  <2>5. Head(q) = "status" /\ Len(q) > 1
    BY <2>1
  <2>6. QED
    BY <2>1, <2>2, <2>3, <2>4, <2>5
<1>3. ASSUME NEW f \in Faults, q = <<f>> PROVE Head(q) \in Kind /\ Len(q) = 1
  BY <1>3 DEF Kind
<1>4. QED
  BY <1>1, <1>2, <1>3 DEF KindsLeft, Kind

LEMMA ReportFacts ==
    ASSUME Typed, NEW t \in Callers
    PROVE  /\ call[t] = Idle => /\ call[t].conn = 0 /\ call[t].path = <<>> /\ call[t].kinds = <<>>
                                /\ call[t].marked = FALSE /\ \A c \in Conn : call[t].conn # c
           /\ call[t] # Idle => /\ call[t] \in Report /\ call[t].conn \in Conn
                                /\ call[t].path \in Seq(Status) /\ call[t].path # <<>>
                                /\ call[t].kinds \in KindsLeft /\ call[t].marked \in BOOLEAN
           /\ call[t].path = <<>> => call[t] = Idle
           /\ call[t].kinds # <<>> => /\ call[t] # Idle /\ Head(call[t].kinds) \in Kind
                                      /\ Head(call[t].path) \in Status
           /\ call[t].marked => call[t].kinds # <<>>
<1>1. call[t] = Idle => /\ call[t].conn = 0 /\ call[t].path = <<>> /\ call[t].kinds = <<>>
                        /\ call[t].marked = FALSE /\ \A c \in Conn : call[t].conn # c
  BY NotifierAssumption DEF Idle, Reports
<1>2. call[t] # Idle => /\ call[t] \in Report /\ call[t].conn \in Conn
                        /\ call[t].path \in Seq(Status) /\ call[t].path # <<>>
                        /\ call[t].kinds \in KindsLeft /\ call[t].marked \in BOOLEAN
  <2>1. call[t] # Idle => call[t] \in Report /\ call[t].path # <<>>
    BY DEF Typed
  <2>2. QED
    BY <2>1 DEF Report
<1>3. call[t].kinds # <<>> => /\ call[t] # Idle /\ Head(call[t].kinds) \in Kind
                              /\ Head(call[t].path) \in Status
  BY <1>1, <1>2, KindsFacts, HeadTailProperties
<1>4. call[t].marked => call[t].kinds # <<>>
  BY DEF Typed
<1>5. QED
  BY <1>1, <1>2, <1>3, <1>4

\* Advanced leaves a report, or nothing.
LEMMA AdvancedFacts ==
    ASSUME NEW r \in Report, r.path # <<>>, r.kinds # <<>>
    PROVE  /\ Advanced(r) \in {Idle} \cup Report /\ Advanced(r).marked = FALSE
           /\ Advanced(r) # Idle => Advanced(r).path # <<>> /\ Advanced(r).conn = r.conn
           /\ Len(r.kinds) > 1 => /\ Advanced(r) # Idle /\ Advanced(r).path = r.path
                                  /\ Advanced(r).kinds = Tail(r.kinds)
           /\ ~(Len(r.kinds) > 1) /\ Len(r.path) > 1 =>
                /\ Advanced(r) # Idle /\ Advanced(r).path = Tail(r.path) /\ Advanced(r).kinds = <<>>
           /\ ~(Len(r.kinds) > 1) /\ ~(Len(r.path) > 1) => Advanced(r) = Idle
<1>1. /\ r.path \in Seq(Status) /\ r.kinds \in KindsLeft /\ r.conn \in Conn
      /\ r = [conn |-> r.conn, path |-> r.path, kinds |-> r.kinds, marked |-> r.marked]
  BY DEF Report
<1>2. Idle.conn = 0 /\ r.conn # 0 /\ Idle.marked = FALSE
  BY <1>1, NotifierAssumption DEF Idle, Reports
<1>3. CASE Len(r.kinds) > 1
  <2>1. Advanced(r) = [conn |-> r.conn, path |-> r.path, kinds |-> Tail(r.kinds), marked |-> FALSE]
    BY <1>1, <1>3 DEF Advanced
  <2>2. Tail(r.kinds) \in KindsLeft
    BY <1>1, <1>3, KindsFacts
  <2>3. Advanced(r) \in Report
    BY <1>1, <2>1, <2>2 DEF Report
  <2>4. QED
    BY <1>2, <1>3, <2>1, <2>3
<1>4. CASE ~(Len(r.kinds) > 1) /\ Len(r.path) > 1
  <2>1. Advanced(r) = [conn |-> r.conn, path |-> Tail(r.path), kinds |-> <<>>, marked |-> FALSE]
    BY <1>1, <1>4 DEF Advanced
  <2>2. Tail(r.path) \in Seq(Status) /\ Tail(r.path) # <<>>
    BY <1>1, <1>4, TailFacts
  <2>3. Advanced(r) \in Report
    BY <1>1, <2>1, <2>2 DEF Report, KindsLeft
  <2>4. QED
    BY <1>2, <1>4, <2>1, <2>2, <2>3
<1>5. CASE ~(Len(r.kinds) > 1) /\ ~(Len(r.path) > 1)
  BY <1>2, <1>5 DEF Advanced
<1>6. QED
  BY <1>3, <1>4, <1>5

-----------------------------------------------------------------------------
(* Types.                                                                  *)

\* A sequence over a set is one over a larger set.
LEMMA WiderSeq == \A S, T : S \subseteq T => \A q \in Seq(S) : q \in Seq(T)
OBVIOUS

\* EnqueueAllWithRetry: what there is room for joins the channel.
LEMMA EnqueuedAll ==
    ASSUME Typed, NEW cmds \in Seq(Ask), EnqueueAllWithRetry(cmds)
    PROVE  /\ commands' \in Seq(Cmd) /\ Len(commands') <= Capacity
           /\ \E n \in 0..Len(cmds) :
                 /\ commands' = commands \o SubSeq(cmds, 1, n) /\ SubSeq(cmds, 1, n) \in Seq(Ask)
                 /\ later' = later \cup {Late(cmds[i], TRUE) : i \in (n + 1)..Len(cmds)}
           /\ \A l \in later' : l.cmd \in Ask
<1> DEFINE P(n) == (n = 0 \/ Room(commands, n)) /\ (n = Len(cmds) \/ ~Room(commands, n + 1))
           m == CHOOSE n \in 0..Len(cmds) : P(n)
<1>1. /\ commands' = commands \o SubSeq(cmds, 1, m)
      /\ later' = later \cup {Late(cmds[i], TRUE) : i \in (m + 1)..Len(cmds)}
  BY DEF EnqueueAllWithRetry
<1>2. /\ Len(cmds) \in Nat /\ Len(commands) \in Nat /\ Capacity \in Nat /\ Len(commands) <= Capacity
      /\ commands \in Seq(Cmd) /\ \A i \in 1..Len(cmds) : cmds[i] \in Ask
  BY NotifierAssumption, LenProperties, ElementOfSeq DEF Typed
<1>3. \E n \in 0..Len(cmds) : P(n)
  <2>1. CASE Len(commands) + Len(cmds) <= Capacity
    BY <1>2, <2>1 DEF Room
  <2>2. CASE ~(Len(commands) + Len(cmds) <= Capacity)
    <3> DEFINE k == Capacity - Len(commands)
    <3>1. k \in 0..Len(cmds) /\ Len(commands) + k <= Capacity /\ ~(Len(commands) + (k + 1) <= Capacity)
      BY <1>2, <2>2
    <3>2. QED
      BY <3>1 DEF Room
  <2>3. QED
    BY <2>1, <2>2
<1>4. m \in 0..Len(cmds) /\ P(m)
  BY <1>3
<1> HIDE DEF m
<1>5. SubSeq(cmds, 1, m) \in Seq(Ask) /\ Len(SubSeq(cmds, 1, m)) = m
  <2>1. \A i \in 1..m : cmds[i] \in Ask
    BY <1>2, <1>4
  <2>2. SubSeq(cmds, 1, m) \in Seq(Ask) /\ Len(SubSeq(cmds, 1, m)) = IF 1 <= m THEN m - 1 + 1 ELSE 0
    BY <1>4, <2>1, SubSeqProperties
  <2>3. QED
    BY <1>4, <2>2
<1>5a. SubSeq(cmds, 1, m) \in Seq(Cmd)
  BY <1>5, CommandTyped, WiderSeq
<1>6. commands' \in Seq(Cmd) /\ Len(commands') = Len(commands) + m
  BY <1>1, <1>2, <1>5, <1>5a, ConcatProperties
<1>7. Len(commands') <= Capacity
  BY <1>2, <1>4, <1>6 DEF Room
<1>8. \A l \in later' : l.cmd \in Ask
  BY <1>1, <1>2, <1>4 DEF Late, Typed
<1>9. QED
  BY <1>1, <1>4, <1>5, <1>6, <1>7, <1>8

\* One command, if there is room for it.
LEMMA EnqueuedOne ==
    ASSUME Typed, NEW cmd \in Cmd, Room(commands, 1)
    PROVE  Append(commands, cmd) \in Seq(Cmd) /\ Len(Append(commands, cmd)) <= Capacity
<1>1. Len(commands) \in Nat /\ Capacity \in Nat /\ commands \in Seq(Cmd) /\ Len(commands) + 1 <= Capacity
  BY NotifierAssumption, LenProperties DEF Typed, Room
<1>2. QED
  BY <1>1, AppendProperties

LEMMA TimerTyped == ASSUME Typed, NEW l \in later, TimerFires(l) PROVE Typed'
<1>1. UNCHANGED <<status, code, call, sent, held, linkUp, csms>> /\ lost' \in BOOLEAN
  BY DEF TimerFires, engine, Typed
<1>2. commands' \in Seq(Cmd) /\ Len(commands') <= Capacity
  BY CommandTyped, EnqueuedOne DEF TimerFires, Typed
<1>3. \A k \in later' : k.cmd \in Ask
  BY DEF TimerFires, Late, Typed
<1>4. QED
  BY <1>1, <1>2, <1>3 DEF Typed

LEMMA TakeTyped == ASSUME Typed, Take PROVE Typed'
<1>1. UNCHANGED <<status, code, call, sent, later, linkUp, csms, lost>>
  BY DEF Take, engine
<1>2. commands \in Seq(Cmd) /\ commands # <<>> /\ Len(commands) \in Nat
  BY LenProperties DEF Take, Typed
<1>3. Head(commands) \in Cmd /\ commands' \in Seq(Cmd) /\ Len(commands') = Len(commands) - 1
      /\ held' = <<Head(commands)>>
  BY <1>2, HeadTailProperties DEF Take
<1>4. Len(commands') <= Capacity
  BY <1>2, <1>3, NotifierAssumption DEF Typed
<1>5. QED
  BY <1>1, <1>3, <1>4 DEF Typed

LEMMA UnmarkedTyped ==
    ASSUME Typed, NEW c \in Conn, NEW k \in Kind, NEW s
    PROVE  Unmarked(c, k, s) \in [Conn -> [Kind -> Status \cup {"none"}]]
<1>1. sent \in [Conn -> [Kind -> Status \cup {"none"}]]
  BY DEF Typed
<1>2. [sent[c] EXCEPT ![k] = "none"] \in [Kind -> Status \cup {"none"}]
  BY <1>1
<1>3. QED
  BY <1>1, <1>2 DEF Unmarked

LEMMA SendTyped == ASSUME Typed, Send \/ \E received \in BOOLEAN : SendFails(received) PROVE Typed'
<1>1. UNCHANGED <<status, code, call, commands, later, linkUp>> /\ held' = <<>> /\ lost' \in BOOLEAN
  BY DEF Send, SendFails, engine, Typed
<1>2. held # <<>> /\ held[1] \in Cmd /\ Executing(Kind \cup {"resync", "boot"})
  BY HeldTyped DEF Send, SendFails, Executing
<1>3. held[1].kind \in Kind => held[1] \in [conn : Conn, kind : Kind, status : Status]
  BY <1>2, CommandKinds
<1>4. sent' \in [Conn -> [Kind -> Status \cup {"none"}]]
  BY <1>3, UnmarkedTyped DEF Send, SendFails, Typed
<1>5. csms' \in [Conn -> [Kind -> Status \cup {"unknown"}]]
  <2>1. ASSUME NEW c \in Conn, NEW k \in Kind, NEW s \in Status
        PROVE  [csms EXCEPT ![c][k] = s] \in [Conn -> [Kind -> Status \cup {"unknown"}]]
    BY DEF Typed
  <2>2. CASE csms' = csms
    BY <2>2 DEF Typed
  <2>3. CASE held[1].kind \in Kind /\ csms' = [csms EXCEPT ![held[1].conn][held[1].kind] = held[1].status]
    <3>1. held[1].conn \in Conn /\ held[1].status \in Status
      BY <1>3, <2>3
    <3>2. QED
      BY <2>1, <2>3, <3>1
  <2>4. CASE /\ held[1].kind = "resync"
             /\ csms' = [csms EXCEPT ![held[1].conn]["status"] = status[held[1].conn]]
    <3>1. held[1].conn \in Conn
      BY <1>2, <2>4, CommandKinds DEF Kind
    <3>2. status[held[1].conn] \in Status /\ "status" \in Kind
      BY <3>1 DEF Typed, Kind
    <3>3. QED
      BY <2>1, <2>4, <3>1, <3>2
  <2>5. QED
    BY <1>2, <2>2, <2>3, <2>4 DEF Send, SendFails, Executing
<1>6. QED
  BY <1>1, <1>4, <1>5 DEF Typed

\* A resync for every connector.
LEMMA ResyncsTyped ==
    ASSUME NEW order \in Order
    PROVE  /\ [i \in 1..Cardinality(Conn) |-> Resync(order[i])] \in Seq(Ask)
           /\ Len([i \in 1..Cardinality(Conn) |-> Resync(order[i])]) = Cardinality(Conn)
           /\ Cardinality(Conn) \in Nat
           /\ \A c \in Conn : \E i \in 1..Cardinality(Conn) : order[i] = c
<1>1. Cardinality(Conn) \in Nat
  BY NotifierAssumption, FS_CardinalityType
<1>2. /\ order \in [1..Cardinality(Conn) -> Conn]
      /\ \A c \in Conn : \E i \in 1..Cardinality(Conn) : order[i] = c
  BY DEF Order, Bijection, Surjection
<1>3. [i \in 1..Cardinality(Conn) |-> Resync(order[i])] \in [1..Cardinality(Conn) -> Ask]
  BY <1>2, CommandTyped
<1>4. QED
  BY <1>1, <1>2, <1>3

\* The reconnect, the boot and a triggered message.
LEMMA BootTyped ==
    ASSUME Typed,
           \/ \E order \in Order : BootAccepted(order)
           \/ BootNotAccepted \/ Connect \/ Disconnect
           \/ \E cmd \in {Boot} \cup {Resync(c) : c \in Conn} : OnTriggerMessage(cmd)
    PROVE  Typed'
<1>1. UNCHANGED <<status, code, call, sent, csms, lost>> /\ linkUp' \in BOOLEAN /\ held' \in {held, <<>>}
  BY DEF BootAccepted, BootNotAccepted, Connect, Disconnect, OnTriggerMessage, engine, dispatcher, Typed
<1>2. CASE BootNotAccepted \/ Disconnect
  <2>1. UNCHANGED commands /\ \A l \in later' : l.cmd \in Ask
    BY <1>2, CommandTyped DEF BootNotAccepted, Disconnect, dispatcher, Late, Typed
  <2>2. QED
    BY <1>1, <2>1 DEF Typed
<1>3. ASSUME NEW cmds \in Seq(Ask), EnqueueAllWithRetry(cmds) PROVE Typed'
  BY <1>1, <1>3, EnqueuedAll DEF Typed
<1>4. ASSUME NEW cmd \in {Boot} \cup {Resync(c) : c \in Conn} PROVE <<cmd>> \in Seq(Ask)
  BY CommandTyped
<1>5. ASSUME NEW order \in Order, BootAccepted(order) PROVE Typed'
  <2> DEFINE cmds == [i \in 1..Cardinality(Conn) |-> Resync(order[i])]
  <2>1. EnqueueAllWithRetry(cmds)
    BY <1>5 DEF BootAccepted
  <2>2. cmds \in Seq(Ask)
    BY ResyncsTyped
  <2>3. QED
    BY <2>1, <2>2, <1>3
<1>6. QED
  BY <1>2, <1>3, <1>4, <1>5 DEF Connect, OnTriggerMessage

\* The callbacks.
LEMMA CallTyped ==
    ASSUME Typed, NEW t \in Callers, NEW r \in {Idle} \cup Report,
           r # Idle => r.path # <<>>, r.marked => r.kinds # <<>>,
           call' = [call EXCEPT ![t] = r], UNCHANGED <<held, later, linkUp, csms>>,
           status' \in [Conn -> Status], code' \in [Conn -> Faults \cup {"NoError"}],
           sent' \in [Conn -> [Kind -> Status \cup {"none"}]],
           commands' \in Seq(Cmd), Len(commands') <= Capacity, lost' \in BOOLEAN
    PROVE  Typed'
<1>1. call' \in [Callers -> {Idle} \cup Report]
  BY DEF Typed
<1>2. \A u \in Callers : call'[u] = IF u = t THEN r ELSE call[u]
  BY DEF Typed
<1>3. \A u \in Callers : call'[u] # Idle => call'[u].path # <<>>
  BY <1>2 DEF Typed
<1>4. \A u \in Callers : call'[u].marked => call'[u].kinds # <<>>
  BY <1>2 DEF Typed
<1>5. QED
  BY <1>1, <1>3, <1>4 DEF Typed

LEMMA ChangeTyped ==
    ASSUME Typed, NEW t \in Callers, NEW c \in Conn, NEW path \in Path,
           NEW fault \in Faults \cup {"NoError"}, ChangeStatus(t, c, path, fault)
    PROVE  /\ Typed' /\ path \in Seq(Status) /\ path # <<>> /\ Last(path) \in Status
           /\ call' = [call EXCEPT ![t] = [conn |-> c, path |-> path, kinds |-> <<>>, marked |-> FALSE]]
<1>1. path \in Seq(Status) /\ path # <<>> /\ Last(path) \in Status
  <2>1. PICK n \in 1..MaxPath : path \in [1..n -> Status]
    BY DEF Path
  <2>2. n \in Nat /\ n > 0
    BY <2>1, NotifierAssumption
  <2>3. path \in Seq(Status) /\ Len(path) = n
    BY <2>1, <2>2
  <2>4. Last(path) = path[n] /\ path[n] \in Status
    BY <2>1, <2>2, <2>3 DEF Last
  <2>5. Len(<<>>) = 0
    OBVIOUS
  <2>6. QED
    BY <2>2, <2>3, <2>4, <2>5
<1> DEFINE r == [conn |-> c, path |-> path, kinds |-> <<>>, marked |-> FALSE]
<1>3. call' = [call EXCEPT ![t] = r]
  BY DEF ChangeStatus, Reports
<1>4. r \in Report /\ r.path # <<>> /\ r.marked = FALSE
  BY <1>1 DEF Report, KindsLeft
<1>5. /\ UNCHANGED <<sent, commands, held, later, linkUp, csms, lost>>
      /\ status' = [status EXCEPT ![c] = Last(path)] /\ code' = [code EXCEPT ![c] = fault]
  BY DEF ChangeStatus, dispatcher
<1>6. status' \in [Conn -> Status] /\ code' \in [Conn -> Faults \cup {"NoError"}]
  BY <1>1, <1>5 DEF Typed
<1>7. Typed'
  <2> HIDE DEF r
  <2>1. QED
    BY <1>3, <1>4, <1>5, <1>6, CallTyped DEF Typed
<1>8. QED
  BY <1>1, <1>3, <1>7

\* The kinds of a notification: the status, and the fault code of a fault.
LEMMA BeginTyped ==
    ASSUME Typed, NEW t \in Callers, NotifyBegin(t)
    PROVE  /\ Typed' /\ call[t] # Idle
           /\ \E q \in KindsLeft :
                 /\ q # <<>> /\ Head(q) = "status"
                 /\ call' = [call EXCEPT ![t].kinds = q]
<1> DEFINE c == call[t].conn
           q == IF Head(call[t].path) = "Faulted" /\ code[c] # "NoError"
                THEN <<"status", code[c]>> ELSE <<"status">>
           r == [call[t] EXCEPT !.kinds = q]
<1>1. /\ call[t].path # <<>> /\ call[t].kinds = <<>> /\ call' = [call EXCEPT ![t] = r]
      /\ UNCHANGED <<status, code, sent, commands, held, later, linkUp, csms, lost>>
  BY DEF NotifyBegin, engine, dispatcher
<1>2. call[t] # Idle /\ call[t] \in Report /\ c \in Conn /\ call[t].marked = FALSE
  <2>1. call[t] # Idle
    BY <1>1 DEF Idle, Reports
  <2>2. QED
    BY <1>1, <2>1, ReportFacts
<1>3. q \in KindsLeft /\ q # <<>> /\ Head(q) = "status"
  <2>1. code[c] # "NoError" => code[c] \in Faults
    BY <1>2 DEF Typed
  <2>2. q = <<"status">> \/ (code[c] \in Faults /\ q = <<"status", code[c]>>)
    BY <2>1
  <2>3. QED
    BY <2>2 DEF KindsLeft
<1> HIDE DEF q
<1>4. r \in Report /\ r.path # <<>> /\ r.marked = FALSE
  BY <1>1, <1>2, <1>3 DEF Report
<1>5. Typed'
  <2> HIDE DEF r
  <2>1. QED
    BY <1>1, <1>4, CallTyped DEF Typed
<1>6. call' = [call EXCEPT ![t].kinds = q]
  BY <1>1
<1>7. QED
  BY <1>2, <1>3, <1>5, <1>6

LEMMA MarkTyped ==
    ASSUME Typed, NEW t \in Callers, MarkSent(t)
    PROVE  Typed'
<1> DEFINE r == call[t]
<1>1. /\ r.kinds # <<>> /\ ~r.marked
      /\ UNCHANGED <<status, code, commands, held, later, linkUp, csms, lost>>
  BY DEF MarkSent, engine, dispatcher
<1>2. r \in Report /\ r.path # <<>> /\ Head(r.kinds) \in Kind /\ Head(r.path) \in Status /\ r.conn \in Conn
  BY <1>1, ReportFacts
<1>3. CASE call' = [call EXCEPT ![t] = Advanced(r)] /\ UNCHANGED sent
  <2>1. /\ Advanced(r) \in {Idle} \cup Report /\ Advanced(r).marked = FALSE
        /\ Advanced(r) # Idle => Advanced(r).path # <<>>
    BY <1>1, <1>2, AdvancedFacts
  <2>2. QED
    BY <1>1, <1>3, <2>1, CallTyped DEF Typed
<1>4. CASE /\ call' = [call EXCEPT ![t].marked = TRUE]
           /\ sent' = [sent EXCEPT ![r.conn] =
                 [j \in Kind |-> IF j = Head(r.kinds) THEN Head(r.path)
                                 ELSE IF {j, Head(r.kinds)} \subseteq Faults THEN "none" ELSE @[j]]]
  <2>1. [r EXCEPT !.marked = TRUE] \in Report
    BY <1>2 DEF Report
  <2>2. [r EXCEPT !.marked = TRUE].path # <<>> /\ [r EXCEPT !.marked = TRUE].kinds # <<>>
    BY <1>1, <1>2 DEF Report
  <2>3. sent' \in [Conn -> [Kind -> Status \cup {"none"}]]
    <3>1. [j \in Kind |-> IF j = Head(r.kinds) THEN Head(r.path)
                          ELSE IF {j, Head(r.kinds)} \subseteq Faults THEN "none" ELSE sent[r.conn][j]]
             \in [Kind -> Status \cup {"none"}]
      BY <1>2 DEF Typed
    <3>2. QED
      BY <1>4, <3>1 DEF Typed
  <2>4. call' = [call EXCEPT ![t] = [r EXCEPT !.marked = TRUE]]
    BY <1>4
  <2>5. QED
    BY <1>1, <2>1, <2>2, <2>3, <2>4, CallTyped DEF Typed
<1>5. QED
  BY <1>3, <1>4 DEF MarkSent

LEMMA EnqueueStatusTyped ==
    ASSUME Typed, NEW t \in Callers, EnqueueStatus(t)
    PROVE  Typed'
<1> DEFINE r == call[t]
           cmd == Command(r.conn, Head(r.kinds), Head(r.path))
<1>1. /\ r.marked /\ call' = [call EXCEPT ![t] = Advanced(r)]
      /\ UNCHANGED <<status, code, held, later, linkUp, csms>>
  BY DEF EnqueueStatus, engine
<1>2. /\ r \in Report /\ r.path # <<>> /\ r.kinds # <<>>
      /\ Head(r.kinds) \in Kind /\ Head(r.path) \in Status /\ r.conn \in Conn
  BY <1>1, ReportFacts
<1>3. /\ Advanced(r) \in {Idle} \cup Report /\ Advanced(r).marked = FALSE
      /\ Advanced(r) # Idle => Advanced(r).path # <<>>
  BY <1>2, AdvancedFacts
<1>4. commands' \in Seq(Cmd) /\ Len(commands') <= Capacity /\ lost' \in BOOLEAN
  <2>1. cmd \in Cmd
    BY <1>2, CommandTyped
  <2>2. CASE Room(commands, 1)
    BY <2>1, <2>2, EnqueuedOne DEF EnqueueStatus, Typed
  <2>3. CASE ~Room(commands, 1)
    BY <2>3 DEF EnqueueStatus, Typed
  <2>4. QED
    BY <2>2, <2>3
<1>5. sent' \in [Conn -> [Kind -> Status \cup {"none"}]]
  <2>1. CASE Room(commands, 1)
    BY <2>1 DEF EnqueueStatus, Typed
  <2>2. CASE ~Room(commands, 1)
    <3>1. sent' = Unmarked(cmd.conn, cmd.kind, cmd.status)
      BY <2>2 DEF EnqueueStatus
    <3>2. cmd.conn = r.conn /\ cmd.kind = Head(r.kinds)
      BY DEF Command
    <3>3. QED
      BY <1>2, <3>1, <3>2, UnmarkedTyped
  <2>3. QED
    BY <2>1, <2>2
<1>6. QED
  BY <1>1, <1>3, <1>4, <1>5, CallTyped DEF Typed

LEMMA TypedStep == Typed /\ [Next]_vars => Typed'
<1> SUFFICES ASSUME Typed, [Next]_vars PROVE Typed'
  OBVIOUS
<1>1. CASE UNCHANGED vars
  BY <1>1 DEF vars, engine, dispatcher, Typed
<1>2. ASSUME NEW t \in Callers, Notify(t) PROVE Typed'
  BY <1>2, BeginTyped, MarkTyped, EnqueueStatusTyped DEF Notify
<1>3. CASE Execute
  BY <1>3, SendTyped, BootTyped DEF Execute
<1>4. QED
  BY <1>1, <1>2, <1>3, ChangeTyped, TimerTyped, TakeTyped, BootTyped DEF Next

LEMMA TypedInit == Init => Typed
<1> SUFFICES ASSUME Init PROVE Typed
  OBVIOUS
<1>1. commands \in Seq(Cmd) /\ Len(commands) <= Capacity
  BY NotifierAssumption DEF Init
<1>2. \A t \in Callers : call[t] = Idle
  BY DEF Init
<1>3. QED
  BY <1>1, <1>2, NotifierAssumption DEF Init, Typed, Idle, Reports

LEMMA TypedAlways == Spec => []Typed
BY TypedInit, TypedStep, PTL DEF Spec

\* Types, and a channel that never overflows (Enqueue, EnqueueWithRetry).
THEOREM NotifierTypeCorrect == Spec => []TypeOK
<1>1. Typed => TypeOK
  <2> SUFFICES ASSUME Typed PROVE TypeOK
    OBVIOUS
  <2>1. \A t \in Callers : /\ call[t].kinds # <<>> => call[t].path # <<>>
                           /\ call[t].marked => call[t].kinds # <<>>
    BY ReportFacts
  <2>2. Len(held) <= 1 /\ \A i \in DOMAIN held : held[i] \in Cmd
    <3>1. CASE held = <<>>
      BY <3>1
    <3>2. ASSUME NEW cmd \in Cmd, held = <<cmd>>
          PROVE  Len(held) <= 1 /\ \A i \in DOMAIN held : held[i] \in Cmd
      BY <3>2
    <3>3. QED
      BY <3>1, <3>2 DEF Typed
  <2>3. \A i \in DOMAIN commands : commands[i] \in Cmd
    BY DEF Typed
  <2>4. \A cmd \in Commands \cup {l.cmd : l \in later} : cmd \in Cmd
    BY <2>2, <2>3, CommandTyped DEF Commands, Typed
  <2>5. \A cmd \in Commands \cup {l.cmd : l \in later} :
          cmd = Boot \/ cmd \in {Resync(c) : c \in Conn} \/ cmd \in [conn : Conn, kind : Kind, status : Status]
    BY <2>4 DEF Cmd, Ask
  <2>6. QED
    BY <2>1, <2>2, <2>5 DEF Typed, TypeOK
<1>2. QED
  BY <1>1, TypedAlways, PTL

-----------------------------------------------------------------------------
(* One goroutine per connector: what is under way about it.                *)

\* No two goroutines report the same connector at once.
Apart == \A t, u \in Callers : call[t].conn \in Conn /\ call[t].conn = call[u].conn => t = u

\* The commands in the order in which they will be executed, and the last of them
\* about kind k of connector c.
Pipe == held \o commands
About(cmd, c, k) == cmd.conn = c /\ cmd.kind = k
NoneIn(q, c, k) == \A i \in 1..Len(q) : ~About(q[i], c, k)
LastIn(q, c, k, s) ==
    \E i \in 1..Len(q) :
        /\ About(q[i], c, k) /\ q[i].status = s
        /\ \A j \in 1..Len(q) : i < j => ~About(q[j], c, k)
Waiting == Commands \cup {l.cmd : l \in later}

Marking(c, k) == \E t \in Callers : call[t].marked /\ call[t].conn = c /\ Head(call[t].kinds) = k

\* The mark of kind k was set for the notification at hand, unless a send of the
\* same status failed since.
MarkedFor(t, k) ==
    /\ sent[call[t].conn][k] \in {Head(call[t].path), "none"}
    /\ ~lost => sent[call[t].conn][k] = Head(call[t].path)

\* The notifications left end with the connector's status; the status comes first.
Reporting(t) ==
    call[t] # Idle =>
        /\ Last(call[t].path) = status[call[t].conn]
        /\ call[t].marked => MarkedFor(t, Head(call[t].kinds))
        /\ call[t].kinds # <<>> /\ Head(call[t].kinds) # "status" => MarkedFor(t, "status")

\* A mark stands for the last command about it, or for what the CSMS was told
\* last; a resync may have told it the status that is being notified.
Delivery ==
    \A c \in Conn, k \in Kind :
        sent[c][k] # "none" /\ ~Marking(c, k) =>
            \/ LastIn(Pipe, c, k, sent[c][k])
            \/ NoneIn(Pipe, c, k) /\ csms[c][k] = sent[c][k]
            \/ NoneIn(Pipe, c, k) /\ k = "status" /\ csms[c][k] = status[c]

\* Without a callback under way, the mark is of the current status.
Settled == \A c \in Conn : ~Working(c) => sent[c]["status"] \in {"none", status[c]}

\* A status that was never notified is known from the boot.
Fresh(c) == Boot \in Waiting \/ Resync(c) \in Waiting \/ csms[c]["status"] = status[c]
Unreported ==
    \A c \in Conn :
        ~lost /\ sent[c]["status"] = "none" =>
            /\ NoneIn(Pipe, c, "status")
            /\ ~Working(c) /\ linkUp => Fresh(c)

NotifierInv ==
    /\ Typed
    /\ \A t \in Callers : Reporting(t)
    /\ Delivery
    /\ Settled
    /\ Unreported

-----------------------------------------------------------------------------
(* How the commands under way change.                                      *)

LEMMA PipeFacts ==
    ASSUME Typed
    PROVE  Pipe \in Seq(Cmd) /\ Len(Pipe) \in Nat /\ commands \in Seq(Cmd) /\ held \in Seq(Cmd)
<1>1. commands \in Seq(Cmd) /\ held \in Seq(Cmd)
  <2>1. \A cmd \in Cmd : <<cmd>> \in Seq(Cmd)
    OBVIOUS
  <2>2. QED
    BY <2>1, EmptySeq DEF Typed
<1>2. Pipe \in Seq(Cmd) /\ Len(Pipe) \in Nat
  BY <1>1, ConcatProperties, LenProperties DEF Pipe
<1>3. QED
  BY <1>1, <1>2

\* A command joins.
LEMMA PipeAppend ==
    ASSUME Typed, NEW cmd \in Cmd, held' = held, commands' = Append(commands, cmd)
    PROVE  Pipe' = Append(Pipe, cmd)
<1>1. commands \in Seq(Cmd) /\ held \in Seq(Cmd) /\ Pipe \in Seq(Cmd) /\ <<cmd>> \in Seq(Cmd)
  BY PipeFacts
<1>2. Append(commands, cmd) = commands \o <<cmd>> /\ Append(Pipe, cmd) = Pipe \o <<cmd>>
  BY <1>1, AppendIsConcat
<1>3. held \o (commands \o <<cmd>>) = (held \o commands) \o <<cmd>>
  BY <1>1, ConcatAssociative
<1>4. QED
  BY <1>2, <1>3 DEF Pipe

LEMMA PipeConcat ==
    ASSUME Typed, NEW q \in Seq(Cmd), held' = held, commands' = commands \o q
    PROVE  Pipe' = Pipe \o q
<1>1. commands \in Seq(Cmd) /\ held \in Seq(Cmd)
  BY PipeFacts
<1>2. held \o (commands \o q) = (held \o commands) \o q
  BY <1>1, ConcatAssociative
<1>3. QED
  BY <1>2 DEF Pipe

\* A command is taken up: it stays the first.
LEMMA PipeTake == ASSUME Typed, Take PROVE Pipe' = Pipe
<1>1. commands \in Seq(Cmd) /\ commands # <<>> /\ held = <<>>
      /\ held' = <<Head(commands)>> /\ commands' = Tail(commands)
  BY PipeFacts DEF Take
<1>2. Len(commands) \in Nat /\ Len(commands) > 0
  BY <1>1, EmptySeq
<1>3. SubSeq(commands, 1, Len(commands)) = <<commands[1]>> \o SubSeq(commands, 2, Len(commands))
  <2>1. 1 \in 1..Len(commands) /\ Len(commands) \in 1..Len(commands) /\ 1 + 1 = 2
    BY <1>2
  <2>2. SubSeq(commands, 1, Len(commands)) = <<commands[1]>> \o SubSeq(commands, 1 + 1, Len(commands))
    BY <1>1, <2>1, SubSeqRecursiveFirst
  <2>3. QED
    BY <2>1, <2>2
<1>4. /\ SubSeq(commands, 1, Len(commands)) = commands
      /\ Tail(commands) = SubSeq(commands, 2, Len(commands))
      /\ Head(commands) = commands[1]
  BY <1>1, SubSeqFull, TailIsSubSeq
<1>5. Pipe = commands
  BY <1>1, ConcatEmptySeq DEF Pipe
<1>6. QED
  BY <1>1, <1>3, <1>4, <1>5 DEF Pipe

\* The held command is executed.
LEMMA PipeExecute ==
    ASSUME Typed, held # <<>>
    PROVE  /\ Len(Pipe) = Len(commands) + 1 /\ Pipe[1] = held[1] /\ Len(commands) \in Nat
           /\ \A i \in 1..Len(commands) : Pipe[i + 1] = commands[i]
           /\ held' = <<>> /\ commands' = commands => Pipe' = commands
           /\ \A q \in Seq(Cmd) : held' = <<>> /\ commands' = commands \o q => Pipe' = commands \o q
<1>1. held = <<held[1]>> /\ held \in Seq(Cmd) /\ commands \in Seq(Cmd) /\ Len(held) = 1
      /\ Len(commands) \in Nat
  BY HeldTyped, PipeFacts, LenProperties
<1>2. /\ Len(held \o commands) = Len(held) + Len(commands)
      /\ \A i \in 1..(Len(held) + Len(commands)) :
            (held \o commands)[i] = IF i <= Len(held) THEN held[i] ELSE commands[i - Len(held)]
  <2>1. held \in Seq(Cmd) /\ commands \in Seq(Cmd)
    BY <1>1
  <2>2. QED
    BY <2>1, ConcatProperties, Zenon
<1>3. Len(Pipe) = Len(commands) + 1 /\ Pipe[1] = held[1]
  BY <1>1, <1>2 DEF Pipe
<1>4. \A i \in 1..Len(commands) : Pipe[i + 1] = commands[i]
  <2>1. ASSUME NEW i \in 1..Len(commands) PROVE Pipe[i + 1] = commands[i]
    <3>1. i + 1 \in 1..(Len(held) + Len(commands)) /\ ~(i + 1 <= Len(held)) /\ (i + 1) - Len(held) = i
      BY <1>1
    <3>2. QED
      BY <1>2, <3>1 DEF Pipe
  <2>2. QED
    BY <2>1
<1>5. held' = <<>> /\ commands' = commands => Pipe' = commands
  BY <1>1, ConcatEmptySeq DEF Pipe
<1>6. ASSUME NEW q \in Seq(Cmd), held' = <<>>, commands' = commands \o q PROVE Pipe' = commands \o q
  <2>1. commands \o q \in Seq(Cmd)
    BY <1>1, ConcatProperties
  <2>2. QED
    BY <1>6, <2>1, ConcatEmptySeq DEF Pipe
<1>7. QED
  BY <1>1, <1>3, <1>4, <1>5, <1>6

-----------------------------------------------------------------------------
(* The last command about a kind.                                          *)

LEMMA AppendLast ==
    ASSUME NEW q \in Seq(Cmd), NEW cmd \in Cmd, NEW c, NEW k, NEW s
    PROVE  /\ About(cmd, c, k) => LastIn(Append(q, cmd), c, k, cmd.status)
           /\ ~About(cmd, c, k) /\ NoneIn(q, c, k) => NoneIn(Append(q, cmd), c, k)
           /\ ~About(cmd, c, k) /\ LastIn(q, c, k, s) => LastIn(Append(q, cmd), c, k, s)
           /\ {q[i] : i \in 1..Len(q)} \subseteq {Append(q, cmd)[i] : i \in 1..Len(Append(q, cmd))}
<1> DEFINE u == Append(q, cmd)
           n == Len(q)
<1>1. n \in Nat /\ Len(u) = n + 1 /\ u[n + 1] = cmd /\ \A i \in 1..n : u[i] = q[i]
  BY AppendProperties, LenProperties
<1>2. \A i \in 1..Len(u) : i \in 1..n \/ i = n + 1
  BY <1>1
<1>3. n + 1 \in 1..Len(u) /\ \A i \in 1..n : i \in 1..Len(u)
  BY <1>1
<1> HIDE DEF u, n
<1>4. About(cmd, c, k) => LastIn(u, c, k, cmd.status)
  <2>1. \A j \in 1..Len(u) : ~(n + 1 < j)
    BY <1>1
  <2>2. QED
    BY <1>1, <1>3, <2>1 DEF LastIn
<1>5. ~About(cmd, c, k) /\ NoneIn(q, c, k) => NoneIn(u, c, k)
  BY <1>1, <1>2 DEF NoneIn, n
<1>6. ASSUME ~About(cmd, c, k), LastIn(q, c, k, s) PROVE LastIn(u, c, k, s)
  <2>1. PICK i \in 1..n : /\ About(q[i], c, k) /\ q[i].status = s
                          /\ \A j \in 1..n : i < j => ~About(q[j], c, k)
    BY <1>6 DEF LastIn, n
  <2>2. \A j \in 1..Len(u) : i < j => ~About(u[j], c, k)
    BY <1>1, <1>2, <1>6, <2>1
  <2>3. QED
    BY <1>1, <1>3, <2>1, <2>2 DEF LastIn
<1>7. {q[i] : i \in 1..n} \subseteq {u[i] : i \in 1..Len(u)}
  BY <1>1, <1>3
<1>8. QED
  BY <1>4, <1>5, <1>6, <1>7 DEF u, n

\* Commands about no status leave it to others.
LEMMA ConcatLast ==
    ASSUME NEW q \in Seq(Cmd), NEW more \in Seq(Cmd), NEW c, NEW k, NEW s,
           \A i \in 1..Len(more) : ~About(more[i], c, k)
    PROVE  /\ NoneIn(q, c, k) => NoneIn(q \o more, c, k)
           /\ LastIn(q, c, k, s) => LastIn(q \o more, c, k, s)
<1> DEFINE u == q \o more
           n == Len(q)
           m == Len(more)
<1>1. /\ n \in Nat /\ m \in Nat /\ Len(u) = n + m
      /\ \A i \in 1..(n + m) : u[i] = IF i <= n THEN q[i] ELSE more[i - n]
  BY ConcatProperties, LenProperties
<1>2. \A i \in 1..n : i \in 1..Len(u) /\ u[i] = q[i]
  BY <1>1
<1>3. ASSUME NEW i \in 1..Len(u), i \notin 1..n PROVE ~About(u[i], c, k)
  <2>1. i \in 1..(n + m) /\ ~(i <= n) /\ i - n \in 1..m
    BY <1>1, <1>3
  <2>2. u[i] = more[i - n]
    BY <1>1, <2>1
  <2>3. QED
    BY <2>1, <2>2
<1> HIDE DEF u, n, m
<1>4. NoneIn(q, c, k) => NoneIn(u, c, k)
  BY <1>2, <1>3 DEF NoneIn, n
<1>5. ASSUME LastIn(q, c, k, s) PROVE LastIn(u, c, k, s)
  <2>1. PICK i \in 1..n : /\ About(q[i], c, k) /\ q[i].status = s
                          /\ \A j \in 1..n : i < j => ~About(q[j], c, k)
    BY <1>5 DEF LastIn, n
  <2>2. \A j \in 1..Len(u) : i < j => ~About(u[j], c, k)
    BY <1>2, <1>3, <2>1
  <2>3. QED
    BY <1>2, <2>1, <2>2 DEF LastIn
<1>6. QED
  BY <1>4, <1>5 DEF u

\* The first command leaves.
LEMMA ExecuteLast ==
    ASSUME Typed, held # <<>>, NEW c, NEW k, NEW s
    PROVE  /\ NoneIn(Pipe, c, k) => NoneIn(commands, c, k) /\ ~About(held[1], c, k)
           /\ LastIn(Pipe, c, k, s) =>
                 \/ LastIn(commands, c, k, s)
                 \/ NoneIn(commands, c, k) /\ About(held[1], c, k) /\ held[1].status = s
<1> DEFINE n == Len(commands)
<1>1. /\ Len(Pipe) = n + 1 /\ Pipe[1] = held[1] /\ n \in Nat
      /\ \A i \in 1..n : Pipe[i + 1] = commands[i]
  BY PipeExecute
<1>2. \A i \in 1..n : i + 1 \in 1..Len(Pipe)
  BY <1>1
<1>3. 1 \in 1..Len(Pipe)
  BY <1>1
<1>4. NoneIn(Pipe, c, k) => NoneIn(commands, c, k) /\ ~About(held[1], c, k)
  BY <1>1, <1>2, <1>3 DEF NoneIn
<1>5. ASSUME LastIn(Pipe, c, k, s)
      PROVE  \/ LastIn(commands, c, k, s)
             \/ NoneIn(commands, c, k) /\ About(held[1], c, k) /\ held[1].status = s
  <2>1. PICK i \in 1..Len(Pipe) : /\ About(Pipe[i], c, k) /\ Pipe[i].status = s
                                  /\ \A j \in 1..Len(Pipe) : i < j => ~About(Pipe[j], c, k)
    BY <1>5 DEF LastIn
  <2>2. CASE i = 1
    <3>1. \A j \in 1..n : 1 < j + 1
      BY <1>1
    <3>2. QED
      BY <1>1, <1>2, <2>1, <2>2, <3>1 DEF NoneIn
  <2>3. CASE i # 1
    <3>1. i - 1 \in 1..n /\ (i - 1) + 1 = i
      BY <1>1, <2>3
    <3>2. \A j \in 1..n : i - 1 < j => i < j + 1
      BY <1>1
    <3>3. commands[i - 1] = Pipe[i]
      BY <1>1, <3>1
    <3>4. \A j \in 1..n : i - 1 < j => ~About(commands[j], c, k)
      BY <1>1, <1>2, <2>1, <3>2
    <3>5. QED
      BY <2>1, <3>1, <3>3, <3>4 DEF LastIn
  <2>4. QED
    BY <2>2, <2>3
<1>6. QED
  BY <1>4, <1>5

-----------------------------------------------------------------------------
(* The steps.                                                              *)

\* Steps that tell no status: what is under way about a status stays, and a
\* connector that awaits its first report goes on to.
LEMMA QuietStep ==
    ASSUME NotifierInv, Typed', UNCHANGED <<status, call, sent, csms>>, lost => lost',
           \A c \in Conn, k \in Kind :
              /\ NoneIn(Pipe, c, k) => NoneIn(Pipe, c, k)'
              /\ LastIn(Pipe, c, k, sent[c][k]) => LastIn(Pipe, c, k, sent[c][k])',
           \A c \in Conn : ~lost' /\ linkUp' => Fresh(c)' \/ (linkUp /\ ~Fresh(c))
    PROVE  NotifierInv'
<1>1. \A t \in Callers : Reporting(t)'
  BY DEF NotifierInv, Reporting, MarkedFor
<1>2. Delivery'
  BY DEF NotifierInv, Delivery, Marking
<1>3. Settled'
  BY DEF NotifierInv, Settled, Working
<1>4. Unreported'
  BY DEF NotifierInv, Unreported, Working, Kind
<1>5. QED
  BY <1>1, <1>2, <1>3, <1>4 DEF NotifierInv

\* Commands joined, none left.
LEMMA JoinStep ==
    ASSUME NotifierInv, Typed', UNCHANGED <<status, call, sent, csms, held>>, lost => lost',
           NEW q \in Seq(Ask), commands' = commands \o q,
           \A c \in Conn : ~lost' /\ linkUp' => Fresh(c)' \/ (linkUp /\ ~Fresh(c))
    PROVE  NotifierInv'
<1>1. Pipe' = Pipe \o q /\ Pipe \in Seq(Cmd) /\ q \in Seq(Cmd)
  <2>1. q \in Seq(Cmd)
    BY CommandTyped, WiderSeq
  <2>2. QED
    BY <2>1, PipeConcat, PipeFacts DEF NotifierInv
<1>2. \A c \in Conn, k \in Kind : \A i \in 1..Len(q) : ~About(q[i], c, k)
  <2>1. \A i \in 1..Len(q) : q[i] \in Ask
    BY ElementOfSeq
  <2>2. QED
    BY <2>1, AskKinds DEF About
<1>3. \A c \in Conn, k \in Kind :
              /\ NoneIn(Pipe, c, k) => NoneIn(Pipe, c, k)'
              /\ LastIn(Pipe, c, k, sent[c][k]) => LastIn(Pipe, c, k, sent[c][k])'
  <2>1. ASSUME NEW c \in Conn, NEW k \in Kind
        PROVE  /\ NoneIn(Pipe, c, k) => NoneIn(Pipe \o q, c, k)
               /\ LastIn(Pipe, c, k, sent[c][k]) => LastIn(Pipe \o q, c, k, sent[c][k])
    BY <1>1, <1>2, ConcatLast
  <2>2. QED
    BY <1>1, <2>1 DEF NoneIn, LastIn
<1>4. QED
  BY <1>3, QuietStep

LEMMA TakeStep == ASSUME NotifierInv, Take, Typed' PROVE NotifierInv'
<1>1. UNCHANGED <<status, call, sent, csms, lost, later, linkUp>>
  BY DEF Take, engine
<1>2. Pipe' = Pipe
  BY PipeTake DEF NotifierInv
<1>3. Waiting' = Waiting
  <2>1. commands \in Seq(Cmd) /\ commands # <<>> /\ held = <<>>
        /\ held' = <<Head(commands)>> /\ commands' = Tail(commands)
    BY PipeFacts DEF Take, NotifierInv
  <2>2. Len(commands) \in Nat /\ Len(commands) > 0
    BY <2>1, EmptySeq
  <2>3. /\ Len(commands') = Len(commands) - 1 /\ DOMAIN commands' = 1..(Len(commands) - 1)
        /\ \A i \in 1..(Len(commands) - 1) : commands'[i] = commands[i + 1]
        /\ Head(commands) = commands[1] /\ DOMAIN commands = 1..Len(commands)
    BY <2>1, HeadTailProperties, LenProperties
  <2>4. \A i \in 1..Len(commands) : i = 1 \/ (i - 1 \in 1..(Len(commands) - 1) /\ (i - 1) + 1 = i)
    BY <2>2
  <2>5. \A i \in 1..(Len(commands) - 1) : i + 1 \in 1..Len(commands)
    BY <2>2
  <2>6. DOMAIN held = {} /\ DOMAIN held' = {1} /\ held'[1] = commands[1] /\ 1 \in 1..Len(commands)
    BY <2>1, <2>2, <2>3
  <2>7. Commands' = Commands
    <3>1. ASSUME NEW x \in Commands' PROVE x \in Commands
      <4>1. CASE \E i \in DOMAIN held' : x = held'[i]
        BY <2>3, <2>6, <4>1 DEF Commands
      <4>2. CASE \E i \in DOMAIN commands' : x = commands'[i]
        BY <2>3, <2>5, <4>2 DEF Commands
      <4>3. QED
        BY <3>1, <4>1, <4>2 DEF Commands
    <3>2. ASSUME NEW x \in Commands PROVE x \in Commands'
      <4>1. PICK i \in 1..Len(commands) : x = commands[i]
        BY <2>3, <2>6, <3>2 DEF Commands
      <4>2. CASE i = 1
        BY <2>6, <4>1, <4>2 DEF Commands
      <4>3. CASE i # 1
        <5>1. i - 1 \in DOMAIN commands' /\ commands'[i - 1] = x
          BY <2>3, <2>4, <4>1, <4>3
        <5>2. QED
          BY <5>1 DEF Commands
      <4>4. QED
        BY <4>2, <4>3
    <3>3. QED
      BY <3>1, <3>2
  <2>8. QED
    BY <1>1, <2>7 DEF Waiting
<1>4. \A c \in Conn : Fresh(c)' <=> Fresh(c)
  BY <1>1, <1>3 DEF Fresh
<1>5. \A c \in Conn, k \in Kind :
              /\ NoneIn(Pipe, c, k) => NoneIn(Pipe, c, k)'
              /\ LastIn(Pipe, c, k, sent[c][k]) => LastIn(Pipe, c, k, sent[c][k])'
  BY <1>1, <1>2 DEF NoneIn, LastIn
<1>6. QED
  BY <1>1, <1>4, <1>5, QuietStep

\* What joins the channel waits, and so does what was there or awaited a timer.
LEMMA JoinWaits ==
    ASSUME Typed, NEW q \in Seq(Cmd), commands' = commands \o q
    PROVE  /\ \A i \in 1..Len(commands) : commands[i] \in Commands'
           /\ \A i \in 1..Len(q) : q[i] \in Commands'
<1> DEFINE n == Len(commands)
           m == Len(q)
<1>1. /\ n \in Nat /\ m \in Nat /\ DOMAIN commands' = 1..(n + m)
      /\ \A i \in 1..(n + m) : commands'[i] = IF i <= n THEN commands[i] ELSE q[i - n]
  <2>1. commands \in Seq(Cmd)
    BY PipeFacts
  <2>2. commands \o q \in Seq(Cmd)
    BY <2>1, ConcatProperties
  <2>3. QED
    BY <2>1, <2>2, ConcatProperties, LenProperties
<1>2. \A i \in 1..n : i \in DOMAIN commands' /\ commands'[i] = commands[i]
  BY <1>1
<1>3. \A i \in 1..m : i + n \in DOMAIN commands' /\ commands'[i + n] = q[i]
  <2>1. \A i \in 1..m : i + n \in 1..(n + m) /\ ~(i + n <= n) /\ (i + n) - n = i
    BY <1>1
  <2>2. QED
    BY <1>1, <2>1
<1>4. QED
  BY <1>2, <1>3 DEF Commands

LEMMA EnqueuedWaits ==
    ASSUME Typed, NEW cmds \in Seq(Ask), EnqueueAllWithRetry(cmds)
    PROVE  /\ \A i \in 1..Len(commands) : commands[i] \in Waiting'
           /\ \A l \in later : l.cmd \in Waiting'
           /\ \A i \in 1..Len(cmds) : cmds[i] \in Waiting'
<1>1. PICK n \in 0..Len(cmds) :
                 /\ commands' = commands \o SubSeq(cmds, 1, n) /\ SubSeq(cmds, 1, n) \in Seq(Ask)
                 /\ later' = later \cup {Late(cmds[i], TRUE) : i \in (n + 1)..Len(cmds)}
  BY EnqueuedAll
<1>2. SubSeq(cmds, 1, n) \in Seq(Cmd) /\ Len(cmds) \in Nat /\ n \in Nat
  BY <1>1, CommandTyped, WiderSeq, LenProperties
<1>3. /\ \A i \in 1..Len(commands) : commands[i] \in Commands'
      /\ \A i \in 1..Len(SubSeq(cmds, 1, n)) : SubSeq(cmds, 1, n)[i] \in Commands'
  BY <1>1, <1>2, JoinWaits
<1>4. ASSUME NEW i \in 1..Len(cmds) PROVE cmds[i] \in Waiting'
  <2>1. CASE i <= n
    <3>1. \A j \in 1..n : cmds[j] \in Ask
      BY <1>1, <1>2, ElementOfSeq
    <3>2. Len(SubSeq(cmds, 1, n)) = n /\ SubSeq(cmds, 1, n)[i] = cmds[i]
      BY <1>2, <2>1
    <3>3. QED
      BY <1>2, <1>3, <2>1, <3>2 DEF Waiting
  <2>2. CASE ~(i <= n)
    <3>1. i \in (n + 1)..Len(cmds)
      BY <1>2, <2>2
    <3>2. Late(cmds[i], TRUE) \in later'
      BY <1>1, <3>1
    <3>3. Late(cmds[i], TRUE).cmd = cmds[i]
      BY DEF Late
    <3>4. QED
      BY <3>2, <3>3 DEF Waiting
  <2>3. QED
    BY <2>1, <2>2
<1>5. \A l \in later : l.cmd \in Waiting'
  BY <1>1 DEF Waiting
<1>6. QED
  BY <1>3, <1>4, <1>5 DEF Waiting

\* Nothing that waits is lost from sight: the connectors stay fresh.
LEMMA StillFresh ==
    ASSUME Typed, UNCHANGED <<status, csms>>,
           \A i \in 1..Len(commands) : commands[i] \in Waiting',
           \A l \in later : l.cmd \in Waiting',
           held # <<>> => held[1] \in Waiting'
    PROVE  \A c \in Conn : Fresh(c) => Fresh(c)'
<1>1. ASSUME NEW x \in Waiting PROVE x \in Waiting'
  <2>1. DOMAIN commands = 1..Len(commands) /\ (held # <<>> => DOMAIN held = {1}) /\ DOMAIN <<>> = {}
    BY PipeFacts, HeldTyped, LenProperties
  <2>2. \/ \E i \in 1..Len(commands) : x = commands[i]
        \/ held # <<>> /\ x = held[1]
        \/ \E l \in later : x = l.cmd
    BY <1>1, <2>1 DEF Waiting, Commands
  <2>3. QED
    BY <2>2
<1>2. QED
  BY <1>1 DEF Fresh

\* The held command waits while it is held.
LEMMA HeldWaits ==
    ASSUME Typed, UNCHANGED held, held # <<>>
    PROVE  held[1] \in Waiting'
<1>1. DOMAIN held = {1}
  BY HeldTyped
<1>2. QED
  BY <1>1 DEF Waiting, Commands

LEMMA TimerStep ==
    ASSUME NotifierInv, NEW l \in later, TimerFires(l), Typed' PROVE NotifierInv'
<1>0. Typed /\ l.cmd \in Ask /\ commands \in Seq(Cmd)
  BY PipeFacts DEF NotifierInv, Typed
<1>1. UNCHANGED <<status, call, sent, csms, held, linkUp>> /\ (lost => lost')
  BY DEF TimerFires, engine
<1>2. \E q \in {<<>>, <<l.cmd>>} : commands' = commands \o q /\ (Room(commands, 1) => q = <<l.cmd>>)
  <2>1. commands \o <<>> = commands
    BY <1>0, ConcatEmptySeq
  <2>2. Append(commands, l.cmd) = commands \o <<l.cmd>>
    BY <1>0, CommandTyped, AppendIsConcat
  <2>3. QED
    BY <2>1, <2>2 DEF TimerFires
<1>3. PICK q \in {<<>>, <<l.cmd>>} : commands' = commands \o q /\ (Room(commands, 1) => q = <<l.cmd>>)
  BY <1>2
<1>4. q \in Seq(Ask) /\ q \in Seq(Cmd)
  <2>1. <<l.cmd>> \in Seq(Ask) /\ <<>> \in Seq(Ask)
    BY <1>0
  <2>2. QED
    BY <2>1, CommandTyped, WiderSeq
<1>5. ASSUME ~lost' PROVE \A c \in Conn : Fresh(c) => Fresh(c)'
  <2>1. /\ \A i \in 1..Len(commands) : commands[i] \in Waiting'
        /\ \A i \in 1..Len(q) : q[i] \in Waiting'
    BY <1>0, <1>3, <1>4, JoinWaits DEF Waiting
  <2>2. l.cmd \in Waiting'
    <3>1. CASE Room(commands, 1)
      <4>1. q = <<l.cmd>>
        BY <1>3, <3>1
      <4>2. 1 \in 1..Len(q) /\ q[1] = l.cmd
        BY <4>1
      <4>3. QED
        BY <2>1, <4>2
    <3>2. CASE ~Room(commands, 1)
      <4>1. Late(l.cmd, TRUE) \in later' /\ Late(l.cmd, TRUE).cmd = l.cmd
        BY <1>5, <3>2 DEF TimerFires, Late
      <4>2. QED
        BY <4>1 DEF Waiting
    <3>3. QED
      BY <3>1, <3>2
  <2>3. \A k \in later : k.cmd \in Waiting'
    BY <2>2 DEF TimerFires, Waiting
  <2>4. QED
    BY <1>0, <1>1, <2>1, <2>3, HeldWaits, StillFresh
<1>6. QED
  BY <1>1, <1>3, <1>4, <1>5, JoinStep

\* Commands about no status are enqueued, by the reconnect, the boot or a trigger.
LEMMA EnqueueStep ==
    ASSUME NotifierInv, Typed', UNCHANGED <<status, call, sent, csms, held, lost>>,
           NEW cmds \in Seq(Ask), EnqueueAllWithRetry(cmds),
           (linkUp' /\ ~linkUp) => \E i \in 1..Len(cmds) : cmds[i] = Boot
    PROVE  NotifierInv'
<1>0. Typed
  BY DEF NotifierInv
<1>1. PICK n \in 0..Len(cmds) : commands' = commands \o SubSeq(cmds, 1, n) /\ SubSeq(cmds, 1, n) \in Seq(Ask)
  BY <1>0, EnqueuedAll
<1>2. \A c \in Conn : Fresh(c) => Fresh(c)'
  BY <1>0, EnqueuedWaits, HeldWaits, StillFresh
<1>3. (linkUp' /\ ~linkUp) => \A c \in Conn : Fresh(c)'
  BY <1>0, EnqueuedWaits DEF Fresh
<1>4. QED
  BY <1>1, <1>2, <1>3, JoinStep

LEMMA ConnectStep ==
    ASSUME NotifierInv, Typed',
           Connect \/ \E cmd \in {Boot} \cup {Resync(c) : c \in Conn} : OnTriggerMessage(cmd)
    PROVE  NotifierInv'
<1>1. ASSUME NEW cmd \in Ask
      PROVE  <<cmd>> \in Seq(Ask) /\ Len(<<cmd>>) = 1 /\ <<cmd>>[1] = cmd /\ 1 \in 1..1
  OBVIOUS
<1>2. CASE Connect
  <2>1. /\ UNCHANGED <<status, call, sent, csms, held, lost>>
        /\ EnqueueAllWithRetry(<<Boot>>)
    BY <1>2 DEF Connect, engine
  <2>2. QED
    BY <1>1, <2>1, CommandTyped, EnqueueStep
<1>3. ASSUME NEW cmd \in Ask, OnTriggerMessage(cmd) PROVE NotifierInv'
  <2>1. /\ UNCHANGED <<status, call, sent, csms, held, lost, linkUp>>
        /\ EnqueueAllWithRetry(<<cmd>>)
    BY <1>3 DEF OnTriggerMessage, engine
  <2>2. QED
    BY <1>1, <2>1, EnqueueStep
<1>4. QED
  BY <1>2, <1>3 DEF Ask

LEMMA DisconnectStep == ASSUME NotifierInv, Disconnect, Typed' PROVE NotifierInv'
<1>1. UNCHANGED <<status, call, sent, csms, held, commands, lost>> /\ linkUp' = FALSE
  BY DEF Disconnect, engine, dispatcher
<1>2. commands' = commands \o <<>> /\ <<>> \in Seq(Ask)
  BY <1>1, PipeFacts, ConcatEmptySeq DEF NotifierInv
<1>3. QED
  BY <1>1, <1>2, JoinStep

\* The held command is executed, and commands about no status join.
LEMMA PipeExecuted ==
    ASSUME Typed, held # <<>>, held' = <<>>, NEW q \in Seq(Ask), commands' = commands \o q,
           NEW c \in Conn, NEW k \in Kind, NEW s
    PROVE  /\ NoneIn(Pipe, c, k) => NoneIn(Pipe, c, k)' /\ ~About(held[1], c, k)
           /\ LastIn(Pipe, c, k, s) =>
                 \/ LastIn(Pipe', c, k, s)
                 \/ NoneIn(Pipe, c, k)' /\ About(held[1], c, k) /\ held[1].status = s
<1>1. q \in Seq(Cmd) /\ commands \in Seq(Cmd)
  BY CommandTyped, WiderSeq, PipeFacts
<1>2. Pipe' = commands \o q
  BY <1>1, PipeExecute
<1>3. \A i \in 1..Len(q) : ~About(q[i], c, k)
  BY ElementOfSeq, AskKinds DEF About
<1>4. /\ NoneIn(commands, c, k) => NoneIn(Pipe', c, k)
      /\ LastIn(commands, c, k, s) => LastIn(Pipe', c, k, s)
  BY <1>1, <1>2, <1>3, ConcatLast
<1>5. NoneIn(Pipe, c, k)' <=> NoneIn(Pipe', c, k)
  BY DEF NoneIn
<1>6. QED
  BY <1>4, <1>5, ExecuteLast

\* ... when the command executed told no status.
LEMMA ExecuteQuiet ==
    ASSUME NotifierInv, Typed', UNCHANGED <<status, call, sent, csms>>, lost => lost',
           held # <<>>, held[1].kind \notin Kind, held' = <<>>,
           NEW q \in Seq(Ask), commands' = commands \o q,
           \A c \in Conn : ~lost' /\ linkUp' => Fresh(c)' \/ (linkUp /\ ~Fresh(c))
    PROVE  NotifierInv'
<1>1. ASSUME NEW c \in Conn, NEW k \in Kind
      PROVE  /\ NoneIn(Pipe, c, k) => NoneIn(Pipe, c, k)'
             /\ LastIn(Pipe, c, k, sent[c][k]) => LastIn(Pipe, c, k, sent[c][k])'
  <2>1. ~About(held[1], c, k)
    BY DEF About
  <2>2. /\ NoneIn(Pipe, c, k) => NoneIn(Pipe, c, k)'
        /\ LastIn(Pipe, c, k, sent[c][k]) => LastIn(Pipe', c, k, sent[c][k])
    BY <2>1, PipeExecuted DEF NotifierInv
  <2>3. sent'[c][k] = sent[c][k]
    OBVIOUS
  <2>4. LastIn(Pipe', c, k, sent[c][k]) => LastIn(Pipe, c, k, sent[c][k])'
    BY <2>3 DEF LastIn
  <2>5. QED
    BY <2>2, <2>4
<1>2. QED
  BY <1>1, QuietStep

LEMMA BootStep ==
    ASSUME NotifierInv, Typed', (\E order \in Order : BootAccepted(order)) \/ BootNotAccepted
    PROVE  NotifierInv'
<1>0. Typed /\ held # <<>> /\ held[1].kind = "boot" /\ held[1].kind \notin Kind
  BY NotifierAssumption DEF NotifierInv, BootAccepted, BootNotAccepted, Executing, Kind
<1>1. UNCHANGED <<status, call, sent, csms, lost, linkUp>> /\ held' = <<>>
  BY DEF BootAccepted, BootNotAccepted, engine
<1>2. ASSUME NEW order \in Order, BootAccepted(order) PROVE NotifierInv'
  <2> DEFINE cmds == [i \in 1..Cardinality(Conn) |-> Resync(order[i])]
  <2>1. EnqueueAllWithRetry(cmds) /\ cmds \in Seq(Ask) /\ Len(cmds) = Cardinality(Conn)
    BY <1>2, ResyncsTyped DEF BootAccepted
  <2>2. \A c \in Conn : \E i \in 1..Len(cmds) : cmds[i] = Resync(c)
    <3>1. ASSUME NEW c \in Conn PROVE \E i \in 1..Len(cmds) : cmds[i] = Resync(c)
      <4>1. PICK i \in 1..Cardinality(Conn) : order[i] = c
        BY ResyncsTyped
      <4>2. cmds[i] = Resync(c) /\ i \in 1..Len(cmds)
        BY <2>1, <4>1
      <4>3. QED
        BY <4>2
    <3>2. QED
      BY <3>1
  <2> HIDE DEF cmds
  <2>3. \A c \in Conn : Fresh(c)'
    BY <1>0, <2>1, <2>2, EnqueuedWaits DEF Fresh
  <2>4. PICK n \in 0..Len(cmds) : commands' = commands \o SubSeq(cmds, 1, n) /\ SubSeq(cmds, 1, n) \in Seq(Ask)
    BY <1>0, <2>1, EnqueuedAll
  <2>5. QED
    BY <1>0, <1>1, <2>3, <2>4, ExecuteQuiet
<1>3. CASE BootNotAccepted
  <2>1. commands' = commands \o <<>> /\ <<>> \in Seq(Ask)
    BY <1>0, <1>3, PipeFacts, ConcatEmptySeq DEF BootNotAccepted
  <2>2. Late(Boot, FALSE) \in later' /\ Late(Boot, FALSE).cmd = Boot
    BY <1>3 DEF BootNotAccepted, Late
  <2>3. \A c \in Conn : Fresh(c)'
    BY <2>2 DEF Fresh, Waiting
  <2>4. QED
    BY <1>0, <1>1, <2>1, <2>3, ExecuteQuiet
<1>4. QED
  BY <1>2, <1>3

\* A command that has been executed no longer waits, the others do.
LEMMA FreshExecuted ==
    ASSUME Typed, held # <<>>, UNCHANGED <<status, commands, later>>,
           NEW c \in Conn, held[1] # Boot, held[1] # Resync(c), csms'[c]["status"] = csms[c]["status"]
    PROVE  Fresh(c) => Fresh(c)'
<1>1. DOMAIN held = {1}
  BY HeldTyped
<1>2. Boot \in Waiting => Boot \in Waiting'
  BY <1>1 DEF Waiting, Commands
<1>3. Resync(c) \in Waiting => Resync(c) \in Waiting'
  BY <1>1 DEF Waiting, Commands
<1>4. QED
  BY <1>2, <1>3 DEF Fresh

LEMMA SendStep == ASSUME NotifierInv, Send, Typed' PROVE NotifierInv'
<1>0. /\ Typed /\ held # <<>> /\ held[1] \in Cmd /\ held' = <<>> /\ linkUp
      /\ UNCHANGED <<status, call, sent, commands, later, linkUp, lost>>
      /\ csms \in [Conn -> [Kind -> Status \cup {"unknown"}]]
      /\ commands' = commands \o <<>> /\ <<>> \in Seq(Ask)
      /\ held[1].kind \in Kind \cup {"resync"}
  <2>1. Typed
    BY DEF NotifierInv
  <2>2. commands \o <<>> = commands
    BY <2>1, PipeFacts, ConcatEmptySeq
  <2>3. QED
    BY <2>1, <2>2, HeldTyped DEF Send, Executing, engine, Typed
<1> DEFINE cmd == held[1]
<1>1. \A c \in Conn, k \in Kind :
              /\ NoneIn(Pipe, c, k) => NoneIn(Pipe, c, k)' /\ ~About(cmd, c, k)
              /\ LastIn(Pipe, c, k, sent[c][k]) =>
                 \/ LastIn(Pipe', c, k, sent[c][k])
                 \/ NoneIn(Pipe, c, k)' /\ About(cmd, c, k) /\ cmd.status = sent[c][k]
  BY <1>0, PipeExecuted
<1>2. \A c \in Conn, k \in Kind : LastIn(Pipe', c, k, sent[c][k]) => LastIn(Pipe, c, k, sent[c][k])'
  BY <1>0 DEF LastIn
<1>3. \A t \in Callers : Reporting(t)'
  BY <1>0 DEF NotifierInv, Reporting, MarkedFor
<1>4. Settled'
  BY <1>0 DEF NotifierInv, Settled, Working
<1>5. CASE cmd.kind \in Kind
  <2>1. /\ cmd.conn \in Conn /\ cmd.kind \in Kind /\ cmd # Boot /\ \A c \in Conn : cmd # Resync(c)
        /\ cmd.kind # "resync"
    BY <1>0, <1>5, CommandKinds, NotifierAssumption DEF Kind
  <2>2. csms' = [csms EXCEPT ![cmd.conn][cmd.kind] = cmd.status]
    BY <2>1 DEF Send
  <2>3. \A c \in Conn, k \in Kind :
              csms'[c][k] = IF About(cmd, c, k) THEN cmd.status ELSE csms[c][k]
    BY <1>0, <2>1, <2>2 DEF About
  <2>4. Delivery'
    <3>1. SUFFICES ASSUME NEW c \in Conn, NEW k \in Kind, sent[c][k] # "none", ~Marking(c, k)
                   PROVE  \/ LastIn(Pipe, c, k, sent[c][k])'
                          \/ NoneIn(Pipe, c, k)' /\ csms'[c][k] = sent[c][k]
                          \/ NoneIn(Pipe, c, k)' /\ k = "status" /\ csms'[c][k] = status[c]
      BY <1>0 DEF Delivery, Marking
    <3>2. \/ LastIn(Pipe, c, k, sent[c][k])
          \/ NoneIn(Pipe, c, k) /\ csms[c][k] = sent[c][k]
          \/ NoneIn(Pipe, c, k) /\ k = "status" /\ csms[c][k] = status[c]
      BY <3>1 DEF NotifierInv, Delivery
    <3>3. QED
      BY <1>1, <1>2, <2>3, <3>2
  <2>5. Unreported'
    <3>1. SUFFICES ASSUME NEW c \in Conn, ~lost, sent[c]["status"] = "none"
                   PROVE  /\ NoneIn(Pipe, c, "status")'
                          /\ ~Working(c) /\ linkUp => Fresh(c)'
      BY <1>0 DEF Unreported, Working
    <3>2. "status" \in Kind
      BY DEF Kind
    <3>3. NoneIn(Pipe, c, "status") /\ (~Working(c) /\ linkUp => Fresh(c))
      BY <3>1 DEF NotifierInv, Unreported
    <3>4. csms'[c]["status"] = csms[c]["status"]
      BY <1>1, <2>3, <3>2, <3>3
    <3>5. QED
      BY <1>0, <1>1, <2>1, <3>2, <3>3, <3>4, FreshExecuted
  <2>6. QED
    BY <1>3, <1>4, <2>4, <2>5 DEF NotifierInv
<1>6. CASE cmd.kind = "resync"
  <2>1. PICK d \in Conn : cmd = Resync(d) /\ cmd.conn = d
    BY <1>0, <1>6, CommandKinds, NotifierAssumption DEF Kind
  <2>2. "resync" \notin Kind /\ "status" \in Kind /\ cmd # Boot
        /\ \A c \in Conn : c # d => cmd # Resync(c)
    BY <2>1, NotifierAssumption DEF Kind, Resync, Command, Boot
  <2>3. csms' = [csms EXCEPT ![d]["status"] = status[d]]
    BY <1>6, <2>1 DEF Send
  <2>4. \A c \in Conn, k \in Kind :
              csms'[c][k] = IF c = d /\ k = "status" THEN status[d] ELSE csms[c][k]
    BY <1>0, <2>2, <2>3
  <2>5. \A c \in Conn, k \in Kind : ~About(cmd, c, k)
    BY <1>6, <2>2 DEF About
  <2>6. Delivery'
    <3>1. SUFFICES ASSUME NEW c \in Conn, NEW k \in Kind, sent[c][k] # "none", ~Marking(c, k)
                   PROVE  \/ LastIn(Pipe, c, k, sent[c][k])'
                          \/ NoneIn(Pipe, c, k)' /\ csms'[c][k] = sent[c][k]
                          \/ NoneIn(Pipe, c, k)' /\ k = "status" /\ csms'[c][k] = status[c]
      BY <1>0 DEF Delivery, Marking
    <3>2. \/ LastIn(Pipe, c, k, sent[c][k])
          \/ NoneIn(Pipe, c, k) /\ csms[c][k] = sent[c][k]
          \/ NoneIn(Pipe, c, k) /\ k = "status" /\ csms[c][k] = status[c]
      BY <3>1 DEF NotifierInv, Delivery
    <3>3. QED
      BY <1>1, <1>2, <2>4, <2>5, <3>2
  <2>7. Unreported'
    <3>1. SUFFICES ASSUME NEW c \in Conn, ~lost, sent[c]["status"] = "none"
                   PROVE  /\ NoneIn(Pipe, c, "status")'
                          /\ ~Working(c) /\ linkUp => Fresh(c)'
      BY <1>0 DEF Unreported, Working
    <3>2. NoneIn(Pipe, c, "status") /\ (~Working(c) /\ linkUp => Fresh(c))
      BY <3>1 DEF NotifierInv, Unreported
    <3>3. CASE c = d
      BY <1>0, <1>1, <2>2, <2>4, <3>2, <3>3 DEF Fresh
    <3>4. CASE c # d
      <4>1. csms'[c]["status"] = csms[c]["status"] /\ cmd # Resync(c)
        BY <2>2, <2>4, <3>4
      <4>2. QED
        BY <1>0, <1>1, <2>2, <3>2, <4>1, FreshExecuted
    <3>5. QED
      BY <3>3, <3>4
  <2>8. QED
    BY <1>3, <1>4, <2>6, <2>7 DEF NotifierInv
<1>7. QED
  BY <1>0, <1>5, <1>6

\* unmark takes at most one mark away.
LEMMA UnmarkedFacts ==
    ASSUME Typed, NEW c \in Conn, NEW k \in Kind, NEW s, sent' = Unmarked(c, k, s)
    PROVE  \A d \in Conn, j \in Kind :
              /\ sent'[d][j] \in {sent[d][j], "none"}
              /\ d = c /\ j = k /\ sent[d][j] = s => sent'[d][j] = "none"
              /\ ~(d = c /\ j = k) => sent'[d][j] = sent[d][j]
<1>1. sent \in [Conn -> [Kind -> Status \cup {"none"}]]
  BY DEF Typed
<1>2. CASE sent[c][k] = s
  <2>1. sent' = [sent EXCEPT ![c][k] = "none"]
    BY <1>2 DEF Unmarked
  <2>2. QED
    BY <1>1, <2>1
<1>3. CASE sent[c][k] # s
  BY <1>3 DEF Unmarked
<1>4. QED
  BY <1>2, <1>3

LEMMA SendFailsStep ==
    ASSUME NotifierInv, NEW received \in BOOLEAN, SendFails(received), Typed' PROVE NotifierInv'
<1>0. /\ Typed /\ held # <<>> /\ held[1] \in Cmd /\ held' = <<>> /\ lost' = TRUE
      /\ UNCHANGED <<status, call, commands, later, linkUp>>
      /\ commands' = commands \o <<>> /\ <<>> \in Seq(Ask)
  <2>1. Typed
    BY DEF NotifierInv
  <2>2. commands \o <<>> = commands
    BY <2>1, PipeFacts, ConcatEmptySeq
  <2>3. QED
    BY <2>1, <2>2, HeldTyped DEF SendFails, Executing, engine
<1> DEFINE cmd == held[1]
<1>1. CASE cmd.kind \notin Kind
  <2>1. UNCHANGED <<sent, csms>>
    BY <1>1 DEF SendFails
  <2>2. QED
    BY <1>0, <1>1, <2>1, ExecuteQuiet
<1>2. CASE cmd.kind \in Kind
  <2>1. cmd.conn \in Conn /\ cmd.kind \in Kind
    BY <1>0, <1>2, CommandKinds
  <2>2. sent' = Unmarked(cmd.conn, cmd.kind, cmd.status)
    BY <1>2 DEF SendFails
  <2>3. \A d \in Conn, j \in Kind :
              /\ sent'[d][j] \in {sent[d][j], "none"}
              /\ About(cmd, d, j) /\ cmd.status = sent[d][j] => sent'[d][j] = "none"
    BY <1>0, <2>1, <2>2, UnmarkedFacts DEF About
  <2>4. \A d \in Conn, j \in Kind : ~About(cmd, d, j) => csms'[d][j] = csms[d][j]
    <3>1. csms \in [Conn -> [Kind -> Status \cup {"unknown"}]]
      BY <1>0 DEF Typed
    <3>2. \/ csms' = [csms EXCEPT ![cmd.conn][cmd.kind] = cmd.status]
          \/ csms' = csms
      BY <2>1 DEF SendFails
    <3>3. QED
      BY <2>1, <3>1, <3>2 DEF About
  <2>5. ASSUME NEW t \in Callers PROVE Reporting(t)'
    <3>1. SUFFICES ASSUME call[t] # Idle
                   PROVE  /\ Last(call[t].path) = status[call[t].conn]
                          /\ call[t].marked => MarkedFor(t, Head(call[t].kinds))'
                          /\ call[t].kinds # <<>> /\ Head(call[t].kinds) # "status" => MarkedFor(t, "status")'
      BY <1>0 DEF Reporting
    <3>2. Reporting(t) /\ call[t].conn \in Conn /\ "status" \in Kind
          /\ (call[t].kinds # <<>> => Head(call[t].kinds) \in Kind)
          /\ (call[t].marked => call[t].kinds # <<>>)
      BY <1>0, <3>1, ReportFacts DEF NotifierInv, Kind
    <3>3. \A k \in Kind : MarkedFor(t, k) => MarkedFor(t, k)'
      BY <1>0, <2>3, <3>2 DEF MarkedFor
    <3>4. call[t].marked => MarkedFor(t, Head(call[t].kinds))'
      BY <1>0, <2>3, <3>1, <3>2 DEF MarkedFor, Reporting
    <3>5. call[t].kinds # <<>> /\ Head(call[t].kinds) # "status" => MarkedFor(t, "status")'
      BY <3>1, <3>2, <3>3 DEF Reporting
    <3>6. QED
      BY <3>1, <3>2, <3>4, <3>5 DEF Reporting
  <2>6. Delivery'
    <3>1. SUFFICES ASSUME NEW c \in Conn, NEW k \in Kind, sent'[c][k] # "none", ~Marking(c, k)
                   PROVE  \/ LastIn(Pipe, c, k, sent[c][k])'
                          \/ NoneIn(Pipe, c, k)' /\ csms'[c][k] = sent'[c][k]
                          \/ NoneIn(Pipe, c, k)' /\ k = "status" /\ csms'[c][k] = status[c]
      BY <1>0 DEF Delivery, Marking
    <3>2. sent'[c][k] = sent[c][k] /\ ~(About(cmd, c, k) /\ cmd.status = sent[c][k])
      BY <2>3, <3>1
    <3>3. \/ LastIn(Pipe, c, k, sent[c][k])
          \/ NoneIn(Pipe, c, k) /\ csms[c][k] = sent[c][k]
          \/ NoneIn(Pipe, c, k) /\ k = "status" /\ csms[c][k] = status[c]
      BY <3>1, <3>2 DEF NotifierInv, Delivery
    <3>4. /\ NoneIn(Pipe, c, k) => NoneIn(Pipe, c, k)' /\ ~About(cmd, c, k)
          /\ LastIn(Pipe, c, k, sent[c][k]) => LastIn(Pipe', c, k, sent[c][k])
      <4>1. /\ NoneIn(Pipe, c, k) => NoneIn(Pipe, c, k)' /\ ~About(cmd, c, k)
            /\ LastIn(Pipe, c, k, sent[c][k]) =>
                 \/ LastIn(Pipe', c, k, sent[c][k])
                 \/ NoneIn(Pipe, c, k)' /\ About(cmd, c, k) /\ cmd.status = sent[c][k]
        BY <1>0, PipeExecuted
      <4>2. QED
        BY <3>2, <4>1
    <3>5. LastIn(Pipe', c, k, sent[c][k]) => LastIn(Pipe, c, k, sent[c][k])'
      BY <3>2 DEF LastIn
    <3>6. QED
      BY <2>4, <3>2, <3>3, <3>4, <3>5
  <2>7. Settled'
    BY <1>0, <2>3 DEF NotifierInv, Settled, Working, Kind
  <2>8. Unreported'
    BY <1>0 DEF Unreported
  <2>9. QED
    BY <2>5, <2>6, <2>7, <2>8 DEF NotifierInv
<1>3. QED
  BY <1>1, <1>2

-----------------------------------------------------------------------------
(* The steps of a goroutine that has its connector for itself.             *)

\* Nobody else works on its connector, or marks one of its statuses.
LEMMA AloneOn ==
    ASSUME Typed, Apart, NEW t \in Callers, call[t] # Idle
    PROVE  /\ \A u \in Callers : call[u].conn = call[t].conn => u = t
           /\ \A k \in Kind : Marking(call[t].conn, k) => call[t].marked /\ Head(call[t].kinds) = k
BY ReportFacts DEF Apart, Marking

\* What its step leaves alone about the others.
LEMMA OthersStay ==
    ASSUME NEW t \in Callers, NEW c \in Conn, \A u \in Callers : u # t => call'[u] = call[u],
           call'[t] = Idle \/ call'[t].conn = c, call[t] = Idle \/ call[t].conn = c
    PROVE  /\ \A d \in Conn : d # c => (Working(d)' <=> Working(d))
           /\ \A d \in Conn, k \in Kind : d # c => (Marking(d, k)' <=> Marking(d, k))
<1>1. \A d \in Conn : d # c => call'[t].conn # d /\ call[t].conn # d
  BY NotifierAssumption DEF Idle, Reports
<1>2. QED
  BY <1>1 DEF Working, Marking

\* Reports of other connectors stay true.
LEMMA OthersReport ==
    ASSUME Typed, NEW c \in Conn, NEW u \in Callers, Reporting(u), call'[u] = call[u],
           call[u].conn # c, lost => lost',
           \A d \in Conn : d # c => status'[d] = status[d] /\ sent'[d] = sent[d]
    PROVE  Reporting(u)'
<1>1. CASE call[u] = Idle
  BY <1>1 DEF Reporting
<1>2. CASE call[u] # Idle
  <2>1. call[u].conn \in Conn
    BY <1>2, ReportFacts
  <2>2. status'[call[u].conn] = status[call[u].conn] /\ sent'[call[u].conn] = sent[call[u].conn]
    BY <2>1
  <2>3. QED
    BY <2>2 DEF Reporting, MarkedFor, Last
<1>3. QED
  BY <1>1, <1>2

LEMMA ChangeStep ==
    ASSUME Apart', NotifierInv, NEW t \in Callers, NEW c \in Conn, NEW path \in Path,
           NEW fault \in Faults \cup {"NoError"}, ChangeStatus(t, c, path, fault), Typed'
    PROVE  NotifierInv'
<1>0. Typed
  BY DEF NotifierInv
<1>1. /\ UNCHANGED <<sent, commands, held, later, linkUp, csms, lost>>
      /\ status' = [status EXCEPT ![c] = Last(path)] /\ status \in [Conn -> Status]
      /\ call' = [call EXCEPT ![t] = Reports(c, path)] /\ call[t] = Idle
  BY <1>0, ReportFacts DEF ChangeStatus, dispatcher, Typed
<1>2. /\ Reports(c, path).conn = c /\ Reports(c, path).path = path
      /\ Reports(c, path).kinds = <<>> /\ Reports(c, path).marked = FALSE
  BY DEF Reports
<1>3. /\ call'[t] = Reports(c, path) /\ \A u \in Callers : u # t => call'[u] = call[u]
      /\ \A d \in Conn : d # c => (Working(d)' <=> Working(d))
      /\ \A d \in Conn, k \in Kind : d # c => (Marking(d, k)' <=> Marking(d, k))
  <2>1. call'[t] = Reports(c, path) /\ \A u \in Callers : u # t => call'[u] = call[u]
    BY <1>0, <1>1 DEF Typed
  <2>2. QED
    BY <1>1, <1>2, <2>1, OthersStay
<1>4. \A u \in Callers : call[u].conn # c
  BY <1>0, <1>1, <1>2, <1>3, ReportFacts DEF Apart
<1>5. ~Working(c) /\ Working(c)' /\ \A k \in Kind : ~Marking(c, k) /\ ~Marking(c, k)'
  BY <1>2, <1>3, <1>4 DEF Working, Marking
<1>6. status'[c] = Last(path) /\ \A d \in Conn : d # c => status'[d] = status[d]
  BY <1>1
<1>7. ASSUME NEW u \in Callers PROVE Reporting(u)'
  <2>1. CASE u = t
    BY <1>2, <1>3, <1>6, <2>1 DEF Reporting
  <2>2. CASE u # t
    BY <1>0, <1>1, <1>3, <1>4, <1>6, <2>2, OthersReport DEF NotifierInv
  <2>3. QED
    BY <2>1, <2>2
<1>8. Delivery'
  <2>1. SUFFICES ASSUME NEW d \in Conn, NEW k \in Kind, sent[d][k] # "none", ~Marking(d, k)'
                 PROVE  \/ LastIn(Pipe, d, k, sent[d][k])
                        \/ NoneIn(Pipe, d, k) /\ csms[d][k] = sent[d][k]
                        \/ NoneIn(Pipe, d, k) /\ k = "status" /\ csms[d][k] = status'[d]
    BY <1>1 DEF Delivery, LastIn, NoneIn, Pipe
  <2>2. \/ LastIn(Pipe, d, k, sent[d][k])
        \/ NoneIn(Pipe, d, k) /\ csms[d][k] = sent[d][k]
        \/ NoneIn(Pipe, d, k) /\ k = "status" /\ csms[d][k] = status[d]
    BY <1>3, <1>5, <2>1 DEF NotifierInv, Delivery
  <2>3. k = "status" /\ d = c => sent[d][k] = status[d]
    BY <1>5, <2>1 DEF NotifierInv, Settled
  <2>4. QED
    BY <1>6, <2>2, <2>3
<1>9. Settled'
  <2>1. SUFFICES ASSUME NEW d \in Conn, ~Working(d)'
                 PROVE  sent[d]["status"] \in {"none", status'[d]}
    BY <1>1 DEF Settled
  <2>2. d # c
    BY <1>5, <2>1
  <2>3. QED
    BY <1>3, <1>6, <2>1, <2>2 DEF NotifierInv, Settled
<1>10. Unreported'
  <2>1. SUFFICES ASSUME NEW d \in Conn, ~lost, sent[d]["status"] = "none"
                 PROVE  /\ NoneIn(Pipe, d, "status")'
                        /\ ~Working(d)' /\ linkUp => Fresh(d)'
    BY <1>1 DEF Unreported
  <2>2. NoneIn(Pipe, d, "status") /\ (~Working(d) /\ linkUp => Fresh(d))
    BY <2>1 DEF NotifierInv, Unreported
  <2>3. NoneIn(Pipe, d, "status")'
    BY <1>1, <2>2 DEF NoneIn, Pipe
  <2>4. ASSUME ~Working(d)', linkUp PROVE Fresh(d)'
    <3>1. d # c /\ Fresh(d)
      BY <1>3, <1>5, <2>2, <2>4
    <3>2. QED
      BY <1>1, <1>6, <3>1 DEF Fresh, Waiting, Commands
  <2>5. QED
    BY <2>3, <2>4
<1>11. QED
  BY <1>7, <1>8, <1>9, <1>10 DEF NotifierInv

LEMMA BeginStep ==
    ASSUME NotifierInv, NEW t \in Callers, NotifyBegin(t), Typed'
    PROVE  NotifierInv'
<1>0. Typed
  BY DEF NotifierInv
<1>1. /\ UNCHANGED <<status, code, sent, commands, held, later, linkUp, csms, lost>>
      /\ call \in [Callers -> {Idle} \cup Report] /\ call[t].path # <<>> /\ call[t].kinds = <<>>
  BY <1>0 DEF NotifyBegin, engine, dispatcher, Typed
<1>2. PICK kinds \in KindsLeft : call' = [call EXCEPT ![t].kinds = kinds] /\ Head(kinds) = "status"
  <2> DEFINE c == call[t].conn
             kinds == IF Head(call[t].path) = "Faulted" /\ code[c] # "NoError"
                      THEN <<"status", code[c]>> ELSE <<"status">>
  <2>1. call' = [call EXCEPT ![t].kinds = kinds]
    BY DEF NotifyBegin
  <2>2. c \in Conn
    BY <1>0, <1>1, ReportFacts
  <2>3. code[c] \in Faults \cup {"NoError"}
    BY <1>0, <2>2 DEF Typed
  <2>4. kinds \in KindsLeft
    BY <2>3 DEF KindsLeft
  <2>5. Head(<<"status">>) = "status" /\ Head(<<"status", code[c]>>) = "status"
    OBVIOUS
  <2>6. Head(kinds) = "status"
    BY <2>5
  <2>7. QED
    BY <2>1, <2>4, <2>6
<1>3. call[t] # Idle /\ call[t] \in Report /\ call[t].marked = FALSE
  BY <1>0, <1>1, ReportFacts
<1>4. /\ call'[t].conn = call[t].conn /\ call'[t].path = call[t].path
      /\ call'[t].kinds = kinds /\ call'[t].marked = FALSE
      /\ \A u \in Callers : u # t => call'[u] = call[u]
  BY <1>1, <1>2, <1>3 DEF Report
<1>5. Reporting(t)'
  BY <1>1, <1>2, <1>3, <1>4 DEF NotifierInv, Reporting
<1>6. ASSUME NEW u \in Callers, u # t PROVE Reporting(u)'
  BY <1>1, <1>4, <1>6 DEF NotifierInv, Reporting, MarkedFor
<1>7. /\ \A d \in Conn : Working(d)' <=> Working(d)
      /\ \A d \in Conn, k \in Kind : Marking(d, k)' <=> Marking(d, k)
  BY <1>3, <1>4 DEF Working, Marking
<1>8. Delivery'
  BY <1>1, <1>7 DEF NotifierInv, Delivery, LastIn, NoneIn, Pipe
<1>9. Settled'
  BY <1>1, <1>7 DEF NotifierInv, Settled
<1>10. Unreported'
  BY <1>1, <1>7 DEF NotifierInv, Unreported, NoneIn, Pipe, Fresh, Waiting, Commands
<1>11. QED
  BY <1>5, <1>6, <1>8, <1>9, <1>10 DEF NotifierInv

\* The report goes on once its first kind is dealt with: a status that stands
\* marked goes along, up to the end, where it is the connector's.
LEMMA AdvanceReports ==
    ASSUME Apart, NotifierInv, NEW t \in Callers, call[t].kinds # <<>>,
           call' = [call EXCEPT ![t] = Advanced(call[t])], status' = status, lost => lost',
           \A d \in Conn : d # call[t].conn => sent'[d] = sent[d],
           sent'[call[t].conn]["status"] \in {Head(call[t].path), "none"},
           ~lost' => sent'[call[t].conn]["status"] = Head(call[t].path)
    PROVE  /\ \A u \in Callers : Reporting(u)'
           /\ \A c \in Conn, k \in Kind :
                 c # call[t].conn => (Marking(c, k)' <=> Marking(c, k))
           /\ \A c \in Conn : ~Working(c)' =>
                 \/ ~Working(c)
                 \/ /\ sent'[c]["status"] \in {status[c], "none"}
                    /\ ~lost' => sent'[c]["status"] = status[c]
<1> DEFINE r == call[t]
           a == Advanced(r)
<1>0. Typed /\ \A u \in Callers : Reporting(u)
  BY DEF NotifierInv
<1>1. /\ r # Idle /\ r \in Report /\ r.conn \in Conn /\ r.path \in Seq(Status) /\ r.path # <<>>
      /\ r.kinds \in KindsLeft /\ r.kinds # <<>>
  BY <1>0, ReportFacts
<1>3. /\ a \in {Idle} \cup Report /\ a.marked = FALSE
      /\ a # Idle => a.path # <<>> /\ a.conn = r.conn
      /\ Len(r.kinds) > 1 => a # Idle /\ a.path = r.path /\ a.kinds = Tail(r.kinds)
      /\ ~(Len(r.kinds) > 1) /\ Len(r.path) > 1 =>
            a # Idle /\ a.path = Tail(r.path) /\ a.kinds = <<>>
      /\ ~(Len(r.kinds) > 1) /\ ~(Len(r.path) > 1) => a = Idle
  BY <1>1, AdvancedFacts
<1>3a. call'[t] = a /\ (a = Idle \/ a.conn = r.conn) /\ \A u \in Callers : u # t => call'[u] = call[u]
  BY <1>0, <1>3 DEF Typed
<1> HIDE DEF a
<1>2. /\ call'[t] = a /\ \A u \in Callers : u # t => call'[u] = call[u]
      /\ \A d \in Conn : d # r.conn => (Working(d)' <=> Working(d))
      /\ \A d \in Conn, k \in Kind : d # r.conn => (Marking(d, k)' <=> Marking(d, k))
  BY <1>1, <1>3a, OthersStay
<1>4. Last(r.path) = status[r.conn] /\ Last(r.path) = r.path[Len(r.path)]
  BY <1>0, <1>1 DEF Reporting, Last
<1>4a. \A u \in Callers : u # t => call[u].conn # r.conn
  BY <1>0, <1>1, AloneOn
<1>4b. ASSUME NEW u \in Callers, u # t PROVE Reporting(u)'
  BY <1>0, <1>1, <1>2, <1>4a, <1>4b, OthersReport
<1>5. Reporting(t)'
  <2>1. CASE Len(r.kinds) > 1
    <3>1. MarkedFor(t, "status")'
      BY <1>2, <1>3, <2>1 DEF MarkedFor
    <3>2. QED
      BY <1>2, <1>3, <1>4, <2>1, <3>1 DEF Reporting
  <2>2. CASE ~(Len(r.kinds) > 1) /\ Len(r.path) > 1
    <3>1. Last(Tail(r.path)) = status[r.conn]
      BY <1>1, <1>4, <2>2, TailFacts DEF Last
    <3>2. QED
      BY <1>2, <1>3, <2>2, <3>1 DEF Reporting
  <2>3. CASE ~(Len(r.kinds) > 1) /\ ~(Len(r.path) > 1)
    BY <1>2, <1>3, <2>3 DEF Reporting
  <2>4. QED
    BY <2>1, <2>2, <2>3
<1>7. ASSUME NEW c \in Conn, ~Working(c)', Working(c)
      PROVE  /\ sent'[c]["status"] \in {status[c], "none"}
             /\ ~lost' => sent'[c]["status"] = status[c]
  <2>1. c = r.conn
    BY <1>2, <1>7
  <2>2. a = Idle
    BY <1>2, <1>3, <1>7, <2>1 DEF Working
  <2>3. ~(Len(r.path) > 1)
    BY <1>3, <2>2
  <2>4. Head(r.path) = r.path[Len(r.path)]
    BY <1>1, <2>3, OnlyOne
  <2>5. Head(r.path) = status[c]
    BY <1>4, <2>1, <2>4
  <2>6. QED
    BY <2>1, <2>5
<1>8. QED
  BY <1>2, <1>4b, <1>5, <1>7

\* The status at hand stands marked while anything is reported after it.
LEMMA StatusMarked ==
    ASSUME Typed, NEW t \in Callers, Reporting(t), call[t].kinds # <<>>,
           call[t].marked \/ Head(call[t].kinds) # "status"
    PROVE  MarkedFor(t, "status")
BY ReportFacts DEF Reporting

LEMMA MarkStep ==
    ASSUME Apart, NotifierInv, NEW t \in Callers, MarkSent(t), Typed'
    PROVE  NotifierInv'
<1> DEFINE r == call[t]
           k == Head(r.kinds)
           s == Head(r.path)
<1>0. Typed /\ \A u \in Callers : Reporting(u)
  BY DEF NotifierInv
<1>1. /\ UNCHANGED <<status, code, commands, held, later, linkUp, csms, lost>>
      /\ r.kinds # <<>> /\ ~r.marked
      /\ r.conn \in Conn /\ k \in Kind /\ s \in Status /\ s # "none" /\ r \in Report
      /\ call \in [Callers -> {Idle} \cup Report] /\ "status" \in Kind /\ "status" \notin Faults
      /\ sent \in [Conn -> [Kind -> Status \cup {"none"}]]
  <2>1. r.kinds # <<>> /\ ~r.marked
    BY DEF MarkSent
  <2>2. r.conn \in Conn /\ k \in Kind /\ s \in Status /\ s # "none" /\ r \in Report
    BY <1>0, <2>1, ReportFacts, NotifierAssumption
  <2>3. QED
    BY <1>0, <2>1, <2>2, NotifierAssumption DEF MarkSent, engine, dispatcher, Typed, Kind
<1>2. r # Idle /\ \A j \in Kind : ~Marking(r.conn, j)
  BY <1>0, <1>1, ReportFacts, AloneOn
<1>3. ASSUME NEW c \in Conn, NEW j \in Kind, sent[c][j] # "none", c # r.conn => ~Marking(c, j)
      PROVE  \/ LastIn(Pipe, c, j, sent[c][j])
             \/ NoneIn(Pipe, c, j) /\ csms[c][j] = sent[c][j]
             \/ NoneIn(Pipe, c, j) /\ j = "status" /\ csms[c][j] = status[c]
  BY <1>2, <1>3 DEF NotifierInv, Delivery
<1>4. Pipe' = Pipe /\ \A c \in Conn : Fresh(c)' <=> Fresh(c)
  BY <1>1 DEF Pipe, Fresh, Waiting, Commands
<1>5. CASE Duplicate(r.conn, k, s)
  <2>1. sent' = sent /\ call' = [call EXCEPT ![t] = Advanced(call[t])] /\ sent[r.conn][k] = s
    BY <1>5 DEF MarkSent, Duplicate
  <2>2. /\ sent'[r.conn]["status"] \in {s, "none"}
        /\ ~lost' => sent'[r.conn]["status"] = s
    <3>1. CASE k = "status"
      BY <2>1, <3>1
    <3>2. CASE k # "status"
      <4>1. MarkedFor(t, "status")
        BY <1>0, <1>1, <3>2, StatusMarked
      <4>2. QED
        BY <1>1, <2>1, <4>1 DEF MarkedFor
    <3>3. QED
      BY <3>1, <3>2
  <2>3. /\ \A u \in Callers : Reporting(u)'
        /\ \A c \in Conn, j \in Kind : c # r.conn => (Marking(c, j)' <=> Marking(c, j))
        /\ \A c \in Conn : ~Working(c)' =>
                 \/ ~Working(c)
                 \/ /\ sent'[c]["status"] \in {status[c], "none"}
                    /\ ~lost' => sent'[c]["status"] = status[c]
    BY <1>1, <2>1, <2>2, AdvanceReports
  <2>4. Delivery'
    BY <1>1, <1>3, <1>4, <2>1, <2>3 DEF Delivery, LastIn, NoneIn
  <2>5. Settled'
    BY <1>1, <2>1, <2>3 DEF NotifierInv, Settled
  <2>6. Unreported'
    <3>1. SUFFICES ASSUME NEW c \in Conn, ~lost', sent'[c]["status"] = "none"
                   PROVE  /\ NoneIn(Pipe, c, "status")'
                          /\ ~Working(c)' /\ linkUp' => Fresh(c)'
      BY DEF Unreported
    <3>2. NoneIn(Pipe, c, "status") /\ (~Working(c) /\ linkUp => Fresh(c))
      BY <1>1, <2>1, <3>1 DEF NotifierInv, Unreported
    <3>3. status[c] # "none"
      BY <1>0, NotifierAssumption DEF Typed
    <3>4. ~Working(c)' => ~Working(c)
      BY <2>3, <3>1, <3>3
    <3>5. QED
      BY <1>1, <1>4, <3>2, <3>4 DEF NoneIn
  <2>7. QED
    BY <2>3, <2>4, <2>5, <2>6 DEF NotifierInv
<1>6. CASE ~Duplicate(r.conn, k, s)
  <2>1. /\ call' = [call EXCEPT ![t].marked = TRUE]
        /\ sent' = [sent EXCEPT ![r.conn] =
                    [j \in Kind |-> IF j = k THEN s
                                    ELSE IF {j, k} \subseteq Faults THEN "none" ELSE @[j]]]
    BY <1>6 DEF MarkSent
  <2>2. /\ call'[t].conn = r.conn /\ call'[t].path = r.path /\ call'[t].kinds = r.kinds
        /\ call'[t].marked = TRUE /\ call'[t] # Idle
        /\ \A u \in Callers : u # t => call'[u] = call[u]
    BY <1>1, <2>1, NotifierAssumption DEF Report, Idle, Reports
  <2>3. /\ sent'[r.conn][k] = s
        /\ \A c \in Conn, j \in Kind :
              ~(c = r.conn /\ j = k) => sent'[c][j] \in {sent[c][j], "none"}
        /\ \A c \in Conn : ~(c = r.conn /\ k = "status") => sent'[c]["status"] = sent[c]["status"]
        /\ \A c \in Conn : c # r.conn => sent'[c] = sent[c]
    BY <1>1, <2>1
  <2>4. Reporting(t)'
    <3>1. MarkedFor(t, k)'
      BY <2>2, <2>3 DEF MarkedFor
    <3>2. ASSUME k # "status" PROVE MarkedFor(t, "status")'
      <4>1. MarkedFor(t, "status")
        BY <1>0, <1>1, <3>2, StatusMarked
      <4>2. QED
        BY <1>1, <2>2, <2>3, <3>2, <4>1 DEF MarkedFor
    <3>3. Last(call[t].path) = status[call[t].conn]
      BY <1>0, <1>1, ReportFacts DEF Reporting
    <3>4. Last(call'[t].path) = status'[call'[t].conn]
      BY <1>1, <2>2, <3>3 DEF Last
    <3>5. call'[t].marked => MarkedFor(t, Head(call[t].kinds))'
      BY <2>2, <3>1 DEF MarkedFor
    <3>6. QED
      BY <2>2, <3>2, <3>4, <3>5 DEF Reporting
  <2>4a. ASSUME NEW u \in Callers, u # t PROVE Reporting(u)'
    <3>1. call[u].conn # r.conn
      BY <1>0, <1>2, <2>4a, AloneOn
    <3>2. QED
      BY <1>0, <1>1, <2>2, <2>3, <2>4a, <3>1, OthersReport
  <2>5. /\ \A c \in Conn : Working(c)' <=> Working(c)
        /\ \A c \in Conn, j \in Kind : c # r.conn => (Marking(c, j)' <=> Marking(c, j))
    BY <1>0, <2>2 DEF Working, Marking
  <2>6. Delivery'
    <3>1. SUFFICES ASSUME NEW c \in Conn, NEW j \in Kind, sent'[c][j] # "none", ~Marking(c, j)'
                   PROVE  \/ LastIn(Pipe', c, j, sent'[c][j])
                          \/ NoneIn(Pipe', c, j) /\ csms[c][j] = sent'[c][j]
                          \/ NoneIn(Pipe', c, j) /\ j = "status" /\ csms[c][j] = status[c]
      BY <1>1 DEF Delivery, LastIn, NoneIn
    <3>2. ~(c = r.conn /\ j = k)
      BY <2>2, <3>1 DEF Marking
    <3>3. sent'[c][j] = sent[c][j]
      BY <2>3, <3>1, <3>2
    <3>4. QED
      BY <1>3, <1>4, <2>5, <3>1, <3>3
  <2>7. Settled'
    <3>1. SUFFICES ASSUME NEW c \in Conn, ~Working(c)' PROVE sent'[c]["status"] \in {"none", status[c]}
      BY <1>1 DEF Settled
    <3>2. ~Working(c) /\ c # r.conn
      BY <2>5, <3>1 DEF Working
    <3>3. QED
      BY <2>3, <3>2 DEF NotifierInv, Settled
  <2>8. Unreported'
    <3>1. SUFFICES ASSUME NEW c \in Conn, ~lost', sent'[c]["status"] = "none"
                   PROVE  /\ NoneIn(Pipe, c, "status")'
                          /\ ~Working(c)' /\ linkUp' => Fresh(c)'
      BY DEF Unreported
    <3>2. sent[c]["status"] = "none"
      BY <1>1, <2>3, <3>1
    <3>3. NoneIn(Pipe, c, "status") /\ (~Working(c) /\ linkUp => Fresh(c))
      BY <1>1, <3>1, <3>2 DEF NotifierInv, Unreported
    <3>4. QED
      BY <1>1, <1>4, <2>5, <3>3 DEF NoneIn
  <2>9. QED
    BY <2>4, <2>4a, <2>6, <2>7, <2>8 DEF NotifierInv
<1>7. QED
  BY <1>5, <1>6

LEMMA EnqueueStatusStep ==
    ASSUME Apart, NotifierInv, NEW t \in Callers, EnqueueStatus(t), Typed'
    PROVE  NotifierInv'
<1> DEFINE r == call[t]
           k == Head(r.kinds)
           s == Head(r.path)
           cmd == Command(r.conn, k, s)
<1>0. Typed /\ \A u \in Callers : Reporting(u)
  BY DEF NotifierInv
<1>1. /\ UNCHANGED <<status, code, held, later, linkUp, csms>>
      /\ r.kinds # <<>> /\ r.marked
      /\ r.conn \in Conn /\ k \in Kind /\ s \in Status /\ s # "none"
      /\ "status" \in Kind /\ call' = [call EXCEPT ![t] = Advanced(call[t])]
  <2>1. r.marked /\ r.kinds # <<>>
    BY <1>0, ReportFacts DEF EnqueueStatus
  <2>2. r.conn \in Conn /\ k \in Kind /\ s \in Status /\ s # "none"
    BY <1>0, <2>1, ReportFacts, NotifierAssumption
  <2>3. QED
    BY <2>1, <2>2 DEF EnqueueStatus, engine, Kind
<1>2. /\ cmd \in Cmd /\ cmd.conn = r.conn /\ cmd.kind = k /\ cmd.status = s
      /\ \A c, j : About(cmd, c, j) <=> (c = r.conn /\ j = k)
  BY <1>1, CommandTyped DEF Command, About
<1> HIDE DEF cmd
<1>3. /\ MarkedFor(t, "status")
      /\ sent[r.conn][k] \in {s, "none"} /\ (~lost => sent[r.conn][k] = s)
  <2>1. MarkedFor(t, "status")
    BY <1>0, <1>1, StatusMarked
  <2>2. r # Idle
    BY <1>0, <1>1, ReportFacts
  <2>3. MarkedFor(t, k)
    BY <1>0, <1>1, <2>2 DEF Reporting
  <2>4. QED
    BY <2>1, <2>3 DEF MarkedFor
<1>4. ASSUME NEW c \in Conn, NEW j \in Kind, sent[c][j] # "none", ~(c = r.conn /\ j = k),
             c # r.conn => ~Marking(c, j)
      PROVE  \/ LastIn(Pipe, c, j, sent[c][j])
             \/ NoneIn(Pipe, c, j) /\ csms[c][j] = sent[c][j]
             \/ NoneIn(Pipe, c, j) /\ j = "status" /\ csms[c][j] = status[c]
  <2>1. ~Marking(c, j)
    BY <1>0, <1>1, <1>4, ReportFacts, AloneOn
  <2>2. QED
    BY <1>4, <2>1 DEF NotifierInv, Delivery
<1>5. CASE Room(commands, 1)
  <2>1. /\ commands' = Append(commands, cmd) /\ sent' = sent /\ lost' = lost
    BY <1>5 DEF EnqueueStatus, cmd
  <2>2. Pipe' = Append(Pipe, cmd) /\ Pipe \in Seq(Cmd)
    BY <1>0, <1>1, <1>2, <2>1, PipeAppend, PipeFacts
  <2>3. /\ \A u \in Callers : Reporting(u)'
        /\ \A c \in Conn, j \in Kind : c # r.conn => (Marking(c, j)' <=> Marking(c, j))
        /\ \A c \in Conn : ~Working(c)' =>
                 \/ ~Working(c)
                 \/ /\ sent'[c]["status"] \in {status[c], "none"}
                    /\ ~lost' => sent'[c]["status"] = status[c]
    <3>1. /\ sent'[r.conn]["status"] \in {s, "none"}
          /\ ~lost' => sent'[r.conn]["status"] = s
      BY <1>3, <2>1 DEF MarkedFor
    <3>2. QED
      BY <1>1, <2>1, <3>1, AdvanceReports
  <2>4. Delivery'
    <3>1. SUFFICES ASSUME NEW c \in Conn, NEW j \in Kind, sent[c][j] # "none", ~Marking(c, j)'
                   PROVE  \/ LastIn(Pipe', c, j, sent[c][j])
                          \/ NoneIn(Pipe', c, j) /\ csms[c][j] = sent[c][j]
                          \/ NoneIn(Pipe', c, j) /\ j = "status" /\ csms[c][j] = status[c]
      BY <1>1, <2>1 DEF Delivery, LastIn, NoneIn
    <3>2. CASE c = r.conn /\ j = k
      <4>1. LastIn(Append(Pipe, cmd), c, j, cmd.status)
        BY <1>2, <2>2, <3>2, AppendLast
      <4>2. sent[c][j] = cmd.status
        BY <1>2, <1>3, <3>1, <3>2
      <4>3. QED
        BY <2>2, <4>1, <4>2
    <3>3. CASE ~(c = r.conn /\ j = k)
      <4>1. /\ NoneIn(Pipe, c, j) => NoneIn(Append(Pipe, cmd), c, j)
            /\ LastIn(Pipe, c, j, sent[c][j]) => LastIn(Append(Pipe, cmd), c, j, sent[c][j])
        BY <1>2, <2>2, <3>3, AppendLast
      <4>2. QED
        BY <1>4, <2>2, <2>3, <3>1, <3>3, <4>1
    <3>4. QED
      BY <3>2, <3>3
  <2>5. Settled'
    BY <1>1, <2>1, <2>3 DEF NotifierInv, Settled
  <2>6. Unreported'
    <3>1. SUFFICES ASSUME NEW c \in Conn, ~lost, sent[c]["status"] = "none"
                   PROVE  /\ NoneIn(Pipe', c, "status")
                          /\ ~Working(c)' /\ linkUp => Fresh(c)'
      BY <1>1, <2>1 DEF Unreported, NoneIn
    <3>2. NoneIn(Pipe, c, "status") /\ (~Working(c) /\ linkUp => Fresh(c))
      BY <3>1 DEF NotifierInv, Unreported
    <3>3. ~(c = r.conn /\ "status" = k)
      BY <1>1, <1>3, <3>1
    <3>4. NoneIn(Append(Pipe, cmd), c, "status")
      BY <1>2, <2>2, <3>2, <3>3, AppendLast
    <3>5. ~Working(c)' => ~Working(c)
      <4>1. status[c] # "none"
        BY <1>0, NotifierAssumption DEF Typed
      <4>2. QED
        BY <2>1, <2>3, <3>1, <4>1
    <3>6. Fresh(c) => Fresh(c)'
      <4>1. <<cmd>> \in Seq(Cmd) /\ commands' = commands \o <<cmd>>
        BY <1>0, <1>2, <2>1, PipeFacts, AppendIsConcat
      <4>2. \A i \in 1..Len(commands) : commands[i] \in Waiting'
        BY <1>0, <4>1, JoinWaits DEF Waiting
      <4>3. \A l \in later : l.cmd \in Waiting'
        BY <1>1 DEF Waiting
      <4>4. QED
        BY <1>0, <1>1, <4>2, <4>3, HeldWaits, StillFresh
    <3>7. QED
      BY <2>2, <3>2, <3>4, <3>5, <3>6
  <2>7. QED
    BY <2>3, <2>4, <2>5, <2>6 DEF NotifierInv
<1>6. CASE ~Room(commands, 1)
  <2>1. commands' = commands /\ lost' = TRUE /\ sent' = Unmarked(r.conn, k, s)
    BY <1>2, <1>6 DEF EnqueueStatus, cmd
  <2>2. /\ \A c \in Conn, j \in Kind :
              /\ sent'[c][j] \in {sent[c][j], "none"}
              /\ c = r.conn /\ j = k /\ sent[c][j] = s => sent'[c][j] = "none"
        /\ \A c \in Conn : c # r.conn => sent'[c] = sent[c]
    <3>1. sent \in [Conn -> [Kind -> Status \cup {"none"}]]
      BY <1>0 DEF Typed
    <3>2. \A c \in Conn : c # r.conn => sent'[c] = sent[c]
      <4>1. CASE sent[r.conn][k] = s
        BY <1>1, <2>1, <3>1, <4>1 DEF Unmarked
      <4>2. CASE sent[r.conn][k] # s
        BY <2>1, <4>2 DEF Unmarked
      <4>3. QED
        BY <4>1, <4>2
    <3>3. QED
      BY <1>0, <1>1, <2>1, <3>2, UnmarkedFacts
  <2>3. /\ \A u \in Callers : Reporting(u)'
        /\ \A c \in Conn, j \in Kind : c # r.conn => (Marking(c, j)' <=> Marking(c, j))
        /\ \A c \in Conn : ~Working(c)' =>
                 \/ ~Working(c)
                 \/ sent'[c]["status"] \in {status[c], "none"}
    <3>1. /\ sent'[r.conn]["status"] \in {s, "none"}
          /\ ~lost' => sent'[r.conn]["status"] = s
      BY <1>1, <1>3, <2>1, <2>2 DEF MarkedFor
    <3>2. QED
      BY <1>1, <2>1, <2>2, <3>1, AdvanceReports
  <2>4. Delivery'
    <3>1. SUFFICES ASSUME NEW c \in Conn, NEW j \in Kind, sent'[c][j] # "none", ~Marking(c, j)'
                   PROVE  \/ LastIn(Pipe, c, j, sent'[c][j])
                          \/ NoneIn(Pipe, c, j) /\ csms[c][j] = sent'[c][j]
                          \/ NoneIn(Pipe, c, j) /\ j = "status" /\ csms[c][j] = status[c]
      BY <1>1, <2>1 DEF Delivery, LastIn, NoneIn, Pipe
    <3>2. sent'[c][j] = sent[c][j] /\ ~(c = r.conn /\ j = k)
      BY <1>3, <2>2, <3>1
    <3>3. QED
      BY <1>4, <2>3, <3>1, <3>2
  <2>5. Settled'
    <3>1. SUFFICES ASSUME NEW c \in Conn, ~Working(c)' PROVE sent'[c]["status"] \in {"none", status[c]}
      BY <1>1 DEF Settled
    <3>2. CASE ~Working(c)
      BY <1>1, <2>2, <3>2 DEF NotifierInv, Settled
    <3>3. QED
      BY <2>3, <3>1, <3>2
  <2>6. Unreported'
    BY <2>1 DEF Unreported
  <2>7. QED
    BY <2>3, <2>4, <2>5, <2>6 DEF NotifierInv
<1>7. QED
  BY <1>5, <1>6

-----------------------------------------------------------------------------
(* The invariant.                                                          *)

LEMMA InitNotifier == Init => NotifierInv
<1> SUFFICES ASSUME Init PROVE NotifierInv
  OBVIOUS
<1>1. Typed
  BY TypedInit
<1>2. Pipe = <<>>
  BY DEF Init, Pipe
<1>3. Len(Pipe) = 0
  BY <1>2
<1>4. \A c \in Conn, k \in Kind : sent[c][k] = "none"
  BY DEF Init
<1>5. \A t \in Callers : Reporting(t)
  BY DEF Init, Reporting
<1>6. Delivery
  BY <1>4 DEF Delivery
<1>7. Settled
  BY <1>4 DEF Settled, Kind
<1>8. Unreported
  BY <1>3 DEF Unreported, NoneIn, Init
<1>9. QED
  BY <1>1, <1>5, <1>6, <1>7, <1>8 DEF NotifierInv

LEMMA NextNotifier == NotifierInv /\ Apart /\ Apart' /\ [Next]_vars => NotifierInv'
<1> SUFFICES ASSUME Apart, Apart', NotifierInv, [Next]_vars PROVE NotifierInv'
  OBVIOUS
<1>1. Typed'
  BY TypedStep DEF NotifierInv
<1>2. CASE UNCHANGED vars
  <2>1. UNCHANGED <<status, call, sent, commands, held, later, linkUp, csms, lost>>
    BY <1>2 DEF vars, engine, dispatcher
  <2>2. commands' = commands \o <<>> /\ <<>> \in Seq(Ask)
    BY <2>1, PipeFacts, ConcatEmptySeq DEF NotifierInv
  <2>3. \A c \in Conn : Fresh(c)' <=> Fresh(c)
    BY <2>1 DEF Fresh, Waiting, Commands
  <2>4. QED
    BY <1>1, <2>1, <2>2, <2>3, JoinStep
<1>3. ASSUME NEW t \in Callers, Notify(t) PROVE NotifierInv'
  BY <1>1, <1>3, BeginStep, MarkStep, EnqueueStatusStep DEF Notify
<1>4. ASSUME NEW t \in Callers, NEW c \in Conn, NEW path \in Path, NEW fault \in Faults \cup {"NoError"},
             ChangeStatus(t, c, path, fault)
      PROVE  NotifierInv'
  BY <1>1, <1>4, ChangeStep
<1>5. ASSUME NEW l \in later, TimerFires(l) PROVE NotifierInv'
  BY <1>1, <1>5, TimerStep
<1>6. CASE Take
  BY <1>1, <1>6, TakeStep
<1>7. CASE Execute
  BY <1>1, <1>7, SendStep, SendFailsStep, BootStep DEF Execute
<1>8. CASE Disconnect
  BY <1>1, <1>8, DisconnectStep
<1>9. CASE Connect \/ \E cmd \in {Boot} \cup {Resync(c) : c \in Conn} : OnTriggerMessage(cmd)
  BY <1>1, <1>9, ConnectStep
<1>10. QED
  BY <1>2, <1>3, <1>4, <1>5, <1>6, <1>7, <1>8, <1>9 DEF Next

LEMMA InvariantApart == Spec /\ []Apart => []NotifierInv
BY InitNotifier, NextNotifier, PTL DEF Spec

\* newConnectorStatusChangedCallback suppresses a status it has marked as sent
\* (cmd/chargeghost/callbacks.go): in every behaviour in which no two goroutines
\* report the same connector at once, whatever is dropped, fails or waits for the
\* link, a marked status with nothing about it under way is the one the CSMS
\* received last.
THEOREM MarkIsDeliveredApart == Spec /\ []Apart => []MarkIsDelivered
<1>1. NotifierInv => MarkIsDelivered
  <2>1. SUFFICES ASSUME NotifierInv, NEW c \in Conn, NEW k \in Kind, sent[c][k] # "none", ~Working(c),
                        \A cmd \in Commands : cmd.conn = c => cmd.kind # k
                 PROVE  csms[c][k] = sent[c][k]
    BY DEF MarkIsDelivered
  <2>2. \A i \in 1..Len(Pipe) : Pipe[i] \in Commands
    <3>1. commands \in Seq(Cmd) /\ held \in Seq(Cmd)
      BY <2>1, PipeFacts DEF NotifierInv
    <3>2. /\ Len(commands) \in Nat /\ Len(held) \in Nat /\ Len(Pipe) = Len(held) + Len(commands)
          /\ \A i \in 1..(Len(held) + Len(commands)) :
                Pipe[i] = IF i <= Len(held) THEN held[i] ELSE commands[i - Len(held)]
      BY <3>1, ConcatProperties, LenProperties DEF Pipe
    <3>3. ASSUME NEW i \in 1..Len(Pipe) PROVE Pipe[i] \in Commands
      <4>1. CASE i <= Len(held)
        BY <3>1, <3>2, <4>1 DEF Commands
      <4>2. CASE ~(i <= Len(held))
        <5>1. i - Len(held) \in DOMAIN commands /\ Pipe[i] = commands[i - Len(held)]
          BY <3>1, <3>2, <4>2
        <5>2. QED
          BY <5>1 DEF Commands
      <4>3. QED
        BY <4>1, <4>2
    <3>4. QED
      BY <3>3
  <2>3. NoneIn(Pipe, c, k) /\ ~LastIn(Pipe, c, k, sent[c][k])
    BY <2>1, <2>2 DEF NoneIn, LastIn, About
  <2>4. ~Marking(c, k)
    BY <2>1 DEF Marking, Working
  <2>5. csms[c][k] = sent[c][k] \/ (k = "status" /\ csms[c][k] = status[c])
    BY <2>1, <2>3, <2>4 DEF NotifierInv, Delivery
  <2>6. k = "status" => sent[c][k] = status[c]
    BY <2>1 DEF NotifierInv, Settled
  <2>7. QED
    BY <2>5, <2>6
<1>2. QED
  BY <1>1, InvariantApart, PTL

\* SendBootNotification and the dispatcher (internal/ocpp/v16/senders.go,
\* internal/ocpp/command.go): under the same proviso the CSMS knows every status
\* once nothing is left to do, if nothing was dropped and no send failed.
THEOREM ConvergedApart == Spec /\ []Apart => []Converged
<1>1. NotifierInv => Converged
  <2>1. SUFFICES ASSUME NotifierInv, Quiet, ~lost, NEW c \in Conn
                 PROVE  csms[c]["status"] = status[c]
    BY DEF Converged
  <2>2. Waiting = {} /\ linkUp /\ "status" \in Kind
    BY <2>1 DEF Quiet, Waiting, Kind
  <2>3. Len(Pipe) = 0
    <3>1. DOMAIN commands = {} /\ DOMAIN held = {}
      BY <2>2 DEF Waiting, Commands
    <3>2. commands \in Seq(Cmd) /\ held \in Seq(Cmd)
      BY <2>1, PipeFacts DEF NotifierInv
    <3>3. Len(commands) = 0 /\ Len(held) = 0
      BY <3>1, <3>2, LenProperties
    <3>4. QED
      BY <3>2, <3>3, ConcatProperties DEF Pipe
  <2>4. \A t \in Callers : call[t].conn # c /\ ~call[t].marked
    BY <2>1, ReportFacts DEF Quiet, NotifierInv
  <2>5. ~Working(c) /\ ~Marking(c, "status")
    BY <2>4 DEF Working, Marking
  <2>6. CASE sent[c]["status"] = "none"
    BY <2>1, <2>2, <2>5, <2>6 DEF NotifierInv, Unreported, Fresh
  <2>7. CASE sent[c]["status"] # "none"
    <3>1. csms[c]["status"] = sent[c]["status"] \/ csms[c]["status"] = status[c]
      BY <2>1, <2>2, <2>3, <2>5, <2>7 DEF NotifierInv, Delivery, LastIn
    <3>2. sent[c]["status"] = status[c]
      BY <2>1, <2>5, <2>7 DEF NotifierInv, Settled
    <3>3. QED
      BY <3>1, <3>2
  <2>8. QED
    BY <2>6, <2>7
<1>2. QED
  BY <1>1, InvariantApart, PTL
=============================================================================
