------------------------------- MODULE Outbox -------------------------------
(***************************************************************************)
(* What a durable transaction queue promises, whatever its retry policy    *)
(* and however often the station restarts: a record leaves the queue only  *)
(* after it reached the CSMS or was put in dead-letter storage, "never     *)
(* silently dropped" (deadLetter, internal/ocpp/v16/bridge.go).  Delivery  *)
(* is at least once: a record may reach the CSMS again before it leaves.   *)
(***************************************************************************)
CONSTANT Key                             \* names of records

VARIABLES pending, delivered, buried     \* sets of keys

outboxVars == <<pending, delivered, buried>>

Init == pending = {} /\ delivered = {} /\ buried = {}

\* A record is queued, for the first time or anew by a restarted station.
Put(k) ==
    /\ k \notin pending
    /\ pending' = pending \cup {k}
    /\ UNCHANGED <<delivered, buried>>

\* The CSMS receives a queued record.
Deliver(k) ==
    /\ k \in pending
    /\ delivered' = delivered \cup {k}
    /\ UNCHANGED <<pending, buried>>

\* A delivered record leaves the queue.
Retire(k) ==
    /\ k \in pending \cap delivered
    /\ pending' = pending \ {k}
    /\ UNCHANGED <<delivered, buried>>

\* A record goes to dead-letter storage; another copy of it may stay queued.
Bury(k) ==
    /\ k \in pending
    /\ pending' \in {pending, pending \ {k}}
    /\ buried' = buried \cup {k}
    /\ UNCHANGED delivered

Next == \E k \in Key : Put(k) \/ Deliver(k) \/ Retire(k) \/ Bury(k)

Spec == Init /\ [][Next]_outboxVars
=============================================================================
