----------------------------- MODULE TaskQueue -----------------------------
(***************************************************************************)
(* What the Agent Relay promises its senders and workers (SPEC.md, 1 to 6),*)
(* without tables, attempt rows, clocks or retries: a task waits, is handed *)
(* to one worker at a time, and gets one result that never changes.  Module *)
(* Relay implements it.                                                     *)
(***************************************************************************)
EXTENDS Naturals

CONSTANTS Tasks,     \* task ids
          Outcomes,  \* results a worker may submit
          GivenUp,   \* the result of a task the relay gave up
          Nothing    \* no result

VARIABLES phase,       \* where each task stands
          deliveries,  \* how often it was handed out
          result,      \* what its sender reads
          told         \* results workers were told are stored

vars == <<phase, deliveries, result, told>>

Phases == {"absent", "waiting", "held", "lapsed", "done"}

In(p) == {t \in Tasks : phase[t] = p}

Init ==
  /\ phase = [t \in Tasks |-> "absent"]
  /\ deliveries = [t \in Tasks |-> 0]
  /\ result = [t \in Tasks |-> Nothing]
  /\ told = {}

Create(t) ==
  /\ phase[t] = "absent"
  /\ phase' = [phase EXCEPT ![t] = "waiting"]
  /\ UNCHANGED <<deliveries, result, told>>

(* Leases run out, of any number of tasks at the same instant.             *)
Lapse(S) ==
  /\ phase' = [t \in Tasks |-> IF t \in S THEN "lapsed" ELSE phase[t]]
  /\ UNCHANGED <<deliveries, result, told>>

(* Every lapsed task goes back to wait, except that tasks handed out before *)
(* may be given up.                                                         *)
MayGiveUp == {t \in In("waiting") \union In("lapsed") : deliveries[t] > 0}

Swept(G) ==
  [t \in Tasks |-> IF t \in G THEN "done"
                  ELSE IF phase[t] = "lapsed" THEN "waiting" ELSE phase[t]]

Abandoned(G) == [t \in Tasks |-> IF t \in G THEN GivenUp ELSE result[t]]

Sweep(G) ==
  /\ phase' = Swept(G)
  /\ result' = Abandoned(G)
  /\ UNCHANGED <<deliveries, told>>

(* A waiting task, possibly one just swept, is handed to a worker.         *)
HandOut(G, t) ==
  /\ Swept(G)[t] = "waiting"
  /\ phase' = [Swept(G) EXCEPT ![t] = "held"]
  /\ result' = Abandoned(G)
  /\ deliveries' = [deliveries EXCEPT ![t] = @ + 1]
  /\ UNCHANGED told

(* The worker learns that its result is stored, or never hears of it.      *)
Tell(t, o) == told' \in {told, told \union {<<t, o>>}}

Settle(t, o) ==
  /\ phase[t] = "held"
  /\ phase' = [phase EXCEPT ![t] = "done"]
  /\ result' = [result EXCEPT ![t] = o]
  /\ Tell(t, o)
  /\ UNCHANGED deliveries

Repeat(t, o) ==
  /\ phase[t] = "done"
  /\ result[t] = o
  /\ Tell(t, o)
  /\ UNCHANGED <<phase, deliveries, result>>

Next ==
  \/ \E t \in Tasks : Create(t)
  \/ \E S \in SUBSET In("held") : Lapse(S)
  \/ \E G \in SUBSET MayGiveUp :
       Sweep(G) \/ \E t \in Tasks : HandOut(G, t)
  \/ \E t \in Tasks, o \in Outcomes : Settle(t, o) \/ Repeat(t, o)

Spec == Init /\ [][Next]_vars
=============================================================================
