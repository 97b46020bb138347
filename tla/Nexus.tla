------------------------------- MODULE Nexus --------------------------------
(***************************************************************************)
(* The Nexus server as main.run builds it: the preferences store, the      *)
(* request handlers that change it and the poller that reads its pin at    *)
(* the start of every tick, in one process.                                *)
(***************************************************************************)
EXTENDS Preferences, Poller

CONSTANTS MaxRequests,  \* bound: PUT requests
          MaxRestarts   \* bound: restarts of the process

VARIABLES served,       \* PUT requests and restarts so far
          late          \* ticks that ended on another match since the pin moved

vars == <<prefVars, pollVars, served, late>>

TypeOK ==
  /\ PrefTypeOK
  /\ PollTypeOK
  /\ late \in 0 .. 2

Init ==
  /\ PrefInit
  /\ PollInit
  /\ served = [put |-> 0, restart |-> 0]
  /\ late = 0

(* A request is served while the poller's tick is wherever it is.          *)
NewRequest(h) ==
  /\ served.put < MaxRequests
  /\ Request(h)
  /\ served' = [served EXCEPT !.put = @ + 1]
  /\ UNCHANGED pollVars
  /\ UNCHANGED late

Serve(h) ==
  /\ Handler(h)
  /\ late' = IF Pinned' # Pinned THEN 0 ELSE late
  /\ UNCHANGED pollVars
  /\ UNCHANGED served

(* A tick that polled a match ends although another one is pinned.         *)
Late == tick.match \notin {Null, Pinned} /\ tick'.pc = "sleep" /\ Pinned # Null

Count(n) == IF Late /\ n < 2 THEN n + 1 ELSE n

PollStep ==
  /\ Poll(Pinned)
  /\ late' = Count(late)
  /\ UNCHANGED prefVars
  /\ UNCHANGED served

PollFault ==
  /\ Faults
  /\ late' = Count(late)
  /\ UNCHANGED prefVars
  /\ UNCHANGED served

World ==
  /\ Upstream
  /\ UNCHANGED prefVars
  /\ UNCHANGED <<served, late>>

Restart ==
  /\ served.restart < MaxRestarts
  /\ PrefRestart
  /\ PollRestart
  /\ served' = [served EXCEPT !.restart = @ + 1]
  /\ late' = 0

Next ==
  \/ \E h \in Requests : NewRequest(h) \/ Serve(h)
  \/ PollStep
  \/ PollFault
  \/ World
  \/ Restart

(* The loop never ends and sleeps a finite time after every tick; a thread *)
(* that serves a request runs to its reply.                                *)
Spec ==
  /\ Init /\ [][Next]_vars
  /\ WF_vars(PollStep)
  /\ \A h \in Requests : WF_vars(Serve(h))

-----------------------------------------------------------------------------
(* Once the pin has moved, at most one tick (the one that had already read *)
(* it) still ends on another match, whichever adapter keeps it: a JSON     *)
(* file that does not parse for a moment reads as a pin that moves twice.  *)
OneLateTick == late <= 1

(* A pin that stays is shown: once requests and upstream faults cease, the *)
(* board comes to the pinned match and stays there, fresh.                 *)
PinTakesEffect ==
  \A m \in Matches :
    (source = "live" /\ <>[](Pinned = m))
      => <>[](state.match = m /\ ~state.stale)
=============================================================================
