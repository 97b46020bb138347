------------------------------- MODULE Poller -------------------------------
(***************************************************************************)
(* The Nexus live-match poller (homework_2/backend: poller.py, state.py,   *)
(* riot/client.py, riot/normalize.py).  One task runs tick after tick; a   *)
(* tick awaits up to three upstream answers and between them anything may  *)
(* happen: a request moves the pin, a game ends, the next one starts.      *)
(*                                                                         *)
(* The upstream service is external: Games, their objectives and the feed. *)
(* Time is the feed's time (rfc460Timestamp), counted in ticks, and a      *)
(* frame shows the game as it is at its timestamp.  Of the two objectives  *)
(* that respawn, dragon and baron, which the code treats alike, one is     *)
(* kept.  A frame also carries what the code cannot see: when its game     *)
(* started and when the objective spawns next (start, spawn).              *)
(***************************************************************************)
EXTENDS NexusNames, Integers, Sequences

CONSTANTS Numbers,       \* game numbers of a match
          FirstSpawn,    \* DRAGON_FIRST_SPAWN_SECONDS, in ticks of the feed
          Respawn,       \* DRAGON_RESPAWN_SECONDS
          Replayed,      \* the match of the replay file
          Recording,     \* frames of the replay file, oldest first
          MaxTime,       \* bound: feed time
          MaxKills,      \* bound: objectives taken in a game
          MaxFaults      \* bound: upstream answers that fail or lack fields

ASSUME SpawnTimes == FirstSpawn \in Nat \ {0} /\ Respawn \in Nat \ {0}

ASSUME NullIsNothing ==
  /\ Null \notin Nat
  /\ Null \notin Matches \union {Replayed}
  /\ Null \notin Numbers
  /\ Null \notin Matches \X Numbers

(* The replay file was recorded from one game: its clock and its count of  *)
(* objectives only grow, and an objective is back when the rules say.      *)
ASSUME RecordingIsOneGame ==
  /\ Recording \in Seq([ts : Nat, kills : Nat, start : Nat, spawn : Nat,
                        lacks : {"nothing", "teams", "timestamp", "side"}])
  /\ Recording # <<>>
  /\ \A i \in DOMAIN Recording :
       LET f == Recording[i]
       IN  /\ f.start <= f.ts
           /\ f.kills = 0 => f.spawn = f.start + FirstSpawn
           /\ f.kills > 0 => f.spawn <= f.ts + Respawn
           /\ i > 1 =>
                LET e == Recording[i - 1]
                IN  /\ e.start = f.start /\ e.ts <= f.ts /\ e.kills <= f.kills
                    /\ e.kills = f.kills => e.spawn = f.spawn

VARIABLES source,        \* POLL_SOURCE
          now, games,    \* the feed's time and the games upstream
          faults,        \* faulty answers so far
          state,         \* AppState: the object readers of /api/state get
          errors,        \* Poller._consecutive_errors
          gameKey,       \* Poller._game_key
          context,       \* Poller._context
          index,         \* Poller._replay_index
          tick           \* the tick in progress

Time == 0 .. MaxTime
GameKey == Matches \X Numbers
ReplayKey == <<Replayed, 1>>

Game == [start : Time \union {Null}, end : Time \union {Null},
         kills : 0 .. MaxKills, spawn : Nat]

Unstarted == [start |-> Null, end |-> Null, kills |-> 0, spawn |-> 0]

IdleState ==
  [status |-> "idle", stale |-> FALSE, match |-> Null, game |-> Null,
   timer |-> Null, due |-> 0]

(* GameContext, for one objective.                                         *)
NewContext ==
  [key |-> Null, start |-> Null, total |-> Null, kill |-> Null]

Resting == [pc |-> "sleep", match |-> Null, game |-> Null]

PollTypeOK ==
  /\ source \in {"live", "replay"}
  /\ now \in Time
  /\ games \in [GameKey -> Game]
  /\ faults \in 0 .. MaxFaults
  /\ state.status \in {"idle", "between_games", "live"}
  /\ state.match \in Matches \union {Null, Replayed}
  /\ state.game \in Numbers \union {Null}
  /\ (state.status = "idle") = (state.match = Null)
  /\ (state.status = "live") = (state.game # Null)
  /\ errors \in 0 .. MaxFaults
  /\ gameKey \in GameKey \union {Null}
  /\ context.key \in GameKey \union {Null, ReplayKey}
  /\ index \in 1 .. Len(Recording)
  /\ tick.pc \in {"sleep", "getLive", "getEventDetails", "getWindow"}
  /\ tick.match \in Matches \union {Null}
  /\ tick.game \in Numbers \union {Null}

PollInit ==
  /\ source \in {"live", "replay"}
  /\ now = 0
  /\ games = [k \in GameKey |-> Unstarted]
  /\ faults = 0
  /\ state = IdleState
  /\ errors = 0
  /\ gameKey = Null
  /\ context = NewContext
  /\ index = 1
  /\ tick = Resting

-----------------------------------------------------------------------------
(* The upstream service.                                                   *)
InProgress(k) == games[k].start # Null /\ games[k].end = Null

LiveNumbers(m) == {n \in Numbers : InProgress(<<m, n>>)}

Over(m) == \A n \in Numbers : games[<<m, n>>].end # Null

upstreamOnly == <<source, faults, state, errors, gameKey, context, index, tick>>

PassTime ==
  /\ now < MaxTime
  /\ now' = now + 1
  /\ UNCHANGED games
  /\ UNCHANGED upstreamOnly

StartGame(m, n) ==
  /\ games[<<m, n>>].start = Null
  /\ \A k \in Numbers : k < n => games[<<m, k>>].end # Null
  /\ games' = [games EXCEPT ![<<m, n>>].start = now,
                            ![<<m, n>>].spawn = now + FirstSpawn]
  /\ UNCHANGED now
  /\ UNCHANGED upstreamOnly

TakeObjective(k) ==
  /\ InProgress(k)
  /\ games[k].kills < MaxKills
  /\ now >= games[k].spawn
  /\ games' = [games EXCEPT ![k].kills = @ + 1, ![k].spawn = now + Respawn]
  /\ UNCHANGED now
  /\ UNCHANGED upstreamOnly

EndGame(k) ==
  /\ InProgress(k)
  /\ games' = [games EXCEPT ![k].end = now]
  /\ UNCHANGED now
  /\ UNCHANGED upstreamOnly

(* A replay asks nothing of it.                                            *)
Upstream ==
  /\ source = "live"
  /\ \/ PassTime
     \/ \E k \in GameKey :
          StartGame(k[1], k[2]) \/ TakeObjective(k) \/ EndGame(k)

(* What the window feed's last inner frame says of a game; once the game   *)
(* has ended the feed repeats its last frame.                              *)
FrameOf(k) ==
  LET g == games[k]
  IN  [ts |-> IF g.end = Null THEN now ELSE g.end,
       kills |-> g.kills, start |-> g.start, spawn |-> g.spawn]

Faulty == faults < MaxFaults /\ faults' = faults + 1

-----------------------------------------------------------------------------
(* normalize.py                                                            *)

(* GameContext.reset on a new key; then the anchor is the first frame.     *)
Anchored(ctx, key, ts) ==
  LET c == IF ctx.key = key THEN ctx ELSE [NewContext EXCEPT !.key = key]
  IN  [c EXCEPT !.start = IF @ = Null THEN ts ELSE @]

Clock(ctx, ts) == IF ts < ctx.start THEN 0 ELSE ts - ctx.start

(* _objective_timers: what the total objectives taken adds to the context. *)
Counted(ctx, total, ts) ==
  [ctx EXCEPT
     !.total = total,
     !.kill = IF ctx.total = Null \/ total = ctx.total THEN @
              ELSE IF total > ctx.total THEN ts ELSE Null]

(* Definitions marked "Slip" are changes a later edit could make to the    *)
(* code.  Nothing uses them: they show which property notices which slip.  *)
(* Slip: the tick in which the objective fell is counted as elapsed.       *)
CountdownShort(kill, ts, interval) ==
  IF kill # Null /\ interval - (ts - kill) > 1 THEN interval - (ts - kill) - 1
  ELSE Null

Countdown(kill, ts, interval) ==
  IF kill # Null /\ interval - (ts - kill) > 0 THEN interval - (ts - kill)
  ELSE Null

Timer(ctx, ts) ==
  IF ctx.kill = Null /\ ctx.total = 0 /\ Clock(ctx, ts) < FirstSpawn
  THEN FirstSpawn - Clock(ctx, ts)
  ELSE Countdown(ctx.kill, ts, Respawn)

(* normalize_window on a frame of game k and build_state: a frame without  *)
(* its timestamp has no clock and no timer, one that lacks a side or its   *)
(* counts has no timer.                                                    *)
Live(k, ctx, f, lacks) ==
  [status |-> "live", stale |-> FALSE, match |-> k[1], game |-> k[2],
   timer |-> IF lacks = "nothing" THEN Timer(ctx, f.ts) ELSE Null,
   due |-> f.spawn - f.ts]

Normalized(ctx, k, f, lacks) ==
  CASE lacks = "timestamp" ->
         IF ctx.key = k THEN ctx ELSE [NewContext EXCEPT !.key = k]
    [] lacks = "side" -> Anchored(ctx, k, f.ts)
    [] lacks = "nothing" -> Counted(Anchored(ctx, k, f.ts), f.kills, f.ts)

BetweenGames(m) == [IdleState EXCEPT !.status = "between_games", !.match = m]

-----------------------------------------------------------------------------
(* Ends of a tick.                                                         *)
Succeed(s) ==
  /\ errors' = 0
  /\ state' = s
  /\ tick' = Resting

(* Slip: a feed gap resets the backoff and leaves the board marked stale.  *)
KeepMarked == errors' = 0 /\ tick' = Resting /\ UNCHANGED state

Keep ==
  /\ errors' = 0
  /\ state' = [state EXCEPT !.stale = FALSE]
  /\ tick' = Resting

Fail ==
  /\ errors' = errors + 1
  /\ state' = [state EXCEPT !.stale = TRUE]
  /\ tick' = Resting

upstream == <<source, now, games, index>>

(* Slip: the pin is read once and then kept for the ticks that follow.     *)
WakePinned(pin) ==
  /\ source = "live"
  /\ tick.pc = "sleep"
  /\ tick' = LET m == IF state.match # Null THEN state.match ELSE pin
             IN  IF m = Null THEN [Resting EXCEPT !.pc = "getLive"]
                 ELSE [Resting EXCEPT !.pc = "getEventDetails", !.match = m]
  /\ UNCHANGED <<faults, state, errors, gameKey, context>>
  /\ UNCHANGED upstream

(* The loop wakes and reads the pin: get_pinned returns it.                *)
Wake(pin) ==
  /\ source = "live"
  /\ tick.pc = "sleep"
  /\ tick' = IF pin = Null THEN [Resting EXCEPT !.pc = "getLive"]
             ELSE [Resting EXCEPT !.pc = "getEventDetails", !.match = pin]
  /\ UNCHANGED <<faults, state, errors, gameKey, context>>
  /\ UNCHANGED upstream

(* get_live: some match in progress, or none when none is.                 *)
LiveMatches ==
  IF \A m \in Matches : LiveNumbers(m) = {} THEN {Null}
  ELSE {m \in Matches : ~Over(m)}

GotLive ==
  /\ tick.pc = "getLive"
  /\ \E m \in LiveMatches :
       IF m = Null THEN Succeed(IdleState)
       ELSE /\ tick' = [tick EXCEPT !.pc = "getEventDetails", !.match = m]
            /\ UNCHANGED <<state, errors>>
  /\ UNCHANGED <<faults, gameKey, context>>
  /\ UNCHANGED upstream

(* Slip: nothing to show until a game is live, so nothing is swapped.      *)
KeepBetweenGames ==
  /\ tick.pc = "getEventDetails"
  /\ LiveNumbers(tick.match) = {}
  /\ Keep
  /\ UNCHANGED <<faults, gameKey, context>>
  /\ UNCHANGED upstream

(* get_event_details with no game in progress.                             *)
GotMatchBetweenGames ==
  /\ tick.pc = "getEventDetails"
  /\ LiveNumbers(tick.match) = {}
  /\ Succeed(BetweenGames(tick.match))
  /\ UNCHANGED <<faults, gameKey, context>>
  /\ UNCHANGED upstream

GotLiveGame ==
  /\ tick.pc = "getEventDetails"
  /\ \E n \in LiveNumbers(tick.match) :
       /\ gameKey' = <<tick.match, n>>
       /\ context' = IF gameKey = <<tick.match, n>> THEN context ELSE NewContext
       /\ tick' = [tick EXCEPT !.pc = "getWindow", !.game = n]
  /\ UNCHANGED <<faults, state, errors>>
  /\ UNCHANGED upstream

(* get_window with a usable frame.                                         *)
GotWindow(lacks) ==
  /\ tick.pc = "getWindow"
  /\ LET k == <<tick.match, tick.game>>
         f == FrameOf(k)
     IN  /\ context' = Normalized(context, k, f, lacks)
         /\ Succeed(Live(k, context', f, lacks))
  /\ IF lacks = "nothing" THEN UNCHANGED faults ELSE Faulty
  /\ UNCHANGED gameKey
  /\ UNCHANGED upstream

(* Answers that fail (an HTTP error, a timeout, a body that is no object), *)
(* a pin that cannot be read, a live game without an id, and a window with *)
(* no usable frame.                                                        *)
TickFails ==
  /\ source = "live"
  /\ Faulty
  /\ Fail
  /\ UNCHANGED <<gameKey, context>>
  /\ UNCHANGED upstream

(* HTTP 204, from get_event_details or from the window feed.               *)
GotNothing ==
  /\ tick.pc \in {"getEventDetails", "getWindow"}
  /\ Faulty
  /\ Keep
  /\ UNCHANGED <<gameKey, context>>
  /\ UNCHANGED upstream

(* A live game without its number: the match reads as between games.       *)
GotUnnumbered ==
  /\ tick.pc = "getEventDetails"
  /\ Faulty
  /\ Succeed(BetweenGames(tick.match))
  /\ UNCHANGED <<gameKey, context>>
  /\ UNCHANGED upstream

(* A getLive or event_details answer that does not validate reads as no    *)
(* match at all.                                                           *)
GotUnusable ==
  /\ tick.pc \in {"getLive", "getEventDetails"}
  /\ Faulty
  /\ Succeed(IdleState)
  /\ UNCHANGED <<gameKey, context>>
  /\ UNCHANGED upstream

(* _replay_tick: the next recorded frame; after the last one the file is   *)
(* played again with a new context.  No request changes what is played.    *)
ReplayTick ==
  /\ source = "replay"
  /\ LET f == Recording[index]
         c == IF f.lacks = "teams" THEN context
              ELSE Normalized(context, ReplayKey, f, f.lacks)
     IN  /\ state' = IF f.lacks = "teams" THEN state
                     ELSE Live(ReplayKey, c, f, f.lacks)
         /\ context' = IF index = Len(Recording) THEN NewContext ELSE c
  /\ index' = IF index = Len(Recording) THEN 1 ELSE index + 1
  /\ errors' = IF Recording[index].lacks = "teams" THEN errors ELSE 0
  /\ UNCHANGED <<source, now, games, faults, gameKey, tick>>

(* The process starts again: AppState and Poller are built afresh.         *)
PollRestart ==
  /\ state' = IdleState
  /\ errors' = 0
  /\ gameKey' = Null
  /\ context' = NewContext
  /\ index' = 1
  /\ tick' = Resting
  /\ UNCHANGED <<source, now, games, faults>>

Poll(pin) ==
  \/ Wake(pin) \/ GotLive \/ GotMatchBetweenGames \/ GotLiveGame
  \/ GotWindow("nothing") \/ ReplayTick

Faults == TickFails \/ GotNothing \/ GotUnusable \/ GotUnnumbered
            \/ \E lacks \in {"timestamp", "side"} : GotWindow(lacks)

-----------------------------------------------------------------------------
(* The poller on its own: a tick may find any match pinned, or none.       *)
pollVars == <<source, now, games, faults, state, errors, gameKey, context,
              index, tick>>

PollNext ==
  \/ \E pin \in Matches \union {Null} : Poll(pin)
  \/ Faults
  \/ Upstream
  \/ PollRestart

PollSpec == PollInit /\ [][PollNext]_pollVars

(* The board is marked stale exactly while polls are failing: the mark a   *)
(* reader sees and the poller's backoff count never part, whatever mix of  *)
(* failures, feed gaps, idle spells and restarts came before.              *)
StaleIffFailing == state.stale <=> errors > 0

(* The countdown on the board never ends before the objective is back: at  *)
(* the frame it was computed from, at least as much time was left, however *)
(* late the kill was noticed, wherever in the game the poller attached and *)
(* whichever other game it followed before.                                *)
TimerNeverEarly == state.timer # Null => state.timer >= state.due
=============================================================================
