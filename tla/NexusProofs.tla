---------------------------- MODULE NexusProofs -----------------------------
(***************************************************************************)
(* Theorems about the poller, and about poller and preferences in one      *)
(* process, for any matches and games, every feed and every recording of a *)
(* game, any number of failing answers, requests and restarts and all      *)
(* spawn times.                                                            *)
(***************************************************************************)
EXTENDS Nexus, SequenceTheorems, TLAPS

Context ==
  [key : GameKey \union {Null, ReplayKey}, start : Nat \union {Null},
   total : Nat \union {Null}, kill : Nat \union {Null}]

GameRow ==
  [start : Nat \union {Null}, end : Nat \union {Null}, kills : Nat, spawn : Nat]

(* What a frame of the feed or of a recording says and hides.              *)
Seen == [ts : Nat, kills : Nat, start : Nat, spawn : Nat]

(* The rules of the game: when the objective of a frame is back.           *)
True(f) ==
  /\ f.start <= f.ts
  /\ f.kills = 0 => f.spawn = f.start + FirstSpawn
  /\ f.kills > 0 => f.spawn <= f.ts + Respawn

(* A context is sound for a game: its anchor is not before the start, it   *)
(* has counted no more than fell, and unless one fell that it has not      *)
(* counted yet, the objective is back no later than it computes.           *)
Sound(c, f) ==
  /\ c.start # Null => c.start >= f.start
  /\ c.total # Null => c.total <= f.kills
  /\ c.kill # Null => /\ c.total # Null
                      /\ c.total > 0
                      /\ c.total = f.kills => f.spawn <= c.kill + Respawn

(* Later frames of the same game.                                          *)
Later(f, g) ==
  /\ f.start = g.start /\ f.kills <= g.kills
  /\ f.kills = g.kills => f.spawn = g.spawn

LiveSound ==
  \A k \in GameKey :
    /\ games[k].start # Null => FrameOf(k) \in Seen /\ True(FrameOf(k))
    /\ context.key = k => games[k].start # Null /\ Sound(context, FrameOf(k))

GamesOK ==
  /\ now \in Nat
  /\ games \in [GameKey -> GameRow]
  /\ \A k \in GameKey :
       /\ games[k].start # Null => games[k].start <= now
       /\ games[k].start = Null => games[k].end = Null /\ games[k].kills = 0

TickRecord ==
  [pc : {"sleep", "getLive", "getEventDetails", "getWindow"},
   match : Matches \union {Null}, game : Numbers \union {Null}]

(* A tick that asks for a window has seen its game live; a replay asks     *)
(* nothing.                                                                *)
TickOK ==
  /\ tick \in TickRecord
  /\ source = "replay" => tick.pc = "sleep"
  /\ tick.pc \in {"getEventDetails", "getWindow"} => tick.match \in Matches
  /\ tick.pc = "getWindow" => /\ tick.game \in Numbers
                              /\ games[<<tick.match, tick.game>>].start # Null

Board ==
  [status : {"idle", "between_games", "live"}, stale : BOOLEAN,
   match : Matches \union {Null, Replayed}, game : Numbers \union {Null, 1},
   timer : Nat \union {Null}, due : Int]

StateOK == state \in Board /\ errors \in Nat

PollInv ==
  /\ source \in {"live", "replay"}
  /\ GamesOK
  /\ context \in Context
  /\ index \in DOMAIN Recording
  /\ StateOK /\ TickOK
  /\ source = "live" => LiveSound
  /\ source = "replay" => Sound(context, Recording[index])
  /\ StaleIffFailing
  /\ TimerNeverEarly

-----------------------------------------------------------------------------
LEMMA SoundLater ==
  ASSUME NEW c \in Context, NEW f \in Seen, NEW g \in Seen, Sound(c, f), Later(f, g)
  PROVE  Sound(c, g)
  BY NullIsNothing DEF Context, Seen, Sound, Later

LEMMA NewIsSound ==
  ASSUME NEW key \in GameKey \union {Null, ReplayKey}, NEW f
  PROVE  /\ [NewContext EXCEPT !.key = key] \in Context
         /\ Sound([NewContext EXCEPT !.key = key], f)
         /\ NewContext \in Context /\ Sound(NewContext, f)
  BY DEF NewContext, Context, Sound

(* The context a frame leaves is sound, and so is the countdown read off   *)
(* it.                                                                     *)
LEMMA AnchoredSound ==
  ASSUME NEW c \in Context, NEW key \in GameKey \union {ReplayKey}, NEW f \in Seen,
         True(f), c.key = key => Sound(c, f)
  PROVE  /\ Anchored(c, key, f.ts) \in Context
         /\ Anchored(c, key, f.ts).key = key
         /\ Anchored(c, key, f.ts).start \in Nat
         /\ Sound(Anchored(c, key, f.ts), f)
  <1> DEFINE d == IF c.key = key THEN c ELSE [NewContext EXCEPT !.key = key]
  <1>1. d \in Context /\ d.key = key /\ Sound(d, f)
    BY NewIsSound DEF Context, NewContext
  <1>2. Anchored(c, key, f.ts) = [d EXCEPT !.start = IF @ = Null THEN f.ts ELSE @]
    BY DEF Anchored
  <1> HIDE DEF d
  <1>3. QED
    BY <1>1, <1>2, NullIsNothing DEF Context, Seen, True, Sound

LEMMA CountedSound ==
  ASSUME NEW c \in Context, NEW f \in Seen, True(f), Sound(c, f)
  PROVE  /\ Counted(c, f.kills, f.ts) \in Context
         /\ Counted(c, f.kills, f.ts).key = c.key
         /\ Counted(c, f.kills, f.ts).start = c.start
         /\ Counted(c, f.kills, f.ts).total = f.kills
         /\ Sound(Counted(c, f.kills, f.ts), f)
  <1> DEFINE d == Counted(c, f.kills, f.ts)
  <1>1. CASE c.total = Null
    <2>1. d = [c EXCEPT !.total = f.kills] /\ c.kill = Null
      BY <1>1 DEF Counted, Context, Sound
    <2>2. QED
      BY <2>1, NullIsNothing DEF Context, Seen, Sound
  <1>2. CASE c.total # Null /\ f.kills = c.total
    <2>1. d = [c EXCEPT !.total = f.kills]
      BY <1>2 DEF Counted, Context
    <2>2. QED
      BY <1>2, <2>1, NullIsNothing DEF Context, Seen, Sound
  <1>3. CASE c.total # Null /\ f.kills > c.total
    <2>1. c.total \in Nat /\ f.kills \in Nat /\ f.kills # c.total /\ f.kills > 0
      BY <1>3 DEF Context, Seen
    <2>2. d = [c EXCEPT !.total = f.kills, !.kill = f.ts]
      BY <1>3, <2>1 DEF Counted, Context
    <2>3. d \in Context /\ d.key = c.key /\ d.start = c.start /\ d.total = f.kills
          /\ d.kill = f.ts
      BY <2>2 DEF Context, Seen
    <2>4. f.spawn <= f.ts + Respawn
      BY <2>1 DEF True
    <2> HIDE DEF d
    <2>5. Sound(d, f)
      BY <2>1, <2>3, <2>4, NullIsNothing DEF Seen, Sound
    <2>6. QED
      BY <2>3, <2>5 DEF d
  <1>4. c.total # Null => c.total <= f.kills /\ c.total \in Nat /\ f.kills \in Nat
    BY DEF Context, Seen, Sound
  <1>5. QED
    BY <1>1, <1>2, <1>3, <1>4

LEMMA TimerSound ==
  ASSUME NEW c \in Context, NEW f \in Seen, True(f), Sound(c, f),
         c.start \in Nat, c.total = f.kills
  PROVE  /\ Timer(c, f.ts) \in Nat \union {Null}
         /\ Timer(c, f.ts) # Null => Timer(c, f.ts) >= f.spawn - f.ts
  <1>1. Clock(c, f.ts) \in Nat /\ FirstSpawn \in Nat /\ Respawn \in Nat
    BY SpawnTimes DEF Seen, Clock
  <1>2. CASE c.kill = Null /\ c.total = 0 /\ Clock(c, f.ts) < FirstSpawn
    <2>1. Timer(c, f.ts) = FirstSpawn - Clock(c, f.ts)
      BY <1>2 DEF Timer
    <2>2. f.spawn = f.start + FirstSpawn /\ c.start >= f.start
      BY <1>2, NullIsNothing DEF True, Sound
    <2>3. QED
      BY <1>1, <1>2, <2>1, <2>2 DEF Clock, Seen, True
  <1>3. CASE ~(c.kill = Null /\ c.total = 0 /\ Clock(c, f.ts) < FirstSpawn)
    <2>1. Timer(c, f.ts) = Countdown(c.kill, f.ts, Respawn)
      BY <1>3 DEF Timer
    <2>2. CASE c.kill # Null
      BY <1>1, <2>1, <2>2 DEF Countdown, Context, Seen, Sound
    <2>3. CASE c.kill = Null
      BY <2>1, <2>3 DEF Countdown
    <2>4. QED
      BY <2>2, <2>3
  <1>4. QED
    BY <1>2, <1>3

(* What a tick or a recorded frame makes of context and board.             *)
LEMMA NormalizedSound ==
  ASSUME NEW c \in Context, NEW key \in GameKey \union {ReplayKey},
         key[1] \in Matches \union {Replayed}, key[2] \in Numbers \union {1},
         NEW f, NEW g \in Seen, f.ts = g.ts, f.kills = g.kills, f.spawn = g.spawn,
         True(g), c.key = key => Sound(c, g),
         NEW lacks \in {"nothing", "timestamp", "side"}
  PROVE  LET d == Normalized(c, key, f, lacks)
             s == Live(key, d, f, lacks)
         IN  /\ d \in Context /\ d.key = key /\ Sound(d, g)
             /\ s.timer \in Nat \union {Null}
             /\ s.due \in Int
             /\ s.timer # Null => s.timer >= s.due
  <1> DEFINE d == Normalized(c, key, f, lacks)
             s == Live(key, d, f, lacks)
  <1>1. s.due = g.spawn - g.ts /\ s.due \in Int
        /\ s.timer = IF lacks = "nothing" THEN Timer(d, g.ts) ELSE Null
    BY DEF Live, Seen
  <1>2. CASE lacks = "timestamp"
    <2>1. d = IF c.key = key THEN c ELSE [NewContext EXCEPT !.key = key]
      BY <1>2 DEF Normalized
    <2>2. d.key = key
      BY <2>1 DEF NewContext
    <2>3. QED
      BY <1>1, <1>2, <2>1, <2>2, NewIsSound
  <1>3. CASE lacks = "side"
    <2>1. d = Anchored(c, key, g.ts)
      BY <1>3 DEF Normalized
    <2>2. QED
      BY <1>1, <1>3, <2>1, AnchoredSound
  <1>4. CASE lacks = "nothing"
    <2> DEFINE a == Anchored(c, key, g.ts)
    <2>1. d = Counted(a, g.kills, g.ts)
      BY <1>4 DEF Normalized
    <2>2. a \in Context /\ a.key = key /\ a.start \in Nat /\ Sound(a, g)
      BY AnchoredSound
    <2>3. d \in Context /\ d.key = key /\ d.start \in Nat /\ d.total = g.kills /\ Sound(d, g)
      BY <2>1, <2>2, CountedSound
    <2>4. /\ Timer(d, g.ts) \in Nat \union {Null}
          /\ Timer(d, g.ts) # Null => Timer(d, g.ts) >= g.spawn - g.ts
      <3> HIDE DEF d
      <3>1. QED
        BY <2>3, TimerSound
    <2>5. s.timer = Timer(d, g.ts)
      BY <1>1, <1>4
    <2> HIDE DEF d, s
    <2>6. QED
      BY <1>1, <2>3, <2>4, <2>5 DEF d, s
  <1>5. QED
    BY <1>2, <1>3, <1>4

-----------------------------------------------------------------------------
(* What the upstream service does.                                         *)
LEMMA FrameFields ==
  ASSUME NEW k, NEW row, games[k] = row
  PROVE  /\ FrameOf(k).ts = IF row.end = Null THEN now ELSE row.end
         /\ FrameOf(k).kills = row.kills
         /\ FrameOf(k).start = row.start
         /\ FrameOf(k).spawn = row.spawn
  BY DEF FrameOf

LEMMA FrameOfRow ==
  ASSUME GamesOK, NEW k \in GameKey, games[k].start # Null
  PROVE  /\ games[k].start \in Nat /\ games[k].kills \in Nat /\ games[k].spawn \in Nat
         /\ games[k].end # Null => games[k].end \in Nat
         /\ FrameOf(k) \in Seen
  BY DEF GamesOK, GameRow, FrameOf, Seen

LEMMA OtherGames ==
  ASSUME PollInv, source = "live", NEW k \in GameKey,
         games'[k] = games[k], now' = now, context' = context
  PROVE  /\ games'[k].start # Null => FrameOf(k)' \in Seen /\ True(FrameOf(k))'
         /\ context'.key = k => games'[k].start # Null /\ Sound(context, FrameOf(k))'
  <1>1. FrameOf(k)' = FrameOf(k)
    BY DEF FrameOf
  <1>2. QED
    BY <1>1 DEF PollInv, LiveSound, True, Sound

(* A step upstream leaves what the poller keeps as it is.                  *)
LEMMA RestKept ==
  ASSUME PollInv, source = "live", UNCHANGED upstreamOnly, GamesOK', LiveSound',
         \A k \in GameKey : games[k].start # Null => games'[k].start # Null
  PROVE  PollInv'
  <1>1. TickOK'
    BY DEF PollInv, TickOK, upstreamOnly, GameKey
  <1>2. QED
    BY <1>1 DEF PollInv, StateOK, StaleIffFailing, TimerNeverEarly, upstreamOnly

LEMMA PassTimeInv ==
  ASSUME PollInv, source = "live", PassTime
  PROVE  PollInv'
  <1>1. now' = now + 1 /\ games' = games /\ UNCHANGED upstreamOnly
    BY DEF PassTime
  <1>2. GamesOK'
    <2>1. now' \in Nat
      BY <1>1 DEF PollInv, GamesOK
    <2>2. ASSUME NEW k \in GameKey, games[k].start # Null PROVE games[k].start <= now'
      BY <1>1, <2>2 DEF PollInv, GamesOK, GameRow
    <2>3. QED
      BY <1>1, <2>1, <2>2 DEF PollInv, GamesOK
  <1>3. ASSUME NEW k \in GameKey
        PROVE  /\ games'[k].start # Null => FrameOf(k)' \in Seen /\ True(FrameOf(k))'
               /\ context'.key = k => games'[k].start # Null /\ Sound(context, FrameOf(k))'
    <2>1. /\ FrameOf(k)'.kills = FrameOf(k).kills /\ FrameOf(k)'.start = FrameOf(k).start
          /\ FrameOf(k)'.spawn = FrameOf(k).spawn
          /\ FrameOf(k)'.ts \in {FrameOf(k).ts, FrameOf(k).ts + 1}
      BY <1>1 DEF FrameOf
    <2>2. games[k].start # Null => FrameOf(k) \in Seen /\ True(FrameOf(k))
      BY DEF PollInv, LiveSound
    <2>3. games[k].start # Null => FrameOf(k)' \in Seen /\ True(FrameOf(k))'
      <3>1. FrameOf(k)' = [ts |-> FrameOf(k)'.ts, kills |-> FrameOf(k).kills,
                           start |-> FrameOf(k).start, spawn |-> FrameOf(k).spawn]
        BY <1>1 DEF FrameOf
      <3>2. QED
        BY <2>1, <2>2, <3>1, SpawnTimes DEF Seen, True
    <2>4. context.key = k => games[k].start # Null /\ Sound(context, FrameOf(k))
      BY DEF PollInv, LiveSound
    <2>5. QED
      BY <1>1, <2>1, <2>3, <2>4 DEF Sound, upstreamOnly
  <1>4. QED
    BY <1>1, <1>2, <1>3, RestKept DEF LiveSound

LEMMA StartedRow ==
  ASSUME NEW r \in GameRow, r.end = Null, r.kills = 0, NEW a, NEW b
  PROVE  [r EXCEPT !.start = a, !.spawn = b]
           = [start |-> a, end |-> Null, kills |-> 0, spawn |-> b]
  <1>1. [r EXCEPT !.start = a, !.spawn = b]
          \in [start : {a}, end : {Null}, kills : {0}, spawn : {b}]
    BY DEF GameRow
  <1>2. \A d \in [start : {a}, end : {Null}, kills : {0}, spawn : {b}] :
             d = [start |-> a, end |-> Null, kills |-> 0, spawn |-> b]
    OBVIOUS
  <1>3. QED
    BY <1>1, <1>2

LEMMA TakenRow ==
  ASSUME NEW r \in GameRow, NEW b \in Nat
  PROVE  LET d == [r EXCEPT !.kills = @ + 1, !.spawn = b]
         IN  /\ d \in GameRow /\ d.start = r.start /\ d.end = r.end
             /\ d.kills = r.kills + 1 /\ d.spawn = b
  <1> DEFINE d == [r EXCEPT !.kills = @ + 1, !.spawn = b]
  <1>1. r.kills + 1 \in Nat
    BY DEF GameRow
  <1>2. d.start = r.start
    BY DEF GameRow
  <1>3. d.end = r.end
    BY DEF GameRow
  <1>4. d.kills = r.kills + 1
    BY DEF GameRow
  <1>5. d.spawn = b
    BY DEF GameRow
  <1>6. d \in GameRow
    BY <1>1 DEF GameRow
  <1>7. QED
    BY <1>2, <1>3, <1>4, <1>5, <1>6

LEMMA StartGameInv ==
  ASSUME PollInv, source = "live", NEW m \in Matches, NEW n \in Numbers, StartGame(m, n)
  PROVE  PollInv'
  <1> DEFINE g == <<m, n>>
             row == [start |-> now, end |-> Null, kills |-> 0, spawn |-> now + FirstSpawn]
  <1>1. g \in GameKey /\ now' = now /\ UNCHANGED upstreamOnly /\ games[g].start = Null
    BY DEF GameKey, StartGame
  <1>2. games' = [games EXCEPT ![g] = row]
    <2>1. games[g] \in GameRow /\ games[g].end = Null /\ games[g].kills = 0
      BY <1>1 DEF PollInv, GamesOK
    <2>2. games' = [games EXCEPT ![g] = [games[g] EXCEPT !.start = now, !.spawn = now + FirstSpawn]]
      BY <1>1 DEF StartGame, PollInv, GamesOK
    <2>3. [games[g] EXCEPT !.start = now, !.spawn = now + FirstSpawn] = row
      BY <2>1, StartedRow
    <2>4. QED
      BY <2>2, <2>3
  <1>3. row \in GameRow /\ now \in Nat
    BY SpawnTimes DEF PollInv, GamesOK, GameRow
  <1> HIDE DEF g
  <1>4. games'[g] = row /\ \A k \in GameKey : k # g => games'[k] = games[k]
    BY <1>1, <1>2 DEF PollInv, GamesOK
  <1>5. GamesOK'
    BY <1>1, <1>2, <1>3, <1>4 DEF PollInv, GamesOK
  <1>6. ASSUME NEW k \in GameKey
        PROVE  /\ games'[k].start # Null => FrameOf(k)' \in Seen /\ True(FrameOf(k))'
               /\ context'.key = k => games'[k].start # Null /\ Sound(context, FrameOf(k))'
    <2>1. CASE k = g
      <3>1. FrameOf(k)' = [ts |-> now, kills |-> 0, start |-> now, spawn |-> now + FirstSpawn]
        BY <1>1, <1>4, <2>1 DEF FrameOf
      <3>2. context'.key # g
        BY <1>1 DEF PollInv, LiveSound, upstreamOnly
      <3>3. QED
        BY <1>3, <2>1, <3>1, <3>2, SpawnTimes DEF Seen, True, GameRow
    <2>2. CASE k # g
      BY <1>1, <1>4, <2>2, OtherGames DEF upstreamOnly
    <2>3. QED
      BY <2>1, <2>2
  <1>7. \A k \in GameKey : games[k].start # Null => games'[k].start # Null
    BY <1>1, <1>4
  <1>8. QED
    BY <1>1, <1>5, <1>6, <1>7, RestKept DEF LiveSound

LEMMA TakeObjectiveInv ==
  ASSUME PollInv, source = "live", NEW g \in GameKey, TakeObjective(g)
  PROVE  PollInv'
  <1> DEFINE row == [games[g] EXCEPT !.kills = @ + 1, !.spawn = now + Respawn]
  <1>1. now' = now /\ UNCHANGED upstreamOnly /\ games[g].start # Null /\ games[g].end = Null
    BY DEF TakeObjective, InProgress
  <1>2. games[g] \in GameRow /\ now \in Nat
    BY DEF PollInv, GamesOK
  <1>3. games' = [games EXCEPT ![g] = row]
    BY <1>1 DEF TakeObjective, PollInv, GamesOK
  <1>4. /\ row \in GameRow /\ row.start = games[g].start /\ row.end = Null
        /\ row.kills = games[g].kills + 1 /\ row.spawn = now + Respawn
    <2>1. now + Respawn \in Nat
      BY <1>2, SpawnTimes
    <2>2. QED
      BY <1>1, <1>2, <2>1, TakenRow
  <1> HIDE DEF row
  <1>5. games'[g] = row /\ \A k \in GameKey : k # g => games'[k] = games[k]
    BY <1>3 DEF PollInv, GamesOK
  <1>6. GamesOK'
    BY <1>1, <1>2, <1>3, <1>4, <1>5 DEF PollInv, GamesOK
  <1>7. ASSUME NEW k \in GameKey
        PROVE  /\ games'[k].start # Null => FrameOf(k)' \in Seen /\ True(FrameOf(k))'
               /\ context'.key = k => games'[k].start # Null /\ Sound(context, FrameOf(k))'
    <2>1. CASE k = g
      <3>1. FrameOf(k)' = [ts |-> now, kills |-> games[g].kills + 1, start |-> games[g].start,
                           spawn |-> now + Respawn]
        BY <1>1, <1>4, <1>5, <2>1 DEF FrameOf
      <3>2. FrameOf(k)' \in Seen /\ True(FrameOf(k))'
        BY <1>1, <1>2, <3>1, SpawnTimes DEF Seen, True, PollInv, GamesOK, GameRow
      <3>3. context.key = k => Sound(context, FrameOf(k))
        BY DEF PollInv, LiveSound
      <3>4. FrameOf(k).kills = games[g].kills /\ FrameOf(k).start = games[g].start
        BY <2>1 DEF FrameOf
      <3>5. context.key = k => Sound(context, FrameOf(k))'
        BY <1>1, <1>2, <3>1, <3>3, <3>4, NullIsNothing
           DEF PollInv, Context, GameRow, Sound, upstreamOnly
      <3>6. QED
        BY <1>1, <1>4, <1>5, <2>1, <3>2, <3>5 DEF upstreamOnly
    <2>2. CASE k # g
      BY <1>1, <1>5, <2>2, OtherGames DEF upstreamOnly
    <2>3. QED
      BY <2>1, <2>2
  <1>8. \A k \in GameKey : games[k].start # Null => games'[k].start # Null
    BY <1>1, <1>4, <1>5
  <1>9. QED
    BY <1>1, <1>6, <1>7, <1>8, RestKept DEF LiveSound

LEMMA EndGameInv ==
  ASSUME PollInv, source = "live", NEW g \in GameKey, EndGame(g)
  PROVE  PollInv'
  <1> DEFINE row == [games[g] EXCEPT !.end = now]
  <1>1. now' = now /\ UNCHANGED upstreamOnly /\ games[g].start # Null /\ games[g].end = Null
    BY DEF EndGame, InProgress
  <1>2. games[g] \in GameRow /\ now \in Nat
    BY DEF PollInv, GamesOK
  <1>3. games' = [games EXCEPT ![g] = row]
    BY <1>1 DEF EndGame, PollInv, GamesOK
  <1>4. /\ row \in GameRow /\ row.start = games[g].start /\ row.end = now
        /\ row.kills = games[g].kills /\ row.spawn = games[g].spawn
    BY <1>1, <1>2 DEF GameRow
  <1> HIDE DEF row
  <1>5. games'[g] = row /\ \A k \in GameKey : k # g => games'[k] = games[k]
    BY <1>3 DEF PollInv, GamesOK
  <1>6. GamesOK'
    BY <1>1, <1>2, <1>3, <1>4, <1>5 DEF PollInv, GamesOK
  <1>7. ASSUME NEW k \in GameKey
        PROVE  /\ games'[k].start # Null => FrameOf(k)' \in Seen /\ True(FrameOf(k))'
               /\ context'.key = k => games'[k].start # Null /\ Sound(context, FrameOf(k))'
    <2>1. CASE k = g
      <3>1. FrameOf(k)' = FrameOf(k)
        BY <1>1, <1>2, <1>4, <1>5, <2>1, NullIsNothing DEF FrameOf
      <3>2. QED
        BY <1>1, <1>4, <1>5, <2>1, <3>1 DEF PollInv, LiveSound, True, Sound, upstreamOnly
    <2>2. CASE k # g
      BY <1>1, <1>5, <2>2, OtherGames DEF upstreamOnly
    <2>3. QED
      BY <2>1, <2>2
  <1>8. \A k \in GameKey : games[k].start # Null => games'[k].start # Null
    BY <1>1, <1>4, <1>5
  <1>9. QED
    BY <1>1, <1>6, <1>7, <1>8, RestKept DEF LiveSound

LEMMA UpstreamInv ==
  ASSUME PollInv, Upstream
  PROVE  PollInv'
  <1>1. ASSUME NEW k \in GameKey, StartGame(k[1], k[2])
        PROVE  PollInv'
    BY <1>1, StartGameInv DEF Upstream, GameKey
  <1>2. QED
    BY <1>1, PassTimeInv, TakeObjectiveInv, EndGameInv DEF Upstream

-----------------------------------------------------------------------------
(* The poller's own steps.                                                 *)

(* Steps that leave the context alone.                                     *)
LEMMA ContextKept ==
  ASSUME PollInv, UNCHANGED upstream, UNCHANGED context,
         StateOK', TickOK', StaleIffFailing', TimerNeverEarly'
  PROVE  PollInv'
  <1>1. \A k \in GameKey : FrameOf(k)' = FrameOf(k)
    BY DEF FrameOf, upstream
  <1>2. GamesOK' /\ context' \in Context /\ index' \in DOMAIN Recording
        /\ source' \in {"live", "replay"}
    BY DEF PollInv, GamesOK, upstream
  <1>3. source' = "live" => LiveSound'
    BY <1>1 DEF PollInv, LiveSound, True, Sound, upstream
  <1>4. source' = "replay" => Sound(context, Recording[index])'
    BY DEF PollInv, Sound, upstream
  <1>5. QED
    BY <1>2, <1>3, <1>4 DEF PollInv

(* A tick that ends by swapping the board, or by marking it.               *)
LEMMA SucceedInv ==
  ASSUME PollInv, UNCHANGED upstream, UNCHANGED context, NEW s, Succeed(s),
         s \in {IdleState} \union {BetweenGames(m) : m \in Matches}
  PROVE  PollInv'
  <1>1. errors' = 0 /\ state' = s /\ tick' = Resting
    BY DEF Succeed
  <1>2. PICK m \in Matches \union {Null}, st \in {"idle", "between_games"} :
             s = [status |-> st, stale |-> FALSE, match |-> m, game |-> Null,
                  timer |-> Null, due |-> 0]
    BY DEF IdleState, BetweenGames
  <1>3. StateOK'
    BY <1>1, <1>2 DEF StateOK, Board
  <1>4. TickOK'
    BY <1>1 DEF TickOK, TickRecord, Resting
  <1>5. StaleIffFailing' /\ TimerNeverEarly'
    BY <1>1, <1>2 DEF StaleIffFailing, TimerNeverEarly
  <1>6. QED
    BY <1>3, <1>4, <1>5, ContextKept

LEMMA MarkInv ==
  ASSUME PollInv, UNCHANGED upstream, UNCHANGED context, Keep \/ Fail
  PROVE  PollInv'
  <1>1. PICK b \in BOOLEAN : /\ state' = [state EXCEPT !.stale = b]
                            /\ errors' = IF b THEN errors + 1 ELSE 0
    BY DEF Keep, Fail
  <1>2. state \in Board /\ errors \in Nat
    BY DEF PollInv, StateOK
  <1>3. state' \in Board /\ state'.stale = b /\ state'.timer = state.timer
        /\ state'.due = state.due
    BY <1>1, <1>2 DEF Board
  <1>4. errors' \in Nat /\ (b <=> errors' > 0)
    BY <1>1, <1>2
  <1>5. StateOK' /\ StaleIffFailing' /\ TimerNeverEarly'
    BY <1>3, <1>4 DEF PollInv, StateOK, StaleIffFailing, TimerNeverEarly
  <1>6. tick' = Resting
    BY DEF Keep, Fail
  <1>7. TickOK'
    BY <1>6 DEF TickOK, TickRecord, Resting
  <1>8. QED
    BY <1>5, <1>7, ContextKept

LEMMA WakeInv ==
  ASSUME PollInv, NEW pin \in Matches \union {Null}, Wake(pin)
  PROVE  PollInv'
  <1>1. source = "live" /\ UNCHANGED upstream /\ UNCHANGED <<context, state, errors>>
    BY DEF Wake
  <1>2. TickOK'
    BY <1>1 DEF Wake, Resting, TickOK, TickRecord, upstream, PollInv
  <1>3. StateOK' /\ StaleIffFailing' /\ TimerNeverEarly'
    BY <1>1 DEF PollInv, StateOK, Board, StaleIffFailing, TimerNeverEarly
  <1>4. QED
    BY <1>1, <1>2, <1>3, ContextKept

LEMMA GotLiveInv ==
  ASSUME PollInv, GotLive
  PROVE  PollInv'
  <1>1. UNCHANGED upstream /\ UNCHANGED context /\ tick.pc = "getLive" /\ source = "live"
    BY DEF GotLive, PollInv, TickOK
  <1>2. CASE Succeed(IdleState)
    BY <1>1, <1>2, SucceedInv
  <1>3. ASSUME NEW m \in Matches,
               tick' = [tick EXCEPT !.pc = "getEventDetails", !.match = m],
               UNCHANGED <<state, errors>>
        PROVE  PollInv'
    <2>1. tick'.pc = "getEventDetails" /\ tick'.match = m
      BY <1>1, <1>3 DEF PollInv, TickOK, TickRecord
    <2>2. TickOK'
      BY <1>1, <1>3, <2>1 DEF PollInv, TickOK, TickRecord, upstream
    <2>3. StateOK' /\ StaleIffFailing' /\ TimerNeverEarly'
      BY <1>3 DEF PollInv, StateOK, Board, StaleIffFailing, TimerNeverEarly
    <2>4. QED
      BY <1>1, <2>2, <2>3, ContextKept
  <1>4. QED
    BY <1>2, <1>3 DEF GotLive, LiveMatches

LEMMA GotLiveGameInv ==
  ASSUME PollInv, GotLiveGame
  PROVE  PollInv'
  <1>1. /\ UNCHANGED upstream /\ UNCHANGED <<state, errors>>
        /\ tick.pc = "getEventDetails" /\ source = "live" /\ tick.match \in Matches
    BY DEF GotLiveGame, PollInv, TickOK
  <1>2. PICK n \in LiveNumbers(tick.match) :
             /\ context' = IF gameKey = <<tick.match, n>> THEN context ELSE NewContext
             /\ tick' = [tick EXCEPT !.pc = "getWindow", !.game = n]
    BY DEF GotLiveGame
  <1>3. n \in Numbers /\ games[<<tick.match, n>>].start # Null
    BY DEF LiveNumbers, InProgress
  <1>4. tick'.pc = "getWindow" /\ tick'.game = n /\ tick'.match = tick.match
    BY <1>2 DEF PollInv, TickOK, TickRecord
  <1>5. TickOK'
    BY <1>1, <1>2, <1>3, <1>4 DEF PollInv, TickOK, TickRecord, upstream
  <1>6. StateOK' /\ StaleIffFailing' /\ TimerNeverEarly'
    BY <1>1 DEF PollInv, StateOK, Board, StaleIffFailing, TimerNeverEarly
  <1>7. CASE context' = context
    BY <1>1, <1>5, <1>6, <1>7, ContextKept
  <1>8. CASE context' = NewContext
    <2>1. context' \in Context /\ context'.key = Null /\ \A k \in GameKey : k # Null
      BY <1>8, NewIsSound, NullIsNothing DEF NewContext, GameKey
    <2>2. \A k \in GameKey : FrameOf(k)' = FrameOf(k)
      BY <1>1 DEF FrameOf, upstream
    <2>3. LiveSound'
      BY <1>1, <2>1, <2>2 DEF PollInv, LiveSound, True, Sound, upstream
    <2>4. GamesOK' /\ index' \in DOMAIN Recording /\ source' = "live"
      BY <1>1 DEF PollInv, GamesOK, upstream
    <2>5. QED
      BY <1>5, <1>6, <2>1, <2>3, <2>4 DEF PollInv
  <1>9. QED
    BY <1>2, <1>7, <1>8

LEMMA GotWindowInv ==
  ASSUME PollInv, NEW lacks \in {"nothing", "timestamp", "side"}, GotWindow(lacks)
  PROVE  PollInv'
  <1> DEFINE k == <<tick.match, tick.game>>
             f == FrameOf(k)
             d == Normalized(context, k, f, lacks)
             s == Live(k, d, f, lacks)
  <1>1. /\ UNCHANGED upstream /\ source = "live"
        /\ context' = d /\ state' = s /\ errors' = 0 /\ tick' = Resting
    BY DEF GotWindow, Succeed, PollInv, TickOK
  <1>2. /\ tick.match \in Matches /\ tick.game \in Numbers /\ k \in GameKey
        /\ games[k].start # Null
    BY DEF GotWindow, PollInv, TickOK, GameKey
  <1>3. k[1] = tick.match /\ k[2] = tick.game
    OBVIOUS
  <1> HIDE DEF k
  <1>4. f \in Seen /\ True(f) /\ (context.key = k => Sound(context, f)) /\ context \in Context
    BY <1>1, <1>2 DEF PollInv, LiveSound
  <1>5. s.status = "live" /\ s.stale = FALSE /\ s.match = k[1] /\ s.game = k[2]
    BY DEF Live
  <1> HIDE DEF f
  <1>6. /\ d \in Context /\ d.key = k /\ Sound(d, f)
        /\ s.timer \in Nat \union {Null} /\ s.due \in Int
        /\ s.timer # Null => s.timer >= s.due
    BY <1>2, <1>3, <1>4, NormalizedSound
  <1>7. s \in Board
    <2>1. s = [status |-> s.status, stale |-> s.stale, match |-> s.match, game |-> s.game,
               timer |-> s.timer, due |-> s.due]
      BY DEF Live
    <2> HIDE DEF s
    <2>2. QED
      BY <1>2, <1>3, <1>5, <1>6, <2>1 DEF Board
  <1> HIDE DEF d, s
  <1>8. StateOK' /\ StaleIffFailing' /\ TimerNeverEarly'
    BY <1>1, <1>5, <1>6, <1>7 DEF StateOK, StaleIffFailing, TimerNeverEarly
  <1>9. TickOK'
    BY <1>1 DEF TickOK, TickRecord, Resting
  <1>10. \A j \in GameKey : FrameOf(j)' = FrameOf(j)
    BY <1>1 DEF FrameOf, upstream
  <1>11. ASSUME NEW j \in GameKey
         PROVE  /\ games'[j].start # Null => FrameOf(j)' \in Seen /\ True(FrameOf(j))'
                /\ context'.key = j => games'[j].start # Null /\ Sound(context, FrameOf(j))'
    <2>1. games'[j].start # Null => FrameOf(j)' \in Seen /\ True(FrameOf(j))'
      BY <1>1, <1>10 DEF PollInv, LiveSound, True, upstream
    <2>2. CASE j = k
      BY <1>1, <1>2, <1>6, <1>10, <2>1, <2>2 DEF f, Sound, upstream
    <2>3. CASE j # k
      BY <1>1, <1>6, <2>1, <2>3
    <2>4. QED
      BY <2>2, <2>3
  <1>12. GamesOK' /\ index' \in DOMAIN Recording /\ source' = "live"
    BY <1>1 DEF PollInv, GamesOK, upstream
  <1>13. QED
    BY <1>1, <1>6, <1>8, <1>9, <1>11, <1>12 DEF PollInv, LiveSound

(* What a frame of the recording says and hides.                           *)
Shown(i) ==
  [ts |-> Recording[i].ts, kills |-> Recording[i].kills,
   start |-> Recording[i].start, spawn |-> Recording[i].spawn]

LEMMA RecordingFrames ==
  ASSUME NEW i \in DOMAIN Recording
  PROVE  /\ Shown(i) \in Seen /\ True(Shown(i))
         /\ Recording[i].lacks \in {"nothing", "teams", "timestamp", "side"}
         /\ \A c : Sound(c, Recording[i]) <=> Sound(c, Shown(i))
         /\ i # Len(Recording) => /\ i + 1 \in DOMAIN Recording
                                 /\ Later(Shown(i), Shown(i + 1))
  <1> DEFINE Frame == [ts : Nat, kills : Nat, start : Nat, spawn : Nat,
                       lacks : {"nothing", "teams", "timestamp", "side"}]
  <1>1. Recording \in Seq(Frame)
    BY RecordingIsOneGame
  <1>2. Recording[i] \in Frame
    <2> HIDE DEF Frame
    <2>1. QED
      BY <1>1
  <1>3. Shown(i) \in Seen
    BY <1>2 DEF Shown, Seen
  <1>4. True(Shown(i))
    BY RecordingIsOneGame DEF Shown, True
  <1>5. \A c : Sound(c, Recording[i]) <=> Sound(c, Shown(i))
    BY DEF Sound, Shown
  <1>6. ASSUME i # Len(Recording)
        PROVE  i + 1 \in DOMAIN Recording /\ Later(Shown(i), Shown(i + 1))
    <2>1. i \in 1 .. Len(Recording) /\ Len(Recording) \in Nat
      BY <1>1
    <2>2. i + 1 \in DOMAIN Recording /\ i + 1 > 1 /\ (i + 1) - 1 = i
      BY <1>1, <1>6, <2>1
    <2>3. LET e == Recording[(i + 1) - 1]
              g == Recording[i + 1]
          IN  /\ e.start = g.start /\ e.kills <= g.kills
              /\ e.kills = g.kills => e.spawn = g.spawn
      BY <2>2, RecordingIsOneGame
    <2>4. QED
      BY <2>2, <2>3 DEF Shown, Later
  <1>7. QED
    BY <1>2, <1>3, <1>4, <1>5, <1>6

LEMMA ReplayTickInv ==
  ASSUME PollInv, ReplayTick
  PROVE  PollInv'
  <1> DEFINE f == Recording[index]
             c == IF f.lacks = "teams" THEN context
                  ELSE Normalized(context, ReplayKey, f, f.lacks)
             s == Live(ReplayKey, c, f, f.lacks)
  <1>1. /\ source = "replay" /\ UNCHANGED <<source, now, games, gameKey, tick>>
        /\ state' = IF f.lacks = "teams" THEN state ELSE s
        /\ context' = IF index = Len(Recording) THEN NewContext ELSE c
        /\ index' = IF index = Len(Recording) THEN 1 ELSE index + 1
        /\ errors' = IF f.lacks = "teams" THEN errors ELSE 0
    BY DEF ReplayTick
  <1>2. index \in DOMAIN Recording /\ context \in Context /\ Sound(context, f)
    BY <1>1 DEF PollInv
  <1>3. ReplayKey[1] = Replayed /\ ReplayKey[2] = 1
    BY DEF ReplayKey
  <1> DEFINE Kept == /\ c \in Context /\ Sound(c, Shown(index))
                     /\ StateOK' /\ StaleIffFailing' /\ TimerNeverEarly'
  <1>4. ASSUME f.lacks # "teams" PROVE Kept
    <2>1. /\ Shown(index) \in Seen /\ True(Shown(index)) /\ Sound(context, Shown(index))
          /\ f.lacks \in {"nothing", "timestamp", "side"}
          /\ f.ts = Shown(index).ts /\ f.kills = Shown(index).kills
          /\ f.spawn = Shown(index).spawn
      BY <1>2, <1>4, RecordingFrames DEF Shown
    <2>2. c = Normalized(context, ReplayKey, f, f.lacks)
      BY <1>4
    <2>3. s.status = "live" /\ s.stale = FALSE /\ s.match = Replayed /\ s.game = 1
      BY <1>3 DEF Live
    <2>4. s = [status |-> s.status, stale |-> s.stale, match |-> s.match, game |-> s.game,
               timer |-> s.timer, due |-> s.due]
      BY DEF Live
    <2> HIDE DEF f
    <2>5. /\ c \in Context /\ Sound(c, Shown(index))
          /\ s.timer \in Nat \union {Null} /\ s.due \in Int
          /\ s.timer # Null => s.timer >= s.due
      BY <1>2, <1>3, <2>1, <2>2, NormalizedSound
    <2> HIDE DEF c, s
    <2>6. s \in Board
      BY <2>3, <2>4, <2>5 DEF Board
    <2>7. state' = s /\ errors' = 0
      BY <1>1, <1>4
    <2>8. StateOK' /\ StaleIffFailing' /\ TimerNeverEarly'
      BY <2>3, <2>5, <2>6, <2>7 DEF StateOK, StaleIffFailing, TimerNeverEarly
    <2>9. QED
      BY <2>5, <2>8
  <1>5. ASSUME f.lacks = "teams" PROVE Kept
    <2>1. c = context /\ state' = state /\ errors' = errors
      BY <1>1, <1>5
    <2>2. Sound(c, Shown(index))
      BY <1>2, <2>1, RecordingFrames
    <2>3. StateOK' /\ StaleIffFailing' /\ TimerNeverEarly'
      BY <2>1 DEF PollInv, StateOK, StaleIffFailing, TimerNeverEarly
    <2>4. QED
      BY <1>2, <2>1, <2>2, <2>3
  <1> HIDE DEF f, c, s
  <1>6. Kept
    BY <1>4, <1>5
  <1>7. index' \in DOMAIN Recording /\ context' \in Context
        /\ Sound(context', Recording[index'])
    <2>1. CASE index = Len(Recording)
      <3>1. 1 \in DOMAIN Recording
        BY RecordingIsOneGame
      <3>2. QED
        BY <1>1, <2>1, <3>1, NewIsSound
    <2>2. CASE index # Len(Recording)
      <3>1. index' = index + 1 /\ context' = c
        BY <1>1, <2>2
      <3>2. index + 1 \in DOMAIN Recording /\ Later(Shown(index), Shown(index + 1))
            /\ Shown(index) \in Seen
        BY <1>2, <2>2, RecordingFrames
      <3>3. Sound(c, Shown(index + 1))
        BY <1>6, <3>2, RecordingFrames, SoundLater
      <3>4. QED
        BY <1>6, <3>1, <3>2, <3>3, RecordingFrames
    <2>3. QED
      BY <2>1, <2>2
  <1>8. GamesOK' /\ TickOK' /\ source' = "replay"
    BY <1>1 DEF PollInv, GamesOK, TickOK
  <1>9. Sound(context, Recording[index])'
    BY <1>7 DEF Sound
  <1>10. QED
    BY <1>6, <1>7, <1>8, <1>9 DEF PollInv

LEMMA PollRestartInv ==
  ASSUME PollInv, PollRestart
  PROVE  PollInv'
  <1>1. /\ state' = IdleState /\ errors' = 0 /\ context' = NewContext /\ index' = 1
        /\ tick' = Resting /\ UNCHANGED <<source, now, games>>
    BY DEF PollRestart
  <1>2. StateOK' /\ StaleIffFailing' /\ TimerNeverEarly'
    BY <1>1 DEF IdleState, StateOK, Board, StaleIffFailing, TimerNeverEarly
  <1>3. TickOK' /\ GamesOK'
    BY <1>1 DEF TickOK, TickRecord, Resting, PollInv, GamesOK
  <1>4. index' \in DOMAIN Recording
    BY <1>1, RecordingIsOneGame
  <1>5. context' \in Context /\ context'.key = Null /\ (\A k \in GameKey : k # Null)
        /\ \A f : Sound(context', f)
    BY <1>1, NewIsSound, NullIsNothing DEF NewContext, GameKey
  <1>6. \A k \in GameKey : FrameOf(k)' = FrameOf(k)
    BY <1>1 DEF FrameOf
  <1>7. source' = "live" => LiveSound'
    BY <1>1, <1>5, <1>6 DEF PollInv, LiveSound, True
  <1>8. Sound(context, Recording[index])'
    BY <1>5 DEF Sound
  <1>9. QED
    BY <1>1, <1>2, <1>3, <1>4, <1>5, <1>7, <1>8 DEF PollInv

-----------------------------------------------------------------------------
LEMMA PollInitInv ==
  ASSUME PollInit
  PROVE  PollInv
  <1>1. /\ source \in {"live", "replay"} /\ now = 0
        /\ games = [k \in GameKey |-> Unstarted] /\ state = IdleState /\ errors = 0
        /\ context = NewContext /\ index = 1 /\ tick = Resting
    BY DEF PollInit
  <1>2. StateOK /\ StaleIffFailing /\ TimerNeverEarly
    BY <1>1 DEF IdleState, StateOK, Board, StaleIffFailing, TimerNeverEarly
  <1>3. TickOK
    BY <1>1 DEF TickOK, TickRecord, Resting
  <1>4. Unstarted \in GameRow /\ Unstarted.start = Null /\ Unstarted.end = Null
        /\ Unstarted.kills = 0
    BY DEF Unstarted, GameRow
  <1>5. GamesOK
    BY <1>1, <1>4 DEF GamesOK
  <1>6. context \in Context /\ context.key = Null /\ (\A k \in GameKey : k # Null)
        /\ \A f : Sound(context, f)
    BY <1>1, NewIsSound, NullIsNothing DEF NewContext, GameKey
  <1>7. LiveSound
    BY <1>1, <1>4, <1>6 DEF LiveSound
  <1>8. index \in DOMAIN Recording
    BY <1>1, RecordingIsOneGame
  <1>9. QED
    BY <1>1, <1>2, <1>3, <1>5, <1>6, <1>7, <1>8 DEF PollInv

LEMMA PollStepInv ==
  ASSUME PollInv, [PollNext]_pollVars
  PROVE  PollInv'
  <1>1. ASSUME NEW pin \in Matches \union {Null}, Poll(pin)
        PROVE  PollInv'
    <2>1. CASE Wake(pin)
      BY <1>1, <2>1, WakeInv
    <2>2. CASE GotLive
      BY <1>1, <2>2, GotLiveInv
    <2>3. CASE GotMatchBetweenGames
      <3>1. UNCHANGED upstream /\ UNCHANGED context /\ Succeed(BetweenGames(tick.match))
            /\ tick.match \in Matches
        BY <2>3 DEF GotMatchBetweenGames, PollInv, TickOK
      <3>2. QED
        BY <1>1, <3>1, SucceedInv
    <2>4. CASE GotLiveGame
      BY <1>1, <2>4, GotLiveGameInv
    <2>5. CASE GotWindow("nothing")
      BY <1>1, <2>5, GotWindowInv
    <2>6. CASE ReplayTick
      BY <1>1, <2>6, ReplayTickInv
    <2>7. QED
      BY <1>1, <2>1, <2>2, <2>3, <2>4, <2>5, <2>6 DEF Poll
  <1>2. CASE Faults
    <2>1. CASE TickFails \/ GotNothing
      BY <1>2, <2>1, MarkInv DEF TickFails, GotNothing
    <2>2. CASE GotUnusable
      BY <1>2, <2>2, SucceedInv DEF GotUnusable
    <2>3. CASE GotUnnumbered
      <3>1. UNCHANGED upstream /\ UNCHANGED context /\ Succeed(BetweenGames(tick.match))
            /\ tick.match \in Matches
        BY <2>3 DEF GotUnnumbered, PollInv, TickOK
      <3>2. QED
        BY <1>2, <3>1, SucceedInv
    <2>4. CASE \E lacks \in {"timestamp", "side"} : GotWindow(lacks)
      BY <1>2, <2>4, GotWindowInv
    <2>5. QED
      BY <1>2, <2>1, <2>2, <2>3, <2>4 DEF Faults
  <1>3. CASE Upstream
    BY <1>3, UpstreamInv
  <1>4. CASE PollRestart
    BY <1>4, PollRestartInv
  <1>5. CASE UNCHANGED pollVars
    <2>1. UNCHANGED <<source, now, games, state, errors, context, index, tick>>
      BY <1>5 DEF pollVars
    <2>2. StateOK' /\ TickOK' /\ StaleIffFailing' /\ TimerNeverEarly'
      BY <2>1 DEF PollInv, StateOK, TickOK, StaleIffFailing, TimerNeverEarly
    <2>3. QED
      BY <2>1, <2>2, ContextKept DEF upstream
  <1>6. QED
    BY <1>1, <1>2, <1>3, <1>4, <1>5 DEF PollNext

(* Whatever the feed, the requests and the failures do, what the poller    *)
(* keeps of a game stays true of that game: its anchor is not before the   *)
(* game's start, it has counted no objective that did not fall, and from   *)
(* the kill it keeps the objective is back no later than it computes.      *)
THEOREM ContextTellsTheGame == PollSpec => []PollInv
  <1>1. PollInit => PollInv
    BY PollInitInv
  <1>2. PollInv /\ [PollNext]_pollVars => PollInv'
    BY PollStepInv
  <1>3. QED
    BY <1>1, <1>2, PTL DEF PollSpec

(* The mark a reader sees and the poller's count of failures never part.   *)
THEOREM StaleIffFailingAlways == PollSpec => []StaleIffFailing
  <1>1. PollInv => StaleIffFailing
    BY DEF PollInv
  <1>2. QED
    BY <1>1, ContextTellsTheGame, PTL

(* No countdown shown ever ends before the objective is back.              *)
THEOREM TimerNeverEarlyAlways == PollSpec => []TimerNeverEarly
  <1>1. PollInv => TimerNeverEarly
    BY DEF PollInv
  <1>2. QED
    BY <1>1, ContextTellsTheGame, PTL

-----------------------------------------------------------------------------
(* The preferences: the store always holds a pin and a view, a handler in  *)
(* the middle of its sets has some left to make, and only the JSON adapter *)
(* goes through the steps that leave the file unreadable.                  *)
RequestRow ==
  [pc : {"idle", "set", "truncate", "write"}, todo : Seq(Setting),
   data : Preference, overlaid : BOOLEAN]

InHand(r) ==
  /\ Len(r.todo) <= 2
  /\ r.pc # "idle" => r.todo # <<>>

PrefInv ==
  /\ backend \in Backends
  /\ prefs \in Preference
  /\ torn \in BOOLEAN
  /\ torn => backend = "json"
  /\ requests \in [Requests -> RequestRow]
  /\ \A h \in Requests :
       /\ InHand(requests[h])
       /\ requests[h].pc \in {"truncate", "write"} => backend = "json"

LEMMA PrefTyped ==
  ASSUME PrefInv
  PROVE  PrefTypeOK
  <1>1. ASSUME NEW h \in Requests
        PROVE  /\ requests[h].pc \in {"idle", "set", "truncate", "write"}
               /\ Len(requests[h].todo) <= 2
               /\ \A i \in 1 .. Len(requests[h].todo) : requests[h].todo[i] \in Setting
               /\ requests[h].data \in Preference
               /\ requests[h].overlaid \in BOOLEAN
    <2>1. requests[h] \in RequestRow /\ InHand(requests[h])
      BY DEF PrefInv
    <2>2. requests[h].todo \in Seq(Setting)
      BY <2>1 DEF RequestRow
    <2>3. \A i \in 1 .. Len(requests[h].todo) : requests[h].todo[i] \in Setting
      BY <2>2
    <2>4. QED
      BY <2>1, <2>3 DEF RequestRow, InHand
  <1>2. QED
    BY <1>1 DEF PrefInv, PrefTypeOK

LEMMA ReadTyped ==
  ASSUME PrefInv
  PROVE  Read \in Preference /\ Pinned \in Matches \union {Null}
  <1>1. Defaults \in Preference
    BY PreferenceValues DEF Defaults, Preference
  <1>2. Read \in Preference
    BY <1>1 DEF PrefInv, Read
  <1>3. QED
    BY <1>2 DEF Pinned, Preference

LEMMA ChangedTyped ==
  ASSUME NEW data \in Preference, NEW s \in Setting
  PROVE  Changed(data, s) \in Preference
  <1>1. CASE s \in [key : {"pinned_match_id"}, value : Matches \union {Null}]
    <2>1. s.key = "pinned_match_id" /\ s.value \in Matches \union {Null}
      BY <1>1
    <2>2. QED
      BY <2>1 DEF Changed, Preference
  <1>2. CASE s \in [key : {"view_mode"}, value : Views]
    <2>1. s.key = "view_mode" /\ s.value \in Views
      BY <1>2
    <2>2. QED
      BY <2>1 DEF Changed, Preference
  <1>3. QED
    BY <1>1, <1>2 DEF Setting

LEMMA IdleTyped ==
  Idle \in RequestRow /\ InHand(Idle)
  <1>1. Defaults \in Preference
    BY PreferenceValues DEF Defaults, Preference
  <1>2. <<>> \in Seq(Setting) /\ Len(<<>>) = 0
    OBVIOUS
  <1>3. QED
    BY <1>1, <1>2 DEF Idle, RequestRow, InHand

(* A handler that has its settings to make, and one that made the first.   *)
LEMMA SettingTyped ==
  ASSUME NEW todo \in Seq(Setting), todo # <<>>, Len(todo) <= 2
  PROVE  LET r == [Idle EXCEPT !.pc = "set", !.todo = todo]
         IN  r \in RequestRow /\ InHand(r)
  <1> DEFINE r == [Idle EXCEPT !.pc = "set", !.todo = todo]
  <1>1. r.pc = "set" /\ r.todo = todo
    BY DEF Idle
  <1>2. r \in RequestRow
    BY IdleTyped DEF RequestRow
  <1>3. InHand(r)
    BY <1>1 DEF InHand
  <1>4. QED
    BY <1>2, <1>3

LEMMA OneLess ==
  ASSUME NEW n \in Nat \ {0}, n # 1, n <= 2, NEW m, m = n - 1
  PROVE  m # 0 /\ m <= 2
  OBVIOUS

LEMMA RestOfTwo ==
  ASSUME NEW S, NEW s \in Seq(S), s # <<>>, Len(s) <= 2, Len(s) # 1
  PROVE  Tail(s) \in Seq(S) /\ Tail(s) # <<>> /\ Len(Tail(s)) <= 2
  <1>1. Len(s) \in Nat \ {0}
    BY EmptySeq
  <1>2. Tail(s) \in Seq(S) /\ Len(Tail(s)) = Len(s) - 1
    BY HeadTailProperties
  <1>3. Len(Tail(s)) # 0 /\ Len(Tail(s)) <= 2
    BY <1>1, <1>2, OneLess, Zenon
  <1>4. QED
    BY <1>2, <1>3, EmptySeq, Zenon

LEMMA ReturnedTyped ==
  ASSUME PrefInv, NEW h \in Requests, requests[h].pc # "idle"
  PROVE  /\ Head(requests[h].todo) \in Setting
         /\ Returned(h) \in RequestRow /\ InHand(Returned(h))
  <1>1. requests[h] \in RequestRow /\ InHand(requests[h])
    BY DEF PrefInv
  <1>2. /\ requests[h].todo \in Seq(Setting) /\ requests[h].todo # <<>>
        /\ Len(requests[h].todo) <= 2
    BY <1>1 DEF RequestRow, InHand
  <1>3. Head(requests[h].todo) \in Setting
    BY <1>2
  <1>4. CASE Len(requests[h].todo) = 1
    BY <1>3, <1>4, IdleTyped DEF Returned
  <1>5. CASE Len(requests[h].todo) # 1
    <2>1. /\ Tail(requests[h].todo) \in Seq(Setting) /\ Tail(requests[h].todo) # <<>>
          /\ Len(Tail(requests[h].todo)) <= 2
      BY <1>2, <1>5, RestOfTwo
    <2>2. Returned(h) = [Idle EXCEPT !.pc = "set", !.todo = Tail(requests[h].todo)]
      BY <1>5 DEF Returned
    <2>3. QED
      BY <1>3, <2>1, <2>2, SettingTyped
  <1>6. QED
    BY <1>4, <1>5

(* A step of one handler: what it leaves of its own row; the others keep   *)
(* theirs.                                                                 *)
LEMMA RowKept ==
  ASSUME PrefInv, NEW h \in Requests, NEW r \in RequestRow, InHand(r),
         r.pc \in {"truncate", "write"} => backend = "json",
         requests' = [requests EXCEPT ![h] = r], UNCHANGED backend,
         prefs' \in Preference, torn' \in BOOLEAN, torn' => backend = "json"
  PROVE  PrefInv'
  <1>1. requests' \in [Requests -> RequestRow]
    BY DEF PrefInv
  <1>2. \A g \in Requests : requests'[g] = IF g = h THEN r ELSE requests[g]
    BY DEF PrefInv
  <1>3. \A g \in Requests :
          /\ InHand(requests'[g])
          /\ requests'[g].pc \in {"truncate", "write"} => backend' = "json"
    BY <1>2 DEF PrefInv
  <1>4. QED
    BY <1>1, <1>3 DEF PrefInv

LEMMA BeginInv ==
  ASSUME PrefInv, NEW h \in Requests, NEW todo \in Seq(Setting), todo # <<>>,
         Len(todo) <= 2, Begin(h, todo)
  PROVE  PrefInv'
  <1> DEFINE r == [Idle EXCEPT !.pc = "set", !.todo = todo]
  <1>1. r \in RequestRow /\ InHand(r) /\ r.pc = "set"
    BY SettingTyped DEF Idle
  <1>2. requests' = [requests EXCEPT ![h] = r] /\ UNCHANGED <<backend, prefs, torn>>
    BY DEF Begin
  <1> HIDE DEF r
  <1>3. prefs' \in Preference /\ torn' \in BOOLEAN /\ (torn' => backend = "json")
    BY <1>2 DEF PrefInv
  <1>4. QED
    BY <1>1, <1>2, <1>3, RowKept

LEMMA RequestInv ==
  ASSUME PrefInv, NEW h \in Requests, Request(h)
  PROVE  PrefInv'
  <1>1. PICK m \in Matches \union {Null} :
             PutSelection(h, m) \/ \E v \in Views : PutPreferences(h, m, v)
    BY DEF Request
  <1> DEFINE pin == [key |-> "pinned_match_id", value |-> m]
  <1>2. pin \in Setting
    BY DEF Setting
  <1>3. CASE PutSelection(h, m)
    <2>1. <<pin>> \in Seq(Setting) /\ <<pin>> # <<>> /\ Len(<<pin>>) <= 2
      BY <1>2
    <2>2. Begin(h, <<pin>>)
      BY <1>3 DEF PutSelection
    <2> HIDE DEF pin
    <2>3. QED
      BY <2>1, <2>2, BeginInv
  <1>4. CASE \E v \in Views : PutPreferences(h, m, v)
    <2>1. PICK v \in Views : PutPreferences(h, m, v)
      BY <1>4
    <2> DEFINE todo == <<pin, [key |-> "view_mode", value |-> v]>>
    <2>2. [key |-> "view_mode", value |-> v] \in Setting
      BY DEF Setting
    <2>3. todo \in Seq(Setting) /\ todo # <<>> /\ Len(todo) <= 2
      BY <1>2, <2>2
    <2>4. Begin(h, todo)
      BY <2>1 DEF PutPreferences
    <2> HIDE DEF todo
    <2>5. QED
      BY <2>3, <2>4, BeginInv
  <1>5. QED
    BY <1>1, <1>3, <1>4

LEMMA SetRowInv ==
  ASSUME PrefInv, NEW h \in Requests, SetRow(h)
  PROVE  PrefInv'
  <1>1. /\ prefs' = Changed(prefs, Head(requests[h].todo))
        /\ requests' = [requests EXCEPT ![h] = Returned(h)]
        /\ UNCHANGED <<backend, torn>> /\ requests[h].pc # "idle"
    BY DEF SetRow
  <1>2. /\ Head(requests[h].todo) \in Setting
        /\ Returned(h) \in RequestRow /\ InHand(Returned(h))
    BY <1>1, ReturnedTyped
  <1>3. Returned(h).pc \notin {"truncate", "write"}
    BY DEF Returned, Idle
  <1>4. prefs' \in Preference /\ torn' \in BOOLEAN /\ (torn' => backend = "json")
    BY <1>1, <1>2, ChangedTyped DEF PrefInv
  <1>5. QED
    BY <1>1, <1>2, <1>3, <1>4, RowKept

LEMMA ReadFileInv ==
  ASSUME PrefInv, NEW h \in Requests, ReadFile(h)
  PROVE  PrefInv'
  <1> DEFINE data == Changed(Read, Head(requests[h].todo))
             r == [requests[h] EXCEPT !.pc = "truncate", !.data = data]
  <1>1. /\ UNCHANGED <<backend, prefs, torn>> /\ backend = "json"
        /\ requests[h].pc = "set"
    BY DEF ReadFile
  <1>2. requests[h] \in RequestRow /\ InHand(requests[h])
    BY DEF PrefInv
  <1>3. data \in Preference
    BY <1>1, ReturnedTyped, ReadTyped, ChangedTyped
  <1> HIDE DEF data
  <1>4. r \in RequestRow /\ r.todo = requests[h].todo
    BY <1>2, <1>3 DEF RequestRow
  <1>5. InHand(r)
    BY <1>1, <1>2, <1>4 DEF InHand
  <1>6. requests' = [requests EXCEPT ![h] = r]
    BY DEF ReadFile, PrefInv, data
  <1> HIDE DEF r
  <1>7. QED
    BY <1>1, <1>4, <1>5, <1>6, RowKept DEF PrefInv

LEMMA TruncateInv ==
  ASSUME PrefInv, NEW h \in Requests, Truncate(h)
  PROVE  PrefInv'
  <1> DEFINE r == [requests[h] EXCEPT !.pc = "write"]
  <1>1. UNCHANGED <<backend, prefs>> /\ torn' = TRUE /\ requests[h].pc = "truncate"
    BY DEF Truncate
  <1>2. requests[h] \in RequestRow /\ InHand(requests[h]) /\ backend = "json"
    BY <1>1 DEF PrefInv
  <1>3. r \in RequestRow /\ r.todo = requests[h].todo
    BY <1>2 DEF RequestRow
  <1>4. InHand(r)
    BY <1>1, <1>2, <1>3 DEF InHand
  <1>5. requests' = [requests EXCEPT ![h] = r]
    BY DEF Truncate, PrefInv
  <1> HIDE DEF r
  <1>6. QED
    BY <1>1, <1>2, <1>3, <1>4, <1>5, RowKept DEF PrefInv

LEMMA WriteFileInv ==
  ASSUME PrefInv, NEW h \in Requests, WriteFile(h)
  PROVE  PrefInv'
  <1> DEFINE Row(g) == IF g = h THEN Returned(h)
                       ELSE [requests[g] EXCEPT !.overlaid = (requests[g].pc = "write")]
  <1>1. /\ prefs' = requests[h].data /\ torn' \in BOOLEAN /\ UNCHANGED backend
        /\ requests' = [g \in Requests |-> Row(g)]
        /\ requests[h].pc = "write"
    BY DEF WriteFile
  <1>2. backend = "json" /\ prefs' \in Preference
    BY <1>1 DEF PrefInv, RequestRow
  <1>3. ASSUME NEW g \in Requests
        PROVE  Row(g) \in RequestRow /\ InHand(Row(g))
    <2>1. CASE g = h
      BY <1>1, <2>1, ReturnedTyped
    <2>2. CASE g # h
      <3>1. requests[g] \in RequestRow /\ InHand(requests[g])
        BY DEF PrefInv
      <3>2. /\ Row(g) = [requests[g] EXCEPT !.overlaid = (requests[g].pc = "write")]
            /\ (requests[g].pc = "write") \in BOOLEAN
        BY <2>2
      <3>3. /\ Row(g) \in RequestRow /\ Row(g).todo = requests[g].todo
            /\ Row(g).pc = requests[g].pc
        BY <3>1, <3>2 DEF RequestRow
      <3>4. QED
        BY <3>1, <3>3 DEF InHand
    <2>3. QED
      BY <2>1, <2>2
  <1> HIDE DEF Row
  <1>4. requests' \in [Requests -> RequestRow]
    BY <1>1, <1>3
  <1>5. \A g \in Requests : InHand(requests'[g])
    BY <1>1, <1>3
  <1>6. QED
    BY <1>1, <1>2, <1>4, <1>5 DEF PrefInv

LEMMA PrefRestartInv ==
  ASSUME PrefInv, PrefRestart
  PROVE  PrefInv'
  <1>1. /\ prefs' = Read /\ torn' = FALSE /\ UNCHANGED backend
        /\ requests' = [h \in Requests |-> Idle]
    BY DEF PrefRestart
  <1>2. prefs' \in Preference
    BY <1>1, ReadTyped
  <1>3. /\ requests' \in [Requests -> RequestRow]
        /\ \A h \in Requests : InHand(requests'[h]) /\ requests'[h].pc = "idle"
    BY <1>1, IdleTyped DEF Idle
  <1>4. QED
    BY <1>1, <1>2, <1>3 DEF PrefInv

-----------------------------------------------------------------------------
(* Poller and preferences in one process.  A late tick has been counted    *)
(* only for a pin that stands, and the tick that follows has read it.      *)
LateInv ==
  /\ late \in {0, 1}
  /\ tick.pc \in {"sleep", "getLive"} => tick.match = Null
  /\ late = 1 => Pinned # Null /\ (tick.pc = "sleep" \/ tick.match = Pinned)

IInv == PollInv /\ PrefInv /\ LateInv

LEMMA InitInv ==
  ASSUME Init
  PROVE  IInv
  <1>1. PollInv
    BY PollInitInv DEF Init
  <1>2. PrefInv
    <2>1. /\ backend \in Backends /\ prefs = Defaults /\ torn = FALSE
          /\ requests = [h \in Requests |-> Idle]
      BY DEF Init, PrefInit
    <2>2. Defaults \in Preference
      BY PreferenceValues DEF Defaults, Preference
    <2>3. requests \in [Requests -> RequestRow]
          /\ \A h \in Requests : InHand(requests[h]) /\ requests[h].pc = "idle"
      BY <2>1, IdleTyped DEF Idle
    <2>4. QED
      BY <2>1, <2>2, <2>3 DEF PrefInv
  <1>3. LateInv
    BY DEF Init, PollInit, Resting, LateInv
  <1>4. QED
    BY <1>1, <1>2, <1>3 DEF IInv

(* A tick that was not late, or not counted yet, and ends.                 *)
LEMMA EndedTick ==
  ASSUME IInv, tick' = Resting, late' = Count(late), Pinned' = Pinned
  PROVE  LateInv'
  <1>1. tick'.pc = "sleep" /\ tick'.match = Null
    BY DEF Resting
  <1>2. tick.pc = "sleep" => tick.match = Null
    BY DEF IInv, LateInv
  <1>3. CASE late = 1
    <2>1. tick.match \in {Null, Pinned} /\ Pinned # Null
      BY <1>2, <1>3 DEF IInv, LateInv
    <2>2. late' = 1
      BY <1>3, <2>1 DEF Count, Late
    <2>3. QED
      BY <1>1, <2>1, <2>2 DEF LateInv
  <1>4. CASE late = 0
    <2>1. CASE Late
      <3>1. late' = 1 /\ Pinned # Null
        BY <1>4, <2>1 DEF Count, Late
      <3>2. QED
        BY <1>1, <3>1 DEF LateInv
    <2>2. CASE ~Late
      BY <1>1, <1>4, <2>2 DEF Count, LateInv
    <2>3. QED
      BY <2>1, <2>2
  <1>5. QED
    BY <1>3, <1>4 DEF IInv, LateInv

(* A tick that goes on with the match it has.                              *)
LEMMA OngoingTick ==
  ASSUME IInv, late' = Count(late), Pinned' = Pinned,
         tick'.pc \notin {"sleep", "getLive"},
         tick.pc # "sleep", tick'.match = tick.match
  PROVE  LateInv'
  BY DEF IInv, LateInv, Count, Late

LEMMA PollLate ==
  ASSUME IInv, Poll(Pinned), late' = Count(late), Pinned' = Pinned
  PROVE  LateInv'
  <1>1. tick \in TickRecord /\ (source = "replay" => tick.pc = "sleep")
    BY DEF IInv, PollInv, TickOK
  <1>2. CASE Wake(Pinned)
    <2>1. /\ tick' = IF Pinned = Null THEN [Resting EXCEPT !.pc = "getLive"]
                     ELSE [Resting EXCEPT !.pc = "getEventDetails", !.match = Pinned]
          /\ tick.pc = "sleep"
      BY <1>2 DEF Wake
    <2>2. /\ tick'.pc = IF Pinned = Null THEN "getLive" ELSE "getEventDetails"
          /\ tick'.match = Pinned
      BY <2>1 DEF Resting
    <2>3. late' = late
      BY <2>2 DEF Count, Late
    <2>4. QED
      BY <2>2, <2>3 DEF IInv, LateInv
  <1>3. CASE GotLive
    <2>1. tick.pc = "getLive" /\ tick.match = Null /\ late = 0
      BY <1>3 DEF GotLive, IInv, LateInv
    <2>2. CASE Succeed(IdleState)
      BY <2>2, EndedTick DEF Succeed
    <2>3. ASSUME NEW m \in Matches,
                 tick' = [tick EXCEPT !.pc = "getEventDetails", !.match = m]
          PROVE  LateInv'
      <3>1. tick'.pc = "getEventDetails"
        BY <1>1, <2>3 DEF TickRecord
      <3>2. late' = 0
        BY <2>1, <3>1 DEF Count, Late
      <3>3. QED
        BY <3>1, <3>2 DEF LateInv
    <2>4. QED
      BY <1>3, <2>2, <2>3 DEF GotLive, LiveMatches
  <1>4. CASE GotMatchBetweenGames \/ GotWindow("nothing")
    BY <1>4, EndedTick DEF GotMatchBetweenGames, GotWindow, Succeed
  <1>5. CASE GotLiveGame
    <2>1. PICK n \in Numbers : tick' = [tick EXCEPT !.pc = "getWindow", !.game = n]
      BY <1>5 DEF GotLiveGame, LiveNumbers
    <2>2. tick'.pc = "getWindow" /\ tick'.match = tick.match
      BY <1>1, <2>1 DEF TickRecord
    <2>3. QED
      BY <1>5, <2>2, OngoingTick DEF GotLiveGame
  <1>6. CASE ReplayTick
    <2>1. tick' = tick /\ tick.pc = "sleep" /\ tick.match = Null
      BY <1>1, <1>6 DEF ReplayTick, IInv, LateInv
    <2>2. late' = late
      BY <2>1 DEF Count, Late
    <2>3. QED
      BY <2>1, <2>2 DEF IInv, LateInv
  <1>7. QED
    BY <1>2, <1>3, <1>4, <1>5, <1>6 DEF Poll

LEMMA FaultLate ==
  ASSUME IInv, Faults, late' = Count(late), Pinned' = Pinned
  PROVE  LateInv'
  <1>1. tick' = Resting
    BY DEF Faults, TickFails, GotNothing, GotUnusable, GotUnnumbered, GotWindow,
           Fail, Keep, Succeed
  <1>2. QED
    BY <1>1, EndedTick

(* Whatever a step of the process does to the poller, the poller alone may *)
(* do: it finds some match pinned, or none.                                *)
LEMMA StepSimulates ==
  ASSUME IInv, [Next]_vars
  PROVE  [PollNext]_pollVars
  <1>1. Pinned \in Matches \union {Null}
    BY ReadTyped DEF IInv
  <1>2. CASE PollStep
    BY <1>1, <1>2 DEF PollStep, PollNext
  <1>3. CASE PollFault
    BY <1>3 DEF PollFault, PollNext
  <1>4. CASE World
    BY <1>4 DEF World, PollNext
  <1>5. CASE Restart
    BY <1>5 DEF Restart, PollNext
  <1>6. CASE \E h \in Requests : NewRequest(h) \/ Serve(h)
    BY <1>6 DEF NewRequest, Serve
  <1>7. CASE UNCHANGED vars
    BY <1>7 DEF vars
  <1>8. QED
    BY <1>2, <1>3, <1>4, <1>5, <1>6, <1>7 DEF Next

LEMMA PrefUnchanged ==
  ASSUME PrefInv, UNCHANGED prefVars
  PROVE  PrefInv' /\ Pinned' = Pinned
  BY DEF PrefInv, prefVars, Pinned, Read

LEMMA HandlerInv ==
  ASSUME IInv, NEW h \in Requests, NewRequest(h) \/ Serve(h)
  PROVE  PrefInv' /\ LateInv'
  <1>1. tick' = tick
    BY DEF NewRequest, Serve, pollVars
  <1>2. CASE NewRequest(h)
    <2>1. PrefInv' /\ late' = late
      BY <1>2, RequestInv DEF NewRequest, IInv
    <2>2. UNCHANGED <<prefs, torn>>
      BY <1>2 DEF NewRequest, Request, PutSelection, PutPreferences, Begin
    <2>3. Pinned' = Pinned
      BY <2>2 DEF Pinned, Read
    <2>4. QED
      BY <1>1, <2>1, <2>3 DEF IInv, LateInv
  <1>3. CASE Serve(h)
    <2>1. PrefInv'
      BY <1>3, SetRowInv, ReadFileInv, TruncateInv, WriteFileInv DEF Serve, Handler, IInv
    <2>2. late' = IF Pinned' # Pinned THEN 0 ELSE late
      BY <1>3 DEF Serve
    <2>3. LateInv'
      BY <1>1, <2>2 DEF IInv, LateInv
    <2>4. QED
      BY <2>1, <2>3
  <1>4. QED
    BY <1>2, <1>3

LEMMA StepInv ==
  ASSUME IInv, [Next]_vars
  PROVE  IInv'
  <1>1. PollInv'
    BY StepSimulates, PollStepInv DEF IInv
  <1>2. CASE \E h \in Requests : NewRequest(h) \/ Serve(h)
    BY <1>1, <1>2, HandlerInv DEF IInv
  <1>3. CASE PollStep
    <2>1. PrefInv' /\ Pinned' = Pinned
      BY <1>3, PrefUnchanged DEF PollStep, IInv
    <2>2. LateInv'
      BY <1>3, <2>1, PollLate DEF PollStep
    <2>3. QED
      BY <1>1, <2>1, <2>2 DEF IInv
  <1>4. CASE PollFault
    <2>1. PrefInv' /\ Pinned' = Pinned
      BY <1>4, PrefUnchanged DEF PollFault, IInv
    <2>2. LateInv'
      BY <1>4, <2>1, FaultLate DEF PollFault
    <2>3. QED
      BY <1>1, <2>1, <2>2 DEF IInv
  <1>5. CASE World \/ UNCHANGED vars
    <2>1. UNCHANGED prefVars /\ UNCHANGED <<late, tick>>
      BY <1>5 DEF World, Upstream, PassTime, StartGame, TakeObjective, EndGame,
                  upstreamOnly, vars, pollVars
    <2>2. PrefInv' /\ Pinned' = Pinned
      BY <2>1, PrefUnchanged DEF IInv
    <2>3. LateInv'
      BY <2>1, <2>2 DEF IInv, LateInv
    <2>4. QED
      BY <1>1, <2>2, <2>3 DEF IInv
  <1>6. CASE Restart
    <2>1. PrefInv'
      BY <1>6, PrefRestartInv DEF Restart, IInv
    <2>2. late' = 0 /\ tick' = Resting
      BY <1>6 DEF Restart, PollRestart
    <2>3. LateInv'
      BY <2>2 DEF LateInv, Resting
    <2>4. QED
      BY <1>1, <2>1, <2>3 DEF IInv
  <1>7. QED
    BY <1>2, <1>3, <1>4, <1>5, <1>6 DEF Next

(* Requests, the store with either adapter and the poller keep their       *)
(* invariants together: only the JSON file is ever unreadable, and a late  *)
(* tick is counted only for a pin that stands.                             *)
THEOREM NexusInvariance == Spec => [](IInv /\ PrefTypeOK)
  <1>1. Init => IInv
    BY InitInv
  <1>2. IInv /\ [Next]_vars => IInv'
    BY StepInv
  <1>3. IInv => PrefTypeOK
    BY PrefTyped DEF IInv
  <1>4. QED
    BY <1>1, <1>2, <1>3, PTL DEF Spec

(* Once the pin has moved, at most one tick still ends on another match.   *)
THEOREM OneLateTickAlways == Spec => []OneLateTick
  <1>1. IInv => OneLateTick
    BY DEF IInv, LateInv, OneLateTick
  <1>2. QED
    BY <1>1, NexusInvariance, PTL

(* The whole process implements the poller on its own, whose specification *)
(* lets a tick find any pin: so what is true of the poller whatever is     *)
(* pinned, the truth of the stale mark and of the countdowns, is true of   *)
(* the process with its requests, adapters and restarts.                   *)
THEOREM NexusImplementsPoller ==
  Spec => PollSpec /\ []StaleIffFailing /\ []TimerNeverEarly
  <1>1. Init => PollInit
    BY DEF Init
  <1>2. IInv /\ [Next]_vars => [PollNext]_pollVars
    BY StepSimulates
  <1>3. Spec => PollSpec
    BY <1>1, <1>2, NexusInvariance, PTL DEF Spec, PollSpec
  <1>4. QED
    BY <1>3, StaleIffFailingAlways, TimerNeverEarlyAlways, PTL
=============================================================================
