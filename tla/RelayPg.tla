------------------------------ MODULE RelayPg ------------------------------
(***************************************************************************)
(* Claims, recovery, heartbeats and submissions of the Agent Relay on      *)
(* PostgreSQL, where immediate_transaction is a plain READ COMMITTED       *)
(* transaction (database.py) and only the claim query takes row locks      *)
(* (FOR UPDATE SKIP LOCKED).  Module Relay is the same code on SQLite.     *)
(*                                                                         *)
(* A transaction reads, decides, and then updates and commits.  The rows   *)
(* it updates stay locked until the commit, so update and commit are one   *)
(* action; what others commit between its reads and its updates is what    *)
(* this module is about.  An UPDATE finds its row by primary key and sets  *)
(* the columns the session changed, whatever the row holds by then.        *)
(*                                                                         *)
(* The tasks are those of one inbox and were created before; which result  *)
(* is submitted does not matter here.  Leases are kept as in Relay.        *)
(***************************************************************************)
EXTENDS Naturals, FiniteSets

CONSTANTS Tasks,         \* tasks of the inbox
          Conns,         \* database connections of the server
          Processes,     \* API processes; each has one event loop
          LeaseSeconds,  \* LEASE_SECONDS, in ticks
          MaxAttempts,   \* RELAY_MAX_ATTEMPTS
          NotLoaded      \* the session has not loaded the row

ASSUME RelayPgAssumption ==
  /\ LeaseSeconds \in Nat \ {0}
  /\ MaxAttempts \in Nat \ {0}
  /\ Processes \in Nat \ {0}

VARIABLES tasks,     \* tasks table, committed
          attempts,  \* attempts table, committed
          txs        \* the transaction open on each connection

vars == <<tasks, attempts, txs>>

Numbers == 1 .. MaxAttempts
Finished == {"completed", "failed"}
LoopOps == {"heartbeat", "complete", "fail"}

TaskRow ==
  [status : {"queued", "processing"} \union Finished, count : 0 .. MaxAttempts]

AttemptRow ==
  [outcome : {"none", "processing", "expired"} \union Finished,
   ttl : 0 .. LeaseSeconds]

(* seen: the attempts the transaction found; rows: the task objects of its *)
(* session, as loaded; ttl: what is left of the lease it will grant.       *)
Transaction ==
  [op : {"none", "recover", "claim"} \union LoopOps,
   stage : {"none", "attempts", "tasks"},
   seen : SUBSET (Tasks \X Numbers),
   rows : [Tasks -> TaskRow \union {NotLoaded}],
   ttl : 0 .. LeaseSeconds]

ASSUME NotLoadedIsNoRow == NotLoaded \notin TaskRow

NoRows == [t \in Tasks |-> NotLoaded]

NoTx ==
  [op |-> "none", stage |-> "none", seen |-> {}, rows |-> NoRows, ttl |-> 0]

Init ==
  /\ tasks = [t \in Tasks |-> [status |-> "queued", count |-> 0]]
  /\ attempts = [t \in Tasks |-> [n \in Numbers |->
                   [outcome |-> "none", ttl |-> 0]]]
  /\ txs = [c \in Conns |-> NoTx]

Live(t, n) == attempts[t][n].outcome = "processing" /\ attempts[t][n].ttl > 0

Overdue(t, n) ==
  attempts[t][n].outcome = "processing" /\ attempts[t][n].ttl = 0

-----------------------------------------------------------------------------
(* recover_expired_in_session, first statement: the overdue attempts.  A   *)
(* claim starts with it as well and computes its lease from the same now.  *)
OverdueAttempts == {i \in Tasks \X Numbers : Overdue(i[1], i[2])}

Begin(c, op) ==
  /\ txs[c] = NoTx
  /\ txs' = [txs EXCEPT ![c] =
               [op |-> op, stage |-> "attempts", seen |-> OverdueAttempts,
                rows |-> NoRows, ttl |-> LeaseSeconds]]
  /\ UNCHANGED <<tasks, attempts>>

(* db.get(Task, ...) of every attempt found.                               *)
Load(c) ==
  /\ txs[c].stage = "attempts"
  /\ txs' = [txs EXCEPT
               ![c].stage = "tasks",
               ![c].rows = [t \in Tasks |->
                  IF \E n \in Numbers : <<t, n>> \in txs[c].seen
                    THEN tasks[t] ELSE NotLoaded]]
  /\ UNCHANGED <<tasks, attempts>>

(* Definitions marked "Faulty" are the slips a change to the code could    *)
(* make.  Nothing uses them: they show which property notices which slip.  *)

(* Faulty: the attempts alone are updated.                                 *)
ReturnedNever(t, c) == tasks[t]

(* The task rows after the session's UPDATEs: a task it loaded as being    *)
(* processed goes back to the queue, or fails at the limit it saw.         *)
Returned(t, c) ==
  LET row == txs[c].rows[t] IN
  IF row = NotLoaded \/ row.status # "processing" THEN tasks[t]
  ELSE [tasks[t] EXCEPT !.status =
          IF row.count >= MaxAttempts THEN "failed" ELSE "queued"]

ReturnedTasks(c) == [t \in Tasks |-> Returned(t, c)]

ExpiredAttempts(c) ==
  [t \in Tasks |-> [n \in Numbers |->
     IF <<t, n>> \in txs[c].seen
       THEN [attempts[t][n] EXCEPT !.outcome = "expired"]
       ELSE attempts[t][n]]]

CommitRecovery(c) ==
  /\ txs[c].op = "recover"
  /\ txs[c].stage = "tasks"
  /\ tasks' = ReturnedTasks(c)
  /\ attempts' = ExpiredAttempts(c)
  /\ txs' = [txs EXCEPT ![c] = NoTx]

-----------------------------------------------------------------------------
(* claim_one after its recovery.  SKIP LOCKED passes over every row that   *)
(* another transaction has updated or selected, so any queued task may be  *)
(* the first one left.                                                     *)
Selectable(c, t) ==
  /\ txs[c].op = "claim"
  /\ txs[c].stage = "tasks"
  /\ Returned(t, c).status = "queued"

ClaimNothing(c) ==
  /\ txs[c].op = "claim"
  /\ txs[c].stage = "tasks"
  /\ tasks' = ReturnedTasks(c)
  /\ attempts' = ExpiredAttempts(c)
  /\ txs' = [txs EXCEPT ![c] = NoTx]

(* The selected row does not refresh an object the session already holds.  *)
Count(c, t) ==
  IF txs[c].rows[t] = NotLoaded THEN tasks[t].count ELSE txs[c].rows[t].count

ClaimExhausted(c, t) ==
  /\ Selectable(c, t)
  /\ Count(c, t) >= MaxAttempts
  /\ tasks' = [ReturnedTasks(c) EXCEPT ![t].status = "failed"]
  /\ attempts' = ExpiredAttempts(c)
  /\ txs' = [txs EXCEPT ![c] = NoTx]

(* Faulty: no unique constraint on the attempt number.                     *)
ClaimTaskUnchecked(c, t) ==
  LET n == Count(c, t) + 1 IN
  /\ Selectable(c, t)
  /\ Count(c, t) < MaxAttempts
  /\ tasks' = [ReturnedTasks(c) EXCEPT ![t] =
                 [status |-> "processing", count |-> n]]
  /\ attempts' = [ExpiredAttempts(c) EXCEPT ![t][n] =
                    [outcome |-> "processing", ttl |-> txs[c].ttl]]
  /\ txs' = [txs EXCEPT ![c] = NoTx]

(* The unique constraint on (task_id, attempt_number) guards the insert.   *)
ClaimTask(c, t) ==
  LET n == Count(c, t) + 1 IN
  /\ Selectable(c, t)
  /\ Count(c, t) < MaxAttempts
  /\ attempts[t][n].outcome = "none"
  /\ tasks' = [ReturnedTasks(c) EXCEPT ![t] =
                 [status |-> "processing", count |-> n]]
  /\ attempts' = [ExpiredAttempts(c) EXCEPT ![t][n] =
                    [outcome |-> "processing", ttl |-> txs[c].ttl]]
  /\ txs' = [txs EXCEPT ![c] = NoTx]

-----------------------------------------------------------------------------
(* heartbeat and commit_terminal run on the event loop of their process:   *)
(* no two of one process are open at a time.                               *)
LoopFree ==
  Cardinality({c \in Conns : txs[c].op \in LoopOps}) < Processes

Read(c, op, t, n) ==
  /\ txs[c] = NoTx
  /\ LoopFree
  /\ tasks[t].status = "processing"
  /\ Live(t, n)
  /\ txs' = [txs EXCEPT ![c] =
               [op |-> op, stage |-> "tasks", seen |-> {<<t, n>>},
                rows |-> [NoRows EXCEPT ![t] = tasks[t]],
                ttl |-> LeaseSeconds]]
  /\ UNCHANGED <<tasks, attempts>>

CommitHeartbeat(c, t, n) ==
  /\ txs[c].op = "heartbeat"
  /\ <<t, n>> \in txs[c].seen
  /\ attempts' = [attempts EXCEPT ![t][n].ttl = txs[c].ttl]
  /\ txs' = [txs EXCEPT ![c] = NoTx]
  /\ UNCHANGED tasks

CommitTerminal(c, t, n) ==
  LET outcome == IF txs[c].op = "complete" THEN "completed" ELSE "failed" IN
  /\ txs[c].op \in {"complete", "fail"}
  /\ <<t, n>> \in txs[c].seen
  /\ tasks' = [tasks EXCEPT ![t].status = outcome]
  /\ attempts' = [attempts EXCEPT ![t][n].outcome = outcome]
  /\ txs' = [txs EXCEPT ![c] = NoTx]

(* A statement fails (the unique constraint on the attempt number, a lock  *)
(* cycle, a lost connection) or the server stops: nothing is committed.    *)
Rollback(c) ==
  /\ txs[c] # NoTx
  /\ txs' = [txs EXCEPT ![c] = NoTx]
  /\ UNCHANGED <<tasks, attempts>>

Older(ttl) == IF ttl > 0 THEN ttl - 1 ELSE 0

Tick ==
  /\ attempts' = [t \in Tasks |-> [n \in Numbers |->
                    [attempts[t][n] EXCEPT !.ttl = Older(@)]]]
  /\ txs' = [c \in Conns |-> [txs[c] EXCEPT !.ttl = Older(@)]]
  /\ UNCHANGED tasks

Next ==
  \/ \E c \in Conns :
       \/ Begin(c, "recover") \/ Begin(c, "claim")
       \/ Load(c) \/ CommitRecovery(c) \/ ClaimNothing(c) \/ Rollback(c)
       \/ \E t \in Tasks : ClaimExhausted(c, t) \/ ClaimTask(c, t)
       \/ \E t \in Tasks, n \in Numbers :
            \/ \E op \in LoopOps : Read(c, op, t, n)
            \/ CommitHeartbeat(c, t, n)
            \/ CommitTerminal(c, t, n)
  \/ Tick

Spec == Init /\ [][Next]_vars

-----------------------------------------------------------------------------
(* Type correctness of the tables and of the open transactions.            *)
TypeOK ==
  /\ tasks \in [Tasks -> TaskRow]
  /\ attempts \in [Tasks -> [Numbers -> AttemptRow]]
  /\ txs \in [Conns -> Transaction]

(* However transactions overlap, a task in processing has a delivery that  *)
(* recovery will find: none is lost with nobody left to return it.         *)
NeverStranded ==
  \A t \in Tasks : tasks[t].status = "processing" =>
    \E n \in Numbers : attempts[t][n].outcome = "processing"

(* The deliveries of a task are numbered without a gap and never more than *)
(* attempt_count says, although sessions decide on counts they read before *)
(* others claimed: the unique constraint turns those claims away.          *)
DeliveriesNumbered ==
  \A t \in Tasks, n \in Numbers :
    attempts[t][n].outcome # "none" <=> n <= tasks[t].count

(* SPEC.md, 3: concurrent workers cannot successfully claim the same task  *)
(* while a lease on it is active.                                          *)
NoOverlap ==
  \A t \in Tasks, m, n \in Numbers : Live(t, m) /\ Live(t, n) => m = n
=============================================================================
