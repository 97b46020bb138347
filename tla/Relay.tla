------------------------------- MODULE Relay -------------------------------
(***************************************************************************)
(* The Agent Relay server (homework_3/agent-relay) on its SQLite starter   *)
(* database.  Every storage operation runs inside one BEGIN IMMEDIATE      *)
(* transaction (database.py: immediate_transaction), so each operation is  *)
(* one atomic action here; the PostgreSQL deployment, where it is not, is  *)
(* module RelayPg.                                                         *)
(*                                                                         *)
(* Time.  A lease is kept as the time it has left: ttl = 0 stands for      *)
(* lease_expires_at <= utcnow(), and Tick ages every lease by one.  Rows   *)
(* are functions over fixed sets of identifiers: a row that was never      *)
(* inserted has status "absent" or outcome "none".  A claim token is the   *)
(* pair (task, attempt number) it was issued for, since the code draws it  *)
(* at random for that attempt row and looks it up by task and hash.        *)
(***************************************************************************)
EXTENDS Naturals

CONSTANTS Agents,        \* agent identities that may register
          Tasks,         \* task ids the server may draw
          Keys,          \* Idempotency-Key values senders use
          Inputs,        \* task inputs
          Results,       \* outputs and error texts workers submit
          NoKey,         \* the header is absent
          Null,          \* SQL NULL
          LeaseSeconds,  \* LEASE_SECONDS, in ticks
          MaxAttempts    \* largest RELAY_MAX_ATTEMPTS the server is run with

(* positive_int (database.py) never yields zero for either setting.        *)
ASSUME RelayAssumption ==
  /\ LeaseSeconds \in Nat \ {0}
  /\ MaxAttempts \in Nat \ {0}
  /\ NoKey \notin Keys
  /\ Null \notin Results
  /\ Null # "attempts_exhausted"

VARIABLES agents,    \* registered agents
          tasks,     \* tasks table
          attempts,  \* attempts table, by task and attempt_number
          nCreated,  \* tasks created so far: the order of created_at
          limit,     \* MAX_ATTEMPTS of the running server
          receipts,  \* 201 replies senders received from POST /tasks
          acks       \* 200 replies workers received to complete / fail

vars == <<agents, tasks, attempts, nCreated, limit, receipts, acks>>

Numbers == 1 .. MaxAttempts
Actions == {"complete", "fail"}
Finished == {"completed", "failed"}

TaskRow ==
  [status    : {"absent", "queued", "processing"} \union Finished,
   sender    : Agents \union {Null},
   recipient : Agents \union {Null},
   input     : Inputs \union {Null},
   key       : Keys \union {NoKey},
   output    : Results \union {Null},
   error     : Results \union {Null, "attempts_exhausted"},
   count     : 0 .. MaxAttempts,
   created   : Nat,
   finished  : BOOLEAN]

AttemptRow ==
  [outcome : {"none", "processing", "expired"} \union Finished,
   ttl     : 0 .. LeaseSeconds,
   action  : Actions \union {Null},
   payload : Results \union {Null}]

Receipt ==
  [sender : Agents, key : Keys \union {NoKey}, to : Agents, input : Inputs,
   task : Tasks]

Ack ==
  [task : Tasks, number : Numbers, action : Actions, payload : Results]

AbsentTask ==
  [status |-> "absent", sender |-> Null, recipient |-> Null, input |-> Null,
   key |-> NoKey, output |-> Null, error |-> Null, count |-> 0,
   created |-> 0, finished |-> FALSE]

NoAttempt ==
  [outcome |-> "none", ttl |-> 0, action |-> Null, payload |-> Null]

Init ==
  /\ agents = {}
  /\ tasks = [t \in Tasks |-> AbsentTask]
  /\ attempts = [t \in Tasks |-> [n \in Numbers |-> NoAttempt]]
  /\ nCreated = 0
  /\ limit \in Numbers
  /\ receipts = {}
  /\ acks = {}

-----------------------------------------------------------------------------
(* Definitions marked "Faulty" are the slips a change to the code could    *)
(* make.  Nothing uses them: they show which property notices which slip.  *)

(* Faulty: ownership without the expiry check; expiry with a rounded clock. *)
LiveUnexpired(t, n) == attempts[t][n].outcome = "processing"

OverdueEarly(t, n) ==
  attempts[t][n].outcome = "processing" /\ attempts[t][n].ttl <= 1

(* An attempt whose lease a worker still holds, and one recovery will find. *)
Live(t, n) == attempts[t][n].outcome = "processing" /\ attempts[t][n].ttl > 0

Overdue(t, n) ==
  attempts[t][n].outcome = "processing" /\ attempts[t][n].ttl = 0

(* storage.register_agent *)
Register(a) ==
  /\ a \notin agents
  /\ agents' = agents \union {a}
  /\ UNCHANGED <<tasks, attempts, nCreated, limit, receipts, acks>>

(* storage.create_task: the tasks this sender already created with the key. *)
Prior(s, k) ==
  {t \in Tasks : /\ tasks[t].status # "absent"
                 /\ tasks[t].sender = s
                 /\ k # NoKey
                 /\ tasks[t].key = k}

NewTask(s, r, x, k) ==
  [AbsentTask EXCEPT !.status = "queued", !.sender = s, !.recipient = r,
                     !.input = x, !.key = k, !.created = nCreated]

(* The 201 reply reaches the sender or is lost on the way.                  *)
Receive(s, r, x, k, t) ==
  receipts' \in
    {receipts,
     receipts \union
       {[sender |-> s, key |-> k, to |-> r, input |-> x, task |-> t]}}

CreateNew(s, r, x, k, t) ==
  /\ s \in agents
  /\ r \in agents
  /\ Prior(s, k) = {}
  /\ tasks[t].status = "absent"
  /\ tasks' = [tasks EXCEPT ![t] = NewTask(s, r, x, k)]
  /\ nCreated' = nCreated + 1
  /\ Receive(s, r, x, k, t)
  /\ UNCHANGED <<agents, attempts, limit, acks>>

(* Faulty: only the input is compared.                                     *)
SameInput(t, r, x) == tasks[t].input = x

(* The existing task is returned only for the same recipient and input; a  *)
(* different payload is answered 409 and changes nothing.                  *)
SameRequest(t, r, x) == tasks[t].recipient = r /\ tasks[t].input = x

CreateReplay(s, r, x, k, t) ==
  /\ s \in agents
  /\ r \in agents
  /\ t \in Prior(s, k)
  /\ SameRequest(t, r, x)
  /\ Receive(s, r, x, k, t)
  /\ UNCHANGED <<agents, tasks, attempts, nCreated, limit, acks>>

-----------------------------------------------------------------------------
(* Faulty: attempts at the limit are left to the task row.                 *)
RecoveredBelowLimit(t, n) ==
  IF Overdue(t, n) /\ tasks[t].count < limit
    THEN [attempts[t][n] EXCEPT !.outcome = "expired"]
    ELSE attempts[t][n]

(* database.recover_expired_in_session: what one pass leaves in each row.  *)
(* The loop visits every overdue attempt; the first one of a task moves it *)
(* out of "processing" and the others then leave the task alone.           *)
RecoveredAttempt(t, n) ==
  IF Overdue(t, n)
    THEN [attempts[t][n] EXCEPT !.outcome = "expired"]
    ELSE attempts[t][n]

RecoveredAttempts ==
  [t \in Tasks |-> [n \in Numbers |-> RecoveredAttempt(t, n)]]

(* Faulty: the budget starts anew.                                         *)
AfterExpiryAnew(task) == [task EXCEPT !.status = "queued", !.count = 0]

AfterExpiry(task) ==
  IF task.count >= limit
    THEN [task EXCEPT !.status = "failed", !.error = "attempts_exhausted",
                      !.output = Null, !.finished = TRUE]
    ELSE [task EXCEPT !.status = "queued", !.finished = FALSE]

Lapsed(t) ==
  tasks[t].status = "processing" /\ \E n \in Numbers : Overdue(t, n)

RecoveredTasks ==
  [t \in Tasks |-> IF Lapsed(t) THEN AfterExpiry(tasks[t]) ELSE tasks[t]]

(* One pass of main.recovery_loop. *)
Recover ==
  /\ tasks' = RecoveredTasks
  /\ attempts' = RecoveredAttempts
  /\ UNCHANGED <<agents, nCreated, limit, receipts, acks>>

(* Faulty: the inbox offers claimed tasks again.                           *)
InboxUnfinished(a) ==
  {t \in Tasks : /\ RecoveredTasks[t].status \in {"queued", "processing"}
                 /\ RecoveredTasks[t].recipient = a}

(* storage.claim_one recovers first and then looks at the oldest queued    *)
(* task of the caller's inbox.                                             *)
Inbox(a) ==
  {t \in Tasks : /\ RecoveredTasks[t].status = "queued"
                 /\ RecoveredTasks[t].recipient = a}

Oldest(t, a) ==
  /\ t \in Inbox(a)
  /\ \A u \in Inbox(a) : tasks[t].created <= tasks[u].created

ClaimNothing(a) ==
  /\ a \in agents
  /\ Inbox(a) = {}
  /\ Recover

(* Faulty: the exhausted task is skipped and left in the queue.            *)
ClaimExhaustedSkipped(a, t) ==
  /\ a \in agents
  /\ Oldest(t, a)
  /\ RecoveredTasks[t].count >= limit
  /\ Recover

(* Only a server restarted with a smaller limit finds such a task queued;  *)
(* the caller is then answered 204.                                        *)
ClaimExhausted(a, t) ==
  /\ a \in agents
  /\ Oldest(t, a)
  /\ RecoveredTasks[t].count >= limit
  /\ tasks' = [RecoveredTasks EXCEPT ![t].status = "failed",
                                     ![t].error = "attempts_exhausted",
                                     ![t].finished = TRUE]
  /\ attempts' = RecoveredAttempts
  /\ UNCHANGED <<agents, nCreated, limit, receipts, acks>>

NewAttempt ==
  [NoAttempt EXCEPT !.outcome = "processing", !.ttl = LeaseSeconds]

(* The unique constraint on (task_id, attempt_number) guards the insert.   *)
ClaimTask(a, t) ==
  LET n == RecoveredTasks[t].count + 1 IN
  /\ a \in agents
  /\ Oldest(t, a)
  /\ RecoveredTasks[t].count < limit
  /\ attempts[t][n].outcome = "none"
  /\ tasks' = [RecoveredTasks EXCEPT ![t].status = "processing",
                                     ![t].count = n]
  /\ attempts' = [RecoveredAttempts EXCEPT ![t][n] = NewAttempt]
  /\ UNCHANGED <<agents, nCreated, limit, receipts, acks>>

-----------------------------------------------------------------------------
(* storage.heartbeat; every refusal (404, 409) changes nothing.            *)
Heartbeat(a, t, n) ==
  /\ tasks[t].status = "processing"
  /\ tasks[t].recipient = a
  /\ Live(t, n)
  /\ attempts' = [attempts EXCEPT ![t][n].ttl = LeaseSeconds]
  /\ UNCHANGED <<agents, tasks, nCreated, limit, receipts, acks>>

(* Faulty: expired attempts may still submit; the lease is asked for before *)
(* the stored result; a stored result may be replaced under the lease.      *)
ReplyLate(a, t, n, act, v) ==
  IF /\ tasks[t].recipient = a
     /\ attempts[t][n].outcome \in {"processing", "expired"}
     /\ tasks[t].status \in {"queued", "processing"}
    THEN "accept" ELSE "stale"

ReplyLeaseFirst(a, t, n, act, v) ==
  LET at == attempts[t][n] IN
  CASE tasks[t].recipient # a \/ at.ttl = 0 -> "stale"
    [] OTHER ->
         IF at.outcome \in Finished
           THEN IF at.action = act /\ at.payload = v THEN "repeat"
                                                    ELSE "conflict"
           ELSE IF Live(t, n) THEN "accept" ELSE "stale"

ReplyReplaces(a, t, n, act, v) ==
  LET at == attempts[t][n] IN
  IF tasks[t].recipient = a /\ at.outcome # "none" /\ at.ttl > 0
    THEN "accept" ELSE "stale"

(* storage.commit_terminal: what a submission is answered in this state.   *)
Reply(a, t, n, act, v) ==
  LET at == attempts[t][n] IN
  CASE tasks[t].status = "absent" \/ tasks[t].recipient # a -> "not_found"
    [] OTHER ->
  CASE at.outcome = "none" -> "stale"
    [] at.outcome \in Finished ->
         IF at.action = act /\ at.payload = v THEN "repeat" ELSE "conflict"
    [] OTHER ->
         IF Live(t, n) /\ tasks[t].status = "processing"
           THEN "accept" ELSE "stale"

Outcome(act) == IF act = "complete" THEN "completed" ELSE "failed"

(* The 200 reply reaches the worker or is lost on the way.                 *)
Acknowledge(t, n, act, v) ==
  acks' \in
    {acks,
     acks \union {[task |-> t, number |-> n, action |-> act, payload |-> v]}}

Submit(a, t, n, act, v) ==
  /\ Reply(a, t, n, act, v) = "accept"
  /\ tasks' = [tasks EXCEPT
                 ![t].status = Outcome(act),
                 ![t].output = IF act = "complete" THEN v ELSE Null,
                 ![t].error = IF act = "complete" THEN Null ELSE v,
                 ![t].finished = TRUE]
  /\ attempts' = [attempts EXCEPT ![t][n].outcome = Outcome(act),
                                  ![t][n].action = act,
                                  ![t][n].payload = v]
  /\ Acknowledge(t, n, act, v)
  /\ UNCHANGED <<agents, nCreated, limit, receipts>>

Resubmit(a, t, n, act, v) ==
  /\ Reply(a, t, n, act, v) = "repeat"
  /\ Acknowledge(t, n, act, v)
  /\ UNCHANGED <<agents, tasks, attempts, nCreated, limit, receipts>>

(* The server stops and starts again, possibly with another                *)
(* RELAY_MAX_ATTEMPTS: the tables are durable and nothing else is kept.     *)
Restart(l) ==
  /\ limit' = l
  /\ UNCHANGED <<agents, tasks, attempts, nCreated, receipts, acks>>

(* The clock advances; a lease that ran out stays run out.                 *)
Aged(at) == [at EXCEPT !.ttl = IF @ > 0 THEN @ - 1 ELSE 0]

Tick ==
  /\ attempts' = [t \in Tasks |-> [n \in Numbers |-> Aged(attempts[t][n])]]
  /\ UNCHANGED <<agents, tasks, nCreated, limit, receipts, acks>>

Claim(a) ==
  \/ ClaimNothing(a)
  \/ \E t \in Tasks : ClaimExhausted(a, t) \/ ClaimTask(a, t)

Create(s) ==
  \E r \in Agents, x \in Inputs, k \in Keys \union {NoKey}, t \in Tasks :
    CreateNew(s, r, x, k, t) \/ CreateReplay(s, r, x, k, t)

Terminal(a) ==
  \E t \in Tasks, n \in Numbers, act \in Actions, v \in Results :
    Submit(a, t, n, act, v) \/ Resubmit(a, t, n, act, v)

Next ==
  \/ \E a \in Agents : Register(a) \/ Create(a) \/ Claim(a) \/ Terminal(a)
  \/ \E a \in Agents, t \in Tasks, n \in Numbers : Heartbeat(a, t, n)
  \/ \E l \in Numbers : Restart(l)
  \/ Recover
  \/ Tick

Spec == Init /\ [][Next]_vars

(* The clock runs, the recovery loop runs every RECOVERY_INTERVAL_SECONDS  *)
(* and survives its exceptions (main.recovery_loop), and each inbox has a  *)
(* worker that keeps polling (worker.run_worker).  Nothing is assumed of   *)
(* heartbeats, submissions or restarts.                                    *)
Fairness ==
  /\ WF_vars(Tick)
  /\ WF_vars(Recover)
  /\ \A a \in Agents : WF_vars(Claim(a))

FairSpec == Spec /\ Fairness

-----------------------------------------------------------------------------
(* The relay is a task queue (module TaskQueue): what its rows mean there.  *)
PhaseOf(task, claimed) ==
  CASE task.status = "absent" -> "absent"
    [] task.status = "queued" -> "waiting"
    [] task.status = "processing" -> claimed
    [] OTHER -> "done"

ResultOf(task) ==
  CASE task.status = "completed" -> <<"completed", task.output>>
    [] task.status = "failed" -> <<"failed", task.error>>
    [] OTHER -> Null

Phase(t) == PhaseOf(tasks[t], IF Lapsed(t) THEN "lapsed" ELSE "held")

Notice(x) == <<x.task, <<Outcome(x.action), x.payload>>>>

Queue == INSTANCE TaskQueue
           WITH Outcomes   <- Finished \X Results,
                GivenUp    <- <<"failed", "attempts_exhausted">>,
                Nothing    <- Null,
                phase      <- [t \in Tasks |-> Phase(t)],
                deliveries <- [t \in Tasks |-> tasks[t].count],
                result     <- [t \in Tasks |-> ResultOf(tasks[t])],
                told       <- {Notice(x) : x \in acks}

(* SPEC.md, 1 to 6: every behaviour of the tables is one of a task queue:   *)
(* one holder at a time, a lapsed task only swept or handed on, given up    *)
(* only after a delivery, one result for ever, and workers told no other.   *)
ImplementsTaskQueue == Queue!Spec

(* Type correctness of the tables and of the replies sent.                 *)
TypeOK ==
  /\ agents \subseteq Agents
  /\ tasks \in [Tasks -> TaskRow]
  /\ attempts \in [Tasks -> [Numbers -> AttemptRow]]
  /\ nCreated \in Nat
  /\ limit \in Numbers
  /\ receipts \subseteq Receipt
  /\ acks \subseteq Ack

(* SPEC.md, 3: workers never hold two unexpired leases on one task, however *)
(* claims, recoveries, heartbeats and restarts interleave.                 *)
NoOverlap ==
  \A t \in Tasks, m, n \in Numbers : Live(t, m) /\ Live(t, n) => m = n

(* A task row and its attempt rows tell one story: a task is processing    *)
(* exactly while its latest attempt is, no older attempt is ever left      *)
(* processing, and the delivery numbers have no gap.                       *)
Agrees(task, ats) ==
  /\ \A n \in Numbers :
       /\ (ats[n].outcome # "none") <=> (n <= task.count)
       /\ ats[n].outcome = "processing" =>
            n = task.count /\ task.status = "processing"
  /\ task.status = "processing" =>
       /\ task.count \in Numbers
       /\ ats[task.count].outcome = "processing"

DeliveryAgrees == \A t \in Tasks : Agrees(tasks[t], attempts[t])

(* The one submission that was accepted is the latest attempt's and is the *)
(* result the sender reads: completed or failed status, output or error.   *)
AcceptedIsStored ==
  \A t \in Tasks, n \in Numbers :
    LET at == attempts[t][n] IN
    at.outcome \in Finished =>
      /\ n = tasks[t].count
      /\ tasks[t].status = at.outcome
      /\ at.outcome = Outcome(at.action)
      /\ at.payload =
           IF at.action = "complete" THEN tasks[t].output ELSE tasks[t].error

(* What workers were told: no two different results of one task were ever  *)
(* acknowledged, and a worker repeating the submission it was acknowledged *)
(* for is answered 200 again, whatever happened since (commit_terminal).   *)
AcksAgree ==
  /\ \A x, y \in acks : x.task = y.task => x = y
  /\ \A x \in acks :
       Reply(tasks[x.task].recipient, x.task, x.number, x.action, x.payload)
         = "repeat"

(* SPEC.md, 2: replies to one sender's requests with one Idempotency-Key   *)
(* all name one task, and that task carries the request's payload.         *)
ReceiptsAgree ==
  /\ \A x, y \in receipts :
       (x.sender = y.sender /\ x.key = y.key /\ x.key # NoKey) => x = y
  /\ \A x \in receipts :
       /\ tasks[x.task].status # "absent"
       /\ tasks[x.task].sender = x.sender
       /\ tasks[x.task].recipient = x.to
       /\ tasks[x.task].input = x.input

(* A finished task never changes again: no late submission, recovery pass, *)
(* claim or restart with another attempt limit touches the row.            *)
FinishedIsFinal ==
  [][\A t \in Tasks : tasks[t].status \in Finished => tasks'[t] = tasks[t]]_vars

(* A granted lease is honoured: while it has time left nobody takes the    *)
(* task back, and only its own holder's submission closes the attempt.     *)
LeaseHonoured ==
  [][\A t \in Tasks, n \in Numbers :
       Live(t, n) =>
         \/ attempts'[t][n].outcome = "processing" /\ tasks'[t] = tasks[t]
         \/ attempts'[t][n].outcome \in Finished]_vars

(* SPEC.md, 4 and lifecycle: an expired lease is never revived, whether or *)
(* not recovery has seen it; the attempt can only become "expired".        *)
NoRevival ==
  [][\A t \in Tasks, n \in Numbers :
       /\ Overdue(t, n) => \/ attempts'[t][n] = attempts[t][n]
                           \/ attempts'[t][n].outcome = "expired"
       /\ attempts[t][n].outcome = "expired" =>
            attempts'[t][n].outcome = "expired"]_vars

(* Every expired lease is eventually noticed, with no claim needed: the    *)
(* recovery loop alone returns the work of vanished workers.               *)
ExpiredIsRecovered ==
  \A t \in Tasks, n \in Numbers :
    Overdue(t, n) ~> attempts[t][n].outcome = "expired"

(* A task whose holders stop heartbeating is settled in the end: completed, *)
(* failed, or given up after the last attempt - never claimed and requeued *)
(* for ever, and never left behind by restarts.                            *)
EventuallySettled ==
  \A t \in Tasks :
    <>[][\A a \in Agents, n \in Numbers : ~Heartbeat(a, t, n)]_vars =>
      (tasks[t].status # "absent" ~> tasks[t].status \in Finished)
=============================================================================
