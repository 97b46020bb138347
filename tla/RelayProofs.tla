---------------------------- MODULE RelayProofs ----------------------------
(***************************************************************************)
(* Theorems about Relay, for every set of agents, tasks, keys, inputs and  *)
(* results and every lease length and attempt limit.                       *)
(***************************************************************************)
EXTENDS Relay, TLAPS

(* A row that was never inserted is blank, so a new task starts undelivered. *)
AbsentIsBlank ==
  \A t \in Tasks : tasks[t].status = "absent" => tasks[t].count = 0

(* The inductive invariant: the tables are well typed, each task row agrees *)
(* with its attempt rows, and a blank row carries no delivery count.        *)
IInv == TypeOK /\ AbsentIsBlank /\ DeliveryAgrees

-----------------------------------------------------------------------------
(* The blank rows are well typed. *)
LEMMA BlankRows == AbsentTask \in TaskRow /\ NoAttempt \in AttemptRow
  BY RelayAssumption DEF AbsentTask, NoAttempt, TaskRow, AttemptRow

(* What a recovery pass returns for one task and one attempt. *)
LEMMA RecoveredRows ==
  ASSUME TypeOK
  PROVE  /\ RecoveredTasks \in [Tasks -> TaskRow]
         /\ RecoveredAttempts \in [Tasks -> [Numbers -> AttemptRow]]
         /\ \A t \in Tasks :
              /\ RecoveredTasks[t] =
                   IF Lapsed(t) THEN AfterExpiry(tasks[t]) ELSE tasks[t]
              /\ RecoveredTasks[t].count = tasks[t].count
              /\ RecoveredTasks[t].recipient = tasks[t].recipient
              /\ RecoveredTasks[t].status = "absent" <=>
                   tasks[t].status = "absent"
         /\ \A t \in Tasks, n \in Numbers :
              RecoveredAttempts[t][n] = RecoveredAttempt(t, n)
  <1>1. ASSUME NEW t \in Tasks
        PROVE  /\ AfterExpiry(tasks[t]) \in TaskRow
               /\ AfterExpiry(tasks[t]).count = tasks[t].count
               /\ AfterExpiry(tasks[t]).recipient = tasks[t].recipient
               /\ AfterExpiry(tasks[t]).status # "absent"
    BY <1>1 DEF TypeOK, TaskRow, AfterExpiry, Finished
  <1>2. ASSUME NEW t \in Tasks, NEW n \in Numbers
        PROVE  RecoveredAttempt(t, n) \in AttemptRow
    <2>1. attempts[t][n] \in AttemptRow
      BY <1>2 DEF TypeOK
    <2>2. [attempts[t][n] EXCEPT !.outcome = "expired"] \in AttemptRow
      BY <2>1 DEF AttemptRow
    <2>3. QED
      BY <2>1, <2>2 DEF RecoveredAttempt
  <1>3. QED
    BY <1>1, <1>2 DEF TypeOK, RecoveredTasks, RecoveredAttempts, Lapsed

(* A recovery pass keeps every task in agreement with its attempts. *)
LEMMA RecoveryAgrees ==
  ASSUME TypeOK, DeliveryAgrees, NEW t \in Tasks
  PROVE  Agrees(RecoveredTasks[t], RecoveredAttempts[t])
  <1>1. tasks[t] \in TaskRow /\ attempts[t] \in [Numbers -> AttemptRow]
    BY DEF TypeOK
  <1>2. Agrees(tasks[t], attempts[t])
    BY DEF DeliveryAgrees
  <1>3. CASE Lapsed(t)
    <2>1. RecoveredTasks[t].count = tasks[t].count /\ RecoveredTasks[t].status \in {"failed", "queued"}
      BY <1>1, <1>3, RecoveredRows DEF AfterExpiry, TaskRow
    <2>2. \A n \in Numbers : RecoveredAttempts[t][n] = RecoveredAttempt(t, n)
      BY RecoveredRows
    <2>3. PICK m \in Numbers : Overdue(t, m)
      BY <1>3 DEF Lapsed
    <2>4. \A n \in Numbers : attempts[t][n].outcome = "processing" => n = m
      BY <1>2, <2>3 DEF Agrees, Overdue
    <2>5. ASSUME NEW n \in Numbers
          PROVE  /\ RecoveredAttempt(t, n).outcome # "processing"
                 /\ RecoveredAttempt(t, n).outcome # "none" <=> attempts[t][n].outcome # "none"
      BY <1>1, <2>3, <2>4, <2>5 DEF RecoveredAttempt, Overdue, AttemptRow
    <2>6. QED
      BY <1>2, <2>1, <2>2, <2>5 DEF Agrees
  <1>4. CASE ~Lapsed(t)
    <2>1. RecoveredTasks[t] = tasks[t]
      BY <1>4, RecoveredRows
    <2>2. \A n \in Numbers : ~Overdue(t, n)
      BY <1>2, <1>4 DEF Agrees, Overdue, Lapsed
    <2>3. \A n \in Numbers : RecoveredAttempts[t][n] = attempts[t][n]
      BY <2>2, RecoveredRows DEF RecoveredAttempt
    <2>4. QED
      BY <1>2, <2>1, <2>3 DEF Agrees
  <1>5. QED
    BY <1>3, <1>4

-----------------------------------------------------------------------------
(* Each operation keeps the invariant.  One lemma per table-changing action. *)
LEMMA RecoverKeeps ==
  ASSUME IInv, Recover
  PROVE  IInv'
  <1>1. TypeOK'
    BY RecoveredRows DEF IInv, TypeOK, Recover
  <1>2. AbsentIsBlank'
    BY RecoveredRows DEF IInv, AbsentIsBlank, Recover, AfterExpiry, TypeOK, TaskRow
  <1>3. DeliveryAgrees'
    BY RecoveryAgrees DEF IInv, DeliveryAgrees, Recover
  <1>4. QED
    BY <1>1, <1>2, <1>3 DEF IInv

(* A claim that gives up the oldest task keeps the invariant.              *)
LEMMA ClaimExhaustedKeeps ==
  ASSUME IInv, NEW a \in Agents, NEW t \in Tasks, ClaimExhausted(a, t)
  PROVE  IInv'
  <1> DEFINE row == [RecoveredTasks[t] EXCEPT !.status = "failed",
                       !.error = "attempts_exhausted", !.finished = TRUE]
  <1>1. RecoveredTasks[t] \in TaskRow
    BY RecoveredRows DEF IInv
  <1>2. RecoveredTasks[t].status = "queued"
    BY DEF ClaimExhausted, Oldest, Inbox
  <1>3. /\ row \in TaskRow
        /\ row.status = "failed"
        /\ row.count = RecoveredTasks[t].count
    BY <1>1 DEF TaskRow, Finished
  <1>4. /\ tasks' = [RecoveredTasks EXCEPT ![t] = row]
        /\ attempts' = RecoveredAttempts
        /\ UNCHANGED <<agents, nCreated, limit, receipts, acks>>
    BY RecoveredRows DEF IInv, ClaimExhausted
  <1>5. TypeOK'
    <2>1. tasks' \in [Tasks -> TaskRow]
      BY <1>3, <1>4, RecoveredRows DEF IInv
    <2>2. QED
      BY <1>4, <2>1, RecoveredRows DEF IInv, TypeOK
  <1>6. AbsentIsBlank'
    BY <1>3, <1>4, RecoveredRows DEF IInv, AbsentIsBlank
  <1>7. DeliveryAgrees'
    <2>1. ASSUME NEW u \in Tasks PROVE Agrees(tasks'[u], attempts'[u])
      <3>1. Agrees(RecoveredTasks[u], RecoveredAttempts[u])
        BY RecoveryAgrees DEF IInv
      <3>2. CASE u = t
        BY <1>2, <1>3, <1>4, <3>1, <3>2, RecoveredRows DEF IInv, Agrees
      <3>3. CASE u # t
        BY <1>4, <3>1, <3>3, RecoveredRows DEF IInv
      <3>4. QED
        BY <3>2, <3>3
    <2>2. QED
      BY <2>1 DEF DeliveryAgrees
  <1>8. QED
    BY <1>5, <1>6, <1>7 DEF IInv

(* A claim that hands the oldest task out keeps the invariant.             *)
LEMMA ClaimTaskKeeps ==
  ASSUME IInv, NEW a \in Agents, NEW t \in Tasks, ClaimTask(a, t)
  PROVE  IInv'
  <1> DEFINE n == RecoveredTasks[t].count + 1
             row == [RecoveredTasks[t] EXCEPT !.status = "processing",
                                              !.count = n]
  <1>1. RecoveredTasks[t] \in TaskRow
    BY RecoveredRows DEF IInv
  <1>2. RecoveredTasks[t].status = "queued"
    BY DEF ClaimTask, Oldest, Inbox
  <1>3. n \in Numbers /\ n \in 0 .. MaxAttempts
    BY <1>1, RelayAssumption DEF ClaimTask, IInv, TypeOK, Numbers, TaskRow
  <1>4. row \in TaskRow /\ row.status = "processing" /\ row.count = n
    BY <1>1, <1>3 DEF TaskRow
  <1>5. /\ NewAttempt \in AttemptRow
        /\ NewAttempt.outcome = "processing"
    <2>1. LeaseSeconds \in 0 .. LeaseSeconds
      BY RelayAssumption
    <2>2. NoAttempt \in AttemptRow
      BY BlankRows
    <2>3. QED
      BY <2>1, <2>2 DEF NewAttempt, AttemptRow
  <1>6. /\ tasks' = [RecoveredTasks EXCEPT ![t] = row]
        /\ attempts' = [RecoveredAttempts EXCEPT ![t][n] = NewAttempt]
        /\ UNCHANGED <<agents, nCreated, limit, receipts, acks>>
    BY RecoveredRows DEF IInv, ClaimTask
  <1>7. TypeOK'
    <2>1. tasks' \in [Tasks -> TaskRow]
      BY <1>4, <1>6, RecoveredRows DEF IInv
    <2>2. attempts' \in [Tasks -> [Numbers -> AttemptRow]]
      BY <1>3, <1>5, <1>6, RecoveredRows DEF IInv
    <2>3. QED
      BY <1>6, <2>1, <2>2 DEF IInv, TypeOK
  <1>8. AbsentIsBlank'
    BY <1>4, <1>6, RecoveredRows DEF IInv, AbsentIsBlank
  <1>9. DeliveryAgrees'
    <2>1. ASSUME NEW u \in Tasks PROVE Agrees(tasks'[u], attempts'[u])
      <3>1. Agrees(RecoveredTasks[u], RecoveredAttempts[u])
        BY RecoveryAgrees DEF IInv
      <3>2. CASE u = t
        <4>1. tasks'[t] = row
          BY <1>6, RecoveredRows DEF IInv
        <4>2. \A m \in Numbers :
                attempts'[t][m] =
                  IF m = n THEN NewAttempt ELSE RecoveredAttempts[t][m]
          BY <1>3, <1>6, RecoveredRows DEF IInv
        <4>3. \A m \in Numbers : RecoveredAttempts[t][m].outcome # "processing"
          BY <1>2, <3>1, <3>2 DEF Agrees
        <4>4. \A m \in Numbers :
                RecoveredAttempts[t][m].outcome # "none" <=> m < n
          BY <1>1, <3>1, <3>2 DEF Agrees, Numbers, TaskRow
        <4>5. QED
          BY <1>3, <1>4, <1>5, <3>2, <4>1, <4>2, <4>3, <4>4
             DEF Agrees, Numbers
      <3>3. CASE u # t
        BY <1>6, <3>1, <3>3, RecoveredRows DEF IInv
      <3>4. QED
        BY <3>2, <3>3
    <2>2. QED
      BY <2>1 DEF DeliveryAgrees
  <1>10. QED
    BY <1>7, <1>8, <1>9 DEF IInv

(* Creating a task keeps the invariant.                                    *)
LEMMA CreateNewKeeps ==
  ASSUME IInv, NEW s \in Agents, NEW r \in Agents, NEW x \in Inputs,
         NEW k \in Keys \union {NoKey}, NEW t \in Tasks,
         CreateNew(s, r, x, k, t)
  PROVE  IInv'
  <1>1. /\ NewTask(s, r, x, k) \in TaskRow
        /\ NewTask(s, r, x, k).status = "queued"
        /\ NewTask(s, r, x, k).count = 0
    <2>1. nCreated \in Nat /\ AbsentTask.count = 0
      BY DEF IInv, TypeOK, AbsentTask
    <2>2. QED
      BY <2>1, BlankRows DEF NewTask, TaskRow
  <1>2. TypeOK'
    BY <1>1 DEF IInv, TypeOK, CreateNew, Receive, Receipt
  <1>3. AbsentIsBlank'
    BY <1>1 DEF IInv, TypeOK, AbsentIsBlank, CreateNew
  <1>4. DeliveryAgrees'
    <2>1. ASSUME NEW u \in Tasks PROVE Agrees(tasks'[u], attempts'[u])
      <3>1. Agrees(tasks[u], attempts[u]) /\ attempts' = attempts
        BY DEF IInv, DeliveryAgrees, CreateNew
      <3>2. CASE u = t
        <4>1. tasks[t].status = "absent" /\ tasks[t].count = 0
          BY DEF IInv, AbsentIsBlank, CreateNew
        <4>2. tasks'[t] = NewTask(s, r, x, k)
          BY DEF IInv, TypeOK, CreateNew
        <4>3. QED
          BY <1>1, <3>1, <3>2, <4>1, <4>2 DEF Agrees
      <3>3. CASE u # t
        BY <3>1, <3>3 DEF CreateNew, IInv, TypeOK
      <3>4. QED
        BY <3>2, <3>3
    <2>2. QED
      BY <2>1 DEF DeliveryAgrees
  <1>5. QED
    BY <1>2, <1>3, <1>4 DEF IInv

(* Restarting a live lease keeps the invariant.                            *)
LEMMA HeartbeatKeeps ==
  ASSUME IInv, NEW a \in Agents, NEW t \in Tasks, NEW n \in Numbers,
         Heartbeat(a, t, n)
  PROVE  IInv'
  <1>1. attempts[t][n] \in AttemptRow
    BY DEF IInv, TypeOK
  <1>2. [attempts[t][n] EXCEPT !.ttl = LeaseSeconds] \in AttemptRow
    BY <1>1, RelayAssumption DEF AttemptRow
  <1>3. TypeOK'
    BY <1>2 DEF IInv, TypeOK, Heartbeat
  <1>4. /\ tasks' = tasks
        /\ \A u \in Tasks, m \in Numbers :
             attempts'[u][m].outcome = attempts[u][m].outcome
    BY <1>1 DEF IInv, TypeOK, Heartbeat, AttemptRow
  <1>5. QED
    BY <1>3, <1>4 DEF IInv, AbsentIsBlank, DeliveryAgrees, Agrees

(* Accepting a result keeps the invariant.                                 *)
LEMMA SubmitKeeps ==
  ASSUME IInv, NEW a \in Agents, NEW t \in Tasks, NEW n \in Numbers,
         NEW act \in Actions, NEW v \in Results, Submit(a, t, n, act, v)
  PROVE  IInv'
  <1> DEFINE row == tasks'[t]
             at == attempts'[t][n]
  <1>1. /\ Live(t, n)
        /\ tasks[t].status = "processing"
    BY DEF Submit, Reply
  <1>2. tasks[t] \in TaskRow /\ attempts[t][n] \in AttemptRow
    BY DEF IInv, TypeOK
  <1>3. Outcome(act) \in Finished
    BY DEF Outcome, Finished
  <1>4. /\ row \in TaskRow
        /\ row.status = Outcome(act)
        /\ row.count = tasks[t].count
        /\ \A u \in Tasks : u # t => tasks'[u] = tasks[u]
        /\ tasks' \in [Tasks -> TaskRow]
    <2> DEFINE new == [tasks[t] EXCEPT
                 !.status = Outcome(act),
                 !.output = IF act = "complete" THEN v ELSE Null,
                 !.error = IF act = "complete" THEN Null ELSE v,
                 !.finished = TRUE]
    <2>1. /\ new \in TaskRow
          /\ new.status = Outcome(act)
          /\ new.count = tasks[t].count
      BY <1>2, <1>3 DEF TaskRow
    <2>2. tasks' = [tasks EXCEPT ![t] = new]
      BY <1>2 DEF Submit, IInv, TypeOK
    <2>3. QED
      BY <2>1, <2>2 DEF IInv, TypeOK
  <1>5. /\ at \in AttemptRow
        /\ at.outcome = Outcome(act)
        /\ \A u \in Tasks, m \in Numbers :
             u # t \/ m # n => attempts'[u][m] = attempts[u][m]
        /\ attempts' \in [Tasks -> [Numbers -> AttemptRow]]
    BY <1>2, <1>3 DEF Submit, AttemptRow, IInv, TypeOK, Finished
  <1>6. TypeOK'
    BY <1>4, <1>5 DEF Submit, Acknowledge, Ack, IInv, TypeOK
  <1>7. AbsentIsBlank'
    BY <1>3, <1>4 DEF IInv, AbsentIsBlank, Finished
  <1>8. DeliveryAgrees'
    <2>1. ASSUME NEW u \in Tasks PROVE Agrees(tasks'[u], attempts'[u])
      <3>1. Agrees(tasks[u], attempts[u]) /\ Agrees(tasks[t], attempts[t])
        BY DEF IInv, DeliveryAgrees
      <3>2. CASE u = t
        BY <1>1, <1>3, <1>4, <1>5, <3>1, <3>2 DEF Agrees, Live, Finished
      <3>3. CASE u # t
        BY <1>4, <1>5, <3>1, <3>3 DEF Agrees
      <3>4. QED
        BY <3>2, <3>3
    <2>2. QED
      BY <2>1 DEF DeliveryAgrees
  <1>9. QED
    BY <1>6, <1>7, <1>8 DEF IInv

(* Time passing keeps the invariant: leases only run out.                  *)
LEMMA TickKeeps ==
  ASSUME IInv, Tick
  PROVE  IInv'
  <1>1. ASSUME NEW t \in Tasks, NEW n \in Numbers
        PROVE  /\ Aged(attempts[t][n]) \in AttemptRow
               /\ Aged(attempts[t][n]).outcome = attempts[t][n].outcome
    <2>1. attempts[t][n] \in AttemptRow
      BY DEF IInv, TypeOK
    <2>2. QED
      BY <2>1, RelayAssumption DEF Aged, AttemptRow
  <1>2. /\ tasks' = tasks
        /\ attempts' \in [Tasks -> [Numbers -> AttemptRow]]
        /\ \A u \in Tasks, m \in Numbers :
             attempts'[u][m].outcome = attempts[u][m].outcome
    BY <1>1 DEF Tick
  <1>3. TypeOK'
    BY <1>2 DEF IInv, TypeOK, Tick
  <1>4. QED
    BY <1>2, <1>3 DEF IInv, AbsentIsBlank, DeliveryAgrees, Agrees

(* Replies that only repeat an earlier one, registration, a restart and    *)
(* stuttering leave both tables as they are.                               *)
LEMMA TablesUnchangedKeeps ==
  ASSUME IInv, UNCHANGED <<tasks, attempts>>, TypeOK'
  PROVE  IInv'
  BY DEF IInv, AbsentIsBlank, DeliveryAgrees

-----------------------------------------------------------------------------
(* The invariant holds in every reachable state of the server.             *)
THEOREM Invariance == Spec => []IInv
  <1>1. Init => IInv
    <2> SUFFICES ASSUME Init PROVE IInv
      OBVIOUS
    <2>2. TypeOK
      BY BlankRows DEF Init, TypeOK
    <2>3. AbsentIsBlank
      BY DEF Init, AbsentIsBlank, AbsentTask
    <2>4. DeliveryAgrees
      BY DEF Init, DeliveryAgrees, Agrees, AbsentTask, NoAttempt, Numbers
    <2>5. QED
      BY <2>2, <2>3, <2>4 DEF IInv
  <1>2. IInv /\ [Next]_vars => IInv'
    <2> SUFFICES ASSUME IInv, [Next]_vars PROVE IInv'
      OBVIOUS
    <2>1. ASSUME NEW a \in Agents, Register(a) PROVE IInv'
      <3>1. TypeOK'
        BY <2>1 DEF IInv, TypeOK, Register
      <3>2. QED
        BY <2>1, <3>1, TablesUnchangedKeeps DEF Register
    <2>2. ASSUME NEW s \in Agents, Create(s) PROVE IInv'
      <3>1. PICK r \in Agents, x \in Inputs, k \in Keys \union {NoKey},
                 t \in Tasks :
              CreateNew(s, r, x, k, t) \/ CreateReplay(s, r, x, k, t)
        BY <2>2 DEF Create
      <3>2. CASE CreateNew(s, r, x, k, t)
        BY <3>2, CreateNewKeeps
      <3>3. CASE CreateReplay(s, r, x, k, t)
        <4>1. TypeOK'
          BY <3>3 DEF IInv, TypeOK, CreateReplay, Receive, Receipt
        <4>2. QED
          BY <3>3, <4>1, TablesUnchangedKeeps DEF CreateReplay
      <3>4. QED
        BY <3>1, <3>2, <3>3
    <2>3. ASSUME NEW a \in Agents, Claim(a) PROVE IInv'
      BY <2>3, RecoverKeeps, ClaimExhaustedKeeps, ClaimTaskKeeps
         DEF Claim, ClaimNothing
    <2>4. ASSUME NEW a \in Agents, Terminal(a) PROVE IInv'
      <3>1. PICK t \in Tasks, n \in Numbers, act \in Actions, v \in Results :
              Submit(a, t, n, act, v) \/ Resubmit(a, t, n, act, v)
        BY <2>4 DEF Terminal
      <3>2. CASE Submit(a, t, n, act, v)
        BY <3>2, SubmitKeeps
      <3>3. CASE Resubmit(a, t, n, act, v)
        <4>1. TypeOK'
          BY <3>3 DEF IInv, TypeOK, Resubmit, Acknowledge, Ack
        <4>2. QED
          BY <3>3, <4>1, TablesUnchangedKeeps DEF Resubmit
      <3>4. QED
        BY <3>1, <3>2, <3>3
    <2>5. ASSUME NEW a \in Agents, NEW t \in Tasks, NEW n \in Numbers,
                 Heartbeat(a, t, n)
          PROVE  IInv'
      BY <2>5, HeartbeatKeeps
    <2>6. ASSUME NEW l \in Numbers, Restart(l) PROVE IInv'
      <3>1. TypeOK'
        BY <2>6 DEF IInv, TypeOK, Restart
      <3>2. QED
        BY <2>6, <3>1, TablesUnchangedKeeps DEF Restart
    <2>7. CASE Recover
      BY <2>7, RecoverKeeps
    <2>8. CASE Tick
      BY <2>8, TickKeeps
    <2>9. CASE UNCHANGED vars
      BY <2>9, TablesUnchangedKeeps DEF IInv, TypeOK, vars
    <2>10. QED
      BY <2>1, <2>2, <2>3, <2>4, <2>5, <2>6, <2>7, <2>8, <2>9 DEF Next
  <1>3. QED
    BY <1>1, <1>2, PTL DEF Spec

(* No task is ever held by two workers with time left on their leases.     *)
THEOREM NoOverlapAlways == Spec => []NoOverlap
  <1>1. IInv => NoOverlap
    BY DEF IInv, DeliveryAgrees, Agrees, NoOverlap, Live
  <1>2. QED
    BY <1>1, Invariance, PTL

(* Task rows and attempt rows always tell one story, well typed.           *)
THEOREM DeliveryAgreesAlways == Spec => [](TypeOK /\ DeliveryAgrees)
  <1>1. IInv => TypeOK /\ DeliveryAgrees
    BY DEF IInv
  <1>2. QED
    BY <1>1, Invariance, PTL

-----------------------------------------------------------------------------
(* A task whose live attempt has time left is not touched by a recovery    *)
(* pass and is in nobody's inbox.                                          *)
LEMMA LiveTaskIsLeftAlone ==
  ASSUME IInv, NEW t \in Tasks, NEW n \in Numbers, Live(t, n)
  PROVE  /\ RecoveredTasks[t] = tasks[t]
         /\ RecoveredAttempts[t][n] = attempts[t][n]
         /\ tasks[t].status = "processing"
         /\ n = tasks[t].count
  <1>1. Agrees(tasks[t], attempts[t])
    BY DEF IInv, DeliveryAgrees
  <1>2. n = tasks[t].count /\ tasks[t].status = "processing"
    BY <1>1 DEF Agrees, Live
  <1>3. \A m \in Numbers : ~Overdue(t, m)
    <2>1. attempts[t][n].ttl \in 0 .. LeaseSeconds
      BY DEF IInv, TypeOK, AttemptRow
    <2>2. QED
      BY <1>1, <1>2, <2>1, RelayAssumption DEF Agrees, Overdue, Live
  <1>4. QED
    BY <1>2, <1>3, RecoveredRows DEF IInv, Lapsed, RecoveredAttempt

(* A granted lease is honoured by every step of every other actor.         *)
THEOREM LeaseHonouredAlways == Spec => LeaseHonoured
  <1> DEFINE Honours(t, n) ==
        \/ attempts'[t][n].outcome = "processing" /\ tasks'[t] = tasks[t]
        \/ attempts'[t][n].outcome \in Finished
  <1>1. ASSUME IInv, [Next]_vars, NEW t \in Tasks, NEW n \in Numbers,
               Live(t, n)
        PROVE  Honours(t, n)
    <2>1. /\ RecoveredTasks[t] = tasks[t]
          /\ RecoveredAttempts[t][n] = attempts[t][n]
          /\ tasks[t].status = "processing"
          /\ attempts[t][n].outcome = "processing"
          /\ attempts[t][n] \in AttemptRow
      BY <1>1, LiveTaskIsLeftAlone DEF Live, IInv, TypeOK
    <2>2. ASSUME UNCHANGED <<tasks, attempts>> PROVE Honours(t, n)
      BY <2>1, <2>2
    <2>3. ASSUME NEW a \in Agents, Create(a) PROVE Honours(t, n)
      <3>1. PICK r \in Agents, x \in Inputs, k \in Keys \union {NoKey},
                 u \in Tasks :
              CreateNew(a, r, x, k, u) \/ CreateReplay(a, r, x, k, u)
        BY <2>3 DEF Create
      <3>2. CASE CreateNew(a, r, x, k, u)
        <4>1. u # t
          BY <2>1, <3>2 DEF CreateNew
        <4>2. tasks'[t] = tasks[t] /\ attempts' = attempts
          BY <3>2, <4>1, <1>1 DEF CreateNew, IInv, TypeOK
        <4>3. QED
          BY <2>1, <4>2
      <3>3. CASE CreateReplay(a, r, x, k, u)
        BY <2>2, <3>3 DEF CreateReplay
      <3>4. QED
        BY <3>1, <3>2, <3>3
    <2>4. CASE Recover
      BY <2>1, <2>4 DEF Recover
    <2>5. ASSUME NEW a \in Agents, Claim(a) PROVE Honours(t, n)
      <3>1. CASE ClaimNothing(a)
        BY <2>4, <3>1 DEF ClaimNothing
      <3>2. ASSUME NEW u \in Tasks, ClaimExhausted(a, u) \/ ClaimTask(a, u)
            PROVE  Honours(t, n)
        <4>1. u # t
          BY <2>1, <3>2 DEF ClaimExhausted, ClaimTask, Oldest, Inbox
        <4>2. tasks'[t] = tasks[t] /\ attempts'[t][n] = attempts[t][n]
          BY <1>1, <2>1, <3>2, <4>1, RecoveredRows
             DEF ClaimExhausted, ClaimTask, IInv
        <4>3. QED
          BY <2>1, <4>2
      <3>3. QED
        BY <2>5, <3>1, <3>2 DEF Claim
    <2>6. ASSUME NEW a \in Agents, Terminal(a) PROVE Honours(t, n)
      <3>1. PICK u \in Tasks, m \in Numbers, act \in Actions, v \in Results :
              Submit(a, u, m, act, v) \/ Resubmit(a, u, m, act, v)
        BY <2>6 DEF Terminal
      <3>2. CASE Submit(a, u, m, act, v)
        <4>1. Live(u, m)
          BY <3>2 DEF Submit, Reply
        <4>2. CASE u = t
          <5>1. m = n
            BY <1>1, <4>1, <4>2, LiveTaskIsLeftAlone
          <5>2. attempts'[t][n].outcome = Outcome(act)
            BY <2>1, <3>2, <4>2, <5>1, <1>1
               DEF Submit, IInv, TypeOK, AttemptRow
          <5>3. QED
            BY <5>2 DEF Outcome, Finished
        <4>3. CASE u # t
          BY <1>1, <2>1, <3>2, <4>3 DEF Submit, IInv, TypeOK
        <4>4. QED
          BY <4>2, <4>3
      <3>3. CASE Resubmit(a, u, m, act, v)
        BY <2>2, <3>3 DEF Resubmit
      <3>4. QED
        BY <3>1, <3>2, <3>3
    <2>7. ASSUME NEW a \in Agents, NEW u \in Tasks, NEW m \in Numbers,
                 Heartbeat(a, u, m)
          PROVE  Honours(t, n)
      <3>1. attempts'[t][n].outcome = attempts[t][n].outcome
        BY <1>1, <2>1, <2>7 DEF Heartbeat, IInv, TypeOK, AttemptRow
      <3>2. QED
        BY <2>1, <2>7, <3>1 DEF Heartbeat
    <2>8. CASE Tick
      <3>1. attempts'[t][n].outcome = "processing"
        BY <2>1, <2>8 DEF Tick, Aged, AttemptRow
      <3>2. QED
        BY <2>8, <3>1 DEF Tick
    <2>9. QED
      BY <1>1, <2>2, <2>3, <2>4, <2>5, <2>6, <2>7, <2>8
         DEF Next, Register, Restart, vars
  <1>2. IInv /\ [Next]_vars =>
          [\A t \in Tasks, n \in Numbers : Live(t, n) => Honours(t, n)]_vars
    BY <1>1
  <1>3. QED
    BY <1>2, Invariance, PTL DEF Spec, LeaseHonoured

-----------------------------------------------------------------------------
(* Results and replies.  One lemma, StepOfTask, says what any step may do  *)
(* to one task's rows; the theorems about accepted results,                *)
(* acknowledgements, receipts, expired leases and finished tasks follow    *)
(* from it, and so does the refinement of TaskQueue at the end.            *)

(* What a step leaves alone in a task row: the request it was created for. *)
RequestKept(t) ==
  /\ tasks'[t].sender = tasks[t].sender
  /\ tasks'[t].recipient = tasks[t].recipient
  /\ tasks'[t].input = tasks[t].input
  /\ tasks'[t].key = tasks[t].key

ResultKept(t, n) ==
  /\ attempts'[t][n].outcome = attempts[t][n].outcome
  /\ attempts'[t][n].action = attempts[t][n].action
  /\ attempts'[t][n].payload = attempts[t][n].payload
  /\ Overdue(t, n) => attempts'[t][n] = attempts[t][n]

(* The four things that can happen to a task in one step. *)
Kept(t) ==
  tasks'[t] = tasks[t] /\ \A n \in Numbers : ResultKept(t, n)

Created(t) ==
  /\ tasks[t].status = "absent"
  /\ tasks'[t].status = "queued"
  /\ attempts' = attempts
  /\ \A u \in Tasks : u # t => tasks'[u] = tasks[u]
  /\ tasks'[t].key # NoKey =>
       \A u \in Tasks : ~(/\ tasks[u].status # "absent"
                          /\ tasks[u].sender = tasks'[t].sender
                          /\ tasks[u].key = tasks'[t].key)

AttemptMoved(t, n) ==
  \/ ResultKept(t, n)
  \/ Overdue(t, n) /\ attempts'[t][n].outcome = "expired"
  \/ attempts[t][n].outcome = "none" /\ attempts'[t][n].outcome = "processing"

Moved(t) ==
  /\ tasks[t].status \in {"queued", "processing"}
  /\ tasks'[t].status \in {"queued", "processing", "failed"}
  /\ RequestKept(t)
  /\ \A n \in Numbers : AttemptMoved(t, n)

AcceptedAs(t, n, act, v) ==
  /\ Live(t, n)
  /\ tasks[t].status = "processing"
  /\ RequestKept(t)
  /\ tasks'[t].status = Outcome(act)
  /\ tasks'[t].count = tasks[t].count
  /\ tasks'[t].output = IF act = "complete" THEN v ELSE Null
  /\ tasks'[t].error = IF act = "complete" THEN Null ELSE v
  /\ attempts'[t][n].outcome = Outcome(act)
  /\ attempts'[t][n].action = act
  /\ attempts'[t][n].payload = v
  /\ \A m \in Numbers : m # n => attempts'[t][m] = attempts[t][m]

Accepted(t) ==
  \E n \in Numbers, act \in Actions, v \in Results : AcceptedAs(t, n, act, v)

-----------------------------------------------------------------------------
(* A recovery pass leaves a task's rows as they are, or returns the task   *)
(* and marks its overdue attempt expired.                                  *)
LEMMA RecoveryOfTask ==
  ASSUME IInv, NEW t \in Tasks
  PROVE  \/ /\ RecoveredTasks[t] = tasks[t]
            /\ \A n \in Numbers : RecoveredAttempts[t][n] = attempts[t][n]
         \/ /\ tasks[t].status = "processing"
            /\ RecoveredTasks[t].status \in {"queued", "failed"}
            /\ RecoveredTasks[t].sender = tasks[t].sender
            /\ RecoveredTasks[t].input = tasks[t].input
            /\ RecoveredTasks[t].key = tasks[t].key
            /\ \A n \in Numbers :
                 \/ RecoveredAttempts[t][n] = attempts[t][n]
                 \/ /\ Overdue(t, n)
                    /\ RecoveredAttempts[t][n].outcome = "expired"
  <1>1. /\ tasks[t] \in TaskRow
        /\ \A n \in Numbers : attempts[t][n] \in AttemptRow
        /\ Agrees(tasks[t], attempts[t])
    BY DEF IInv, TypeOK, DeliveryAgrees
  <1>2. CASE Lapsed(t)
    <2>1. RecoveredTasks[t] = AfterExpiry(tasks[t])
      BY <1>2, RecoveredRows DEF IInv
    <2>2. /\ AfterExpiry(tasks[t]).status \in {"queued", "failed"}
          /\ AfterExpiry(tasks[t]).sender = tasks[t].sender
          /\ AfterExpiry(tasks[t]).input = tasks[t].input
          /\ AfterExpiry(tasks[t]).key = tasks[t].key
      BY <1>1 DEF AfterExpiry, TaskRow
    <2>3. ASSUME NEW n \in Numbers
          PROVE  \/ RecoveredAttempts[t][n] = attempts[t][n]
                 \/ /\ Overdue(t, n)
                    /\ RecoveredAttempts[t][n].outcome = "expired"
      BY <1>1, <2>3, RecoveredRows DEF IInv, RecoveredAttempt, AttemptRow
    <2>4. QED
      BY <1>2, <2>1, <2>2, <2>3 DEF Lapsed
  <1>3. CASE ~Lapsed(t)
    <2>1. \A n \in Numbers : ~Overdue(t, n)
      BY <1>1, <1>3 DEF Agrees, Overdue, Lapsed
    <2>2. QED
      BY <1>3, <2>1, RecoveredRows DEF IInv, RecoveredAttempt
  <1>4. QED
    BY <1>2, <1>3

(* A recovery pass, alone or at the start of another task's claim.         *)
LEMMA RecoveryMoves ==
  ASSUME IInv, NEW t \in Tasks,
         tasks'[t] = RecoveredTasks[t],
         \A n \in Numbers : attempts'[t][n] = RecoveredAttempts[t][n]
  PROVE  Kept(t) \/ Moved(t)
  <1>1. RecoveredTasks[t].recipient = tasks[t].recipient
    BY RecoveredRows DEF IInv
  <1>2. QED
    BY <1>1, RecoveryOfTask
       DEF Kept, Moved, ResultKept, AttemptMoved, RequestKept

(* What one step of the server may do to one task.                         *)
LEMMA StepOfTask ==
  ASSUME IInv, [Next]_vars, NEW t \in Tasks
  PROVE  Kept(t) \/ Created(t) \/ Moved(t) \/ Accepted(t)
  <1> DEFINE Does == Kept(t) \/ Created(t) \/ Moved(t) \/ Accepted(t)
  <1>1. /\ TypeOK
        /\ tasks[t] \in TaskRow
        /\ \A n \in Numbers : attempts[t][n] \in AttemptRow
    BY DEF IInv, TypeOK
  <1>2. ASSUME UNCHANGED <<tasks, attempts>> PROVE Does
    BY <1>2 DEF Kept, ResultKept
  <1>3. ASSUME NEW s \in Agents, Create(s) PROVE Does
    <2>1. PICK r \in Agents, x \in Inputs, k \in Keys \union {NoKey},
               u \in Tasks :
            CreateNew(s, r, x, k, u) \/ CreateReplay(s, r, x, k, u)
      BY <1>3 DEF Create
    <2>2. CASE CreateNew(s, r, x, k, u) /\ u = t
      <3>1. /\ NewTask(s, r, x, k).status = "queued"
            /\ NewTask(s, r, x, k).sender = s
            /\ NewTask(s, r, x, k).key = k
        BY DEF NewTask, AbsentTask
      <3>2. tasks'[t] = NewTask(s, r, x, k)
        BY <1>1, <2>2 DEF CreateNew, TypeOK
      <3>3. k # NoKey =>
              \A w \in Tasks : ~(/\ tasks[w].status # "absent"
                                 /\ tasks[w].sender = s
                                 /\ tasks[w].key = k)
        BY <2>2 DEF CreateNew, Prior
      <3>4. QED
        BY <1>1, <2>2, <3>1, <3>2, <3>3 DEF Created, CreateNew, TypeOK
    <2>3. CASE CreateNew(s, r, x, k, u) /\ u # t
      BY <1>1, <2>3 DEF CreateNew, Kept, ResultKept, TypeOK
    <2>4. CASE CreateReplay(s, r, x, k, u)
      BY <1>2, <2>4 DEF CreateReplay
    <2>5. QED
      BY <2>1, <2>2, <2>3, <2>4
  <1>4. CASE Recover
    BY <1>4, RecoveryMoves DEF Recover
  <1>5. ASSUME NEW a \in Agents, Claim(a) PROVE Does
    <2>1. CASE ClaimNothing(a)
      BY <1>4, <2>1 DEF ClaimNothing
    <2>2. ASSUME NEW u \in Tasks, ClaimExhausted(a, u) \/ ClaimTask(a, u),
                 u # t
          PROVE  Does
      <3>1. /\ tasks'[t] = RecoveredTasks[t]
            /\ \A n \in Numbers : attempts'[t][n] = RecoveredAttempts[t][n]
        BY <2>2, RecoveredRows DEF ClaimExhausted, ClaimTask, IInv
      <3>2. QED
        BY <3>1, RecoveryMoves
    <2>3. ASSUME ClaimExhausted(a, t) \/ ClaimTask(a, t) PROVE Moved(t)
      <3>1. RecoveredTasks[t].status = "queued"
        BY <2>3 DEF ClaimExhausted, ClaimTask, Oldest, Inbox
      <3>2. /\ tasks[t].status \in {"queued", "processing"}
            /\ RecoveredTasks[t].sender = tasks[t].sender
            /\ RecoveredTasks[t].recipient = tasks[t].recipient
            /\ RecoveredTasks[t].input = tasks[t].input
            /\ RecoveredTasks[t].key = tasks[t].key
        BY <3>1, RecoveryOfTask, RecoveredRows DEF IInv
      <3>3. RecoveredTasks[t] \in TaskRow
        BY RecoveredRows DEF IInv
      <3>4. tasks'[t].status \in {"processing", "failed"} /\ RequestKept(t)
        BY <2>3, <3>2, <3>3, RecoveredRows
           DEF ClaimExhausted, ClaimTask, RequestKept, TaskRow, IInv
      <3>5. ASSUME NEW n \in Numbers PROVE AttemptMoved(t, n)
        <4>1. \/ RecoveredAttempts[t][n] = attempts[t][n]
              \/ /\ Overdue(t, n)
                 /\ RecoveredAttempts[t][n].outcome = "expired"
          BY <3>5, RecoveryOfTask
        <4>2. CASE attempts'[t][n] = RecoveredAttempts[t][n]
          BY <4>1, <4>2 DEF AttemptMoved, ResultKept
        <4>3. CASE attempts'[t][n] # RecoveredAttempts[t][n]
          <5>1. ClaimTask(a, t) /\ n = RecoveredTasks[t].count + 1
            BY <2>3, <4>3, <3>5, RecoveredRows
               DEF ClaimTask, ClaimExhausted, IInv
          <5>2. attempts[t][n].outcome = "none"
            BY <5>1 DEF ClaimTask
          <5>3. attempts'[t][n] = NewAttempt
            BY <3>5, <5>1, RecoveredRows DEF ClaimTask, IInv
          <5>4. QED
            BY <5>2, <5>3 DEF NewAttempt, NoAttempt, AttemptMoved
        <4>4. QED
          BY <4>2, <4>3
      <3>6. QED
        BY <3>2, <3>4, <3>5 DEF Moved
    <2>4. QED
      BY <1>5, <2>1, <2>2, <2>3 DEF Claim
  <1>6. ASSUME NEW a \in Agents, Terminal(a) PROVE Does
    <2>1. PICK u \in Tasks, n \in Numbers, act \in Actions, v \in Results :
            Submit(a, u, n, act, v) \/ Resubmit(a, u, n, act, v)
      BY <1>6 DEF Terminal
    <2>2. CASE Submit(a, u, n, act, v) /\ u = t
      <3>1. Live(t, n) /\ tasks[t].status = "processing"
        BY <2>2 DEF Submit, Reply
      <3>2. /\ RequestKept(t)
            /\ tasks'[t].status = Outcome(act)
            /\ tasks'[t].count = tasks[t].count
            /\ tasks'[t].output = IF act = "complete" THEN v ELSE Null
            /\ tasks'[t].error = IF act = "complete" THEN Null ELSE v
        BY <1>1, <2>2 DEF Submit, RequestKept, TypeOK, TaskRow
      <3>3. /\ attempts'[t][n].outcome = Outcome(act)
            /\ attempts'[t][n].action = act
            /\ attempts'[t][n].payload = v
            /\ \A m \in Numbers : m # n => attempts'[t][m] = attempts[t][m]
        BY <1>1, <2>2 DEF Submit, TypeOK, AttemptRow
      <3>4. QED
        BY <3>1, <3>2, <3>3 DEF Accepted, AcceptedAs
    <2>3. CASE Submit(a, u, n, act, v) /\ u # t
      BY <1>1, <2>3 DEF Submit, Kept, ResultKept, TypeOK
    <2>4. CASE Resubmit(a, u, n, act, v)
      BY <1>2, <2>4 DEF Resubmit
    <2>5. QED
      BY <2>1, <2>2, <2>3, <2>4
  <1>7. ASSUME NEW a \in Agents, NEW u \in Tasks, NEW m \in Numbers,
               Heartbeat(a, u, m)
        PROVE  Does
    <2>1. ASSUME NEW n \in Numbers PROVE ResultKept(t, n)
      <3>1. CASE t = u /\ n = m
        BY <1>1, <1>7, <3>1
           DEF Heartbeat, ResultKept, TypeOK, AttemptRow, Live, Overdue
      <3>2. CASE ~(t = u /\ n = m)
        BY <1>1, <1>7, <3>2 DEF Heartbeat, ResultKept, TypeOK
      <3>3. QED
        BY <3>1, <3>2
    <2>2. QED
      BY <1>7, <2>1 DEF Heartbeat, Kept
  <1>8. CASE Tick
    <2>1. ASSUME NEW n \in Numbers PROVE ResultKept(t, n)
      <3>1. attempts'[t][n] = Aged(attempts[t][n])
        BY <1>8, <2>1 DEF Tick
      <3>2. QED
        BY <1>1, <2>1, <3>1 DEF Aged, ResultKept, AttemptRow, Overdue
    <2>2. QED
      BY <1>8, <2>1 DEF Tick, Kept
  <1>9. QED
    BY <1>2, <1>3, <1>4, <1>5, <1>6, <1>7, <1>8
       DEF Next, Register, Restart, vars

-----------------------------------------------------------------------------
(* A finished task never changes again, in any step of anybody.            *)
THEOREM FinishedIsFinalAlways == Spec => FinishedIsFinal
  <1>1. ASSUME IInv, [Next]_vars, NEW t \in Tasks, tasks[t].status \in Finished
        PROVE  tasks'[t] = tasks[t]
    BY <1>1, StepOfTask
       DEF Kept, Created, Moved, Accepted, AcceptedAs, Finished
  <1>2. IInv /\ [Next]_vars =>
          [\A t \in Tasks :
             tasks[t].status \in Finished => tasks'[t] = tasks[t]]_vars
    BY <1>1
  <1>3. QED
    BY <1>2, Invariance, PTL DEF Spec, FinishedIsFinal

(* A lease that ran out is never revived, seen by recovery or not.         *)
THEOREM NoRevivalAlways == Spec => NoRevival
  <1> DEFINE Stays(t, n) ==
        /\ Overdue(t, n) => \/ attempts'[t][n] = attempts[t][n]
                            \/ attempts'[t][n].outcome = "expired"
        /\ attempts[t][n].outcome = "expired" =>
             attempts'[t][n].outcome = "expired"
  <1>1. ASSUME IInv, [Next]_vars, NEW t \in Tasks, NEW n \in Numbers
        PROVE  Stays(t, n)
    <2>1. CASE Kept(t) \/ Created(t)
      BY <2>1 DEF Kept, Created, ResultKept
    <2>2. CASE Moved(t)
      BY <2>2 DEF Moved, AttemptMoved, ResultKept, Overdue
    <2>3. CASE Accepted(t)
      <3>1. PICK m \in Numbers, act \in Actions, v \in Results :
              AcceptedAs(t, m, act, v)
        BY <2>3 DEF Accepted
      <3>2. CASE m = n
        <4>1. attempts[t][n].ttl # 0 /\ attempts[t][n].outcome = "processing"
          BY <1>1, <3>1, <3>2, RelayAssumption
             DEF AcceptedAs, Live, IInv, TypeOK, AttemptRow
        <4>2. QED
          BY <4>1 DEF Overdue
      <3>3. CASE m # n
        BY <3>1, <3>3 DEF AcceptedAs
      <3>4. QED
        BY <3>2, <3>3
    <2>4. QED
      BY <1>1, <2>1, <2>2, <2>3, StepOfTask
  <1>2. IInv /\ [Next]_vars =>
          [\A t \in Tasks, n \in Numbers :
             /\ Overdue(t, n) => \/ attempts'[t][n] = attempts[t][n]
                                 \/ attempts'[t][n].outcome = "expired"
             /\ attempts[t][n].outcome = "expired" =>
                  attempts'[t][n].outcome = "expired"]_vars
    BY <1>1
  <1>3. QED
    BY <1>2, Invariance, PTL DEF Spec, NoRevival

-----------------------------------------------------------------------------
(* The accepted submission is the latest attempt's and is what the sender  *)
(* reads: inductive together with IInv.                                    *)
LEMMA AcceptedIsStoredKeeps ==
  ASSUME IInv, AcceptedIsStored, [Next]_vars
  PROVE  AcceptedIsStored'
  <1> DEFINE Stored(t, n) ==
        LET at == attempts'[t][n] IN
        at.outcome \in Finished =>
          /\ n = tasks'[t].count
          /\ tasks'[t].status = at.outcome
          /\ at.outcome = Outcome(at.action)
          /\ at.payload = IF at.action = "complete" THEN tasks'[t].output
                                                    ELSE tasks'[t].error
  <1>1. ASSUME NEW t \in Tasks, NEW n \in Numbers PROVE Stored(t, n)
    <2>1. CASE Kept(t)
      BY <2>1 DEF Kept, ResultKept, AcceptedIsStored
    <2>2. CASE Created(t)
      BY <2>2 DEF Created, AcceptedIsStored, Finished
    <2>3. CASE Moved(t)
      <3>1. attempts'[t][n].outcome \notin Finished
        BY <2>3 DEF Moved, AttemptMoved, ResultKept, AcceptedIsStored, Finished
      <3>2. QED
        BY <3>1
    <2>4. CASE Accepted(t)
      <3>1. PICK m \in Numbers, act \in Actions, v \in Results :
              AcceptedAs(t, m, act, v)
        BY <2>4 DEF Accepted
      <3>2. m = tasks[t].count
        BY <3>1, LiveTaskIsLeftAlone DEF AcceptedAs
      <3>3. CASE n = m
        BY <3>1, <3>2, <3>3 DEF AcceptedAs, Actions
      <3>4. CASE n # m
        <4>1. attempts'[t][n] = attempts[t][n]
          BY <3>1, <3>4 DEF AcceptedAs
        <4>2. attempts[t][n].outcome \notin Finished
          BY <3>1 DEF AcceptedAs, AcceptedIsStored, Finished
        <4>3. QED
          BY <4>1, <4>2
      <3>5. QED
        BY <3>3, <3>4
    <2>5. QED
      BY <2>1, <2>2, <2>3, <2>4, StepOfTask
  <1>2. QED
    BY <1>1 DEF AcceptedIsStored

THEOREM AcceptedIsStoredAlways == Spec => []AcceptedIsStored
  <1>1. Init => AcceptedIsStored
    BY DEF Init, AcceptedIsStored, NoAttempt, Finished
  <1>2. IInv /\ AcceptedIsStored /\ [Next]_vars => AcceptedIsStored'
    BY AcceptedIsStoredKeeps
  <1>3. QED
    BY <1>1, <1>2, Invariance, PTL DEF Spec

-----------------------------------------------------------------------------
(* An acknowledgement is backed by the attempt it was given for.           *)
Backed(x) ==
  LET at == attempts[x.task][x.number] IN
  /\ at.outcome \in Finished
  /\ at.action = x.action
  /\ at.payload = x.payload

AcksBacked == \A x \in acks : Backed(x)

(* A step acknowledges only what is stored when it ends.                   *)
LEMMA NewAcks ==
  ASSUME IInv, [Next]_vars, NEW x \in acks'
  PROVE  x \in acks \/ Backed(x)'
  <1>1. CASE acks' = acks
    BY <1>1
  <1>2. ASSUME NEW a \in Agents, NEW t \in Tasks, NEW n \in Numbers,
               NEW act \in Actions, NEW v \in Results,
               Submit(a, t, n, act, v) \/ Resubmit(a, t, n, act, v)
        PROVE  x \in acks \/ Backed(x)'
    <2>1. \/ x \in acks
          \/ x = [task |-> t, number |-> n, action |-> act, payload |-> v]
      BY <1>2 DEF Submit, Resubmit, Acknowledge
    <2>2. CASE Submit(a, t, n, act, v)
      <3>1. attempts[t][n] \in AttemptRow
        BY DEF IInv, TypeOK
      <3>2. /\ attempts'[t][n].outcome = Outcome(act)
            /\ attempts'[t][n].action = act
            /\ attempts'[t][n].payload = v
        BY <2>2, <3>1 DEF Submit, IInv, TypeOK, AttemptRow
      <3>3. QED
        BY <2>1, <3>2 DEF Backed, Outcome, Finished
    <2>3. CASE Resubmit(a, t, n, act, v)
      <3>1. Reply(a, t, n, act, v) = "repeat"
        BY <2>3 DEF Resubmit
      <3>2. /\ attempts[t][n].outcome \in Finished
            /\ attempts[t][n].action = act
            /\ attempts[t][n].payload = v
        BY <3>1, Zenon DEF Reply
      <3>3. attempts' = attempts
        BY <2>3 DEF Resubmit
      <3>4. QED
        BY <2>1, <3>2, <3>3 DEF Backed
    <2>4. QED
      BY <1>2, <2>2, <2>3
  <1>3. ASSUME NEW a \in Agents, Terminal(a) PROVE x \in acks \/ Backed(x)'
    BY <1>2, <1>3 DEF Terminal
  <1>4. ASSUME NEW a \in Agents, Create(a) \/ Claim(a) PROVE acks' = acks
    BY <1>4 DEF Create, CreateNew, CreateReplay, Claim, ClaimNothing,
                ClaimExhausted, ClaimTask, Recover
  <1>5. QED
    BY <1>1, <1>3, <1>4
       DEF Next, vars, Register, Restart, Recover, Tick, Heartbeat

(* A backed acknowledgement stays backed: finished attempts never change.  *)
LEMMA AcksBackedKeeps ==
  ASSUME IInv, AcceptedIsStored, AcksBacked, [Next]_vars
  PROVE  AcksBacked'
  <1>1. ASSUME NEW x \in acks' PROVE Backed(x)'
    <2>1. CASE x \notin acks
      BY <2>1, NewAcks
    <2>2. CASE x \in acks
      <3>1. /\ x.task \in Tasks
            /\ x.number \in Numbers
            /\ Backed(x)
        BY <2>2 DEF IInv, TypeOK, Ack, AcksBacked
      <3>2. tasks[x.task].status \in Finished
        BY <3>1 DEF Backed, AcceptedIsStored
      <3>3. Kept(x.task)
        BY <3>1, <3>2, StepOfTask
           DEF Created, Moved, Accepted, AcceptedAs, Finished
      <3>4. QED
        BY <3>1, <3>3 DEF Kept, ResultKept, Backed
    <2>3. QED
      BY <2>1, <2>2
  <1>2. QED
    BY <1>1 DEF AcksBacked

(* What backed acknowledgements mean for the workers that hold them.       *)
LEMMA BackedAgree ==
  ASSUME IInv, AcceptedIsStored, AcksBacked
  PROVE  AcksAgree
  <1>1. ASSUME NEW x \in acks
        PROVE  /\ x \in Ack
               /\ Backed(x)
               /\ x.number = tasks[x.task].count
               /\ tasks[x.task].status \in Finished
    <2>1. x \in Ack /\ x.task \in Tasks /\ x.number \in Numbers
      BY DEF IInv, TypeOK, Ack
    <2>2. QED
      BY <2>1 DEF AcksBacked, Backed, AcceptedIsStored
  <1>2. ASSUME NEW x \in acks, NEW y \in acks, x.task = y.task PROVE x = y
    <2>1. /\ x.number = y.number
          /\ x.action = y.action
          /\ x.payload = y.payload
      BY <1>1, <1>2 DEF Backed
    <2>2. QED
      BY <1>1, <1>2, <2>1 DEF Ack
  <1>3. ASSUME NEW x \in acks
        PROVE  Reply(tasks[x.task].recipient, x.task, x.number, x.action,
                     x.payload) = "repeat"
    <2> DEFINE at == attempts[x.task][x.number]
    <2>1. /\ tasks[x.task].status # "absent"
          /\ at.outcome # "none"
          /\ at.outcome \in Finished
          /\ at.action = x.action /\ at.payload = x.payload
      BY <1>1, <1>3 DEF Backed, Finished
    <2>2. QED
      BY <2>1, Zenon DEF Reply
  <1>4. QED
    BY <1>2, <1>3 DEF AcksAgree

THEOREM AcksAgreeAlways == Spec => []AcksAgree
  <1>1. Init => AcksBacked
    BY DEF Init, AcksBacked
  <1>2. IInv /\ AcceptedIsStored /\ AcksBacked /\ [Next]_vars => AcksBacked'
    BY AcksBackedKeeps
  <1>3. IInv /\ AcceptedIsStored /\ AcksBacked => AcksAgree
    BY BackedAgree
  <1>4. QED
    BY <1>1, <1>2, <1>3, Invariance, AcceptedIsStoredAlways, PTL DEF Spec

-----------------------------------------------------------------------------
(* Receipts name a task that still carries their request, and a sender's   *)
(* key names one task: the inductive strengthening of ReceiptsAgree.       *)
Honest(x) ==
  /\ tasks[x.task].status # "absent"
  /\ tasks[x.task].sender = x.sender
  /\ tasks[x.task].recipient = x.to
  /\ tasks[x.task].input = x.input
  /\ tasks[x.task].key = x.key

KeysUnique ==
  \A t, u \in Tasks :
    /\ tasks[t].status # "absent" /\ tasks[u].status # "absent"
    /\ tasks[t].sender = tasks[u].sender
    /\ tasks[t].key = tasks[u].key
    /\ tasks[t].key # NoKey
    => t = u

ReceiptsHonest == KeysUnique /\ \A x \in receipts : Honest(x)

(* A task that exists keeps its request and stays in existence.            *)
LEMMA RequestStays ==
  ASSUME IInv, [Next]_vars, NEW t \in Tasks, tasks[t].status # "absent"
  PROVE  RequestKept(t) /\ tasks'[t].status # "absent"
  <1>1. Kept(t) \/ Moved(t) \/ Accepted(t)
    BY StepOfTask DEF Created
  <1>2. QED
    BY <1>1 DEF Kept, Moved, Accepted, AcceptedAs, RequestKept, Outcome

(* A task that appears was created by this step, with a fresh key.         *)
LEMMA Appears ==
  ASSUME IInv, [Next]_vars, NEW t \in Tasks,
         tasks[t].status = "absent", tasks'[t].status # "absent"
  PROVE  Created(t)
  BY StepOfTask DEF Kept, Moved, Accepted, AcceptedAs

LEMMA KeysUniqueKeeps ==
  ASSUME IInv, KeysUnique, [Next]_vars
  PROVE  KeysUnique'
  <1>1. ASSUME NEW t \in Tasks, NEW u \in Tasks,
               tasks'[t].status # "absent", tasks'[u].status # "absent",
               tasks'[t].sender = tasks'[u].sender,
               tasks'[t].key = tasks'[u].key,
               tasks'[t].key # NoKey
        PROVE  t = u
    <2>1. CASE tasks[t].status # "absent" /\ tasks[u].status # "absent"
      BY <1>1, <2>1, RequestStays DEF KeysUnique, RequestKept
    <2>2. CASE tasks[t].status = "absent"
      <3>1. Created(t)
        BY <1>1, <2>2, Appears
      <3>2. QED
        BY <1>1, <3>1 DEF Created
    <2>3. CASE tasks[u].status = "absent"
      <3>1. Created(u)
        BY <1>1, <2>3, Appears
      <3>2. QED
        BY <1>1, <3>1 DEF Created
    <2>4. QED
      BY <2>1, <2>2, <2>3
  <1>2. QED
    BY <1>1 DEF KeysUnique

(* A step sends a receipt only for what is stored when it ends.            *)
LEMMA NewReceipts ==
  ASSUME IInv, [Next]_vars, NEW x \in receipts'
  PROVE  x \in receipts \/ Honest(x)'
  <1>1. CASE receipts' = receipts
    BY <1>1
  <1>2. ASSUME NEW s \in Agents, NEW r \in Agents, NEW i \in Inputs,
               NEW k \in Keys \union {NoKey}, NEW t \in Tasks,
               CreateNew(s, r, i, k, t) \/ CreateReplay(s, r, i, k, t)
        PROVE  x \in receipts \/ Honest(x)'
    <2>1. \/ x \in receipts
          \/ x = [sender |-> s, key |-> k, to |-> r, input |-> i, task |-> t]
      BY <1>2 DEF CreateNew, CreateReplay, Receive
    <2>2. CASE CreateNew(s, r, i, k, t)
      <3>1. /\ NewTask(s, r, i, k).status = "queued"
            /\ NewTask(s, r, i, k).sender = s
            /\ NewTask(s, r, i, k).recipient = r
            /\ NewTask(s, r, i, k).input = i
            /\ NewTask(s, r, i, k).key = k
        BY DEF NewTask, AbsentTask
      <3>2. tasks'[t] = NewTask(s, r, i, k)
        BY <2>2 DEF CreateNew, IInv, TypeOK
      <3>3. QED
        BY <2>1, <3>1, <3>2 DEF Honest
    <2>3. CASE CreateReplay(s, r, i, k, t)
      BY <2>1, <2>3 DEF CreateReplay, Prior, SameRequest, Honest
    <2>4. QED
      BY <1>2, <2>2, <2>3
  <1>3. ASSUME NEW s \in Agents, Create(s)
        PROVE  x \in receipts \/ Honest(x)'
    BY <1>2, <1>3 DEF Create
  <1>4. ASSUME NEW a \in Agents, Claim(a) \/ Terminal(a)
        PROVE  receipts' = receipts
    <2>1. CASE Claim(a)
      BY <2>1 DEF Claim, ClaimNothing, ClaimExhausted, ClaimTask, Recover
    <2>2. CASE Terminal(a)
      BY <2>2 DEF Terminal, Submit, Resubmit
    <2>3. QED
      BY <1>4, <2>1, <2>2
  <1>5. \/ \E s \in Agents : Create(s)
        \/ \E a \in Agents : Claim(a) \/ Terminal(a)
        \/ receipts' = receipts
    BY DEF Next, vars, Register, Restart, Recover, Tick, Heartbeat
  <1>6. QED
    BY <1>1, <1>3, <1>4, <1>5

LEMMA ReceiptsHonestKeeps ==
  ASSUME IInv, ReceiptsHonest, [Next]_vars
  PROVE  ReceiptsHonest'
  <1>1. KeysUnique'
    BY KeysUniqueKeeps DEF ReceiptsHonest
  <1>2. ASSUME NEW x \in receipts' PROVE Honest(x)'
    <2>1. CASE x \notin receipts
      BY <2>1, NewReceipts
    <2>2. CASE x \in receipts
      <3>1. x.task \in Tasks /\ Honest(x)
        BY <2>2 DEF IInv, TypeOK, Receipt, ReceiptsHonest
      <3>2. QED
        BY <3>1, RequestStays DEF Honest, RequestKept
    <2>3. QED
      BY <2>1, <2>2
  <1>3. QED
    BY <1>1, <1>2 DEF ReceiptsHonest

LEMMA HonestAgree ==
  ASSUME IInv, ReceiptsHonest
  PROVE  ReceiptsAgree
  <1>1. ASSUME NEW x \in receipts, NEW y \in receipts,
               x.sender = y.sender, x.key = y.key, x.key # NoKey
        PROVE  x = y
    <2>1. x \in Receipt /\ y \in Receipt /\ Honest(x) /\ Honest(y)
      BY DEF IInv, TypeOK, ReceiptsHonest
    <2>2. x.task = y.task
      BY <1>1, <2>1 DEF ReceiptsHonest, KeysUnique, Honest, Receipt
    <2>3. QED
      BY <1>1, <2>1, <2>2 DEF Honest, Receipt
  <1>2. QED
    BY <1>1 DEF ReceiptsAgree, ReceiptsHonest, Honest

(* One sender's key names one task, which keeps the request it was for.    *)
THEOREM ReceiptsAgreeAlways == Spec => []ReceiptsAgree
  <1>1. Init => ReceiptsHonest
    BY DEF Init, ReceiptsHonest, KeysUnique, AbsentTask
  <1>2. IInv /\ ReceiptsHonest /\ [Next]_vars => ReceiptsHonest'
    BY ReceiptsHonestKeeps
  <1>3. IInv /\ ReceiptsHonest => ReceiptsAgree
    BY HonestAgree
  <1>4. QED
    BY <1>1, <1>2, <1>3, Invariance, PTL DEF Spec

-----------------------------------------------------------------------------
(***************************************************************************)
(* Relay implements TaskQueue, for every value of the constants: each step *)
(* of the tables is a step of the queue, or leaves the queue as it is.     *)
(***************************************************************************)
(* The tasks a recovery pass gives up. *)
Gone == {t \in Tasks : Lapsed(t) /\ tasks[t].count >= limit}

LEMMA PhaseCases ==
  ASSUME NEW row, NEW claimed
  PROVE  /\ row.status = "absent" => PhaseOf(row, claimed) = "absent"
         /\ row.status = "queued" => PhaseOf(row, claimed) = "waiting"
         /\ row.status = "processing" => PhaseOf(row, claimed) = claimed
         /\ row.status \in Finished => PhaseOf(row, claimed) = "done"
  <1>1. row.status = "absent" => PhaseOf(row, claimed) = "absent"
    BY Zenon DEF PhaseOf
  <1>2. row.status = "queued" => PhaseOf(row, claimed) = "waiting"
    BY "queued" # "absent", Zenon DEF PhaseOf
  <1>3. row.status = "processing" => PhaseOf(row, claimed) = claimed
    BY "processing" # "absent", "processing" # "queued", Zenon DEF PhaseOf
  <1>4. row.status \in Finished => PhaseOf(row, claimed) = "done"
    <2>1. row.status \in Finished =>
            /\ row.status # "absent"
            /\ row.status # "queued"
            /\ row.status # "processing"
      BY DEF Finished
    <2>2. QED
      BY <2>1, Zenon DEF PhaseOf
  <1>5. QED
    BY <1>1, <1>2, <1>3, <1>4

LEMMA ResultCases ==
  ASSUME NEW row
  PROVE  /\ row.status = "completed" =>
              ResultOf(row) = <<"completed", row.output>>
         /\ row.status = "failed" => ResultOf(row) = <<"failed", row.error>>
         /\ row.status \in {"absent", "queued", "processing"} =>
              ResultOf(row) = Null
  <1>1. row.status = "completed" => ResultOf(row) = <<"completed", row.output>>
    BY Zenon DEF ResultOf
  <1>2. row.status = "failed" => ResultOf(row) = <<"failed", row.error>>
    BY "failed" # "completed", Zenon DEF ResultOf
  <1>3. row.status \in {"absent", "queued", "processing"} =>
          ResultOf(row) = Null
    <2>1. row.status \in {"absent", "queued", "processing"} =>
            row.status # "completed" /\ row.status # "failed"
      OBVIOUS
    <2>2. QED
      BY <2>1, Zenon DEF ResultOf
  <1>4. QED
    BY <1>1, <1>2, <1>3

-----------------------------------------------------------------------------
(* A step that leaves a task's row alone, and its overdue attempts what    *)
(* they are, leaves its phase alone.                                       *)
LEMMA SamePhase ==
  ASSUME NEW t \in Tasks, tasks'[t] = tasks[t],
         \A n \in Numbers : Overdue(t, n)' <=> Overdue(t, n)
  PROVE  Phase(t)' = Phase(t)
  BY DEF Phase, Lapsed

(* The phase recovery finds, and the phase and result it leaves.           *)
LEMMA SweptTask ==
  ASSUME IInv, NEW t \in Tasks
  PROVE  /\ Phase(t) = "lapsed" <=> Lapsed(t)
         /\ Lapsed(t) => tasks[t].count > 0
         /\ PhaseOf(RecoveredTasks[t], "held") =
              IF t \in Gone THEN "done"
              ELSE IF Phase(t) = "lapsed" THEN "waiting" ELSE Phase(t)
         /\ ResultOf(RecoveredTasks[t]) =
              IF t \in Gone THEN <<"failed", "attempts_exhausted">>
              ELSE ResultOf(tasks[t])
         /\ RecoveredTasks[t].count = tasks[t].count
  <1>1. /\ tasks[t] \in TaskRow
        /\ Agrees(tasks[t], attempts[t])
        /\ RecoveredTasks[t] =
             IF Lapsed(t) THEN AfterExpiry(tasks[t]) ELSE tasks[t]
        /\ RecoveredTasks[t].count = tasks[t].count
    BY RecoveredRows DEF IInv, TypeOK, DeliveryAgrees
  <1>2. CASE Lapsed(t)
    <2>1. Phase(t) = "lapsed"
      BY <1>2, PhaseCases DEF Phase, Lapsed
    <2>2. tasks[t].count > 0
      BY <1>1, <1>2 DEF Lapsed, Agrees, Numbers
    <2>3. CASE t \in Gone
      <3>1. /\ RecoveredTasks[t].status = "failed"
            /\ RecoveredTasks[t].error = "attempts_exhausted"
        BY <1>1, <1>2, <2>3 DEF Gone, AfterExpiry, TaskRow
      <3>2. PhaseOf(RecoveredTasks[t], "held") = "done"
        BY <3>1, PhaseCases DEF Finished
      <3>3. ResultOf(RecoveredTasks[t]) = <<"failed", "attempts_exhausted">>
        BY <3>1, ResultCases
      <3>4. QED
        BY <1>1, <1>2, <2>1, <2>2, <2>3, <3>2, <3>3
    <2>4. CASE t \notin Gone
      <3>1. RecoveredTasks[t].status = "queued" /\ tasks[t].status = "processing"
        BY <1>1, <1>2, <2>4 DEF Gone, AfterExpiry, TaskRow, Lapsed
      <3>2. PhaseOf(RecoveredTasks[t], "held") = "waiting"
        BY <3>1, PhaseCases
      <3>3. ResultOf(RecoveredTasks[t]) = Null /\ ResultOf(tasks[t]) = Null
        BY <3>1, ResultCases
      <3>4. QED
        BY <1>1, <1>2, <2>1, <2>2, <2>4, <3>2, <3>3
    <2>5. QED
      BY <2>3, <2>4
  <1>3. CASE ~Lapsed(t)
    <2>1. /\ Phase(t) = PhaseOf(tasks[t], "held")
          /\ RecoveredTasks[t] = tasks[t]
          /\ t \notin Gone
      BY <1>1, <1>3 DEF Phase, Gone
    <2>2. Phase(t) # "lapsed"
      BY <1>1, <2>1, PhaseCases DEF TaskRow, Finished
    <2>3. QED
      BY <1>1, <1>3, <2>1, <2>2
  <1>4. QED
    BY <1>2, <1>3

(* Behind a recovery pass no attempt of the task is overdue.               *)
LEMMA NoneOverdue ==
  ASSUME IInv, NEW t \in Tasks,
         \A n \in Numbers : attempts'[t][n] = RecoveredAttempts[t][n]
  PROVE  ~\E n \in Numbers : Overdue(t, n)'
  <1>1. ASSUME NEW n \in Numbers PROVE ~Overdue(t, n)'
    <2>1. attempts[t][n] \in AttemptRow
      BY DEF IInv, TypeOK
    <2>2. attempts'[t][n] = RecoveredAttempt(t, n)
      BY RecoveredRows DEF IInv
    <2>3. QED
      BY <2>1, <2>2 DEF RecoveredAttempt, Overdue, AttemptRow
  <1>2. QED
    BY <1>1

(* What a recovery pass does to one task of the queue.                     *)
LEMMA SweepOfTask ==
  ASSUME IInv, NEW t \in Tasks, tasks'[t] = RecoveredTasks[t],
         \A n \in Numbers : attempts'[t][n] = RecoveredAttempts[t][n]
  PROVE  /\ Phase(t)' = IF t \in Gone THEN "done"
                        ELSE IF Phase(t) = "lapsed" THEN "waiting" ELSE Phase(t)
         /\ ResultOf(tasks'[t]) =
              IF t \in Gone THEN <<"failed", "attempts_exhausted">>
              ELSE ResultOf(tasks[t])
         /\ tasks'[t].count = tasks[t].count
  <1>1. ~Lapsed(t)'
    BY NoneOverdue DEF Lapsed
  <1>2. Phase(t)' = PhaseOf(RecoveredTasks[t], "held")
    BY <1>1 DEF Phase
  <1>3. QED
    BY <1>2, SweptTask

LEMMA GoneMayBeGivenUp ==
  ASSUME IInv
  PROVE  Gone \subseteq Queue!MayGiveUp
  BY SweptTask DEF Gone, Queue!MayGiveUp, Queue!In

-----------------------------------------------------------------------------
(* One lemma per action: the step of the queue it is.                      *)
LEMMA RecoverIsSweep ==
  ASSUME IInv, Recover
  PROVE  Queue!Sweep(Gone)
  <1>1. \A t \in Tasks :
          /\ tasks'[t] = RecoveredTasks[t]
          /\ \A n \in Numbers : attempts'[t][n] = RecoveredAttempts[t][n]
    BY DEF Recover
  <1>2. \A t \in Tasks :
          /\ Phase(t)' = IF t \in Gone THEN "done"
                         ELSE IF Phase(t) = "lapsed" THEN "waiting"
                         ELSE Phase(t)
          /\ ResultOf(tasks'[t]) =
               IF t \in Gone THEN <<"failed", "attempts_exhausted">>
               ELSE ResultOf(tasks[t])
          /\ tasks'[t].count = tasks[t].count
    BY <1>1, SweepOfTask
  <1>3. acks' = acks
    BY DEF Recover
  <1>4. QED
    BY <1>2, <1>3 DEF Queue!Sweep, Queue!Swept, Queue!Abandoned, Notice

LEMMA ClaimExhaustedIsSweep ==
  ASSUME IInv, NEW a \in Agents, NEW u \in Tasks, ClaimExhausted(a, u)
  PROVE  /\ Gone \union {u} \subseteq Queue!MayGiveUp
         /\ Queue!Sweep(Gone \union {u})
  <1>1. RecoveredTasks[u] \in TaskRow /\ RecoveredTasks[u].status = "queued"
    BY RecoveredRows DEF ClaimExhausted, Oldest, Inbox, IInv
  <1>2. /\ tasks'[u].status = "failed"
        /\ tasks'[u].error = "attempts_exhausted"
        /\ tasks'[u].count = tasks[u].count
    BY <1>1, RecoveredRows DEF ClaimExhausted, TaskRow, IInv
  <1>3. /\ Phase(u)' = "done"
        /\ ResultOf(tasks'[u]) = <<"failed", "attempts_exhausted">>
    BY <1>2, PhaseCases, ResultCases DEF Phase, Finished
  <1>4. ASSUME NEW t \in Tasks, t # u
        PROVE  /\ tasks'[t] = RecoveredTasks[t]
               /\ \A n \in Numbers : attempts'[t][n] = RecoveredAttempts[t][n]
    BY <1>4, RecoveredRows DEF ClaimExhausted, IInv
  <1>5. \A t \in Tasks : t # u =>
          /\ Phase(t)' = IF t \in Gone THEN "done"
                         ELSE IF Phase(t) = "lapsed" THEN "waiting"
                         ELSE Phase(t)
          /\ ResultOf(tasks'[t]) =
               IF t \in Gone THEN <<"failed", "attempts_exhausted">>
               ELSE ResultOf(tasks[t])
          /\ tasks'[t].count = tasks[t].count
    BY <1>4, SweepOfTask
  <1>6. acks' = acks
    BY DEF ClaimExhausted
  <1>7. u \in Queue!MayGiveUp
    <2>1. tasks[u].count > 0
      BY <1>1, RecoveredRows, RelayAssumption
         DEF ClaimExhausted, IInv, TypeOK, TaskRow, Numbers
    <2>2. Phase(u) = "waiting" \/ Phase(u) = "lapsed"
      BY <1>1, SweptTask, PhaseCases
    <2>3. QED
      BY <2>1, <2>2 DEF Queue!MayGiveUp, Queue!In
  <1>8. QED
    BY <1>2, <1>3, <1>5, <1>6, <1>7, GoneMayBeGivenUp
       DEF Queue!Sweep, Queue!Swept, Queue!Abandoned, Notice

LEMMA ClaimTaskIsHandOut ==
  ASSUME IInv, NEW a \in Agents, NEW u \in Tasks, ClaimTask(a, u)
  PROVE  Queue!HandOut(Gone, u)
  <1> DEFINE n == RecoveredTasks[u].count + 1
  <1>1. RecoveredTasks[u] \in TaskRow /\ RecoveredTasks[u].status = "queued"
    BY RecoveredRows DEF ClaimTask, Oldest, Inbox, IInv
  <1>2. n \in Numbers
    BY <1>1, RelayAssumption DEF ClaimTask, IInv, TypeOK, Numbers, TaskRow
  <1>3. /\ tasks'[u].status = "processing"
        /\ tasks'[u].count = tasks[u].count + 1
    BY <1>1, RecoveredRows DEF ClaimTask, TaskRow, IInv
  <1>4. /\ attempts'[u][n] = NewAttempt
        /\ \A m \in Numbers :
             m # n => attempts'[u][m] = RecoveredAttempts[u][m]
    BY <1>2, RecoveredRows DEF ClaimTask, IInv
  <1>5. ~Lapsed(u)'
    <2>1. ASSUME NEW m \in Numbers PROVE ~Overdue(u, m)'
      <3>1. CASE m = n
        BY <1>4, <3>1, RelayAssumption DEF NewAttempt, NoAttempt, Overdue
      <3>2. CASE m # n
        <4>1. attempts[u][m] \in AttemptRow
          BY DEF IInv, TypeOK
        <4>2. attempts'[u][m] = RecoveredAttempt(u, m)
          BY <1>4, <3>2, RecoveredRows DEF IInv
        <4>3. QED
          BY <4>1, <4>2 DEF RecoveredAttempt, Overdue, AttemptRow
      <3>3. QED
        BY <3>1, <3>2
    <2>2. QED
      BY <2>1 DEF Lapsed
  <1>6. /\ Phase(u)' = "held"
        /\ ResultOf(tasks'[u]) = Null
    BY <1>3, <1>5, PhaseCases, ResultCases DEF Phase
  <1>7. /\ Queue!Swept(Gone)[u] = "waiting"
        /\ u \notin Gone
        /\ ResultOf(tasks[u]) = Null
    <2>1. PhaseOf(RecoveredTasks[u], "held") = "waiting"
      BY <1>1, PhaseCases
    <2>2. u \notin Gone
      BY <2>1, SweptTask
    <2>3. ResultOf(RecoveredTasks[u]) = Null
      BY <1>1, ResultCases
    <2>4. QED
      BY <2>1, <2>2, <2>3, SweptTask DEF Queue!Swept
  <1>8. ASSUME NEW t \in Tasks, t # u
        PROVE  /\ tasks'[t] = RecoveredTasks[t]
               /\ \A m \in Numbers : attempts'[t][m] = RecoveredAttempts[t][m]
    BY <1>8, RecoveredRows DEF ClaimTask, IInv
  <1>9. \A t \in Tasks : t # u =>
          /\ Phase(t)' = IF t \in Gone THEN "done"
                         ELSE IF Phase(t) = "lapsed" THEN "waiting"
                         ELSE Phase(t)
          /\ ResultOf(tasks'[t]) =
               IF t \in Gone THEN <<"failed", "attempts_exhausted">>
               ELSE ResultOf(tasks[t])
          /\ tasks'[t].count = tasks[t].count
    BY <1>8, SweepOfTask
  <1>10. acks' = acks
    BY DEF ClaimTask
  <1>11. QED
    BY <1>3, <1>6, <1>7, <1>9, <1>10
       DEF Queue!HandOut, Queue!Swept, Queue!Abandoned, Notice

LEMMA CreateNewIsCreate ==
  ASSUME IInv, NEW s \in Agents, NEW r \in Agents, NEW x \in Inputs,
         NEW k \in Keys \union {NoKey}, NEW u \in Tasks,
         CreateNew(s, r, x, k, u)
  PROVE  Queue!Create(u)
  <1>1. /\ NewTask(s, r, x, k).status = "queued"
        /\ NewTask(s, r, x, k).count = 0
    BY DEF NewTask, AbsentTask
  <1>2. /\ tasks[u].status = "absent" /\ tasks[u].count = 0
        /\ tasks'[u] = NewTask(s, r, x, k)
    BY DEF CreateNew, IInv, TypeOK, AbsentIsBlank
  <1>3. /\ Phase(u) = "absent" /\ Phase(u)' = "waiting"
        /\ ResultOf(tasks[u]) = Null /\ ResultOf(tasks'[u]) = Null
    BY <1>1, <1>2, PhaseCases, ResultCases DEF Phase
  <1>4. ASSUME NEW t \in Tasks, t # u
        PROVE  tasks'[t] = tasks[t] /\ Phase(t)' = Phase(t)
    <2>1. tasks'[t] = tasks[t] /\ attempts' = attempts
      BY <1>4 DEF CreateNew, IInv, TypeOK
    <2>2. QED
      BY <2>1, SamePhase DEF Overdue
  <1>5. acks' = acks
    BY DEF CreateNew
  <1>6. QED
    BY <1>1, <1>2, <1>3, <1>4, <1>5 DEF Queue!Create, Notice

LEMMA TickIsLapse ==
  ASSUME IInv, Tick
  PROVE  \E S \in SUBSET Queue!In("held") : Queue!Lapse(S)
  <1> DEFINE S == {t \in Tasks : Phase(t) = "held" /\ Lapsed(t)'}
  <1>1. ASSUME NEW t \in Tasks
        PROVE  Phase(t)' = IF t \in S THEN "lapsed" ELSE Phase(t)
    <2>1. tasks[t] \in TaskRow /\ tasks'[t] = tasks[t]
      BY DEF Tick, IInv, TypeOK
    <2>2. CASE tasks[t].status # "processing"
      BY <2>1, <2>2, PhaseCases DEF Phase, TaskRow
    <2>3. CASE tasks[t].status = "processing" /\ Lapsed(t)
      <3>1. Lapsed(t)'
        <4>1. PICK n \in Numbers : Overdue(t, n)
          BY <2>3 DEF Lapsed
        <4>2. attempts'[t][n] = Aged(attempts[t][n])
          BY DEF Tick
        <4>3. attempts[t][n] \in AttemptRow
          BY DEF IInv, TypeOK
        <4>4. Overdue(t, n)'
          BY <4>1, <4>2, <4>3 DEF Aged, Overdue, AttemptRow
        <4>5. QED
          BY <2>1, <2>3, <4>4 DEF Lapsed
      <3>2. QED
        BY <2>1, <2>3, <3>1, PhaseCases DEF Phase
    <2>4. CASE tasks[t].status = "processing" /\ ~Lapsed(t)
      BY <2>1, <2>4, PhaseCases DEF Phase
    <2>5. QED
      BY <2>2, <2>3, <2>4
  <1>2. tasks' = tasks /\ acks' = acks
    BY DEF Tick
  <1>3. S \in SUBSET Queue!In("held")
    BY DEF Queue!In
  <1>4. Queue!Lapse(S)
    BY <1>1, <1>2 DEF Queue!Lapse, Notice
  <1>5. QED
    BY <1>3, <1>4

(* A heartbeat is invisible: the task is held before and after.            *)
LEMMA HeartbeatStutters ==
  ASSUME IInv, NEW a \in Agents, NEW u \in Tasks, NEW m \in Numbers,
         Heartbeat(a, u, m)
  PROVE  UNCHANGED Queue!vars
  <1>1. ASSUME NEW t \in Tasks, NEW n \in Numbers
        PROVE  Overdue(t, n)' <=> Overdue(t, n)
    <2>1. attempts[u][m] \in AttemptRow
      BY DEF IInv, TypeOK
    <2>2. CASE t = u /\ n = m
      BY <2>1, <2>2, RelayAssumption
         DEF Heartbeat, IInv, TypeOK, AttemptRow, Live, Overdue
    <2>3. CASE ~(t = u /\ n = m)
      BY <2>3 DEF Heartbeat, IInv, TypeOK, Overdue
    <2>4. QED
      BY <2>2, <2>3
  <1>2. tasks' = tasks /\ acks' = acks
    BY DEF Heartbeat
  <1>3. \A t \in Tasks : Phase(t)' = Phase(t)
    BY <1>1, <1>2, SamePhase
  <1>4. QED
    BY <1>2, <1>3 DEF Queue!vars, Notice

LEMMA SubmitIsSettle ==
  ASSUME IInv, NEW a \in Agents, NEW u \in Tasks, NEW n \in Numbers,
         NEW act \in Actions, NEW v \in Results, Submit(a, u, n, act, v)
  PROVE  Queue!Settle(u, <<Outcome(act), v>>)
  <1>1. Live(u, n) /\ tasks[u].status = "processing"
    BY DEF Submit, Reply
  <1>2. ~Lapsed(u)
    <2>1. Agrees(tasks[u], attempts[u]) /\ attempts[u][n].ttl # 0
      BY <1>1, RelayAssumption
         DEF IInv, DeliveryAgrees, TypeOK, AttemptRow, Live
    <2>2. QED
      BY <1>1, <2>1 DEF Lapsed, Overdue, Agrees, Live
  <1>3. /\ tasks[u] \in TaskRow
        /\ tasks'[u].status = Outcome(act)
        /\ tasks'[u].count = tasks[u].count
        /\ tasks'[u].output = IF act = "complete" THEN v ELSE Null
        /\ tasks'[u].error = IF act = "complete" THEN Null ELSE v
    BY DEF Submit, IInv, TypeOK, TaskRow
  <1>4. Phase(u) = "held" /\ Phase(u)' = "done"
    BY <1>1, <1>2, <1>3, PhaseCases DEF Phase, Outcome, Finished
  <1>5. ResultOf(tasks'[u]) = <<Outcome(act), v>>
    BY <1>3, ResultCases DEF Outcome, Actions
  <1>6. ASSUME NEW t \in Tasks, t # u
        PROVE  tasks'[t] = tasks[t] /\ Phase(t)' = Phase(t)
    <2>1. /\ tasks'[t] = tasks[t]
          /\ \A m \in Numbers : attempts'[t][m] = attempts[t][m]
      BY <1>6 DEF Submit, IInv, TypeOK
    <2>2. QED
      BY <2>1, SamePhase DEF Overdue
  <1>7. Queue!Tell(u, <<Outcome(act), v>>)
    <2>1. \/ acks' = acks
          \/ acks' = acks \union
               {[task |-> u, number |-> n, action |-> act, payload |-> v]}
      BY DEF Submit, Acknowledge
    <2>2. QED
      BY <2>1 DEF Queue!Tell, Notice
  <1>8. QED
    BY <1>3, <1>4, <1>5, <1>6, <1>7 DEF Queue!Settle

LEMMA ResubmitIsRepeat ==
  ASSUME IInv, AcceptedIsStored, NEW a \in Agents, NEW u \in Tasks,
         NEW n \in Numbers, NEW act \in Actions, NEW v \in Results,
         Resubmit(a, u, n, act, v)
  PROVE  Queue!Repeat(u, <<Outcome(act), v>>)
  <1>1. /\ attempts[u][n].outcome \in Finished
        /\ attempts[u][n].action = act
        /\ attempts[u][n].payload = v
    <2>1. Reply(a, u, n, act, v) = "repeat"
      BY DEF Resubmit
    <2>2. QED
      BY <2>1, Zenon DEF Reply
  <1>2. /\ tasks[u].status = Outcome(act)
        /\ v = IF act = "complete" THEN tasks[u].output ELSE tasks[u].error
    BY <1>1 DEF AcceptedIsStored
  <1>3. Phase(u) = "done" /\ ResultOf(tasks[u]) = <<Outcome(act), v>>
    BY <1>2, PhaseCases, ResultCases DEF Phase, Outcome, Finished, Actions
  <1>4. tasks' = tasks /\ attempts' = attempts
    BY DEF Resubmit
  <1>5. \A t \in Tasks : Phase(t)' = Phase(t)
    BY <1>4, SamePhase DEF Overdue
  <1>6. Queue!Tell(u, <<Outcome(act), v>>)
    <2>1. \/ acks' = acks
          \/ acks' = acks \union
               {[task |-> u, number |-> n, action |-> act, payload |-> v]}
      BY DEF Resubmit, Acknowledge
    <2>2. QED
      BY <2>1 DEF Queue!Tell, Notice
  <1>7. QED
    BY <1>3, <1>4, <1>5, <1>6 DEF Queue!Repeat

-----------------------------------------------------------------------------
(* Every step of the relay is a step of the queue or leaves it alone.      *)
LEMMA StepIsQueueStep ==
  ASSUME IInv, AcceptedIsStored, [Next]_vars
  PROVE  Queue!Next \/ UNCHANGED Queue!vars
  <1>1. ASSUME UNCHANGED <<tasks, attempts, acks>> PROVE UNCHANGED Queue!vars
    <2>1. \A t \in Tasks : Phase(t)' = Phase(t)
      BY <1>1, SamePhase DEF Overdue
    <2>2. QED
      BY <1>1, <2>1 DEF Queue!vars, Notice
  <1>2. ASSUME NEW s \in Agents, Create(s)
        PROVE  Queue!Next \/ UNCHANGED Queue!vars
    <2>1. PICK r \in Agents, x \in Inputs, k \in Keys \union {NoKey},
               u \in Tasks :
            CreateNew(s, r, x, k, u) \/ CreateReplay(s, r, x, k, u)
      BY <1>2 DEF Create
    <2>2. CASE CreateNew(s, r, x, k, u)
      BY <2>2, CreateNewIsCreate DEF Queue!Next
    <2>3. CASE CreateReplay(s, r, x, k, u)
      BY <1>1, <2>3 DEF CreateReplay
    <2>4. QED
      BY <2>1, <2>2, <2>3
  <1>3. ASSUME Recover PROVE Queue!Next
    <2>1. Gone \in SUBSET Queue!MayGiveUp /\ Queue!Sweep(Gone)
      BY <1>3, RecoverIsSweep, GoneMayBeGivenUp
    <2>2. QED
      BY <2>1 DEF Queue!Next
  <1>4. ASSUME NEW a \in Agents, Claim(a) PROVE Queue!Next
    <2>1. CASE ClaimNothing(a)
      BY <1>3, <2>1 DEF ClaimNothing
    <2>2. ASSUME NEW u \in Tasks, ClaimExhausted(a, u) PROVE Queue!Next
      <3>1. /\ Gone \union {u} \in SUBSET Queue!MayGiveUp
            /\ Queue!Sweep(Gone \union {u})
        BY <2>2, ClaimExhaustedIsSweep
      <3>2. QED
        BY <3>1 DEF Queue!Next
    <2>3. ASSUME NEW u \in Tasks, ClaimTask(a, u) PROVE Queue!Next
      <3>1. Gone \in SUBSET Queue!MayGiveUp /\ Queue!HandOut(Gone, u)
        BY <2>3, ClaimTaskIsHandOut, GoneMayBeGivenUp
      <3>2. QED
        BY <3>1 DEF Queue!Next
    <2>4. QED
      BY <1>4, <2>1, <2>2, <2>3 DEF Claim
  <1>5. ASSUME NEW a \in Agents, Terminal(a) PROVE Queue!Next
    <2>1. PICK u \in Tasks, n \in Numbers, act \in Actions, v \in Results :
            Submit(a, u, n, act, v) \/ Resubmit(a, u, n, act, v)
      BY <1>5 DEF Terminal
    <2>2. <<Outcome(act), v>> \in Finished \X Results
      BY DEF Outcome, Finished
    <2>3. QED
      BY <2>1, <2>2, SubmitIsSettle, ResubmitIsRepeat DEF Queue!Next
  <1>6. ASSUME NEW a \in Agents, NEW u \in Tasks, NEW m \in Numbers,
               Heartbeat(a, u, m)
        PROVE  UNCHANGED Queue!vars
    BY <1>6, HeartbeatStutters
  <1>7. ASSUME Tick PROVE Queue!Next
    BY <1>7, TickIsLapse DEF Queue!Next
  <1>8. QED
    BY <1>1, <1>2, <1>3, <1>4, <1>5, <1>6, <1>7
       DEF Next, vars, Register, Restart

(* The relay's tables implement the task queue its SPEC promises.          *)
THEOREM RelayImplementsTaskQueue == Spec => ImplementsTaskQueue
  <1>1. Init => Queue!Init
    <2> SUFFICES ASSUME Init PROVE Queue!Init
      OBVIOUS
    <2>1. \A t \in Tasks : tasks[t].status = "absent" /\ tasks[t].count = 0
      BY DEF Init, AbsentTask
    <2>2. \A t \in Tasks : Phase(t) = "absent" /\ ResultOf(tasks[t]) = Null
      BY <2>1, PhaseCases, ResultCases DEF Phase
    <2>3. QED
      BY <2>1, <2>2 DEF Init, Queue!Init
  <1>2. IInv /\ AcceptedIsStored /\ [Next]_vars => [Queue!Next]_(Queue!vars)
    BY StepIsQueueStep
  <1>3. QED
    BY <1>1, <1>2, Invariance, AcceptedIsStoredAlways, PTL
       DEF Spec, ImplementsTaskQueue, Queue!Spec
=============================================================================
