--------------------------- MODULE RelayPgProofs ---------------------------
(***************************************************************************)
(* Theorems about RelayPg: what survives overlapping transactions for any  *)
(* number of tasks, connections, processes and deliveries.                 *)
(***************************************************************************)
EXTENDS RelayPg, TLAPS

(* A task in processing has its latest delivery in processing.             *)
LatestRuns ==
  \A t \in Tasks : tasks[t].status = "processing" =>
    /\ tasks[t].count \in Numbers
    /\ attempts[t][tasks[t].count].outcome = "processing"

(* What a session read was true once: the attempts it found exist, counts  *)
(* have only grown since.                                                  *)
SessionsBehind ==
  \A c \in Conns, t \in Tasks :
    /\ \A n \in Numbers : <<t, n>> \in txs[c].seen => n <= tasks[t].count
    /\ txs[c].rows[t] # NotLoaded => txs[c].rows[t].count <= tasks[t].count

(* A session that found the latest delivery overdue and loaded its task    *)
(* has loaded it as being processed, or it is not processed any more.      *)
SessionsKnow ==
  \A c \in Conns, t \in Tasks, n \in Numbers :
    /\ txs[c].stage = "tasks"
    /\ <<t, n>> \in txs[c].seen
    /\ n = tasks[t].count
    /\ tasks[t].status = "processing"
    => txs[c].rows[t] # NotLoaded /\ txs[c].rows[t].status = "processing"

(* The inductive invariant. *)
IInv ==
  /\ TypeOK
  /\ DeliveriesNumbered
  /\ LatestRuns
  /\ SessionsBehind
  /\ SessionsKnow

-----------------------------------------------------------------------------
LEMMA NoTxRow == NoTx \in Transaction
  BY RelayPgAssumption DEF NoTx, NoRows, Transaction

(* What the UPDATEs of a recovery pass leave of a task and of an attempt.  *)
LEMMA ReturnedRows ==
  ASSUME TypeOK, NEW c \in Conns, NEW t \in Tasks
  PROVE  /\ Returned(t, c) \in TaskRow
         /\ Returned(t, c).count = tasks[t].count
         /\ Returned(t, c).status = "processing" => Returned(t, c) = tasks[t]
         /\ txs[c].rows[t] # NotLoaded /\ txs[c].rows[t].status = "processing" =>
              Returned(t, c).status # "processing"
  <1>1. tasks[t] \in TaskRow
    BY DEF TypeOK
  <1>2. CASE txs[c].rows[t] = NotLoaded \/ txs[c].rows[t].status # "processing"
    BY <1>1, <1>2 DEF Returned
  <1>3. CASE ~(txs[c].rows[t] = NotLoaded \/ txs[c].rows[t].status # "processing")
    <2>1. \E s \in {"failed", "queued"} :
            Returned(t, c) = [tasks[t] EXCEPT !.status = s]
      BY <1>3 DEF Returned
    <2>2. QED
      BY <1>1, <2>1 DEF TaskRow, Finished
  <1>4. QED
    BY <1>2, <1>3

LEMMA ExpiredRows ==
  ASSUME TypeOK, NEW c \in Conns
  PROVE  /\ ExpiredAttempts(c) \in [Tasks -> [Numbers -> AttemptRow]]
         /\ \A t \in Tasks, n \in Numbers :
              /\ <<t, n>> \in txs[c].seen =>
                   ExpiredAttempts(c)[t][n].outcome = "expired"
              /\ <<t, n>> \notin txs[c].seen =>
                   ExpiredAttempts(c)[t][n] = attempts[t][n]
  <1>1. ASSUME NEW t \in Tasks, NEW n \in Numbers
        PROVE  attempts[t][n] \in AttemptRow
    BY DEF TypeOK
  <1>2. ASSUME NEW t \in Tasks, NEW n \in Numbers
        PROVE  [attempts[t][n] EXCEPT !.outcome = "expired"] \in AttemptRow
    BY <1>1 DEF AttemptRow
  <1>3. QED
    BY <1>1, <1>2 DEF ExpiredAttempts, AttemptRow

(* Counts only grow, and a task comes to be processed by a new delivery.   *)
Onward ==
  \A t \in Tasks :
    /\ tasks'[t].count \in Nat
    /\ tasks'[t].count >= tasks[t].count
    /\ tasks'[t].status = "processing" =>
         tasks'[t] = tasks[t] \/ tasks'[t].count > tasks[t].count

(* Closing a transaction and leaving the tables to fall behind it.         *)
LEMMA ClosedSessions ==
  ASSUME IInv, NEW c \in Conns, txs' = [txs EXCEPT ![c] = NoTx], Onward
  PROVE  txs' \in [Conns -> Transaction] /\ SessionsBehind' /\ SessionsKnow'
  <1> USE DEF IInv
  <1>1. txs' \in [Conns -> Transaction]
    BY NoTxRow DEF TypeOK
  <1>2. \A d \in Conns : txs'[d] = IF d = c THEN NoTx ELSE txs[d]
    BY DEF TypeOK
  <1>3. \A t \in Tasks : tasks[t].count \in Nat
    BY DEF TypeOK, TaskRow
  <1>4. /\ NoTx.seen = {} /\ NoTx.stage = "none"
        /\ \A t \in Tasks : NoTx.rows[t] = NotLoaded
    BY DEF NoTx, NoRows
  <1>5. \A d \in Conns, t \in Tasks :
          txs[d].rows[t] # NotLoaded => txs[d].rows[t].count \in Nat
    BY DEF TypeOK, Transaction, TaskRow
  <1>6. SessionsBehind'
    <2> SUFFICES ASSUME NEW d \in Conns, NEW t \in Tasks
                 PROVE  /\ \A n \in Numbers :
                             <<t, n>> \in txs'[d].seen => n <= tasks'[t].count
                        /\ txs'[d].rows[t] # NotLoaded =>
                             txs'[d].rows[t].count <= tasks'[t].count
      BY DEF SessionsBehind
    <2>1. CASE d = c
      BY <2>1, <1>2, <1>4
    <2>2. CASE d # c
      BY <2>2, <1>2, <1>3, <1>5 DEF SessionsBehind, Numbers, Onward
    <2>3. QED
      BY <2>1, <2>2
  <1>7. SessionsKnow'
    <2> SUFFICES ASSUME NEW d \in Conns, NEW t \in Tasks, NEW n \in Numbers,
                        txs'[d].stage = "tasks", <<t, n>> \in txs'[d].seen,
                        n = tasks'[t].count, tasks'[t].status = "processing"
                 PROVE  /\ txs'[d].rows[t] # NotLoaded
                        /\ txs'[d].rows[t].status = "processing"
      BY DEF SessionsKnow
    <2>1. d # c /\ txs'[d] = txs[d]
      BY <1>2, <1>4
    <2>2. n <= tasks[t].count
      BY <2>1 DEF SessionsBehind
    <2>3. tasks'[t] = tasks[t]
      BY <2>2, <1>3 DEF Numbers, Onward
    <2>4. QED
      BY <2>1, <2>3 DEF SessionsKnow
  <1>8. QED
    BY <1>1, <1>6, <1>7

(* The tables after a recovery pass.  *)
LEMMA RecoveredTables ==
  ASSUME IInv, NEW c \in Conns, txs[c].stage = "tasks"
  PROVE  /\ ReturnedTasks(c) \in [Tasks -> TaskRow]
         /\ \A t \in Tasks, n \in Numbers :
              ExpiredAttempts(c)[t][n].outcome # "none" <=> n <= tasks[t].count
         /\ \A t \in Tasks : Returned(t, c).status = "processing" =>
              /\ tasks[t].count \in Numbers
              /\ ExpiredAttempts(c)[t][tasks[t].count].outcome = "processing"
  <1> USE DEF IInv
  <1>1. ReturnedTasks(c) \in [Tasks -> TaskRow]
    BY ReturnedRows DEF ReturnedTasks
  <1>2. ASSUME NEW t \in Tasks, NEW n \in Numbers
        PROVE  ExpiredAttempts(c)[t][n].outcome # "none" <=> n <= tasks[t].count
    <2>1. CASE <<t, n>> \in txs[c].seen
      <3>1. ExpiredAttempts(c)[t][n].outcome = "expired"
        BY <2>1, ExpiredRows
      <3>2. QED
        BY <2>1, <3>1 DEF SessionsBehind
    <2>2. CASE <<t, n>> \notin txs[c].seen
      <3>1. ExpiredAttempts(c)[t][n] = attempts[t][n]
        BY <2>2, ExpiredRows
      <3>2. QED
        BY <3>1 DEF DeliveriesNumbered
    <2>3. QED
      BY <2>1, <2>2
  <1>3. ASSUME NEW t \in Tasks, Returned(t, c).status = "processing"
        PROVE  /\ tasks[t].count \in Numbers
               /\ ExpiredAttempts(c)[t][tasks[t].count].outcome = "processing"
    <2>1. tasks[t].status = "processing"
      BY <1>3, ReturnedRows
    <2>2. tasks[t].count \in Numbers
      BY <2>1 DEF LatestRuns
    <2>3. <<t, tasks[t].count>> \notin txs[c].seen
      BY <1>3, <2>1, <2>2, ReturnedRows DEF SessionsKnow
    <2>4. QED
      BY <2>1, <2>2, <2>3, ExpiredRows DEF LatestRuns
  <1>4. QED
    BY <1>1, <1>2, <1>3

-----------------------------------------------------------------------------
(* A transaction that commits its recovery pass only.  *)
LEMMA RecoveryKeeps ==
  ASSUME IInv, NEW c \in Conns, txs[c].stage = "tasks",
         tasks' = ReturnedTasks(c), attempts' = ExpiredAttempts(c),
         txs' = [txs EXCEPT ![c] = NoTx]
  PROVE  IInv'
  <1>1. TypeOK
    BY DEF IInv
  <1>2. \A t \in Tasks : tasks'[t] = Returned(t, c)
    BY DEF ReturnedTasks
  <1>3. /\ \A t \in Tasks : tasks[t].count \in Nat
        /\ \A t \in Tasks : tasks'[t].count = tasks[t].count
        /\ \A t \in Tasks : tasks'[t].status = "processing" => tasks'[t] = tasks[t]
    BY <1>1, <1>2, ReturnedRows DEF TypeOK, TaskRow
  <1>4. txs' \in [Conns -> Transaction] /\ SessionsBehind' /\ SessionsKnow'
    <2>1. Onward
      BY <1>3 DEF Onward
    <2>2. QED
      BY <2>1, ClosedSessions
  <1>5. TypeOK'
    BY <1>1, <1>4, RecoveredTables, ExpiredRows DEF TypeOK
  <1>6. DeliveriesNumbered' /\ LatestRuns'
    BY <1>2, <1>3, RecoveredTables DEF DeliveriesNumbered, LatestRuns
  <1>7. QED
    BY <1>4, <1>5, <1>6 DEF IInv

LEMMA ClaimExhaustedKeeps ==
  ASSUME IInv, NEW c \in Conns, NEW u \in Tasks, ClaimExhausted(c, u)
  PROVE  IInv'
  <1>1. TypeOK /\ txs[c].stage = "tasks"
    BY DEF IInv, ClaimExhausted, Selectable
  <1>2. \A t \in Tasks : tasks'[t] = IF t = u
          THEN [Returned(t, c) EXCEPT !.status = "failed"] ELSE Returned(t, c)
    BY DEF ClaimExhausted, ReturnedTasks
  <1>3. [Returned(u, c) EXCEPT !.status = "failed"] \in TaskRow
    BY <1>1, ReturnedRows DEF TaskRow, Finished
  <1>4. \A t \in Tasks : tasks'[t] \in TaskRow
    BY <1>1, <1>2, <1>3, ReturnedRows
  <1>5. /\ \A t \in Tasks : tasks[t].count \in Nat
        /\ \A t \in Tasks : tasks'[t].count = tasks[t].count
        /\ \A t \in Tasks : tasks'[t].status = "processing" =>
             tasks'[t] = tasks[t] /\ tasks'[t] = Returned(t, c)
    <2>1. \A t \in Tasks : tasks[t].count \in Nat
      BY <1>1 DEF TypeOK, TaskRow
    <2>2. ASSUME NEW t \in Tasks
          PROVE  /\ tasks'[t].count = tasks[t].count
                 /\ tasks'[t].status = "processing" =>
                      tasks'[t] = tasks[t] /\ tasks'[t] = Returned(t, c)
      <3>1. CASE t = u
        <4>1. Returned(u, c) \in TaskRow /\ Returned(u, c).count = tasks[u].count
          BY <1>1, ReturnedRows
        <4>2. tasks'[t].status = "failed" /\ tasks'[t].count = tasks[t].count
          BY <1>2, <3>1, <4>1 DEF TaskRow
        <4>3. QED
          BY <4>2
      <3>2. CASE t # u
        BY <1>1, <1>2, <3>2, ReturnedRows
      <3>3. QED
        BY <3>1, <3>2
    <2>3. QED
      BY <2>1, <2>2
  <1>6. attempts' = ExpiredAttempts(c) /\ txs' = [txs EXCEPT ![c] = NoTx]
    BY DEF ClaimExhausted
  <1>7. txs' \in [Conns -> Transaction] /\ SessionsBehind' /\ SessionsKnow'
    <2>1. Onward
      BY <1>5 DEF Onward
    <2>2. QED
      BY <1>6, <2>1, ClosedSessions
  <1>8. TypeOK'
    <2>1. DOMAIN tasks' = Tasks /\ tasks' = [t \in Tasks |-> tasks'[t]]
      BY DEF ClaimExhausted, ReturnedTasks
    <2>2. QED
      BY <1>1, <1>4, <1>6, <1>7, <2>1, ExpiredRows DEF TypeOK
  <1>9. DeliveriesNumbered' /\ LatestRuns'
    BY <1>1, <1>5, <1>6, RecoveredTables DEF DeliveriesNumbered, LatestRuns
  <1>10. QED
    BY <1>7, <1>8, <1>9 DEF IInv

(* The unique constraint: a claim that commits counted the latest delivery. *)
LEMMA ClaimTaskKeeps ==
  ASSUME IInv, NEW c \in Conns, NEW u \in Tasks, ClaimTask(c, u)
  PROVE  IInv'
  <1> DEFINE k == Count(c, u) + 1
  <1>1. TypeOK /\ txs[c].stage = "tasks"
    BY DEF IInv, ClaimTask, Selectable
  <1>2. \A t \in Tasks : tasks[t] \in TaskRow /\ tasks[t].count \in Nat
    BY <1>1 DEF TypeOK, TaskRow
  <1>3. Count(c, u) \in Nat /\ Count(c, u) <= tasks[u].count
    BY <1>1, <1>2 DEF IInv, SessionsBehind, Count, TypeOK, Transaction, TaskRow
  <1>4. k \in Numbers /\ attempts[u][k].outcome = "none"
    BY <1>3, RelayPgAssumption DEF ClaimTask, Numbers
  <1>5. k = tasks[u].count + 1
    BY <1>2, <1>3, <1>4 DEF IInv, DeliveriesNumbered
  <1>6. <<u, k>> \notin txs[c].seen
    BY <1>2, <1>4, <1>5 DEF IInv, SessionsBehind
  <1>7. \A t \in Tasks : tasks'[t] = IF t = u
          THEN [status |-> "processing", count |-> k] ELSE Returned(t, c)
    BY DEF ClaimTask, ReturnedTasks
  <1>8. \A t \in Tasks, n \in Numbers : attempts'[t][n] =
          IF t = u /\ n = k THEN [outcome |-> "processing", ttl |-> txs[c].ttl]
          ELSE ExpiredAttempts(c)[t][n]
    BY <1>1, <1>4, ExpiredRows DEF ClaimTask
  <1>9. txs' = [txs EXCEPT ![c] = NoTx]
    BY DEF ClaimTask
  <1>10. /\ \A t \in Tasks :
              tasks'[t].count \in Nat /\ tasks'[t].count >= tasks[t].count
         /\ \A t \in Tasks : tasks'[t].status = "processing" =>
              tasks'[t] = tasks[t] \/ tasks'[t].count > tasks[t].count
    <2>1. ASSUME NEW t \in Tasks, t # u
          PROVE  /\ tasks'[t].count = tasks[t].count
                 /\ tasks'[t].status = "processing" => tasks'[t] = tasks[t]
      BY <1>1, <1>7, <2>1, ReturnedRows
    <2>2. tasks'[u].count = tasks[u].count + 1
      BY <1>5, <1>7
    <2>3. QED
      BY <1>2, <2>1, <2>2
  <1>11. txs' \in [Conns -> Transaction] /\ SessionsBehind' /\ SessionsKnow'
    <2>1. Onward
      BY <1>10 DEF Onward
    <2>2. QED
      BY <1>9, <2>1, ClosedSessions
  <1>12. TypeOK'
    <2>1. tasks' \in [Tasks -> TaskRow]
      <3>1. [status |-> "processing", count |-> k] \in TaskRow
        BY <1>4, RelayPgAssumption DEF TaskRow, Numbers
      <3>2. ReturnedTasks(c) \in [Tasks -> TaskRow]
        BY <1>1, RecoveredTables
      <3>3. QED
        BY <3>1, <3>2 DEF ClaimTask
    <2>2. attempts' \in [Tasks -> [Numbers -> AttemptRow]]
      <3>1. [outcome |-> "processing", ttl |-> txs[c].ttl] \in AttemptRow
        BY <1>1 DEF TypeOK, Transaction, AttemptRow
      <3>2. QED
        BY <1>1, <1>4, <3>1, ExpiredRows DEF ClaimTask
    <2>3. QED
      BY <1>11, <2>1, <2>2 DEF TypeOK
  <1>13. DeliveriesNumbered'
    <2> SUFFICES ASSUME NEW t \in Tasks, NEW n \in Numbers
                 PROVE  attempts'[t][n].outcome # "none" <=> n <= tasks'[t].count
      BY DEF DeliveriesNumbered
    <2>1. n \in Nat
      BY DEF Numbers
    <2>2. CASE t # u
      <3>1. tasks'[t].count = tasks[t].count
        BY <1>1, <1>7, <2>2, ReturnedRows
      <3>2. QED
        BY <1>1, <1>8, <2>2, <3>1, RecoveredTables
    <2>3. CASE t = u /\ n = k
      BY <1>7, <1>8, <2>1, <2>3
    <2>4. CASE t = u /\ n # k
      <3>1. tasks'[t].count = tasks[t].count + 1
        BY <1>5, <1>7, <2>4
      <3>2. n <= tasks[t].count <=> n <= tasks'[t].count
        BY <1>2, <1>5, <2>1, <2>4, <3>1
      <3>3. QED
        BY <1>1, <1>8, <2>4, <3>2, RecoveredTables
    <2>5. QED
      BY <2>2, <2>3, <2>4
  <1>14. LatestRuns'
    <2> SUFFICES ASSUME NEW t \in Tasks, tasks'[t].status = "processing"
                 PROVE  /\ tasks'[t].count \in Numbers
                        /\ attempts'[t][tasks'[t].count].outcome = "processing"
      BY DEF LatestRuns
    <2>1. CASE t = u
      BY <1>4, <1>7, <1>8, <2>1
    <2>2. CASE t # u
      <3>1. Returned(t, c).status = "processing" /\ tasks'[t].count = tasks[t].count
        BY <1>1, <1>7, <2>2, ReturnedRows
      <3>2. QED
        BY <1>1, <1>8, <2>2, <3>1, RecoveredTables
    <2>3. QED
      BY <2>1, <2>2
  <1>15. QED
    BY <1>11, <1>12, <1>13, <1>14 DEF IInv

(* Opening a transaction: what it reads is true now.  *)
LEMMA OpenedSessions ==
  ASSUME IInv, NEW c \in Conns, NEW x \in Transaction,
         txs' = [txs EXCEPT ![c] = x], UNCHANGED <<tasks, attempts>>,
         \A t \in Tasks, n \in Numbers : <<t, n>> \in x.seen => n <= tasks[t].count,
         \A t \in Tasks : x.rows[t] # NotLoaded => x.rows[t].count <= tasks[t].count,
         \A t \in Tasks, n \in Numbers :
           x.stage = "tasks" /\ <<t, n>> \in x.seen
             => x.rows[t] # NotLoaded
                /\ (tasks[t].status = "processing" => x.rows[t].status = "processing")
  PROVE  IInv'
  <1>1. TypeOK'
    BY DEF IInv, TypeOK
  <1>2. \A d \in Conns : txs'[d] = IF d = c THEN x ELSE txs[d]
    BY DEF IInv, TypeOK
  <1>3. SessionsBehind'
    BY <1>2 DEF IInv, SessionsBehind
  <1>4. SessionsKnow'
    BY <1>2 DEF IInv, SessionsKnow
  <1>5. DeliveriesNumbered' /\ LatestRuns'
    BY DEF IInv, DeliveriesNumbered, LatestRuns
  <1>6. QED
    BY <1>1, <1>3, <1>4, <1>5 DEF IInv

LEMMA BeginKeeps ==
  ASSUME IInv, NEW c \in Conns, NEW op \in {"recover", "claim"}, Begin(c, op)
  PROVE  IInv'
  <1> DEFINE x == [op |-> op, stage |-> "attempts", seen |-> OverdueAttempts,
                   rows |-> NoRows, ttl |-> LeaseSeconds]
  <1>1. x \in Transaction
    BY RelayPgAssumption DEF Transaction, OverdueAttempts, NoRows
  <1>2. \A t \in Tasks, n \in Numbers : <<t, n>> \in x.seen => n <= tasks[t].count
    BY DEF OverdueAttempts, Overdue, IInv, DeliveriesNumbered
  <1>3. \A t \in Tasks : x.rows[t] = NotLoaded
    BY DEF NoRows
  <1>4. x.stage # "tasks"
    OBVIOUS
  <1>5. txs' = [txs EXCEPT ![c] = x] /\ UNCHANGED <<tasks, attempts>>
    BY DEF Begin
  <1> HIDE DEF x
  <1>6. QED
    BY <1>1, <1>2, <1>3, <1>4, <1>5, OpenedSessions

LEMMA LoadKeeps ==
  ASSUME IInv, NEW c \in Conns, Load(c)
  PROVE  IInv'
  <1> DEFINE rows == [t \in Tasks |->
                       IF \E n \in Numbers : <<t, n>> \in txs[c].seen
                         THEN tasks[t] ELSE NotLoaded]
             x == [txs[c] EXCEPT !.stage = "tasks", !.rows = rows]
  <1>1. txs[c] \in Transaction /\ \A t \in Tasks : tasks[t] \in TaskRow
    BY DEF IInv, TypeOK
  <1>2. rows \in [Tasks -> TaskRow \union {NotLoaded}]
    BY <1>1
  <1>3. /\ x \in Transaction
        /\ x.seen = txs[c].seen
        /\ x.rows = rows
    BY <1>1, <1>2 DEF Transaction
  <1>4. txs' = [txs EXCEPT ![c] = x] /\ UNCHANGED <<tasks, attempts>>
    BY DEF Load
  <1>5. \A t \in Tasks : rows[t] # NotLoaded =>
          rows[t] = tasks[t] /\ rows[t].count <= tasks[t].count
    BY <1>1 DEF TaskRow
  <1>6. \A t \in Tasks, n \in Numbers :
          <<t, n>> \in txs[c].seen => rows[t] = tasks[t] /\ rows[t] # NotLoaded
    BY <1>1, NotLoadedIsNoRow
  <1>7. \A t \in Tasks, n \in Numbers :
          <<t, n>> \in txs[c].seen => n <= tasks[t].count
    BY DEF IInv, SessionsBehind
  <1> HIDE DEF rows, x
  <1>8. QED
    BY <1>3, <1>4, <1>5, <1>6, <1>7, OpenedSessions

LEMMA ReadKeeps ==
  ASSUME IInv, NEW c \in Conns, NEW op \in LoopOps, NEW u \in Tasks,
         NEW m \in Numbers, Read(c, op, u, m)
  PROVE  IInv'
  <1> DEFINE x == [op |-> op, stage |-> "tasks", seen |-> {<<u, m>>},
                   rows |-> [NoRows EXCEPT ![u] = tasks[u]],
                   ttl |-> LeaseSeconds]
  <1>1. tasks[u] \in TaskRow
    BY DEF IInv, TypeOK
  <1>2. x \in Transaction
    BY <1>1, RelayPgAssumption DEF Transaction, NoRows
  <1>3. \A t \in Tasks :
          x.rows[t] = IF t = u THEN tasks[u] ELSE NotLoaded
    BY DEF NoRows
  <1>4. txs' = [txs EXCEPT ![c] = x] /\ UNCHANGED <<tasks, attempts>>
    BY DEF Read
  <1>5. m <= tasks[u].count
    BY DEF Read, Live, IInv, DeliveriesNumbered
  <1>6. tasks[u].count <= tasks[u].count /\ tasks[u] # NotLoaded
    BY <1>1, NotLoadedIsNoRow DEF TaskRow
  <1>7. \A t \in Tasks, n \in Numbers : <<t, n>> \in x.seen => t = u /\ n = m
    OBVIOUS
  <1> HIDE DEF x
  <1>8. QED
    BY <1>2, <1>3, <1>4, <1>5, <1>6, <1>7, OpenedSessions

LEMMA CommitHeartbeatKeeps ==
  ASSUME IInv, NEW c \in Conns, NEW u \in Tasks, NEW m \in Numbers,
         CommitHeartbeat(c, u, m)
  PROVE  IInv'
  <1>1. TypeOK
    BY DEF IInv
  <1>2. \A t \in Tasks, n \in Numbers : attempts[t][n] \in AttemptRow
    BY <1>1 DEF TypeOK
  <1>3. /\ [attempts[u][m] EXCEPT !.ttl = txs[c].ttl] \in AttemptRow
        /\ [attempts[u][m] EXCEPT !.ttl = txs[c].ttl].outcome = attempts[u][m].outcome
    BY <1>1, <1>2 DEF TypeOK, Transaction, AttemptRow
  <1>4. /\ attempts' \in [Tasks -> [Numbers -> AttemptRow]]
        /\ \A t \in Tasks, n \in Numbers :
             attempts'[t][n].outcome = attempts[t][n].outcome
    BY <1>1, <1>3 DEF CommitHeartbeat, TypeOK
  <1>5. tasks' = tasks /\ txs' = [txs EXCEPT ![c] = NoTx]
    BY DEF CommitHeartbeat
  <1>6. \A t \in Tasks : tasks[t].count \in Nat
    BY <1>1 DEF TypeOK, TaskRow
  <1>7. txs' \in [Conns -> Transaction] /\ SessionsBehind' /\ SessionsKnow'
    <2>1. Onward
      BY <1>5, <1>6 DEF Onward
    <2>2. QED
      BY <1>5, <2>1, ClosedSessions
  <1>8. DeliveriesNumbered' /\ LatestRuns'
    <2>1. DeliveriesNumbered'
      BY <1>4, <1>5 DEF IInv, DeliveriesNumbered
    <2>2. LatestRuns'
      BY <1>4, <1>5 DEF IInv, LatestRuns
    <2>3. QED
      BY <2>1, <2>2
  <1>9. QED
    BY <1>1, <1>4, <1>5, <1>7, <1>8 DEF IInv, TypeOK

LEMMA CommitTerminalKeeps ==
  ASSUME IInv, NEW c \in Conns, NEW u \in Tasks, NEW m \in Numbers,
         CommitTerminal(c, u, m)
  PROVE  IInv'
  <1>1. TypeOK
    BY DEF IInv
  <1>2. PICK o \in Finished :
          /\ tasks' = [tasks EXCEPT ![u].status = o]
          /\ attempts' = [attempts EXCEPT ![u][m].outcome = o]
    BY DEF CommitTerminal, Finished
  <1>3. o \notin {"none", "processing"}
    BY DEF Finished
  <1>4. /\ tasks[u] \in TaskRow
        /\ attempts[u][m] \in AttemptRow
    BY <1>1 DEF TypeOK
  <1>5. /\ [tasks[u] EXCEPT !.status = o] \in TaskRow
        /\ [tasks[u] EXCEPT !.status = o].status = o
        /\ [tasks[u] EXCEPT !.status = o].count = tasks[u].count
    BY <1>4 DEF TaskRow
  <1>6. /\ [attempts[u][m] EXCEPT !.outcome = o] \in AttemptRow
        /\ [attempts[u][m] EXCEPT !.outcome = o].outcome = o
    BY <1>4 DEF AttemptRow
  <1>7. /\ tasks' \in [Tasks -> TaskRow]
        /\ \A t \in Tasks : t # u => tasks'[t] = tasks[t]
        /\ tasks'[u].status = o /\ tasks'[u].count = tasks[u].count
    BY <1>1, <1>2, <1>5 DEF TypeOK
  <1>8. /\ attempts' \in [Tasks -> [Numbers -> AttemptRow]]
        /\ \A t \in Tasks, n \in Numbers :
             <<t, n>> # <<u, m>> => attempts'[t][n] = attempts[t][n]
        /\ attempts'[u][m].outcome = o
    BY <1>1, <1>2, <1>6 DEF TypeOK
  <1>9. txs' = [txs EXCEPT ![c] = NoTx] /\ <<u, m>> \in txs[c].seen
    BY DEF CommitTerminal
  <1>10. \A t \in Tasks : tasks[t].count \in Nat /\ tasks'[t].count = tasks[t].count
    BY <1>1, <1>7 DEF TypeOK, TaskRow
  <1>11. \A t \in Tasks :
           tasks'[t].status = "processing" => t # u /\ tasks'[t] = tasks[t]
    BY <1>3, <1>7
  <1>12. txs' \in [Conns -> Transaction] /\ SessionsBehind' /\ SessionsKnow'
    <2>1. Onward
      BY <1>10, <1>11 DEF Onward
    <2>2. QED
      BY <1>9, <2>1, ClosedSessions
  <1>13. m <= tasks[u].count
    BY <1>9 DEF IInv, SessionsBehind
  <1>14. DeliveriesNumbered'
    BY <1>3, <1>8, <1>10, <1>13 DEF IInv, DeliveriesNumbered
  <1>15. LatestRuns'
    BY <1>8, <1>10, <1>11 DEF IInv, LatestRuns
  <1>16. QED
    BY <1>7, <1>8, <1>12, <1>14, <1>15 DEF IInv, TypeOK

LEMMA RollbackKeeps ==
  ASSUME IInv, NEW c \in Conns, Rollback(c)
  PROVE  IInv'
  <1>1. /\ txs' = [txs EXCEPT ![c] = NoTx]
        /\ UNCHANGED <<tasks, attempts>>
    BY DEF Rollback
  <1>2. \A t \in Tasks : tasks[t].count \in Nat
    BY DEF IInv, TypeOK, TaskRow
  <1>3. txs' \in [Conns -> Transaction] /\ SessionsBehind' /\ SessionsKnow'
    <2>1. Onward
      BY <1>1, <1>2 DEF Onward
    <2>2. QED
      BY <1>1, <2>1, ClosedSessions
  <1>4. QED
    BY <1>1, <1>3 DEF IInv, TypeOK, DeliveriesNumbered, LatestRuns

LEMMA TickKeeps ==
  ASSUME IInv, Tick
  PROVE  IInv'
  <1>1. TypeOK
    BY DEF IInv
  <1>2. \A x \in 0 .. LeaseSeconds : Older(x) \in 0 .. LeaseSeconds
    BY RelayPgAssumption DEF Older
  <1>3. /\ attempts' \in [Tasks -> [Numbers -> AttemptRow]]
        /\ \A t \in Tasks, n \in Numbers :
             attempts'[t][n].outcome = attempts[t][n].outcome
    <2>1. ASSUME NEW t \in Tasks, NEW n \in Numbers
          PROVE  /\ attempts'[t][n] \in AttemptRow
                 /\ attempts'[t][n].outcome = attempts[t][n].outcome
      <3>1. attempts[t][n] \in AttemptRow
        BY <1>1 DEF TypeOK
      <3>2. attempts'[t][n] = [attempts[t][n] EXCEPT !.ttl = Older(@)]
        BY DEF Tick
      <3>3. QED
        BY <1>2, <3>1, <3>2 DEF AttemptRow
    <2>2. attempts' = [t \in Tasks |-> [n \in Numbers |-> attempts'[t][n]]]
      BY DEF Tick
    <2>3. QED
      BY <2>1, <2>2
  <1>4. ASSUME NEW d \in Conns
        PROVE  /\ txs'[d] \in Transaction
               /\ txs'[d].seen = txs[d].seen
               /\ txs'[d].rows = txs[d].rows
               /\ txs'[d].stage = txs[d].stage
    <2>1. txs[d] \in Transaction
      BY <1>1 DEF TypeOK
    <2>2. txs'[d] = [txs[d] EXCEPT !.ttl = Older(@)]
      BY DEF Tick
    <2>3. Older(txs[d].ttl) \in 0 .. LeaseSeconds
      BY <1>2, <2>1 DEF Transaction
    <2>4. QED
      BY <2>1, <2>2, <2>3 DEF Transaction
  <1>5. txs' \in [Conns -> Transaction]
    BY <1>4 DEF Tick
  <1>6. tasks' = tasks
    BY DEF Tick
  <1>7. DeliveriesNumbered' /\ LatestRuns'
    BY <1>3, <1>6 DEF IInv, DeliveriesNumbered, LatestRuns
  <1>8. SessionsBehind' /\ SessionsKnow'
    BY <1>4, <1>6 DEF IInv, SessionsBehind, SessionsKnow
  <1>9. QED
    BY <1>1, <1>3, <1>5, <1>6, <1>7, <1>8 DEF IInv, TypeOK

-----------------------------------------------------------------------------
(* The inductive invariant holds, however transactions overlap.            *)
THEOREM OverlapInvariance == Spec => []IInv
  <1>1. Init => IInv
    <2> SUFFICES ASSUME Init PROVE IInv
      OBVIOUS
    <2>1. TypeOK
      BY NoTxRow, RelayPgAssumption DEF Init, TypeOK, TaskRow, AttemptRow
    <2>2. DeliveriesNumbered /\ LatestRuns
      BY DEF Init, DeliveriesNumbered, LatestRuns, Numbers
    <2>3. SessionsBehind /\ SessionsKnow
      BY DEF Init, SessionsBehind, SessionsKnow, NoTx, NoRows
    <2>4. QED
      BY <2>1, <2>2, <2>3 DEF IInv
  <1>2. IInv /\ [Next]_vars => IInv'
    <2> SUFFICES ASSUME IInv, [Next]_vars PROVE IInv'
      OBVIOUS
    <2>1. CASE UNCHANGED vars
      BY <2>1 DEF vars, IInv, TypeOK, DeliveriesNumbered, LatestRuns,
                  SessionsBehind, SessionsKnow
    <2>2. CASE Tick
      BY <2>2, TickKeeps
    <2>3. ASSUME NEW c \in Conns,
                 CommitRecovery(c) \/ ClaimNothing(c)
          PROVE  IInv'
      <3>1. /\ txs[c].stage = "tasks"
            /\ tasks' = ReturnedTasks(c)
            /\ attempts' = ExpiredAttempts(c)
            /\ txs' = [txs EXCEPT ![c] = NoTx]
        BY <2>3 DEF CommitRecovery, ClaimNothing
      <3>2. QED
        BY <3>1, RecoveryKeeps
    <2>4. ASSUME NEW c \in Conns,
                 Begin(c, "recover") \/ Begin(c, "claim") \/ Load(c) \/ Rollback(c)
          PROVE  IInv'
      BY <2>4, BeginKeeps, LoadKeeps, RollbackKeeps
    <2>5. ASSUME NEW c \in Conns, NEW t \in Tasks,
                 ClaimExhausted(c, t) \/ ClaimTask(c, t)
          PROVE  IInv'
      BY <2>5, ClaimExhaustedKeeps, ClaimTaskKeeps
    <2>6. ASSUME NEW c \in Conns, NEW t \in Tasks, NEW n \in Numbers,
                 \/ \E op \in LoopOps : Read(c, op, t, n)
                 \/ CommitHeartbeat(c, t, n)
                 \/ CommitTerminal(c, t, n)
          PROVE  IInv'
      BY <2>6, ReadKeeps, CommitHeartbeatKeeps, CommitTerminalKeeps
    <2>7. QED
      BY <2>1, <2>2, <2>3, <2>4, <2>5, <2>6 DEF Next
  <1>3. QED
    BY <1>1, <1>2, PTL DEF Spec

(* No overlap of transactions leaves a task in processing with no delivery *)
(* that a recovery pass will find.                                         *)
THEOREM NeverStrandedAlways == Spec => []NeverStranded
  <1>1. IInv => NeverStranded
    BY DEF IInv, LatestRuns, NeverStranded
  <1>2. QED
    BY <1>1, OverlapInvariance, PTL

(* Deliveries are numbered without a gap, one per number.                  *)
THEOREM DeliveriesNumberedAlways == Spec => []DeliveriesNumbered
  <1>1. IInv => DeliveriesNumbered
    BY DEF IInv
  <1>2. QED
    BY <1>1, OverlapInvariance, PTL
=============================================================================
