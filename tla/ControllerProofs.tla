-------------------------- MODULE ControllerProofs --------------------------
(***************************************************************************)
(* Theorems about discussion threads, the audit trail and the alerts, for  *)
(* any number of runs, threads, requests, failures and restarts, every     *)
(* window of deduplication and every set of failing data checks.           *)
(***************************************************************************)
EXTENDS Controller, TLAPS

(* Anchors of different runs, and of a run and an issue, differ. *)
LEMMA AnchorsApart ==
  ASSUME NEW r \in Runs
  PROVE  /\ RunThread(r) \in Anchors /\ IssueThread(r) \in Anchors
         /\ RunThread(r) # IssueThread(r)
         /\ \A q \in Runs : q # r => /\ RunThread(q) # RunThread(r)
                                     /\ IssueThread(q) # IssueThread(r)
         /\ \A q \in Runs : RunThread(q) # IssueThread(r)
  BY DEF RunThread, IssueThread, Anchors

Numbered(th) ==
  /\ \A a \in Anchors : th.id[a] < th.next
  /\ \A a, b \in Anchors : th.id[a] = th.id[b] => a = b \/ th.id[a] = 0

(* The messages the agents buffer for run r. *)
Own(r) == {<<RunThread(r), "summary">>, <<IssueThread(r), "impact">>,
           <<RunThread(r), "capped">>}

(* A longer trail explains no less. *)
LEMMA ExplainedGrows ==
  ASSUME NEW r, NEW issue, NEW S, NEW T, S \subseteq T, Explained(r, issue, S)
  PROVE  Explained(r, issue, T)
  BY DEF Explained

(* Making sure of one thread adds one number at most, and a new one. *)
LEMMA EnsuredDiscussions ==
  ASSUME NEW th \in Discussions, th.next <= MaxThreads, NEW a \in Anchors
  PROVE  /\ Ensured(th, a) \in Discussions
         /\ Ensured(th, a).next <= th.next + 1
         /\ Ensured(th, a).id[a] # 0
         /\ \A b \in Anchors : \/ Ensured(th, a).id[b] = th.id[b]
                               \/ th.id[b] = 0 /\ Ensured(th, a).id[b] = th.next
         /\ Numbered(th) => Numbered(Ensured(th, a))
  BY ThreadsAssumption DEF Ensured, Discussions, Numbered

(* So does the flush's upsert, for two threads. *)
LEMMA UpsertedDiscussions ==
  ASSUME ThreadsTypeOK, Room, NEW r \in Runs
  PROVE  /\ Upserted(r) \in Discussions
         /\ \A b \in Anchors : \/ Upserted(r).id[b] = threads.id[b]
                               \/ threads.id[b] = 0 /\ Upserted(r).id[b] >= threads.next
         /\ Numbered(threads) => Numbered(Upserted(r))
  <1> DEFINE as == {m[1] : m \in pipeline[r].messages}
             one == IF IssueThread(r) \in as THEN Ensured(threads, IssueThread(r))
                    ELSE threads
             two == IF RunThread(r) \in as THEN Ensured(one, RunThread(r)) ELSE one
  <1>1. threads \in Discussions /\ threads.next + 1 <= MaxThreads
    BY ThreadsAssumption DEF ThreadsTypeOK, Room, Discussions
  <1>2. /\ one \in Discussions /\ one.next <= MaxThreads /\ one.next >= threads.next
        /\ \A b \in Anchors : \/ one.id[b] = threads.id[b]
                              \/ threads.id[b] = 0 /\ one.id[b] = threads.next
        /\ Numbered(threads) => Numbered(one)
    <2>1. CASE IssueThread(r) \in as
      <3>1. Ensured(threads, IssueThread(r)).next >= threads.next
        BY <1>1 DEF Ensured, Discussions
      <3> QED BY <1>1, <2>1, <3>1, EnsuredDiscussions, AnchorsApart, ThreadsAssumption DEF Discussions
    <2>2. CASE IssueThread(r) \notin as
      BY <1>1, <2>2, ThreadsAssumption DEF Discussions
    <2> QED BY <2>1, <2>2
  <1>3. /\ two \in Discussions
        /\ \A b \in Anchors : \/ two.id[b] = one.id[b]
                              \/ one.id[b] = 0 /\ two.id[b] = one.next
        /\ Numbered(one) => Numbered(two)
    <2> HIDE DEF one
    <2> QED BY <1>2, EnsuredDiscussions, AnchorsApart
  <1>4. Upserted(r) = two
    BY DEF Upserted
  <1> HIDE DEF one, two
  <1> QED BY <1>1, <1>2, <1>3, <1>4, ThreadsAssumption DEF Discussions

(* Whatever is deleted or inserted, message counts keep their type. *)
LEMMA CountsHaveType ==
  ASSUME ThreadsTypeOK
  PROVE  /\ NoMessages \in [Kinds -> 0 .. 2]
         /\ \A ids : Emptied(ids) \in [ThreadIds -> [Kinds -> 0 .. 2]]
         /\ \A r \in Runs : Inserted(r) \in [ThreadIds -> [Kinds -> 0 .. 2]]
  <1>1. NoMessages \in [Kinds -> 0 .. 2]
    BY DEF NoMessages
  <1>2. ASSUME NEW ids PROVE Emptied(ids) \in [ThreadIds -> [Kinds -> 0 .. 2]]
    BY <1>1 DEF Emptied, ThreadsTypeOK
  <1>3. ASSUME NEW r \in Runs
        PROVE  Inserted(r) \in [ThreadIds -> [Kinds -> 0 .. 2]]
    <2> DEFINE n(t, k) == \E m \in pipeline[r].messages :
                            pipeline[r].ids[m[1]] = t /\ m[2] = k
               c(t, k) == IF n(t, k) /\ messages[t][k] < 2 THEN messages[t][k] + 1
                          ELSE messages[t][k]
    <2>1. ASSUME NEW t \in ThreadIds, NEW k \in Kinds PROVE c(t, k) \in 0 .. 2
      <3> HIDE DEF n
      <3>1. messages[t][k] \in 0 .. 2
        BY DEF ThreadsTypeOK
      <3> QED BY <3>1
    <2>2. Inserted(r) = [t \in ThreadIds |-> [k \in Kinds |-> c(t, k)]]
      BY DEF Inserted
    <2> HIDE DEF c
    <2> QED BY <2>1, <2>2
  <1> QED BY <1>1, <1>2, <1>3

(* A triage note adds nothing of the discussion stage. *)
LEMMA PostMessageIs ==
  ASSUME ThreadsTypeOK, NEW a \in Anchors, PostMessage(a)
  PROVE  /\ threads' \in Discussions
         /\ messages' \in [ThreadIds -> [Kinds -> 0 .. 2]]
         /\ threads' = Ensured(threads, a) /\ threads.next <= MaxThreads
         /\ \A t \in ThreadIds, k \in Told : messages'[t][k] = messages[t][k]
  <1>1. threads \in Discussions /\ threads.next <= MaxThreads
    BY ThreadsAssumption DEF ThreadsTypeOK, PostMessage, Room, Discussions
  <1>2. threads' = Ensured(threads, a) /\ threads' \in Discussions
    BY <1>1, EnsuredDiscussions DEF PostMessage
  <1>3. messages' = [messages EXCEPT ![ThreadOf(a)]["triage"] = 1]
    BY DEF PostMessage
  <1>4. messages \in [ThreadIds -> [Kinds -> 0 .. 2]]
    BY DEF ThreadsTypeOK
  <1>5. ASSUME NEW t \in ThreadIds
        PROVE  /\ messages'[t] \in [Kinds -> 0 .. 2]
               /\ \A k \in Told : messages'[t][k] = messages[t][k]
    BY <1>3, <1>4, 1 \in 0 .. 2 DEF Kinds, Told
  <1>6. messages' \in [ThreadIds -> [Kinds -> 0 .. 2]]
    <2> HIDE DEF ThreadIds
    <2> QED BY <1>3, <1>4, <1>5
  <1> QED BY <1>1, <1>2, <1>5, <1>6

(* Deleting threads forgets their anchors and nothing else. *)
LEMMA WithoutDiscussions ==
  ASSUME ThreadsTypeOK, NEW as \in SUBSET Anchors
  PROVE  /\ Without(threads, as) \in Discussions
         /\ \A b \in Anchors : b \in as => Without(threads, as).id[b] = 0
         /\ \A b \in Anchors : b \notin as => Without(threads, as).id[b] = threads.id[b]
         /\ Numbered(threads) => Numbered(Without(threads, as))
  <1> DEFINE th == Without(threads, as)
  <1>1. /\ threads.id \in [Anchors -> 0 .. MaxThreads]
        /\ threads.next \in 1 .. MaxThreads + 1
    BY DEF ThreadsTypeOK, Discussions
  <1>2. th.next = threads.next
    BY DEF Without
  <1>3. th.id = [a \in Anchors |-> IF a \in as THEN 0 ELSE threads.id[a]]
    BY DEF Without
  <1>4. th = [id |-> th.id, next |-> th.next]
    BY DEF Without
  <1> HIDE DEF th
  <1>5. \A b \in Anchors : b \in as => th.id[b] = 0
    BY <1>3
  <1>6. \A b \in Anchors : b \notin as => th.id[b] = threads.id[b]
    BY <1>3
  <1>7. th.id \in [Anchors -> 0 .. MaxThreads]
    <2>1. 0 \in 0 .. MaxThreads /\ \A b \in Anchors : threads.id[b] \in 0 .. MaxThreads
      BY <1>1, ThreadsAssumption
    <2>2. \A b \in Anchors : th.id[b] \in 0 .. MaxThreads
      BY <1>5, <1>6, <2>1
    <2>3. th.id = [a \in Anchors |-> th.id[a]]
      BY <1>3
    <2> QED BY <2>2, <2>3
  <1>8. th \in Discussions
    BY <1>1, <1>2, <1>4, <1>7 DEF Discussions
  <1>9. ASSUME Numbered(threads) PROVE Numbered(th)
    <2>1. threads.next \in Nat /\ 0 < threads.next
      BY <1>1, ThreadsAssumption
    <2> QED BY <1>2, <1>5, <1>6, <1>9, <2>1 DEF Numbered
  <1> QED BY <1>5, <1>6, <1>8, <1>9 DEF th

-----------------------------------------------------------------------------
JobStep ==
  Job \/ CheckFails \/ \E f \in job.todo : RaiseResent(f)

(* What the controller's job may change of the threads and the trail. *)
LEMMA JobFrame ==
  ASSUME JobStep
  PROVE  /\ UNCHANGED <<runs, issues, pipeline, handler, purged>>
         /\ \/ UNCHANGED <<threads, messages>>
            \/ \E a \in Anchors : PostMessage(a)
         /\ \/ UNCHANGED actions
            \/ \E a, e : e # "run_finished" /\ actions' = actions \union {<<a, e>>}
  <1> USE DEF world
  <1>1. CASE Cycle BY <1>1 DEF Cycle
  <1>2. CASE Query BY <1>2 DEF Query
  <1>3. CASE VerifyManifest BY <1>3 DEF VerifyManifest
  <1>4. CASE LogAlert
    <2>1. /\ UNCHANGED <<runs, issues, pipeline, handler, purged, threads, messages>>
          /\ Logged(Anchor, "alert_raised")
      BY <1>4 DEF LogAlert
    <2> QED BY <2>1 DEF Logged
  <1>5. CASE PostTriage BY <1>5 DEF PostTriage
  <1>6. CASE TriageRefused BY <1>6 DEF TriageRefused
  <1>7. CASE LogTriage
    <2>1. /\ UNCHANGED <<runs, issues, pipeline, handler, purged, threads, messages>>
          /\ Logged(Anchor, "alert_triage")
      BY <1>7 DEF LogTriage
    <2> QED BY <2>1 DEF Logged
  <1>8. CASE Backfill
    <2>1. /\ UNCHANGED <<runs, issues, pipeline, handler, purged, threads, messages>>
          /\ Logged(RunThread(Anchor[2]), "published_audit_entry")
      BY <1>8 DEF Backfill
    <2> QED BY <2>1 DEF Logged
  <1>9. CASE \E f \in job.todo : RaiseAlert(f) BY <1>9 DEF RaiseAlert
  <1>10. CASE CheckFails BY <1>10 DEF CheckFails
  <1>11. CASE \E f \in job.todo : RaiseResent(f) BY <1>11 DEF RaiseResent
  <1> QED BY <1>1, <1>2, <1>3, <1>4, <1>5, <1>6, <1>7, <1>8, <1>9, <1>10, <1>11 DEF JobStep, Job

(* An event of the run: its thread and one audit entry. *)
LEMMA RunEventIs ==
  ASSUME ThreadsTypeOK, NEW r \in Runs, NEW e, RunEvent(r, e)
  PROVE  /\ threads' \in Discussions
         /\ threads' = Ensured(threads, RunThread(r)) /\ threads.next <= MaxThreads
         /\ messages' = messages
         /\ actions' = actions \union {<<RunThread(r), e>>}
  <1>1. threads \in Discussions /\ threads.next <= MaxThreads
    BY ThreadsAssumption DEF ThreadsTypeOK, RunEvent, Room, Discussions
  <1> QED BY <1>1, EnsuredDiscussions, AnchorsApart DEF RunEvent

(* How an action of a run's thread changes its row. *)
LEMMA StageSet ==
  ASSUME NEW x \in RunThreads, NEW pc \in Stages
  PROVE  /\ [x EXCEPT !.pc = pc] \in RunThreads
         /\ [x EXCEPT !.pc = pc].pc = pc
         /\ [x EXCEPT !.pc = pc].messages = x.messages
         /\ [x EXCEPT !.pc = pc].actions = x.actions
         /\ [x EXCEPT !.pc = pc].ids = x.ids
         /\ [x EXCEPT !.pc = pc].failing = x.failing
  BY DEF RunThreads

(* A thread that only moves on keeps its buffer. *)
LEMMA StageMoved ==
  ASSUME ThreadsTypeOK, NEW r \in Runs, NEW pc \in Stages, To(r, pc)
  PROVE  \E x \in RunThreads :
           /\ pipeline' = [pipeline EXCEPT ![r] = x]
           /\ x.pc = pc /\ x.messages = pipeline[r].messages
           /\ x.actions = pipeline[r].actions /\ x.ids = pipeline[r].ids
           /\ x.failing = pipeline[r].failing
  <1> DEFINE x == [pipeline[r] EXCEPT !.pc = pc]
  <1>1. pipeline[r] \in RunThreads
    BY DEF ThreadsTypeOK
  <1>2. pipeline' = [pipeline EXCEPT ![r] = x]
    BY DEF To
  <1> QED BY <1>1, <1>2, StageSet

RaisedRow(r, as) == [Buffer(r, {}, as) EXCEPT !.pc = "discuss"]

DiscussedRow(r, ms, as) == [Buffer(r, ms, as) EXCEPT !.pc = "upsert"]

FailedRow(r, as) == [Buffer(r, {}, as) EXCEPT !.pc = "upsert", !.failing = TRUE]

(* The row of a run whose issues were refused. *)
LEMMA FailedRowIs ==
  ASSUME ThreadsTypeOK, NEW r \in Runs,
         NEW as \in SUBSET (Anchors \X Entries)
  PROVE  /\ FailedRow(r, as) \in RunThreads
         /\ FailedRow(r, as).pc = "upsert"
         /\ FailedRow(r, as).messages = pipeline[r].messages
         /\ FailedRow(r, as).actions = pipeline[r].actions \union as
         /\ FailedRow(r, as).failing
  <1>1. pipeline[r] \in RunThreads
    BY DEF ThreadsTypeOK
  <1> QED BY <1>1 DEF FailedRow, Buffer, RunThreads, Stages

(* The row of a run that raised its issues. *)
LEMMA RaisedRowIs ==
  ASSUME ThreadsTypeOK, NEW r \in Runs,
         NEW as \in SUBSET (Anchors \X Entries)
  PROVE  /\ RaisedRow(r, as) \in RunThreads
         /\ RaisedRow(r, as).pc = "discuss"
         /\ RaisedRow(r, as).messages = pipeline[r].messages
  <1>1. pipeline[r] \in RunThreads
    BY DEF ThreadsTypeOK
  <1> QED BY <1>1 DEF RaisedRow, Buffer, RunThreads, Stages

(* A run without a thread has an empty buffer. *)
LEMMA GoneType == Gone \in RunThreads
  BY ThreadsAssumption DEF Gone, RunThreads, Stages, NoThread

(* The discussion buffers the run's account and its own messages only. *)
LEMMA DiscussIs ==
  ASSUME ThreadsTypeOK, NEW r \in Runs, Discuss(r)
  PROVE  \E x \in RunThreads :
           /\ pipeline' = [pipeline EXCEPT ![r] = x]
           /\ x.pc = "upsert" /\ x.failing = pipeline[r].failing
           /\ x.messages \subseteq pipeline[r].messages \union Own(r)
           /\ Explained(r, issues[r], x.actions)
  <1>1. PICK narrated, capped \in BOOLEAN :
          /\ Discussion(r, narrated, capped)
          /\ pipeline' = [pipeline EXCEPT ![r] =
               DiscussedRow(r, ToldOf(r, narrated, capped), LoggedOf(r, narrated, capped))]
    BY DEF Discuss, DiscussedRow
  <1> DEFINE ms == ToldOf(r, narrated, capped)
             as == LoggedOf(r, narrated, capped)
             x == DiscussedRow(r, ms, as)
  <1>2. RunThread(r) \in Anchors /\ IssueThread(r) \in Anchors
    BY AnchorsApart
  <1>3. ms \in SUBSET (Anchors \X Kinds) /\ ms \subseteq Own(r)
    BY <1>2 DEF ToldOf, Own, Kinds, Told
  <1>4. as \in SUBSET (Anchors \X Entries)
    BY <1>2 DEF LoggedOf, Entries
  <1>5. Explained(r, issues[r], as)
    BY <1>1 DEF Explained, LoggedOf, Discussion
  <1>6. pipeline[r] \in RunThreads
    BY DEF ThreadsTypeOK
  <1> HIDE DEF ms, as
  <1>7. /\ x \in RunThreads /\ x.pc = "upsert" /\ x.failing = pipeline[r].failing
        /\ x.messages = pipeline[r].messages \union ms
        /\ x.actions = pipeline[r].actions \union as
    BY <1>3, <1>4, <1>6 DEF DiscussedRow, Buffer, RunThreads, Stages
  <1>8. pipeline' = [pipeline EXCEPT ![r] = x]
    BY <1>1 DEF ms, as
  <1> HIDE DEF x
  <1>9. Explained(r, issues[r], x.actions)
    BY <1>5, <1>7, ExplainedGrows
  <1> QED BY <1>3, <1>7, <1>8, <1>9

(* A refused issue fails the run, an accepted one leaves it to discuss. *)
LEMMA RaiseIs ==
  ASSUME ThreadsTypeOK, NEW r \in Runs, Raise(r) \/ RaiseRefused(r)
  PROVE  \E x \in RunThreads :
           /\ pipeline' = [pipeline EXCEPT ![r] = x]
           /\ x.pc = "discuss" \/ (x.pc = "upsert" /\ x.failing)
           /\ x.messages = pipeline[r].messages
  <1> DEFINE as == {<<RunThread(r), "exceptions_created">>}
  <1>1. as \in SUBSET (Anchors \X Entries) /\ {} \in SUBSET (Anchors \X Kinds)
    <2>1. RunThread(r) \in Anchors
      BY AnchorsApart
    <2> QED BY <2>1 DEF Entries
  <1>2. "discuss" \in Stages
    BY DEF Stages
  <1>3. CASE To(r, "discuss")
    BY <1>2, <1>3, StageMoved
  <1>4. CASE pipeline' = [pipeline EXCEPT ![r] = [Buffer(r, {}, as) EXCEPT !.pc = "discuss"]]
    <2> DEFINE x == RaisedRow(r, as)
    <2>1. pipeline' = [pipeline EXCEPT ![r] = x]
      BY <1>4 DEF RaisedRow
    <2> HIDE DEF as
    <2>2. x \in RunThreads /\ x.pc = "discuss" /\ x.messages = pipeline[r].messages
      BY <1>1, <1>2, RaisedRowIs
    <2> HIDE DEF x
    <2> QED BY <2>1, <2>2
  <1>5. CASE RaiseRefused(r)
    <2> DEFINE x == FailedRow(r, as)
    <2>1. pipeline' = [pipeline EXCEPT ![r] = x]
      BY <1>5 DEF RaiseRefused, FailedRow
    <2> HIDE DEF as
    <2>2. x \in RunThreads /\ x.pc = "upsert" /\ x.messages = pipeline[r].messages /\ x.failing
      BY <1>1, FailedRowIs
    <2> HIDE DEF x
    <2> QED BY <2>1, <2>2
  <1>6. RaiseRefused(r) \/ To(r, "discuss")
          \/ pipeline' = [pipeline EXCEPT ![r] = [Buffer(r, {}, as) EXCEPT !.pc = "discuss"]]
    BY DEF Raise
  <1> QED BY <1>3, <1>4, <1>5, <1>6

(* The flush's first statement notes the threads' ids. *)
LEMMA FlushThreadsIs ==
  ASSUME ThreadsTypeOK, NEW r \in Runs, FlushThreads(r)
  PROVE  \E x \in RunThreads :
           /\ pipeline' = [pipeline EXCEPT ![r] = x]
           /\ x.pc = "messages" /\ x.messages = pipeline[r].messages
           /\ x.actions = pipeline[r].actions /\ x.ids = Upserted(r).id
           /\ x.failing = pipeline[r].failing
  <1> DEFINE ids == Upserted(r).id
             x == [pipeline[r] EXCEPT !.pc = "messages", !.ids = ids]
  <1>1. pipeline[r] \in RunThreads
    BY DEF ThreadsTypeOK
  <1>2. ids \in [Anchors -> 0 .. MaxThreads]
    BY UpsertedDiscussions DEF FlushThreads, Discussions
  <1>3. pipeline' = [pipeline EXCEPT ![r].pc = "messages", ![r].ids = ids]
    BY DEF FlushThreads
  <1> HIDE DEF ids
  <1>4. pipeline' = [pipeline EXCEPT ![r] = x]
    BY <1>1, <1>3 DEF ThreadsTypeOK
  <1>5. /\ x \in RunThreads /\ x.pc = "messages" /\ x.messages = pipeline[r].messages
        /\ x.actions = pipeline[r].actions /\ x.ids = ids
        /\ x.failing = pipeline[r].failing
    BY <1>1, <1>2 DEF RunThreads, Stages
  <1> QED BY <1>4, <1>5 DEF ids

(* A failing body still flushes what was buffered. *)
LEMMA BodyFailsIs ==
  ASSUME ThreadsTypeOK, NEW r \in Runs, BodyFails(r)
  PROVE  \E x \in RunThreads :
           /\ pipeline' = [pipeline EXCEPT ![r] = x]
           /\ x.pc = "upsert" /\ x.messages = pipeline[r].messages
           /\ x.actions = pipeline[r].actions /\ x.failing
  <1> DEFINE x == [pipeline[r] EXCEPT !.pc = "upsert", !.failing = TRUE]
  <1>1. pipeline[r] \in RunThreads
    BY DEF ThreadsTypeOK
  <1>2. pipeline' = [pipeline EXCEPT ![r] = x]
    BY <1>1 DEF BodyFails, ThreadsTypeOK
  <1>3. /\ x \in RunThreads /\ x.pc = "upsert" /\ x.messages = pipeline[r].messages
        /\ x.actions = pipeline[r].actions /\ x.failing
    BY <1>1 DEF RunThreads, Stages
  <1> QED BY <1>2, <1>3

(* Every action of a run's thread keeps the types. *)
LEMMA PipelineType ==
  ASSUME ThreadsTypeOK, NEW r \in Runs, Pipeline(r) \/ PipelineFaults(r)
  PROVE  ThreadsTypeOK'
  <1> USE DEF others
  <1>a. pipeline \in [Runs -> RunThreads]
    BY DEF ThreadsTypeOK
  <1>b. ASSUME NEW pc \in Stages, To(r, pc) PROVE pipeline' \in [Runs -> RunThreads]
    BY <1>a, <1>b, StageMoved
  <1>c. ASSUME pipeline' = [pipeline EXCEPT ![r] = Gone]
        PROVE  pipeline' \in [Runs -> RunThreads]
    BY <1>a, <1>c, GoneType
  <1>1. CASE Start(r)
    <2>1. RunEvent(r, "run_started") /\ To(r, "raise") /\ issues' = [issues EXCEPT ![r] = "none"]
          /\ UNCHANGED <<runs, handler, purged>>
      BY <1>1 DEF Start
    <2>2. pipeline' \in [Runs -> RunThreads] BY <2>1, <1>b DEF Stages
    <2> QED BY <2>1, <2>2, RunEventIs DEF ThreadsTypeOK
  <1>2. CASE Raise(r)
    <2>1. pipeline' \in [Runs -> RunThreads]
      BY <1>2, <1>a, RaiseIs
    <2> QED BY <1>2, <2>1 DEF Raise, ThreadsTypeOK
  <1>3. CASE RaiseRefused(r)
    <2>1. pipeline' \in [Runs -> RunThreads]
      BY <1>3, <1>a, RaiseIs
    <2> QED BY <1>3, <2>1 DEF RaiseRefused, ThreadsTypeOK
  <1>4. CASE Discuss(r)
    <2>1. pipeline' \in [Runs -> RunThreads]
      BY <1>4, DiscussIs, <1>a
    <2> QED BY <1>4, <2>1 DEF Discuss, ThreadsTypeOK
  <1>5. CASE FlushThreads(r)
    <2>1. Upserted(r) \in Discussions
      BY <1>5, UpsertedDiscussions DEF FlushThreads
    <2>2. pipeline' \in [Runs -> RunThreads]
      BY <1>5, FlushThreadsIs, <1>a
    <2> QED BY <1>5, <2>1, <2>2 DEF FlushThreads, ThreadsTypeOK
  <1>6. CASE FlushMessages(r)
    <2>1. pipeline' \in [Runs -> RunThreads] BY <1>6, <1>b DEF FlushMessages, Stages
    <2> QED BY <1>6, <2>1, CountsHaveType DEF FlushMessages, ThreadsTypeOK
  <1>7. CASE FlushRefused(r)
    <2>1. pipeline' \in [Runs -> RunThreads] BY <1>7, <1>b DEF FlushRefused, Stages
    <2> QED BY <1>7, <2>1 DEF FlushRefused, ThreadsTypeOK
  <1>8. CASE FlushActions(r)
    <2>1. pipeline' \in [Runs -> RunThreads] BY <1>8, <1>b DEF FlushActions, After, Stages
    <2> QED BY <1>8, <2>1 DEF FlushActions, ThreadsTypeOK
  <1>9. CASE Complete(r)
    <2>1. pipeline' \in [Runs -> RunThreads] BY <1>9, <1>b DEF Complete, Stages
    <2> QED BY <1>9, <2>1 DEF Complete, Marked, ThreadsTypeOK
  <1>10. CASE Finish(r)
    BY <1>10, <1>c, RunEventIs DEF Finish, ThreadsTypeOK
  <1>11. CASE MarkFailed(r)
    <2>1. pipeline' \in [Runs -> RunThreads] BY <1>11, <1>b DEF MarkFailed, Stages
    <2> QED BY <1>11, <2>1 DEF MarkFailed, Marked, ThreadsTypeOK
  <1>12. CASE ReportFailed(r)
    BY <1>12, <1>c, RunEventIs DEF ReportFailed, ThreadsTypeOK
  <1>13. CASE BodyFails(r)
    <2>1. pipeline' \in [Runs -> RunThreads] BY <1>13, <1>a, BodyFailsIs
    <2> QED BY <1>13, <2>1 DEF BodyFails, ThreadsTypeOK
  <1>14. CASE FlushFails(r)
    <2>1. pipeline' \in [Runs -> RunThreads] BY <1>14, <1>b DEF FlushFails, Stages
    <2>2. messages' \in [ThreadIds -> [Kinds -> 0 .. 2]]
      BY <1>14, CountsHaveType DEF FlushFails, ThreadsTypeOK
    <2> QED BY <1>14, <2>1, <2>2 DEF FlushFails, ThreadsTypeOK
  <1>15. CASE EndFails(r)
    <2>1. pipeline' \in [Runs -> RunThreads] BY <1>15, <1>b DEF EndFails, Stages
    <2> QED BY <1>15, <2>1 DEF EndFails, ThreadsTypeOK
  <1>16. CASE ThreadDies(r)
    BY <1>16, <1>c DEF ThreadDies, ThreadsTypeOK
  <1> QED BY <1>1, <1>2, <1>3, <1>4, <1>5, <1>6, <1>7, <1>8, <1>9, <1>10, <1>11,
             <1>12, <1>13, <1>14, <1>15, <1>16 DEF Pipeline, PipelineFaults

(* Every statement of a request keeps the types. *)
LEMMA RequestType ==
  ASSUME ThreadsTypeOK,
         \/ Request \/ RequestFails \/ Serve \/ ThreadsReboot
         \/ \E r \in {handler.run} \ {Null} : DeletePublications(r) \/ DeleteRow(r)
  PROVE  ThreadsTypeOK'
  <1> USE DEF kept
  <1>a. /\ pipeline \in [Runs -> RunThreads] /\ handler \in Handler
        /\ messages \in [ThreadIds -> [Kinds -> 0 .. 2]] /\ threads \in Discussions
        /\ handler.run \in Runs \union {Null}
    BY DEF ThreadsTypeOK, Handler
  <1>b. Idle \in Handler
    BY ThreadsAssumption DEF Idle, Handler
  <1>c. ASSUME NEW pc \in {"delete_actions", "delete_issues", "delete_publications", "delete_row"},
               Step(pc)
        PROVE  handler' \in Handler
    BY <1>a, <1>c DEF Step, Handler
  <1>d. ASSUME NEW a \in Anchors, Room, threads' = Ensured(threads, a)
        PROVE  threads' \in Discussions
    <2>1. threads.next <= MaxThreads
      BY <1>a, <1>d, ThreadsAssumption DEF Room, Discussions
    <2> QED BY <1>a, <1>d, <2>1, EnsuredDiscussions
  <1>1. ASSUME NEW r \in Runs, Trigger(r) PROVE ThreadsTypeOK'
    <2>1. To(r, "start")
      BY <1>1 DEF Trigger, To
    <2>2. pipeline' \in [Runs -> RunThreads]
      BY <1>a, <2>1, StageMoved DEF Stages
    <2> QED BY <1>1, <2>2 DEF Trigger, ThreadsTypeOK
  <1>2. ASSUME NEW r \in Runs, CloseIssue(r) PROVE ThreadsTypeOK'
    <2>1. threads' \in Discussions
      BY <1>2, <1>d, AnchorsApart DEF CloseIssue
    <2> QED BY <1>2, <2>1 DEF CloseIssue, ThreadsTypeOK
  <1>3. ASSUME NEW r \in Runs, DeleteRun(r) PROVE ThreadsTypeOK'
    <2>1. handler' = [pc |-> "delete_discussions", run |-> r, thread |-> 0]
      BY <1>3 DEF DeleteRun, Idle
    <2>2. handler' \in Handler
      BY <2>1, ThreadsAssumption DEF Handler
    <2> QED BY <1>3, <2>2, CountsHaveType DEF DeleteRun, ThreadsTypeOK
  <1>4. ASSUME NEW a \in Anchors, OpenThread(a) PROVE ThreadsTypeOK'
    <2>1. threads' \in Discussions
      BY <1>4, <1>d DEF OpenThread
    <2> QED BY <1>4, <2>1 DEF OpenThread, ThreadsTypeOK
  <1>5. ASSUME NEW a \in Anchors, DeleteThread(a) PROVE ThreadsTypeOK'
    <2>1. threads.id[a] \in 0 .. MaxThreads
      BY <1>a DEF Discussions
    <2>2. handler' \in Handler
      BY <1>5, <2>1 DEF DeleteThread, Handler, Idle
    <2> QED BY <1>5, <2>2, CountsHaveType DEF DeleteThread, ThreadsTypeOK
  <1>6. CASE DeleteDiscussion
    <2> DEFINE as == {a \in Anchors : threads.id[a] = handler.thread}
    <2>1. threads' = Without(threads, as)
      BY <1>6 DEF DeleteDiscussion
    <2>2. as \in SUBSET Anchors
      OBVIOUS
    <2> HIDE DEF as
    <2>3. threads' \in Discussions
      BY <2>1, <2>2, WithoutDiscussions
    <2> QED BY <1>6, <1>b, <2>3, CountsHaveType DEF DeleteDiscussion, ThreadsTypeOK
  <1>7. ASSUME NEW r \in Runs, DeleteDiscussions(r) PROVE ThreadsTypeOK'
    <2>1. Owned(r) \in SUBSET Anchors
      BY AnchorsApart DEF Owned, RunAnchors
    <2>2. threads' \in Discussions
      BY <1>7, <2>1, WithoutDiscussions DEF DeleteDiscussions
    <2>3. handler' \in Handler
      BY <1>7, <1>c DEF DeleteDiscussions
    <2> QED BY <1>7, <2>2, <2>3, CountsHaveType DEF DeleteDiscussions, ThreadsTypeOK
  <1>8. ASSUME NEW r \in Runs, DeleteActions(r) PROVE ThreadsTypeOK'
    <2>1. handler' \in Handler
      BY <1>8, <1>c DEF DeleteActions
    <2> QED BY <1>8, <2>1 DEF DeleteActions, ThreadsTypeOK
  <1>9. ASSUME NEW r \in Runs, DeleteIssues(r) PROVE ThreadsTypeOK'
    <2>1. handler' \in Handler
      BY <1>9, <1>c DEF DeleteIssues
    <2> QED BY <1>9, <2>1 DEF DeleteIssues, ThreadsTypeOK
  <1>10. ASSUME NEW r \in Runs, DeletePublications(r) PROVE ThreadsTypeOK'
    <2>1. handler' \in Handler
      BY <1>10, <1>c DEF DeletePublications
    <2> QED BY <1>10, <2>1 DEF DeletePublications, ThreadsTypeOK
  <1>11. ASSUME NEW r \in Runs, DeleteRow(r) PROVE ThreadsTypeOK'
    BY <1>11, <1>b DEF DeleteRow, ThreadsTypeOK
  <1>12. CASE RequestFails
    BY <1>12, <1>b DEF RequestFails, ThreadsTypeOK
  <1>13. CASE ThreadsReboot
    BY <1>13, <1>b, GoneType DEF ThreadsReboot, ThreadsTypeOK
  <1> QED BY <1>a, <1>1, <1>2, <1>3, <1>4, <1>5, <1>6, <1>7, <1>8, <1>9, <1>10,
             <1>11, <1>12, <1>13 DEF Request, Serve

(* The steps as the proofs below tell them apart. *)
LEMMA NextSplit ==
  ASSUME [Next]_vars
  PROVE  \/ UNCHANGED threadVars
         \/ JobStep
         \/ UNCHANGED ctlVars /\ \E r \in Runs : Pipeline(r) \/ PipelineFaults(r)
         \/ UNCHANGED ctlVars /\ (Request \/ RequestFails \/ Serve)
         \/ \E r \in {handler.run} \ {Null} :
               DeletePublications(r) \/ (UNCHANGED ctlVars /\ DeleteRow(r))
         \/ Register
         \/ Reboot
  <1>1. ASSUME NEW r \in Runs, Approve(r) \/ GrowOld(r) PROVE UNCHANGED threadVars
    BY <1>1 DEF Approve, GrowOld
  <1> QED BY <1>1 DEF Next, vars, JobStep, Handlers

(* Types are kept by every step. *)
LEMMA TypeStep ==
  ASSUME ThreadsTypeOK, [Next]_vars
  PROVE  ThreadsTypeOK'
  <1>1. CASE UNCHANGED threadVars
    BY <1>1 DEF threadVars, ThreadsTypeOK
  <1>2. CASE JobStep
    BY <1>2, JobFrame, PostMessageIs DEF ThreadsTypeOK
  <1>3. CASE Register
    BY <1>3 DEF Register, ThreadsTypeOK
  <1>4. CASE Reboot
    BY <1>4, RequestType DEF Reboot
  <1> QED BY <1>1, <1>2, <1>3, <1>4, NextSplit, PipelineType, RequestType

-----------------------------------------------------------------------------
(* A finished run is explained.                                             *)
Said(r) == <<RunThread(r), "run_finished">> \in actions

(* The account of an unfailing run is in its buffer, then in the audit      *)
(* trail, and only then the run is announced.                               *)
Accounted ==
  /\ handler.run # Null => handler.run \in purged
  /\ \A r \in Runs : pipeline[r].pc # "none" => runs[r] # "absent"
  /\ \A r \in Runs :
       pipeline[r].pc \in {"upsert", "messages", "actions"} /\ ~pipeline[r].failing
         => Explained(r, issues[r], pipeline[r].actions)
  /\ \A r \in Runs \ purged :
       pipeline[r].pc \in {"complete", "finish"} => Explained(r, issues[r], actions)
  /\ \A r \in Runs : Said(r) => pipeline[r].pc = "none" /\ runs[r] # "absent"
  /\ \A r \in Runs \ purged : Said(r) => Explained(r, issues[r], actions)

(* Steps of others: they open no issue, and of the trail they remove at     *)
(* most what belongs to runs being deleted.                                 *)
LEMMA OthersKeepAccounts ==
  ASSUME Accounted,
         handler'.run # Null => handler'.run \in purged',
         purged \subseteq purged',
         \A r \in Runs : runs'[r] = "absent" => runs[r] = "absent",
         \A r \in Runs : issues'[r] = "open" => issues[r] = "open",
         \A r \in Runs : pipeline'[r] = pipeline[r] \/ pipeline'[r].pc = "none",
         \A r \in Runs \ purged' :
           Explained(r, issues[r], actions) => Explained(r, issues[r], actions'),
         \A r \in Runs : Said(r)' => Said(r)
  PROVE  Accounted'
  <1>1. \A r \in Runs : \A S : Explained(r, issues[r], S) => Explained(r, issues'[r], S)
    BY DEF Explained
  <1> QED BY <1>1 DEF Accounted

(* A step of run r's thread that says when r has its account where. *)
LEMMA RunKeepsAccounts ==
  ASSUME Accounted, ThreadsTypeOK, NEW r \in Runs, NEW x \in RunThreads,
         pipeline' = [pipeline EXCEPT ![r] = x], pipeline[r].pc # "none",
         UNCHANGED <<handler, purged>>,
         \A q \in Runs : runs'[q] = "absent" => runs[q] = "absent",
         \A q \in Runs \ {r} : issues'[q] = issues[q],
         actions \subseteq actions',
         \A q \in Runs \ {r} : Said(q)' => Said(q),
         x.pc \in {"upsert", "messages", "actions"} /\ ~x.failing
           => Explained(r, issues'[r], x.actions),
         x.pc \in {"complete", "finish"} \/ Said(r)'
           => r \in purged \/ Explained(r, issues'[r], actions'),
         Said(r)' => x.pc = "none"
  PROVE  Accounted'
  <1>1. pipeline'[r] = x /\ \A q \in Runs \ {r} : pipeline'[q] = pipeline[q]
    BY DEF ThreadsTypeOK
  <1>2. \A q \in Runs \ {r} : issues'[q] = issues[q]
    OBVIOUS
  <1>3. runs[r] # "absent"
    BY DEF Accounted
  <1>4. handler'.run # Null => handler'.run \in purged'
    BY DEF Accounted
  <1>5. \A q \in Runs : pipeline'[q].pc # "none" => runs'[q] # "absent"
    BY <1>1, <1>3 DEF Accounted
  <1>6. \A q \in Runs :
          pipeline'[q].pc \in {"upsert", "messages", "actions"} /\ ~pipeline'[q].failing
            => Explained(q, issues'[q], pipeline'[q].actions)
    BY <1>1, <1>2 DEF Accounted
  <1>7. \A q \in Runs \ purged' :
          pipeline'[q].pc \in {"complete", "finish"} => Explained(q, issues'[q], actions')
    BY <1>1, <1>2, ExplainedGrows DEF Accounted
  <1>8. \A q \in Runs : Said(q)' => pipeline'[q].pc = "none" /\ runs'[q] # "absent"
    BY <1>1, <1>3 DEF Accounted
  <1>9. \A q \in Runs \ purged' : Said(q)' => Explained(q, issues'[q], actions')
    BY <1>1, <1>2, ExplainedGrows DEF Accounted
  <1> QED BY <1>4, <1>5, <1>6, <1>7, <1>8, <1>9 DEF Accounted

(* Each action of a run's thread is such a step. *)
LEMMA PipelineAccounts ==
  ASSUME ThreadsTypeOK, Accounted, NEW r \in Runs, Pipeline(r) \/ PipelineFaults(r)
  PROVE  Accounted'
  <1> USE DEF others
  <1>a. pipeline[r] \in RunThreads /\ (pipeline[r].pc # "none" => ~Said(r))
    BY DEF ThreadsTypeOK, Accounted
  <1>b. ASSUME NEW e, e # "run_finished", actions' = actions \union {<<RunThread(r), e>>}
        PROVE  \A q \in Runs : Said(q)' => Said(q)
    BY <1>b DEF Said
  <1>c. ASSUME NEW s, runs' = Marked(r, s), s # "absent"
        PROVE  \A q \in Runs : runs'[q] = "absent" => runs[q] = "absent"
    BY <1>c DEF Marked, ThreadsTypeOK
  <1>d. UNCHANGED actions => \A q \in Runs : Said(q)' => Said(q)
    BY DEF Said
  <1>1. CASE Start(r)
    <2>1. /\ pipeline[r].pc = "start" /\ To(r, "raise") /\ UNCHANGED <<runs, handler, purged>>
          /\ issues' = [issues EXCEPT ![r] = "none"]
          /\ actions' = actions \union {<<RunThread(r), "run_started">>}
      BY <1>1, RunEventIs DEF Start, At
    <2>2. PICK x \in RunThreads : pipeline' = [pipeline EXCEPT ![r] = x] /\ x.pc = "raise"
      BY <2>1, StageMoved DEF Stages
    <2>3. \A q \in Runs \ {r} : issues'[q] = issues[q]
      BY <2>1 DEF ThreadsTypeOK
    <2> QED BY <1>a, <1>b, <2>1, <2>2, <2>3, RunKeepsAccounts
  <1>2. CASE Raise(r) \/ RaiseRefused(r)
    <2>1. /\ pipeline[r].pc = "raise" /\ UNCHANGED <<runs, handler, purged, actions>>
          /\ \A q \in Runs \ {r} : issues'[q] = issues[q]
      BY <1>2 DEF Raise, RaiseRefused, At, ThreadsTypeOK
    <2>2. PICK x \in RunThreads : /\ pipeline' = [pipeline EXCEPT ![r] = x]
                                  /\ x.pc = "discuss" \/ (x.pc = "upsert" /\ x.failing)
      BY <1>2, RaiseIs
    <2> QED BY <1>a, <1>d, <2>1, <2>2, RunKeepsAccounts
  <1>3. CASE Discuss(r)
    <2>1. /\ pipeline[r].pc = "discuss" /\ UNCHANGED <<runs, issues, handler, purged, actions>>
      BY <1>3 DEF Discuss, At
    <2>2. PICK x \in RunThreads : /\ pipeline' = [pipeline EXCEPT ![r] = x] /\ x.pc = "upsert"
                                  /\ Explained(r, issues[r], x.actions)
      BY <1>3, DiscussIs
    <2>3. issues'[r] = issues[r]
      BY <2>1
    <2> QED BY <1>a, <1>d, <2>1, <2>2, <2>3, RunKeepsAccounts
  <1>4. CASE BodyFails(r)
    <2>1. /\ pipeline[r].pc # "none" /\ UNCHANGED <<runs, issues, handler, purged, actions>>
      BY <1>4 DEF BodyFails
    <2>2. PICK x \in RunThreads : /\ pipeline' = [pipeline EXCEPT ![r] = x]
                                  /\ x.pc = "upsert" /\ x.failing
      BY <1>4, BodyFailsIs
    <2> QED BY <1>a, <1>d, <2>1, <2>2, RunKeepsAccounts
  <1>5. CASE FlushThreads(r)
    <2>1. /\ pipeline[r].pc = "upsert" /\ UNCHANGED <<runs, issues, handler, purged, actions>>
      BY <1>5 DEF FlushThreads, At
    <2>2. PICK x \in RunThreads :
            /\ pipeline' = [pipeline EXCEPT ![r] = x] /\ x.pc = "messages"
            /\ x.actions = pipeline[r].actions /\ x.failing = pipeline[r].failing
      BY <1>5, FlushThreadsIs
    <2>3. ~pipeline[r].failing => Explained(r, issues'[r], pipeline[r].actions)
      BY <2>1 DEF Accounted
    <2> QED BY <1>a, <1>d, <2>1, <2>2, <2>3, RunKeepsAccounts
  <1>6. CASE FlushMessages(r)
    <2>1. /\ pipeline[r].pc = "messages" /\ UNCHANGED <<runs, issues, handler, purged, actions>>
          /\ To(r, "actions")
      BY <1>6 DEF FlushMessages, At
    <2>2. PICK x \in RunThreads :
            /\ pipeline' = [pipeline EXCEPT ![r] = x] /\ x.pc = "actions"
            /\ x.actions = pipeline[r].actions /\ x.failing = pipeline[r].failing
      BY <2>1, StageMoved DEF Stages
    <2>3. ~pipeline[r].failing => Explained(r, issues'[r], pipeline[r].actions)
      BY <2>1 DEF Accounted
    <2> QED BY <1>a, <1>d, <2>1, <2>2, <2>3, RunKeepsAccounts
  <1>7. CASE FlushActions(r)
    <2>1. /\ pipeline[r].pc = "actions" /\ UNCHANGED <<runs, issues, handler, purged>>
          /\ To(r, After(r)) /\ actions' = actions \union pipeline[r].actions
      BY <1>7 DEF FlushActions, At
    <2>2. /\ After(r) \in {"fail", "complete"} /\ After(r) \in Stages
          /\ After(r) = "complete" => ~pipeline[r].failing
      BY DEF After, Stages
    <2>3. PICK x \in RunThreads :
            pipeline' = [pipeline EXCEPT ![r] = x] /\ x.pc = After(r)
      BY <2>1, <2>2, StageMoved
    <2>4. \A q \in Runs : Said(q)' => Said(q)
      BY <1>a, <2>1 DEF Said, RunThreads, Entries
    <2>5. ~pipeline[r].failing => Explained(r, issues'[r], actions')
      BY <2>1, ExplainedGrows DEF Accounted
    <2>6. ~Said(r)' /\ actions \subseteq actions'
      BY <1>a, <2>1, <2>4
    <2> QED BY <1>a, <2>1, <2>2, <2>3, <2>4, <2>5, <2>6, RunKeepsAccounts
  <1>8. CASE FlushRefused(r) \/ FlushFails(r) \/ EndFails(r)
    <2>1. /\ pipeline[r].pc # "none" /\ UNCHANGED <<runs, issues, handler, purged, actions>>
          /\ To(r, "fail")
      BY <1>8 DEF FlushRefused, FlushFails, EndFails, At
    <2>2. PICK x \in RunThreads : pipeline' = [pipeline EXCEPT ![r] = x] /\ x.pc = "fail"
      BY <2>1, StageMoved DEF Stages
    <2> QED BY <1>a, <1>d, <2>1, <2>2, RunKeepsAccounts
  <1>9. CASE Complete(r)
    <2>1. /\ pipeline[r].pc = "complete" /\ UNCHANGED <<issues, handler, purged, actions>>
          /\ To(r, "finish") /\ runs' = Marked(r, "completed")
      BY <1>9 DEF Complete, At
    <2>2. PICK x \in RunThreads : pipeline' = [pipeline EXCEPT ![r] = x] /\ x.pc = "finish"
      BY <2>1, StageMoved DEF Stages
    <2>3. r \in purged \/ Explained(r, issues'[r], actions')
      BY <2>1 DEF Accounted
    <2> QED BY <1>a, <1>c, <1>d, <2>1, <2>2, <2>3, RunKeepsAccounts
  <1>10. CASE MarkFailed(r)
    <2>1. /\ pipeline[r].pc = "fail" /\ UNCHANGED <<issues, handler, purged, actions>>
          /\ To(r, "failed") /\ runs' = Marked(r, "failed")
      BY <1>10 DEF MarkFailed, At
    <2>2. PICK x \in RunThreads : pipeline' = [pipeline EXCEPT ![r] = x] /\ x.pc = "failed"
      BY <2>1, StageMoved DEF Stages
    <2> QED BY <1>a, <1>c, <1>d, <2>1, <2>2, RunKeepsAccounts
  <1>11. CASE Finish(r)
    <2>1. /\ pipeline[r].pc = "finish" /\ UNCHANGED <<runs, issues, handler, purged>>
          /\ actions' = actions \union {<<RunThread(r), "run_finished">>}
          /\ pipeline' = [pipeline EXCEPT ![r] = Gone]
      BY <1>11, RunEventIs DEF Finish, At
    <2>2. \A q \in Runs \ {r} : Said(q)' => Said(q)
      BY <2>1, AnchorsApart DEF Said
    <2>3. r \in purged \/ Explained(r, issues'[r], actions')
      BY <2>1, ExplainedGrows DEF Accounted
    <2>4. Gone \in RunThreads /\ Gone.pc = "none"
      BY GoneType DEF Gone
    <2> HIDE DEF Gone
    <2> QED BY <2>1, <2>2, <2>3, <2>4, RunKeepsAccounts
  <1>12. CASE ReportFailed(r)
    <2>1. /\ pipeline[r].pc # "none" /\ UNCHANGED <<runs, issues, handler, purged>>
          /\ actions' = actions \union {<<RunThread(r), "run_failed">>}
          /\ pipeline' = [pipeline EXCEPT ![r] = Gone]
      BY <1>12, RunEventIs DEF ReportFailed, At
    <2>2. Gone \in RunThreads /\ Gone.pc = "none"
      BY GoneType DEF Gone
    <2> QED BY <1>a, <1>b, <2>1, <2>2, RunKeepsAccounts
  <1>13. CASE ThreadDies(r)
    <2>1. /\ pipeline[r].pc # "none" /\ UNCHANGED <<runs, issues, handler, purged, actions>>
          /\ pipeline' = [pipeline EXCEPT ![r] = Gone]
      BY <1>13 DEF ThreadDies
    <2>2. Gone \in RunThreads /\ Gone.pc = "none"
      BY GoneType DEF Gone
    <2> QED BY <1>a, <1>d, <2>1, <2>2, RunKeepsAccounts
  <1> QED BY <1>1, <1>2, <1>3, <1>4, <1>5, <1>6, <1>7, <1>8, <1>9, <1>10, <1>11,
             <1>12, <1>13 DEF Pipeline, PipelineFaults

(* No request takes an account away but by deleting the run. *)
LEMMA RequestAccounts ==
  ASSUME ThreadsTypeOK, Accounted,
         \/ Request \/ RequestFails \/ Serve \/ ThreadsReboot
         \/ \E r \in {handler.run} \ {Null} : DeletePublications(r) \/ DeleteRow(r)
  PROVE  Accounted'
  <1> USE DEF kept
  <1>a. Idle.run = Null
    BY DEF Idle
  <1>b. ASSUME NEW pc, Step(pc) PROVE handler'.run = handler.run
    BY <1>b DEF Step, ThreadsTypeOK, Handler
  <1>c. UNCHANGED actions =>
          /\ \A q \in Runs : Said(q)' => Said(q)
          /\ \A q \in Runs : Explained(q, issues[q], actions) => Explained(q, issues[q], actions')
    BY DEF Said
  <1>d. \A q \in Runs : Said(q) => runs[q] # "absent"
    BY DEF Accounted
  <1>1. ASSUME NEW r \in Runs, Trigger(r) PROVE Accounted'
    <2>1. /\ runs[r] = "absent" /\ runs' = [runs EXCEPT ![r] = "running"] /\ To(r, "start")
          /\ UNCHANGED <<issues, handler, purged, actions>>
      BY <1>1 DEF Trigger, To
    <2>2. PICK x \in RunThreads : pipeline' = [pipeline EXCEPT ![r] = x] /\ x.pc = "start"
      BY <2>1, StageMoved DEF Stages
    <2>3. /\ runs'[r] = "running" /\ \A q \in Runs \ {r} : runs'[q] = runs[q]
          /\ pipeline'[r] = x /\ \A q \in Runs \ {r} : pipeline'[q] = pipeline[q]
          /\ \A q \in Runs : issues'[q] = issues[q] /\ Said(q)' = Said(q)
      BY <2>1, <2>2 DEF ThreadsTypeOK, Said
    <2>4. ~Said(r)
      BY <1>d, <2>1
    <2> QED BY <2>1, <2>2, <2>3, <2>4 DEF Accounted
  <1>2. ASSUME NEW r \in Runs, CloseIssue(r) PROVE Accounted'
    <2>1. /\ UNCHANGED <<runs, actions, pipeline, handler, purged>>
          /\ \A q \in Runs : issues'[q] = "open" => issues[q] = "open"
      BY <1>2 DEF CloseIssue, ThreadsTypeOK
    <2> QED BY <1>c, <2>1, OthersKeepAccounts DEF Accounted
  <1>3. ASSUME NEW r \in Runs, DeleteRun(r) PROVE Accounted'
    <2>1. /\ UNCHANGED <<runs, issues, actions, pipeline>>
          /\ purged' = purged \union {r} /\ handler'.run = r
      BY <1>3 DEF DeleteRun, Idle
    <2> QED BY <1>c, <2>1, OthersKeepAccounts
  <1>4. ASSUME NEW a \in Anchors, OpenThread(a) PROVE Accounted'
    <2>1. UNCHANGED <<runs, issues, actions, pipeline, handler, purged>>
      BY <1>4 DEF OpenThread
    <2> QED BY <1>c, <2>1, OthersKeepAccounts DEF Accounted
  <1>5. ASSUME NEW a \in Anchors, DeleteThread(a) PROVE Accounted'
    <2>1. UNCHANGED <<runs, issues, actions, pipeline, purged>> /\ handler'.run = Null
      BY <1>5 DEF DeleteThread, Idle
    <2> QED BY <1>c, <2>1, OthersKeepAccounts
  <1>6. CASE DeleteDiscussion
    <2>1. UNCHANGED <<runs, issues, actions, pipeline, purged>> /\ handler'.run = Null
      BY <1>6, <1>a DEF DeleteDiscussion
    <2> QED BY <1>c, <2>1, OthersKeepAccounts
  <1>7. ASSUME NEW r, DeleteDiscussions(r) PROVE Accounted'
    <2>1. UNCHANGED <<runs, issues, actions, pipeline, purged>> /\ handler'.run = handler.run
      BY <1>7, <1>b DEF DeleteDiscussions
    <2> QED BY <1>c, <2>1, OthersKeepAccounts DEF Accounted
  <1>8. ASSUME handler.run # Null, DeleteActions(handler.run) PROVE Accounted'
    <2> DEFINE r == handler.run
    <2>1. /\ UNCHANGED <<runs, issues, pipeline, purged>> /\ handler'.run = r
          /\ actions' = {x \in actions : x[1] \notin Owned(r)}
      BY <1>8, <1>b DEF DeleteActions
    <2>2. r \in purged /\ r \in Runs
      BY <1>8 DEF Accounted, ThreadsTypeOK
    <2>3. \A q \in Runs \ {r} : RunThread(q) \notin Owned(r) /\ IssueThread(q) \notin Owned(r)
      BY <2>2, AnchorsApart DEF Owned, RunAnchors
    <2>4. ASSUME NEW q \in Runs \ purged, Explained(q, issues[q], actions)
          PROVE  Explained(q, issues[q], actions')
      <3>1. q # r
        BY <2>2
      <3>2. \A e : /\ <<RunThread(q), e>> \in actions => <<RunThread(q), e>> \in actions'
                   /\ <<IssueThread(q), e>> \in actions => <<IssueThread(q), e>> \in actions'
        BY <2>1, <2>3, <3>1
      <3> HIDE DEF r
      <3> QED BY <2>4, <3>2 DEF Explained
    <2>5. \A q \in Runs : Said(q)' => Said(q)
      BY <2>1 DEF Said
    <2> HIDE DEF r
    <2> QED BY <2>1, <2>2, <2>4, <2>5, OthersKeepAccounts
  <1>9. ASSUME NEW r, DeleteIssues(r) PROVE Accounted'
    <2>1. /\ UNCHANGED <<runs, actions, pipeline, purged>> /\ handler'.run = handler.run
          /\ \A q \in Runs : issues'[q] = "open" => issues[q] = "open"
      BY <1>9, <1>b DEF DeleteIssues, ThreadsTypeOK
    <2> QED BY <1>c, <2>1, OthersKeepAccounts DEF Accounted
  <1>10. ASSUME NEW r, DeletePublications(r) PROVE Accounted'
    <2>1. UNCHANGED <<runs, issues, actions, pipeline, purged>> /\ handler'.run = handler.run
      BY <1>10, <1>b DEF DeletePublications
    <2> QED BY <1>c, <2>1, OthersKeepAccounts DEF Accounted
  <1>11. ASSUME NEW r, DeleteRow(r) PROVE Accounted'
    <2>1. /\ UNCHANGED <<actions, pipeline, purged>> /\ handler'.run = Null
          /\ \A q \in Runs : issues'[q] = "open" => issues[q] = "open"
          /\ \A q \in Runs : runs'[q] = "absent" => runs[q] = "absent"
      BY <1>11, <1>a DEF DeleteRow, ThreadsTypeOK
    <2> QED BY <1>c, <2>1, OthersKeepAccounts
  <1>12. CASE RequestFails
    <2>1. UNCHANGED <<runs, issues, actions, pipeline, purged>> /\ handler'.run = Null
      BY <1>12, <1>a DEF RequestFails
    <2> QED BY <1>c, <2>1, OthersKeepAccounts
  <1>13. CASE ThreadsReboot
    <2>1. /\ UNCHANGED <<issues, actions, purged>> /\ handler'.run = Null
          /\ \A q \in Runs : runs'[q] = "absent" => runs[q] = "absent"
          /\ \A q \in Runs : pipeline'[q].pc = "none"
      BY <1>13, <1>a DEF ThreadsReboot, Gone
    <2> QED BY <1>c, <2>1, OthersKeepAccounts
  <1> QED BY <1>1, <1>2, <1>3, <1>4, <1>5, <1>6, <1>7, <1>8, <1>9, <1>10,
             <1>11, <1>12, <1>13 DEF Request, Serve

(* Nor does any other step. *)
LEMMA AccountsStep ==
  ASSUME ThreadsTypeOK, Accounted, [Next]_vars
  PROVE  Accounted'
  <1>1. CASE UNCHANGED threadVars
    BY <1>1 DEF threadVars, Accounted, Said
  <1>2. CASE JobStep
    <2>1. UNCHANGED <<runs, issues, pipeline, handler, purged>> /\ actions \subseteq actions'
      BY <1>2, JobFrame
    <2>2. \A q \in Runs : Said(q)' => Said(q)
      <3>1. CASE UNCHANGED actions
        BY <3>1 DEF Said
      <3>2. ASSUME NEW a, NEW e, e # "run_finished", actions' = actions \union {<<a, e>>}
            PROVE  \A q \in Runs : Said(q)' => Said(q)
        BY <3>2 DEF Said
      <3> QED BY <1>2, <3>1, <3>2, JobFrame
    <2> QED BY <2>1, <2>2, ExplainedGrows, OthersKeepAccounts DEF Accounted
  <1>3. CASE Register
    BY <1>3 DEF Register, Accounted, Said
  <1>4. CASE Reboot
    BY <1>4, RequestAccounts DEF Reboot
  <1> QED BY <1>1, <1>2, <1>3, <1>4, NextSplit, PipelineAccounts, RequestAccounts

(* At first there is nothing to account for. *)
LEMMA InitAccounts ==
  ASSUME Init PROVE ThreadsTypeOK /\ Accounted
  <1> USE DEF Init, ThreadsInit
  <1>1. NoThread \in Discussions
    BY ThreadsAssumption DEF NoThread, Discussions
  <1>2. NoMessages \in [Kinds -> 0 .. 2]
    BY DEF NoMessages
  <1>3. Idle \in Handler
    BY ThreadsAssumption DEF Idle, Handler
  <1>4. ThreadsTypeOK
    BY <1>1, <1>2, <1>3, GoneType DEF ThreadsTypeOK
  <1>5. Accounted
    BY DEF Accounted, Said, Gone, Idle
  <1> QED BY <1>4, <1>5

(* The tables and the threads' buffers keep their types.                    *)
THEOREM ThreadsTyped == Spec => []ThreadsTypeOK
  <1>1. Init => ThreadsTypeOK
    BY InitAccounts
  <1>2. ThreadsTypeOK /\ [Next]_vars => ThreadsTypeOK'
    BY TypeStep
  <1> QED BY <1>1, <1>2, PTL DEF Spec

(* A run is never announced as finished before the agents' account of it is *)
(* in the audit trail, an open issue narrated or reported as past their cap *)
(* (FinishedIsExplained): for any number of runs, requests, failing         *)
(* statements and restarts, beside the controller.                          *)
THEOREM FinishedIsExplainedAlways == Spec => []FinishedIsExplained
  <1>1. Init => ThreadsTypeOK /\ Accounted
    BY InitAccounts
  <1>2. ThreadsTypeOK /\ Accounted /\ [Next]_vars => ThreadsTypeOK' /\ Accounted'
    BY TypeStep, AccountsStep
  <1>3. Accounted => FinishedIsExplained
    BY DEF Accounted, Said, FinishedIsExplained
  <1> QED BY <1>1, <1>2, <1>3, PTL DEF Spec

-----------------------------------------------------------------------------
(* One alert a window: an alert remembered has time left, since the step    *)
(* that ends its window forgets it; so an insert that was looked up first   *)
(* is the window's first.                                                   *)
AlertRow == [rows : 0 .. 2, left : 0 .. Window, resent : BOOLEAN]

AlertsInv ==
  /\ alerts \in [Findings -> AlertRow]
  /\ \A f \in Findings :
       /\ alerts[f].left = 0 => alerts[f].rows = 0
       /\ alerts[f].rows = 2 => alerts[f].resent

(* A cycle forgets an alert or leaves it time. *)
LEMMA AgedRow ==
  ASSUME NEW a \in AlertRow, a.rows = 2 => a.resent
  PROVE  /\ Aged(a) \in AlertRow
         /\ Aged(a).left = 0 => Aged(a).rows = 0
         /\ Aged(a).rows = 2 => Aged(a).resent
  <1>1. CASE a.left <= 1
    BY <1>1, ControllerAssumption DEF Aged, NoAlert, AlertRow
  <1>2. CASE ~(a.left <= 1)
    <2>1. Aged(a) = [a EXCEPT !.left = a.left - 1]
      BY <1>2 DEF Aged
    <2>2. a.left - 1 \in 0 .. Window /\ a.left - 1 # 0
      BY <1>2, ControllerAssumption DEF AlertRow
    <2> QED BY <2>1, <2>2 DEF AlertRow
  <1> QED BY <1>1, <1>2

(* An insert after a look for a duplicate is its window's first. *)
LEMMA RaisedRows ==
  ASSUME AlertsInv, NEW f, NEW n \in {1, 2}, ~DedupHit(f),
         alerts' = [alerts EXCEPT ![f] = Raised(f, n)]
  PROVE  AlertsInv'
  <1>1. CASE f \in Findings
    <2>1. /\ alerts[f].rows = 0 /\ alerts[f].resent \in BOOLEAN
      BY <1>1, ControllerAssumption DEF AlertsInv, AlertRow, DedupHit
    <2>2. /\ Raised(f, n) \in AlertRow /\ Raised(f, n).left # 0
          /\ Raised(f, n).rows = 2 => Raised(f, n).resent
      <3>1. CASE n = 1
        <4>1. Raised(f, n) = [rows |-> 1, left |-> Window, resent |-> alerts[f].resent]
          <5>1. (n = 2) = FALSE
            BY <3>1
          <5>2. (alerts[f].resent \/ n = 2) = alerts[f].resent
            BY <2>1, <5>1, Zenon
          <5> QED BY <2>1, <3>1, <5>2 DEF Raised
        <4> QED BY <2>1, <4>1, ControllerAssumption DEF AlertRow
      <3>2. CASE n = 2
        <4>1. Raised(f, n) = [rows |-> 2, left |-> Window, resent |-> TRUE]
          <5>1. (alerts[f].resent \/ n = 2) = TRUE
            BY <2>1, <3>2, Zenon
          <5>2. ~(alerts[f].rows + n < 2)
            BY <2>1, <3>2
          <5> QED BY <5>1, <5>2 DEF Raised
        <4> QED BY <4>1, ControllerAssumption DEF AlertRow
      <3> QED BY <3>1, <3>2
    <2> HIDE DEF Raised
    <2> QED BY <1>1, <2>2 DEF AlertsInv
  <1>2. CASE f \notin Findings
    <2>1. alerts' = alerts
      BY <1>2 DEF AlertsInv
    <2> QED BY <2>1 DEF AlertsInv
  <1> QED BY <1>1, <1>2

(* Only cycles and inserts change the alerts. *)
LEMMA AlertsStep ==
  ASSUME AlertsInv, [Next]_vars
  PROVE  AlertsInv'
  <1>1. CASE UNCHANGED alerts
    BY <1>1 DEF AlertsInv
  <1>2. CASE Cycle
    <2>1. alerts' = [f \in Findings |-> Aged(alerts[f])]
      BY <1>2 DEF Cycle
    <2>2. \A f \in Findings : /\ Aged(alerts[f]) \in AlertRow
                              /\ Aged(alerts[f]).left = 0 => Aged(alerts[f]).rows = 0
                              /\ Aged(alerts[f]).rows = 2 => Aged(alerts[f]).resent
      BY AgedRow DEF AlertsInv
    <2> QED BY <2>1, <2>2 DEF AlertsInv
  <1>3. ASSUME NEW f, RaiseAlert(f) PROVE AlertsInv'
    <2>1. CASE DedupHit(f)
      BY <1>1, <1>3, <2>1 DEF RaiseAlert
    <2>2. CASE ~DedupHit(f)
      BY <1>3, <2>2, RaisedRows DEF RaiseAlert
    <2> QED BY <2>1, <2>2
  <1>4. ASSUME NEW f, RaiseResent(f) PROVE AlertsInv'
    BY <1>4, RaisedRows DEF RaiseResent
  <1>5. CASE JobStep
    <2>1. CASE Query \/ VerifyManifest \/ LogAlert \/ PostTriage \/ TriageRefused
               \/ LogTriage \/ Backfill \/ CheckFails
      <3>1. UNCHANGED alerts
        BY <2>1 DEF Query, VerifyManifest, LogAlert, PostTriage, TriageRefused,
                    LogTriage, Backfill, CheckFails
      <3> QED BY <1>1, <3>1
    <2> QED BY <1>2, <1>3, <1>4, <1>5, <2>1 DEF JobStep, Job
  <1>6. ~JobStep => UNCHANGED alerts
    <2> USE DEF ctlVars
    <2>1. ASSUME NEW r, Approve(r) \/ GrowOld(r) \/ DeletePublications(r) PROVE UNCHANGED alerts
      BY <2>1 DEF Approve, GrowOld, DeletePublications
    <2>2. CASE Register BY <2>2 DEF Register
    <2>3. CASE Reboot BY <2>3 DEF Reboot
    <2> QED BY <2>1, <2>2, <2>3 DEF Next, vars, JobStep, Handlers
  <1> QED BY <1>1, <1>5, <1>6

(* Within its window a finding has one alerts row unless an insert was sent *)
(* twice (AlertOncePerWindow): for any number of findings and cycles, and   *)
(* every window.                                                            *)
THEOREM AlertOncePerWindowAlways == Spec => []AlertOncePerWindow
  <1>1. Init => AlertsInv
    BY ControllerAssumption DEF Init, AlertsInv, AlertRow, NoAlert
  <1>2. AlertsInv /\ [Next]_vars => AlertsInv'
    BY AlertsStep
  <1>3. AlertsInv => AlertOncePerWindow
    BY DEF AlertsInv, AlertOncePerWindow
  <1> QED BY <1>1, <1>2, <1>3, PTL DEF Spec

-----------------------------------------------------------------------------
(* The discussion stage is written once.                                    *)
Used(t) == \E a \in Anchors : threads.id[a] = t

Quiet(ms, t) == \A k \in Told : ms[t][k] = 0

(* Run r has not inserted its messages yet.                                 *)
Before(r) ==
  \/ runs[r] = "absent"
  \/ pipeline[r].pc \in {"start", "raise", "discuss", "upsert", "messages"}

(* Threads have one anchor each; those without one, and the run's before    *)
(* its flush, hold nothing of the discussion stage.                         *)
Untold ==
  /\ Numbered(threads)
  /\ \A t \in ThreadIds : Used(t) \/ Quiet(messages, t)
  /\ \A r \in Runs : Before(r) =>
       \A a \in RunAnchors(r) : threads.id[a] # 0 => Quiet(messages, threads.id[a])
  /\ ToldOnce

OwnMessages == \A r \in Runs : pipeline[r].messages \subseteq Own(r)

(* New threads and triage notes: a new thread is an empty one. *)
LEMMA GrownUntold ==
  ASSUME ThreadsTypeOK, Untold, threads' \in Discussions, Numbered(threads'),
         \A b \in Anchors : \/ threads'.id[b] = threads.id[b]
                            \/ threads.id[b] = 0 /\ threads'.id[b] >= threads.next,
         \A t \in ThreadIds, k \in Told : messages'[t][k] = messages[t][k],
         \A r \in Runs : Before(r)' => Before(r)
  PROVE  Untold'
  <1>1. /\ \A a \in Anchors : threads.id[a] \in 0 .. MaxThreads /\ threads'.id[a] \in 0 .. MaxThreads
        /\ threads.next \in 1 .. MaxThreads + 1
    BY DEF ThreadsTypeOK, Discussions
  <1>2. \A t \in ThreadIds : Quiet(messages, t) => Quiet(messages', t)
    BY DEF Quiet
  <1>3. ASSUME NEW b \in Anchors, threads'.id[b] # threads.id[b] PROVE Quiet(messages', threads'.id[b])
    <2>1. threads'.id[b] \in ThreadIds /\ threads'.id[b] >= threads.next
      BY <1>1, <1>3, ThreadsAssumption DEF ThreadIds
    <2>2. ~Used(threads'.id[b])
      BY <1>1, <2>1, ThreadsAssumption DEF Used, Untold, Numbered
    <2> QED BY <1>2, <2>1, <2>2 DEF Untold
  <1>4. \A t \in ThreadIds : Used(t)' \/ Quiet(messages', t)
    <2>1. ASSUME NEW t \in ThreadIds, Used(t) PROVE Used(t)'
      <3>1. PICK b \in Anchors : threads.id[b] = t
        BY <2>1 DEF Used
      <3>2. t # 0
        BY ThreadsAssumption DEF ThreadIds
      <3> QED BY <3>1, <3>2 DEF Used
    <2> QED BY <1>2, <2>1 DEF Untold
  <1>5. ASSUME NEW r \in Runs, Before(r)', NEW a \in RunAnchors(r), threads'.id[a] # 0
        PROVE  Quiet(messages', threads'.id[a])
    <2>1. a \in Anchors
      BY AnchorsApart DEF RunAnchors
    <2>2. CASE threads'.id[a] = threads.id[a]
      <3>1. Quiet(messages, threads.id[a]) /\ threads.id[a] \in ThreadIds
        BY <1>1, <1>5, <2>1, <2>2, ThreadsAssumption DEF Untold, ThreadIds
      <3> QED BY <1>2, <2>2, <3>1
    <2> QED BY <1>3, <2>1, <2>2
  <1>6. ToldOnce'
    BY DEF Untold, ToldOnce
  <1> QED BY <1>4, <1>5, <1>6 DEF Untold

(* Threads deleted with their messages, or emptied first. *)
LEMMA EmptiedUntold ==
  ASSUME ThreadsTypeOK, Untold, NEW as \in SUBSET Anchors, NEW ids,
         threads' = threads \/ threads' = Without(threads, as),
         messages' = Emptied(ids), \A a \in as : threads.id[a] \in ids,
         UNCHANGED <<runs, pipeline>>
  PROVE  Untold'
  <1>1. /\ Numbered(threads')
        /\ \A b \in Anchors : \/ threads'.id[b] = threads.id[b]
                              \/ threads'.id[b] = 0 /\ threads.id[b] \in ids
    <2>1. CASE threads' = threads
      BY <2>1 DEF Untold
    <2>2. CASE threads' = Without(threads, as)
      BY <2>2, WithoutDiscussions DEF Untold
    <2> QED BY <2>1, <2>2
  <1>2. \A t \in ThreadIds : messages'[t] = IF t \in ids THEN NoMessages ELSE messages[t]
    BY DEF Emptied
  <1>3. \A k \in Told : NoMessages[k] = 0
    BY DEF NoMessages, Kinds
  <1>4. \A t \in ThreadIds : (t \in ids \/ Quiet(messages, t)) => Quiet(messages', t)
    BY <1>2, <1>3 DEF Quiet
  <1>5. \A t \in ThreadIds : Used(t)' \/ Quiet(messages', t)
    <2>1. ASSUME NEW t \in ThreadIds, t \notin ids, Used(t) PROVE Used(t)'
      BY <1>1, <2>1 DEF Used
    <2> QED BY <1>4, <2>1 DEF Untold
  <1>6. ASSUME NEW r \in Runs, Before(r)', NEW a \in RunAnchors(r), threads'.id[a] # 0
        PROVE  Quiet(messages', threads'.id[a])
    <2>1. a \in Anchors
      BY AnchorsApart DEF RunAnchors
    <2>2. threads'.id[a] = threads.id[a] /\ Before(r)
      BY <1>1, <1>6, <2>1 DEF Before
    <2>3. threads.id[a] \in ThreadIds
      BY <1>6, <2>1, <2>2, ThreadsAssumption DEF ThreadIds, ThreadsTypeOK, Discussions
    <2> QED BY <1>4, <1>6, <2>2, <2>3 DEF Untold
  <1>7. ToldOnce'
    BY <1>2, <1>3 DEF Untold, ToldOnce
  <1> QED BY <1>1, <1>5, <1>6, <1>7 DEF Untold

(* The insert of a run's messages goes to its own, still empty, threads. *)
LEMMA InsertedUntold ==
  ASSUME ThreadsTypeOK, Untold, OwnMessages, NEW r \in Runs,
         pipeline[r].pc = "messages", Referable(r), messages' = Inserted(r),
         UNCHANGED threads, ~Before(r)', \A q \in Runs : Before(q)' => Before(q)
  PROVE  Untold'
  <1> DEFINE run == threads.id[RunThread(r)]
             issue == threads.id[IssueThread(r)]
             n(t, k) == \E m \in pipeline[r].messages :
                          pipeline[r].ids[m[1]] = t /\ m[2] = k
  <1>1. \A m \in pipeline[r].messages : threads.id[m[1]] = pipeline[r].ids[m[1]]
    <2>1. \A m \in pipeline[r].messages : <<m[1], pipeline[r].ids[m[1]]>> \in Referred(r)
      BY DEF Referred
    <2> QED BY <2>1 DEF Referable
  <1>2. \A m \in pipeline[r].messages :
          m[1] = IF m[2] = "impact" THEN IssueThread(r) ELSE RunThread(r)
    BY DEF OwnMessages, Own
  <1>3. \A t, k : n(t, k) => t = IF k = "impact" THEN issue ELSE run
    BY <1>1, <1>2
  <1>4. \A t \in ThreadIds : \A k \in Kinds :
          messages'[t][k] = IF n(t, k) /\ messages[t][k] < 2 THEN messages[t][k] + 1
                            ELSE messages[t][k]
    BY DEF Inserted
  <1>5. Told \subseteq Kinds
    BY DEF Kinds
  <1> HIDE DEF n
  <1>6. \A t \in ThreadIds : \A k \in Kinds : messages[t][k] \in 0 .. 2
    BY DEF ThreadsTypeOK
  <1>7. \A t \in ThreadIds, k \in Told :
          \/ messages'[t][k] = messages[t][k]
          \/ t \in {run, issue} /\ messages'[t][k] = messages[t][k] + 1
    BY <1>3, <1>4, <1>5
  <1>8. RunThread(r) \in Anchors /\ IssueThread(r) \in Anchors
    BY AnchorsApart
  <1>9. \A t \in ThreadIds : t # 0
    BY ThreadsAssumption DEF ThreadIds
  <1>10. (run # 0 => Quiet(messages, run)) /\ (issue # 0 => Quiet(messages, issue))
    BY DEF Untold, Before, RunAnchors
  <1>11. \A t \in ThreadIds : Used(t)' \/ Quiet(messages', t)
    <2>1. \A t \in ThreadIds : Used(t) => Used(t)'
      BY DEF Used
    <2>2. Used(run) /\ Used(issue)
      BY <1>8 DEF Used
    <2> QED BY <1>7, <2>1, <2>2 DEF Untold, Quiet
  <1>12. ASSUME NEW q \in Runs, Before(q)', NEW a \in RunAnchors(q), threads'.id[a] # 0
         PROVE  Quiet(messages', threads'.id[a])
    <2>1. a \in Anchors
      BY AnchorsApart DEF RunAnchors
    <2>2. threads'.id[a] = threads.id[a] /\ Quiet(messages, threads.id[a])
      BY <1>12 DEF Untold
    <2>3. threads.id[a] \in ThreadIds
      BY <1>12, <2>1, <2>2, ThreadsAssumption DEF ThreadIds, ThreadsTypeOK, Discussions
    <2>4. q # r
      BY <1>12
    <2>5. a # RunThread(r) /\ a # IssueThread(r)
      BY <2>4, AnchorsApart DEF RunAnchors
    <2>6. threads.id[a] # run /\ threads.id[a] # issue
      BY <1>8, <1>12, <2>1, <2>2, <2>5 DEF Untold, Numbered
    <2> QED BY <1>7, <2>2, <2>3, <2>6 DEF Quiet
  <1>13. ToldOnce'
    BY <1>7, <1>9, <1>10 DEF Untold, ToldOnce, Quiet
  <1> QED BY <1>11, <1>12, <1>13 DEF Untold

(* A step of run r's thread leaves the other runs before or behind their    *)
(* flush as they were, and r itself never comes before its flush again.     *)
LEMMA RunStaysBehind ==
  ASSUME ThreadsTypeOK, Accounted, OwnMessages, NEW r \in Runs, NEW x \in RunThreads,
         pipeline' = [pipeline EXCEPT ![r] = x], pipeline[r].pc # "none",
         \A q \in Runs : runs'[q] = "absent" => runs[q] = "absent",
         x.messages \subseteq pipeline[r].messages \union Own(r),
         x.pc \in {"start", "raise", "discuss", "upsert", "messages"} => Before(r)
  PROVE  /\ OwnMessages'
         /\ \A q \in Runs : Before(q)' => Before(q)
         /\ x.pc \notin {"start", "raise", "discuss", "upsert", "messages"} => ~Before(r)'
  <1>1. pipeline'[r] = x /\ \A q \in Runs \ {r} : pipeline'[q] = pipeline[q]
    BY DEF ThreadsTypeOK
  <1>2. runs'[r] # "absent"
    BY DEF Accounted
  <1>3. \A q \in Runs : Own(q)' = Own(q)
    BY DEF Own
  <1>4. OwnMessages'
    BY <1>1, <1>3 DEF OwnMessages
  <1> QED BY <1>1, <1>2, <1>4 DEF Before

(* Each action of a run's thread is one of those steps. *)
LEMMA PipelineUntold ==
  ASSUME ThreadsTypeOK, Accounted, OwnMessages, Untold, NEW r \in Runs,
         Pipeline(r) \/ PipelineFaults(r)
  PROVE  OwnMessages' /\ Untold'
  <1> USE DEF others
  <1>a. pipeline[r] \in RunThreads /\ Numbered(threads) /\ threads \in Discussions
    BY DEF ThreadsTypeOK, Untold
  <1>b. ASSUME NEW s, runs' = Marked(r, s), s # "absent"
        PROVE  \A q \in Runs : runs'[q] = "absent" => runs[q] = "absent"
    BY <1>b DEF Marked, ThreadsTypeOK
  <1>c. ASSUME UNCHANGED <<threads, messages>>, \A q \in Runs : Before(q)' => Before(q)
        PROVE  Untold'
    BY <1>a, <1>c, GrownUntold
  <1>d. ASSUME NEW e, RunEvent(r, e), \A q \in Runs : Before(q)' => Before(q)
        PROVE  Untold'
    <2>1. /\ threads' \in Discussions /\ threads' = Ensured(threads, RunThread(r))
          /\ threads.next <= MaxThreads /\ messages' = messages /\ RunThread(r) \in Anchors
      BY <1>d, RunEventIs, AnchorsApart
    <2>2. /\ Numbered(threads')
          /\ \A b \in Anchors : \/ threads'.id[b] = threads.id[b]
                                \/ threads.id[b] = 0 /\ threads'.id[b] = threads.next
      BY <1>a, <2>1, EnsuredDiscussions
    <2>3. threads.next >= threads.next
      BY <1>a, ThreadsAssumption DEF Discussions
    <2>4. \A b \in Anchors : \/ threads'.id[b] = threads.id[b]
                             \/ threads.id[b] = 0 /\ threads'.id[b] >= threads.next
      BY <2>2, <2>3
    <2> QED BY <1>d, <2>1, <2>2, <2>4, GrownUntold
  <1>e. Gone \in RunThreads /\ Gone.pc = "none" /\ Gone.messages = {}
    BY GoneType DEF Gone
  <1>1. CASE Start(r)
    <2>1. pipeline[r].pc = "start" /\ To(r, "raise") /\ UNCHANGED runs
      BY <1>1 DEF Start, At
    <2>2. PICK x \in RunThreads : /\ pipeline' = [pipeline EXCEPT ![r] = x]
                                  /\ x.messages = pipeline[r].messages
      BY <2>1, StageMoved DEF Stages
    <2>3. OwnMessages' /\ \A q \in Runs : Before(q)' => Before(q)
      BY <2>1, <2>2, RunStaysBehind DEF Before
    <2> QED BY <1>1, <1>d, <2>3 DEF Start
  <1>2. CASE Raise(r) \/ RaiseRefused(r)
    <2>1. pipeline[r].pc = "raise" /\ UNCHANGED <<runs, threads, messages>>
      BY <1>2 DEF Raise, RaiseRefused, At
    <2>2. PICK x \in RunThreads : /\ pipeline' = [pipeline EXCEPT ![r] = x]
                                  /\ x.messages = pipeline[r].messages
      BY <1>2, RaiseIs
    <2>3. OwnMessages' /\ \A q \in Runs : Before(q)' => Before(q)
      BY <2>1, <2>2, RunStaysBehind DEF Before
    <2> QED BY <1>c, <2>1, <2>3
  <1>3. CASE Discuss(r)
    <2>1. pipeline[r].pc = "discuss" /\ UNCHANGED <<runs, threads, messages>>
      BY <1>3 DEF Discuss, At
    <2>2. PICK x \in RunThreads : /\ pipeline' = [pipeline EXCEPT ![r] = x]
                                  /\ x.messages \subseteq pipeline[r].messages \union Own(r)
      BY <1>3, DiscussIs
    <2>3. OwnMessages' /\ \A q \in Runs : Before(q)' => Before(q)
      BY <2>1, <2>2, RunStaysBehind DEF Before
    <2> QED BY <1>c, <2>1, <2>3
  <1>4. CASE BodyFails(r)
    <2>1. pipeline[r].pc \in {"raise", "discuss"} /\ UNCHANGED <<runs, threads, messages>>
      BY <1>4 DEF BodyFails
    <2>2. PICK x \in RunThreads : /\ pipeline' = [pipeline EXCEPT ![r] = x]
                                  /\ x.messages = pipeline[r].messages
      BY <1>4, BodyFailsIs
    <2>3. OwnMessages' /\ \A q \in Runs : Before(q)' => Before(q)
      BY <2>1, <2>2, RunStaysBehind DEF Before
    <2> QED BY <1>c, <2>1, <2>3
  <1>5. CASE FlushThreads(r)
    <2>1. /\ pipeline[r].pc = "upsert" /\ UNCHANGED <<runs, messages>> /\ Room
          /\ threads' = Upserted(r)
      BY <1>5 DEF FlushThreads, At
    <2>2. PICK x \in RunThreads : /\ pipeline' = [pipeline EXCEPT ![r] = x]
                                  /\ x.messages = pipeline[r].messages
      BY <1>5, FlushThreadsIs
    <2>3. OwnMessages' /\ \A q \in Runs : Before(q)' => Before(q)
      BY <2>1, <2>2, RunStaysBehind DEF Before
    <2>4. /\ threads' \in Discussions /\ Numbered(threads')
          /\ \A b \in Anchors : \/ threads'.id[b] = threads.id[b]
                                \/ threads.id[b] = 0 /\ threads'.id[b] >= threads.next
      BY <1>a, <2>1, UpsertedDiscussions
    <2> QED BY <2>1, <2>3, <2>4, GrownUntold
  <1>6. CASE FlushMessages(r) \/ FlushFails(r)
    <2>1. PICK pc \in {"actions", "fail"} : To(r, pc)
      BY <1>6 DEF FlushMessages, FlushFails
    <2>2. /\ pc \in Stages
          /\ pipeline[r].pc # "none" /\ UNCHANGED <<runs, threads>>
          /\ \/ UNCHANGED messages
             \/ pipeline[r].pc = "messages" /\ Referable(r) /\ messages' = Inserted(r)
      BY <1>6 DEF FlushMessages, FlushFails, Stages, At
    <2>3. PICK x \in RunThreads : /\ pipeline' = [pipeline EXCEPT ![r] = x]
                                  /\ x.messages = pipeline[r].messages /\ x.pc = pc
      BY <2>1, <2>2, StageMoved
    <2>4. x.pc \notin {"start", "raise", "discuss", "upsert", "messages"}
      BY <2>3
    <2>5. OwnMessages' /\ ~Before(r)' /\ \A q \in Runs : Before(q)' => Before(q)
      BY <2>2, <2>3, <2>4, RunStaysBehind
    <2> QED BY <1>c, <2>2, <2>5, InsertedUntold
  <1>7. CASE FlushRefused(r) \/ EndFails(r) \/ FlushActions(r)
    <2>1. /\ pipeline[r].pc # "none" /\ UNCHANGED <<runs, threads, messages>>
          /\ \E pc \in {"fail", "complete"} : To(r, pc)
      BY <1>7 DEF FlushRefused, EndFails, FlushActions, After, At
    <2>2. PICK x \in RunThreads : /\ pipeline' = [pipeline EXCEPT ![r] = x]
                                  /\ x.messages = pipeline[r].messages
                                  /\ x.pc \in {"fail", "complete"}
      BY <2>1, StageMoved DEF Stages
    <2>3. OwnMessages' /\ \A q \in Runs : Before(q)' => Before(q)
      BY <2>1, <2>2, RunStaysBehind
    <2> QED BY <1>c, <2>1, <2>3
  <1>8. CASE Complete(r) \/ MarkFailed(r)
    <2>1. /\ pipeline[r].pc # "none" /\ UNCHANGED <<threads, messages>>
          /\ \E pc \in {"finish", "failed"} : To(r, pc)
          /\ \E s : s # "absent" /\ runs' = Marked(r, s)
      BY <1>8 DEF Complete, MarkFailed, At
    <2>2. PICK x \in RunThreads : /\ pipeline' = [pipeline EXCEPT ![r] = x]
                                  /\ x.messages = pipeline[r].messages
                                  /\ x.pc \in {"finish", "failed"}
      BY <2>1, StageMoved DEF Stages
    <2>3. OwnMessages' /\ \A q \in Runs : Before(q)' => Before(q)
      BY <1>b, <2>1, <2>2, RunStaysBehind
    <2> QED BY <1>c, <2>1, <2>3
  <1>9. CASE Finish(r) \/ ReportFailed(r)
    <2>1. /\ pipeline[r].pc # "none" /\ pipeline' = [pipeline EXCEPT ![r] = Gone]
          /\ UNCHANGED runs /\ \E e : RunEvent(r, e)
      BY <1>9 DEF Finish, ReportFailed, At
    <2>2. OwnMessages' /\ \A q \in Runs : Before(q)' => Before(q)
      BY <1>e, <2>1, RunStaysBehind
    <2> QED BY <1>d, <2>1, <2>2
  <1>10. CASE ThreadDies(r)
    <2>1. /\ pipeline[r].pc # "none" /\ pipeline' = [pipeline EXCEPT ![r] = Gone]
          /\ UNCHANGED <<runs, threads, messages>>
      BY <1>10 DEF ThreadDies
    <2>2. OwnMessages' /\ \A q \in Runs : Before(q)' => Before(q)
      BY <1>e, <2>1, RunStaysBehind
    <2> QED BY <1>c, <2>1, <2>2
  <1> QED BY <1>1, <1>2, <1>3, <1>4, <1>5, <1>6, <1>7, <1>8, <1>9, <1>10
          DEF Pipeline, PipelineFaults

(* So is each statement of a request. *)
LEMMA RequestUntold ==
  ASSUME ThreadsTypeOK, Accounted, OwnMessages, Untold,
         \/ Request \/ RequestFails \/ Serve \/ ThreadsReboot
         \/ \E r \in {handler.run} \ {Null} : DeletePublications(r) \/ DeleteRow(r)
  PROVE  OwnMessages' /\ Untold'
  <1> USE DEF kept
  <1>a. Numbered(threads) /\ threads \in Discussions /\ handler.run \in Runs \union {Null}
    BY DEF ThreadsTypeOK, Untold, Handler
  <1>b. ASSUME UNCHANGED <<threads, messages>>, \A q \in Runs : Before(q)' => Before(q)
        PROVE  Untold'
    BY <1>a, <1>b, GrownUntold
  <1>c. ASSUME UNCHANGED pipeline, \A q \in Runs : runs'[q] = "absent" => runs[q] = "absent"
        PROVE  OwnMessages' /\ \A q \in Runs : Before(q)' => Before(q)
    BY <1>c DEF OwnMessages, Own, Before
  <1>d. ASSUME NEW a \in Anchors, Room, threads' = Ensured(threads, a),
               UNCHANGED <<messages, runs, pipeline>>
        PROVE  Untold'
    <2>1. threads.next <= MaxThreads /\ threads.next >= threads.next
      BY <1>a, <1>d, ThreadsAssumption DEF Room, Discussions
    <2>2. /\ threads' \in Discussions /\ Numbered(threads')
          /\ \A b \in Anchors : \/ threads'.id[b] = threads.id[b]
                                \/ threads.id[b] = 0 /\ threads'.id[b] = threads.next
      BY <1>a, <1>d, <2>1, EnsuredDiscussions
    <2>3. \A q \in Runs : Before(q)' => Before(q)
      BY <1>d DEF Before
    <2> QED BY <1>d, <2>1, <2>2, <2>3, GrownUntold
  <1>e. ASSUME UNCHANGED <<runs, pipeline>>
        PROVE  OwnMessages' /\ \A q \in Runs : Before(q)' => Before(q)
    BY <1>e, <1>c
  <1>1. ASSUME NEW r \in Runs, Trigger(r) PROVE OwnMessages' /\ Untold'
    <2>1. /\ runs[r] = "absent" /\ runs' = [runs EXCEPT ![r] = "running"] /\ To(r, "start")
          /\ UNCHANGED <<threads, messages>>
      BY <1>1 DEF Trigger, To
    <2>2. PICK x \in RunThreads : /\ pipeline' = [pipeline EXCEPT ![r] = x]
                                  /\ x.messages = pipeline[r].messages
      BY <2>1, StageMoved DEF Stages
    <2>3. OwnMessages'
      BY <2>2 DEF OwnMessages, Own, ThreadsTypeOK
    <2>4. \A q \in Runs : Before(q)' => Before(q)
      BY <2>1, <2>2 DEF Before, ThreadsTypeOK
    <2> QED BY <1>b, <2>1, <2>3, <2>4
  <1>2. ASSUME NEW r \in Runs, CloseIssue(r) PROVE OwnMessages' /\ Untold'
    BY <1>2, <1>d, <1>e, AnchorsApart DEF CloseIssue
  <1>3. ASSUME NEW r \in Runs, DeleteRun(r) PROVE OwnMessages' /\ Untold'
    <2>1. /\ UNCHANGED <<runs, pipeline, threads>> /\ messages' = Emptied(OwnedIds(r))
      BY <1>3 DEF DeleteRun
    <2>2. Untold'
      BY <2>1, EmptiedUntold, {} \in SUBSET Anchors
    <2> QED BY <1>e, <2>1, <2>2
  <1>4. ASSUME NEW a \in Anchors, OpenThread(a) PROVE OwnMessages' /\ Untold'
    BY <1>4, <1>d, <1>e DEF OpenThread
  <1>5. ASSUME NEW a \in Anchors, DeleteThread(a) PROVE OwnMessages' /\ Untold'
    <2>1. /\ UNCHANGED <<runs, pipeline, threads>> /\ messages' = Emptied({threads.id[a]})
      BY <1>5 DEF DeleteThread
    <2>2. Untold'
      BY <2>1, EmptiedUntold, {} \in SUBSET Anchors
    <2> QED BY <1>e, <2>1, <2>2
  <1>6. CASE DeleteDiscussion
    <2> DEFINE as == {a \in Anchors : threads.id[a] = handler.thread}
    <2>1. /\ UNCHANGED <<runs, pipeline>> /\ messages' = Emptied({handler.thread})
          /\ threads' = Without(threads, as)
      BY <1>6 DEF DeleteDiscussion
    <2>2. as \in SUBSET Anchors /\ \A a \in as : threads.id[a] \in {handler.thread}
      OBVIOUS
    <2> HIDE DEF as
    <2>3. Untold'
      BY <2>1, <2>2, EmptiedUntold
    <2> QED BY <1>e, <2>1, <2>3
  <1>7. ASSUME NEW r \in Runs, DeleteDiscussions(r) PROVE OwnMessages' /\ Untold'
    <2>1. /\ UNCHANGED <<runs, pipeline>> /\ messages' = Emptied(OwnedIds(r))
          /\ threads' = Without(threads, Owned(r))
      BY <1>7 DEF DeleteDiscussions
    <2>2. Owned(r) \in SUBSET Anchors /\ \A a \in Owned(r) : threads.id[a] \in OwnedIds(r)
      BY AnchorsApart DEF Owned, OwnedIds, RunAnchors
    <2>3. Untold'
      BY <2>1, <2>2, EmptiedUntold
    <2> QED BY <1>e, <2>1, <2>3
  <1>8. ASSUME NEW r \in Runs, DeleteActions(r) \/ DeleteIssues(r) \/ DeletePublications(r)
        PROVE  OwnMessages' /\ Untold'
    <2>1. UNCHANGED <<runs, pipeline, threads, messages>>
      BY <1>8 DEF DeleteActions, DeleteIssues, DeletePublications
    <2> QED BY <1>b, <1>e, <2>1
  <1>9. ASSUME NEW r \in Runs, DeleteRow(r) PROVE OwnMessages' /\ Untold'
    <2>1. /\ UNCHANGED <<pipeline, threads, messages>>
          /\ \A q \in Runs : runs'[q] = "absent" => runs[q] = "absent"
      BY <1>9 DEF DeleteRow, ThreadsTypeOK
    <2> QED BY <1>b, <1>c, <2>1
  <1>10. CASE RequestFails
    <2>1. UNCHANGED <<runs, pipeline, threads, messages>>
      BY <1>10 DEF RequestFails
    <2> QED BY <1>b, <1>e, <2>1
  <1>11. CASE ThreadsReboot
    <2>1. /\ UNCHANGED <<threads, messages>>
          /\ \A q \in Runs : runs'[q] = "absent" => runs[q] = "absent"
          /\ \A q \in Runs : pipeline'[q].pc = "none" /\ pipeline'[q].messages = {}
      BY <1>11 DEF ThreadsReboot, Gone
    <2>2. \A q \in Runs : Before(q)' => Before(q)
      BY <2>1 DEF Before
    <2>3. OwnMessages'
      BY <2>1 DEF OwnMessages
    <2> QED BY <1>b, <2>1, <2>2, <2>3
  <1> QED BY <1>a, <1>1, <1>2, <1>3, <1>4, <1>5, <1>6, <1>7, <1>8, <1>9, <1>10,
             <1>11 DEF Request, Serve

(* And each step. *)
LEMMA UntoldStep ==
  ASSUME ThreadsTypeOK, Accounted, OwnMessages, Untold, [Next]_vars
  PROVE  OwnMessages' /\ Untold'
  <1>1. CASE UNCHANGED threadVars
    BY <1>1 DEF threadVars, OwnMessages, Own, Untold, Numbered, Used, Quiet, Before, ToldOnce
  <1>2. CASE JobStep
    <2>1. UNCHANGED <<runs, pipeline>>
      BY <1>2, JobFrame
    <2>2. OwnMessages' /\ \A q \in Runs : Before(q)' => Before(q)
      BY <2>1 DEF OwnMessages, Own, Before
    <2>3. Numbered(threads) /\ threads \in Discussions
      BY DEF ThreadsTypeOK, Untold
    <2>4. CASE UNCHANGED <<threads, messages>>
      BY <2>2, <2>3, <2>4, GrownUntold
    <2>5. ASSUME NEW a \in Anchors, PostMessage(a) PROVE Untold'
      <3>1. /\ threads' \in Discussions /\ threads' = Ensured(threads, a)
            /\ threads.next <= MaxThreads
            /\ \A t \in ThreadIds, k \in Told : messages'[t][k] = messages[t][k]
        BY <2>5, PostMessageIs
      <3>2. /\ Numbered(threads')
            /\ \A b \in Anchors : \/ threads'.id[b] = threads.id[b]
                                  \/ threads.id[b] = 0 /\ threads'.id[b] = threads.next
        BY <2>3, <3>1, EnsuredDiscussions
      <3>3. threads.next >= threads.next
        BY <2>3, ThreadsAssumption DEF Discussions
      <3> QED BY <2>2, <3>1, <3>2, <3>3, GrownUntold
    <2> QED BY <1>2, <2>2, <2>4, <2>5, JobFrame
  <1>3. CASE Register
    BY <1>3 DEF Register, OwnMessages, Own, Untold, Numbered, Used, Quiet, Before, ToldOnce
  <1>4. CASE Reboot
    BY <1>4, RequestUntold DEF Reboot
  <1> QED BY <1>1, <1>2, <1>3, <1>4, NextSplit, PipelineUntold, RequestUntold

(* The summary of a run, its note on the cap and an issue's narrative are   *)
(* never twice in a thread (ToldOnce), although a flush may fail after it   *)
(* stored them.                                                             *)
THEOREM ToldOnceAlways == Spec => []ToldOnce
  <1>1. Init => ThreadsTypeOK /\ Accounted /\ OwnMessages /\ Untold
    <2> SUFFICES ASSUME Init PROVE ThreadsTypeOK /\ Accounted /\ OwnMessages /\ Untold
      OBVIOUS
    <2>1. /\ \A a \in Anchors : threads.id[a] = 0
          /\ threads.next = 1
          /\ \A t \in ThreadIds, k \in Told : messages[t][k] = 0
      BY DEF Init, ThreadsInit, NoThread, NoMessages, Kinds
    <2>2. Numbered(threads)
      BY <2>1 DEF Numbered
    <2>3. \A r \in Runs : \A a \in RunAnchors(r) : threads.id[a] = 0
      BY <2>1, AnchorsApart DEF RunAnchors
    <2>4. Untold
      BY <2>1, <2>2, <2>3 DEF Untold, Quiet, ToldOnce
    <2>5. OwnMessages
      BY DEF Init, ThreadsInit, OwnMessages, Gone
    <2> QED BY <2>4, <2>5, InitAccounts
  <1>2. ThreadsTypeOK /\ Accounted /\ OwnMessages /\ Untold /\ [Next]_vars
          => ThreadsTypeOK' /\ Accounted' /\ OwnMessages' /\ Untold'
    BY TypeStep, AccountsStep, UntoldStep
  <1>3. Untold => ToldOnce
    BY DEF Untold
  <1> QED BY <1>1, <1>2, <1>3, PTL DEF Spec
=============================================================================
