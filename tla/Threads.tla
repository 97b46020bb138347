------------------------------ MODULE Threads -------------------------------
(***************************************************************************)
(* Discussion threads and the agents' audit trail of the revenue platform: *)
(* services/messages.py and write_buffer.py over the tables discussions,   *)
(* messages and agent_actions, the pipeline's discussion stage that writes *)
(* to them through the buffer, and the requests that read, post to and     *)
(* delete threads and runs.                                                *)
(*                                                                         *)
(* Every statement commits on its own.  execute and fetch_* try again once *)
(* when the connection drops, execute_many does not: a statement that      *)
(* fails here has failed with its retry.  Pipelines run on threads of      *)
(* their own; request handlers exclude one another.                        *)
(*                                                                         *)
(* Of a run's issues one is in view, or the run has none: which of several *)
(* the agents narrate before they reach their cap is a free choice here.   *)
(* Wording is left out, and of the messages those of the discussion stage  *)
(* and the Controller's triage notes are kept.                             *)
(***************************************************************************)
EXTENDS Naturals, Sequences

CONSTANTS Runs,         \* run ids
          Null,
          MaxThreads,   \* bound: discussion rows ever created
          MaxFaults,    \* bound: failing statements and process restarts
          MaxRequests   \* bound: requests that post to or delete something

VARIABLES runs,         \* runs.status
          issues,       \* exceptions: the status of the run's issue in view
          threads,      \* discussions: ids by anchor, and the next SERIAL
          messages,     \* messages: how many of each kind, two for more than one
          actions,      \* agent_actions of runs and issues: <<anchor, action>>
          pipeline,     \* run_pipeline threads with their write buffers
          handler,      \* the request handler that has the event loop
          purged,       \* runs whose deletion was begun
          requests, faults

threadVars == <<runs, issues, threads, messages, actions, pipeline, handler,
                purged, requests, faults>>

ASSUME ThreadsAssumption == MaxThreads \in Nat

ThreadIds == 1 .. MaxThreads

RunThread(r) == <<"run", r>>
IssueThread(r) == <<"exception", r>>
RunAnchors(r) == {RunThread(r), IssueThread(r)}

(* Anchors the CHECK of table discussions lets in.                         *)
Anchors == {"run", "exception"} \X Runs \union {"analysis"} \X ThreadIds

(* Of the discussion stage: on validation, on an issue, on issues past the *)
(* cap; and the Controller's.                                              *)
Told == {"summary", "impact", "capped"}
Kinds == Told \union {"triage"}

(* Audit entries that go through a buffer.                                 *)
Entries == {"exceptions_created", "validation_summary", "impact_narrative",
            "impact_capped"}

NoThread == [id |-> [a \in Anchors |-> 0], next |-> 1]

NoMessages == [k \in Kinds |-> 0]

Gone == [pc |-> "none", messages |-> {}, actions |-> {},
         ids |-> NoThread.id, failing |-> FALSE]

Idle == [pc |-> "idle", run |-> Null, thread |-> 0]

Stages == {"none", "start", "raise", "discuss", "upsert", "messages", "actions",
           "complete", "finish", "fail", "failed"}

RunThreads ==
  [pc : Stages,
   messages : SUBSET (Anchors \X Kinds),
   actions : SUBSET (Anchors \X Entries),
   ids : [Anchors -> 0 .. MaxThreads],
   failing : BOOLEAN]

Handler ==
  [pc : {"idle", "delete_thread", "delete_discussions", "delete_actions",
         "delete_issues", "delete_publications", "delete_row"},
   run : Runs \union {Null}, thread : 0 .. MaxThreads]

Discussions == [id : [Anchors -> 0 .. MaxThreads], next : 1 .. MaxThreads + 1]

ThreadsTypeOK ==
  /\ runs \in [Runs -> {"absent", "running", "completed", "failed", "deleted"}]
  /\ issues \in [Runs -> {"none", "open", "closed"}]
  /\ threads \in Discussions
  /\ messages \in [ThreadIds -> [Kinds -> 0 .. 2]]
  /\ pipeline \in [Runs -> RunThreads]
  /\ handler \in Handler
  /\ purged \subseteq Runs

ThreadsInit ==
  /\ runs = [r \in Runs |-> "absent"]
  /\ issues = [r \in Runs |-> "none"]
  /\ threads = NoThread
  /\ messages = [t \in ThreadIds |-> NoMessages]
  /\ actions = {}
  /\ pipeline = [r \in Runs |-> Gone]
  /\ handler = Idle
  /\ purged = {}
  /\ requests = 0
  /\ faults = 0

Exists(r) == runs[r] \in {"running", "completed", "failed"}

Fault == faults < MaxFaults /\ faults' = faults + 1

-----------------------------------------------------------------------------
(* messages.py                                                             *)

(* INSERT INTO discussions ... ON CONFLICT: the anchor's row, old or new.  *)
Ensured(th, a) ==
  IF th.id[a] # 0 THEN th
  ELSE [id |-> [th.id EXCEPT ![a] = th.next], next |-> th.next + 1]

ThreadOf(a) == Ensured(threads, a).id[a]

Room == threads.next < MaxThreads

(* post_message outside a buffer, for a triage note: thread and message in *)
(* one statement.                                                          *)
PostMessage(a) ==
  /\ Room
  /\ threads' = Ensured(threads, a)
  /\ messages' = [messages EXCEPT ![ThreadOf(a)]["triage"] = 1]

(* DELETE FROM discussions, and the messages that cascade.                 *)
Without(th, as) ==
  [id |-> [a \in Anchors |-> IF a \in as THEN 0 ELSE th.id[a]], next |-> th.next]

Emptied(ids) ==
  [t \in ThreadIds |-> IF t \in ids THEN NoMessages ELSE messages[t]]

-----------------------------------------------------------------------------
(* The pipeline of run r.                                                  *)
At(r, pc) == pipeline[r].pc = pc

To(r, pc) == pipeline' = [pipeline EXCEPT ![r].pc = pc]

others == <<handler, purged, requests>>

(* create_run and the start of the thread.  Another run may be running: the *)
(* single-run lock gives way after ten minutes.                            *)
Trigger(r) ==
  /\ handler = Idle
  /\ runs[r] = "absent"
  /\ runs' = [runs EXCEPT ![r] = "running"]
  /\ pipeline' = [pipeline EXCEPT ![r].pc = "start"]
  /\ UNCHANGED <<issues, threads, messages, actions, handler, purged, requests,
                 faults>>

(* _post_run_event: the run's thread, the message and its action in one    *)
(* statement; the first one also clears the run's issues.                  *)
RunEvent(r, action) ==
  /\ Room
  /\ threads' = Ensured(threads, RunThread(r))
  /\ actions' = actions \union {<<RunThread(r), action>>}
  /\ UNCHANGED messages

Start(r) ==
  /\ At(r, "start")
  /\ RunEvent(r, "run_started")
  /\ issues' = [issues EXCEPT ![r] = "none"]
  /\ To(r, "raise")
  /\ UNCHANGED <<runs, faults>>
  /\ UNCHANGED others

(* The body of buffered_writes: the issues are inserted at once (the       *)
(* foreign key wants the run's row), the agents' messages and actions go   *)
(* to the buffer.  Validation has found an issue or none.                  *)
Buffer(r, ms, as) ==
  [pipeline[r] EXCEPT !.messages = @ \union ms, !.actions = @ \union as]

Raise(r) ==
  /\ At(r, "raise")
  /\ \/ /\ Exists(r)
        /\ issues' = [issues EXCEPT ![r] = "open"]
        /\ pipeline' = [pipeline EXCEPT ![r] =
             [Buffer(r, {}, {<<RunThread(r), "exceptions_created">>})
                EXCEPT !.pc = "discuss"]]
     \/ /\ UNCHANGED issues
        /\ To(r, "discuss")
  /\ UNCHANGED <<runs, threads, messages, actions, faults>>
  /\ UNCHANGED others

RaiseRefused(r) ==
  /\ At(r, "raise")
  /\ ~Exists(r)
  /\ pipeline' = [pipeline EXCEPT ![r] =
       [Buffer(r, {}, {<<RunThread(r), "exceptions_created">>})
          EXCEPT !.pc = "upsert", !.failing = TRUE]]
  /\ UNCHANGED <<runs, issues, threads, messages, actions, faults>>
  /\ UNCHANGED others

(* post_validation_summary, and quantify_impact_for_run: the first open    *)
(* issues are narrated, in the model's words or the rule's default, up to  *)
(* MAX_AGENT_MESSAGES_PER_RUN; one message on the run's thread and one     *)
(* action of the run stand for the open issues past it.                    *)
ToldOf(r, narrated, capped) ==
  {<<RunThread(r), "summary">>}
    \union IF narrated THEN {<<IssueThread(r), "impact">>} ELSE {}
    \union IF capped THEN {<<RunThread(r), "capped">>} ELSE {}

LoggedOf(r, narrated, capped) ==
  {<<RunThread(r), "validation_summary">>}
    \union IF narrated THEN {<<IssueThread(r), "impact_narrative">>} ELSE {}
    \union IF capped THEN {<<RunThread(r), "impact_capped">>} ELSE {}

(* The issue in view is open and narrated, or open and past the cap, or    *)
(* not open; beside it other issues may be past the cap.                   *)
Discussion(r, narrated, capped) ==
  /\ narrated => issues[r] = "open"
  /\ capped => issues[r] # "none"
  /\ issues[r] = "open" => narrated \/ capped

Discuss(r) ==
  /\ At(r, "discuss")
  /\ \E narrated, capped \in BOOLEAN :
       /\ Discussion(r, narrated, capped)
       /\ pipeline' = [pipeline EXCEPT ![r] =
            [Buffer(r, ToldOf(r, narrated, capped), LoggedOf(r, narrated, capped))
               EXCEPT !.pc = "upsert"]]
  /\ UNCHANGED <<runs, issues, threads, messages, actions, faults>>
  /\ UNCHANGED others

(* The body may fail at any statement; its exception passes through the    *)
(* context manager, which flushes what was buffered so far.                *)
BodyFails(r) ==
  /\ pipeline[r].pc \in {"raise", "discuss"}
  /\ Fault
  /\ pipeline' = [pipeline EXCEPT ![r].pc = "upsert", ![r].failing = TRUE]
  /\ UNCHANGED <<runs, issues, threads, messages, actions>>
  /\ UNCHANGED others

(* WriteBuffer.flush: threads, then messages, then actions.                *)
Upserted(r) ==
  LET as == {m[1] : m \in pipeline[r].messages}
      one == IF IssueThread(r) \in as THEN Ensured(threads, IssueThread(r))
             ELSE threads
  IN  IF RunThread(r) \in as THEN Ensured(one, RunThread(r)) ELSE one

FlushThreads(r) ==
  /\ At(r, "upsert")
  /\ Room
  /\ threads' = Upserted(r)
  /\ pipeline' = [pipeline EXCEPT ![r].pc = "messages",
                                  ![r].ids = Upserted(r).id]
  /\ UNCHANGED <<runs, issues, messages, actions, faults>>
  /\ UNCHANGED others

(* The rows of discussions the buffered messages refer to.                 *)
Referred(r) ==
  {<<m[1], pipeline[r].ids[m[1]]>> : m \in pipeline[r].messages}

Referable(r) == \A x \in Referred(r) : threads.id[x[1]] = x[2]

Inserted(r) ==
  LET n(t, k) == \E m \in pipeline[r].messages :
                   pipeline[r].ids[m[1]] = t /\ m[2] = k
  IN  [t \in ThreadIds |-> [k \in Kinds |->
         IF n(t, k) /\ messages[t][k] < 2 THEN messages[t][k] + 1
         ELSE messages[t][k]]]

FlushMessages(r) ==
  /\ At(r, "messages")
  /\ Referable(r)
  /\ messages' = Inserted(r)
  /\ To(r, "actions")
  /\ UNCHANGED <<runs, issues, threads, actions, faults>>
  /\ UNCHANGED others

After(r) == IF pipeline[r].failing THEN "fail" ELSE "complete"

FlushActions(r) ==
  /\ At(r, "actions")
  /\ actions' = actions \union pipeline[r].actions
  /\ To(r, After(r))
  /\ UNCHANGED <<runs, issues, threads, messages, faults>>
  /\ UNCHANGED others

(* A thread deleted since the upsert fails the insert by its foreign key.  *)
FlushRefused(r) ==
  /\ At(r, "messages")
  /\ ~Referable(r)
  /\ To(r, "fail")
  /\ UNCHANGED <<runs, issues, threads, messages, actions, faults>>
  /\ UNCHANGED others

(* Definitions marked "Slip" are changes a later edit could make to the    *)
(* code.  Nothing uses them: they show which property notices which slip.  *)
(* Slip: the exception of a failed flush is logged and swallowed.          *)
FlushSwallowed(r) ==
  /\ pipeline[r].pc \in {"upsert", "messages", "actions"}
  /\ Fault
  /\ To(r, After(r))
  /\ UNCHANGED <<runs, issues, threads, messages, actions>>
  /\ UNCHANGED others

(* Slip: execute_many tries again, as execute does.                        *)
FlushRetried(r) ==
  /\ At(r, "messages")
  /\ Referable(r)
  /\ Fault
  /\ messages' = Inserted(r)
  /\ UNCHANGED <<runs, issues, threads, actions, pipeline>>
  /\ UNCHANGED others

(* A statement of the flush fails, or the messages are stored and the      *)
(* acknowledgement is lost.                                                *)
FlushFails(r) ==
  /\ pipeline[r].pc \in {"upsert", "messages", "actions"}
  /\ Fault
  /\ messages' \in IF At(r, "messages") /\ Referable(r)
                   THEN {messages, Inserted(r)} ELSE {messages}
  /\ To(r, "fail")
  /\ UNCHANGED <<runs, issues, threads, actions>>
  /\ UNCHANGED others

(* update_run and the finishing event; past completion a failure still     *)
(* lands in the handler that marks the run failed.                         *)
Marked(r, s) == IF Exists(r) THEN [runs EXCEPT ![r] = s] ELSE runs

Complete(r) ==
  /\ At(r, "complete")
  /\ runs' = Marked(r, "completed")
  /\ To(r, "finish")
  /\ UNCHANGED <<issues, threads, messages, actions, faults>>
  /\ UNCHANGED others

Finish(r) ==
  /\ At(r, "finish")
  /\ RunEvent(r, "run_finished")
  /\ pipeline' = [pipeline EXCEPT ![r] = Gone]
  /\ UNCHANGED <<runs, issues, faults>>
  /\ UNCHANGED others

EndFails(r) ==
  /\ pipeline[r].pc \in {"complete", "finish"}
  /\ Fault
  /\ To(r, "fail")
  /\ UNCHANGED <<runs, issues, threads, messages, actions>>
  /\ UNCHANGED others

MarkFailed(r) ==
  /\ At(r, "fail")
  /\ runs' = Marked(r, "failed")
  /\ To(r, "failed")
  /\ UNCHANGED <<issues, threads, messages, actions, faults>>
  /\ UNCHANGED others

ReportFailed(r) ==
  /\ At(r, "failed")
  /\ RunEvent(r, "run_failed")
  /\ pipeline' = [pipeline EXCEPT ![r] = Gone]
  /\ UNCHANGED <<runs, issues, faults>>
  /\ UNCHANGED others

(* A failure outside the try block, or in its handler, ends the thread.    *)
ThreadDies(r) ==
  /\ pipeline[r].pc \in {"start", "fail", "failed"}
  /\ Fault
  /\ pipeline' = [pipeline EXCEPT ![r] = Gone]
  /\ UNCHANGED <<runs, issues, threads, messages, actions>>
  /\ UNCHANGED others

Pipeline(r) ==
  \/ Start(r) \/ Raise(r) \/ RaiseRefused(r) \/ Discuss(r)
  \/ FlushThreads(r) \/ FlushMessages(r) \/ FlushRefused(r) \/ FlushActions(r)
  \/ Complete(r) \/ Finish(r) \/ MarkFailed(r) \/ ReportFailed(r)

PipelineFaults(r) ==
  BodyFails(r) \/ FlushFails(r) \/ EndFails(r) \/ ThreadDies(r)

-----------------------------------------------------------------------------
(* Requests.                                                               *)
NewRequest ==
  /\ handler = Idle
  /\ requests < MaxRequests
  /\ requests' = requests + 1

kept == <<pipeline, faults>>

(* POST to a thread: the message is left out, its thread is not; the reply *)
(* (get_messages) makes sure of the thread again.  The page of a run or an *)
(* issue that exists does the same.                                        *)
OpenThread(a) ==
  /\ NewRequest
  /\ Room
  /\ threads' = Ensured(threads, a)
  /\ UNCHANGED <<runs, issues, messages, actions, handler, purged>>
  /\ UNCHANGED kept

(* The Manager decides an issue, which leaves a message in its thread.     *)
CloseIssue(r) ==
  /\ handler = Idle
  /\ issues[r] = "open"
  /\ Room
  /\ issues' = [issues EXCEPT ![r] = "closed"]
  /\ threads' = Ensured(threads, IssueThread(r))
  /\ UNCHANGED <<runs, messages, actions, handler, purged, requests>>
  /\ UNCHANGED kept

(* delete_discussion_by_anchor: the messages, then the row.                *)
DeleteThread(a) ==
  /\ NewRequest
  /\ threads.id[a] # 0
  /\ messages' = Emptied({threads.id[a]})
  /\ handler' = [Idle EXCEPT !.pc = "delete_thread", !.thread = threads.id[a]]
  /\ UNCHANGED <<runs, issues, threads, actions, purged>>
  /\ UNCHANGED kept

DeleteDiscussion ==
  /\ handler.pc = "delete_thread"
  /\ threads' = Without(threads,
                        {a \in Anchors : threads.id[a] = handler.thread})
  /\ messages' = Emptied({handler.thread})
  /\ handler' = Idle
  /\ UNCHANGED <<runs, issues, actions, purged, requests>>
  /\ UNCHANGED kept

(* delete_run, statement by statement.  The threads of its issues are      *)
(* found through the exceptions table.                                     *)
Owned(r) == IF issues[r] = "none" THEN {RunThread(r)} ELSE RunAnchors(r)

OwnedIds(r) == {threads.id[a] : a \in Owned(r)}

Step(pc) == handler' = [handler EXCEPT !.pc = pc]

DeleteRun(r) ==
  /\ NewRequest
  /\ Exists(r)
  /\ messages' = Emptied(OwnedIds(r))
  /\ handler' = [Idle EXCEPT !.pc = "delete_discussions", !.run = r]
  /\ purged' = purged \union {r}
  /\ UNCHANGED <<runs, issues, threads, actions>>
  /\ UNCHANGED kept

DeleteDiscussions(r) ==
  /\ handler.pc = "delete_discussions"
  /\ threads' = Without(threads, Owned(r))
  /\ messages' = Emptied(OwnedIds(r))
  /\ Step("delete_actions")
  /\ UNCHANGED <<runs, issues, actions, purged, requests>>
  /\ UNCHANGED kept

DeleteActions(r) ==
  /\ handler.pc = "delete_actions"
  /\ actions' = {x \in actions : x[1] \notin Owned(r)}
  /\ Step("delete_issues")
  /\ UNCHANGED <<runs, issues, threads, messages, purged, requests>>
  /\ UNCHANGED kept

DeleteIssues(r) ==
  /\ handler.pc = "delete_issues"
  /\ issues' = [issues EXCEPT ![r] = "none"]
  /\ Step("delete_publications")
  /\ UNCHANGED <<runs, threads, messages, actions, purged, requests>>
  /\ UNCHANGED kept

(* The row goes last, and by its foreign keys what was added meanwhile.    *)
DeleteRow(r) ==
  /\ handler.pc = "delete_row"
  /\ runs' = [runs EXCEPT ![r] = "deleted"]
  /\ issues' = [issues EXCEPT ![r] = "none"]
  /\ handler' = Idle
  /\ UNCHANGED <<threads, messages, actions, purged, requests>>
  /\ UNCHANGED kept

RequestFails ==
  /\ handler # Idle
  /\ Fault
  /\ handler' = Idle
  /\ UNCHANGED <<runs, issues, threads, messages, actions, pipeline, purged,
                 requests>>

Serve ==
  \/ DeleteDiscussion
  \/ \E r \in {handler.run} \ {Null} :
       \/ DeleteDiscussions(r) \/ DeleteActions(r) \/ DeleteIssues(r)

Request ==
  \/ \E r \in Runs : Trigger(r) \/ CloseIssue(r) \/ DeleteRun(r)
  \/ \E a \in Anchors : OpenThread(a) \/ DeleteThread(a)

(* The process restarts: its threads are gone, and the boot fails the runs *)
(* that were running.                                                      *)
ThreadsReboot ==
  /\ Fault
  /\ runs' = [r \in Runs |-> IF runs[r] = "running" THEN "failed" ELSE runs[r]]
  /\ pipeline' = [r \in Runs |-> Gone]
  /\ handler' = Idle
  /\ UNCHANGED <<issues, threads, messages, actions, purged, requests>>

-----------------------------------------------------------------------------
(* Every open issue of the run is accounted for in the audit trail S: it   *)
(* has its narrative there, or the run's entry on the issues past the cap. *)
Explained(r, issue, S) ==
  /\ <<RunThread(r), "validation_summary">> \in S
  /\ issue = "open" => \/ <<IssueThread(r), "impact_narrative">> \in S
                       \/ <<RunThread(r), "impact_capped">> \in S

(* A run is announced as finished only once the agents' account of it is   *)
(* in the audit trail: whatever fails between the buffer and the tables,   *)
(* and whichever threads are deleted meanwhile, a run with an open issue   *)
(* that is neither narrated nor among those reported as past the cap is    *)
(* never reported done.  (Deleting the run deletes both.)                  *)
FinishedIsExplained ==
  \A r \in Runs \ purged :
    <<RunThread(r), "run_finished">> \in actions => Explained(r, issues[r], actions)

(* The discussion stage is written once: no failing statement, retry or    *)
(* lost acknowledgement puts a summary, a narrative or the note on the cap *)
(* twice in a thread.                                                      *)
ToldOnce == \A t \in ThreadIds, k \in Told : messages[t][k] <= 1
=============================================================================
