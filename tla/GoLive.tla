------------------------------- MODULE GoLive -------------------------------
(***************************************************************************)
(* The go-live gate of the revenue platform (revenue_data_reliability):    *)
(* the validation pipeline, the Data Issues page and the publication of a  *)
(* run, over the PostgreSQL tables they share.                             *)
(*                                                                         *)
(* Concurrency.  Every statement of the backend commits on its own         *)
(* (db/connection.py: execute), so one action here is one statement, or a  *)
(* statement with the reads it was decided on where nothing in between     *)
(* could tell the difference.  The handlers are coroutines that call the   *)
(* database without awaiting: they exclude one another (variable handler), *)
(* but not the pipeline threads, which run beside them.                    *)
(*                                                                         *)
(* Data.  A dataset is immutable, so each rule has one verdict on it:      *)
(* "pass", "past" when it fails in closed periods only, "current" when it  *)
(* fails in the latest one.  issues[r][v] is the row of the exceptions     *)
(* table that rule v opened in run r.                                      *)
(***************************************************************************)
EXTENDS Naturals

CONSTANTS Runs,       \* run ids the database may draw; never reused
          Datasets,   \* registered datasets
          Rules,      \* validation rules
          ReconRule,  \* VAL_RECON_BILLINGS_GL
          None,
          MaxFaults,  \* crashes, aborted handlers and failed threads
          Overrun     \* may a live pipeline take more than ten minutes

ASSUME GoLiveAssumption ==
  /\ ReconRule \in Rules
  /\ MaxFaults \in Nat
  /\ Overrun \in BOOLEAN
  /\ None \notin Runs \union Rules

VARIABLES verdicts,     \* what each rule says of each dataset
          runs,         \* runs table
          aged,         \* runs started more than ten minutes ago
          validations,  \* runs with rows in the validations table
          issues,       \* exceptions table, by run and rule
          quarantines,  \* quarantines table: issues whose records are excluded
          publications, \* runs with a publications row
          pipeline,     \* where each run's pipeline thread is
          handler,      \* the request handler that has the event loop
          faults        \* faults so far

vars == <<verdicts, runs, aged, validations, issues, quarantines,
          publications, pipeline, handler, faults>>

Open == {"open", "awaiting_approval"}
Closed == {"approved", "resolved", "dismissed"}

Stages == {"none", "start", "validate", "reconcile", "raise", "complete",
           "supersede", "finish"}

Steps == {"idle", "next_issue", "quarantine", "resolve", "de_resolve",
          "propose", "unpublish", "point", "record",
          "delete_issues", "delete_audit", "delete_run"}

RunRow ==
  [status    : {"absent", "running", "completed", "failed", "rejected",
                "deleted"},
   dataset   : Datasets \union {None},
   approved  : BOOLEAN,
   published : BOOLEAN]

AbsentRun ==
  [status |-> "absent", dataset |-> None, approved |-> FALSE,
   published |-> FALSE]

HandlerState ==
  [step : Steps, run : Runs \union {None}, rule : Rules \union {None},
   todo : SUBSET (Runs \X Rules)]

Idle == [step |-> "idle", run |-> None, rule |-> None, todo |-> {}]

Init ==
  /\ verdicts \in [Datasets -> [Rules -> {"pass", "past", "current"}]]
  /\ runs = [r \in Runs |-> AbsentRun]
  /\ aged = {}
  /\ validations = {}
  /\ issues = [r \in Runs |-> [v \in Rules |-> "none"]]
  /\ quarantines = {}
  /\ publications = {}
  /\ pipeline = [r \in Runs |-> "none"]
  /\ handler = Idle
  /\ faults = 0

Exists(r) == runs[r].status \notin {"absent", "deleted"}
SameDataset(q, r) == runs[q].dataset = runs[r].dataset

(* Definitions marked "Faulty" are the slips a change to the code could    *)
(* make.  Nothing uses them: they show which property notices which slip.  *)

(* Faulty: an issue that awaits approval no longer counts as open.         *)
HasUntouchedIssue(r) == \E v \in Rules : issues[r][v] = "open"

HasOpenIssue(r) == \E v \in Rules : issues[r][v] \in Open

WithStatus(r, s) ==
  IF Exists(r) THEN [runs EXCEPT ![r].status = s] ELSE runs

-----------------------------------------------------------------------------
(* pages._trigger_validation: a recent running run is the single-run lock.  *)
Blocking(r) == runs[r].status = "running" /\ r \notin aged

NewRun(d) == [AbsentRun EXCEPT !.status = "running", !.dataset = d]

Trigger(r, d) ==
  /\ handler = Idle
  /\ runs[r].status = "absent"
  /\ \A q \in Runs : ~Blocking(q)
  /\ runs' = [runs EXCEPT ![r] = NewRun(d)]
  /\ pipeline' = [pipeline EXCEPT ![r] = "start"]
  /\ UNCHANGED <<verdicts, aged, validations, issues, quarantines,
                 publications, handler, faults>>

(* The commit of create_run's INSERT is lost on the wire and _with_retry   *)
(* inserts again: q is a running run without a pipeline thread.            *)
TriggerRetried(r, q, d) ==
  /\ handler = Idle
  /\ faults < MaxFaults
  /\ r # q
  /\ runs[r].status = "absent"
  /\ runs[q].status = "absent"
  /\ \A p \in Runs : ~Blocking(p)
  /\ runs' = [runs EXCEPT ![r] = NewRun(d), ![q] = NewRun(d)]
  /\ pipeline' = [pipeline EXCEPT ![r] = "start"]
  /\ faults' = faults + 1
  /\ UNCHANGED <<verdicts, aged, validations, issues, quarantines,
                 publications, handler>>

(* Ten minutes pass.                                                       *)
AgeOut(r) ==
  /\ runs[r].status = "running"
  /\ r \notin aged
  /\ Overrun \/ pipeline[r] = "none"
  /\ aged' = aged \union {r}
  /\ UNCHANGED <<verdicts, runs, validations, issues, quarantines,
                 publications, pipeline, handler, faults>>

-----------------------------------------------------------------------------
(* orchestrator._run_pipeline, statement by statement.  A step that inserts *)
(* rows for a run that was deleted fails on the foreign key.               *)
Advance(r, from, to) ==
  /\ pipeline[r] = from
  /\ pipeline' = [pipeline EXCEPT ![r] = to]

(* The start event also clears what the run raised before.                 *)
StartEvent(r) ==
  /\ Exists(r)
  /\ Advance(r, "start", "validate")
  /\ issues' = [issues EXCEPT ![r] = [v \in Rules |-> "none"]]
  /\ UNCHANGED <<verdicts, runs, aged, validations, quarantines,
                 publications, handler, faults>>

(* validations.execute_all_rules ends in store_validations.                *)
StoreValidations(r) ==
  /\ Exists(r)
  /\ Advance(r, "validate", "reconcile")
  /\ validations' = validations \union {r}
  /\ UNCHANGED <<verdicts, runs, aged, issues, quarantines, publications,
                 handler, faults>>

(* One issue per failed rule; closed periods are recorded as resolved.     *)
Verdict(r, v) == verdicts[runs[r].dataset][v]

Raised(r, V) ==
  [v \in Rules |->
     IF v \notin V \/ Verdict(r, v) = "pass" THEN issues[r][v]
     ELSE IF Verdict(r, v) = "current" THEN "open" ELSE "resolved"]

RaiseIssues(r, V) ==
  /\ issues' = [issues EXCEPT ![r] = Raised(r, V)]
  /\ UNCHANGED <<verdicts, runs, aged, validations, quarantines,
                 publications, handler, faults>>

(* reconciliations.persist_reconciliation *)
PersistReconciliation(r) ==
  /\ Exists(r)
  /\ Advance(r, "reconcile", "raise")
  /\ RaiseIssues(r, {ReconRule})

(* The other rules' issues; with none of them there is no INSERT to fail.  *)
OtherRules == Rules \ {ReconRule}
NothingToRaise(r) == \A v \in OtherRules : Verdict(r, v) = "pass"

InsertExceptions(r) ==
  /\ Advance(r, "raise", "complete")
  /\ Exists(r) \/ NothingToRaise(r)
  /\ RaiseIssues(r, OtherRules)

(* update_run is unconditional: it finds the row by its id alone.          *)
CompleteRun(r) ==
  /\ Advance(r, "complete", "supersede")
  /\ runs' = WithStatus(r, "completed")
  /\ UNCHANGED <<verdicts, aged, validations, issues, quarantines,
                 publications, handler, faults>>

(* orchestrator._close_superseded_exceptions *)
Superseded(q, r) == q # r /\ Exists(q) /\ SameDataset(q, r)

(* Faulty: whatever is not resolved yet is closed.                         *)
CloseUnresolved(r) ==
  /\ Advance(r, "supersede", "finish")
  /\ issues' =
       [q \in Runs |-> [v \in Rules |->
          IF Superseded(q, r) /\ issues[q][v] # "none"
            THEN "resolved" ELSE issues[q][v]]]
  /\ UNCHANGED <<verdicts, runs, aged, validations, quarantines,
                 publications, handler, faults>>

CloseSuperseded(r) ==
  /\ Advance(r, "supersede", "finish")
  /\ issues' =
       [q \in Runs |-> [v \in Rules |->
          IF Superseded(q, r) /\ issues[q][v] \notin Closed \union {"none"}
            THEN "resolved" ELSE issues[q][v]]]
  /\ UNCHANGED <<verdicts, runs, aged, validations, quarantines,
                 publications, handler, faults>>

FinishEvent(r) ==
  /\ Advance(r, "finish", "none")
  /\ UNCHANGED <<verdicts, runs, aged, validations, issues, quarantines,
                 publications, handler, faults>>

(* The except clauses record the failure; when the database is gone the    *)
(* thread ends without a trace.                                            *)
PipelineFails(r) ==
  /\ pipeline[r] # "none"
  /\ faults < MaxFaults
  /\ pipeline' = [pipeline EXCEPT ![r] = "none"]
  /\ runs' \in {runs, WithStatus(r, "failed")}
  /\ faults' = faults + 1
  /\ UNCHANGED <<verdicts, aged, validations, issues, quarantines,
                 publications, handler>>

(* The run was deleted: no row to load, or no row to refer to.             *)
PipelineOrphaned(r) ==
  /\ ~Exists(r)
  /\ \/ pipeline[r] \in {"start", "validate", "reconcile"}
     \/ pipeline[r] = "raise" /\ ~NothingToRaise(r)
  /\ pipeline' = [pipeline EXCEPT ![r] = "none"]
  /\ UNCHANGED <<verdicts, runs, aged, validations, issues, quarantines,
                 publications, handler, faults>>

Pipeline(r) ==
  \/ StartEvent(r)
  \/ StoreValidations(r)
  \/ PersistReconciliation(r)
  \/ InsertExceptions(r)
  \/ CompleteRun(r)
  \/ CloseSuperseded(r)
  \/ FinishEvent(r)
  \/ PipelineOrphaned(r)

-----------------------------------------------------------------------------
(* The Validation page sweeps and reconciles, a run's page reconciles.     *)
(* Faulty: the age comparison is the wrong way round.                      *)
SweptYoung == {r \in Runs : runs[r].status = "running" /\ r \notin aged}

Swept == {r \in Runs : runs[r].status = "running" /\ r \in aged}

(* runs.reconcile_failed_run: stored validations count as a finished run.  *)
Reconciled(row, r) ==
  IF row.status = "failed" /\ r \in validations
    THEN [row EXCEPT !.status = "completed"] ELSE row

ViewRuns(d) ==
  /\ handler = Idle
  /\ runs' =
       [r \in Runs |->
          LET row == IF r \in Swept THEN [runs[r] EXCEPT !.status = "failed"]
                                    ELSE runs[r]
          IN IF row.dataset = d THEN Reconciled(row, r) ELSE row]
  /\ UNCHANGED <<verdicts, aged, validations, issues, quarantines,
                 publications, pipeline, handler, faults>>

ViewRun(r) ==
  /\ handler = Idle
  /\ runs' = [runs EXCEPT ![r] = Reconciled(@, r)]
  /\ UNCHANGED <<verdicts, aged, validations, issues, quarantines,
                 publications, pipeline, handler, faults>>

-----------------------------------------------------------------------------
(* The Manager executes the fix of one issue or of every open one, of one  *)
(* run or of all: pages._quarantine_and_resolve for each.                  *)
OpenIssues(R) ==
  {i \in R \X Rules : /\ issues[i[1]][i[2]] \in Open
                      /\ Exists(i[1]) \/ R = Runs}

ExecuteFixes(I) ==
  /\ handler = Idle
  /\ handler' = [Idle EXCEPT !.step = "next_issue", !.todo = I]
  /\ UNCHANGED <<verdicts, runs, aged, validations, issues, quarantines,
                 publications, pipeline, faults>>

ApproveException(r, v) ==
  /\ issues[r][v] \notin Closed \union {"none"}
  /\ ExecuteFixes({<<r, v>>})

QuarantineAll(R) == ExecuteFixes(OpenIssues(R))

(* The issue is read again and skipped if it was closed meanwhile.         *)
TakeIssue(r, v) ==
  /\ handler.step = "next_issue"
  /\ <<r, v>> \in handler.todo
  /\ LET rest == handler.todo \ {<<r, v>>} IN
     IF issues[r][v] \in Closed \union {"none"}
       THEN /\ handler' = [handler EXCEPT !.todo = rest]
            /\ UNCHANGED issues
       ELSE /\ handler' = [step |-> "quarantine", run |-> r, rule |-> v,
                           todo |-> rest]
            /\ issues' = [issues EXCEPT ![r][v] = "approved"]
  /\ UNCHANGED <<verdicts, runs, aged, validations, quarantines,
                 publications, pipeline, faults>>

(* teams/de.py: execute_quarantine. *)
QuarantineRecords ==
  /\ handler.step = "quarantine"
  /\ quarantines' = quarantines \union {<<handler.run, handler.rule>>}
  /\ handler' = [handler EXCEPT !.step = "resolve"]
  /\ UNCHANGED <<verdicts, runs, aged, validations, issues, publications,
                 pipeline, faults>>

Resolved ==
  [issues EXCEPT ![handler.run][handler.rule] =
     IF @ = "none" THEN "none" ELSE "resolved"]

ResolveIssue ==
  /\ handler.step = "resolve"
  /\ issues' = Resolved
  /\ handler' = [Idle EXCEPT !.step = "next_issue", !.todo = handler.todo]
  /\ UNCHANGED <<verdicts, runs, aged, validations, quarantines,
                 publications, pipeline, faults>>

FixesDone ==
  /\ handler.step = "next_issue"
  /\ handler.todo = {}
  /\ handler' = Idle
  /\ UNCHANGED <<verdicts, runs, aged, validations, issues, quarantines,
                 publications, pipeline, faults>>

(* pages.quarantine_exception: the Data Engineer's own button.             *)
DEQuarantine(r, v) ==
  /\ handler = Idle
  /\ issues[r][v] \notin Closed \union {"none"}
  /\ quarantines' = quarantines \union {<<r, v>>}
  /\ handler' = [Idle EXCEPT !.step = "de_resolve", !.run = r, !.rule = v]
  /\ UNCHANGED <<verdicts, runs, aged, validations, issues, publications,
                 pipeline, faults>>

DEResolve ==
  /\ handler.step = "de_resolve"
  /\ issues' = Resolved
  /\ handler' = Idle
  /\ UNCHANGED <<verdicts, runs, aged, validations, quarantines,
                 publications, pipeline, faults>>

(* pages.request_exception_fix reads the status, then the model writes the *)
(* proposal, then the update is unconditional.                             *)
RequestFix(r, v) ==
  /\ handler = Idle
  /\ issues[r][v] = "open"
  /\ handler' = [Idle EXCEPT !.step = "propose", !.run = r, !.rule = v]
  /\ UNCHANGED <<verdicts, runs, aged, validations, issues, quarantines,
                 publications, pipeline, faults>>

ProposeRemediation ==
  /\ handler.step = "propose"
  /\ issues' = [issues EXCEPT ![handler.run][handler.rule] =
                  IF @ = "none" THEN "none" ELSE "awaiting_approval"]
  /\ handler' = Idle
  /\ UNCHANGED <<verdicts, runs, aged, validations, quarantines,
                 publications, pipeline, faults>>

Dismiss(I) ==
  /\ handler = Idle
  /\ issues' = [r \in Runs |-> [v \in Rules |->
                  IF <<r, v>> \in I THEN "dismissed" ELSE issues[r][v]]]
  /\ UNCHANGED <<verdicts, runs, aged, validations, quarantines,
                 publications, pipeline, handler, faults>>

(* Faulty: an issue may be dismissed after its fix.                        *)
DismissAnyException(r, v) == issues[r][v] # "none" /\ Dismiss({<<r, v>>})

DismissException(r, v) == issues[r][v] \in Open /\ Dismiss({<<r, v>>})

DismissAll(R) == Dismiss(OpenIssues(R))

-----------------------------------------------------------------------------
(* pages.approve_run: only a completed run without open issues passes.     *)
GatePasses(r) == runs[r].status = "completed" /\ ~HasOpenIssue(r)

(* Faulty: the approval is not recorded; rejected runs keep the pointer.   *)
ApproveRunUnrecorded(r) ==
  /\ handler = Idle
  /\ GatePasses(r)
  /\ r \notin publications
  /\ handler' = [Idle EXCEPT !.step = "unpublish", !.run = r]
  /\ UNCHANGED <<verdicts, runs, aged, validations, issues, quarantines,
                 publications, pipeline, faults>>

UnpublishCompleted ==
  /\ handler.step = "unpublish"
  /\ runs' = [q \in Runs |->
                IF /\ q # handler.run
                   /\ runs[q].status = "completed"
                   /\ SameDataset(q, handler.run)
                  THEN [runs[q] EXCEPT !.published = FALSE] ELSE runs[q]]
  /\ handler' = [handler EXCEPT !.step = "point"]
  /\ UNCHANGED <<verdicts, aged, validations, issues, quarantines,
                 publications, pipeline, faults>>

(* publications.publish_run returns the existing publication, if there is  *)
(* one, and changes nothing; otherwise runs.approve_run comes first.       *)
ApproveRun(r) ==
  /\ handler = Idle
  /\ GatePasses(r)
  /\ r \notin publications
  /\ runs' = [runs EXCEPT ![r].approved = TRUE]
  /\ handler' = [Idle EXCEPT !.step = "unpublish", !.run = r]
  /\ UNCHANGED <<verdicts, aged, validations, issues, quarantines,
                 publications, pipeline, faults>>

UnpublishOthers ==
  /\ handler.step = "unpublish"
  /\ runs' = [q \in Runs |->
                IF q # handler.run /\ Exists(q) /\ SameDataset(q, handler.run)
                  THEN [runs[q] EXCEPT !.published = FALSE] ELSE runs[q]]
  /\ handler' = [handler EXCEPT !.step = "point"]
  /\ UNCHANGED <<verdicts, aged, validations, issues, quarantines,
                 publications, pipeline, faults>>

SetPublished ==
  /\ handler.step = "point"
  /\ runs' = [runs EXCEPT ![handler.run].published = TRUE]
  /\ handler' = [handler EXCEPT !.step = "record"]
  /\ UNCHANGED <<verdicts, aged, validations, issues, quarantines,
                 publications, pipeline, faults>>

RecordPublication ==
  /\ handler.step = "record"
  /\ publications' = publications \union {handler.run}
  /\ handler' = Idle
  /\ UNCHANGED <<verdicts, runs, aged, validations, issues, quarantines,
                 pipeline, faults>>

(* pages.reject_run asks for no persona and no status.                     *)
RejectRun(r) ==
  /\ handler = Idle
  /\ runs' = WithStatus(r, "rejected")
  /\ UNCHANGED <<verdicts, aged, validations, issues, quarantines,
                 publications, pipeline, handler, faults>>

(* runs.delete_run, in the order of its statements; threads and messages   *)
(* are left out.                                                           *)
DeleteRun(r) ==
  /\ handler = Idle
  /\ Exists(r)
  /\ validations' = validations \ {r}
  /\ handler' = [Idle EXCEPT !.step = "delete_issues", !.run = r]
  /\ UNCHANGED <<verdicts, runs, aged, issues, quarantines, publications,
                 pipeline, faults>>

DeleteIssues ==
  /\ handler.step = "delete_issues"
  /\ issues' = [issues EXCEPT ![handler.run] = [v \in Rules |-> "none"]]
  /\ handler' = [handler EXCEPT !.step = "delete_audit"]
  /\ UNCHANGED <<verdicts, runs, aged, validations, quarantines,
                 publications, pipeline, faults>>

DeleteAudit ==
  /\ handler.step = "delete_audit"
  /\ quarantines' = {i \in quarantines : i[1] # handler.run}
  /\ publications' = publications \ {handler.run}
  /\ runs' = [runs EXCEPT ![handler.run].approved = FALSE]
  /\ handler' = [handler EXCEPT !.step = "delete_run"]
  /\ UNCHANGED <<verdicts, aged, validations, issues, pipeline, faults>>

(* Validations go with the run (ON DELETE CASCADE); an issue raised since  *)
(* DeleteIssues stays, without a run (ON DELETE SET NULL).                 *)
DeleteRow ==
  /\ handler.step = "delete_run"
  /\ runs' = [runs EXCEPT ![handler.run].status = "deleted",
                          ![handler.run].published = FALSE]
  /\ validations' = validations \ {handler.run}
  /\ handler' = Idle
  /\ UNCHANGED <<verdicts, aged, issues, quarantines, publications, pipeline,
                 faults>>

-----------------------------------------------------------------------------
(* A statement of the handler raises: what it did before stays.            *)
HandlerFails ==
  /\ handler # Idle
  /\ faults < MaxFaults
  /\ handler' = Idle
  /\ faults' = faults + 1
  /\ UNCHANGED <<verdicts, runs, aged, validations, issues, quarantines,
                 publications, pipeline>>

(* The process dies and boots: the threads are gone, and the lifespan      *)
(* sweeps every running run (sweep_stale_runs(0)).                         *)
Reboot ==
  /\ faults < MaxFaults
  /\ handler' = Idle
  /\ pipeline' = [r \in Runs |-> "none"]
  /\ runs' = [r \in Runs |->
                IF runs[r].status = "running"
                  THEN [runs[r] EXCEPT !.status = "failed"] ELSE runs[r]]
  /\ faults' = faults + 1
  /\ UNCHANGED <<verdicts, aged, validations, issues, quarantines,
                 publications>>

Handling ==
  \/ \E r \in Runs, v \in Rules : TakeIssue(r, v)
  \/ QuarantineRecords \/ ResolveIssue \/ FixesDone
  \/ DEResolve \/ ProposeRemediation
  \/ UnpublishOthers \/ SetPublished \/ RecordPublication
  \/ DeleteIssues \/ DeleteAudit \/ DeleteRow

(* The Data Issues forms name one run or none.                             *)
Scopes == {{r} : r \in Runs} \union {Runs}

Request ==
  \/ \E d \in Datasets, r \in Runs :
       Trigger(r, d) \/ \E q \in Runs : TriggerRetried(r, q, d)
  \/ \E d \in Datasets : ViewRuns(d)
  \/ \E r \in Runs : ViewRun(r) \/ ApproveRun(r) \/ RejectRun(r) \/ DeleteRun(r)
  \/ \E r \in Runs, v \in Rules :
       \/ ApproveException(r, v)
       \/ DEQuarantine(r, v)
       \/ RequestFix(r, v)
       \/ DismissException(r, v)
  \/ \E R \in Scopes : QuarantineAll(R) \/ DismissAll(R)

Next ==
  \/ Request
  \/ Handling
  \/ HandlerFails
  \/ Reboot
  \/ \E r \in Runs : Pipeline(r) \/ PipelineFails(r) \/ AgeOut(r)

Spec == Init /\ [][Next]_vars

(* Threads and handlers are scheduled, the clock runs, and somebody opens  *)
(* the Validation page of every dataset from time to time: that page, not  *)
(* a timer, is what sweeps dead runs.                                      *)
Fairness ==
  /\ \A r \in Runs : WF_vars(Pipeline(r)) /\ WF_vars(AgeOut(r))
  /\ WF_vars(Handling)
  /\ \A d \in Datasets : SF_vars(ViewRuns(d))

FairSpec == Spec /\ Fairness

-----------------------------------------------------------------------------
(* Type correctness of the tables, the threads and the handler.            *)
TypeOK ==
  /\ verdicts \in [Datasets -> [Rules -> {"pass", "past", "current"}]]
  /\ runs \in [Runs -> RunRow]
  /\ aged \subseteq Runs
  /\ validations \subseteq Runs
  /\ issues \in [Runs -> [Rules -> Open \union Closed \union {"none"}]]
  /\ quarantines \subseteq Runs \X Rules
  /\ publications \subseteq Runs
  /\ pipeline \in [Runs -> Stages]
  /\ handler \in HandlerState
  /\ faults \in 0 .. MaxFaults

(* publications.publish_run: exactly one published run per dataset, also   *)
(* when the handler or the process dies between its statements.            *)
OnePublished ==
  \A q, r \in Runs :
    runs[q].published /\ runs[r].published /\ SameDataset(q, r) => q = r

(* A run is never on the dashboard without the Manager's approval row,     *)
(* wherever the publication was cut short; only a deletion that was itself *)
(* cut short removes it, and that one has removed the results first.       *)
PublishedIsApproved ==
  \A r \in Runs :
    runs[r].published /\ r \in validations => runs[r].approved

(* A decision stands: no pipeline, of this run or a later one, and no      *)
(* other request turns a dismissed or an approved issue into anything but  *)
(* its own outcome.                                                        *)
DecisionStands ==
  [][\A r \in Runs, v \in Rules :
       /\ issues[r][v] = "dismissed" => issues'[r][v] \in {"dismissed", "none"}
       /\ issues[r][v] = "approved" =>
            issues'[r][v] \in {"approved", "resolved", "none"}]_vars

Deleting(r) ==
  handler.run = r /\ handler.step \in {"delete_audit", "delete_run"}

(* Without faults and overruns, whatever is published was validated to the *)
(* end: every rule that fails in the latest period has its issue, and the  *)
(* issue was dismissed, fixed, or closed by another run of the dataset.    *)
PublishedIsSettled ==
  \A r \in Runs : runs[r].published /\ ~Deleting(r) =>
    \A v \in Rules : Verdict(r, v) = "current" =>
      \/ issues[r][v] = "dismissed"
      \/ issues[r][v] = "resolved" /\ <<r, v>> \in quarantines
      \/ /\ issues[r][v] = "resolved"
         /\ \E q \in Runs : q # r /\ SameDataset(q, r)

(* Without faults, once no request is in progress the records that are     *)
(* excluded are those of the issues that were fixed: an approved fix was   *)
(* carried out, and dismissed records remain in the published data.        *)
RecordsMatchDecisions ==
  handler = Idle =>
    \A r \in Runs, v \in Rules :
      /\ issues[r][v] # "approved"
      /\ <<r, v>> \in quarantines => issues[r][v] = "resolved"

(* A run does not stay "running" for ever, whether its thread ends, dies   *)
(* silently, or never existed.                                             *)
RunSettles ==
  \A r \in Runs : runs[r].status = "running" ~> runs[r].status # "running"

-----------------------------------------------------------------------------
(* operating-model.md: one data issue per failed rule, so that publication *)
(* is blocked while one is open - of every run the gate lets through.      *)
CompletedHasIssues ==
  \A r \in Runs : runs[r].status = "completed" /\ r \in validations =>
    \A v \in Rules :
      Verdict(r, v) = "current" => issues[r][v] # "none"

(* architecture.md: approving a remediation quarantines the records.       *)
ApprovedIsQuarantined ==
  handler = Idle =>
    \A r \in Runs, v \in Rules :
      issues[r][v] = "approved" => <<r, v>> \in quarantines

(* tasks.md, 26: a single-run lock keeps pipelines from starting twice.    *)
OnePipeline ==
  \A q, r \in Runs : pipeline[q] # "none" /\ pipeline[r] # "none" => q = r
=============================================================================
