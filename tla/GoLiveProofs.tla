---------------------------- MODULE GoLiveProofs ----------------------------
(***************************************************************************)
(* Theorems about the go-live gate, for every set of runs, datasets and    *)
(* rules, every number of faults and pipelines that overrun or not; the    *)
(* last two, which faults can break, are stated without them.              *)
(***************************************************************************)
EXTENDS GoLive, TLAPS

(* A run that was never inserted has left no trace anywhere.               *)
Blank ==
  \A r \in Runs : runs[r].status = "absent" =>
    /\ pipeline[r] = "none"
    /\ ~runs[r].published
    /\ r \notin validations
    /\ \A v \in Rules : issues[r][v] = "none"

(* A pipeline that has not stored its validations yet has nothing to show. *)
Early == {"start", "validate"}

Unproven ==
  \A r \in Runs : pipeline[r] \in Early =>
    /\ r \notin validations
    /\ runs[r].status # "completed"
    /\ ~runs[r].published

(* What a pipeline has not raised yet is not there, so nobody can have     *)
(* decided on it.                                                          *)
Unraised ==
  \A r \in Runs, v \in Rules :
    \/ pipeline[r] \in Early \union {"reconcile"}
    \/ pipeline[r] = "raise" /\ v # ReconRule
    => issues[r][v] = "none"

(* Only an existing run is published.                                      *)
PublishedExists == \A r \in Runs : runs[r].published => Exists(r)

Fixing == {"quarantine", "resolve"}
Answering == {"de_resolve", "propose"}
Publishing == {"unpublish", "point", "record"}
Removing == {"delete_issues", "delete_audit", "delete_run"}

(* What the handler knows of the run and issue it is at work on, whatever  *)
(* pipeline threads did since it read them.                                *)
AtWork ==
  LET r == handler.run
      v == handler.rule
  IN
  /\ handler.step \in Fixing \union Answering \union Publishing \union Removing =>
       r \in Runs
  /\ handler.step \in Fixing \union Answering => v \in Rules
  /\ handler.step \in Fixing => issues[r][v] = "approved"
  /\ handler.step \in Answering => issues[r][v] \in Open \union {"resolved"}
  /\ handler.step \in Publishing =>
       /\ Exists(r)
       /\ runs[r].approved
       /\ pipeline[r] \notin Early
  /\ handler.step = "point" =>
       \A q \in Runs : q # r /\ SameDataset(q, r) => ~runs[q].published
  /\ handler.step \in Removing => ~(r \in validations /\ runs[r].published)

(* The inductive invariant. *)
GInv ==
  /\ TypeOK
  /\ Blank /\ Unproven /\ Unraised
  /\ PublishedExists /\ OnePublished /\ PublishedIsApproved
  /\ AtWork

-----------------------------------------------------------------------------
(* Rows stay rows when the statements of the backend update them.          *)
LEMMA RowUpdates ==
  ASSUME NEW row \in RunRow
  PROVE  /\ \A s \in {"completed", "failed", "rejected", "deleted"} :
              [row EXCEPT !.status = s] \in RunRow
         /\ \A b \in BOOLEAN : [row EXCEPT !.published = b] \in RunRow
         /\ \A b \in BOOLEAN : [row EXCEPT !.approved = b] \in RunRow
         /\ [row EXCEPT !.status = "deleted", !.published = FALSE] \in RunRow
  BY DEF RunRow

(* update_run finds a row by its id alone: it keeps every other column, and *)
(* neither creates nor revives a run.                                      *)
LEMMA WithStatusRows ==
  ASSUME TypeOK, NEW r \in Runs,
         NEW s \in {"completed", "failed", "rejected"}
  PROVE  /\ WithStatus(r, s) \in [Runs -> RunRow]
         /\ \A q \in Runs :
              LET row == WithStatus(r, s)[q] IN
              /\ row.published = runs[q].published
              /\ row.approved = runs[q].approved
              /\ row.dataset = runs[q].dataset
              /\ row.status = "absent" <=> runs[q].status = "absent"
              /\ row.status = "deleted" <=> runs[q].status = "deleted"
              /\ row.status = IF q = r /\ Exists(r) THEN s ELSE runs[q].status
  <1>1. CASE Exists(r)
    <2> DEFINE new == [runs[r] EXCEPT !.status = s]
    <2>1. /\ runs[r] \in RunRow /\ new \in RunRow
          /\ new.published = runs[r].published
          /\ new.approved = runs[r].approved
          /\ new.dataset = runs[r].dataset
          /\ new.status = s
      BY DEF TypeOK, RunRow
    <2>2. WithStatus(r, s) = [runs EXCEPT ![r] = new]
      BY <1>1 DEF WithStatus, TypeOK
    <2>3. QED
      BY <1>1, <2>1, <2>2 DEF TypeOK, Exists
  <1>2. CASE ~Exists(r)
    BY <1>2 DEF WithStatus, TypeOK
  <1>3. QED
    BY <1>1, <1>2

LEMMA NewRows ==
  ASSUME NEW d \in Datasets
  PROVE  /\ NewRun(d) \in RunRow
         /\ NewRun(d).status = "running"
         /\ ~NewRun(d).published
         /\ AbsentRun \in RunRow
  BY DEF NewRun, AbsentRun, RunRow

-----------------------------------------------------------------------------
(* Each operation keeps the invariant.  One lemma per action.              *)
LEMMA TriggerKeeps ==
  ASSUME GInv, NEW r \in Runs, NEW d \in Datasets, Trigger(r, d)
  PROVE  GInv'
  <1>1. TypeOK'
    BY DEF GInv, TypeOK, Trigger, Idle, Blocking, NewRun, AbsentRun, RunRow,
       Open, Closed, Stages, HandlerState, Steps
  <1>2. Blank'
    BY DEF GInv, TypeOK, Blank, Trigger, Idle, Blocking, NewRun, AbsentRun
  <1>3. Unproven'
    BY DEF GInv, TypeOK, Unproven, Blank, Trigger, Idle, Blocking, NewRun,
       AbsentRun, Early
  <1>4. Unraised'
    BY DEF GInv, TypeOK, Unraised, Blank, Trigger, Idle, Blocking, NewRun,
       AbsentRun, Early
  <1>5. PublishedExists'
    BY DEF GInv, TypeOK, PublishedExists, Trigger, Idle, Blocking, NewRun,
       AbsentRun, Exists, SameDataset
  <1>6. OnePublished'
    BY DEF GInv, TypeOK, OnePublished, Trigger, Idle, Blocking, NewRun,
       AbsentRun, SameDataset
  <1>7. PublishedIsApproved'
    BY DEF GInv, TypeOK, PublishedIsApproved, Trigger, Idle, Blocking,
       NewRun, AbsentRun
  <1>8. AtWork'
    BY DEF GInv, TypeOK, AtWork, Trigger, Idle, Blocking, NewRun, AbsentRun,
       Fixing, Answering, Publishing, Removing, Open, Exists, SameDataset,
       Early
  <1>9. QED
    BY <1>1, <1>2, <1>3, <1>4, <1>5, <1>6, <1>7, <1>8 DEF GInv

LEMMA TriggerRetriedKeeps ==
  ASSUME GInv, NEW r \in Runs, NEW q \in Runs, NEW d \in Datasets,
         TriggerRetried(r, q, d)
  PROVE  GInv'
  <1>1. TypeOK'
    <2>1. runs' \in [Runs -> RunRow]
      BY NewRows DEF GInv, TypeOK, TriggerRetried
    <2>2. QED
      BY <2>1, GoLiveAssumption DEF GInv, TypeOK, TriggerRetried, Stages
  <1>2. Blank'
    BY DEF GInv, TypeOK, Blank, TriggerRetried, Idle, Blocking, NewRun,
       AbsentRun
  <1>3. Unproven'
    BY DEF GInv, TypeOK, Unproven, Blank, TriggerRetried, Idle, Blocking,
       NewRun, AbsentRun, Early
  <1>4. Unraised'
    BY DEF GInv, TypeOK, Unraised, Blank, TriggerRetried, Idle, Blocking,
       NewRun, AbsentRun, Early
  <1>5. PublishedExists'
    BY DEF GInv, TypeOK, PublishedExists, TriggerRetried, Idle, Blocking,
       NewRun, AbsentRun, Exists, SameDataset
  <1>6. OnePublished'
    BY DEF GInv, TypeOK, OnePublished, TriggerRetried, Idle, Blocking,
       NewRun, AbsentRun, SameDataset
  <1>7. PublishedIsApproved'
    BY DEF GInv, TypeOK, PublishedIsApproved, TriggerRetried, Idle,
       Blocking, NewRun, AbsentRun
  <1>8. AtWork'
    BY DEF GInv, TypeOK, AtWork, TriggerRetried, Idle, Blocking, NewRun,
       AbsentRun, Fixing, Answering, Publishing, Removing, Open, Exists,
       SameDataset, Early
  <1>9. QED
    BY <1>1, <1>2, <1>3, <1>4, <1>5, <1>6, <1>7, <1>8 DEF GInv

LEMMA AgeOutKeeps ==
  ASSUME GInv, NEW r \in Runs, AgeOut(r)
  PROVE  GInv'
  <1>1. TypeOK'
    BY DEF GInv, TypeOK, AgeOut, RunRow, Open, Closed, Stages, HandlerState,
       Steps
  <1>2. (Blank /\ Unproven /\ Unraised /\ PublishedExists /\ OnePublished /\
     PublishedIsApproved /\ AtWork)'
    BY DEF GInv, Blank, Unproven, Unraised, PublishedExists, OnePublished,
       PublishedIsApproved, AtWork, AgeOut, Exists, SameDataset
  <1>3. QED
    BY <1>1, <1>2 DEF GInv

LEMMA StartEventKeeps ==
  ASSUME GInv, NEW r \in Runs, StartEvent(r)
  PROVE  GInv'
  <1>1. TypeOK'
    BY DEF GInv, TypeOK, StartEvent, Exists, SameDataset, Advance, RunRow,
       Open, Closed, Stages, HandlerState, Steps
  <1>2. Blank'
    BY DEF GInv, TypeOK, Blank, StartEvent, Exists, SameDataset, Advance
  <1>3. Unproven'
    BY DEF GInv, TypeOK, Unproven, StartEvent, Exists, SameDataset, Advance,
       Early
  <1>4. Unraised'
    BY DEF GInv, TypeOK, Unraised, StartEvent, Exists, SameDataset, Advance,
       Early
  <1>5. AtWork'
    BY DEF GInv, TypeOK, AtWork, Unraised, StartEvent, Exists, SameDataset,
       Advance, Fixing, Answering, Publishing, Removing, Open, Early
  <1>6. (PublishedExists /\ OnePublished /\ PublishedIsApproved)'
    BY DEF GInv, PublishedExists, OnePublished, PublishedIsApproved,
       StartEvent, Advance, Exists, SameDataset
  <1>7. QED
    BY <1>1, <1>2, <1>3, <1>4, <1>5, <1>6 DEF GInv

LEMMA StoreValidationsKeeps ==
  ASSUME GInv, NEW r \in Runs, StoreValidations(r)
  PROVE  GInv'
  <1>1. TypeOK'
    BY DEF GInv, TypeOK, StoreValidations, Exists, SameDataset, Advance,
       RunRow, Open, Closed, Stages, HandlerState, Steps
  <1>2. Blank'
    BY DEF GInv, TypeOK, Blank, StoreValidations, Exists, SameDataset,
       Advance
  <1>3. Unproven'
    BY DEF GInv, TypeOK, Unproven, StoreValidations, Exists, SameDataset,
       Advance, Early
  <1>4. Unraised'
    BY DEF GInv, TypeOK, Unraised, StoreValidations, Exists, SameDataset,
       Advance, Early
  <1>5. PublishedIsApproved'
    BY DEF GInv, TypeOK, PublishedIsApproved, Unproven, StoreValidations,
       Exists, SameDataset, Advance, Early
  <1>6. AtWork'
    BY DEF GInv, TypeOK, AtWork, Unproven, StoreValidations, Exists,
       SameDataset, Advance, Fixing, Answering, Publishing, Removing, Open,
       Early
  <1>7. (PublishedExists /\ OnePublished)'
    BY DEF GInv, PublishedExists, OnePublished, StoreValidations, Advance,
       Exists, SameDataset
  <1>8. QED
    BY <1>1, <1>2, <1>3, <1>4, <1>5, <1>6, <1>7 DEF GInv

LEMMA PersistReconciliationKeeps ==
  ASSUME GInv, NEW r \in Runs, PersistReconciliation(r)
  PROVE  GInv'
  <1>1. TypeOK'
    BY DEF GInv, TypeOK, PersistReconciliation, Exists, SameDataset,
       Advance, RaiseIssues, Raised, Verdict, RunRow, Open, Closed, Stages,
       HandlerState, Steps
  <1>2. Blank'
    BY DEF GInv, TypeOK, Blank, PersistReconciliation, Exists, SameDataset,
       Advance, RaiseIssues, Raised, Verdict
  <1>3. Unproven'
    BY DEF GInv, TypeOK, Unproven, PersistReconciliation, Exists,
       SameDataset, Advance, RaiseIssues, Raised, Verdict, Early
  <1>4. Unraised'
    BY DEF GInv, TypeOK, Unraised, PersistReconciliation, Exists,
       SameDataset, Advance, RaiseIssues, Raised, Verdict, Early
  <1>5. AtWork'
    BY DEF GInv, TypeOK, AtWork, Unraised, PersistReconciliation, Exists,
       SameDataset, Advance, RaiseIssues, Raised, Verdict, Fixing,
       Answering, Publishing, Removing, Open, Early
  <1>6. (PublishedExists /\ OnePublished /\ PublishedIsApproved)'
    BY DEF GInv, PublishedExists, OnePublished, PublishedIsApproved,
       PersistReconciliation, Advance, RaiseIssues, Exists, SameDataset
  <1>7. QED
    BY <1>1, <1>2, <1>3, <1>4, <1>5, <1>6 DEF GInv

LEMMA InsertExceptionsKeeps ==
  ASSUME GInv, NEW r \in Runs, InsertExceptions(r)
  PROVE  GInv'
  <1>1. TypeOK'
    BY DEF GInv, TypeOK, InsertExceptions, Advance, Exists, SameDataset,
       NothingToRaise, OtherRules, Verdict, RaiseIssues, Raised, RunRow,
       Open, Closed, Stages, HandlerState, Steps
  <1>2. Blank'
    BY DEF GInv, TypeOK, Blank, InsertExceptions, Advance, Exists,
       SameDataset, NothingToRaise, OtherRules, Verdict, RaiseIssues, Raised
  <1>3. Unproven'
    BY DEF GInv, TypeOK, Unproven, InsertExceptions, Advance, Exists,
       SameDataset, NothingToRaise, OtherRules, Verdict, RaiseIssues,
       Raised, Early
  <1>4. Unraised'
    BY DEF GInv, TypeOK, Unraised, InsertExceptions, Advance, Exists,
       SameDataset, NothingToRaise, OtherRules, Verdict, RaiseIssues,
       Raised, Early
  <1>5. AtWork'
    BY DEF GInv, TypeOK, AtWork, Unraised, InsertExceptions, Advance,
       Exists, SameDataset, NothingToRaise, OtherRules, Verdict,
       RaiseIssues, Raised, Fixing, Answering, Publishing, Removing, Open,
       Early
  <1>6. (PublishedExists /\ OnePublished /\ PublishedIsApproved)'
    BY DEF GInv, PublishedExists, OnePublished, PublishedIsApproved,
       InsertExceptions, Advance, RaiseIssues, Exists, SameDataset
  <1>7. QED
    BY <1>1, <1>2, <1>3, <1>4, <1>5, <1>6 DEF GInv

LEMMA CompleteRunKeeps ==
  ASSUME GInv, NEW r \in Runs, CompleteRun(r)
  PROVE  GInv'
  <1>1. /\ runs' \in [Runs -> RunRow]
        /\ \A q \in Runs :
             /\ runs'[q].published = runs[q].published
             /\ runs'[q].approved = runs[q].approved
             /\ runs'[q].dataset = runs[q].dataset
             /\ runs'[q].status = "absent" <=> runs[q].status = "absent"
             /\ runs'[q].status = "deleted" <=> runs[q].status = "deleted"
             /\ runs'[q].status \in {runs[q].status, "completed"}
             /\ q # r => runs'[q].status = runs[q].status
    BY WithStatusRows DEF GInv, TypeOK, CompleteRun
  <1>2. TypeOK'
    BY <1>1 DEF GInv, TypeOK, CompleteRun, Advance, Stages
  <1>3. Blank'
    BY <1>1 DEF GInv, TypeOK, Blank, CompleteRun, Advance, Exists,
       SameDataset
  <1>4. Unproven'
    BY <1>1 DEF GInv, TypeOK, Unproven, CompleteRun, Advance, Exists,
       SameDataset, Early
  <1>5. Unraised'
    BY DEF GInv, TypeOK, Unraised, CompleteRun, Advance, Exists,
       SameDataset, Early
  <1>6. PublishedExists'
    BY <1>1 DEF GInv, TypeOK, PublishedExists, CompleteRun, Advance, Exists,
       SameDataset
  <1>7. OnePublished'
    BY <1>1 DEF GInv, TypeOK, OnePublished, CompleteRun, Advance, Exists,
       SameDataset
  <1>8. PublishedIsApproved'
    BY <1>1 DEF GInv, TypeOK, PublishedIsApproved, CompleteRun, Advance,
       Exists, SameDataset
  <1>9. AtWork'
    <2>1. /\ UNCHANGED <<handler, issues, validations>>
          /\ \A q \in Runs : pipeline'[q] \in Early => pipeline[q] \in Early
      BY DEF GInv, TypeOK, CompleteRun, Advance, Early
    <2>2. QED
      BY <1>1, <2>1 DEF GInv, AtWork, Exists, SameDataset, Fixing,
         Answering, Publishing, Removing
  <1>10. QED
    BY <1>1, <1>2, <1>3, <1>4, <1>5, <1>6, <1>7, <1>8, <1>9 DEF GInv

LEMMA CloseSupersededKeeps ==
  ASSUME GInv, NEW r \in Runs, CloseSuperseded(r)
  PROVE  GInv'
  <1>1. TypeOK'
    BY DEF GInv, TypeOK, CloseSuperseded, Advance, Superseded, Exists,
       SameDataset, Closed, RunRow, Open, Stages, HandlerState, Steps
  <1>2. Blank'
    BY DEF GInv, TypeOK, Blank, CloseSuperseded, Advance, Superseded,
       Exists, SameDataset, Closed
  <1>3. Unproven'
    BY DEF GInv, TypeOK, Unproven, CloseSuperseded, Advance, Superseded,
       Exists, SameDataset, Closed, Early
  <1>4. Unraised'
    BY DEF GInv, TypeOK, Unraised, CloseSuperseded, Advance, Superseded,
       Exists, SameDataset, Closed, Early
  <1>5. AtWork'
    BY DEF GInv, TypeOK, AtWork, CloseSuperseded, Advance, Superseded,
       Exists, SameDataset, Closed, Fixing, Answering, Publishing, Removing,
       Open, Early
  <1>6. (PublishedExists /\ OnePublished /\ PublishedIsApproved)'
    BY DEF GInv, PublishedExists, OnePublished, PublishedIsApproved,
       CloseSuperseded, Advance, Exists, SameDataset
  <1>7. QED
    BY <1>1, <1>2, <1>3, <1>4, <1>5, <1>6 DEF GInv

LEMMA FinishEventKeeps ==
  ASSUME GInv, NEW r \in Runs, FinishEvent(r)
  PROVE  GInv'
  <1>1. TypeOK'
    BY DEF GInv, TypeOK, FinishEvent, Advance, RunRow, Open, Closed, Stages,
       HandlerState, Steps
  <1>2. Blank'
    BY DEF GInv, TypeOK, Blank, FinishEvent, Advance
  <1>3. Unproven'
    BY DEF GInv, TypeOK, Unproven, FinishEvent, Advance, Early
  <1>4. Unraised'
    BY DEF GInv, TypeOK, Unraised, FinishEvent, Advance, Early
  <1>5. AtWork'
    BY DEF GInv, TypeOK, AtWork, FinishEvent, Advance, Fixing, Answering,
       Publishing, Removing, Open, Exists, SameDataset, Early
  <1>6. (PublishedExists /\ OnePublished /\ PublishedIsApproved)'
    BY DEF GInv, PublishedExists, OnePublished, PublishedIsApproved,
       FinishEvent, Advance, Exists, SameDataset
  <1>7. QED
    BY <1>1, <1>2, <1>3, <1>4, <1>5, <1>6 DEF GInv

LEMMA PipelineFailsKeeps ==
  ASSUME GInv, NEW r \in Runs, PipelineFails(r)
  PROVE  GInv'
  <1>1. /\ runs' \in [Runs -> RunRow]
        /\ \A q \in Runs :
             /\ runs'[q].published = runs[q].published
             /\ runs'[q].approved = runs[q].approved
             /\ runs'[q].dataset = runs[q].dataset
             /\ runs'[q].status = "absent" <=> runs[q].status = "absent"
             /\ runs'[q].status = "deleted" <=> runs[q].status = "deleted"
             /\ runs'[q].status \in {runs[q].status, "failed"}
             /\ q # r => runs'[q].status = runs[q].status
    BY WithStatusRows DEF GInv, TypeOK, PipelineFails
  <1>2. TypeOK'
    <2>1. faults' \in 0 .. MaxFaults
      BY GoLiveAssumption DEF GInv, TypeOK, PipelineFails
    <2>2. pipeline' \in [Runs -> Stages]
      BY DEF GInv, TypeOK, PipelineFails, Stages
    <2>3. QED
      BY <1>1, <2>1, <2>2 DEF GInv, TypeOK, PipelineFails
  <1>3. Blank'
    BY <1>1 DEF GInv, TypeOK, Blank, PipelineFails, Exists, SameDataset
  <1>4. Unproven'
    BY <1>1 DEF GInv, TypeOK, Unproven, PipelineFails, Exists, SameDataset,
       Early
  <1>5. Unraised'
    BY DEF GInv, TypeOK, Unraised, PipelineFails, Exists, SameDataset, Early
  <1>6. PublishedExists'
    BY <1>1 DEF GInv, TypeOK, PublishedExists, PipelineFails, Exists,
       SameDataset
  <1>7. OnePublished'
    BY <1>1 DEF GInv, TypeOK, OnePublished, PipelineFails, Exists,
       SameDataset
  <1>8. PublishedIsApproved'
    BY <1>1 DEF GInv, TypeOK, PublishedIsApproved, PipelineFails, Exists,
       SameDataset
  <1>9. AtWork'
    BY <1>1 DEF GInv, TypeOK, AtWork, PipelineFails, Exists, SameDataset,
       Fixing, Answering, Publishing, Removing, Open, Early
  <1>10. QED
    BY <1>1, <1>2, <1>3, <1>4, <1>5, <1>6, <1>7, <1>8, <1>9 DEF GInv

LEMMA PipelineOrphanedKeeps ==
  ASSUME GInv, NEW r \in Runs, PipelineOrphaned(r)
  PROVE  GInv'
  <1>1. TypeOK'
    BY DEF GInv, TypeOK, PipelineOrphaned, Exists, SameDataset,
       NothingToRaise, OtherRules, Verdict, RunRow, Open, Closed, Stages,
       HandlerState, Steps
  <1>2. Blank'
    BY DEF GInv, TypeOK, Blank, PipelineOrphaned, Exists, SameDataset,
       NothingToRaise, OtherRules, Verdict
  <1>3. Unproven'
    BY DEF GInv, TypeOK, Unproven, PipelineOrphaned, Exists, SameDataset,
       NothingToRaise, OtherRules, Verdict, Early
  <1>4. Unraised'
    BY DEF GInv, TypeOK, Unraised, PipelineOrphaned, Exists, SameDataset,
       NothingToRaise, OtherRules, Verdict, Early
  <1>5. AtWork'
    BY DEF GInv, TypeOK, AtWork, PipelineOrphaned, Exists, SameDataset,
       NothingToRaise, OtherRules, Verdict, Fixing, Answering, Publishing,
       Removing, Open, Early
  <1>6. (PublishedExists /\ OnePublished /\ PublishedIsApproved)'
    BY DEF GInv, PublishedExists, OnePublished, PublishedIsApproved,
       PipelineOrphaned, Exists, SameDataset
  <1>7. QED
    BY <1>1, <1>2, <1>3, <1>4, <1>5, <1>6 DEF GInv

LEMMA ViewRunsKeeps ==
  ASSUME GInv, NEW d \in Datasets, ViewRuns(d)
  PROVE  GInv'
  <1>1. TypeOK'
    <2>1. runs' \in [Runs -> RunRow]
      BY RowUpdates DEF GInv, TypeOK, ViewRuns, Swept, Reconciled
    <2>2. QED
      BY <2>1 DEF GInv, TypeOK, ViewRuns
  <1>2. Blank'
    BY DEF GInv, TypeOK, Blank, ViewRuns, Idle, Swept, Reconciled
  <1>3. Unproven'
    BY DEF GInv, TypeOK, Unproven, ViewRuns, Idle, Swept, Reconciled, Early
  <1>4. PublishedExists'
    BY DEF GInv, TypeOK, PublishedExists, ViewRuns, Idle, Swept, Reconciled,
       Exists, SameDataset
  <1>5. OnePublished'
    BY DEF GInv, TypeOK, OnePublished, ViewRuns, Idle, Swept, Reconciled,
       SameDataset
  <1>6. PublishedIsApproved'
    BY DEF GInv, TypeOK, PublishedIsApproved, ViewRuns, Idle, Swept,
       Reconciled
  <1>7. AtWork'
    BY DEF GInv, TypeOK, AtWork, ViewRuns, Idle, Swept, Reconciled, Fixing,
       Answering, Publishing, Removing, Open, Exists, SameDataset, Early
  <1>8. (Unraised)'
    BY DEF GInv, Unraised, ViewRuns
  <1>9. QED
    BY <1>1, <1>2, <1>3, <1>4, <1>5, <1>6, <1>7, <1>8 DEF GInv

LEMMA ViewRunKeeps ==
  ASSUME GInv, NEW r \in Runs, ViewRun(r)
  PROVE  GInv'
  <1>1. TypeOK'
    <2>1. runs' \in [Runs -> RunRow]
      BY RowUpdates DEF GInv, TypeOK, ViewRun, Reconciled
    <2>2. QED
      BY <2>1 DEF GInv, TypeOK, ViewRun
  <1>2. Blank'
    BY DEF GInv, TypeOK, Blank, ViewRun, Idle, Reconciled
  <1>3. Unproven'
    BY DEF GInv, TypeOK, Unproven, ViewRun, Idle, Reconciled, Early
  <1>4. PublishedExists'
    BY DEF GInv, TypeOK, PublishedExists, ViewRun, Idle, Reconciled, Exists,
       SameDataset
  <1>5. OnePublished'
    BY DEF GInv, TypeOK, OnePublished, ViewRun, Idle, Reconciled,
       SameDataset
  <1>6. PublishedIsApproved'
    BY DEF GInv, TypeOK, PublishedIsApproved, ViewRun, Idle, Reconciled
  <1>7. AtWork'
    BY DEF GInv, TypeOK, AtWork, ViewRun, Idle, Reconciled, Fixing,
       Answering, Publishing, Removing, Open, Exists, SameDataset, Early
  <1>8. (Unraised)'
    BY DEF GInv, Unraised, ViewRun
  <1>9. QED
    BY <1>1, <1>2, <1>3, <1>4, <1>5, <1>6, <1>7, <1>8 DEF GInv

LEMMA TakeIssueKeeps ==
  ASSUME GInv, NEW r \in Runs, NEW v \in Rules, TakeIssue(r, v)
  PROVE  GInv'
  <1>1. TypeOK'
    <2>1. CASE issues[r][v] \in Closed \union {"none"}
      <3>1. handler' \in HandlerState /\ issues' = issues
        BY <2>1 DEF GInv, TypeOK, TakeIssue, HandlerState
      <3>2. QED
        BY <3>1 DEF GInv, TypeOK, TakeIssue
    <2>2. CASE issues[r][v] \notin Closed \union {"none"}
      <3>1. handler' \in HandlerState
        BY <2>2 DEF GInv, TypeOK, TakeIssue, HandlerState, Steps
      <3>2. issues' = [issues EXCEPT ![r][v] = "approved"]
        BY <2>2 DEF TakeIssue
      <3>3. QED
        BY <3>1, <3>2 DEF GInv, TypeOK, TakeIssue, Closed
    <2>3. QED
      BY <2>1, <2>2
  <1>2. Blank'
    <2>1. UNCHANGED <<runs, pipeline, validations>>
      BY DEF TakeIssue
    <2>2. CASE issues' = issues
      BY <2>1, <2>2 DEF GInv, Blank
    <2>3. CASE issues[r][v] # "none" /\ issues' = [issues EXCEPT ![r][v] = "approved"]
      <3>1. runs[r].status # "absent"
        BY <2>3 DEF GInv, Blank
      <3>2. \A q \in Runs \ {r} : issues'[q] = issues[q]
        BY <2>3 DEF GInv, TypeOK
      <3>3. QED
        BY <2>1, <3>1, <3>2 DEF GInv, Blank
    <2>4. QED
      BY <2>2, <2>3 DEF TakeIssue
  <1>3. Unraised'
    BY DEF GInv, TypeOK, Unraised, TakeIssue, Closed, Early
  <1>4. AtWork'
    <2>1. CASE issues[r][v] \in Closed \union {"none"}
      <3>1. handler'.step = "next_issue"
        BY <2>1 DEF GInv, TypeOK, TakeIssue, HandlerState
      <3>2. QED
        BY <3>1 DEF AtWork, Fixing, Answering, Publishing, Removing
    <2>2. CASE issues[r][v] \notin Closed \union {"none"}
      <3>1. /\ handler'.step = "quarantine"
            /\ handler'.run = r
            /\ handler'.rule = v
        BY <2>2 DEF TakeIssue
      <3>2. issues'[r][v] = "approved"
        BY <2>2 DEF GInv, TypeOK, TakeIssue
      <3>3. QED
        BY <3>1, <3>2 DEF AtWork, Fixing, Answering, Publishing, Removing
    <2>3. QED
      BY <2>1, <2>2
  <1>5. (Unproven /\ PublishedExists /\ OnePublished /\
     PublishedIsApproved)'
    BY DEF GInv, Unproven, PublishedExists, OnePublished,
       PublishedIsApproved, TakeIssue, Exists, SameDataset
  <1>6. QED
    BY <1>1, <1>2, <1>3, <1>4, <1>5 DEF GInv

LEMMA QuarantineRecordsKeeps ==
  ASSUME GInv, QuarantineRecords
  PROVE  GInv'
  <1>1. TypeOK'
    <2>1. handler' \in HandlerState
      BY DEF GInv, TypeOK, QuarantineRecords, HandlerState, Steps, Idle
    <2>2. QED
      BY <2>1 DEF GInv, TypeOK, QuarantineRecords, AtWork, Fixing, Publishing, Removing
  <1>2. AtWork'
    BY DEF GInv, TypeOK, AtWork, QuarantineRecords, Fixing, Answering,
       Publishing, Removing, Open, Exists, SameDataset, Early
  <1>3. (Blank /\ Unproven /\ Unraised /\ PublishedExists /\ OnePublished /\
     PublishedIsApproved)'
    BY DEF GInv, Blank, Unproven, Unraised, PublishedExists, OnePublished,
       PublishedIsApproved, QuarantineRecords, Exists, SameDataset
  <1>4. QED
    BY <1>1, <1>2, <1>3 DEF GInv

LEMMA ResolveIssueKeeps ==
  ASSUME GInv, ResolveIssue
  PROVE  GInv'
  <1>1. TypeOK'
    BY DEF GInv, TypeOK, ResolveIssue, Resolved, Idle, RunRow, Open, Closed,
       Stages, HandlerState, Steps
  <1>2. Blank'
    BY DEF GInv, TypeOK, Blank, ResolveIssue, Resolved, Idle
  <1>3. Unraised'
    BY DEF GInv, TypeOK, Unraised, ResolveIssue, Resolved, Idle, Early
  <1>4. AtWork'
    BY DEF GInv, TypeOK, AtWork, ResolveIssue, Resolved, Idle, Fixing,
       Answering, Publishing, Removing, Open, Exists, SameDataset, Early
  <1>5. (Unproven /\ PublishedExists /\ OnePublished /\
     PublishedIsApproved)'
    BY DEF GInv, Unproven, PublishedExists, OnePublished,
       PublishedIsApproved, ResolveIssue, Exists, SameDataset
  <1>6. QED
    BY <1>1, <1>2, <1>3, <1>4, <1>5 DEF GInv

LEMMA FixesDoneKeeps ==
  ASSUME GInv, FixesDone
  PROVE  GInv'
  <1>1. TypeOK'
    BY DEF GInv, TypeOK, FixesDone, Idle, RunRow, Open, Closed, Stages,
       HandlerState, Steps
  <1>2. AtWork'
    BY DEF GInv, TypeOK, AtWork, FixesDone, Idle, Fixing, Answering,
       Publishing, Removing, Open, Exists, SameDataset, Early
  <1>3. (Blank /\ Unproven /\ Unraised /\ PublishedExists /\ OnePublished /\
     PublishedIsApproved)'
    BY DEF GInv, Blank, Unproven, Unraised, PublishedExists, OnePublished,
       PublishedIsApproved, FixesDone, Exists, SameDataset
  <1>4. QED
    BY <1>1, <1>2, <1>3 DEF GInv

LEMMA DEQuarantineKeeps ==
  ASSUME GInv, NEW r \in Runs, NEW v \in Rules, DEQuarantine(r, v)
  PROVE  GInv'
  <1>1. TypeOK'
    <2>1. handler' \in HandlerState
      BY DEF GInv, TypeOK, DEQuarantine, HandlerState, Steps, Idle
    <2>2. QED
      BY <2>1 DEF GInv, TypeOK, DEQuarantine
  <1>2. AtWork'
    BY DEF GInv, TypeOK, AtWork, DEQuarantine, Idle, Closed, Fixing,
       Answering, Publishing, Removing, Open, Exists, SameDataset, Early
  <1>3. (Blank /\ Unproven /\ Unraised /\ PublishedExists /\ OnePublished /\
     PublishedIsApproved)'
    BY DEF GInv, Blank, Unproven, Unraised, PublishedExists, OnePublished,
       PublishedIsApproved, DEQuarantine, Exists, SameDataset
  <1>4. QED
    BY <1>1, <1>2, <1>3 DEF GInv

LEMMA DEResolveKeeps ==
  ASSUME GInv, DEResolve
  PROVE  GInv'
  <1>1. TypeOK'
    BY DEF GInv, TypeOK, DEResolve, Resolved, Idle, RunRow, Open, Closed,
       Stages, HandlerState, Steps
  <1>2. Blank'
    BY DEF GInv, TypeOK, Blank, DEResolve, Resolved, Idle
  <1>3. Unraised'
    BY DEF GInv, TypeOK, Unraised, DEResolve, Resolved, Idle, Early
  <1>4. AtWork'
    BY DEF GInv, TypeOK, AtWork, DEResolve, Resolved, Idle, Fixing,
       Answering, Publishing, Removing, Open, Exists, SameDataset, Early
  <1>5. (Unproven /\ PublishedExists /\ OnePublished /\
     PublishedIsApproved)'
    BY DEF GInv, Unproven, PublishedExists, OnePublished,
       PublishedIsApproved, DEResolve, Exists, SameDataset
  <1>6. QED
    BY <1>1, <1>2, <1>3, <1>4, <1>5 DEF GInv

LEMMA RequestFixKeeps ==
  ASSUME GInv, NEW r \in Runs, NEW v \in Rules, RequestFix(r, v)
  PROVE  GInv'
  <1>1. TypeOK'
    BY DEF GInv, TypeOK, RequestFix, Idle, RunRow, Open, Closed, Stages,
       HandlerState, Steps
  <1>2. AtWork'
    BY DEF GInv, TypeOK, AtWork, RequestFix, Idle, Fixing, Answering,
       Publishing, Removing, Open, Exists, SameDataset, Early
  <1>3. (Blank /\ Unproven /\ Unraised /\ PublishedExists /\ OnePublished /\
     PublishedIsApproved)'
    BY DEF GInv, Blank, Unproven, Unraised, PublishedExists, OnePublished,
       PublishedIsApproved, RequestFix, Exists, SameDataset
  <1>4. QED
    BY <1>1, <1>2, <1>3 DEF GInv

LEMMA ProposeRemediationKeeps ==
  ASSUME GInv, ProposeRemediation
  PROVE  GInv'
  <1>1. TypeOK'
    BY DEF GInv, TypeOK, ProposeRemediation, Idle, RunRow, Open, Closed,
       Stages, HandlerState, Steps
  <1>2. Blank'
    BY DEF GInv, TypeOK, Blank, ProposeRemediation, Idle
  <1>3. Unraised'
    BY DEF GInv, TypeOK, Unraised, ProposeRemediation, Idle, Early
  <1>4. AtWork'
    BY DEF GInv, TypeOK, AtWork, ProposeRemediation, Idle, Fixing,
       Answering, Publishing, Removing, Open, Exists, SameDataset, Early
  <1>5. (Unproven /\ PublishedExists /\ OnePublished /\
     PublishedIsApproved)'
    BY DEF GInv, Unproven, PublishedExists, OnePublished,
       PublishedIsApproved, ProposeRemediation, Exists, SameDataset
  <1>6. QED
    BY <1>1, <1>2, <1>3, <1>4, <1>5 DEF GInv

LEMMA ApproveRunKeeps ==
  ASSUME GInv, NEW r \in Runs, ApproveRun(r)
  PROVE  GInv'
  <1>1. TypeOK'
    <2>1. runs' \in [Runs -> RunRow]
      BY RowUpdates DEF GInv, TypeOK, ApproveRun
    <2>2. handler' \in HandlerState
      BY DEF GInv, TypeOK, ApproveRun, HandlerState, Steps, Idle
    <2>3. QED
      BY <2>1, <2>2 DEF GInv, TypeOK, ApproveRun
  <1>2. Blank'
    BY DEF GInv, TypeOK, Blank, ApproveRun, Idle, GatePasses, HasOpenIssue,
       Open
  <1>3. Unproven'
    BY DEF GInv, TypeOK, Unproven, ApproveRun, Idle, GatePasses,
       HasOpenIssue, Open, Early
  <1>4. PublishedExists'
    BY DEF GInv, TypeOK, PublishedExists, ApproveRun, Idle, GatePasses,
       HasOpenIssue, Open, Exists, SameDataset
  <1>5. OnePublished'
    BY DEF GInv, TypeOK, OnePublished, ApproveRun, Idle, GatePasses,
       HasOpenIssue, Open, SameDataset
  <1>6. PublishedIsApproved'
    BY DEF GInv, TypeOK, PublishedIsApproved, ApproveRun, Idle, GatePasses,
       HasOpenIssue, Open
  <1>7. AtWork'
    BY DEF GInv, TypeOK, AtWork, Unproven, ApproveRun, Idle, GatePasses,
       HasOpenIssue, Open, Fixing, Answering, Publishing, Removing, Exists,
       SameDataset, Early
  <1>8. (Unraised)'
    BY DEF GInv, Unraised, ApproveRun
  <1>9. QED
    BY <1>1, <1>2, <1>3, <1>4, <1>5, <1>6, <1>7, <1>8 DEF GInv

LEMMA UnpublishOthersKeeps ==
  ASSUME GInv, UnpublishOthers
  PROVE  GInv'
  <1>1. TypeOK'
    <2>1. runs' \in [Runs -> RunRow]
      BY RowUpdates DEF GInv, TypeOK, UnpublishOthers, AtWork, Fixing, Publishing, Removing
    <2>2. handler' \in HandlerState
      BY DEF GInv, TypeOK, UnpublishOthers, HandlerState, Steps, Idle
    <2>3. QED
      BY <2>1, <2>2 DEF GInv, TypeOK, UnpublishOthers, AtWork, Fixing, Publishing, Removing
  <1>2. Blank'
    BY DEF GInv, TypeOK, Blank, UnpublishOthers, Exists, SameDataset
  <1>3. Unproven'
    BY DEF GInv, TypeOK, Unproven, UnpublishOthers, Exists, SameDataset,
       Early
  <1>4. PublishedExists'
    BY DEF GInv, TypeOK, PublishedExists, UnpublishOthers, Exists,
       SameDataset
  <1>5. OnePublished'
    BY DEF GInv, TypeOK, OnePublished, UnpublishOthers, Exists, SameDataset
  <1>6. PublishedIsApproved'
    BY DEF GInv, TypeOK, PublishedIsApproved, UnpublishOthers, Exists,
       SameDataset
  <1>7. AtWork'
    BY DEF GInv, TypeOK, AtWork, PublishedExists, UnpublishOthers, Exists,
       SameDataset, Fixing, Answering, Publishing, Removing, Open, Early
  <1>8. (Unraised)'
    BY DEF GInv, Unraised, UnpublishOthers
  <1>9. QED
    BY <1>1, <1>2, <1>3, <1>4, <1>5, <1>6, <1>7, <1>8 DEF GInv

LEMMA SetPublishedKeeps ==
  ASSUME GInv, SetPublished
  PROVE  GInv'
  <1>1. TypeOK'
    <2>1. runs' \in [Runs -> RunRow]
      BY RowUpdates DEF GInv, TypeOK, SetPublished, AtWork, Fixing, Publishing, Removing
    <2>2. handler' \in HandlerState
      BY DEF GInv, TypeOK, SetPublished, HandlerState, Steps, Idle
    <2>3. QED
      BY <2>1, <2>2 DEF GInv, TypeOK, SetPublished, AtWork, Fixing, Publishing, Removing
  <1>2. Blank'
    BY DEF GInv, TypeOK, Blank, AtWork, SetPublished, Fixing, Answering,
       Publishing, Removing, Open, Exists, SameDataset, Early
  <1>3. Unproven'
    BY DEF GInv, TypeOK, Unproven, AtWork, SetPublished, Early, Fixing,
       Answering, Publishing, Removing, Open, Exists, SameDataset
  <1>4. PublishedExists'
    BY DEF GInv, TypeOK, PublishedExists, AtWork, SetPublished, Exists,
       SameDataset, Fixing, Answering, Publishing, Removing, Open, Early
  <1>5. OnePublished'
    BY DEF GInv, TypeOK, OnePublished, AtWork, SetPublished, SameDataset,
       Fixing, Answering, Publishing, Removing, Open, Exists, Early
  <1>6. PublishedIsApproved'
    BY DEF GInv, TypeOK, PublishedIsApproved, AtWork, SetPublished, Fixing,
       Answering, Publishing, Removing, Open, Exists, SameDataset, Early
  <1>7. AtWork'
    BY DEF GInv, TypeOK, AtWork, SetPublished, Fixing, Answering,
       Publishing, Removing, Open, Exists, SameDataset, Early
  <1>8. (Unraised)'
    BY DEF GInv, Unraised, SetPublished
  <1>9. QED
    BY <1>1, <1>2, <1>3, <1>4, <1>5, <1>6, <1>7, <1>8 DEF GInv

LEMMA RecordPublicationKeeps ==
  ASSUME GInv, RecordPublication
  PROVE  GInv'
  <1>1. TypeOK'
    <2>1. handler' \in HandlerState
      BY DEF GInv, TypeOK, RecordPublication, HandlerState, Steps, Idle
    <2>2. QED
      BY <2>1 DEF GInv, TypeOK, RecordPublication, AtWork, Fixing, Publishing, Removing
  <1>2. AtWork'
    BY DEF GInv, TypeOK, AtWork, RecordPublication, Idle, Fixing, Answering,
       Publishing, Removing, Open, Exists, SameDataset, Early
  <1>3. (Blank /\ Unproven /\ Unraised /\ PublishedExists /\ OnePublished /\
     PublishedIsApproved)'
    BY DEF GInv, Blank, Unproven, Unraised, PublishedExists, OnePublished,
       PublishedIsApproved, RecordPublication, Exists, SameDataset
  <1>4. QED
    BY <1>1, <1>2, <1>3 DEF GInv

LEMMA RejectRunKeeps ==
  ASSUME GInv, NEW r \in Runs, RejectRun(r)
  PROVE  GInv'
  <1>1. /\ runs' \in [Runs -> RunRow]
        /\ \A q \in Runs :
             /\ runs'[q].published = runs[q].published
             /\ runs'[q].approved = runs[q].approved
             /\ runs'[q].dataset = runs[q].dataset
             /\ runs'[q].status = "absent" <=> runs[q].status = "absent"
             /\ runs'[q].status = "deleted" <=> runs[q].status = "deleted"
             /\ runs'[q].status \in {runs[q].status, "rejected"}
             /\ q # r => runs'[q].status = runs[q].status
    BY WithStatusRows DEF GInv, TypeOK, RejectRun
  <1>2. TypeOK'
    BY <1>1 DEF GInv, TypeOK, RejectRun, Stages
  <1>3. Blank'
    BY <1>1 DEF GInv, TypeOK, Blank, RejectRun, Idle, Exists, SameDataset
  <1>4. Unproven'
    BY <1>1 DEF GInv, TypeOK, Unproven, RejectRun, Idle, Exists,
       SameDataset, Early
  <1>5. PublishedExists'
    BY <1>1 DEF GInv, TypeOK, PublishedExists, RejectRun, Idle, Exists,
       SameDataset
  <1>6. OnePublished'
    BY <1>1 DEF GInv, TypeOK, OnePublished, RejectRun, Idle, Exists,
       SameDataset
  <1>7. PublishedIsApproved'
    BY <1>1 DEF GInv, TypeOK, PublishedIsApproved, RejectRun, Idle, Exists,
       SameDataset
  <1>8. AtWork'
    BY <1>1 DEF GInv, TypeOK, AtWork, RejectRun, Idle, Exists, SameDataset,
       Fixing, Answering, Publishing, Removing, Open, Early
  <1>9. (Unraised)'
    BY DEF GInv, Unraised, RejectRun
  <1>10. QED
    BY <1>1, <1>2, <1>3, <1>4, <1>5, <1>6, <1>7, <1>8, <1>9 DEF GInv

LEMMA DeleteRunKeeps ==
  ASSUME GInv, NEW r \in Runs, DeleteRun(r)
  PROVE  GInv'
  <1>1. TypeOK'
    BY DEF GInv, TypeOK, DeleteRun, Idle, Exists, SameDataset, RunRow, Open,
       Closed, Stages, HandlerState, Steps
  <1>2. Blank'
    BY DEF GInv, TypeOK, Blank, DeleteRun, Idle, Exists, SameDataset
  <1>3. Unproven'
    BY DEF GInv, TypeOK, Unproven, DeleteRun, Idle, Exists, SameDataset,
       Early
  <1>4. PublishedIsApproved'
    BY DEF GInv, TypeOK, PublishedIsApproved, DeleteRun, Idle, Exists,
       SameDataset
  <1>5. AtWork'
    BY DEF GInv, TypeOK, AtWork, DeleteRun, Idle, Exists, SameDataset,
       Fixing, Answering, Publishing, Removing, Open, Early
  <1>6. (Unraised /\ PublishedExists /\ OnePublished)'
    BY DEF GInv, Unraised, PublishedExists, OnePublished, DeleteRun, Exists,
       SameDataset
  <1>7. QED
    BY <1>1, <1>2, <1>3, <1>4, <1>5, <1>6 DEF GInv

LEMMA DeleteIssuesKeeps ==
  ASSUME GInv, DeleteIssues
  PROVE  GInv'
  <1>1. TypeOK'
    BY DEF GInv, TypeOK, DeleteIssues, RunRow, Open, Closed, Stages,
       HandlerState, Steps
  <1>2. Blank'
    BY DEF GInv, TypeOK, Blank, DeleteIssues
  <1>3. Unraised'
    BY DEF GInv, TypeOK, Unraised, DeleteIssues, Early
  <1>4. AtWork'
    BY DEF GInv, TypeOK, AtWork, DeleteIssues, Fixing, Answering,
       Publishing, Removing, Open, Exists, SameDataset, Early
  <1>5. (Unproven /\ PublishedExists /\ OnePublished /\
     PublishedIsApproved)'
    BY DEF GInv, Unproven, PublishedExists, OnePublished,
       PublishedIsApproved, DeleteIssues, Exists, SameDataset
  <1>6. QED
    BY <1>1, <1>2, <1>3, <1>4, <1>5 DEF GInv

LEMMA DeleteAuditKeeps ==
  ASSUME GInv, DeleteAudit
  PROVE  GInv'
  <1>1. TypeOK'
    <2>1. runs' \in [Runs -> RunRow]
      BY RowUpdates DEF GInv, TypeOK, DeleteAudit, AtWork, Fixing, Publishing, Removing
    <2>2. handler' \in HandlerState
      BY DEF GInv, TypeOK, DeleteAudit, HandlerState, Steps, Idle
    <2>3. QED
      BY <2>1, <2>2 DEF GInv, TypeOK, DeleteAudit, AtWork, Fixing, Publishing, Removing
  <1>2. Blank'
    BY DEF GInv, TypeOK, Blank, DeleteAudit
  <1>3. Unproven'
    BY DEF GInv, TypeOK, Unproven, DeleteAudit, Early
  <1>4. PublishedExists'
    BY DEF GInv, TypeOK, PublishedExists, DeleteAudit, Exists, SameDataset
  <1>5. OnePublished'
    BY DEF GInv, TypeOK, OnePublished, DeleteAudit, SameDataset
  <1>6. PublishedIsApproved'
    BY DEF GInv, TypeOK, PublishedIsApproved, AtWork, DeleteAudit, Fixing,
       Answering, Publishing, Removing, Open, Exists, SameDataset, Early
  <1>7. AtWork'
    BY DEF GInv, TypeOK, AtWork, DeleteAudit, Fixing, Answering, Publishing,
       Removing, Open, Exists, SameDataset, Early
  <1>8. (Unraised)'
    BY DEF GInv, Unraised, DeleteAudit
  <1>9. QED
    BY <1>1, <1>2, <1>3, <1>4, <1>5, <1>6, <1>7, <1>8 DEF GInv

LEMMA DeleteRowKeeps ==
  ASSUME GInv, DeleteRow
  PROVE  GInv'
  <1>1. TypeOK'
    <2>1. runs' \in [Runs -> RunRow]
      BY RowUpdates DEF GInv, TypeOK, DeleteRow, AtWork, Fixing, Publishing, Removing
    <2>2. handler' \in HandlerState
      BY DEF GInv, TypeOK, DeleteRow, HandlerState, Steps, Idle
    <2>3. QED
      BY <2>1, <2>2 DEF GInv, TypeOK, DeleteRow, AtWork, Fixing, Publishing, Removing
  <1>2. Blank'
    BY DEF GInv, TypeOK, Blank, DeleteRow, Idle
  <1>3. Unproven'
    BY DEF GInv, TypeOK, Unproven, DeleteRow, Idle, Early
  <1>4. PublishedExists'
    BY DEF GInv, TypeOK, PublishedExists, DeleteRow, Idle, Exists,
       SameDataset
  <1>5. OnePublished'
    BY DEF GInv, TypeOK, OnePublished, DeleteRow, Idle, SameDataset
  <1>6. PublishedIsApproved'
    BY DEF GInv, TypeOK, PublishedIsApproved, DeleteRow, Idle
  <1>7. AtWork'
    BY DEF GInv, TypeOK, AtWork, DeleteRow, Idle, Fixing, Answering,
       Publishing, Removing, Open, Exists, SameDataset, Early
  <1>8. (Unraised)'
    BY DEF GInv, Unraised, DeleteRow
  <1>9. QED
    BY <1>1, <1>2, <1>3, <1>4, <1>5, <1>6, <1>7, <1>8 DEF GInv

LEMMA HandlerFailsKeeps ==
  ASSUME GInv, HandlerFails
  PROVE  GInv'
  <1>1. TypeOK'
    <2>1. handler' \in HandlerState
      BY DEF GInv, TypeOK, HandlerFails, HandlerState, Steps, Idle
    <2>2. QED
      BY <2>1, GoLiveAssumption DEF GInv, TypeOK, HandlerFails
  <1>2. AtWork'
    BY DEF GInv, TypeOK, AtWork, HandlerFails, Idle, Fixing, Answering,
       Publishing, Removing, Open, Exists, SameDataset, Early
  <1>3. (Blank /\ Unproven /\ Unraised /\ PublishedExists /\ OnePublished /\
     PublishedIsApproved)'
    BY DEF GInv, Blank, Unproven, Unraised, PublishedExists, OnePublished,
       PublishedIsApproved, HandlerFails, Exists, SameDataset
  <1>4. QED
    BY <1>1, <1>2, <1>3 DEF GInv

LEMMA RebootKeeps ==
  ASSUME GInv, Reboot
  PROVE  GInv'
  <1>1. TypeOK'
    <2>1. runs' \in [Runs -> RunRow]
      BY RowUpdates DEF GInv, TypeOK, Reboot
    <2>2. handler' \in HandlerState
      BY DEF GInv, TypeOK, Reboot, HandlerState, Steps, Idle
    <2>3. QED
      BY <2>1, <2>2, GoLiveAssumption DEF GInv, TypeOK, Reboot, Stages
  <1>2. Blank'
    BY DEF GInv, TypeOK, Blank, Reboot, Idle
  <1>3. Unproven'
    BY DEF GInv, TypeOK, Unproven, Reboot, Idle, Early
  <1>4. Unraised'
    BY DEF GInv, TypeOK, Unraised, Reboot, Idle, Early
  <1>5. PublishedExists'
    BY DEF GInv, TypeOK, PublishedExists, Reboot, Idle, Exists, SameDataset
  <1>6. OnePublished'
    BY DEF GInv, TypeOK, OnePublished, Reboot, Idle, SameDataset
  <1>7. PublishedIsApproved'
    BY DEF GInv, TypeOK, PublishedIsApproved, Reboot, Idle
  <1>8. AtWork'
    BY DEF GInv, TypeOK, AtWork, Reboot, Idle, Fixing, Answering,
       Publishing, Removing, Open, Exists, SameDataset, Early
  <1>9. QED
    BY <1>1, <1>2, <1>3, <1>4, <1>5, <1>6, <1>7, <1>8 DEF GInv

(* Dismissing concerns open issues only, and nothing else.                 *)
LEMMA DismissKeeps ==
  ASSUME GInv, NEW I,
         \A r \in Runs, v \in Rules : <<r, v>> \in I => issues[r][v] \in Open,
         Dismiss(I)
  PROVE  GInv'
  <1>1. \A r \in Runs, v \in Rules :
          issues'[r][v] = IF <<r, v>> \in I THEN "dismissed" ELSE issues[r][v]
    BY DEF Dismiss
  <1>2. TypeOK'
    BY DEF GInv, TypeOK, Dismiss, Closed
  <1>3. (Blank /\ Unraised)'
    BY <1>1 DEF GInv, Blank, Unraised, Dismiss, Open
  <1>4. AtWork'
    BY DEF GInv, AtWork, Dismiss, Idle, Fixing, Answering, Publishing, Removing
  <1>5. (Unproven /\ PublishedExists /\ OnePublished /\ PublishedIsApproved)'
    BY DEF GInv, Unproven, PublishedExists, OnePublished,
       PublishedIsApproved, Dismiss, Exists, SameDataset
  <1>6. QED
    BY <1>2, <1>3, <1>4, <1>5 DEF GInv

(* Taking up a list of fixes changes the handler only.                     *)
LEMMA ExecuteFixesKeeps ==
  ASSUME GInv, NEW I \in SUBSET (Runs \X Rules), ExecuteFixes(I)
  PROVE  GInv'
  <1>1. TypeOK'
    BY DEF GInv, TypeOK, ExecuteFixes, Idle, HandlerState, Steps
  <1>2. AtWork'
    BY DEF AtWork, ExecuteFixes, Idle, Fixing, Answering, Publishing, Removing
  <1>3. (/\ Blank /\ Unproven /\ Unraised
         /\ PublishedExists /\ OnePublished /\ PublishedIsApproved)'
    BY DEF GInv, Blank, Unproven, Unraised, PublishedExists, OnePublished,
       PublishedIsApproved, ExecuteFixes, Exists, SameDataset
  <1>4. QED
    BY <1>1, <1>2, <1>3 DEF GInv

(* The four requests that name issues.                                     *)
LEMMA IssueRequestsKeep ==
  ASSUME GInv,
         \/ \E r \in Runs, v \in Rules :
              ApproveException(r, v) \/ DismissException(r, v)
         \/ \E R \in Scopes : QuarantineAll(R) \/ DismissAll(R)
  PROVE  GInv'
  <1>1. ASSUME NEW r \in Runs, NEW v \in Rules, ApproveException(r, v)
        PROVE  GInv'
    BY <1>1, ExecuteFixesKeeps DEF ApproveException
  <1>2. ASSUME NEW r \in Runs, NEW v \in Rules, DismissException(r, v)
        PROVE  GInv'
    BY <1>2, DismissKeeps DEF DismissException
  <1>3. ASSUME NEW R \in Scopes
        PROVE  /\ OpenIssues(R) \in SUBSET (Runs \X Rules)
               /\ \A r \in Runs, v \in Rules :
                    <<r, v>> \in OpenIssues(R) => issues[r][v] \in Open
    BY <1>3 DEF OpenIssues, Scopes
  <1>4. ASSUME NEW R \in Scopes, QuarantineAll(R) PROVE GInv'
    BY <1>3, <1>4, ExecuteFixesKeeps DEF QuarantineAll
  <1>5. ASSUME NEW R \in Scopes, DismissAll(R) PROVE GInv'
    BY <1>3, <1>5, DismissKeeps DEF DismissAll
  <1>6. QED
    BY <1>1, <1>2, <1>4, <1>5

-----------------------------------------------------------------------------
(* The invariant holds in every reachable state of the gate.               *)
LEMMA InitEstablishes ==
  ASSUME Init
  PROVE  GInv
  <1>1. AbsentRun \in RunRow /\ Idle \in HandlerState
    BY DEF AbsentRun, RunRow, Idle, HandlerState, Steps
  <1>2. TypeOK
    BY <1>1, GoLiveAssumption DEF Init, TypeOK, Stages
  <1>3. Blank /\ Unproven /\ Unraised
    BY DEF Init, Blank, Unproven, Unraised, Early, AbsentRun
  <1>4. PublishedExists /\ OnePublished /\ PublishedIsApproved
    BY DEF Init, PublishedExists, OnePublished, PublishedIsApproved, AbsentRun
  <1>5. AtWork
    BY DEF Init, AtWork, Idle, Fixing, Answering, Publishing, Removing
  <1>6. QED
    BY <1>2, <1>3, <1>4, <1>5 DEF GInv

LEMMA HandlingKeeps ==
  ASSUME GInv, Handling
  PROVE  GInv'
  BY TakeIssueKeeps, QuarantineRecordsKeeps, ResolveIssueKeeps,
     FixesDoneKeeps, DEResolveKeeps, ProposeRemediationKeeps,
     UnpublishOthersKeeps, SetPublishedKeeps, RecordPublicationKeeps,
     DeleteIssuesKeeps, DeleteAuditKeeps, DeleteRowKeeps DEF Handling

LEMMA RequestKeeps ==
  ASSUME GInv, Request
  PROVE  GInv'
  BY TriggerKeeps, TriggerRetriedKeeps, ViewRunsKeeps, ViewRunKeeps,
     ApproveRunKeeps, RejectRunKeeps, DeleteRunKeeps, DEQuarantineKeeps,
     RequestFixKeeps, IssueRequestsKeep DEF Request

LEMMA PipelineKeeps ==
  ASSUME GInv, NEW r \in Runs, Pipeline(r)
  PROVE  GInv'
  BY StartEventKeeps, StoreValidationsKeeps, PersistReconciliationKeeps,
     InsertExceptionsKeeps, CompleteRunKeeps, CloseSupersededKeeps,
     FinishEventKeeps, PipelineOrphanedKeeps DEF Pipeline

THEOREM GateInvariance == Spec => []GInv
  <1>1. Init => GInv
    BY InitEstablishes
  <1>2. GInv /\ [Next]_vars => GInv'
    <2> SUFFICES ASSUME GInv, [Next]_vars PROVE GInv'
      OBVIOUS
    <2>1. CASE Next
      BY <2>1, RequestKeeps, HandlingKeeps, HandlerFailsKeeps, RebootKeeps,
         PipelineKeeps, PipelineFailsKeeps, AgeOutKeeps DEF Next
    <2>2. CASE UNCHANGED vars
      BY <2>2 DEF vars, GInv, TypeOK, Blank, Unproven, Unraised,
         PublishedExists, OnePublished, PublishedIsApproved, AtWork, Exists,
         SameDataset
    <2>3. QED
      BY <2>1, <2>2
  <1>3. QED
    BY <1>1, <1>2, PTL DEF Spec

(* Exactly one published run per dataset, with any number of crashes and   *)
(* aborted handlers between the statements of a publication.               *)
THEOREM OnePublishedAlways == Spec => []OnePublished
  <1>1. GInv => OnePublished
    BY DEF GInv
  <1>2. QED
    BY <1>1, GateInvariance, PTL

(* No run is on the dashboard without the Manager's approval.              *)
THEOREM PublishedIsApprovedAlways == Spec => []PublishedIsApproved
  <1>1. GInv => PublishedIsApproved
    BY DEF GInv
  <1>2. QED
    BY <1>1, GateInvariance, PTL

-----------------------------------------------------------------------------
(* A step leaves a decided issue to its own outcome.                       *)
Stands(r, v) ==
  /\ issues[r][v] = "dismissed" => issues'[r][v] \in {"dismissed", "none"}
  /\ issues[r][v] = "approved" =>
       issues'[r][v] \in {"approved", "resolved", "none"}

LEMMA PipelineStands ==
  ASSUME GInv, NEW q \in Runs, Pipeline(q), NEW r \in Runs, NEW v \in Rules
  PROVE  Stands(r, v)
  <1>1. CASE StartEvent(q)
    BY <1>1 DEF StartEvent, Stands, GInv, TypeOK
  <1>2. CASE PersistReconciliation(q)
    BY <1>2 DEF PersistReconciliation, Advance, RaiseIssues, Raised, Stands,
       GInv, TypeOK, Unraised, Early
  <1>3. CASE InsertExceptions(q)
    BY <1>3 DEF InsertExceptions, Advance, RaiseIssues, Raised, OtherRules,
       Stands, GInv, TypeOK, Unraised, Early
  <1>4. CASE CloseSuperseded(q)
    BY <1>4 DEF CloseSuperseded, Closed, Stands, GInv, TypeOK
  <1>5. CASE UNCHANGED issues
    BY <1>5 DEF Stands
  <1>6. QED
    BY <1>1, <1>2, <1>3, <1>4, <1>5
       DEF Pipeline, StoreValidations, CompleteRun, FinishEvent,
           PipelineOrphaned

LEMMA HandlingStands ==
  ASSUME GInv, Handling, NEW r \in Runs, NEW v \in Rules
  PROVE  Stands(r, v)
  <1>1. ASSUME NEW q \in Runs, NEW w \in Rules, TakeIssue(q, w)
        PROVE  Stands(r, v)
    BY <1>1 DEF TakeIssue, Closed, Stands, GInv, TypeOK
  <1>2. CASE ResolveIssue
    BY <1>2 DEF ResolveIssue, Resolved, Stands, GInv, TypeOK, AtWork, Fixing
  <1>3. CASE DEResolve
    BY <1>3 DEF DEResolve, Resolved, Stands, GInv, TypeOK, AtWork, Answering,
       Open
  <1>4. CASE ProposeRemediation
    BY <1>4 DEF ProposeRemediation, Stands, GInv, TypeOK, AtWork, Answering,
       Open
  <1>5. CASE DeleteIssues
    BY <1>5 DEF DeleteIssues, Stands, GInv, TypeOK, AtWork, Removing
  <1>6. CASE UNCHANGED issues
    BY <1>6 DEF Stands
  <1>7. QED
    BY <1>1, <1>2, <1>3, <1>4, <1>5, <1>6
       DEF Handling, QuarantineRecords, FixesDone, UnpublishOthers,
           SetPublished, RecordPublication, DeleteAudit, DeleteRow

LEMMA RequestStands ==
  ASSUME GInv, Request, NEW r \in Runs, NEW v \in Rules
  PROVE  Stands(r, v)
  <1>1. ASSUME NEW I, Dismiss(I),
               \A q \in Runs, w \in Rules :
                 <<q, w>> \in I => issues[q][w] \in Open
        PROVE  Stands(r, v)
    BY <1>1 DEF Dismiss, Open, Stands
  <1>2. ASSUME NEW q \in Runs, NEW w \in Rules, DismissException(q, w)
        PROVE  Stands(r, v)
    BY <1>1, <1>2 DEF DismissException
  <1>3. ASSUME NEW R \in Scopes, DismissAll(R) PROVE Stands(r, v)
    <2>1. \A q \in Runs, w \in Rules :
            <<q, w>> \in OpenIssues(R) => issues[q][w] \in Open
      BY DEF OpenIssues
    <2>2. QED
      BY <1>1, <1>3, <2>1 DEF DismissAll
  <1>4. CASE UNCHANGED issues
    BY <1>4 DEF Stands
  <1>5. QED
    BY <1>2, <1>3, <1>4
       DEF Request, Trigger, TriggerRetried, ViewRuns, ViewRun, ApproveRun,
           RejectRun, DeleteRun, ApproveException, DEQuarantine, RequestFix,
           QuarantineAll, ExecuteFixes

(* A decision stands, also against crashes and pipelines that overrun.     *)
THEOREM DecisionStandsAlways == Spec => DecisionStands
  <1>1. ASSUME GInv, [Next]_vars, NEW r \in Runs, NEW v \in Rules
        PROVE  Stands(r, v)
    <2>1. CASE Request
      BY <1>1, <2>1, RequestStands
    <2>2. CASE Handling
      BY <1>1, <2>2, HandlingStands
    <2>3. ASSUME NEW q \in Runs, Pipeline(q) PROVE Stands(r, v)
      BY <1>1, <2>3, PipelineStands
    <2>4. CASE UNCHANGED issues
      BY <2>4 DEF Stands
    <2>5. QED
      BY <1>1, <2>1, <2>2, <2>3, <2>4
         DEF Next, vars, HandlerFails, Reboot, PipelineFails, AgeOut
  <1>2. GInv /\ [Next]_vars =>
          [\A r \in Runs, v \in Rules :
             /\ issues[r][v] = "dismissed" =>
                  issues'[r][v] \in {"dismissed", "none"}
             /\ issues[r][v] = "approved" =>
                  issues'[r][v] \in {"approved", "resolved", "none"}]_vars
    BY <1>1 DEF Stands
  <1>3. QED
    BY <1>2, GateInvariance, PTL DEF Spec, DecisionStands

-----------------------------------------------------------------------------
(* Without faults, quarantined records and decisions agree: an issue is    *)
(* approved only while its fix is being carried out, and its records are   *)
(* excluded from then until the run is deleted.                            *)
About(r, v) == handler.run = r /\ handler.rule = v

RecordsOf(r, v) ==
  /\ issues[r][v] = "approved" => handler.step \in Fixing /\ About(r, v)
  /\ <<r, v>> \in quarantines =>
       \/ issues[r][v] = "resolved"
       \/ handler.step \in {"resolve", "de_resolve"} /\ About(r, v)
       \/ handler.step = "delete_audit" /\ handler.run = r
  /\ handler.step \in {"resolve", "de_resolve"} /\ About(r, v) => <<r, v>> \in quarantines
  /\ handler.step = "propose" /\ About(r, v) => <<r, v>> \notin quarantines

Records == \A r \in Runs, v \in Rules : RecordsOf(r, v)

LEMMA PipelineRecords ==
  ASSUME GInv, Records, NEW q \in Runs, Pipeline(q), NEW r \in Runs, NEW v \in Rules
  PROVE  RecordsOf(r, v)'
  <1> USE DEF RecordsOf, Records, About
  <1>1. CASE StartEvent(q)
    BY <1>1 DEF StartEvent, Advance, GInv, TypeOK, Unraised, Early, AtWork, Fixing,
       Answering, Open
  <1>2. CASE PersistReconciliation(q)
    BY <1>2 DEF PersistReconciliation, Advance, RaiseIssues, Raised, GInv, TypeOK,
       Unraised, Early, AtWork, Fixing, Answering, Open
  <1>3. CASE InsertExceptions(q)
    BY <1>3 DEF InsertExceptions, Advance, RaiseIssues, Raised, OtherRules, GInv, TypeOK,
       Unraised, Early, AtWork, Fixing, Answering, Open
  <1>4. CASE CloseSuperseded(q)
    BY <1>4 DEF CloseSuperseded, Closed, GInv, TypeOK
  <1>5. CASE UNCHANGED <<issues, quarantines, handler>>
    BY <1>5
  <1>6. QED
    BY <1>1, <1>2, <1>3, <1>4, <1>5
       DEF Pipeline, StoreValidations, CompleteRun, FinishEvent, PipelineOrphaned

LEMMA HandlingRecords ==
  ASSUME GInv, Records, Handling, NEW r \in Runs, NEW v \in Rules
  PROVE  RecordsOf(r, v)'
  <1> USE DEF RecordsOf, Records, About, GInv, TypeOK, HandlerState
  <1>1. ASSUME NEW q \in Runs, NEW w \in Rules, TakeIssue(q, w)
        PROVE  RecordsOf(r, v)'
    <2>1. handler.step = "next_issue" /\ quarantines' = quarantines
          /\ issues[r][v] # "approved" /\ (<<r, v>> \in quarantines => issues[r][v] = "resolved")
      BY <1>1 DEF TakeIssue, Fixing
    <2>2. CASE issues[q][w] \in Closed \union {"none"}
      <3>1. issues' = issues /\ handler'.step = "next_issue"
        BY <1>1, <2>2 DEF TakeIssue
      <3>2. QED
        BY <2>1, <3>1
    <2>3. CASE issues[q][w] \notin Closed \union {"none"}
      <3>1. /\ issues' = [issues EXCEPT ![q][w] = "approved"]
            /\ handler'.step = "quarantine" /\ handler'.run = q /\ handler'.rule = w
        BY <1>1, <2>3 DEF TakeIssue
      <3>2. QED
        BY <2>1, <2>3, <3>1 DEF Closed, Fixing
    <2>4. QED
      BY <2>2, <2>3
  <1>2. CASE QuarantineRecords
    BY <1>2 DEF QuarantineRecords, AtWork, Fixing
  <1>3. CASE ResolveIssue
    BY <1>3 DEF ResolveIssue, Resolved, AtWork, Fixing, Idle
  <1>4. CASE DEResolve
    BY <1>4 DEF DEResolve, Resolved, AtWork, Answering, Fixing, Open, Idle
  <1>5. CASE ProposeRemediation
    BY <1>5 DEF ProposeRemediation, AtWork, Answering, Fixing, Open, Idle
  <1>6. CASE DeleteIssues
    BY <1>6 DEF DeleteIssues, AtWork, Removing, Fixing
  <1>7. CASE DeleteAudit
    BY <1>7 DEF DeleteAudit, AtWork, Removing, Fixing
  <1>8. CASE FixesDone \/ UnpublishOthers \/ SetPublished \/ RecordPublication \/ DeleteRow
    BY <1>8 DEF FixesDone, UnpublishOthers, SetPublished, RecordPublication, DeleteRow,
       Fixing, Idle
  <1>9. QED
    BY <1>1, <1>2, <1>3, <1>4, <1>5, <1>6, <1>7, <1>8 DEF Handling

LEMMA RequestRecords ==
  ASSUME GInv, Records, Request, NEW r \in Runs, NEW v \in Rules
  PROVE  RecordsOf(r, v)'
  <1> USE DEF RecordsOf, Records, About
  <1>1. ASSUME NEW I, Dismiss(I),
               \A q \in Runs, w \in Rules : <<q, w>> \in I => issues[q][w] \in Open
        PROVE  RecordsOf(r, v)'
    BY <1>1 DEF Dismiss, Open, Idle, Fixing
  <1>2. ASSUME NEW q \in Runs, NEW w \in Rules, DismissException(q, w)
        PROVE  RecordsOf(r, v)'
    BY <1>1, <1>2 DEF DismissException
  <1>3. ASSUME NEW R \in Scopes, DismissAll(R) PROVE RecordsOf(r, v)'
    <2>1. \A q \in Runs, w \in Rules :
            <<q, w>> \in OpenIssues(R) => issues[q][w] \in Open
      BY DEF OpenIssues
    <2>2. QED
      BY <1>1, <1>3, <2>1 DEF DismissAll
  <1>4. ASSUME NEW I, ExecuteFixes(I) PROVE RecordsOf(r, v)'
    <2>1. handler.step = "idle" /\ handler'.step = "next_issue"
          /\ issues' = issues /\ quarantines' = quarantines
      BY <1>4 DEF ExecuteFixes, Idle
    <2>2. QED
      BY <2>1 DEF Fixing
  <1>5. ASSUME NEW q \in Runs, NEW w \in Rules, DEQuarantine(q, w) PROVE RecordsOf(r, v)'
    BY <1>5 DEF DEQuarantine, Idle, Fixing, Closed
  <1>6. ASSUME NEW q \in Runs, NEW w \in Rules, RequestFix(q, w) PROVE RecordsOf(r, v)'
    BY <1>6 DEF RequestFix, Idle, Fixing
  <1>7. ASSUME NEW q \in Runs, ApproveRun(q) \/ DeleteRun(q) PROVE RecordsOf(r, v)'
    <2>1. handler.step = "idle" /\ handler'.step \in {"unpublish", "delete_issues"}
          /\ issues' = issues /\ quarantines' = quarantines
      <3>1. CASE ApproveRun(q)
        BY <3>1 DEF ApproveRun, Idle
      <3>2. CASE DeleteRun(q)
        BY <3>2 DEF DeleteRun, Idle
      <3>3. QED
        BY <1>7, <3>1, <3>2
    <2>2. QED
      BY <2>1 DEF Fixing
  <1>8. CASE UNCHANGED <<issues, quarantines, handler>>
    BY <1>8
  <1>9. QED
    BY <1>2, <1>3, <1>4, <1>5, <1>6, <1>7, <1>8
       DEF Request, Trigger, TriggerRetried, ViewRuns, ViewRun, RejectRun,
           ApproveException, QuarantineAll

LEMMA NoFaults ==
  ASSUME MaxFaults = 0, GInv, [Next]_vars
  PROVE  \/ Request \/ Handling \/ (\E q \in Runs : Pipeline(q) \/ AgeOut(q))
         \/ UNCHANGED vars
  <1>1. ~(faults < MaxFaults)
    BY DEF GInv, TypeOK
  <1>2. QED
    BY <1>1 DEF Next, HandlerFails, Reboot, PipelineFails

LEMMA RecordsKeep ==
  ASSUME MaxFaults = 0, GInv, Records, [Next]_vars
  PROVE  Records'
  <1>1. ASSUME NEW r \in Runs, NEW v \in Rules PROVE RecordsOf(r, v)'
    <2>1. CASE Request
      BY <2>1, RequestRecords
    <2>2. CASE Handling
      BY <2>2, HandlingRecords
    <2>3. ASSUME NEW q \in Runs, Pipeline(q) PROVE RecordsOf(r, v)'
      BY <2>3, PipelineRecords
    <2>4. CASE UNCHANGED <<issues, quarantines, handler>>
      BY <2>4 DEF Records, RecordsOf, About
    <2>5. QED
      BY <2>1, <2>2, <2>3, <2>4, NoFaults DEF vars, AgeOut
  <1>2. QED
    BY <1>1 DEF Records

(* Without faults, when no request is in progress an approved fix has been *)
(* carried out, and excluded records are those of issues that were fixed.  *)
THEOREM RecordsMatchDecisionsAlways ==
  ASSUME MaxFaults = 0
  PROVE  Spec => []RecordsMatchDecisions
  <1>1. Init => Records
    BY DEF Init, Records, RecordsOf, About, Idle
  <1>2. GInv /\ Records /\ [Next]_vars => Records'
    BY RecordsKeep
  <1>3. Records => RecordsMatchDecisions
    <2> SUFFICES ASSUME Records, handler = Idle, NEW r \in Runs, NEW v \in Rules
                 PROVE  /\ issues[r][v] # "approved"
                        /\ <<r, v>> \in quarantines => issues[r][v] = "resolved"
      BY DEF RecordsMatchDecisions
    <2>1. handler.step = "idle"
      BY DEF Idle
    <2>2. QED
      BY <2>1 DEF Records, RecordsOf, Fixing
  <1>4. QED
    BY <1>1, <1>2, <1>3, GateInvariance, PTL DEF Spec

-----------------------------------------------------------------------------
(* Without faults and overruns no run fails, and a run is completed only   *)
(* when its pipeline has raised all it found.                              *)
Before == {"start", "validate", "reconcile", "raise", "complete"}
Late == {"supersede", "finish", "none"}

Timely ==
  /\ aged = {}
  /\ \A r \in Runs :
       /\ runs[r].status = "running" => pipeline[r] \in Before
       /\ runs[r].status = "completed" => pipeline[r] \in Late
       /\ runs[r].status # "failed"

LEMMA StatusOnly ==
  ASSUME TypeOK, NEW r \in Runs, NEW s \in {"completed", "failed", "rejected"}, NEW q \in Runs
  PROVE  /\ WithStatus(r, s)[q].dataset = runs[q].dataset
         /\ WithStatus(r, s)[q].published = runs[q].published
         /\ WithStatus(r, s)[q].status = IF q = r /\ Exists(r) THEN s ELSE runs[q].status
  BY DEF WithStatus, TypeOK, RunRow

(* The pages that sweep and reconcile find nothing to do.                  *)
LEMMA ViewsChangeNothing ==
  ASSUME GInv, Timely,
         (\E d \in Datasets : ViewRuns(d)) \/ (\E q \in Runs : ViewRun(q))
  PROVE  UNCHANGED vars
  <1>1. \A r \in Runs : Reconciled(runs[r], r) = runs[r] /\ r \notin Swept
    BY DEF Timely, Reconciled, Swept
  <1>2. runs = [r \in Runs |-> runs[r]]
    BY DEF GInv, TypeOK
  <1>3. runs' = runs
    BY <1>1, <1>2 DEF ViewRuns, ViewRun
  <1>4. QED
    BY <1>3 DEF ViewRuns, ViewRun, vars

LEMMA TimelyKeeps ==
  ASSUME MaxFaults = 0, ~Overrun, GInv, Timely, [Next]_vars
  PROVE  Timely'
  <1> USE DEF GInv, TypeOK
  <1>1. ASSUME NEW r \in Runs, NEW d \in Datasets, Trigger(r, d) PROVE Timely'
    <2>1. NewRun(d).status = "running" /\ NewRun(d) \in RunRow
      BY NewRows DEF NewRun, AbsentRun
    <2>2. \A q \in Runs : IF q = r THEN runs'[q].status = "running" /\ pipeline'[q] = "start"
                          ELSE runs'[q] = runs[q] /\ pipeline'[q] = pipeline[q]
      BY <1>1, <2>1 DEF Trigger
    <2>3. QED
      BY <1>1, <2>2 DEF Trigger, Timely, Before
  <1>2. ASSUME NEW r \in Runs, CompleteRun(r) PROVE Timely'
    <2>1. \A q \in Runs :
            /\ runs'[q].status = IF q = r /\ Exists(r) THEN "completed" ELSE runs[q].status
            /\ pipeline'[q] = IF q = r THEN "supersede" ELSE pipeline[q]
      BY <1>2, StatusOnly DEF CompleteRun, Advance
    <2>2. QED
      BY <1>2, <2>1 DEF CompleteRun, Timely, Late, Before, Exists
  <1>3. ASSUME NEW r \in Runs, RejectRun(r) PROVE Timely'
    <2>1. \A q \in Runs :
            runs'[q].status = IF q = r /\ Exists(r) THEN "rejected" ELSE runs[q].status
      BY <1>3, StatusOnly DEF RejectRun
    <2>2. QED
      BY <1>3, <2>1 DEF RejectRun, Timely
  <1>4. CASE DeleteRow
    <2>1. \A q \in Runs : runs'[q].status \in {runs[q].status, "deleted"}
      BY <1>4 DEF DeleteRow, RunRow
    <2>2. QED
      BY <1>4, <2>1 DEF DeleteRow, Timely
  <1>5. CASE /\ UNCHANGED <<aged, pipeline>>
             /\ \A q \in Runs : runs'[q].status = runs[q].status
    BY <1>5 DEF Timely
  <1>6. ASSUME NEW r \in Runs, Pipeline(r), ~CompleteRun(r) PROVE Timely'
    <2>1. UNCHANGED <<aged, runs>> /\ \A q \in Runs \ {r} : pipeline'[q] = pipeline[q]
      BY <1>6 DEF Pipeline, StartEvent, StoreValidations, PersistReconciliation, InsertExceptions,
         RaiseIssues, CloseSuperseded, FinishEvent, PipelineOrphaned, Advance
    <2>2. \/ pipeline[r] \in Before /\ pipeline'[r] \in Before
          \/ pipeline[r] \in Late /\ pipeline'[r] \in Late
          \/ ~Exists(r)
      BY <1>6 DEF Pipeline, StartEvent, StoreValidations, PersistReconciliation, InsertExceptions,
         CompleteRun, CloseSuperseded, FinishEvent, PipelineOrphaned, Advance, Before, Late
    <2>3. QED
      BY <2>1, <2>2 DEF Timely, Before, Late, Exists
  <1>7. ASSUME NEW r \in Runs, AgeOut(r) PROVE Timely'
    BY <1>7 DEF AgeOut, Timely, Before
  <1>8. CASE Request
    <2>1. ~(\E r, q \in Runs, d \in Datasets : TriggerRetried(r, q, d))
      BY DEF TriggerRetried
    <2>2. ASSUME NEW r \in Runs, ApproveRun(r) PROVE Timely'
      BY <1>5, <2>2 DEF ApproveRun, RunRow
    <2>3. CASE (\E d \in Datasets : ViewRuns(d)) \/ (\E q \in Runs : ViewRun(q))
      BY <1>5, <2>3, ViewsChangeNothing DEF vars
    <2>4. CASE UNCHANGED <<aged, pipeline, runs>>
      BY <1>5, <2>4
    <2>5. QED
      BY <1>1, <1>3, <1>8, <2>1, <2>2, <2>3, <2>4
         DEF Request, DeleteRun, ApproveException, QuarantineAll, ExecuteFixes, DEQuarantine,
             RequestFix, DismissException, DismissAll, Dismiss
  <1>9. CASE Handling
    <2>1. CASE UnpublishOthers \/ SetPublished \/ DeleteAudit
      <3>1. \A q \in Runs : runs'[q].status = runs[q].status
        <4>1. CASE UnpublishOthers
          BY <4>1 DEF UnpublishOthers, RunRow
        <4>2. CASE SetPublished
          BY <4>2 DEF SetPublished, RunRow
        <4>3. CASE DeleteAudit
          BY <4>3 DEF DeleteAudit, RunRow
        <4>4. QED
          BY <2>1, <4>1, <4>2, <4>3
      <3>2. QED
        BY <1>5, <2>1, <3>1 DEF UnpublishOthers, SetPublished, DeleteAudit
    <2>2. CASE UNCHANGED <<aged, pipeline, runs>>
      BY <1>5, <2>2
    <2>3. QED
      BY <1>4, <1>9, <2>1, <2>2
         DEF Handling, TakeIssue, QuarantineRecords, ResolveIssue, FixesDone, DEResolve,
             ProposeRemediation, RecordPublication, DeleteIssues
  <1>10. QED
    BY <1>2, <1>5, <1>6, <1>7, <1>8, <1>9, NoFaults DEF vars

-----------------------------------------------------------------------------
(* What the issues of a run owe to the verdicts on its dataset: each rule  *)
(* that fails in the latest period has its issue once the pipeline has     *)
(* come that far, and an issue is closed without being dismissed only by   *)
(* its fix or by another run of the dataset.                               *)
RaisedBy(r, v) ==
  \/ pipeline[r] \in Late \union {"complete"}
  \/ pipeline[r] = "raise" /\ v = ReconRule

Superseder(r) ==
  \E q \in Runs : q # r /\ SameDataset(q, r) /\ runs[q].status # "absent"

Due(r, v) == RaisedBy(r, v) /\ Exists(r) /\ ~Deleting(r) /\ Verdict(r, v) = "current"

Owed(r, v) ==
  /\ issues[r][v] # "none"
  /\ issues[r][v] = "resolved" => <<r, v>> \in quarantines \/ Superseder(r)

Accounted == \A r \in Runs, v \in Rules : Due(r, v) => Owed(r, v)

(* A run that is published, or about to be, has nothing left to decide.    *)
OnDisplay(r) ==
  runs[r].published \/ (handler.step \in Publishing /\ handler.run = r)

Decided == {"none", "dismissed", "resolved"}

Displayed ==
  \A r \in Runs :
    /\ OnDisplay(r) => pipeline[r] \in Late /\ \A v \in Rules : issues[r][v] \in Decided
    /\ handler.step = "propose" /\ handler.run = r => ~runs[r].published

SInv == Records /\ Timely /\ Accounted /\ Displayed

(* Rows keep their dataset, and a run begins with its pipeline.            *)
RowStays(r) ==
  /\ runs[r].status # "absent" =>
       runs'[r].status # "absent" /\ runs'[r].dataset = runs[r].dataset
  /\ Exists(r)' => Exists(r) \/ pipeline'[r] = "start"

LEMMA RowsStay ==
  ASSUME MaxFaults = 0, GInv, Timely, [Next]_vars
  PROVE  verdicts' = verdicts /\ \A r \in Runs : RowStays(r)
  <1> USE DEF GInv, TypeOK
  <1>1. verdicts' = verdicts
    BY NoFaults
       DEF Request, Trigger, TriggerRetried, ViewRuns, ViewRun, ApproveRun, RejectRun, DeleteRun,
           ApproveException, QuarantineAll, ExecuteFixes, DEQuarantine, RequestFix,
              DismissException,
           DismissAll, Dismiss, Handling, TakeIssue, QuarantineRecords, ResolveIssue, FixesDone,
           DEResolve, ProposeRemediation, UnpublishOthers, SetPublished, RecordPublication,
           DeleteIssues, DeleteAudit, DeleteRow, Pipeline, StartEvent, StoreValidations,
           PersistReconciliation, InsertExceptions, RaiseIssues, CompleteRun, CloseSuperseded,
           FinishEvent, PipelineOrphaned, AgeOut, vars
  <1>2. CASE UNCHANGED runs
    BY <1>1, <1>2 DEF RowStays, Exists
  <1>3. ASSUME NEW r \in Runs, NEW d \in Datasets, Trigger(r, d), NEW q \in Runs PROVE RowStays(q)
    <2>1. CASE q = r
      BY <1>3, <2>1 DEF Trigger, RowStays
    <2>2. CASE q # r
      BY <1>3, <2>2 DEF Trigger, RowStays, Exists
    <2>3. QED
      BY <2>1, <2>2
  <1>4. ASSUME NEW r \in Runs, NEW s \in {"completed", "rejected"}, runs' = WithStatus(r, s),
               NEW q \in Runs
        PROVE  RowStays(q)
    BY <1>4, StatusOnly DEF RowStays, Exists
  <1>5. ASSUME NEW q \in Runs, UnpublishOthers PROVE RowStays(q)
    BY <1>5 DEF UnpublishOthers, RowStays, Exists, RunRow
  <1>6. ASSUME NEW q \in Runs, SetPublished PROVE RowStays(q)
    BY <1>6 DEF SetPublished, RowStays, Exists, RunRow
  <1>7. ASSUME NEW q \in Runs, DeleteAudit PROVE RowStays(q)
    BY <1>7 DEF DeleteAudit, RowStays, Exists, RunRow
  <1>8. ASSUME NEW q \in Runs, DeleteRow PROVE RowStays(q)
    BY <1>8 DEF DeleteRow, RowStays, Exists, RunRow
  <1>9. ASSUME NEW q \in Runs, NEW r \in Runs, ApproveRun(r) PROVE RowStays(q)
    BY <1>9 DEF ApproveRun, RowStays, Exists, RunRow
  <1>10. CASE Request
    <2>1. ~(\E r, q \in Runs, d \in Datasets : TriggerRetried(r, q, d))
      BY DEF TriggerRetried
    <2>2. ASSUME NEW r \in Runs, RejectRun(r), NEW q \in Runs PROVE RowStays(q)
      BY <1>4, <2>2 DEF RejectRun
    <2>3. CASE (\E d \in Datasets : ViewRuns(d)) \/ (\E q \in Runs : ViewRun(q))
      BY <1>2, <2>3, ViewsChangeNothing DEF vars
    <2>4. QED
      BY <1>1, <1>2, <1>3, <1>9, <1>10, <2>1, <2>2, <2>3
         DEF Request, DeleteRun, ApproveException, QuarantineAll, ExecuteFixes, DEQuarantine,
             RequestFix, DismissException, DismissAll, Dismiss
  <1>11. CASE Handling
    BY <1>1, <1>2, <1>5, <1>6, <1>7, <1>8, <1>11
       DEF Handling, TakeIssue, QuarantineRecords, ResolveIssue, FixesDone, DEResolve,
           ProposeRemediation, RecordPublication, DeleteIssues
  <1>12. ASSUME NEW r \in Runs, Pipeline(r) PROVE \A q \in Runs : RowStays(q)
    BY <1>1, <1>2, <1>4, <1>12
       DEF Pipeline, StartEvent, StoreValidations, PersistReconciliation, InsertExceptions,
           RaiseIssues, CompleteRun, CloseSuperseded, FinishEvent, PipelineOrphaned
  <1>13. QED
    BY <1>1, <1>2, <1>10, <1>11, <1>12, NoFaults DEF vars, AgeOut

LEMMA SupersederStays ==
  ASSUME \A q \in Runs : RowStays(q), NEW r \in Runs, Exists(r), Superseder(r)
  PROVE  Superseder(r)'
  BY DEF RowStays, Superseder, SameDataset, Exists

(* What a step may do to an issue that is due.                             *)
Fares(r, v) ==
  Due(r, v)' =>
    \/ issues'[r][v] \in {"open", "awaiting_approval", "approved", "dismissed"}
    \/ /\ Due(r, v)
       /\ issues'[r][v] = issues[r][v]
       /\ <<r, v>> \in quarantines => <<r, v>> \in quarantines'
    \/ issues'[r][v] = "resolved" /\ (<<r, v>> \in quarantines' \/ Superseder(r)')

(* A step of somebody else's, or one that leaves the issue alone.          *)
LEMMA LeftAlone ==
  ASSUME verdicts' = verdicts, NEW r \in Runs, NEW v \in Rules, RowStays(r),
         pipeline'[r] = pipeline[r] \/ (RaisedBy(r, v)' => RaisedBy(r, v)),
         Deleting(r) => Deleting(r)' \/ ~Exists(r)',
         issues'[r][v] = issues[r][v],
         <<r, v>> \in quarantines => <<r, v>> \in quarantines' \/ Deleting(r)'
  PROVE  Fares(r, v)
  <1>1. SUFFICES ASSUME Due(r, v)' PROVE Due(r, v)
    BY DEF Fares, Due
  <1>2. RaisedBy(r, v)' /\ Exists(r)' /\ ~Deleting(r)' /\ Verdict(r, v)' = "current"
    BY <1>1 DEF Due
  <1>3. RaisedBy(r, v)
    BY <1>2 DEF RaisedBy
  <1>4. Exists(r)
    BY <1>2 DEF RowStays, RaisedBy, Late
  <1>5. Verdict(r, v) = "current"
    BY <1>2, <1>4 DEF RowStays, Verdict, Exists
  <1>6. QED
    BY <1>2, <1>3, <1>4, <1>5 DEF Due

LEMMA PipelineFares ==
  ASSUME GInv, verdicts' = verdicts, \A p \in Runs : RowStays(p),
         NEW q \in Runs, Pipeline(q), NEW r \in Runs, NEW v \in Rules
  PROVE  Fares(r, v)
  <1> USE DEF GInv, TypeOK
  <1>1. quarantines' = quarantines /\ handler' = handler
        /\ \A p \in Runs \ {q} : pipeline'[p] = pipeline[p]
    BY DEF Pipeline, StartEvent, StoreValidations, PersistReconciliation, InsertExceptions,
       RaiseIssues, CompleteRun, CloseSuperseded, FinishEvent, PipelineOrphaned, Advance
  <1>2. Deleting(r) => Deleting(r)'
    BY <1>1 DEF Deleting
  <1>3. CASE StartEvent(q) \/ StoreValidations(q)
    <2>1. CASE q = r
      <3>1. pipeline'[r] \in {"validate", "reconcile"}
        BY <1>3, <2>1 DEF StartEvent, StoreValidations, Advance
      <3>2. QED
        BY <3>1 DEF Fares, Due, RaisedBy, Late
    <2>2. CASE q # r
      BY <1>1, <1>2, <1>3, <2>2, LeftAlone DEF StartEvent, StoreValidations
    <2>3. QED
      BY <2>1, <2>2
  <1>4. CASE PersistReconciliation(q)
    <2>1. CASE q = r /\ v = ReconRule
      BY <1>4, <2>1 DEF PersistReconciliation, RaiseIssues, Raised, Fares, Due, Verdict,
         RowStays, Exists
    <2>2. CASE q = r /\ v # ReconRule
      <3>1. pipeline'[r] = "raise"
        BY <1>4, <2>2 DEF PersistReconciliation, Advance
      <3>2. QED
        BY <2>2, <3>1 DEF Fares, Due, RaisedBy, Late
    <2>3. CASE q # r
      BY <1>1, <1>2, <1>4, <2>3, LeftAlone DEF PersistReconciliation, RaiseIssues
    <2>4. QED
      BY <2>1, <2>2, <2>3
  <1>5. CASE InsertExceptions(q)
    <2>1. CASE q = r /\ v # ReconRule
      <3>1. Due(r, v)' => Verdict(r, v) = "current"
        BY <1>5, <2>1 DEF InsertExceptions, RaiseIssues, Due, Verdict
      <3>2. QED
        BY <1>5, <2>1, <3>1 DEF InsertExceptions, OtherRules, RaiseIssues, Raised, Fares
    <2>2. CASE q = r /\ v = ReconRule
      <3>1. pipeline[r] = "raise"
        BY <1>5, <2>2 DEF InsertExceptions, Advance
      <3>2. RaisedBy(r, v)
        BY <2>2, <3>1 DEF RaisedBy
      <3>3. issues'[r][v] = issues[r][v]
        BY <1>5, <2>2 DEF InsertExceptions, OtherRules, RaiseIssues, Raised
      <3>4. QED
        BY <1>1, <1>2, <3>2, <3>3, LeftAlone
    <2>3. CASE q # r
      BY <1>1, <1>2, <1>5, <2>3, LeftAlone DEF InsertExceptions, RaiseIssues
    <2>4. QED
      BY <2>1, <2>2, <2>3
  <1>6. CASE CompleteRun(q) \/ FinishEvent(q)
    <2>1. RaisedBy(r, v)' => RaisedBy(r, v)
      BY <1>1, <1>6 DEF CompleteRun, FinishEvent, Advance, RaisedBy, Late
    <2>2. issues' = issues
      BY <1>6 DEF CompleteRun, FinishEvent
    <2>3. QED
      BY <1>1, <1>2, <2>1, <2>2, LeftAlone
  <1>7. CASE CloseSuperseded(q)
    <2>1. RaisedBy(r, v)' => RaisedBy(r, v)
      BY <1>1, <1>7 DEF CloseSuperseded, Advance, RaisedBy, Late
    <2>2. CASE Superseded(r, q)
      <3>1. runs[q].status # "absent" /\ runs' = runs
        BY <1>7 DEF CloseSuperseded, Advance, Blank
      <3>2. Superseder(r)'
        BY <2>2, <3>1 DEF Superseded, Superseder, SameDataset
      <3>3. issues'[r][v] \in {issues[r][v], "resolved"}
        BY <1>7 DEF CloseSuperseded
      <3>4. CASE issues'[r][v] = issues[r][v]
        BY <1>1, <1>2, <2>1, <3>4, LeftAlone
      <3>5. CASE issues'[r][v] = "resolved"
        BY <3>2, <3>5 DEF Fares
      <3>6. QED
        BY <3>3, <3>4, <3>5
    <2>3. CASE ~Superseded(r, q)
      <3>1. issues'[r][v] = issues[r][v]
        BY <1>7, <2>3 DEF CloseSuperseded
      <3>2. QED
        BY <1>1, <1>2, <2>1, <3>1, LeftAlone
    <2>4. QED
      BY <2>2, <2>3
  <1>8. CASE PipelineOrphaned(q)
    <2>1. CASE q = r
      BY <1>8, <2>1 DEF PipelineOrphaned, Fares, Due, Exists
    <2>2. CASE q # r
      BY <1>1, <1>2, <1>8, <2>2, LeftAlone DEF PipelineOrphaned
    <2>3. QED
      BY <2>1, <2>2
  <1>9. QED
    BY <1>3, <1>4, <1>5, <1>6, <1>7, <1>8 DEF Pipeline

LEMMA HandlingFares ==
  ASSUME GInv, Records, verdicts' = verdicts, \A p \in Runs : RowStays(p),
         Handling, NEW r \in Runs, NEW v \in Rules
  PROVE  Fares(r, v)
  <1> USE DEF GInv, TypeOK
  <1>1. pipeline' = pipeline
    BY DEF Handling, TakeIssue, QuarantineRecords, ResolveIssue, FixesDone, DEResolve,
       ProposeRemediation, UnpublishOthers, SetPublished, RecordPublication, DeleteIssues,
       DeleteAudit, DeleteRow
  <1>2. ASSUME NEW q \in Runs, NEW w \in Rules, TakeIssue(q, w)
        PROVE  Fares(r, v)
    <2>1. issues'[r][v] = issues[r][v] \/ issues'[r][v] = "approved"
      BY <1>2 DEF TakeIssue
    <2>2. ~Deleting(r) /\ quarantines' = quarantines
      BY <1>2 DEF TakeIssue, Deleting
    <2>3. CASE issues'[r][v] = issues[r][v]
      BY <1>1, <2>2, <2>3, LeftAlone
    <2>4. CASE issues'[r][v] = "approved"
      BY <2>4 DEF Fares
    <2>5. QED
      BY <2>1, <2>3, <2>4
  <1>3. CASE ResolveIssue \/ DEResolve
    <2>1. ~Deleting(r) /\ quarantines' = quarantines
      BY <1>3 DEF ResolveIssue, DEResolve, Deleting
    <2>2. CASE About(r, v)
      <3>1. issues'[r][v] = "resolved"
        BY <1>3, <2>2 DEF ResolveIssue, DEResolve, Resolved, About, AtWork, Fixing, Answering, Open
      <3>2. <<r, v>> \in quarantines'
        BY <1>3, <2>1, <2>2 DEF ResolveIssue, DEResolve, Records, RecordsOf
      <3>3. QED
        BY <3>1, <3>2 DEF Fares
    <2>3. CASE ~About(r, v)
      <3>1. issues'[r][v] = issues[r][v]
        BY <1>3, <2>3 DEF ResolveIssue, DEResolve, Resolved, About
      <3>2. QED
        BY <1>1, <2>1, <3>1, LeftAlone
    <2>4. QED
      BY <2>2, <2>3
  <1>4. CASE ProposeRemediation
    <2>1. ~Deleting(r) /\ quarantines' = quarantines
      BY <1>4 DEF ProposeRemediation, Deleting
    <2>2. issues'[r][v] = issues[r][v] \/ issues'[r][v] = "awaiting_approval"
      BY <1>4 DEF ProposeRemediation
    <2>3. CASE issues'[r][v] = issues[r][v]
      BY <1>1, <2>1, <2>3, LeftAlone
    <2>4. CASE issues'[r][v] = "awaiting_approval"
      BY <2>4 DEF Fares
    <2>5. QED
      BY <2>2, <2>3, <2>4
  <1>5. CASE DeleteIssues
    <2>1. CASE r = handler.run
      <3>1. Deleting(r)'
        BY <1>5, <2>1 DEF DeleteIssues, Deleting, HandlerState
      <3>2. QED
        BY <3>1 DEF Fares, Due
    <2>2. CASE r # handler.run
      BY <1>1, <1>5, <2>2, LeftAlone DEF DeleteIssues, Deleting
    <2>3. QED
      BY <2>1, <2>2
  <1>6. CASE DeleteAudit
    <2>1. handler'.run = handler.run /\ handler'.step = "delete_run"
      BY <1>6 DEF DeleteAudit, HandlerState
    <2>2. <<r, v>> \in quarantines => <<r, v>> \in quarantines' \/ Deleting(r)'
      BY <1>6, <2>1 DEF DeleteAudit, Deleting
    <2>3. Deleting(r) => Deleting(r)'
      BY <1>6, <2>1 DEF DeleteAudit, Deleting
    <2>4. QED
      BY <1>1, <1>6, <2>2, <2>3, LeftAlone DEF DeleteAudit
  <1>7. CASE DeleteRow
    <2>1. Deleting(r) => ~Exists(r)'
      BY <1>7 DEF DeleteRow, Deleting, Exists, RunRow
    <2>2. QED
      BY <1>1, <1>7, <2>1, LeftAlone DEF DeleteRow
  <1>8. CASE QuarantineRecords \/ FixesDone \/ UnpublishOthers \/ SetPublished \/ RecordPublication
    <2>1. ~Deleting(r) /\ issues' = issues /\ quarantines \subseteq quarantines'
      BY <1>8 DEF QuarantineRecords, FixesDone, UnpublishOthers, SetPublished, RecordPublication,
         Deleting
    <2>2. QED
      BY <1>1, <2>1, LeftAlone
  <1>9. QED
    BY <1>2, <1>3, <1>4, <1>5, <1>6, <1>7, <1>8 DEF Handling

LEMMA RequestFares ==
  ASSUME MaxFaults = 0, GInv, Timely, verdicts' = verdicts, \A p \in Runs : RowStays(p),
         Request, NEW r \in Runs, NEW v \in Rules
  PROVE  Fares(r, v)
  <1> USE DEF GInv, TypeOK
  <1>1. handler = Idle /\ quarantines \subseteq quarantines'
    BY DEF Request, Trigger, TriggerRetried, ViewRuns, ViewRun, ApproveRun, RejectRun, DeleteRun,
       ApproveException, QuarantineAll, ExecuteFixes, DEQuarantine, RequestFix, DismissException,
       DismissAll, Dismiss
  <1>2. ~Deleting(r)
    BY <1>1 DEF Deleting, Idle
  <1>3. issues'[r][v] \in {issues[r][v], "dismissed"}
    <2>1. ASSUME NEW I, Dismiss(I) PROVE issues'[r][v] \in {issues[r][v], "dismissed"}
      BY <2>1 DEF Dismiss
    <2>2. issues' = issues \/ \E I : Dismiss(I)
      BY DEF Request, Trigger, TriggerRetried, ViewRuns, ViewRun, ApproveRun, RejectRun, DeleteRun,
         ApproveException, QuarantineAll, ExecuteFixes, DEQuarantine, RequestFix, DismissException,
         DismissAll
    <2>3. QED
      BY <2>1, <2>2
  <1>4. RaisedBy(r, v)' => RaisedBy(r, v)
    <2>1. pipeline' = pipeline \/ \E q \in Runs : pipeline' = [pipeline EXCEPT ![q] = "start"]
      BY DEF Request, Trigger, TriggerRetried, ViewRuns, ViewRun, ApproveRun, RejectRun, DeleteRun,
         ApproveException, QuarantineAll, ExecuteFixes, DEQuarantine, RequestFix, DismissException,
         DismissAll, Dismiss
    <2>2. QED
      BY <2>1 DEF RaisedBy, Late
  <1>5. CASE issues'[r][v] = issues[r][v]
    BY <1>1, <1>2, <1>4, <1>5, LeftAlone
  <1>6. CASE issues'[r][v] = "dismissed"
    BY <1>6 DEF Fares
  <1>7. QED
    BY <1>3, <1>5, <1>6

LEMMA AccountedKeeps ==
  ASSUME MaxFaults = 0, GInv, Records, Timely, Accounted, [Next]_vars
  PROVE  Accounted'
  <1>1. verdicts' = verdicts /\ \A p \in Runs : RowStays(p)
    BY RowsStay
  <1>2. ASSUME NEW r \in Runs, NEW v \in Rules PROVE Fares(r, v)
    <2>1. CASE UNCHANGED <<pipeline, handler, issues, quarantines>>
      BY <1>1, <2>1, LeftAlone DEF Deleting
    <2>2. QED
      BY <1>1, <2>1, NoFaults, RequestFares, HandlingFares, PipelineFares DEF vars, AgeOut
  <1>3. ASSUME NEW r \in Runs, NEW v \in Rules, Due(r, v)' PROVE Owed(r, v)'
    <2>1. CASE issues'[r][v] \in {"open", "awaiting_approval", "approved", "dismissed"}
      BY <2>1 DEF Owed
    <2>2. CASE /\ Due(r, v)
               /\ issues'[r][v] = issues[r][v]
               /\ <<r, v>> \in quarantines => <<r, v>> \in quarantines'
      <3>1. Exists(r) /\ Owed(r, v)
        BY <2>2 DEF Due, Accounted
      <3>2. Superseder(r) => Superseder(r)'
        BY <1>1, <3>1, SupersederStays
      <3>3. QED
        BY <2>2, <3>1, <3>2 DEF Owed
    <2>3. CASE issues'[r][v] = "resolved" /\ (<<r, v>> \in quarantines' \/ Superseder(r)')
      BY <2>3 DEF Owed
    <2>4. QED
      BY <1>2, <1>3, <2>1, <2>2, <2>3 DEF Fares
  <1>4. QED
    BY <1>3 DEF Accounted

(* Nothing is displayed but what was, and what the gate lets through.      *)
LEMMA DisplayBegins ==
  ASSUME MaxFaults = 0, GInv, Timely, [Next]_vars, NEW r \in Runs, OnDisplay(r)'
  PROVE  OnDisplay(r) \/ ApproveRun(r)
  <1> USE DEF GInv, TypeOK
  <1>1. CASE Request
    <2>1. ASSUME NEW q \in Runs, NEW d \in Datasets, Trigger(q, d) PROVE OnDisplay(r)
      BY <2>1, NewRows DEF Trigger, OnDisplay, NewRun, AbsentRun, Idle, Publishing
    <2>2. ASSUME NEW q \in Runs, RejectRun(q) PROVE OnDisplay(r)
      BY <2>2, StatusOnly DEF RejectRun, OnDisplay
    <2>3. ASSUME NEW q \in Runs, ApproveRun(q) PROVE OnDisplay(r) \/ q = r
      BY <2>3 DEF ApproveRun, OnDisplay, Idle, HandlerState, RunRow
    <2>4. ASSUME NEW q \in Runs, DeleteRun(q) PROVE OnDisplay(r)
      BY <2>4 DEF DeleteRun, OnDisplay, Idle, Publishing
    <2>5. ASSUME NEW q \in Runs, NEW w \in Rules, DEQuarantine(q, w) \/ RequestFix(q, w)
          PROVE  OnDisplay(r)
      BY <2>5 DEF DEQuarantine, RequestFix, OnDisplay, Idle, Publishing
    <2>6. ASSUME NEW I, ExecuteFixes(I) PROVE OnDisplay(r)
      BY <2>6 DEF ExecuteFixes, OnDisplay, Idle, Publishing
    <2>7. CASE UNCHANGED <<runs, handler>>
      BY <2>7 DEF OnDisplay
    <2>8. ~(\E p, q \in Runs, d \in Datasets : TriggerRetried(p, q, d))
      BY DEF TriggerRetried
    <2>9. CASE (\E d \in Datasets : ViewRuns(d)) \/ (\E q \in Runs : ViewRun(q))
      BY <2>7, <2>9, ViewsChangeNothing DEF vars
    <2>10. QED
      BY <1>1, <2>1, <2>2, <2>3, <2>4, <2>5, <2>6, <2>7, <2>8, <2>9
         DEF Request, ApproveException, QuarantineAll, DismissException, DismissAll, Dismiss
  <1>2. CASE Handling
    <2>1. ASSUME NEW q \in Runs, NEW w \in Rules, TakeIssue(q, w) PROVE OnDisplay(r)
      <3>1. runs' = runs /\ handler'.step \in {"next_issue", "quarantine"}
        <4>1. CASE issues[q][w] \in Closed \union {"none"}
          BY <2>1, <4>1 DEF TakeIssue, HandlerState
        <4>2. CASE issues[q][w] \notin Closed \union {"none"}
          BY <2>1, <4>2 DEF TakeIssue
        <4>3. QED
          BY <4>1, <4>2
      <3>2. QED
        BY <3>1 DEF OnDisplay, Publishing
    <2>2. CASE QuarantineRecords \/ ResolveIssue \/ FixesDone \/ DEResolve \/ ProposeRemediation
      <3>1. handler'.step \in {"resolve", "next_issue", "idle"}
        <4>1. CASE QuarantineRecords
          BY <4>1 DEF QuarantineRecords, HandlerState
        <4>2. CASE ResolveIssue
          BY <4>2 DEF ResolveIssue, Idle
        <4>3. CASE FixesDone \/ DEResolve \/ ProposeRemediation
          BY <4>3 DEF FixesDone, DEResolve, ProposeRemediation, Idle
        <4>4. QED
          BY <2>2, <4>1, <4>2, <4>3
      <3>2. runs' = runs
        BY <2>2 DEF QuarantineRecords, ResolveIssue, FixesDone, DEResolve, ProposeRemediation
      <3>3. QED
        BY <3>1, <3>2 DEF OnDisplay, Publishing
    <2>3. CASE UnpublishOthers
      BY <2>3 DEF UnpublishOthers, OnDisplay, Publishing, HandlerState, RunRow
    <2>4. CASE SetPublished
      BY <2>4 DEF SetPublished, OnDisplay, Publishing, HandlerState, RunRow
    <2>5. CASE RecordPublication
      BY <2>5 DEF RecordPublication, OnDisplay, Publishing, Idle
    <2>6. CASE DeleteIssues \/ DeleteAudit
      <3>1. handler'.step \in {"delete_audit", "delete_run"}
        BY <2>6 DEF DeleteIssues, DeleteAudit, HandlerState
      <3>2. runs'[r].published = runs[r].published
        <4>1. CASE DeleteIssues
          BY <4>1 DEF DeleteIssues
        <4>2. CASE DeleteAudit
          BY <4>2 DEF DeleteAudit, RunRow
        <4>3. QED
          BY <2>6, <4>1, <4>2
      <3>3. QED
        BY <3>1, <3>2 DEF OnDisplay, Publishing
    <2>7. CASE DeleteRow
      BY <2>7 DEF DeleteRow, OnDisplay, Publishing, Idle, RunRow
    <2>8. QED
      BY <1>2, <2>1, <2>2, <2>3, <2>4, <2>5, <2>6, <2>7 DEF Handling
  <1>3. ASSUME NEW q \in Runs, Pipeline(q) PROVE OnDisplay(r)
    <2>1. CASE CompleteRun(q)
      BY <2>1, StatusOnly DEF CompleteRun, OnDisplay
    <2>2. CASE UNCHANGED <<runs, handler>>
      BY <2>2 DEF OnDisplay
    <2>3. QED
      BY <1>3, <2>1, <2>2
         DEF Pipeline, StartEvent, StoreValidations, PersistReconciliation, InsertExceptions,
             RaiseIssues, CloseSuperseded, FinishEvent, PipelineOrphaned
  <1>4. CASE UNCHANGED <<runs, handler>>
    BY <1>4 DEF OnDisplay
  <1>5. QED
    BY <1>1, <1>2, <1>3, <1>4, NoFaults DEF vars, AgeOut

(* The gate.                                                               *)
LEMMA GateDecided ==
  ASSUME GInv, Records, Timely, NEW r \in Runs, ApproveRun(r)
  PROVE  pipeline[r] \in Late /\ \A v \in Rules : issues[r][v] \in Decided
  <1>1. runs[r].status = "completed" /\ ~HasOpenIssue(r) /\ handler.step = "idle"
    BY DEF ApproveRun, GatePasses, Idle
  <1>2. QED
    BY <1>1 DEF GInv, TypeOK, HasOpenIssue, Timely, Records, RecordsOf, Fixing, Open, Closed,
       Decided

LEMMA DecidedStays ==
  ASSUME MaxFaults = 0, GInv, Records, Timely, Displayed, [Next]_vars, NEW r \in Runs,
         OnDisplay(r) \/ ApproveRun(r)
  PROVE  pipeline'[r] \in Late /\ \A v \in Rules : issues'[r][v] \in Decided
  <1> USE DEF GInv, TypeOK
  <1>1. pipeline[r] \in Late /\ \A v \in Rules : issues[r][v] \in Decided
    BY GateDecided DEF Displayed
  <1>2. CASE Request
    <2>1. ASSUME NEW q \in Runs, NEW d \in Datasets, Trigger(q, d), q = r PROVE FALSE
      BY <2>1 DEF Trigger, OnDisplay, ApproveRun, GatePasses, Blank, Idle, Publishing
    <2>2. pipeline'[r] = pipeline[r]
      <3>1. ASSUME NEW q \in Runs, NEW d \in Datasets, Trigger(q, d)
            PROVE  pipeline'[r] = pipeline[r]
        BY <2>1, <3>1 DEF Trigger
      <3>2. ~(\E p, q \in Runs, d \in Datasets : TriggerRetried(p, q, d))
        BY DEF TriggerRetried
      <3>3. QED
        BY <1>2, <3>1, <3>2
         DEF Request, ViewRuns, ViewRun, ApproveRun, RejectRun, DeleteRun,
             ApproveException, QuarantineAll, ExecuteFixes, DEQuarantine, RequestFix,
             DismissException, DismissAll, Dismiss
    <2>3. ASSUME NEW I, Dismiss(I), NEW v \in Rules PROVE issues'[r][v] \in Decided
      BY <1>1, <2>3 DEF Dismiss, Decided
    <2>4. issues' = issues \/ \E I : Dismiss(I)
      BY <1>2
         DEF Request, Trigger, TriggerRetried, ViewRuns, ViewRun, ApproveRun, RejectRun, DeleteRun,
             ApproveException, QuarantineAll, ExecuteFixes, DEQuarantine, RequestFix,
             DismissException, DismissAll
    <2>5. QED
      BY <1>1, <2>2, <2>3, <2>4
  <1>3. CASE Handling
    <2>1. pipeline' = pipeline
      BY <1>3
         DEF Handling, TakeIssue, QuarantineRecords, ResolveIssue, FixesDone, DEResolve,
             ProposeRemediation, UnpublishOthers, SetPublished, RecordPublication, DeleteIssues,
             DeleteAudit, DeleteRow
    <2>2. ASSUME NEW v \in Rules PROVE issues'[r][v] \in Decided
      <3>1. ASSUME NEW q \in Runs, NEW w \in Rules, TakeIssue(q, w) PROVE issues'[r][v] \in Decided
        BY <1>1, <3>1 DEF TakeIssue, Decided, Closed
      <3>2. CASE ResolveIssue
        BY <1>1, <3>2 DEF ResolveIssue, Resolved, Decided
      <3>3. CASE DEResolve
        BY <1>1, <3>3 DEF DEResolve, Resolved, Decided
      <3>4. CASE ProposeRemediation
        <4>1. handler.run # r
          BY <3>4 DEF ProposeRemediation, Displayed, OnDisplay, ApproveRun, Idle, Publishing
        <4>2. QED
          BY <1>1, <3>4, <4>1 DEF ProposeRemediation
      <3>5. CASE DeleteIssues
        BY <1>1, <3>5 DEF DeleteIssues, Decided
      <3>6. CASE UNCHANGED issues
        BY <1>1, <3>6
      <3>7. QED
        BY <1>3, <3>1, <3>2, <3>3, <3>4, <3>5, <3>6
           DEF Handling, QuarantineRecords, FixesDone, UnpublishOthers, SetPublished,
               RecordPublication, DeleteAudit, DeleteRow
    <2>3. QED
      BY <1>1, <2>1, <2>2
  <1>4. ASSUME NEW q \in Runs, Pipeline(q)
        PROVE  pipeline'[r] \in Late /\ \A v \in Rules : issues'[r][v] \in Decided
    <2>1. pipeline'[r] \in Late
      BY <1>1, <1>4
         DEF Pipeline, StartEvent, StoreValidations, PersistReconciliation, InsertExceptions,
             CompleteRun, CloseSuperseded, FinishEvent, PipelineOrphaned, Advance, Late
    <2>2. ASSUME NEW v \in Rules PROVE issues'[r][v] \in Decided
      <3>1. CASE StartEvent(q) \/ PersistReconciliation(q) \/ InsertExceptions(q)
        <4>1. q # r
          BY <1>1, <3>1 DEF StartEvent, PersistReconciliation, InsertExceptions, Advance, Late
        <4>2. QED
          BY <1>1, <3>1, <4>1 DEF StartEvent, PersistReconciliation, InsertExceptions, RaiseIssues
      <3>2. CASE CloseSuperseded(q)
        BY <1>1, <3>2 DEF CloseSuperseded, Decided
      <3>3. CASE UNCHANGED issues
        BY <1>1, <3>3
      <3>4. QED
        BY <1>4, <3>1, <3>2, <3>3
           DEF Pipeline, StoreValidations, CompleteRun, FinishEvent, PipelineOrphaned
    <2>3. QED
      BY <2>1, <2>2
  <1>5. CASE UNCHANGED <<pipeline, issues>>
    BY <1>1, <1>5
  <1>6. QED
    BY <1>2, <1>3, <1>4, <1>5, NoFaults DEF vars, AgeOut

(* A proposal is being written only since its issue was found open.        *)
LEMMA ProposalBegins ==
  ASSUME MaxFaults = 0, GInv, [Next]_vars, handler'.step = "propose", handler' # handler
  PROVE  \E v \in Rules : RequestFix(handler'.run, v)
  <1> USE DEF GInv, TypeOK, HandlerState
  <1>1. ASSUME NEW q \in Runs, NEW w \in Rules, TakeIssue(q, w) PROVE FALSE
    <2>1. CASE issues[q][w] \in Closed \union {"none"}
      BY <1>1, <2>1 DEF TakeIssue
    <2>2. CASE issues[q][w] \notin Closed \union {"none"}
      BY <1>1, <2>2 DEF TakeIssue
    <2>3. QED
      BY <2>1, <2>2
  <1>2. ~QuarantineRecords
    BY DEF QuarantineRecords
  <1>3. ~ResolveIssue
    BY DEF ResolveIssue, Idle
  <1>4. ~(FixesDone \/ DEResolve \/ ProposeRemediation \/ RecordPublication \/ DeleteRow)
    BY DEF FixesDone, DEResolve, ProposeRemediation, RecordPublication, DeleteRow, Idle
  <1>5. ~UnpublishOthers
    BY DEF UnpublishOthers
  <1>6. ~SetPublished
    BY DEF SetPublished
  <1>7. ~DeleteIssues
    BY DEF DeleteIssues
  <1>8. ~DeleteAudit
    BY DEF DeleteAudit
  <1>9. ~Handling
    BY <1>1, <1>2, <1>3, <1>4, <1>5, <1>6, <1>7, <1>8 DEF Handling
  <1>10. ASSUME NEW q \in Runs, Pipeline(q) PROVE FALSE
    BY <1>10 DEF Pipeline, StartEvent, StoreValidations, PersistReconciliation, InsertExceptions,
       RaiseIssues, CompleteRun, CloseSuperseded, FinishEvent, PipelineOrphaned
  <1>11. ASSUME NEW I, ExecuteFixes(I) PROVE FALSE
    BY <1>11 DEF ExecuteFixes, Idle
  <1>12. ASSUME NEW q \in Runs, NEW w \in Rules, DEQuarantine(q, w) PROVE FALSE
    BY <1>12 DEF DEQuarantine, Idle
  <1>13. ASSUME NEW q \in Runs, ApproveRun(q) PROVE FALSE
    BY <1>13 DEF ApproveRun, Idle
  <1>14. ASSUME NEW q \in Runs, DeleteRun(q) PROVE FALSE
    BY <1>14 DEF DeleteRun, Idle
  <1>15. ASSUME NEW q \in Runs, NEW w \in Rules, RequestFix(q, w)
         PROVE  handler'.run = q
    BY <1>15 DEF RequestFix, Idle
  <1>16. Request
    BY <1>9, <1>10, NoFaults DEF vars, AgeOut
  <1>17. \/ \E q \in Runs, w \in Rules : RequestFix(q, w)
         \/ UNCHANGED handler
    BY <1>11, <1>12, <1>13, <1>14, <1>16
       DEF Request, Trigger, TriggerRetried, ViewRuns, ViewRun, RejectRun, ApproveException,
           QuarantineAll, DismissException, DismissAll, Dismiss
  <1>18. QED
    BY <1>15, <1>17

LEMMA DisplayedKeeps ==
  ASSUME MaxFaults = 0, GInv, Records, Timely, Displayed, [Next]_vars
  PROVE  Displayed'
  <1>1. ASSUME NEW r \in Runs, OnDisplay(r)'
        PROVE  pipeline'[r] \in Late /\ \A v \in Rules : issues'[r][v] \in Decided
    BY <1>1, DisplayBegins, DecidedStays
  <1>2. ASSUME NEW r \in Runs, handler'.step = "propose", handler'.run = r
        PROVE  ~runs'[r].published
    <2>1. ~OnDisplay(r) /\ ~ApproveRun(r)
      <3>1. CASE handler' = handler
        BY <1>2, <3>1 DEF Displayed, OnDisplay, Publishing, ApproveRun, Idle
      <3>2. CASE handler' # handler
        <4>1. PICK v \in Rules : RequestFix(r, v)
          BY <1>2, <3>2, ProposalBegins
        <4>2. issues[r][v] = "open" /\ handler'.step = "propose" /\ handler.step = "idle"
          BY <4>1 DEF RequestFix, Idle
        <4>3. ~OnDisplay(r)
          BY <4>2 DEF Displayed, Decided
        <4>4. ~ApproveRun(r)
          BY <4>2 DEF ApproveRun, Idle
        <4>5. QED
          BY <4>3, <4>4
      <3>3. QED
        BY <3>1, <3>2
    <2>2. QED
      BY <2>1, DisplayBegins DEF OnDisplay
  <1>3. QED
    BY <1>1, <1>2 DEF Displayed

(* Without faults and overruns, whatever is published was validated to the *)
(* end, and each of its issues was dismissed, fixed or closed by another   *)
(* run of the dataset.                                                     *)
THEOREM PublishedIsSettledAlways ==
  ASSUME MaxFaults = 0, ~Overrun
  PROVE  Spec => []PublishedIsSettled
  <1>1. Init => SInv
    <2> SUFFICES ASSUME Init PROVE SInv
      OBVIOUS
    <2>1. \A r \in Runs : runs[r].status = "absent" /\ ~runs[r].published /\ ~OnDisplay(r)
      BY DEF Init, AbsentRun, OnDisplay, Idle, Publishing
    <2>2. QED
      BY <2>1 DEF Init, SInv, Records, RecordsOf, About, Idle, Timely, Accounted, Due, Exists,
         Displayed
  <1>2. GInv /\ SInv /\ [Next]_vars => SInv'
    BY RecordsKeep, TimelyKeeps, AccountedKeeps, DisplayedKeeps DEF SInv
  <1>3. GInv /\ SInv => PublishedIsSettled
    <2> SUFFICES ASSUME GInv, SInv, NEW r \in Runs, runs[r].published, ~Deleting(r),
                        NEW v \in Rules, Verdict(r, v) = "current"
                 PROVE  \/ issues[r][v] = "dismissed"
                        \/ issues[r][v] = "resolved" /\ <<r, v>> \in quarantines
                        \/ /\ issues[r][v] = "resolved"
                           /\ \E q \in Runs : q # r /\ SameDataset(q, r)
      BY DEF PublishedIsSettled
    <2>1. pipeline[r] \in Late /\ issues[r][v] \in Decided
      BY DEF SInv, Displayed, OnDisplay
    <2>2. Due(r, v)
      BY <2>1 DEF GInv, PublishedExists, Due, RaisedBy
    <2>3. QED
      BY <2>1, <2>2 DEF SInv, Accounted, Owed, Decided, Superseder
  <1>4. QED
    BY <1>1, <1>2, <1>3, GateInvariance, PTL DEF Spec
=============================================================================
