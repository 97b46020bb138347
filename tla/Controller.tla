----------------------------- MODULE Controller -----------------------------
(***************************************************************************)
(* The Controller agent of the revenue platform (teams/controller.py,      *)
(* services/alerts.py, services/scheduler.py): a scheduled job that checks *)
(* the published data, raises alerts, deduplicated for an hour, and posts  *)
(* a triage note for each, over the threads and the audit trail of module  *)
(* Threads.                                                                *)
(*                                                                         *)
(* Time is counted in cycles of the job (controller_interval_minutes):     *)
(* Window of them start within DEDUP_WINDOW_MINUTES, four by default, and  *)
(* a cycle ends before the next is due (max_instances).  There is one      *)
(* dataset, and at most one alert of each finding is remembered: how many  *)
(* rows its window saw and how many cycles are left of it.                 *)
(***************************************************************************)
EXTENDS Threads, FiniteSetsExt

CONSTANTS Dataset,
          Window,       \* cycles of the job within DEDUP_WINDOW_MINUTES
          OrphanLimit,  \* LIMIT of the orphan query
          Flaws         \* the checks of a publication's data that fail

ASSUME ControllerAssumption ==
  /\ Window \in Nat \ {0}
  /\ OrphanLimit \in Nat \ {0}
  /\ Flaws \subseteq {"PUBLISHED_RECORD_FAILS_REVALIDATION", "RECON_DRIFT"}

VARIABLES publications, \* runs with a publications row, oldest first
          old,          \* runs published more than CONTROLLER_STALE_HOURS ago
          verified,     \* is _verified_manifest_key the manifest's
          alerts,       \* alerts: rows and rest of the dedup window
          job           \* the verification job

ctlVars == <<publications, old, verified, alerts, job>>

vars == <<threadVars, ctlVars>>

(* The checks in the order of a cycle.                                     *)
Checks == <<"STALE_PUBLISHED", "SOURCE_HASH_MISMATCH", "AUDIT_ROW_MISSING",
            "THREAD_ANCHOR_ORPHANED", "PUBLISHED_RECORD_FAILS_REVALIDATION",
            "RECON_DRIFT">>

(* A finding is its alert's type and anchor.                               *)
Stale(r) == <<"STALE_PUBLISHED", RunThread(r)>>
Unaudited(r) == <<"AUDIT_ROW_MISSING", <<"publication", r>>>>
Orphaned(t) == <<"THREAD_ANCHOR_ORPHANED", <<"analysis", t>>>>
Mismatch == <<"SOURCE_HASH_MISMATCH", <<"scenario", Dataset>>>>
Flawed(c, r) == <<c, <<"publication", r>>>>

Findings ==
  {Mismatch} \union {Stale(r) : r \in Runs} \union {Unaudited(r) : r \in Runs}
    \union {Orphaned(t) : t \in ThreadIds}
    \union {Flawed(c, r) : c \in Flaws, r \in Runs}

NoAlert == [rows |-> 0, left |-> 0, resent |-> FALSE]

Asleep == [pc |-> "asleep", check |-> 0, todo |-> {}, finding |-> Null,
           created |-> FALSE]

TypeOK ==
  /\ ThreadsTypeOK
  /\ alerts \in [Findings -> [rows : 0 .. 2, left : 0 .. Window,
                              resent : BOOLEAN]]
  /\ job.pc \in {"asleep", "query", "raise", "log", "triage", "log_triage",
                 "backfill"}
  /\ job.pc = "asleep" <=> job.check = 0
  /\ job.todo \subseteq Findings

Init ==
  /\ ThreadsInit
  /\ publications = <<>>
  /\ old = {}
  /\ verified = FALSE
  /\ alerts = [f \in Findings |-> NoAlert]
  /\ job = Asleep

Published(r) == \E i \in DOMAIN publications : publications[i] = r

(* The newest publications row.                                            *)
Latest == IF publications = <<>> THEN Null
          ELSE publications[Len(publications)]

Audited(r) == \E x \in actions : x[1] = RunThread(r)

(* Threads of runs and issues that no longer exist.                        *)
Lost(r) ==
  (IF Exists(r) THEN {} ELSE {RunThread(r)})
    \union (IF issues[r] = "none" THEN {IssueThread(r)} ELSE {})

Orphans ==
  {threads.id[a] : a \in {a \in UNION {Lost(r) : r \in Runs} :
                           threads.id[a] # 0}}


-----------------------------------------------------------------------------
(* Publications, as far as the checks see them.                            *)

(* The Manager approves a completed run without open issues.               *)
Approve(r) ==
  /\ handler = Idle
  /\ runs[r] = "completed"
  /\ issues[r] # "open"
  /\ ~Published(r)
  /\ publications' = Append(publications, r)
  /\ UNCHANGED <<old, verified, alerts, job>>
  /\ UNCHANGED threadVars

GrowOld(r) ==
  /\ Published(r)
  /\ r \notin old
  /\ old' = old \union {r}
  /\ UNCHANGED <<publications, verified, alerts, job>>
  /\ UNCHANGED threadVars

(* The rest of delete_run.                                                 *)
DeletePublications(r) ==
  /\ handler.pc = "delete_publications"
  /\ publications' = SelectSeq(publications, LAMBDA q : q # r)
  /\ old' = old \ {r}
  /\ Step("delete_row")
  /\ UNCHANGED <<runs, issues, threads, messages, actions, pipeline, purged,
                 requests, faults>>
  /\ UNCHANGED <<verified, alerts, job>>

(* register_dataset stores another manifest.                               *)
Register ==
  /\ NewRequest
  /\ verified' = FALSE
  /\ UNCHANGED <<runs, issues, threads, messages, actions, pipeline, handler,
                 purged, faults>>
  /\ UNCHANGED <<publications, old, alerts, job>>

-----------------------------------------------------------------------------
(* run_controller_verification                                             *)
world == <<runs, issues, pipeline, handler, purged, requests, publications,
           old>>

JobAt(pc) == job.pc = pc

Check == Checks[job.check]

NextCheck ==
  job' = IF job.check = Len(Checks) THEN Asleep
         ELSE [Asleep EXCEPT !.pc = "query", !.check = job.check + 1]

(* The scheduler's interval: the alerts' windows run out by one cycle.     *)
Aged(a) == IF a.left <= 1 THEN NoAlert ELSE [a EXCEPT !.left = @ - 1]

Cycle ==
  /\ JobAt("asleep")
  /\ job' = [Asleep EXCEPT !.pc = "query", !.check = 1]
  /\ alerts' = [f \in Findings |-> Aged(alerts[f])]
  /\ UNCHANGED <<threads, messages, actions, verified, faults>>
  /\ UNCHANGED world


(* The rows of the orphan query: any OrphanLimit, it has no ORDER BY.      *)
OrphanRows ==
  IF Cardinality(Orphans) <= OrphanLimit THEN {Orphans}
  ELSE kSubset(OrphanLimit, Orphans)

(* What a check's query finds.                                             *)
Found(c) ==
  CASE c = "STALE_PUBLISHED" -> {{Stale(r) : r \in old \intersect {Latest}}}
    [] c = "AUDIT_ROW_MISSING" ->
         {{Unaudited(r) : r \in {q \in Runs : q = Latest /\ ~Audited(q)}}}
    [] c = "THREAD_ANCHOR_ORPHANED" ->
         {{Orphaned(t) : t \in S} : S \in OrphanRows}
    [] OTHER ->
         {{Flawed(c, r) : r \in {q \in Runs : q = Latest /\ c \in Flaws}}}

With(todo) ==
  IF todo = {} THEN NextCheck
  ELSE job' = [job EXCEPT !.pc = "raise", !.todo = todo]

Query ==
  /\ JobAt("query")
  /\ Check # "SOURCE_HASH_MISMATCH"
  /\ \E todo \in Found(Check) : With(todo)
  /\ UNCHANGED <<threads, messages, actions, verified, alerts, faults>>
  /\ UNCHANGED world

(* check_source_hash_mismatch: a manifest is verified once, and is taken   *)
(* as verified before it is.  An object that has changed and one that      *)
(* cannot be read both count as a mismatch.                                *)
VerifyManifest ==
  /\ JobAt("query")
  /\ Check = "SOURCE_HASH_MISMATCH"
  /\ verified' = TRUE
  /\ \/ NextCheck /\ UNCHANGED faults
     \/ ~verified /\ Fault /\ With({Mismatch})
  /\ UNCHANGED <<threads, messages, actions, alerts>>
  /\ UNCHANGED world

(* Slip: the look for a duplicate is dropped.                              *)
DedupMisses(f) == FALSE

(* alerts._dedup_hit                                                       *)
DedupHit(f) == alerts[f].left > 0

(* raise_alert: look for a duplicate, else insert.  No one else raises     *)
(* alerts and the job never overlaps itself.                               *)
Raised(f, n) ==
  [rows |-> IF alerts[f].rows + n < 2 THEN alerts[f].rows + n ELSE 2,
   left |-> Window, resent |-> alerts[f].resent \/ n = 2]

RaiseAlert(f) ==
  /\ JobAt("raise")
  /\ job' = [job EXCEPT !.pc = "log", !.todo = @ \ {f}, !.finding = f,
                        !.created = ~DedupHit(f)]
  /\ alerts' = IF DedupHit(f) THEN alerts
               ELSE [alerts EXCEPT ![f] = Raised(f, 1)]
  /\ UNCHANGED <<threads, messages, actions, verified, faults>>
  /\ UNCHANGED world

(* The insert commits, its acknowledgement is lost and _with_retry sends   *)
(* it again.                                                               *)
RaiseResent(f) ==
  /\ JobAt("raise")
  /\ ~DedupHit(f)
  /\ Fault
  /\ job' = [job EXCEPT !.pc = "log", !.todo = @ \ {f}, !.finding = f,
                        !.created = TRUE]
  /\ alerts' = [alerts EXCEPT ![f] = Raised(f, 2)]
  /\ UNCHANGED <<threads, messages, actions, verified>>
  /\ UNCHANGED world

Anchor == job.finding[2]

(* record_action; the trail is kept of runs and issues only.               *)
Logged(a, action) ==
  actions' = IF a[1] \in {"run", "exception"} THEN actions \union {<<a, action>>}
             ELSE actions

AfterFinding ==
  IF Check = "AUDIT_ROW_MISSING" THEN job' = [job EXCEPT !.pc = "backfill"]
  ELSE With(job.todo)

LogAlert ==
  /\ JobAt("log")
  /\ Logged(Anchor, "alert_raised")
  /\ IF job.created THEN job' = [job EXCEPT !.pc = "triage"] ELSE AfterFinding
  /\ UNCHANGED <<threads, messages, verified, alerts, faults>>
  /\ UNCHANGED world

(* post_alert_triage: the note of the model or of its template.            *)
PostTriage ==
  /\ JobAt("triage")
  /\ Anchor \in Anchors
  /\ PostMessage(Anchor)
  /\ job' = [job EXCEPT !.pc = "log_triage"]
  /\ UNCHANGED <<actions, verified, alerts, faults>>
  /\ UNCHANGED world

(* The CHECK of table discussions refuses the anchor types "scenario" and  *)
(* "publication": the exception ends the check.                            *)
TriageRefused ==
  /\ JobAt("triage")
  /\ Anchor \notin Anchors
  /\ NextCheck
  /\ UNCHANGED <<threads, messages, actions, verified, alerts, faults>>
  /\ UNCHANGED world

LogTriage ==
  /\ JobAt("log_triage")
  /\ Logged(Anchor, "alert_triage")
  /\ AfterFinding
  /\ UNCHANGED <<threads, messages, verified, alerts, faults>>
  /\ UNCHANGED world

(* Slip: the audit entry is written for a new alert only.                  *)
BackfillNew ==
  /\ JobAt("backfill")
  /\ IF job.created THEN Logged(RunThread(Anchor[2]), "published_audit_entry")
     ELSE UNCHANGED actions
  /\ NextCheck
  /\ UNCHANGED <<threads, messages, verified, alerts, faults>>
  /\ UNCHANGED world

(* check_audit_row_missing: the missing entry itself.                      *)
Backfill ==
  /\ JobAt("backfill")
  /\ Logged(RunThread(Anchor[2]), "published_audit_entry")
  /\ NextCheck
  /\ UNCHANGED <<threads, messages, verified, alerts, faults>>
  /\ UNCHANGED world

(* A statement fails for good: the check ends, the cycle goes on.          *)
CheckFails ==
  /\ ~JobAt("asleep")
  /\ Fault
  /\ NextCheck
  /\ UNCHANGED <<threads, messages, actions, verified, alerts>>
  /\ UNCHANGED world

Job ==
  \/ Cycle \/ Query \/ VerifyManifest \/ LogAlert \/ PostTriage
  \/ TriageRefused \/ LogTriage \/ Backfill
  \/ \E f \in job.todo : RaiseAlert(f)

-----------------------------------------------------------------------------
Reboot ==
  /\ ThreadsReboot
  /\ job' = Asleep
  /\ verified' = FALSE
  /\ UNCHANGED <<publications, old, alerts>>

Handlers ==
  \/ Serve /\ UNCHANGED ctlVars
  \/ \E r \in {handler.run} \ {Null} :
       DeletePublications(r) \/ (DeleteRow(r) /\ UNCHANGED ctlVars)

Next ==
  \/ Job \/ CheckFails
  \/ \E f \in job.todo : RaiseResent(f)
  \/ \E r \in Runs : Approve(r) \/ GrowOld(r)
  \/ \E r \in Runs : (Pipeline(r) \/ PipelineFaults(r)) /\ UNCHANGED ctlVars
  \/ (Request \/ RequestFails) /\ UNCHANGED ctlVars
  \/ Handlers \/ Register \/ Reboot

(* The scheduler starts the job again and again; threads and handlers run  *)
(* on.                                                                     *)
Spec ==
  /\ Init /\ [][Next]_vars
  /\ WF_vars(Job)
  /\ WF_vars(Handlers)
  /\ \A r \in Runs : WF_vars(Pipeline(r) /\ UNCHANGED ctlVars)

-----------------------------------------------------------------------------
(* Within its window a finding has one alerts row, whatever cycles,        *)
(* failures and restarts fall into it: only an insert that was sent twice  *)
(* makes two.                                                              *)
AlertOncePerWindow ==
  \A f \in Findings : alerts[f].rows = 2 => alerts[f].resent

Reported(a) ==
  threads.id[a] # 0 /\ alerts[Orphaned(threads.id[a])].left > 0


(* A published run without audit trail gets one: even though the first     *)
(* cycle that finds it is cut short by the refused note (TriageRefused),   *)
(* as long as a second one starts within the window.                       *)
AuditHeals ==
  \A r \in Runs : [](Latest = r /\ ~Audited(r) => <>(Latest # r \/ Audited(r)))

(* alerts.py: a fresh alert has a triage note on the anchor's thread.      *)
EveryAlertTriaged ==
  JobAt("asleep") =>
    \A f \in Findings : alerts[f].rows > 0 =>
      \E a \in Anchors : f[2] = a /\ threads.id[a] # 0
                           /\ messages[threads.id[a]]["triage"] > 0
=============================================================================
