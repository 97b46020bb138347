--------------------------- MODULE DashboardCache ---------------------------
(***************************************************************************)
(* The dashboard cache of the revenue platform (services/dashboard.py):    *)
(* the dashboard_cache table holds one payload per dataset, which threads  *)
(* rebuild from the published run under one process-wide build lock.       *)
(*                                                                         *)
(* A rebuild is asked for by a publication or the rebuild button           *)
(* (start_dashboard_refresh, with a mark per dataset and a watchdog        *)
(* timer), by a view of a dataset without a row (_background_refresh) and  *)
(* at boot (the scheduler's warm-up).                                      *)
(*                                                                         *)
(* Publications are numbered: pointer[d] = n says that the n-th one        *)
(* published the run that dataset d shows now, 0 that none does, and       *)
(* row[d] = n that the cached payload was computed from that run.  The     *)
(* 60 second copy of a row in memory is left out.                          *)
(***************************************************************************)
EXTENDS Integers

CONSTANTS Datasets,
          Threads,          \* threads that may run at a time
          None,
          MaxPublications,  \* publications during the check
          MaxFaults,        \* failed builds and reboots
          Slow              \* may a rebuild take thirty seconds

ASSUME CacheAssumption ==
  /\ MaxPublications \in Nat
  /\ MaxFaults \in Nat
  /\ Slow \in BOOLEAN
  /\ None \notin Datasets \union Threads

VARIABLES pointer,     \* published run of each dataset
          nPublished,  \* publications so far
          publishing,  \* the dataset a handler is moving the pointer of
          row,         \* dashboard_cache table
          lock,        \* _DASHBOARD_BUILD_LOCK: the thread that holds it
          building,    \* _DASHBOARD_BUILDING: the thread started for the mark
          refreshing,  \* _DASHBOARD_REFRESHING
          threads,     \* rebuild threads and their watchdog timers
          poll,        \* the dataset a timed out status request writes to
          faults       \* faults so far

vars == <<pointer, nPublished, publishing, row, lock, building, refreshing,
          threads, poll, faults>>

Missing == -2      \* no row
Empty == -1        \* the minimal payload
Publications == 1 .. MaxPublications

(* old: the thread was started thirty seconds ago or more.                 *)
Thread ==
  [kind  : {"none", "publish", "view", "boot"},
   ds    : Datasets \union {None},
   pc    : {"done", "lock", "check", "build", "store", "release", "clear"},
   saw   : {Empty} \union Publications,
   timer : {"off", "armed", "probe", "write", "unmark"},
   old   : BOOLEAN]

NoThread ==
  [kind |-> "none", ds |-> None, pc |-> "done", saw |-> Empty,
   timer |-> "off", old |-> FALSE]

Init ==
  /\ pointer = [d \in Datasets |-> 0]
  /\ nPublished = 0
  /\ publishing = None
  /\ row = [d \in Datasets |-> Missing]
  /\ lock = None
  /\ building = [d \in Datasets |-> None]
  /\ refreshing = {}
  /\ threads = [j \in Threads |-> NoThread]
  /\ poll = None
  /\ faults = 0

NewThread(kind, d) ==
  [NoThread EXCEPT !.kind = kind, !.ds = d, !.pc = "lock",
                   !.timer = IF kind = "publish" THEN "armed" ELSE "off"]

HandlerFree == publishing = None /\ poll = None

(* A watchdog that finds the build lock free holds it for a moment.        *)
LockTaken == lock # None \/ \E j \in Threads : threads[j].timer = "probe"

-----------------------------------------------------------------------------
(* start_dashboard_refresh: a dataset that is being built is not started   *)
(* again.                                                                  *)
StartRefresh(d, j) ==
  \/ /\ building[d] # None
     /\ UNCHANGED <<building, threads>>
  \/ /\ building[d] = None
     /\ threads[j] = NoThread
     /\ building' = [building EXCEPT ![d] = j]
     /\ threads' = [threads EXCEPT ![j] = NewThread("publish", d)]

(* publications.publish_run clears the pointer of the dataset ...          *)
ClearPointer(d) ==
  /\ HandlerFree
  /\ nPublished < MaxPublications
  /\ publishing' = d
  /\ pointer' = [pointer EXCEPT ![d] = 0]
  /\ UNCHANGED <<nPublished, row, lock, building, refreshing, threads, poll,
                 faults>>

(* ... sets it, and pages.approve_run then starts the rebuild.             *)
MovePointer(d, j) ==
  /\ publishing = d
  /\ publishing' = None
  /\ nPublished' = nPublished + 1
  /\ pointer' = [pointer EXCEPT ![d] = nPublished + 1]
  /\ StartRefresh(d, j)
  /\ UNCHANGED <<row, lock, refreshing, poll, faults>>

(* Deleting the published run leaves the dataset without one; the cache    *)
(* keeps what it had.                                                      *)
DeletePublished(d) ==
  /\ HandlerFree
  /\ pointer[d] # 0
  /\ pointer' = [pointer EXCEPT ![d] = 0]
  /\ UNCHANGED <<nPublished, publishing, row, lock, building, refreshing,
                 threads, poll, faults>>

(* pages: the rebuild button.                                              *)
RebuildButton(d, j) ==
  /\ HandlerFree
  /\ StartRefresh(d, j)
  /\ UNCHANGED <<pointer, nPublished, publishing, row, lock, refreshing, poll,
                 faults>>

(* get_dashboard_data_cached on a missing row.                             *)
ViewMissing(d, j) ==
  /\ HandlerFree
  /\ row[d] = Missing
  /\ d \notin refreshing
  /\ threads[j] = NoThread
  /\ refreshing' = refreshing \union {d}
  /\ threads' = [threads EXCEPT ![j] = NewThread("view", d)]
  /\ UNCHANGED <<pointer, nPublished, publishing, row, lock, building, poll,
                 faults>>

(* dashboard_cache_status: an overdue mark is dropped, and the empty       *)
(* payload is written after that.                                          *)
StatusTimeout(d) ==
  /\ HandlerFree
  /\ building[d] # None
  /\ threads[building[d]].old
  /\ building' = [building EXCEPT ![d] = None]
  /\ poll' = d
  /\ UNCHANGED <<pointer, nPublished, publishing, row, lock, refreshing,
                 threads, faults>>

StatusWrite ==
  /\ poll # None
  /\ row' = [row EXCEPT ![poll] = Empty]
  /\ poll' = None
  /\ UNCHANGED <<pointer, nPublished, publishing, lock, building, refreshing,
                 threads, faults>>

-----------------------------------------------------------------------------
(* refresh_dashboard_cache.  The lock is asked for once: whoever finds it  *)
(* taken, for whatever dataset, gives up as busy.                          *)
Step(j, from, to) ==
  /\ threads[j].pc = from
  /\ threads' = [threads EXCEPT ![j].pc = to]

(* Faulty: the finally clause releases the lock it did not get.            *)
TryLockBusy(j) ==
  /\ lock' = IF LockTaken THEN lock ELSE j
  /\ Step(j, "lock", IF LockTaken THEN "release" ELSE "check")
  /\ UNCHANGED <<pointer, nPublished, publishing, row, building, refreshing,
                 poll, faults>>

TryLock(j) ==
  /\ lock' = IF LockTaken THEN lock ELSE j
  /\ Step(j, "lock", IF LockTaken THEN "clear" ELSE "check")
  /\ UNCHANGED <<pointer, nPublished, publishing, row, building, refreshing,
                 poll, faults>>

(* get_published_run: nothing published is written as the empty payload.   *)
CheckPublished(j) ==
  /\ Step(j, "check", IF pointer[threads[j].ds] = 0 THEN "store" ELSE "build")
  /\ UNCHANGED <<pointer, nPublished, publishing, row, lock, building,
                 refreshing, poll, faults>>

(* get_dashboard_data reads the pointer again and scans that run's data.   *)
Scanned(j) ==
  LET n == pointer[threads[j].ds] IN IF n = 0 THEN Empty ELSE n

Build(j) ==
  /\ threads[j].pc = "build"
  /\ threads' = [threads EXCEPT ![j].pc = "store", ![j].saw = Scanned(j)]
  /\ UNCHANGED <<pointer, nPublished, publishing, row, lock, building,
                 refreshing, poll, faults>>

(* The scan raises: the minimal payload is stored instead.                 *)
BuildFails(j) ==
  /\ faults < MaxFaults
  /\ faults' = faults + 1
  /\ Step(j, "build", "store")
  /\ UNCHANGED <<pointer, nPublished, publishing, row, lock, building,
                 refreshing, poll>>

(* Faulty: the lock is given back before the payload is written.           *)
StoreUnlocked(j) ==
  /\ threads[j].pc \in {"store", "release"}
  /\ IF threads[j].pc = "store"
       THEN lock' = None /\ Step(j, "store", "release") /\ UNCHANGED row
       ELSE /\ row' = [row EXCEPT ![threads[j].ds] = threads[j].saw]
            /\ Step(j, "release", "clear") /\ UNCHANGED lock
  /\ UNCHANGED <<pointer, nPublished, publishing, building, refreshing, poll,
                 faults>>

StoreCache(j) ==
  /\ Step(j, "store", "release")
  /\ row' = [row EXCEPT ![threads[j].ds] = threads[j].saw]
  /\ UNCHANGED <<pointer, nPublished, publishing, lock, building, refreshing,
                 poll, faults>>

(* The upsert raises; so may the one of the minimal payload after it.      *)
StoreFails(j) ==
  /\ faults < MaxFaults
  /\ faults' = faults + 1
  /\ Step(j, "store", "release")
  /\ row' \in {row, [row EXCEPT ![threads[j].ds] = Empty]}
  /\ UNCHANGED <<pointer, nPublished, publishing, lock, building, refreshing,
                 poll>>

ReleaseLock(j) ==
  /\ Step(j, "release", "clear")
  /\ lock' = None
  /\ UNCHANGED <<pointer, nPublished, publishing, row, building, refreshing,
                 poll, faults>>

(* The timer ends with its thread unless it has fired already.             *)
Cancelled(timer) == IF timer = "armed" THEN "off" ELSE timer

Cleared(th) ==
  IF Cancelled(th.timer) = "off" THEN NoThread
  ELSE [th EXCEPT !.pc = "done"]

(* Faulty: the mark of the dataset is forgotten.                           *)
ClearForgets(j) ==
  /\ threads[j].pc = "clear"
  /\ threads' = [threads EXCEPT ![j] = Cleared(@)]
  /\ refreshing' = refreshing \ {threads[j].ds}
  /\ UNCHANGED <<pointer, nPublished, publishing, row, lock, building, poll,
                 faults>>

(* The finally clauses of _job and _background_refresh.                    *)
Clear(j) ==
  /\ threads[j].pc = "clear"
  /\ threads' = [threads EXCEPT ![j] = Cleared(@)]
  /\ building' = IF threads[j].kind = "publish"
                   THEN [building EXCEPT ![threads[j].ds] = None] ELSE building
  /\ refreshing' = IF threads[j].kind = "view"
                     THEN refreshing \ {threads[j].ds} ELSE refreshing
  /\ UNCHANGED <<pointer, nPublished, publishing, row, lock, poll, faults>>

-----------------------------------------------------------------------------
(* start_dashboard_refresh._timeout: the watchdog asks whether the build   *)
(* lock is taken, not by whom: it takes it and gives it back, or writes.   *)
Age(j) ==
  /\ Slow
  /\ threads[j].kind = "publish"
  /\ ~threads[j].old
  /\ threads' = [threads EXCEPT ![j].old = TRUE]
  /\ UNCHANGED <<pointer, nPublished, publishing, row, lock, building,
                 refreshing, poll, faults>>

TimerFires(j) ==
  /\ threads[j].timer = "armed"
  /\ threads[j].old
  /\ threads' = [threads EXCEPT ![j].timer =
                   IF LockTaken THEN "write" ELSE "probe"]
  /\ UNCHANGED <<pointer, nPublished, publishing, row, lock, building,
                 refreshing, poll, faults>>

(* A thread without its timer; its slot is free when both have ended.      *)
TimerEnds(th) == IF th.pc = "done" THEN NoThread ELSE [th EXCEPT !.timer = "off"]

TimerReleases(j) ==
  /\ threads[j].timer = "probe"
  /\ threads' = [threads EXCEPT ![j] = TimerEnds(@)]
  /\ UNCHANGED <<pointer, nPublished, publishing, row, lock, building,
                 refreshing, poll, faults>>

TimerWrites(j) ==
  /\ threads[j].timer = "write"
  /\ row' = [row EXCEPT ![threads[j].ds] = Empty]
  /\ threads' = [threads EXCEPT ![j].timer = "unmark"]
  /\ UNCHANGED <<pointer, nPublished, publishing, lock, building, refreshing,
                 poll, faults>>

TimerUnmarks(j) ==
  /\ threads[j].timer = "unmark"
  /\ building' = [building EXCEPT ![threads[j].ds] = None]
  /\ threads' = [threads EXCEPT ![j] = TimerEnds(@)]
  /\ UNCHANGED <<pointer, nPublished, publishing, row, lock, refreshing, poll,
                 faults>>

(* The process dies and boots: scheduler._warm_published_dashboard rebuilds *)
(* the dataset that was published last.                                    *)
Latest(d) ==
  pointer[d] # 0 /\ \A e \in Datasets : pointer[e] <= pointer[d]

Reboot(j) ==
  /\ faults < MaxFaults
  /\ faults' = faults + 1
  /\ publishing' = None
  /\ poll' = None
  /\ lock' = None
  /\ building' = [d \in Datasets |-> None]
  /\ refreshing' = {}
  /\ \/ /\ \A d \in Datasets : ~Latest(d)
        /\ threads' = [i \in Threads |-> NoThread]
     \/ \E d \in Datasets :
          /\ Latest(d)
          /\ threads' = [i \in Threads |->
                           IF i = j THEN NewThread("boot", d) ELSE NoThread]
  /\ UNCHANGED <<pointer, nPublished, row>>

Refresh(j) ==
  \/ TryLock(j)
  \/ CheckPublished(j)
  \/ Build(j)
  \/ StoreCache(j)
  \/ ReleaseLock(j)
  \/ Clear(j)

Watchdog(j) ==
  TimerFires(j) \/ TimerReleases(j) \/ TimerWrites(j) \/ TimerUnmarks(j)

Request(d, j) ==
  \/ MovePointer(d, j)
  \/ RebuildButton(d, j)
  \/ ViewMissing(d, j)

Next ==
  \/ \E d \in Datasets : ClearPointer(d) \/ DeletePublished(d) \/ StatusTimeout(d)
  \/ \E d \in Datasets, j \in Threads : Request(d, j)
  \/ StatusWrite
  \/ \E j \in Threads :
       \/ Refresh(j) \/ Watchdog(j) \/ Age(j)
       \/ BuildFails(j) \/ StoreFails(j) \/ Reboot(j)

Spec == Init /\ [][Next]_vars

(* Threads are scheduled; nothing is assumed of requests or of the clock.  *)
Fairness == \A j \in Threads : WF_vars(Refresh(j)) /\ WF_vars(Watchdog(j))

FairSpec == Spec /\ Fairness

-----------------------------------------------------------------------------
(* Type correctness of the table, the marks and the threads.               *)
TypeOK ==
  /\ pointer \in [Datasets -> 0 .. MaxPublications]
  /\ nPublished \in 0 .. MaxPublications
  /\ publishing \in Datasets \union {None}
  /\ row \in [Datasets -> {Missing, Empty} \union Publications]
  /\ lock \in Threads \union {None}
  /\ building \in [Datasets -> Threads \union {None}]
  /\ refreshing \subseteq Datasets
  /\ threads \in [Threads -> Thread]
  /\ poll \in Datasets \union {None}
  /\ faults \in 0 .. MaxFaults

Locked == {"check", "build", "store", "release"}

(* No lock and no mark outlives the thread that will clear it, so neither  *)
(* a watchdog, a status request nor a busy refusal can leave the dataset   *)
(* "building" or the build lock taken for good; and two scans never run    *)
(* together (refresh_dashboard_cache).                                     *)
MarksAreOwned ==
  /\ \A j \in Threads : threads[j].pc \in Locked <=> lock = j
  /\ \A d \in Datasets : building[d] # None =>
       LET th == threads[building[d]] IN
       th.kind = "publish" /\ th.ds = d /\ th.pc # "done"
  /\ \A d \in refreshing : \E j \in Threads :
       threads[j].kind = "view" /\ threads[j].ds = d /\ threads[j].pc # "done"

(* A payload is never replaced by that of an earlier publication, although *)
(* rebuilds of several origins compute and store at their own pace.        *)
RowNeverGoesBack ==
  [][\A d \in Datasets : row[d] > 0 /\ row'[d] > 0 => row'[d] >= row[d]]_vars

(* Whatever happens, the poller's "building" ends.                         *)
BuildingEnds ==
  \A d \in Datasets : building[d] # None ~> building[d] = None

(* scheduler.py: publish invalidates and rebuilds its own dataset - once   *)
(* everything is quiet the cache shows the published run.                  *)
CacheIsFresh ==
  HandlerFree /\ (\A j \in Threads : threads[j] = NoThread) =>
    \A d \in Datasets : pointer[d] # 0 => row[d] = pointer[d]
=============================================================================
