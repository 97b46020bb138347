---------------------------- MODULE DatasetScale ----------------------------
(***************************************************************************)
(* Rows, months and size of the datasets table of the revenue platform     *)
(* (services/dataset_scale.py): measured by a background thread from the   *)
(* footers of a dataset's Parquet files, waited for at most three seconds  *)
(* by the page, and kept in the dataset's manifest; with the registration  *)
(* and deletion of datasets (services/scenarios.py, routes/scenarios.py).  *)
(*                                                                         *)
(* A key is what a measurement depends on: the source folder and the years *)
(* of history.  The figures measured for a key stand for themselves; files *)
(* do not change under their key.  Handlers are coroutines that await      *)
(* nothing here, so pages and registrations exclude one another; the       *)
(* measuring threads run beside them.                                      *)
(***************************************************************************)
EXTENDS Naturals, FiniteSets

CONSTANTS Names, Keys,
          MaxChanges,     \* bound: registrations and deletions
          MaxScaleFaults, \* bound: failing calls and restarts
          None

VARIABLES rows,         \* datasets: the key, and the key of manifest.scale
          inflight,     \* _inflight
          page,         \* attach_scale_info of the page being rendered
          workers,      \* the measuring threads
          refused,      \* names whose thread could not be started
          changes, scaleFaults

scaleVars == <<rows, inflight, page, workers, refused, changes, scaleFaults>>

NoRow == [key |-> None, scale |-> None]

NoPage == [pc |-> "idle", todo |-> {}, shown |-> {}]

(* A thread, with the keys its page listed: what is left to measure, the   *)
(* item in hand, and what each footer read gave.                           *)
Worker(todo) ==
  [keys |-> [n \in todo |-> rows[n].key], left |-> todo, item |-> None,
   read |-> {}, failed |-> {}]

ScaleTypeOK ==
  /\ rows \in [Names -> [key : Keys \union {None}, scale : Keys \union {None}]]
  /\ inflight \subseteq Names
  /\ page.pc \in {"idle", "listed", "waiting"}
  /\ page.todo \subseteq Names
  /\ page.shown \subseteq Names
  /\ \A w \in workers : DOMAIN w.keys \subseteq Names /\ w.left \subseteq DOMAIN w.keys

ScaleInit ==
  /\ rows = [n \in Names |-> NoRow]
  /\ inflight = {}
  /\ page = NoPage
  /\ workers = {}
  /\ refused = {}
  /\ changes = 0
  /\ scaleFaults = 0

ScaleFault == scaleFaults < MaxScaleFaults /\ scaleFaults' = scaleFaults + 1

Listed(n) == rows[n].key # None

(* cached_scale, and the comparison with the row's source and years.       *)
Current(n) == Listed(n) /\ rows[n].scale = rows[n].key

counts == <<changes, scaleFaults>>

-----------------------------------------------------------------------------
(* Registration, by the upsert of register_dataset: a manifest in the      *)
(* payload replaces the stored one and its scale.                          *)
Register(n, k) ==
  /\ page.pc = "idle"
  /\ changes < MaxChanges
  /\ changes' = changes + 1
  /\ \E scale \in {None, rows[n].scale} :
       rows' = [rows EXCEPT ![n] = [key |-> k, scale |-> scale]]
  /\ UNCHANGED <<inflight, page, workers, refused, scaleFaults>>

(* delete_dataset: cleanup_dataset in one transaction.                     *)
Delete(n) ==
  /\ page.pc = "idle"
  /\ Listed(n)
  /\ changes < MaxChanges
  /\ changes' = changes + 1
  /\ rows' = [rows EXCEPT ![n] = NoRow]
  /\ UNCHANGED <<inflight, page, workers, refused, scaleFaults>>

-----------------------------------------------------------------------------
(* attach_scale_info: list_datasets, and what its rows hold already; what  *)
(* is left over is pending.                                                *)
List ==
  /\ page.pc = "idle"
  /\ page' = [pc |-> "listed", todo |-> {n \in Names : Listed(n) /\ ~Current(n)},
              shown |-> {n \in Names : Current(n)}]
  /\ UNCHANGED <<rows, inflight, workers, refused, counts>>

(* Definitions marked "Slip" are changes a later edit could make to the    *)
(* code.  Nothing uses them: they show which property notices which slip.  *)
(* Slip: the names under way are not left out.                             *)
TodoAll == page.todo

Todo == page.todo \ inflight

(* Under the lock the names not under way are taken; then the thread.      *)
StartWorker ==
  /\ page.pc = "listed"
  /\ Todo # {}
  /\ inflight' = inflight \union Todo
  /\ workers' = workers \union {Worker(Todo)}
  /\ page' = [page EXCEPT !.pc = "waiting", !.todo = Todo]
  /\ UNCHANGED <<rows, refused, counts>>

(* The system refuses another thread: the page fails, the names stay.      *)
StartFails ==
  /\ page.pc = "listed"
  /\ Todo # {}
  /\ ScaleFault
  /\ inflight' = inflight \union Todo
  /\ refused' = refused \union Todo
  /\ page' = NoPage
  /\ UNCHANGED <<rows, workers, changes>>

NothingToMeasure ==
  /\ page.pc = "listed"
  /\ Todo = {}
  /\ page' = NoPage
  /\ UNCHANGED <<rows, inflight, workers, refused, counts>>

(* join returns when the thread has ended or its time is up.               *)
Render ==
  /\ page.pc = "waiting"
  /\ page' = NoPage
  /\ UNCHANGED <<rows, inflight, workers, refused, counts>>

-----------------------------------------------------------------------------
(* _compute_and_cache                                                      *)
Step(w, v) == workers' = (workers \ {w}) \union {v}

KnownKey(w, n) == w.keys[n] \in w.read \union w.failed

(* The footers are read once for each key; a key that failed is not tried  *)
(* again.                                                                  *)
ReadFooters(w, n) ==
  /\ w.item = None
  /\ n \in w.left
  /\ Step(w, IF w.keys[n] \in w.failed THEN [w EXCEPT !.left = @ \ {n}]
             ELSE [w EXCEPT !.item = n, !.read = @ \union {w.keys[n]}])
  /\ UNCHANGED <<rows, inflight, page, refused, counts>>

ReadFails(w, n) ==
  /\ w.item = None
  /\ n \in w.left
  /\ ~KnownKey(w, n)
  /\ ScaleFault
  /\ Step(w, [w EXCEPT !.left = @ \ {n}, !.failed = @ \union {w.keys[n]}])
  /\ UNCHANGED <<rows, inflight, page, refused, changes>>

(* A page still waiting for the thread finds the result in its dictionary. *)
Result(w, n) ==
  page' = IF page.pc = "waiting" /\ page.todo = DOMAIN w.keys
          THEN [page EXCEPT !.shown = @ \union {n}] ELSE page

Stored(w) ==
  Step(w, [w EXCEPT !.item = None, !.left = @ \ {w.item}]) /\ Result(w, w.item)

(* Slip: the operands of the merge are swapped, a stored scale wins.       *)
StoreKeeps(w) ==
  /\ w.item # None
  /\ rows' = IF Listed(w.item) /\ rows[w.item].scale = None
             THEN [rows EXCEPT ![w.item].scale = w.keys[w.item]] ELSE rows
  /\ Stored(w)
  /\ UNCHANGED <<inflight, refused, counts>>

(* _store merges into whatever row has the name by now, if one has.        *)
Store(w) ==
  /\ w.item # None
  /\ rows' = IF Listed(w.item) THEN [rows EXCEPT ![w.item].scale = w.keys[w.item]]
             ELSE rows
  /\ Stored(w)
  /\ UNCHANGED <<inflight, refused, counts>>

StoreFails(w) ==
  /\ w.item # None
  /\ ScaleFault
  /\ Stored(w)
  /\ UNCHANGED <<rows, inflight, refused, changes>>

(* The finally block.                                                      *)
Finish(w) ==
  /\ w.item = None
  /\ w.left = {}
  /\ inflight' = inflight \ DOMAIN w.keys
  /\ workers' = workers \ {w}
  /\ UNCHANGED <<rows, page, refused, counts>>

(* The connection cannot be opened.                                        *)
OpenFails(w) ==
  /\ w.left = DOMAIN w.keys
  /\ w.item = None
  /\ ScaleFault
  /\ inflight' = inflight \ DOMAIN w.keys
  /\ workers' = workers \ {w}
  /\ UNCHANGED <<rows, page, refused, changes>>

Measure(w) ==
  \/ Store(w) \/ Finish(w)
  \/ \E n \in w.left : ReadFooters(w, n)

Restart ==
  /\ ScaleFault
  /\ inflight' = {}
  /\ workers' = {}
  /\ refused' = {}
  /\ page' = NoPage
  /\ UNCHANGED <<rows, changes>>

-----------------------------------------------------------------------------
Page == List \/ StartWorker \/ NothingToMeasure \/ Render

ScaleFails ==
  \/ StartFails \/ Restart
  \/ \E w \in workers : OpenFails(w) \/ StoreFails(w)
                        \/ \E n \in w.left : ReadFails(w, n)

ScaleNext ==
  \/ Page \/ ScaleFails
  \/ \E w \in workers : Measure(w)
  \/ \E n \in Names : Delete(n) \/ \E k \in Keys : Register(n, k)

-----------------------------------------------------------------------------
Owners(n) == {w \in workers : n \in DOMAIN w.keys}

(* A dataset is measured by one thread at a time however many pages are    *)
(* rendered meanwhile, and only a thread that never started leaves a name  *)
(* behind.                                                                 *)
MeasuredByOne ==
  \A n \in Names :
    /\ Cardinality(Owners(n)) <= 1
    /\ Owners(n) # {} => n \in inflight
    /\ n \in inflight \ refused => Owners(n) # {}

(* Every dataset that stays registered under one key has its figures in    *)
(* the end, after failed reads, late threads of an earlier registration    *)
(* that overwrite its manifest, and restarts; unless its thread could not  *)
(* be started.                                                             *)
EventuallyMeasured ==
  \A n \in Names, k \in Keys :
    <>[](rows[n].key = k /\ n \notin refused) => <>[]Current(n)
=============================================================================
