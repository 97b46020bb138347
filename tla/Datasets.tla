------------------------------ MODULE Datasets ------------------------------
(***************************************************************************)
(* What one process of the revenue platform keeps of its datasets outside  *)
(* the runs: the Parquet cache on the local disk and the figures of the    *)
(* datasets table.  The two meet in no state (the figures are measured in  *)
(* the bucket, never in the cache), so their interleavings say nothing     *)
(* new: a behaviour has steps of one of them, chosen by scope.             *)
(***************************************************************************)
EXTENDS ScenarioCache, DatasetScale

VARIABLE scope

vars == <<cacheVars, scaleVars, scope>>

InCache(A) == scope = "cache" /\ A /\ UNCHANGED <<scaleVars, scope>>

InScale(A) == scope = "scale" /\ A /\ UNCHANGED <<cacheVars, scope>>

Empty == [d \in Datasets |-> NoFiles]

Init ==
  /\ CacheInit
  /\ ScaleInit
  /\ scope \in IF bucket = Empty THEN {"cache", "scale"} ELSE {"cache"}

Next == InCache(CacheNext) \/ InScale(ScaleNext)

(* A thread that has the cache's lock goes on, and every dataset is asked  *)
(* for again and again: a pipeline asks before each of its queries.  The   *)
(* datasets table is looked at again and again; measuring threads go on.   *)
Spec ==
  /\ Init /\ [][Next]_vars
  /\ WF_vars(InCache(Ensure))
  /\ \A d \in Datasets : SF_vars(InCache(Begin(d)))
  /\ WF_vars(InScale(Page))
  /\ \A n \in Names :
       WF_vars(InScale(\E w \in workers : n \in DOMAIN w.keys /\ Measure(w)))
=============================================================================
