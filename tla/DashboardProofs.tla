-------------------------- MODULE DashboardProofs --------------------------
(***************************************************************************)
(* Theorems about DashboardCache, for every set of datasets and threads    *)
(* and every number of publications and faults.                            *)
(***************************************************************************)
EXTENDS DashboardCache, TLAPS

(* A thread that still has something to do works for a dataset.            *)
ThreadsHaveDatasets ==
  \A j \in Threads :
    threads[j].pc # "done" \/ threads[j].timer # "off" =>
      threads[j].ds \in Datasets

(* Publications are numbered upwards.                                      *)
NumbersAreUsed ==
  /\ publishing # None => nPublished < MaxPublications
  /\ \A d \in Datasets : pointer[d] <= nPublished /\ row[d] <= nPublished
  /\ \A j \in Threads : threads[j].saw <= nPublished

(* A row is never ahead of the pointer.                                    *)
RowsFollow ==
  \A d \in Datasets : pointer[d] = 0 \/ row[d] <= pointer[d]

(* What a thread is about to store lies between the row and the pointer.   *)
ScansAreBetween ==
  \A j \in Threads :
    /\ threads[j].pc \in {"lock", "check", "build"} => threads[j].saw = Empty
    /\ threads[j].pc = "store" =>
         /\ threads[j].saw = Empty \/ row[threads[j].ds] <= threads[j].saw
         /\ \/ pointer[threads[j].ds] = 0
            \/ threads[j].saw <= pointer[threads[j].ds]

(* The inductive invariant.                                                *)
IInv ==
  /\ TypeOK
  /\ MarksAreOwned
  /\ ThreadsHaveDatasets
  /\ NumbersAreUsed
  /\ RowsFollow
  /\ ScansAreBetween

-----------------------------------------------------------------------------
(* A new thread and a free slot are well typed.                            *)
LEMMA ThreadRows ==
  /\ NoThread \in Thread
  /\ \A kind \in {"publish", "view", "boot"}, d \in Datasets :
       /\ NewThread(kind, d) \in Thread
       /\ NewThread(kind, d).kind = kind
       /\ NewThread(kind, d).ds = d
       /\ NewThread(kind, d).pc = "lock"
       /\ NewThread(kind, d).saw = Empty
  BY DEF NoThread, NewThread, Thread, Empty

(* What a step of a thread changes in the threads: its place and its scan. *)
Moved(j, to, saw) ==
  /\ threads' \in [Threads -> Thread]
  /\ \A i \in Threads :
       /\ threads'[i].pc = IF i = j THEN to ELSE threads[i].pc
       /\ threads'[i].saw = IF i = j THEN saw ELSE threads[i].saw
       /\ threads'[i].kind = threads[i].kind
       /\ threads'[i].ds = threads[i].ds
       /\ threads'[i].timer = threads[i].timer

(* A step by place alone moves its thread and keeps what it saw.           *)
LEMMA StepMoves ==
  ASSUME TypeOK, NEW j \in Threads, NEW from, NEW to \in
           {"done", "lock", "check", "build", "store", "release", "clear"},
         Step(j, from, to)
  PROVE  threads[j].pc = from /\ Moved(j, to, threads[j].saw)
  BY DEF TypeOK, Step, Moved, Thread

-----------------------------------------------------------------------------
(* Each step of refresh_dashboard_cache keeps the invariant.               *)
LEMMA TryLockKeeps ==
  ASSUME IInv, NEW j \in Threads, TryLock(j)
  PROVE  IInv'
  <1> DEFINE to == IF LockTaken THEN "clear" ELSE "check"
  <1>1. threads[j].pc = "lock" /\ Moved(j, to, threads[j].saw)
    BY StepMoves DEF IInv, TryLock
  <1>2. \/ lock = None /\ lock' = j /\ to = "check"
        \/ lock' = lock /\ to = "clear"
    BY DEF TryLock, LockTaken
  <1> HIDE DEF to
  <1>3. TypeOK' /\ MarksAreOwned'
    <2>1. TypeOK'
      BY <1>1, <1>2 DEF IInv, TypeOK, TryLock, Moved
    <2>2. MarksAreOwned'
      BY <1>1, <1>2, CacheAssumption
         DEF IInv, TypeOK, MarksAreOwned, Locked, TryLock, Moved
    <2>3. QED
      BY <2>1, <2>2
  <1>4. ThreadsHaveDatasets' /\ NumbersAreUsed' /\ RowsFollow'
    BY <1>1 DEF IInv, ThreadsHaveDatasets, NumbersAreUsed, RowsFollow,
                TryLock, Moved
  <1>5. ScansAreBetween'
    BY <1>1, <1>2 DEF IInv, ScansAreBetween, TryLock, Moved
  <1>6. QED
    BY <1>3, <1>4, <1>5 DEF IInv

(* Whoever finds nothing published goes on to store with an empty scan.    *)
LEMMA CheckPublishedKeeps ==
  ASSUME IInv, NEW j \in Threads, CheckPublished(j)
  PROVE  IInv'
  <1> DEFINE to == IF pointer[threads[j].ds] = 0 THEN "store" ELSE "build"
  <1>1. threads[j].pc = "check" /\ Moved(j, to, threads[j].saw)
    BY StepMoves DEF IInv, CheckPublished
  <1> HIDE DEF to
  <1>2. to \in {"store", "build"}
    BY DEF to
  <1>3. TypeOK'
    BY <1>1 DEF IInv, TypeOK, CheckPublished, Moved
  <1>4. MarksAreOwned'
    BY <1>1, <1>2
       DEF IInv, MarksAreOwned, Locked, TypeOK, CheckPublished, Moved
  <1>5. ThreadsHaveDatasets' /\ NumbersAreUsed' /\ RowsFollow'
    BY <1>1 DEF IInv, ThreadsHaveDatasets, NumbersAreUsed, RowsFollow,
                CheckPublished, Moved
  <1>6. ScansAreBetween'
    BY <1>1 DEF IInv, ScansAreBetween, CheckPublished, Moved, to
  <1>7. QED
    BY <1>3, <1>4, <1>5, <1>6 DEF IInv

(* A scan sees the published run: no earlier than the row, no later than   *)
(* the pointer.                                                            *)
LEMMA BuildKeeps ==
  ASSUME IInv, NEW j \in Threads, Build(j)
  PROVE  IInv'
  <1>1. threads[j].ds \in Datasets /\ threads[j].pc = "build"
    BY DEF IInv, ThreadsHaveDatasets, Build
  <1>2. pointer[threads[j].ds] \in 0 .. MaxPublications
    BY <1>1 DEF IInv, TypeOK
  <1>3. Scanned(j) \in {Empty} \union Publications
    BY <1>2, CacheAssumption DEF Scanned, Publications
  <1>4. Moved(j, "store", Scanned(j))
    BY <1>3 DEF IInv, TypeOK, Build, Moved, Thread
  <1>5. TypeOK'
    BY <1>4 DEF IInv, TypeOK, Build, Moved
  <1>6. MarksAreOwned'
    BY <1>1, <1>4 DEF IInv, MarksAreOwned, Locked, TypeOK, Build, Moved
  <1>7. Scanned(j) <= nPublished
    BY <1>1, <1>2 DEF IInv, NumbersAreUsed, Scanned, TypeOK, Empty
  <1>8. ThreadsHaveDatasets' /\ NumbersAreUsed' /\ RowsFollow'
    BY <1>1, <1>4, <1>7
       DEF IInv, ThreadsHaveDatasets, NumbersAreUsed, RowsFollow, Build, Moved
  <1>9. ScansAreBetween'
    BY <1>1, <1>2, <1>4
       DEF IInv, ScansAreBetween, RowsFollow, Build, Moved, Scanned
  <1>10. QED
    BY <1>5, <1>6, <1>8, <1>9 DEF IInv

(* A failed scan stores the minimal payload.                               *)
LEMMA BuildFailsKeeps ==
  ASSUME IInv, NEW j \in Threads, BuildFails(j)
  PROVE  IInv'
  <1>1. threads[j].pc = "build" /\ Moved(j, "store", threads[j].saw)
    BY StepMoves DEF IInv, BuildFails
  <1>2. TypeOK'
    BY <1>1, CacheAssumption DEF IInv, TypeOK, BuildFails, Moved
  <1>3. MarksAreOwned'
    BY <1>1 DEF IInv, MarksAreOwned, Locked, TypeOK, BuildFails, Moved
  <1>4. ThreadsHaveDatasets' /\ NumbersAreUsed' /\ RowsFollow'
    BY <1>1 DEF IInv, ThreadsHaveDatasets, NumbersAreUsed, RowsFollow,
                BuildFails, Moved
  <1>5. ScansAreBetween'
    <2>1. threads[j].saw = Empty
      BY <1>1 DEF IInv, ScansAreBetween
    <2>2. pointer[threads[j].ds] \in 0 .. MaxPublications
      BY <1>1 DEF IInv, ThreadsHaveDatasets, TypeOK
    <2>3. QED
      BY <1>1, <2>1, <2>2
         DEF IInv, ScansAreBetween, BuildFails, Moved, Empty
  <1>6. QED
    BY <1>2, <1>3, <1>4, <1>5 DEF IInv

(* The lock is with one thread, so no other is about to store.             *)
LEMMA OneStores ==
  ASSUME IInv, NEW j \in Threads, threads[j].pc = "store"
  PROVE  /\ \A i \in Threads : threads[i].pc = "store" => i = j
         /\ threads[j].ds \in Datasets
         /\ row[threads[j].ds] \in {Missing, Empty} \union Publications
         /\ pointer[threads[j].ds] \in 0 .. MaxPublications
         /\ threads[j].saw \in {Empty} \union Publications
  BY DEF IInv, MarksAreOwned, Locked, ThreadsHaveDatasets, TypeOK, Thread

(* The stored payload is the thread's scan.                                *)
LEMMA StoreCacheKeeps ==
  ASSUME IInv, NEW j \in Threads, StoreCache(j)
  PROVE  IInv'
  <1>1. threads[j].pc = "store" /\ Moved(j, "release", threads[j].saw)
    BY StepMoves DEF IInv, StoreCache
  <1>2. TypeOK'
    BY <1>1, OneStores DEF IInv, TypeOK, StoreCache, Moved
  <1>3. MarksAreOwned'
    BY <1>1 DEF IInv, MarksAreOwned, Locked, TypeOK, StoreCache, Moved
  <1>4. ThreadsHaveDatasets' /\ NumbersAreUsed'
    BY <1>1, OneStores
       DEF IInv, ThreadsHaveDatasets, NumbersAreUsed, TypeOK, StoreCache, Moved
  <1>5. RowsFollow'
    BY <1>1, OneStores
       DEF IInv, RowsFollow, ScansAreBetween, TypeOK, StoreCache, Moved
  <1>6. ScansAreBetween'
    BY <1>1, OneStores DEF IInv, ScansAreBetween, TypeOK, StoreCache, Moved
  <1>7. QED
    BY <1>2, <1>4, <1>3, <1>5, <1>6 DEF IInv

-----------------------------------------------------------------------------
(* Every other step leaves rows, pointers and scans alone, empties them, or *)
(* starts and ends threads, none of which comes near to storing.           *)
Quiet(j) ==
  \/ /\ threads'[j].pc = threads[j].pc
     /\ threads'[j].ds = threads[j].ds
     /\ threads'[j].saw = threads[j].saw
  \/ /\ threads'[j].pc \in {"done", "lock", "release", "clear"}
     /\ threads'[j].saw \in {Empty, threads[j].saw}
     /\ threads'[j].pc = "lock" => threads'[j].saw = Empty

(* Such steps keep rows behind pointers and scans in between, whether the  *)
(* pointer is cleared, moved to a new publication or left alone.           *)
LEMMA QuietKeeps ==
  ASSUME IInv,
         nPublished' \in {nPublished, nPublished + 1},
         publishing' # None => nPublished' < MaxPublications,
         \A d \in Datasets : /\ row'[d] \in {row[d], Empty}
                             /\ pointer'[d] \in {pointer[d], 0, nPublished'},
         \A j \in Threads : Quiet(j)
  PROVE  NumbersAreUsed' /\ RowsFollow' /\ ScansAreBetween'
  <1>1. \A d \in Datasets : /\ row[d] \in {Missing, Empty} \union Publications
                            /\ pointer[d] \in 0 .. MaxPublications
    BY DEF IInv, TypeOK
  <1>2. nPublished \in Nat /\ nPublished' \in Nat /\ nPublished <= nPublished'
    BY CacheAssumption DEF IInv, TypeOK
  <1>3. \A j \in Threads : threads[j].saw \in {Empty} \union Publications
    BY DEF IInv, TypeOK, Thread
  <1>4. \A d \in Datasets : row[d] \in Int /\ row[d] <= nPublished'
    BY <1>1, <1>2, CacheAssumption
       DEF IInv, NumbersAreUsed, Missing, Empty, Publications
  <1>5. \A j \in Threads : threads[j].saw \in Int /\ threads[j].saw <= nPublished'
    BY <1>2, <1>3, CacheAssumption DEF IInv, NumbersAreUsed, Empty, Publications
  <1>6. NumbersAreUsed'
    BY <1>1, <1>2, <1>4, <1>5, CacheAssumption
       DEF IInv, NumbersAreUsed, Quiet, Empty
  <1>7. RowsFollow'
    BY <1>1, <1>2, <1>4 DEF IInv, RowsFollow, Empty
  <1>8. ScansAreBetween'
    <2> SUFFICES ASSUME NEW j \in Threads
                 PROVE  /\ threads'[j].pc \in {"lock", "check", "build"} =>
                             threads'[j].saw = Empty
                        /\ threads'[j].pc = "store" =>
                             /\ \/ threads'[j].saw = Empty
                                \/ row'[threads'[j].ds] <= threads'[j].saw
                             /\ \/ pointer'[threads'[j].ds] = 0
                                \/ threads'[j].saw <= pointer'[threads'[j].ds]
      BY DEF ScansAreBetween
    <2>1. Quiet(j)
      OBVIOUS
    <2>2. CASE threads'[j].pc = "store"
      <3>1. /\ threads[j].pc = "store"
            /\ threads'[j].ds = threads[j].ds
            /\ threads'[j].saw = threads[j].saw
        BY <2>1, <2>2 DEF Quiet
      <3>2. threads[j].ds \in Datasets
        BY <3>1 DEF IInv, ThreadsHaveDatasets
      <3>3. /\ threads[j].saw = Empty \/ row[threads[j].ds] <= threads[j].saw
            /\ \/ pointer[threads[j].ds] = 0
               \/ threads[j].saw <= pointer[threads[j].ds]
        BY <3>1 DEF IInv, ScansAreBetween
      <3>4. threads[j].saw # Empty => Empty <= threads[j].saw
        BY <1>3, CacheAssumption DEF Empty, Publications
      <3>5. QED
        BY <1>5, <2>2, <3>1, <3>2, <3>3, <3>4
    <2>3. CASE threads'[j].pc # "store"
      <3>1. threads[j].pc \in {"lock", "check", "build"} =>
              threads[j].saw = Empty
        BY DEF IInv, ScansAreBetween
      <3>2. QED
        BY <2>1, <2>3, <3>1 DEF Quiet
    <2>4. QED
      BY <2>2, <2>3
  <1>9. QED
    BY <1>6, <1>7, <1>8

(* A failed store leaves the row alone or empties it.                      *)
LEMMA StoreFailsKeeps ==
  ASSUME IInv, NEW j \in Threads, StoreFails(j)
  PROVE  IInv'
  <1>1. threads[j].pc = "store" /\ Moved(j, "release", threads[j].saw)
    BY StepMoves DEF IInv, StoreFails
  <1>2. TypeOK'
    BY <1>1, OneStores, CacheAssumption DEF IInv, TypeOK, StoreFails, Moved
  <1>3. MarksAreOwned'
    BY <1>1 DEF IInv, MarksAreOwned, Locked, TypeOK, StoreFails, Moved
  <1>4. ThreadsHaveDatasets'
    BY <1>1 DEF IInv, ThreadsHaveDatasets, Moved
  <1>5. NumbersAreUsed' /\ RowsFollow' /\ ScansAreBetween'
    <2>1. \A i \in Threads : Quiet(i)
      BY <1>1 DEF Moved, Quiet
    <2>2. \A d \in Datasets : row'[d] \in {row[d], Empty}
      BY DEF StoreFails, IInv, TypeOK
    <2>3. nPublished' = nPublished /\ pointer' = pointer
          /\ publishing' = publishing
      BY DEF StoreFails
    <2>4. QED
      BY <2>1, <2>2, <2>3, QuietKeeps DEF IInv, NumbersAreUsed
  <1>6. QED
    BY <1>2, <1>3, <1>4, <1>5 DEF IInv

(* Only its holder gives the lock back.                                    *)
LEMMA ReleaseLockKeeps ==
  ASSUME IInv, NEW j \in Threads, ReleaseLock(j)
  PROVE  IInv'
  <1>1. threads[j].pc = "release" /\ Moved(j, "clear", threads[j].saw)
    BY StepMoves DEF IInv, ReleaseLock
  <1>2. TypeOK'
    BY <1>1 DEF IInv, TypeOK, ReleaseLock, Moved
  <1>3. MarksAreOwned'
    BY <1>1, CacheAssumption
       DEF IInv, MarksAreOwned, Locked, TypeOK, ReleaseLock, Moved
  <1>4. ThreadsHaveDatasets'
    BY <1>1 DEF IInv, ThreadsHaveDatasets, Moved
  <1>5. NumbersAreUsed' /\ RowsFollow' /\ ScansAreBetween'
    <2>1. \A i \in Threads : Quiet(i)
      BY <1>1 DEF Moved, Quiet
    <2>2. UNCHANGED <<nPublished, publishing, pointer, row>>
      BY DEF ReleaseLock
    <2>3. QED
      BY <2>1, <2>2, QuietKeeps DEF IInv, NumbersAreUsed
  <1>6. QED
    BY <1>2, <1>3, <1>4, <1>5 DEF IInv

(* The marks a thread leaves behind when it clears are its own.            *)
LEMMA ClearKeeps ==
  ASSUME IInv, NEW j \in Threads, Clear(j)
  PROVE  IInv'
  <1>1. /\ threads[j].pc = "clear"
        /\ threads[j] \in Thread
        /\ threads[j].ds \in Datasets
    BY DEF IInv, TypeOK, Clear, ThreadsHaveDatasets
  <1>2. /\ Cleared(threads[j]) \in Thread
        /\ Cleared(threads[j]).pc = "done"
        /\ Cleared(threads[j]).saw \in {Empty, threads[j].saw}
        /\ Cleared(threads[j]).timer # "off" =>
             Cleared(threads[j]).ds = threads[j].ds
    BY <1>1, ThreadRows DEF Cleared, Cancelled, Thread, NoThread
  <1>3. /\ threads' \in [Threads -> Thread]
        /\ threads'[j] = Cleared(threads[j])
        /\ \A i \in Threads \ {j} : threads'[i] = threads[i]
    BY <1>2 DEF IInv, TypeOK, Clear
  <1>4. TypeOK'
    BY <1>1, <1>3 DEF IInv, TypeOK, Clear
  <1>5. \A i \in Threads : threads'[i].pc \in Locked <=> lock' = i
    BY <1>1, <1>2, <1>3 DEF IInv, MarksAreOwned, Locked, Clear
  <1>6. ASSUME NEW d \in Datasets, building'[d] # None
        PROVE  /\ threads'[building'[d]].kind = "publish"
               /\ threads'[building'[d]].ds = d
               /\ threads'[building'[d]].pc # "done"
    <2>1. building'[d] = building[d] /\ building[d] \in Threads
      BY <1>6 DEF IInv, TypeOK, Clear
    <2>2. building[d] # j
      BY <1>1, <1>6, <2>1 DEF IInv, TypeOK, MarksAreOwned, Clear
    <2>3. QED
      BY <1>3, <1>6, <2>1, <2>2 DEF IInv, MarksAreOwned
  <1>7. ASSUME NEW d \in Datasets, d \in refreshing'
        PROVE  \E i \in Threads : /\ threads'[i].kind = "view"
                                  /\ threads'[i].ds = d
                                  /\ threads'[i].pc # "done"
    <2>1. d \in refreshing
      BY <1>7 DEF Clear
    <2>2. PICK i \in Threads : /\ threads[i].kind = "view"
                               /\ threads[i].ds = d
                               /\ threads[i].pc # "done"
      BY <2>1 DEF IInv, MarksAreOwned
    <2>3. i # j
      BY <1>7, <2>2 DEF Clear
    <2>4. QED
      BY <1>3, <2>2, <2>3
  <1>8. MarksAreOwned'
    BY <1>4, <1>5, <1>6, <1>7 DEF MarksAreOwned, TypeOK
  <1>9. ThreadsHaveDatasets'
    BY <1>1, <1>2, <1>3 DEF IInv, ThreadsHaveDatasets
  <1>10. NumbersAreUsed' /\ RowsFollow' /\ ScansAreBetween'
    <2>1. \A i \in Threads : Quiet(i)
      BY <1>2, <1>3 DEF Quiet
    <2>2. UNCHANGED <<nPublished, publishing, pointer, row>>
      BY DEF Clear
    <2>3. QED
      BY <2>1, <2>2, QuietKeeps DEF IInv, NumbersAreUsed
  <1>11. QED
    BY <1>4, <1>8, <1>9, <1>10 DEF IInv

-----------------------------------------------------------------------------
(* Steps of watchdogs change no thread but its timer.                      *)
TimerMoved(j, timer) ==
  /\ threads' \in [Threads -> Thread]
  /\ \A i \in Threads :
       /\ threads'[i].pc = threads[i].pc
       /\ threads'[i].kind = threads[i].kind
       /\ threads'[i].ds = threads[i].ds
       /\ threads'[i].saw = threads[i].saw
       /\ threads'[i].timer = IF i = j THEN timer ELSE threads[i].timer

(* The watchdog's steps: thirty seconds pass,                              *)
LEMMA AgeKeeps ==
  ASSUME IInv, NEW j \in Threads, Age(j)
  PROVE  IInv'
  <1>1. TimerMoved(j, threads[j].timer)
    BY DEF IInv, TypeOK, Age, Thread, TimerMoved
  <1>2. TypeOK'
    BY <1>1 DEF IInv, TypeOK, Age, TimerMoved
  <1>3. MarksAreOwned' /\ ThreadsHaveDatasets'
    BY <1>1 DEF IInv, MarksAreOwned, ThreadsHaveDatasets, TypeOK, Age,
                TimerMoved
  <1>4. NumbersAreUsed' /\ RowsFollow' /\ ScansAreBetween'
    <2>1. \A i \in Threads : Quiet(i)
      BY <1>1 DEF TimerMoved, Quiet
    <2>2. QED
      BY <2>1, QuietKeeps DEF IInv, NumbersAreUsed, Age
  <1>5. QED
    BY <1>2, <1>3, <1>4 DEF IInv

(* the timer fires and looks at the lock,                                  *)
LEMMA TimerFiresKeeps ==
  ASSUME IInv, NEW j \in Threads, TimerFires(j)
  PROVE  IInv'
  <1> DEFINE timer == IF LockTaken THEN "write" ELSE "probe"
  <1>1. TimerMoved(j, timer) /\ threads[j].timer = "armed"
    BY DEF IInv, TypeOK, TimerFires, Thread, TimerMoved
  <1> HIDE DEF timer
  <1>2. TypeOK'
    BY <1>1 DEF IInv, TypeOK, TimerFires, TimerMoved
  <1>3. MarksAreOwned' /\ ThreadsHaveDatasets'
    BY <1>1 DEF IInv, MarksAreOwned, ThreadsHaveDatasets, TypeOK, TimerFires,
                TimerMoved
  <1>4. NumbersAreUsed' /\ RowsFollow' /\ ScansAreBetween'
    <2>1. \A i \in Threads : Quiet(i)
      BY <1>1 DEF TimerMoved, Quiet
    <2>2. QED
      BY <2>1, QuietKeeps DEF IInv, NumbersAreUsed, TimerFires
  <1>5. QED
    BY <1>2, <1>3, <1>4 DEF IInv

(* writes the minimal payload,                                             *)
LEMMA TimerWritesKeeps ==
  ASSUME IInv, NEW j \in Threads, TimerWrites(j)
  PROVE  IInv'
  <1>1. TimerMoved(j, "unmark") /\ threads[j].timer = "write"
    BY DEF IInv, TypeOK, TimerWrites, Thread, TimerMoved
  <1>2. TypeOK'
    BY <1>1 DEF IInv, TypeOK, TimerWrites, TimerMoved
  <1>3. MarksAreOwned' /\ ThreadsHaveDatasets'
    BY <1>1 DEF IInv, MarksAreOwned, ThreadsHaveDatasets, TypeOK, TimerWrites,
                TimerMoved
  <1>4. NumbersAreUsed' /\ RowsFollow' /\ ScansAreBetween'
    <2>1. \A i \in Threads : Quiet(i)
      BY <1>1 DEF TimerMoved, Quiet
    <2>2. \A d \in Datasets : row'[d] \in {row[d], Empty}
      BY DEF TimerWrites, IInv, TypeOK
    <2>3. UNCHANGED <<nPublished, publishing, pointer>>
      BY DEF TimerWrites
    <2>4. QED
      BY <2>1, <2>2, <2>3, QuietKeeps DEF IInv, NumbersAreUsed
  <1>5. QED
    BY <1>2, <1>3, <1>4 DEF IInv

(* and a timer that ends takes nothing with it that a mark refers to.      *)
TimerEnded(j) ==
  /\ threads' \in [Threads -> Thread]
  /\ \A i \in Threads :
       /\ threads'[i].pc = threads[i].pc
       /\ threads[i].pc # "done" =>
            /\ threads'[i].kind = threads[i].kind
            /\ threads'[i].ds = threads[i].ds
            /\ threads'[i].saw = threads[i].saw
       /\ threads'[i].saw \in {Empty, threads[i].saw}
       /\ threads'[i].timer # "off" => threads'[i] = threads[i]

LEMMA TimerEndFacts ==
  ASSUME IInv, NEW j \in Threads,
         threads' = [threads EXCEPT ![j] = TimerEnds(@)]
  PROVE  TimerEnded(j)
  <1>1. threads \in [Threads -> Thread] /\ threads[j] \in Thread
    BY DEF IInv, TypeOK
  <1>2. /\ TimerEnds(threads[j]) \in Thread
        /\ TimerEnds(threads[j]).pc = threads[j].pc
        /\ threads[j].pc # "done" =>
             /\ TimerEnds(threads[j]).kind = threads[j].kind
             /\ TimerEnds(threads[j]).ds = threads[j].ds
             /\ TimerEnds(threads[j]).saw = threads[j].saw
        /\ TimerEnds(threads[j]).saw \in {Empty, threads[j].saw}
        /\ TimerEnds(threads[j]).timer = "off"
    BY <1>1, ThreadRows DEF TimerEnds, Thread, NoThread
  <1>3. /\ threads' \in [Threads -> Thread]
        /\ threads'[j] = TimerEnds(threads[j])
        /\ \A i \in Threads \ {j} : threads'[i] = threads[i]
    BY <1>1, <1>2
  <1>4. ASSUME NEW i \in Threads
        PROVE  /\ threads'[i].pc = threads[i].pc
               /\ threads[i].pc # "done" =>
                    /\ threads'[i].kind = threads[i].kind
                    /\ threads'[i].ds = threads[i].ds
                    /\ threads'[i].saw = threads[i].saw
               /\ threads'[i].saw \in {Empty, threads[i].saw}
               /\ threads'[i].timer # "off" => threads'[i] = threads[i]
    BY <1>2, <1>3
  <1>5. QED
    BY <1>3, <1>4 DEF TimerEnded

(* The watchdog gives the lock back, or drops the mark, whoever set it.    *)
LEMMA TimerEndKeeps ==
  ASSUME IInv, NEW j \in Threads, TimerReleases(j) \/ TimerUnmarks(j)
  PROVE  IInv'
  <1>1. TimerEnded(j)
    BY TimerEndFacts DEF TimerReleases, TimerUnmarks
  <1>2. /\ UNCHANGED <<pointer, nPublished, publishing, row, lock, refreshing,
                       poll, faults>>
        /\ \A d \in Datasets : building'[d] \in {building[d], None}
        /\ building' \in [Datasets -> Threads \union {None}]
    BY DEF IInv, TypeOK, TimerReleases, TimerUnmarks
  <1>3. TypeOK'
    BY <1>1, <1>2 DEF IInv, TypeOK, TimerEnded
  <1>4. ThreadsHaveDatasets'
    BY <1>1 DEF IInv, ThreadsHaveDatasets, TimerEnded
  <1>5. MarksAreOwned'
    <2>1. \A i \in Threads : threads'[i].pc \in Locked <=> lock' = i
      BY <1>1, <1>2 DEF IInv, MarksAreOwned, TimerEnded
    <2>2. \A d \in Datasets : building'[d] # None =>
            /\ threads'[building'[d]].kind = "publish"
            /\ threads'[building'[d]].ds = d
            /\ threads'[building'[d]].pc # "done"
      BY <1>1, <1>2 DEF IInv, MarksAreOwned, TypeOK, TimerEnded
    <2>3. \A d \in refreshing' : \E i \in Threads :
            /\ threads'[i].kind = "view"
            /\ threads'[i].ds = d
            /\ threads'[i].pc # "done"
      BY <1>1, <1>2 DEF IInv, MarksAreOwned, TimerEnded
    <2>4. QED
      BY <2>1, <2>2, <2>3 DEF MarksAreOwned
  <1>6. NumbersAreUsed' /\ RowsFollow' /\ ScansAreBetween'
    <2>1. \A i \in Threads : Quiet(i)
      BY <1>1 DEF TimerEnded, Quiet
    <2>2. QED
      BY <1>2, <2>1, QuietKeeps DEF IInv, NumbersAreUsed
  <1>7. QED
    BY <1>3, <1>4, <1>5, <1>6 DEF IInv

-----------------------------------------------------------------------------
(* A thread started in a free slot.                                        *)
Started(kind, d, j) ==
  /\ threads[j] = NoThread
  /\ threads' = [threads EXCEPT ![j] = NewThread(kind, d)]

(* It takes nobody's place and has seen nothing.                           *)
LEMMA StartedThreads ==
  ASSUME IInv, NEW kind \in {"publish", "view"}, NEW d \in Datasets,
         NEW j \in Threads, Started(kind, d, j)
  PROVE  /\ threads' \in [Threads -> Thread]
         /\ threads[j].pc = "done" /\ threads[j].kind = "none"
         /\ threads'[j].kind = kind /\ threads'[j].ds = d
         /\ threads'[j].pc = "lock" /\ threads'[j].saw = Empty
         /\ \A i \in Threads \ {j} : threads'[i] = threads[i]
         /\ ThreadsHaveDatasets'
         /\ \A i \in Threads : Quiet(i)
  <1>1. threads \in [Threads -> Thread]
    BY DEF IInv, TypeOK
  <1>2. /\ NewThread(kind, d) \in Thread
        /\ NewThread(kind, d).kind = kind
        /\ NewThread(kind, d).ds = d
        /\ NewThread(kind, d).pc = "lock"
        /\ NewThread(kind, d).saw = Empty
    BY ThreadRows
  <1>3. /\ threads' \in [Threads -> Thread]
        /\ threads'[j] = NewThread(kind, d)
        /\ \A i \in Threads \ {j} : threads'[i] = threads[i]
    BY <1>1, <1>2 DEF Started
  <1>4. threads[j].pc = "done" /\ threads[j].kind = "none"
    BY DEF Started, NoThread
  <1>5. ThreadsHaveDatasets'
    BY <1>2, <1>3 DEF IInv, ThreadsHaveDatasets
  <1>6. \A i \in Threads : Quiet(i)
    BY <1>2, <1>3 DEF Quiet
  <1>7. QED
    BY <1>2, <1>3, <1>4, <1>5, <1>6

(* A refresh that is started, or refused because the dataset is marked.    *)
LEMMA StartRefreshKeeps ==
  ASSUME IInv, NEW d \in Datasets, NEW j \in Threads, StartRefresh(d, j),
         UNCHANGED <<lock, refreshing>>
  PROVE  /\ threads' \in [Threads -> Thread]
         /\ building' \in [Datasets -> Threads \union {None}]
         /\ MarksAreOwned'
         /\ ThreadsHaveDatasets'
         /\ \A i \in Threads : Quiet(i)
  <1>1. CASE UNCHANGED <<building, threads>>
    BY <1>1 DEF IInv, TypeOK, MarksAreOwned, ThreadsHaveDatasets, Quiet
  <1>2. CASE /\ Started("publish", d, j)
             /\ building' = [building EXCEPT ![d] = j]
    <2>1. /\ threads' \in [Threads -> Thread]
          /\ threads[j].pc = "done" /\ threads[j].kind = "none"
          /\ threads'[j].kind = "publish" /\ threads'[j].ds = d
          /\ threads'[j].pc = "lock"
          /\ \A i \in Threads \ {j} : threads'[i] = threads[i]
          /\ ThreadsHaveDatasets'
          /\ \A i \in Threads : Quiet(i)
      BY <1>2, StartedThreads
    <2>2. building' \in [Datasets -> Threads \union {None}]
      BY <1>2 DEF IInv, TypeOK
    <2>3. \A i \in Threads : threads'[i].pc \in Locked <=> lock' = i
      BY <2>1 DEF IInv, MarksAreOwned, Locked
    <2>4. ASSUME NEW e \in Datasets, building'[e] # None
          PROVE  /\ threads'[building'[e]].kind = "publish"
                 /\ threads'[building'[e]].ds = e
                 /\ threads'[building'[e]].pc # "done"
      <3>1. CASE e = d
        BY <1>2, <2>1, <3>1 DEF IInv, TypeOK
      <3>2. CASE e # d
        <4>1. building'[e] = building[e] /\ building[e] \in Threads
          BY <1>2, <2>4, <3>2 DEF IInv, TypeOK
        <4>2. building[e] # j
          BY <2>1, <2>4, <4>1 DEF IInv, MarksAreOwned
        <4>3. QED
          BY <2>1, <2>4, <4>1, <4>2 DEF IInv, MarksAreOwned
      <3>3. QED
        BY <3>1, <3>2
    <2>5. \A e \in refreshing' : \E i \in Threads :
            /\ threads'[i].kind = "view"
            /\ threads'[i].ds = e
            /\ threads'[i].pc # "done"
      BY <2>1 DEF IInv, MarksAreOwned
    <2>6. QED
      BY <2>1, <2>2, <2>3, <2>4, <2>5 DEF MarksAreOwned
  <1>3. QED
    BY <1>1, <1>2 DEF StartRefresh, Started

(* A publication outnumbers every row, scan and pointer.                   *)
LEMMA MovePointerKeeps ==
  ASSUME IInv, NEW d \in Datasets, NEW j \in Threads, MovePointer(d, j)
  PROVE  IInv'
  <1>1. /\ threads' \in [Threads -> Thread]
        /\ building' \in [Datasets -> Threads \union {None}]
        /\ MarksAreOwned'
        /\ ThreadsHaveDatasets'
        /\ \A i \in Threads : Quiet(i)
    BY StartRefreshKeeps DEF MovePointer
  <1>2. nPublished < MaxPublications
    BY CacheAssumption DEF IInv, NumbersAreUsed, MovePointer
  <1>3. nPublished + 1 \in 0 .. MaxPublications
    BY <1>2, CacheAssumption DEF IInv, TypeOK
  <1>4. pointer' \in [Datasets -> 0 .. MaxPublications]
    BY <1>3 DEF IInv, TypeOK, MovePointer
  <1>5. TypeOK'
    BY <1>1, <1>3, <1>4 DEF IInv, TypeOK, MovePointer
  <1>6. NumbersAreUsed' /\ RowsFollow' /\ ScansAreBetween'
    <2>1. \A e \in Datasets : /\ row'[e] \in {row[e], Empty}
                              /\ pointer'[e] \in {pointer[e], 0, nPublished'}
      BY DEF IInv, TypeOK, MovePointer
    <2>2. publishing' = None /\ nPublished' = nPublished + 1
      BY DEF MovePointer
    <2>3. QED
      BY <1>1, <2>1, <2>2, QuietKeeps
  <1>7. QED
    BY <1>1, <1>5, <1>6 DEF IInv

(* The rebuild button starts a refresh and nothing else.                   *)
LEMMA RebuildButtonKeeps ==
  ASSUME IInv, NEW d \in Datasets, NEW j \in Threads, RebuildButton(d, j)
  PROVE  IInv'
  <1>1. /\ threads' \in [Threads -> Thread]
        /\ building' \in [Datasets -> Threads \union {None}]
        /\ MarksAreOwned'
        /\ ThreadsHaveDatasets'
        /\ \A i \in Threads : Quiet(i)
    BY StartRefreshKeeps DEF RebuildButton
  <1>2. TypeOK'
    BY <1>1 DEF IInv, TypeOK, RebuildButton
  <1>3. NumbersAreUsed' /\ RowsFollow' /\ ScansAreBetween'
    BY <1>1, QuietKeeps DEF IInv, NumbersAreUsed, RebuildButton
  <1>4. QED
    BY <1>1, <1>2, <1>3 DEF IInv

(* The mark of a view belongs to the thread started for it.                *)
LEMMA ViewMissingKeeps ==
  ASSUME IInv, NEW d \in Datasets, NEW j \in Threads, ViewMissing(d, j)
  PROVE  IInv'
  <1>1. /\ threads' \in [Threads -> Thread]
        /\ threads[j].pc = "done" /\ threads[j].kind = "none"
        /\ threads'[j].kind = "view" /\ threads'[j].ds = d
        /\ threads'[j].pc = "lock"
        /\ \A i \in Threads \ {j} : threads'[i] = threads[i]
        /\ ThreadsHaveDatasets'
        /\ \A i \in Threads : Quiet(i)
    BY StartedThreads DEF ViewMissing, Started
  <1>2. TypeOK'
    BY <1>1 DEF IInv, TypeOK, ViewMissing
  <1>3. MarksAreOwned'
    <2>1. \A i \in Threads : threads'[i].pc \in Locked <=> lock' = i
      BY <1>1 DEF IInv, MarksAreOwned, Locked, ViewMissing
    <2>2. \A e \in Datasets : building'[e] # None =>
            /\ threads'[building'[e]].kind = "publish"
            /\ threads'[building'[e]].ds = e
            /\ threads'[building'[e]].pc # "done"
      BY <1>1 DEF IInv, MarksAreOwned, TypeOK, ViewMissing
    <2>3. \A e \in refreshing' : \E i \in Threads :
            /\ threads'[i].kind = "view"
            /\ threads'[i].ds = e
            /\ threads'[i].pc # "done"
      BY <1>1 DEF IInv, MarksAreOwned, ViewMissing
    <2>4. QED
      BY <2>1, <2>2, <2>3 DEF MarksAreOwned
  <1>4. NumbersAreUsed' /\ RowsFollow' /\ ScansAreBetween'
    BY <1>1, QuietKeeps DEF IInv, NumbersAreUsed, ViewMissing
  <1>5. QED
    BY <1>1, <1>2, <1>3, <1>4 DEF IInv

-----------------------------------------------------------------------------
(* Steps that leave the threads alone.                                     *)
(* They may drop marks, empty rows and clear pointers.                     *)
LEMMA ThreadsUnchangedKeep ==
  ASSUME IInv, TypeOK', UNCHANGED <<threads, lock, refreshing, nPublished>>,
         publishing' # None => nPublished < MaxPublications,
         \A d \in Datasets : /\ building'[d] \in {building[d], None}
                             /\ row'[d] \in {row[d], Empty}
                             /\ pointer'[d] \in {pointer[d], 0}
  PROVE  IInv'
  <1>1. MarksAreOwned' /\ ThreadsHaveDatasets'
    BY DEF IInv, MarksAreOwned, ThreadsHaveDatasets, TypeOK
  <1>2. \A j \in Threads : Quiet(j)
    BY DEF Quiet
  <1>3. NumbersAreUsed' /\ RowsFollow' /\ ScansAreBetween'
    BY <1>2, QuietKeeps
  <1>4. QED
    BY <1>1, <1>3 DEF IInv

(* Clearing the pointer, by a publication or by a deletion.                *)
LEMMA PointerStepsKeep ==
  ASSUME IInv, NEW d \in Datasets, ClearPointer(d) \/ DeletePublished(d)
  PROVE  IInv'
  <1>1. TypeOK'
    BY CacheAssumption DEF IInv, TypeOK, ClearPointer, DeletePublished
  <1>2. /\ UNCHANGED <<threads, lock, refreshing, nPublished, building, row>>
        /\ publishing' # None => nPublished < MaxPublications
        /\ \A e \in Datasets : pointer'[e] \in {pointer[e], 0}
    BY DEF IInv, TypeOK, NumbersAreUsed, ClearPointer, DeletePublished
  <1>3. QED
    BY <1>1, <1>2, ThreadsUnchangedKeep

(* A timed out status request drops the mark and later empties the row.    *)
LEMMA StatusStepsKeep ==
  ASSUME IInv, (\E d \in Datasets : StatusTimeout(d)) \/ StatusWrite
  PROVE  IInv'
  <1>1. TypeOK'
    BY DEF IInv, TypeOK, StatusTimeout, StatusWrite
  <1>2. /\ UNCHANGED <<threads, lock, refreshing, nPublished, publishing, pointer>>
        /\ \A e \in Datasets : building'[e] \in {building[e], None}
    BY DEF IInv, TypeOK, StatusTimeout, StatusWrite
  <1>3. \A e \in Datasets : row'[e] \in {row[e], Empty}
    BY DEF IInv, TypeOK, StatusTimeout, StatusWrite
  <1>4. QED
    BY <1>1, <1>2, <1>3, ThreadsUnchangedKeep DEF IInv, NumbersAreUsed

(* After a reboot nothing is marked, and at most one thread runs.          *)
LEMMA RebootKeeps ==
  ASSUME IInv, NEW j \in Threads, Reboot(j)
  PROVE  IInv'
  <1>1. \A i \in Threads :
          \/ threads'[i] = NoThread
          \/ \E d \in Datasets : threads'[i] = NewThread("boot", d)
    BY DEF Reboot
  <1>2. threads' \in [Threads -> Thread]
    BY ThreadRows DEF Reboot
  <1>3. NoThread.pc = "done" /\ NoThread.saw = Empty /\ NoThread.timer = "off"
    BY DEF NoThread
  <1>4. TypeOK'
    BY <1>2, CacheAssumption DEF IInv, TypeOK, Reboot
  <1>5. MarksAreOwned'
    BY <1>1, <1>3, ThreadRows, CacheAssumption
       DEF MarksAreOwned, Locked, Reboot
  <1>6. ThreadsHaveDatasets'
    BY <1>1, <1>3, ThreadRows DEF ThreadsHaveDatasets
  <1>7. NumbersAreUsed' /\ RowsFollow' /\ ScansAreBetween'
    <2>1. \A i \in Threads : Quiet(i)
      BY <1>1, <1>3, ThreadRows DEF Quiet
    <2>2. UNCHANGED <<nPublished, pointer, row>> /\ publishing' = None
      BY DEF Reboot
    <2>3. QED
      BY <2>1, <2>2, QuietKeeps
  <1>8. QED
    BY <1>4, <1>5, <1>6, <1>7 DEF IInv

-----------------------------------------------------------------------------
(* The invariant holds in every reachable state, whatever is published,    *)
(* viewed, rebuilt, timed out, failed or rebooted, in whatever order.      *)
THEOREM Invariance == Spec => []IInv
  <1>1. Init => IInv
    <2> SUFFICES ASSUME Init PROVE IInv
      OBVIOUS
    <2>1. \A j \in Threads : /\ threads[j] = NoThread
                             /\ threads[j].pc = "done"
                             /\ threads[j].timer = "off"
                             /\ threads[j].saw = Empty
      BY DEF Init, NoThread
    <2>2. TypeOK
      BY ThreadRows, CacheAssumption DEF Init, TypeOK
    <2>3. MarksAreOwned /\ ThreadsHaveDatasets
      BY <2>1, CacheAssumption
         DEF Init, MarksAreOwned, Locked, ThreadsHaveDatasets
    <2>4. NumbersAreUsed /\ RowsFollow /\ ScansAreBetween
      BY <2>1 DEF Init, NumbersAreUsed, RowsFollow, ScansAreBetween, Missing,
                  Empty
    <2>5. QED
      BY <2>2, <2>3, <2>4 DEF IInv
  <1>2. IInv /\ [Next]_vars => IInv'
    <2> SUFFICES ASSUME IInv, [Next]_vars PROVE IInv'
      OBVIOUS
    <2>1. ASSUME NEW d \in Datasets,
                 ClearPointer(d) \/ DeletePublished(d) \/ StatusTimeout(d)
          PROVE  IInv'
      BY <2>1, PointerStepsKeep, StatusStepsKeep
    <2>2. ASSUME NEW d \in Datasets, NEW j \in Threads, Request(d, j)
          PROVE  IInv'
      BY <2>2, MovePointerKeeps, RebuildButtonKeeps, ViewMissingKeeps
         DEF Request
    <2>3. ASSUME StatusWrite PROVE IInv'
      BY <2>3, StatusStepsKeep
    <2>4. ASSUME NEW j \in Threads, Refresh(j) PROVE IInv'
      BY <2>4, TryLockKeeps, CheckPublishedKeeps, BuildKeeps, StoreCacheKeeps,
         ReleaseLockKeeps, ClearKeeps DEF Refresh
    <2>5. ASSUME NEW j \in Threads, Watchdog(j) \/ Age(j) PROVE IInv'
      BY <2>5, TimerFiresKeeps, TimerWritesKeeps, TimerEndKeeps, AgeKeeps
         DEF Watchdog
    <2>6. ASSUME NEW j \in Threads, BuildFails(j) \/ StoreFails(j) \/ Reboot(j)
          PROVE  IInv'
      BY <2>6, BuildFailsKeeps, StoreFailsKeeps, RebootKeeps
    <2>7. CASE UNCHANGED vars
      BY <2>7, ThreadsUnchangedKeep DEF IInv, TypeOK, NumbersAreUsed, vars
    <2>8. QED
      BY <2>1, <2>2, <2>3, <2>4, <2>5, <2>6, <2>7 DEF Next
  <1>3. QED
    BY <1>1, <1>2, PTL DEF Spec

(* The build lock and the marks are always those of threads that run and   *)
(* will clear them.                                                        *)
THEOREM MarksAreOwnedAlways == Spec => [](TypeOK /\ MarksAreOwned)
  <1>1. IInv => TypeOK /\ MarksAreOwned
    BY DEF IInv
  <1>2. QED
    BY <1>1, Invariance, PTL

(* The cache never goes back to an earlier publication.                    *)
THEOREM RowNeverGoesBackAlways == Spec => RowNeverGoesBack
  <1> DEFINE Later(d) == row[d] > 0 /\ row'[d] > 0 => row'[d] >= row[d]
  <1>1. ASSUME IInv, [Next]_vars, NEW d \in Datasets
        PROVE  Later(d)
    <2>1. row[d] \in {Missing, Empty} \union Publications /\ row[d] \in Int
      BY <1>1, CacheAssumption DEF IInv, TypeOK, Missing, Empty, Publications
    <2>2. ASSUME row'[d] \in {row[d], Empty} PROVE Later(d)
      BY <2>1, <2>2 DEF Empty
    <2>3. ASSUME NEW j \in Threads, StoreCache(j) PROVE Later(d)
      <3>1. threads[j].pc = "store"
        BY <2>3 DEF StoreCache, Step
      <3>2. \/ row'[d] = row[d]
            \/ d = threads[j].ds /\ row'[d] = threads[j].saw
        BY <1>1, <2>3 DEF StoreCache, IInv, TypeOK
      <3>3. threads[j].saw = Empty \/ row[threads[j].ds] <= threads[j].saw
        BY <1>1, <3>1 DEF IInv, ScansAreBetween
      <3>4. threads[j].saw \in Int
        BY <1>1, CacheAssumption DEF IInv, TypeOK, Thread, Empty, Publications
      <3>5. QED
        BY <2>1, <3>2, <3>3, <3>4 DEF Empty
    <2>4. CASE UNCHANGED row
      BY <2>2, <2>4
    <2>5. CASE StatusWrite
      BY <1>1, <2>2, <2>5 DEF StatusWrite, IInv, TypeOK
    <2>6. ASSUME NEW j \in Threads, StoreFails(j) \/ TimerWrites(j)
          PROVE  Later(d)
      BY <1>1, <2>2, <2>6 DEF StoreFails, TimerWrites, IInv, TypeOK
    <2>7. QED
      BY <1>1, <2>3, <2>4, <2>5, <2>6
         DEF Next, vars, ClearPointer, DeletePublished, StatusTimeout, Request,
             MovePointer, RebuildButton, ViewMissing, Refresh, TryLock,
             CheckPublished, Build, ReleaseLock, Clear, Watchdog, TimerFires,
             TimerReleases, TimerUnmarks, Age, BuildFails, Reboot
  <1>2. IInv /\ [Next]_vars => \A d \in Datasets : Later(d)
    BY <1>1
  <1>3. QED
    BY <1>2, Invariance, PTL DEF Spec, RowNeverGoesBack
=============================================================================
