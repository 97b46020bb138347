--------------------------- MODULE ScenarioCache ----------------------------
(***************************************************************************)
(* The local Parquet cache of the revenue platform                         *)
(* (storage/scenario_cache.py): pipelines and the boot's warm-up thread    *)
(* ask for a dataset's folder, which is downloaded once from the bucket,   *)
(* and then read it without any lock.                                      *)
(*                                                                         *)
(* One process; its reentrant lock lets one download at a time make        *)
(* progress.  The disk outlives the process.  A file is its size: the code *)
(* compares nothing else.  Folders are ordered by modification time, which *)
(* every write moves; the manifest's own bytes are not counted.            *)
(***************************************************************************)
EXTENDS Naturals, SequencesExt, Functions

CONSTANTS Datasets,     \* names of datasets, and of their conventional prefixes
          Contents,     \* what may be uploaded: file sizes by name
          Source,       \* the prefix each dataset is registered with
          MaxBytes,     \* MAX_CACHE_BYTES
          MaxUploads,   \* bound: uploads under any prefix after the start
          MaxFaults,    \* bound: failing calls and crashes
          Null

ASSUME CacheAssumption ==
  /\ IsFiniteSet(Datasets)
  /\ Source \in [Datasets -> Datasets]
  /\ \A c \in Contents : c \in [DOMAIN c -> Nat] /\ IsFiniteSet(DOMAIN c)
  /\ Null \notin Contents
  /\ MaxBytes \in Nat

VARIABLES bucket,       \* what is stored under each prefix
          disk,         \* cache folders: files, leftover .part files, manifest
          order,        \* the folders, oldest first
          job,          \* ensure_local_scenario of the thread with the lock
          readers,      \* datasets whose valid folder was handed out and is read
          excess,       \* bytes the estimate has missed so far
          uploads, cacheFaults

cacheVars == <<bucket, disk, order, job, readers, excess, uploads, cacheFaults>>

NoFiles == [f \in {} |-> 0]

NoFolder == [files |-> NoFiles, parts |-> NoFiles, manifest |-> Null]

Free == [pc |-> "free", d |-> Null, prefixes |-> <<>>, objects |-> NoFiles,
         missing |-> {}, total |-> 0, queue |-> <<>>]

Bytes(files) == FoldFunction(+, 0, files)

FolderBytes(x) == Bytes(x.files) + Bytes(x.parts)

(* cache_usage_bytes                                                       *)
Usage == Bytes([d \in Datasets |-> FolderBytes(disk[d])])

CacheTypeOK ==
  /\ bucket \in [Datasets -> Contents]
  /\ DOMAIN disk = Datasets
  /\ Range(order) = {d \in Datasets : disk[d] # NoFolder}
  /\ job.pc \in {"free", "resolve", "trim", "reserve", "download", "manifest"}
  /\ job.pc # "free" => job.d \in Datasets

CacheInit ==
  /\ bucket \in [Datasets -> Contents]
  /\ disk = [d \in Datasets |-> NoFolder]
  /\ order = <<>>
  /\ job = Free
  /\ readers = {}
  /\ excess = 0
  /\ uploads = 0
  /\ cacheFaults = 0

CacheFault == cacheFaults < MaxFaults /\ cacheFaults' = cacheFaults + 1

Lacks(d, f, objects) ==
  f \notin DOMAIN disk[d].files \/ disk[d].files[f] # objects[f]

(* _cache_is_valid: the manifest names files, and each has its size.       *)
Valid(d) ==
  /\ disk[d].manifest # Null
  /\ \A f \in DOMAIN disk[d].manifest : ~Lacks(d, f, disk[d].manifest)

Missing(d, objects) == {f \in DOMAIN objects : Lacks(d, f, objects)}

Incoming(objects, missing) == Bytes(Restrict(objects, missing))

JobAt(pc) == job.pc = pc

(* Store folder x as d's, now the newest; an empty one is dropped.         *)
Newest(d) == Append(Remove(order, d), d)

Write(d, x) ==
  /\ disk' = [disk EXCEPT ![d] = x]
  /\ order' = IF x = NoFolder THEN Remove(order, d) ELSE Newest(d)

(* _candidate_prefixes                                                     *)
Candidates(d) == IF Source[d] = d THEN <<d>> ELSE <<Source[d], d>>

disks == <<disk, order, excess, readers>>
outside == <<bucket, uploads>>

-----------------------------------------------------------------------------
(* Definitions marked "Slip" are changes a later edit could make to the    *)
(* code.  Nothing uses them: they show which property notices which slip.  *)
(* Slip: a valid folder is brought up to date with the bucket.             *)
BeginAnyway(d) ==
  /\ JobAt("free")
  /\ job' = [Free EXCEPT !.pc = "resolve", !.d = d,
                         !.prefixes = Candidates(d)]
  /\ UNCHANGED <<disks, outside, cacheFaults>>

(* ensure_local_scenario returns a valid folder at once and else keeps the *)
(* lock.                                                                   *)
Return(d) ==
  /\ JobAt("free")
  /\ Valid(d)
  /\ readers' = readers \union {d}
  /\ UNCHANGED <<disk, order, excess, job, outside, cacheFaults>>

Begin(d) ==
  /\ JobAt("free")
  /\ ~Valid(d)
  /\ job' = [Free EXCEPT !.pc = "resolve", !.d = d,
                         !.prefixes = Candidates(d)]
  /\ UNCHANGED <<disks, outside, cacheFaults>>

(* _resolve_objects: the first prefix with objects; one that cannot be     *)
(* listed is passed over like an empty one, and with none left             *)
(* FileNotFoundError is raised.                                            *)
PassOver ==
  job' = IF Len(job.prefixes) = 1 THEN Free
         ELSE [job EXCEPT !.prefixes = Tail(@)]

Objects == bucket[Head(job.prefixes)]

ListPrefix ==
  /\ JobAt("resolve")
  /\ IF Objects = NoFiles THEN PassOver
     ELSE job' = [job EXCEPT !.pc = "trim", !.objects = Objects,
                             !.total = Usage,
                             !.queue = IF Usage > MaxBytes THEN order ELSE <<>>]
  /\ UNCHANGED <<disks, outside, cacheFaults>>

ListFails ==
  /\ JobAt("resolve")
  /\ CacheFault
  /\ PassOver
  /\ UNCHANGED <<disks, outside>>

(* _make_space, both guardrails: the oldest folder goes, whoever reads it; *)
(* if rmtree fails half-way its bytes are taken as freed all the same.     *)
Without(x, fs) ==
  [x EXCEPT !.files = Restrict(@, DOMAIN @ \ fs), !.parts = Restrict(@, DOMAIN @ \ fs)]

Remnants(x) ==
  {y \in {[Without(x, fs) EXCEPT !.manifest = m] :
            fs \in SUBSET (DOMAIN x.files \union DOMAIN x.parts), m \in {Null, x.manifest}} :
     y # NoFolder}

Freed(d) == [job EXCEPT !.total = @ - FolderBytes(disk[d]), !.queue = Tail(@)]

Evict(d) ==
  /\ job' = Freed(d)
  /\ Write(d, NoFolder)
  /\ readers' = readers \ {d}
  /\ UNCHANGED <<excess, outside, cacheFaults>>

EvictFails(d) ==
  /\ CacheFault
  /\ job' = Freed(d)
  /\ \E x \in Remnants(disk[d]) :
       /\ Write(d, x)
       /\ excess' = excess + FolderBytes(x)
  /\ readers' = readers \ {d}
  /\ UNCHANGED outside

Trimming == JobAt("trim") /\ job.queue # <<>> /\ job.total > MaxBytes

Needed == Incoming(job.objects, job.missing)

(* Slip: room is made until the cache is within its limit as it stands.    *)
ReservingEarly ==
  JobAt("reserve") /\ job.queue # <<>> /\ job.total > MaxBytes

Reserving ==
  JobAt("reserve") /\ job.queue # <<>> /\ job.total + Needed > MaxBytes

Others == SelectSeq(order, LAMBDA d : d # job.d)

Reserve ==
  /\ JobAt("trim")
  /\ ~Trimming
  /\ job' = [job EXCEPT !.pc = "reserve", !.queue = Others,
                        !.missing = Missing(job.d, job.objects)]
  /\ UNCHANGED <<disks, outside, cacheFaults>>

(* RuntimeError: the folders evicted so far stay evicted.                  *)
Refuse ==
  /\ JobAt("reserve")
  /\ ~Reserving
  /\ job.total + Needed > MaxBytes
  /\ job' = Free
  /\ UNCHANGED <<disks, outside, cacheFaults>>

(* Slip: a limit that is exceeded is logged.                               *)
AcceptAnyway ==
  /\ JobAt("reserve")
  /\ ~Reserving
  /\ job' = [job EXCEPT !.pc = "download"]
  /\ UNCHANGED <<disks, outside, cacheFaults>>

Accept ==
  /\ JobAt("reserve")
  /\ job.total + Needed <= MaxBytes
  /\ job' = [job EXCEPT !.pc = "download"]
  /\ UNCHANGED <<disks, outside, cacheFaults>>

-----------------------------------------------------------------------------
Set(files, f, n) == [g \in DOMAIN files \union {f} |-> IF g = f THEN n ELSE files[g]]

Prefix == Head(job.prefixes)

(* n bytes of a file listed as smaller arrived: the estimate has missed    *)
(* the difference.                                                         *)
Missed(f, n) ==
  IF n > job.objects[f] THEN excess + n - job.objects[f] ELSE excess

(* One download: to .part, then renamed.  What arrives is what the bucket  *)
(* holds by now, and nothing may be there any more.                        *)
Fetch(f) ==
  LET n == bucket[Prefix][f]
      x == disk[job.d]
  IN  /\ JobAt("download")
      /\ f \in job.missing
      /\ f \in DOMAIN bucket[Prefix]
      /\ Write(job.d, [x EXCEPT !.files = Set(@, f, n),
                                  !.parts = Restrict(@, DOMAIN @ \ {f})])
      /\ excess' = Missed(f, n)
      /\ job' = [job EXCEPT !.missing = @ \ {f}]
      /\ UNCHANGED <<readers, outside, cacheFaults>>

(* The download raises; its .part file is removed, the lock released.      *)
Abandon ==
  /\ job' = Free
  /\ \E f \in job.missing :
       LET x == disk[job.d]
       IN  Write(job.d, [x EXCEPT !.parts = Restrict(@, DOMAIN @ \ {f})])
  /\ UNCHANGED <<readers, excess, outside>>

Vanished ==
  /\ JobAt("download")
  /\ \E f \in job.missing : f \notin DOMAIN bucket[Prefix]
  /\ Abandon
  /\ UNCHANGED cacheFaults

FetchFails == JobAt("download") /\ job.missing # {} /\ CacheFault /\ Abandon

(* Parquet files that are not in the listing are unlinked; .part files are *)
(* not Parquet files.                                                      *)
Prune ==
  /\ JobAt("download")
  /\ job.missing = {}
  /\ LET x == disk[job.d]
     IN  Write(job.d, [x EXCEPT !.files = Restrict(@, DOMAIN @ \intersect DOMAIN job.objects)])
  /\ job' = [job EXCEPT !.pc = "manifest"]
  /\ UNCHANGED <<readers, excess, outside, cacheFaults>>

(* _write_manifest, by rename: what was listed, not what arrived.  The     *)
(* folder is returned; it is read as a valid one if all of that arrived.   *)
WriteManifest ==
  /\ JobAt("manifest")
  /\ Write(job.d, [disk[job.d] EXCEPT !.manifest = job.objects])
  /\ readers' = IF Missing(job.d, job.objects) = {} THEN readers \union {job.d}
                ELSE readers
  /\ job' = Free
  /\ UNCHANGED <<excess, outside, cacheFaults>>

(* The reader closes its connection.                                       *)
Leave(d) ==
  /\ d \in readers
  /\ readers' = readers \ {d}
  /\ UNCHANGED <<disk, order, excess, job, outside, cacheFaults>>

-----------------------------------------------------------------------------
(* The process is killed and starts again; a file that was under way stays *)
(* behind, in part or in full: of what the bucket holds by now, not of     *)
(* what was listed.                                                        *)
Leftover(f, k) ==
  IF k = 0 THEN disk[job.d] ELSE [disk[job.d] EXCEPT !.parts = Set(@, f, k)]

KillDownload ==
  /\ JobAt("download")
  /\ \E f \in job.missing \intersect DOMAIN bucket[Prefix] :
       \E k \in 0 .. bucket[Prefix][f] :
         /\ Write(job.d, Leftover(f, k))
         /\ excess' = Missed(f, k)

Kill ==
  /\ CacheFault
  /\ job' = Free
  /\ readers' = {}
  /\ KillDownload \/ UNCHANGED <<disk, order, excess>>
  /\ UNCHANGED outside

(* Another content is uploaded under a prefix.                             *)
Upload(p) ==
  /\ uploads < MaxUploads
  /\ uploads' = uploads + 1
  /\ \E c \in Contents \ {bucket[p]} : bucket' = [bucket EXCEPT ![p] = c]
  /\ UNCHANGED <<disks, job, cacheFaults>>

Ensure ==
  \/ ListPrefix \/ Reserve \/ Refuse \/ Accept \/ Vanished \/ Prune \/ WriteManifest
  \/ \E d \in Datasets : (Trimming \/ Reserving) /\ d = Head(job.queue) /\ Evict(d)
  \/ \E f \in job.missing : Fetch(f)

CacheFails ==
  \/ ListFails \/ FetchFails \/ Kill
  \/ \E d \in Datasets :
       (Trimming \/ Reserving) /\ d = Head(job.queue) /\ EvictFails(d)

CacheNext ==
  \/ Ensure \/ CacheFails
  \/ \E d \in Datasets : Return(d) \/ Begin(d) \/ Leave(d) \/ Upload(d)

-----------------------------------------------------------------------------
(* Guardrails 2a and 2b bound the disk: whatever fails, is killed or is    *)
(* uploaded meanwhile, the folders exceed the limit by no more than the    *)
(* bytes that failed evictions left and that arrived, renamed or left      *)
(* behind by a kill, of objects that had grown since their listing.        *)
DiskBounded == Usage <= MaxBytes + excess

(* A reader that was handed a valid folder keeps its files: uploads, other *)
(* threads' calls for the same dataset and their failures leave them       *)
(* alone.  Only room made for another dataset takes them away.             *)
ReadersKeepFiles ==
  [][\A d \in readers :
       \/ disk'[d].files = disk[d].files
       \/ job.pc \in {"trim", "reserve"} /\ job.d # d]_cacheVars

(* What the limit leaves for d: its own folder is no candidate of the      *)
(* second guardrail, so its leftovers count against it.                    *)
Content(d) == IF bucket[Source[d]] # NoFiles THEN bucket[Source[d]] ELSE bucket[d]

Fits(d) ==
  LET c == Content(d)
  IN  c # NoFiles /\ FolderBytes(disk[d]) + Incoming(c, Missing(d, c)) <= MaxBytes

(* After any failures a dataset that is asked for again and again becomes  *)
(* available again and again, unless it leaves no room for itself.         *)
EventuallyServed ==
  \A d \in Datasets : <>[]Fits(d) => []<>Valid(d)
=============================================================================
