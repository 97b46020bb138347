----------------------------- MODULE Responder ------------------------------
(***************************************************************************)
(* The incident responder (homework_4/incident-response): Grafana posts    *)
(* webhooks, each handled on a thread of the server's pool; a handler      *)
(* saves the evidence of every real alert and launches the on-call agent   *)
(* on a thread of its own, one at a time by a lock file.  The process may  *)
(* die between any two steps; its files stay.                              *)
(*                                                                         *)
(* Incident ids are made of the second, the alert's name and its           *)
(* fingerprint, so two alerts of one rule in one second share an id and    *)
(* their files.  A resolved alert is handled like a firing one, so alerts  *)
(* are told apart by their rule and their test label only.                 *)
(*                                                                         *)
(* A file is opened, which makes or empties it, and then written.          *)
(***************************************************************************)
EXTENDS Naturals, Sequences, FiniteSets

CONSTANTS Rules,        \* alert rules: name and fingerprint
          Handlers,     \* server threads handling POST /alerts
          Webhooks,     \* bodies Grafana may post: sequences of alerts
          Null,
          LastSecond,   \* bound: the clock
          MaxPosts,     \* bound: webhooks posted
          MaxFaults     \* bound: failing writes, threads that do not start,
                        \* and deaths of the process

VARIABLES enabled,      \* AGENT_ENABLED
          second,       \* datetime.now(), in seconds
          handlers,     \* webhook handlers in progress
          folder,       \* files of each incident
          lock,         \* .agent.lock: the incident it was created for
          agents,       \* agent threads
          posts, faults

vars == <<enabled, second, handlers, folder, lock, agents, posts, faults>>

Alert == [rule : Rules, test : BOOLEAN]

Ids == (0 .. LastSecond) \X Rules

ASSUME ResponderAssumption ==
  /\ \A w \in Webhooks : w \in Seq(Alert) /\ w # <<>>
  /\ LastSecond \in Nat
  /\ Null \notin Ids

(* A torn file has been opened and is being written, unless the process    *)
(* died.  A spoilt one is missing or not known to be whole, because its    *)
(* writing failed, which was logged, or two handlers wrote it at a time.   *)
File == {"absent", "torn", "written", "spoilt"}

(* The originals of the incident and the copies the agent's brief names.   *)
(* The agent's report is not among them: nobody reads it back.             *)
Evidence == {"bundle", "prompt", "bundleCopy", "promptCopy"}

NoFiles == [f \in Evidence |-> "absent"]

(* While a handler writes a file its pc is the file's name.                *)
Handler ==
  [pc : Evidence \union {"waiting", "next", "launch", "locked"},
   alerts : Seq(Alert), id : Ids \union {Null},
   open : BOOLEAN]

Waiting == [pc |-> "waiting", alerts |-> <<>>, id |-> Null, open |-> FALSE]

Agent == [id : Ids, pc : {"running", "reporting", "releasing"}]

TypeOK ==
  /\ enabled \in BOOLEAN
  /\ second \in 0 .. LastSecond
  /\ handlers \in [Handlers -> Handler]
  /\ folder \in [Ids -> [Evidence -> File]]
  /\ lock \in Ids \union {Null}
  /\ agents \subseteq Agent

Init ==
  /\ enabled \in BOOLEAN
  /\ second = 0
  /\ handlers = [h \in Handlers |-> Waiting]
  /\ folder = [i \in Ids |-> NoFiles]
  /\ lock = Null
  /\ agents = {}
  /\ posts = 0
  /\ faults = 0

Clock ==
  /\ second < LastSecond
  /\ second' = second + 1
  /\ UNCHANGED <<enabled, handlers, folder, lock, agents, posts, faults>>

Fault == faults < MaxFaults /\ faults' = faults + 1

-----------------------------------------------------------------------------
(* Definitions marked "Slip" are changes a later edit could make to the    *)
(* code.  Nothing uses them: they show which property notices which slip.  *)

(* receive_alerts *)
Post(h, w) ==
  /\ posts < MaxPosts
  /\ posts' = posts + 1
  /\ handlers[h].pc = "waiting"
  /\ handlers' = [handlers EXCEPT ![h].pc = "next", ![h].alerts = w]
  /\ UNCHANGED <<enabled, second, folder, lock, agents, faults>>

At(h, pc) == handlers[h].pc = pc

Current(h) == Head(handlers[h].alerts)

To(h, pc) == handlers' = [handlers EXCEPT ![h].pc = pc]

(* The loop's next alert, or the reply after the last.                     *)
Done(h) ==
  LET rest == Tail(handlers[h].alerts)
  IN  handlers' = [handlers EXCEPT ![h] =
        IF rest = <<>> THEN Waiting
        ELSE [Waiting EXCEPT !.pc = "next", !.alerts = rest]]

others == <<enabled, second, posts>>

SkipTest(h) ==
  /\ At(h, "next")
  /\ Current(h).test
  /\ Done(h)
  /\ UNCHANGED <<folder, lock, agents, faults>>
  /\ UNCHANGED others

(* handle_alert takes the id first; the two evidence queries come before   *)
(* the bundle is opened, and may take seconds.                             *)
TakeId(h) ==
  /\ At(h, "next")
  /\ ~Current(h).test
  /\ handlers' = [handlers EXCEPT ![h].pc = "bundle",
                                  ![h].id = <<second, Current(h).rule>>]
  /\ UNCHANGED <<folder, lock, agents, faults>>
  /\ UNCHANGED others

Saved(id, file, content) == folder' = [folder EXCEPT ![id][file] = content]

Opened(g, i, f) == At(g, f) /\ handlers[g].open /\ handlers[g].id = i

(* Another handler than h has h's incident's file f open.                  *)
Beside(h, f) == \E g \in Handlers \ {h} : Opened(g, handlers[h].id, f)

(* What comes after a file: the bundle's brief, their copies, the launch.  *)
Stage == [bundle |-> "prompt", prompt |-> "bundleCopy",
          bundleCopy |-> "promptCopy", promptCopy |-> "launch"]

(* write_text opens the file, whose folder has been made ...               *)
OpenFile(h) ==
  LET f == handlers[h].pc
  IN  /\ f \in Evidence
      /\ ~handlers[h].open
      /\ Saved(handlers[h].id, f, IF Beside(h, f) THEN "spoilt" ELSE "torn")
      /\ handlers' = [handlers EXCEPT ![h].open = TRUE]
      /\ UNCHANGED <<lock, agents, faults>>
      /\ UNCHANGED others

(* ... and its text arrives: whole, unless another handler's is laid over. *)
Fill(h) ==
  LET f == handlers[h].pc
  IN  /\ f \in Evidence
      /\ handlers[h].open
      /\ Saved(handlers[h].id, f,
               IF folder[handlers[h].id][f] = "torn" THEN "written" ELSE "spoilt")
      /\ handlers' = [handlers EXCEPT ![h].pc = Stage[f], ![h].open = FALSE]
      /\ UNCHANGED <<lock, agents, faults>>
      /\ UNCHANGED others

(* h gives files fs up.  A whole one stays so, and one that another        *)
(* handler is writing is left to it.                                       *)
GiveUp(h, fs) ==
  folder' = [folder EXCEPT ![handlers[h].id] = [f \in Evidence |->
    IF f \in fs /\ @[f] # "written" /\ ~Beside(h, f) THEN "spoilt" ELSE @[f]]]

(* A file cannot be opened, or its text does not arrive in full.  If it is *)
(* one of the originals this ends the alert: the loop catches the          *)
(* exception.                                                              *)
OriginalFails(h) ==
  /\ handlers[h].pc \in {"bundle", "prompt"}
  /\ Fault
  /\ GiveUp(h, {handlers[h].pc})
  /\ Done(h)
  /\ UNCHANGED <<lock, agents>>
  /\ UNCHANGED others

(* If it is a copy, or their folder, this is logged: the copies that are   *)
(* left are given up and the agent is launched all the same.               *)
CopyFails(h) ==
  /\ handlers[h].pc \in {"bundleCopy", "promptCopy"}
  /\ Fault
  /\ GiveUp(h, {handlers[h].pc, "promptCopy"})
  /\ handlers' = [handlers EXCEPT ![h].pc = "launch", ![h].open = FALSE]
  /\ UNCHANGED <<lock, agents>>
  /\ UNCHANGED others

(* _launch_in_background: disabled, or _try_acquire_lock finds the file.   *)
DoNotLaunch(h) ==
  /\ At(h, "launch")
  /\ ~enabled \/ lock # Null
  /\ Done(h)
  /\ UNCHANGED <<folder, lock, agents, faults>>
  /\ UNCHANGED others

(* Slip: the lock is looked for and then created, in two steps.            *)
AcquireUnlocked(h) ==
  /\ At(h, "launch")
  /\ enabled
  /\ lock' = handlers[h].id
  /\ To(h, "locked")
  /\ UNCHANGED <<folder, agents, faults>>
  /\ UNCHANGED others

(* Slip: the incident id is made a second time at the launch.              *)
AcquireLater(h) ==
  /\ At(h, "launch")
  /\ enabled
  /\ lock = Null
  /\ lock' = <<second, Current(h).rule>>
  /\ handlers' = [handlers EXCEPT ![h].pc = "locked", ![h].id = lock']
  /\ UNCHANGED <<folder, agents, faults>>
  /\ UNCHANGED others

(* os.open with O_CREAT | O_EXCL                                           *)
Acquire(h) ==
  /\ At(h, "launch")
  /\ enabled
  /\ lock = Null
  /\ lock' = handlers[h].id
  /\ To(h, "locked")
  /\ UNCHANGED <<folder, agents, faults>>
  /\ UNCHANGED others

(* The incidents' folder or the lock file cannot be made: caught by the    *)
(* loop.                                                                   *)
AcquireFails(h) ==
  /\ At(h, "launch")
  /\ enabled
  /\ Fault
  /\ Done(h)
  /\ UNCHANGED <<folder, lock, agents>>
  /\ UNCHANGED others

StartAgent(h) ==
  /\ At(h, "locked")
  /\ agents' = agents \union {[id |-> handlers[h].id, pc |-> "running"]}
  /\ Done(h)
  /\ UNCHANGED <<folder, lock, faults>>
  /\ UNCHANGED others

(* Writing the pid or starting the thread raises: caught by the loop, and  *)
(* nobody removes the lock file.                                           *)
StartFails(h) ==
  /\ At(h, "locked")
  /\ Fault
  /\ Done(h)
  /\ UNCHANGED <<folder, lock, agents>>
  /\ UNCHANGED others

Becomes(a, pc) == agents' = (agents \ {a}) \union {[a EXCEPT !.pc = pc]}

(* opencode ends by itself, is not found, or is killed after AGENT_TIMEOUT. *)
AgentEnds(a) ==
  /\ a \in agents
  /\ a.pc = "running"
  /\ Becomes(a, "reporting")
  /\ UNCHANGED <<handlers, folder, lock, faults>>
  /\ UNCHANGED others

Report(a) ==
  /\ a \in agents
  /\ a.pc = "reporting"
  /\ Becomes(a, "releasing")
  /\ UNCHANGED <<handlers, folder, lock, faults>>
  /\ UNCHANGED others

(* Slip: a result that cannot be written ends the thread on the spot.      *)
ReportRaises(a) ==
  /\ a \in agents
  /\ a.pc = "reporting"
  /\ Fault
  /\ agents' = agents \ {a}
  /\ UNCHANGED <<handlers, folder, lock>>
  /\ UNCHANGED others

(* A result that cannot be written is logged; run_agent returns.           *)
ReportFails(a) ==
  /\ a \in agents
  /\ a.pc = "reporting"
  /\ Fault
  /\ Becomes(a, "releasing")
  /\ UNCHANGED <<handlers, folder, lock>>
  /\ UNCHANGED others

(* _release_lock removes the file, whoever created it.                     *)
Release(a) ==
  /\ a \in agents
  /\ a.pc = "releasing"
  /\ lock' = Null
  /\ agents' = agents \ {a}
  /\ UNCHANGED <<handlers, folder, faults>>
  /\ UNCHANGED others

(* The process dies, its agent with it, and is started again.              *)
Die ==
  /\ Fault
  /\ handlers' = [h \in Handlers |-> Waiting]
  /\ agents' = {}
  /\ UNCHANGED <<folder, lock>>
  /\ UNCHANGED others

Handle(h) ==
  \/ SkipTest(h) \/ TakeId(h)
  \/ OpenFile(h) \/ Fill(h) \/ DoNotLaunch(h) \/ Acquire(h) \/ StartAgent(h)

(* Slip: subprocess.run without a timeout.                                 *)
RunAgentUntimed == \E a \in agents : Report(a) \/ Release(a)

RunAgent == \E a \in agents : AgentEnds(a) \/ Report(a) \/ Release(a)

Next ==
  \/ \E h \in Handlers :
       \/ \E w \in Webhooks : Post(h, w)
       \/ Handle(h) \/ OriginalFails(h) \/ CopyFails(h)
       \/ AcquireFails(h) \/ StartFails(h)
  \/ RunAgent
  \/ \E a \in agents : ReportFails(a)
  \/ Clock
  \/ Die

(* Server threads and the agent's thread run; opencode is killed at its    *)
(* timeout, so an agent always ends.                                       *)
Spec ==
  /\ Init /\ [][Next]_vars
  /\ \A h \in Handlers : WF_vars(Handle(h))
  /\ WF_vars(RunAgent)
-----------------------------------------------------------------------------
(* At most one agent runs or is about to be started, over any number of    *)
(* webhooks, failures and restarts; and while one runs, the lock file is   *)
(* its own.                                                                *)
SingleFlight ==
  /\ Cardinality(agents) + Cardinality({h \in Handlers : At(h, "locked")}) <= 1
  /\ \A a \in agents : lock = a.id

(* The file is whole, is being written anew for the same incident, or is   *)
(* spoilt.                                                                 *)
Provided(i, f) ==
  \/ folder[i][f] \in {"written", "spoilt"}
  \/ \E h \in Handlers : Opened(h, i, f)

(* An agent runs on an incident whose bundle and brief, and the copies its *)
(* brief tells it to read, were all written first: whichever handlers      *)
(* share the incident and whenever the process dies, a file is missing or  *)
(* torn only if a write of it failed, which is logged, or handlers wrote   *)
(* it at the same time.                                                    *)
EvidenceBeforeAgent == \A a \in agents, f \in Evidence : Provided(a.id, f)

(* Nobody holds the lock and nobody will remove it.                        *)
Stranded ==
  lock # Null /\ agents = {} /\ \A h \in Handlers : ~At(h, "locked")

(* The lock file is only ever left behind by a death of the process or a   *)
(* thread that cannot be started: no way an agent ends leaves it, and no   *)
(* handler that was refused.                                               *)
StrandedByFault ==
  [][Stranded' /\ ~Stranded => Die \/ \E h \in Handlers : StartFails(h)]_vars

(* A lock that is taken comes free again, unless it is left behind so.     *)
LockComesFree == lock # Null ~> (lock = Null \/ Stranded)
=============================================================================
