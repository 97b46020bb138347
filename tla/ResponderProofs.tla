-------------------------- MODULE ResponderProofs ---------------------------
(***************************************************************************)
(* Theorems about the incident responder, for any number of rules, server  *)
(* threads, webhooks, failures and restarts.                               *)
(***************************************************************************)
EXTENDS Responder, FiniteSetTheorems, TLAPS

(* A handler at work has an alert and, once it took it, the incident's id; *)
(* it has a file open only while it writes it.                             *)
Sound(x) ==
  /\ x.pc # "waiting" => x.alerts # <<>>
  /\ x.pc \notin {"waiting", "next"} => x.id \in Ids
  /\ x.open => x.pc \in Evidence

HandlersSound == \A h \in Handlers : Sound(handlers[h])

(* A file that is open is not whole, and one that two have open is spoilt. *)
WritesSound ==
  /\ \A h \in Handlers : handlers[h].open =>
       folder[handlers[h].id][handlers[h].pc] \in {"torn", "spoilt"}
  /\ \A g, h \in Handlers :
       /\ g # h
       /\ handlers[g].open /\ handlers[h].open
       /\ handlers[g].id = handlers[h].id
       /\ handlers[g].pc = handlers[h].pc
       => folder[handlers[h].id][handlers[h].pc] = "spoilt"

(* The files a handler has left behind it, by its pc. *)
Passed(pc) ==
  CASE pc = "prompt" -> {"bundle"}
    [] pc = "bundleCopy" -> {"bundle", "prompt"}
    [] pc = "promptCopy" -> {"bundle", "prompt", "bundleCopy"}
    [] pc \in {"launch", "locked"} -> Evidence
    [] OTHER -> {}

LeftProvided ==
  \A h \in Handlers : \A f \in Passed(handlers[h].pc) : Provided(handlers[h].id, f)

(* The lock file has one holder at most: a handler about to start an agent *)
(* or an agent; and it is the holder's.                                    *)
OneHolder ==
  /\ \A a, b \in agents : a = b
  /\ \A a \in agents : lock = a.id
  /\ \A g, h \in Handlers : At(g, "locked") /\ At(h, "locked") => g = h
  /\ \A h \in Handlers : At(h, "locked") => lock = handlers[h].id /\ agents = {}

(* The inductive invariant. *)
IInv ==
  /\ TypeOK /\ HandlersSound /\ WritesSound /\ LeftProvided
  /\ OneHolder /\ EvidenceBeforeAgent

(* What a step of a handler does to the files: what was provided stays so. *)
FilesStay ==
  /\ folder' \in [Ids -> [Evidence -> File]]
  /\ WritesSound'
  /\ \A i \in Ids, f \in Evidence : Provided(i, f) => Provided(i, f)'

-----------------------------------------------------------------------------
LEMMA PassedFiles ==
  /\ \A pc : Passed(pc) \subseteq Evidence
  /\ \A pc : pc \in {"waiting", "next", "bundle"} => Passed(pc) = {}
  /\ \A pc : pc \in {"launch", "locked"} => Passed(pc) = Evidence
  /\ \A f \in Evidence : /\ Stage[f] \in Evidence \union {"launch"}
                         /\ Passed(Stage[f]) = Passed(f) \union {f}
  /\ Passed("bundleCopy") \union {"bundleCopy", "promptCopy"} = Evidence
  /\ Passed("promptCopy") \union {"promptCopy"} = Evidence
  BY DEF Passed, Evidence, Stage

LEMMA IdOf ==
  ASSUME IInv, NEW h \in Handlers, ~At(h, "waiting"), ~At(h, "next")
  PROVE  handlers[h].id \in Ids /\ Sound(handlers[h])
  BY DEF IInv, HandlersSound, Sound, At

(* A handler that has no file open goes on, no file being touched. *)
LEMMA FilesUnchanged ==
  ASSUME IInv, NEW h \in Handlers, NEW x \in Handler,
         handlers' = [handlers EXCEPT ![h] = x],
         ~handlers[h].open, ~x.open, UNCHANGED folder
  PROVE  FilesStay
  <1>1. \A g \in Handlers : handlers'[g] = IF g = h THEN x ELSE handlers[g]
    BY DEF IInv, TypeOK
  <1>2. WritesSound'
    BY <1>1 DEF IInv, WritesSound
  <1>3. \A i \in Ids, f \in Evidence : Provided(i, f) => Provided(i, f)'
    BY <1>1 DEF Provided, Opened, At
  <1>4. QED
    BY <1>2, <1>3 DEF IInv, TypeOK, FilesStay

LEMMA FileSaved ==
  ASSUME IInv, NEW i \in Ids, NEW f \in Evidence, NEW content \in File,
         Saved(i, f, content)
  PROVE  /\ folder' \in [Ids -> [Evidence -> File]]
         /\ \A j \in Ids, g \in Evidence :
              folder'[j][g] = IF j = i /\ g = f THEN content ELSE folder[j][g]
  <1>1. folder \in [Ids -> [Evidence -> File]]
    BY DEF IInv, TypeOK
  <1>2. QED
    BY <1>1 DEF Saved

(* The record a handler goes on with after an alert. *)
LEMMA DoneRow ==
  ASSUME IInv, NEW h \in Handlers, ~At(h, "waiting"), Done(h)
  PROVE  \E x \in Handler :
           /\ handlers' = [handlers EXCEPT ![h] = x]
           /\ x.pc \in {"waiting", "next"}
           /\ ~x.open
           /\ Sound(x)
  <1> DEFINE rest == Tail(handlers[h].alerts)
             x == IF rest = <<>> THEN Waiting
                  ELSE [Waiting EXCEPT !.pc = "next", !.alerts = rest]
  <1>1. handlers[h].alerts \in Seq(Alert) /\ handlers[h].alerts # <<>>
    BY DEF IInv, TypeOK, Handler, HandlersSound, Sound, At
  <1>2. rest \in Seq(Alert)
    BY <1>1
  <1>3. x \in Handler
    BY <1>2 DEF Handler, Waiting
  <1>4. /\ x.pc \in {"waiting", "next"} /\ (x.pc = "next" => x.alerts # <<>>)
        /\ x.open = FALSE
    BY <1>2 DEF Waiting
  <1>5. handlers' = [handlers EXCEPT ![h] = x]
    BY DEF Done
  <1> HIDE DEF x
  <1>6. QED
    BY <1>3, <1>4, <1>5 DEF Sound

(* A handler that neither holds the lock nor takes it moves on.            *)
LEMMA HandlerMoves ==
  ASSUME IInv, NEW h \in Handlers, NEW x \in Handler,
         handlers' = [handlers EXCEPT ![h] = x],
         ~At(h, "locked"), x.pc # "locked",
         FilesStay, Sound(x), \A f \in Passed(x.pc) : Provided(x.id, f)',
         UNCHANGED <<enabled, second, lock, agents>>
  PROVE  IInv'
  <1> USE DEF IInv
  <1>1. \A g \in Handlers : handlers'[g] = IF g = h THEN x ELSE handlers[g]
    BY DEF TypeOK
  <1>2. TypeOK'
    BY DEF TypeOK, FilesStay
  <1>3. HandlersSound'
    BY <1>1 DEF HandlersSound
  <1>4. LeftProvided'
    <2> SUFFICES ASSUME NEW g \in Handlers, NEW f \in Passed(handlers'[g].pc)
                 PROVE  Provided(handlers[g].id, f)'
      BY DEF LeftProvided
    <2>1. CASE g = h
      BY <1>1, <2>1 DEF Provided, Opened, At
    <2>2. CASE g # h
      <3>1. handlers'[g] = handlers[g]
        BY <1>1, <2>2
      <3>2. handlers[g].pc \notin {"waiting", "next"} /\ f \in Evidence
        BY <3>1, PassedFiles
      <3>3. PICK i \in Ids : i = handlers[g].id
        BY <3>2 DEF HandlersSound, Sound
      <3>4. Provided(i, f)
        BY <3>1, <3>3 DEF LeftProvided
      <3>5. Provided(i, f)'
        BY <3>2, <3>4 DEF FilesStay
      <3>6. QED
        BY <3>1, <3>3, <3>5 DEF Provided, Opened, At
    <2>3. QED
      BY <2>1, <2>2
  <1>5. \A g \in Handlers : At(g, "locked")' =>
          At(g, "locked") /\ handlers'[g] = handlers[g]
    BY <1>1 DEF At
  <1>6. OneHolder'
    BY <1>5 DEF OneHolder, At
  <1>7. EvidenceBeforeAgent'
    <2> SUFFICES ASSUME NEW a \in agents, NEW f \in Evidence
                 PROVE  Provided(a.id, f)'
      BY DEF EvidenceBeforeAgent
    <2>1. PICK i \in Ids : i = a.id
      BY DEF TypeOK, Agent
    <2>2. Provided(i, f)'
      BY <2>1 DEF EvidenceBeforeAgent, FilesStay
    <2>3. QED
      BY <2>1, <2>2
  <1>8. QED
    BY <1>2, <1>3, <1>4, <1>6, <1>7 DEF FilesStay

LEMMA PostKeeps ==
  ASSUME IInv, NEW h \in Handlers, NEW w \in Webhooks, Post(h, w)
  PROVE  IInv'
  <1> DEFINE x == [handlers[h] EXCEPT !.pc = "next", !.alerts = w]
  <1>1. handlers[h] \in Handler
    BY DEF IInv, TypeOK
  <1>2. w \in Seq(Alert) /\ w # <<>>
    BY ResponderAssumption
  <1>3. x \in Handler /\ x.pc = "next" /\ x.alerts = w
    BY <1>1, <1>2 DEF Handler
  <1>4. handlers' = [handlers EXCEPT ![h] = x]
    BY DEF Post, IInv, TypeOK
  <1>5. ~handlers[h].open /\ x.open = handlers[h].open
    BY <1>1 DEF Handler, Post, IInv, HandlersSound, Sound, Evidence
  <1>6. Sound(x)
    BY <1>2, <1>3, <1>5 DEF Sound
  <1>7. /\ ~At(h, "locked") /\ Passed("next") = {}
        /\ UNCHANGED <<enabled, second, folder, lock, agents>>
    BY PassedFiles DEF Post, At
  <1> HIDE DEF x
  <1>8. FilesStay
    BY <1>3, <1>4, <1>5, <1>7, FilesUnchanged
  <1>9. QED
    BY <1>3, <1>4, <1>6, <1>7, <1>8, HandlerMoves

(* Steps that end the alert in hand without touching the lock or a file. *)
LEMMA AlertEnds ==
  ASSUME IInv, NEW h \in Handlers, Done(h), ~handlers[h].open,
         ~At(h, "waiting"), ~At(h, "locked"),
         UNCHANGED <<enabled, second, folder, lock, agents>>
  PROVE  IInv'
  <1>1. PICK x \in Handler :
          /\ handlers' = [handlers EXCEPT ![h] = x]
          /\ x.pc \in {"waiting", "next"}
          /\ ~x.open
          /\ Sound(x)
    BY DoneRow
  <1>2. FilesStay
    BY <1>1, FilesUnchanged
  <1>3. Passed(x.pc) = {} /\ x.pc # "locked"
    BY <1>1, PassedFiles
  <1>4. QED
    BY <1>1, <1>2, <1>3, HandlerMoves

LEMMA TakeIdKeeps ==
  ASSUME IInv, NEW h \in Handlers, TakeId(h)
  PROVE  IInv'
  <1> DEFINE i == <<second, Current(h).rule>>
             x == [handlers[h] EXCEPT !.pc = "bundle", !.id = i]
  <1>1. /\ handlers[h] \in Handler /\ handlers[h].alerts # <<>>
        /\ ~handlers[h].open
    BY DEF IInv, TypeOK, HandlersSound, Sound, TakeId, At, Evidence
  <1>2. Current(h) \in Alert
    BY <1>1 DEF Handler, Current
  <1>3. i \in Ids
    BY <1>2 DEF Alert, Ids, IInv, TypeOK
  <1>4. /\ x \in Handler /\ x.pc = "bundle" /\ x.id = i
        /\ x.alerts # <<>> /\ ~x.open
    BY <1>1, <1>3 DEF Handler, Evidence
  <1>5. handlers' = [handlers EXCEPT ![h] = x]
    BY DEF TakeId, IInv, TypeOK
  <1>6. Sound(x)
    BY <1>3, <1>4 DEF Sound
  <1>7. /\ ~At(h, "locked") /\ UNCHANGED <<enabled, second, folder, lock, agents>>
        /\ Passed("bundle") = {}
    BY PassedFiles DEF TakeId, At, others
  <1> HIDE DEF x
  <1>8. FilesStay
    BY <1>1, <1>4, <1>5, <1>7, FilesUnchanged
  <1>9. QED
    BY <1>4, <1>5, <1>6, <1>7, <1>8, HandlerMoves

LEMMA OpenFileKeeps ==
  ASSUME IInv, NEW h \in Handlers, OpenFile(h)
  PROVE  IInv'
  <1>1. PICK f \in Evidence : f = handlers[h].pc
    BY DEF OpenFile
  <1>2. f \notin {"waiting", "next", "locked"}
    BY DEF Evidence
  <1>3. PICK i \in Ids : i = handlers[h].id
    BY <1>1, <1>2, IdOf DEF At
  <1>4. PICK x \in Handler :
          /\ handlers' = [handlers EXCEPT ![h] = x]
          /\ x.pc = f /\ x.id = i /\ x.open /\ x.alerts = handlers[h].alerts
    <2> DEFINE x == [handlers[h] EXCEPT !.open = TRUE]
    <2>1. handlers[h] \in Handler
      BY DEF IInv, TypeOK
    <2>2. /\ x \in Handler
          /\ x.pc = f /\ x.id = i /\ x.open /\ x.alerts = handlers[h].alerts
      BY <1>1, <1>3, <2>1 DEF Handler
    <2>3. handlers' = [handlers EXCEPT ![h] = x]
      BY DEF OpenFile, IInv, TypeOK
    <2> HIDE DEF x
    <2>4. QED
      BY <2>2, <2>3
  <1>5. /\ ~handlers[h].open /\ ~At(h, "locked")
        /\ UNCHANGED <<enabled, second, lock, agents>>
    BY <1>1, <1>2 DEF OpenFile, others, At
  <1>6. \A g \in Handlers : handlers'[g] = IF g = h THEN x ELSE handlers[g]
    BY <1>4 DEF IInv, TypeOK
  <1>7. PICK c \in {"torn", "spoilt"} :
          Saved(i, f, c) /\ (Beside(h, f) => c = "spoilt")
    BY <1>1, <1>3 DEF OpenFile
  <1>8. /\ folder' \in [Ids -> [Evidence -> File]]
        /\ \A j \in Ids, e \in Evidence :
             folder'[j][e] = IF j = i /\ e = f THEN c ELSE folder[j][e]
    BY <1>7, FileSaved DEF File
  <1>9. \A g \in Handlers : handlers[g].open =>
          handlers[g].id \in Ids /\ handlers[g].pc \in Evidence
    BY DEF IInv, HandlersSound, Sound, Evidence
  <1>10. WritesSound'
    <2>1. ASSUME NEW g \in Handlers, handlers'[g].open
          PROVE  folder'[handlers'[g].id][handlers'[g].pc] \in {"torn", "spoilt"}
      BY <1>4, <1>6, <1>8, <1>9, <2>1 DEF IInv, WritesSound
    <2>2. ASSUME NEW g \in Handlers, NEW k \in Handlers, g # k,
                 handlers'[g].open, handlers'[k].open,
                 handlers'[g].id = handlers'[k].id, handlers'[g].pc = handlers'[k].pc
          PROVE  folder'[handlers'[k].id][handlers'[k].pc] = "spoilt"
      <3>1. CASE handlers'[k].id = i /\ handlers'[k].pc = f
        <4>1. \E o \in Handlers \ {h} : handlers'[o] = handlers[o] /\ handlers[o].open
                /\ handlers[o].id = i /\ handlers[o].pc = f
          BY <1>6, <2>2, <3>1
        <4>2. Beside(h, f)
          BY <1>3, <4>1 DEF Beside, Opened, At
        <4>3. QED
          BY <1>7, <1>8, <3>1, <4>2
      <3>2. CASE ~(handlers'[k].id = i /\ handlers'[k].pc = f)
        <4>1. g # h /\ k # h
          BY <1>4, <1>6, <2>2, <3>2
        <4>2. folder[handlers[k].id][handlers[k].pc] = "spoilt"
          BY <1>6, <2>2, <4>1 DEF IInv, WritesSound
        <4>3. QED
          BY <1>6, <1>8, <1>9, <2>2, <3>2, <4>1, <4>2
      <3>3. QED
        BY <3>1, <3>2
    <2>3. QED
      BY <2>1, <2>2 DEF WritesSound
  <1>11. ASSUME NEW j \in Ids, NEW e \in Evidence, Provided(j, e)
         PROVE  Provided(j, e)'
    <2>1. CASE j = i /\ e = f
      BY <1>4, <1>6, <2>1 DEF Provided, Opened, At
    <2>2. CASE ~(j = i /\ e = f)
      BY <1>5, <1>6, <1>8, <1>11, <2>2 DEF Provided, Opened, At
    <2>3. QED
      BY <2>1, <2>2
  <1>12. FilesStay
    BY <1>8, <1>10, <1>11 DEF FilesStay
  <1>13. Sound(x)
    BY <1>1, <1>2, <1>3, <1>4 DEF IInv, HandlersSound, Sound
  <1>14. \A e \in Passed(x.pc) : Provided(x.id, e)'
    <2> SUFFICES ASSUME NEW e \in Passed(f) PROVE Provided(i, e)'
      BY <1>4
    <2>1. Provided(i, e)
      BY <1>1, <1>3 DEF IInv, LeftProvided
    <2>2. QED
      BY <2>1, <1>11, PassedFiles
  <1>15. QED
    BY <1>2, <1>4, <1>5, <1>12, <1>13, <1>14, HandlerMoves

LEMMA FillKeeps ==
  ASSUME IInv, NEW h \in Handlers, Fill(h)
  PROVE  IInv'
  <1>1. PICK f \in Evidence : f = handlers[h].pc
    BY DEF Fill
  <1>2. f \notin {"waiting", "next", "locked"}
    BY DEF Evidence
  <1>3. PICK i \in Ids : i = handlers[h].id
    BY <1>1, <1>2, IdOf DEF At
  <1>4. PICK x \in Handler :
          /\ handlers' = [handlers EXCEPT ![h] = x]
          /\ x.pc = Stage[f] /\ x.id = i /\ ~x.open
          /\ x.alerts = handlers[h].alerts
    <2> DEFINE x == [handlers[h] EXCEPT !.pc = Stage[f], !.open = FALSE]
    <2>1. handlers[h] \in Handler /\ Stage[f] \in Evidence \union {"launch"}
      BY PassedFiles DEF IInv, TypeOK
    <2>2. /\ x \in Handler /\ x.pc = Stage[f] /\ x.id = i /\ ~x.open
          /\ x.alerts = handlers[h].alerts
      BY <1>1, <1>3, <2>1 DEF Handler
    <2>3. handlers' = [handlers EXCEPT ![h] = x]
      BY <1>1 DEF Fill, IInv, TypeOK
    <2> HIDE DEF x
    <2>4. QED
      BY <2>2, <2>3
  <1>5. /\ handlers[h].open /\ ~At(h, "locked")
        /\ UNCHANGED <<enabled, second, lock, agents>>
    BY <1>1, <1>2 DEF Fill, others, At
  <1>6. \A g \in Handlers : handlers'[g] = IF g = h THEN x ELSE handlers[g]
    BY <1>4 DEF IInv, TypeOK
  <1>7. PICK c \in {"written", "spoilt"} :
          Saved(i, f, c) /\ (folder[i][f] # "torn" => c = "spoilt")
    BY <1>1, <1>3 DEF Fill
  <1>8. /\ folder' \in [Ids -> [Evidence -> File]]
        /\ \A j \in Ids, e \in Evidence :
             folder'[j][e] = IF j = i /\ e = f THEN c ELSE folder[j][e]
    BY <1>7, FileSaved DEF File
  <1>9. \A g \in Handlers : handlers'[g].open =>
          /\ g # h /\ handlers'[g] = handlers[g]
          /\ handlers[g].id \in Ids /\ handlers[g].pc \in Evidence
    BY <1>4, <1>6 DEF IInv, HandlersSound, Sound, Evidence
  <1>10. WritesSound'
    <2>1. ASSUME NEW g \in Handlers, handlers'[g].open,
                 handlers[g].id = i, handlers[g].pc = f
          PROVE  folder[i][f] = "spoilt" /\ c = "spoilt"
      <3>1. g # h
        BY <1>9, <2>1
      <3>2. folder[i][f] = "spoilt"
        BY <1>1, <1>3, <1>5, <1>9, <2>1, <3>1 DEF IInv, WritesSound
      <3>3. QED
        BY <1>7, <3>2
    <2>2. \A g \in Handlers : handlers'[g].open =>
            folder'[handlers'[g].id][handlers'[g].pc] = folder[handlers[g].id][handlers[g].pc]
      BY <1>8, <1>9, <2>1
    <2>3. QED
      BY <1>9, <2>2 DEF IInv, WritesSound
  <1>11. ASSUME NEW j \in Ids, NEW e \in Evidence, Provided(j, e)
         PROVE  Provided(j, e)'
    <2>1. CASE j = i /\ e = f
      BY <1>8, <2>1 DEF Provided
    <2>2. CASE ~(j = i /\ e = f)
      BY <1>1, <1>3, <1>6, <1>8, <1>11, <2>2 DEF Provided, Opened, At
    <2>3. QED
      BY <2>1, <2>2
  <1>12. FilesStay
    BY <1>8, <1>10, <1>11 DEF FilesStay
  <1>13. Stage[f] \notin {"waiting", "next", "locked"}
    BY DEF Stage, Evidence
  <1>14. Sound(x)
    BY <1>1, <1>2, <1>3, <1>4 DEF IInv, HandlersSound, Sound
  <1>15. \A e \in Passed(x.pc) : Provided(x.id, e)'
    <2> SUFFICES ASSUME NEW e \in Passed(Stage[f]) PROVE Provided(i, e)'
      BY <1>4
    <2>1. e \in Passed(f) \/ e = f
      BY PassedFiles
    <2>2. CASE e = f
      BY <1>8, <2>2 DEF Provided
    <2>3. CASE e \in Passed(f)
      <3>1. Provided(i, e)
        BY <1>1, <1>3, <2>3 DEF IInv, LeftProvided
      <3>2. QED
        BY <2>3, <3>1, <1>11, PassedFiles
    <2>4. QED
      BY <2>1, <2>2, <2>3
  <1>16. QED
    BY <1>4, <1>5, <1>12, <1>13, <1>14, <1>15, HandlerMoves

(* A handler that closes what it had open after giving up files fs, that   *)
(* one among them.                                                         *)
LEMMA GivenUp ==
  ASSUME IInv, NEW h \in Handlers, NEW x \in Handler, NEW fs \in SUBSET Evidence,
         NEW i \in Ids, i = handlers[h].id, handlers[h].pc \in fs,
         handlers' = [handlers EXCEPT ![h] = x], ~x.open, GiveUp(h, fs)
  PROVE  FilesStay /\ \A f \in fs : Provided(i, f)'
  <1>1. folder \in [Ids -> [Evidence -> File]]
    BY DEF IInv, TypeOK
  <1>2. PICK new \in [Evidence -> File] :
          /\ folder' = [folder EXCEPT ![i] = new]
          /\ \A f \in Evidence :
               new[f] = IF f \in fs /\ folder[i][f] # "written" /\ ~Beside(h, f)
                        THEN "spoilt" ELSE folder[i][f]
    <2> DEFINE new == [f \in Evidence |->
                 IF f \in fs /\ folder[i][f] # "written" /\ ~Beside(h, f)
                 THEN "spoilt" ELSE folder[i][f]]
    <2>1. new \in [Evidence -> File]
      BY <1>1 DEF File
    <2>2. folder' = [folder EXCEPT ![i] = new]
      BY <1>1 DEF GiveUp
    <2>3. QED
      BY <2>1, <2>2
  <1>3. /\ folder' \in [Ids -> [Evidence -> File]]
        /\ \A j \in Ids : folder'[j] = IF j = i THEN new ELSE folder[j]
    BY <1>1, <1>2
  <1>4. \A g \in Handlers : handlers'[g] = IF g = h THEN x ELSE handlers[g]
    BY DEF IInv, TypeOK
  <1>5. \A f \in Evidence : Beside(h, f) <=>
          \E g \in Handlers \ {h} :
            handlers[g].pc = f /\ handlers[g].open /\ handlers[g].id = i
    BY DEF Beside, Opened, At
  <1>6. ASSUME NEW f \in fs PROVE Provided(i, f)'
    <2>1. CASE Beside(h, f)
      BY <1>4, <1>5, <2>1 DEF Provided, Opened, At
    <2>2. CASE ~Beside(h, f)
      BY <1>2, <1>3, <2>2 DEF Provided
    <2>3. QED
      BY <2>1, <2>2
  <1>7. ASSUME NEW j \in Ids, NEW f \in Evidence, Provided(j, f)
        PROVE  Provided(j, f)'
    <2>1. CASE j = i /\ f \in fs
      BY <1>6, <2>1
    <2>2. CASE ~(j = i /\ f \in fs)
      <3>1. folder'[j][f] = folder[j][f]
        BY <1>2, <1>3, <2>2
      <3>2. \A g \in Handlers : Opened(g, j, f) => handlers'[g] = handlers[g]
        BY <1>4, <2>2 DEF Opened, At
      <3>3. QED
        BY <1>7, <3>1, <3>2 DEF Provided, Opened, At
    <2>3. QED
      BY <2>1, <2>2
  <1>8. \A g \in Handlers : handlers'[g].open =>
          /\ g # h /\ handlers'[g] = handlers[g]
          /\ folder'[handlers'[g].id][handlers'[g].pc] = folder[handlers[g].id][handlers[g].pc]
    <2> SUFFICES ASSUME NEW g \in Handlers, handlers'[g].open
                 PROVE  /\ g # h /\ handlers'[g] = handlers[g]
                        /\ folder'[handlers'[g].id][handlers'[g].pc]
                             = folder[handlers[g].id][handlers[g].pc]
      OBVIOUS
    <2>1. g # h /\ handlers'[g] = handlers[g]
      BY <1>4
    <2>2. handlers[g].id \in Ids /\ handlers[g].pc \in Evidence
      BY <2>1 DEF IInv, HandlersSound, Sound, Evidence
    <2>3. CASE handlers[g].id = i
      <3>1. Beside(h, handlers[g].pc)
        BY <1>5, <2>1, <2>2, <2>3
      <3>2. new[handlers[g].pc] = folder[i][handlers[g].pc]
        BY <1>2, <2>2, <3>1
      <3>3. QED
        BY <1>3, <2>1, <2>3, <3>2
    <2>4. CASE handlers[g].id # i
      BY <1>3, <2>1, <2>2, <2>4
    <2>5. QED
      BY <2>3, <2>4
  <1>9. WritesSound'
    BY <1>8 DEF IInv, WritesSound
  <1>10. QED
    BY <1>3, <1>6, <1>7, <1>9 DEF FilesStay

LEMMA OriginalFailsKeeps ==
  ASSUME IInv, NEW h \in Handlers, OriginalFails(h)
  PROVE  IInv'
  <1>1. PICK f \in {"bundle", "prompt"} : f = handlers[h].pc
    BY DEF OriginalFails
  <1>2. PICK i \in Ids : i = handlers[h].id
    BY <1>1, IdOf DEF At
  <1>3. /\ ~At(h, "locked") /\ ~At(h, "waiting") /\ Done(h)
        /\ GiveUp(h, {f}) /\ {f} \in SUBSET Evidence
        /\ UNCHANGED <<enabled, second, lock, agents>>
    BY <1>1 DEF OriginalFails, At, others, Evidence
  <1>4. PICK x \in Handler :
          /\ handlers' = [handlers EXCEPT ![h] = x]
          /\ x.pc \in {"waiting", "next"}
          /\ ~x.open
          /\ Sound(x)
    BY <1>3, DoneRow
  <1>5. FilesStay
    BY <1>1, <1>2, <1>3, <1>4, GivenUp
  <1>6. Passed(x.pc) = {} /\ x.pc # "locked"
    BY <1>4, PassedFiles
  <1>7. QED
    BY <1>3, <1>4, <1>5, <1>6, HandlerMoves

LEMMA CopyFailsKeeps ==
  ASSUME IInv, NEW h \in Handlers, CopyFails(h)
  PROVE  IInv'
  <1>1. PICK f \in {"bundleCopy", "promptCopy"} : f = handlers[h].pc
    BY DEF CopyFails
  <1>2. PICK i \in Ids : i = handlers[h].id
    BY <1>1, IdOf DEF At
  <1>3. /\ ~At(h, "locked") /\ GiveUp(h, {f, "promptCopy"})
        /\ {f, "promptCopy"} \in SUBSET Evidence /\ f \in Evidence
        /\ UNCHANGED <<enabled, second, lock, agents>>
    BY <1>1 DEF CopyFails, At, others, Evidence
  <1>4. PICK x \in Handler :
          /\ handlers' = [handlers EXCEPT ![h] = x]
          /\ x.pc = "launch" /\ x.id = i /\ ~x.open
          /\ x.alerts = handlers[h].alerts
    <2> DEFINE x == [handlers[h] EXCEPT !.pc = "launch", !.open = FALSE]
    <2>1. handlers[h] \in Handler
      BY DEF IInv, TypeOK
    <2>2. /\ x \in Handler /\ x.pc = "launch" /\ x.id = i /\ ~x.open
          /\ x.alerts = handlers[h].alerts
      BY <1>2, <2>1 DEF Handler
    <2>3. handlers' = [handlers EXCEPT ![h] = x]
      BY DEF CopyFails, IInv, TypeOK
    <2> HIDE DEF x
    <2>4. QED
      BY <2>2, <2>3
  <1>5. FilesStay /\ \A e \in {f, "promptCopy"} : Provided(i, e)'
    BY <1>1, <1>2, <1>3, <1>4, GivenUp
  <1>6. Sound(x)
    BY <1>1, <1>2, <1>4 DEF IInv, HandlersSound, Sound
  <1>7. ASSUME NEW e \in Evidence PROVE Provided(i, e)'
    <2>1. e \in Passed(f) \union {f, "promptCopy"}
      BY <1>1, PassedFiles
    <2>2. CASE e \in Passed(f)
      <3>1. Provided(i, e)
        BY <1>1, <1>2, <2>2 DEF IInv, LeftProvided
      <3>2. QED
        BY <1>5, <3>1 DEF FilesStay
    <2>3. QED
      BY <1>5, <2>1, <2>2
  <1>8. \A e \in Passed(x.pc) : Provided(x.id, e)'
    BY <1>4, <1>7, PassedFiles
  <1>9. QED
    BY <1>3, <1>4, <1>5, <1>6, <1>8, HandlerMoves

-----------------------------------------------------------------------------
(* The lock file. *)
LEMMA AcquireKeeps ==
  ASSUME IInv, NEW h \in Handlers, Acquire(h)
  PROVE  IInv'
  <1> USE DEF IInv
  <1> DEFINE x == [handlers[h] EXCEPT !.pc = "locked"]
  <1>1. /\ handlers[h] \in Handler /\ handlers[h].id \in Ids /\ Sound(handlers[h])
        /\ ~handlers[h].open
    BY IdOf DEF Acquire, At, TypeOK, Sound, Evidence
  <1>2. /\ x \in Handler /\ x.pc = "locked" /\ x.id = handlers[h].id
        /\ x.alerts = handlers[h].alerts /\ ~x.open
    BY <1>1 DEF Handler
  <1>3. \A g \in Handlers : handlers'[g] = IF g = h THEN x ELSE handlers[g]
    BY DEF Acquire, To, TypeOK
  <1>4. handlers' \in [Handlers -> Handler]
    BY <1>1, <1>2 DEF Acquire, To, TypeOK
  <1> HIDE DEF x
  <1>5. TypeOK'
    BY <1>1, <1>4 DEF TypeOK, Acquire, others
  <1>6. HandlersSound' /\ WritesSound' /\ LeftProvided'
    <2>1. Sound(x)
      BY <1>1, <1>2 DEF Sound, Acquire, At
    <2>2. folder' = folder /\ handlers' = [handlers EXCEPT ![h] = x]
      BY <1>3, <1>4 DEF Acquire, To, TypeOK, x
    <2>3. FilesStay
      BY <1>1, <1>2, <2>2, FilesUnchanged
    <2>4. ASSUME NEW g \in Handlers, NEW f \in Passed(handlers'[g].pc)
          PROVE  Provided(handlers[g].id, f)'
      <3>1. f \in Passed(handlers[g].pc) /\ handlers'[g].id = handlers[g].id
        BY <1>2, <1>3, <2>4, PassedFiles DEF Acquire, At
      <3>2. handlers[g].pc \notin {"waiting", "next"} /\ f \in Evidence
        BY <3>1, PassedFiles
      <3>3. PICK i \in Ids : i = handlers[g].id
        BY <3>2 DEF HandlersSound, Sound
      <3>4. Provided(i, f)
        BY <3>1, <3>3 DEF LeftProvided
      <3>5. Provided(i, f)'
        BY <2>3, <3>2, <3>4 DEF FilesStay
      <3>6. QED
        BY <3>1, <3>3, <3>5
    <2>5. QED
      BY <1>3, <2>1, <2>3, <2>4 DEF HandlersSound, FilesStay, LeftProvided
  <1>7. agents = {} /\ \A g \in Handlers : ~At(g, "locked")
    <2>1. lock = Null /\ Null \notin Ids
      BY ResponderAssumption DEF Acquire
    <2>2. ASSUME NEW a \in agents PROVE FALSE
      BY <2>1, <2>2 DEF OneHolder, TypeOK, Agent
    <2>3. ASSUME NEW g \in Handlers, At(g, "locked") PROVE FALSE
      <3>1. handlers[g].id \in Ids
        BY <2>3, IdOf DEF At
      <3>2. QED
        BY <2>1, <2>3, <3>1 DEF OneHolder
    <2>4. QED
      BY <2>2, <2>3
  <1>8. OneHolder'
    BY <1>2, <1>3, <1>7 DEF OneHolder, At, Acquire
  <1>9. EvidenceBeforeAgent'
    BY <1>7 DEF EvidenceBeforeAgent, Acquire
  <1>10. QED
    BY <1>5, <1>6, <1>8, <1>9

(* A handler that held the lock goes on to another alert. *)
LEMMA HolderLeaves ==
  ASSUME IInv, NEW h \in Handlers, At(h, "locked"), Done(h),
         UNCHANGED <<enabled, second, folder, lock>>
  PROVE  /\ handlers' \in [Handlers -> Handler]
         /\ HandlersSound' /\ LeftProvided' /\ FilesStay
         /\ \A g \in Handlers : ~At(g, "locked")'
  <1> USE DEF IInv
  <1>1. PICK x \in Handler :
          /\ handlers' = [handlers EXCEPT ![h] = x]
          /\ x.pc \in {"waiting", "next"}
          /\ ~x.open
          /\ Sound(x)
    BY DoneRow DEF At
  <1>2. \A g \in Handlers : handlers'[g] = IF g = h THEN x ELSE handlers[g]
    BY <1>1 DEF TypeOK
  <1>3. HandlersSound'
    BY <1>1, <1>2 DEF HandlersSound
  <1>4. \A g \in Handlers : ~At(g, "locked")'
    BY <1>1, <1>2 DEF OneHolder, At
  <1>5. ~handlers[h].open
    BY DEF HandlersSound, Sound, At, Evidence
  <1>6. FilesStay
    BY <1>1, <1>5, FilesUnchanged
  <1>7. LeftProvided'
    <2> SUFFICES ASSUME NEW g \in Handlers, NEW f \in Passed(handlers'[g].pc)
                 PROVE  Provided(handlers[g].id, f)'
      BY DEF LeftProvided
    <2>1. g # h /\ handlers'[g] = handlers[g]
      BY <1>1, <1>2, PassedFiles
    <2>2. handlers[g].pc \notin {"waiting", "next"} /\ f \in Evidence
      BY <2>1, PassedFiles
    <2>3. PICK i \in Ids : i = handlers[g].id
      BY <2>2 DEF HandlersSound, Sound
    <2>4. Provided(i, f)
      BY <2>1, <2>3 DEF LeftProvided
    <2>5. Provided(i, f)'
      BY <1>6, <2>2, <2>4 DEF FilesStay
    <2>6. QED
      BY <2>1, <2>3, <2>5
  <1>8. QED
    BY <1>1, <1>3, <1>4, <1>6, <1>7 DEF TypeOK

LEMMA StartAgentKeeps ==
  ASSUME IInv, NEW h \in Handlers, StartAgent(h)
  PROVE  IInv'
  <1> USE DEF IInv
  <1>1. /\ At(h, "locked") /\ Done(h)
        /\ UNCHANGED <<enabled, second, folder, lock>>
    BY DEF StartAgent, others
  <1>2. /\ agents = {} /\ lock = handlers[h].id
        /\ handlers[h].id \in Ids
    BY <1>1, IdOf DEF OneHolder, At
  <1>3. [id |-> handlers[h].id, pc |-> "running"] \in Agent
    BY <1>2 DEF Agent
  <1>4. PICK a \in Agent : a.id = handlers[h].id /\ agents' = {a}
    BY <1>2, <1>3 DEF StartAgent
  <1>5. /\ handlers' \in [Handlers -> Handler]
        /\ HandlersSound' /\ LeftProvided' /\ FilesStay
        /\ \A g \in Handlers : ~At(g, "locked")'
    BY <1>1, HolderLeaves
  <1>6. TypeOK'
    BY <1>1, <1>4, <1>5 DEF TypeOK
  <1>7. OneHolder'
    BY <1>1, <1>2, <1>4, <1>5 DEF OneHolder
  <1>8. EvidenceBeforeAgent'
    <2> SUFFICES ASSUME NEW f \in Evidence PROVE Provided(a.id, f)'
      BY <1>4 DEF EvidenceBeforeAgent, Provided, Opened, At
    <2>1. PICK i \in Ids : i = handlers[h].id
      BY <1>2
    <2>2. Provided(i, f)
      BY <1>1, <2>1, PassedFiles DEF LeftProvided, At
    <2>3. Provided(i, f)'
      BY <1>5, <2>2 DEF FilesStay
    <2>4. QED
      BY <1>4, <2>1, <2>3
  <1>9. QED
    BY <1>5, <1>6, <1>7, <1>8 DEF FilesStay

LEMMA StartFailsKeeps ==
  ASSUME IInv, NEW h \in Handlers, StartFails(h)
  PROVE  IInv'
  <1> USE DEF IInv
  <1>1. /\ At(h, "locked") /\ Done(h)
        /\ UNCHANGED <<enabled, second, folder, lock, agents>>
    BY DEF StartFails, others
  <1>2. /\ handlers' \in [Handlers -> Handler]
        /\ HandlersSound' /\ LeftProvided' /\ FilesStay
        /\ \A g \in Handlers : ~At(g, "locked")'
    BY <1>1, HolderLeaves
  <1>3. agents = {}
    BY <1>1 DEF OneHolder
  <1>4. TypeOK' /\ OneHolder' /\ EvidenceBeforeAgent'
    BY <1>1, <1>2, <1>3 DEF TypeOK, OneHolder, EvidenceBeforeAgent
  <1>5. QED
    BY <1>2, <1>4 DEF FilesStay

(* The agent's thread: it goes on, or ends and removes the file. *)
LEMMA AgentKeeps ==
  ASSUME IInv, NEW a \in agents,
         AgentEnds(a) \/ Report(a) \/ ReportFails(a)
  PROVE  IInv'
  <1> USE DEF IInv
  <1>1. UNCHANGED <<enabled, second, handlers, folder, lock>>
    BY DEF AgentEnds, Report, ReportFails, others
  <1>2. PICK pc \in {"reporting", "releasing"} : Becomes(a, pc)
    BY DEF AgentEnds, Report, ReportFails
  <1> DEFINE b == [a EXCEPT !.pc = pc]
  <1>3. a \in Agent /\ agents = {a}
    BY DEF TypeOK, OneHolder
  <1>4. b \in Agent /\ b.id = a.id
    BY <1>3 DEF Agent
  <1>5. agents' = {b}
    BY <1>2, <1>3 DEF Becomes
  <1> HIDE DEF b
  <1>6. TypeOK'
    BY <1>1, <1>4, <1>5 DEF TypeOK
  <1>7. HandlersSound' /\ WritesSound' /\ LeftProvided'
    BY <1>1 DEF HandlersSound, WritesSound, LeftProvided, Provided, Opened, At
  <1>8. \A h \in Handlers : ~At(h, "locked")
    BY <1>3 DEF OneHolder
  <1>9. OneHolder'
    BY <1>1, <1>4, <1>5, <1>8 DEF OneHolder, At
  <1>10. EvidenceBeforeAgent'
    BY <1>1, <1>3, <1>4, <1>5 DEF EvidenceBeforeAgent, Provided, Opened, At
  <1>11. QED
    BY <1>6, <1>7, <1>9, <1>10

LEMMA ReleaseKeeps ==
  ASSUME IInv, NEW a \in agents, Release(a)
  PROVE  IInv'
  <1> USE DEF IInv
  <1>1. agents = {a} /\ \A h \in Handlers : ~At(h, "locked")
    BY DEF OneHolder
  <1>2. /\ agents' = {} /\ lock' = Null
        /\ UNCHANGED <<enabled, second, handlers, folder>>
    BY <1>1 DEF Release, others
  <1>3. QED
    BY <1>1, <1>2 DEF TypeOK, HandlersSound, WritesSound, LeftProvided, OneHolder,
                      EvidenceBeforeAgent, Provided, Opened, At

LEMMA DieKeeps ==
  ASSUME IInv, Die
  PROVE  IInv'
  <1> USE DEF IInv
  <1>1. /\ handlers' = [h \in Handlers |-> Waiting] /\ agents' = {}
        /\ UNCHANGED <<enabled, second, folder, lock>>
    BY DEF Die, others
  <1>2. Waiting \in Handler /\ Waiting.pc = "waiting" /\ Waiting.open = FALSE
    BY DEF Waiting, Handler
  <1>3. TypeOK'
    BY <1>1, <1>2 DEF TypeOK
  <1>4. \A h \in Handlers : handlers'[h].pc = "waiting" /\ handlers'[h].open = FALSE
    BY <1>1, <1>2
  <1>5. HandlersSound' /\ WritesSound' /\ OneHolder' /\ EvidenceBeforeAgent'
    BY <1>1, <1>4 DEF HandlersSound, Sound, WritesSound, OneHolder,
                      EvidenceBeforeAgent, At
  <1>6. LeftProvided'
    BY <1>4, PassedFiles DEF LeftProvided
  <1>7. QED
    BY <1>3, <1>5, <1>6

LEMMA Closed ==
  ASSUME IInv, NEW h \in Handlers, At(h, "next") \/ At(h, "launch")
  PROVE  ~handlers[h].open
  BY DEF IInv, HandlersSound, Sound, At, Evidence

LEMMA AcquireFailsKeeps ==
  ASSUME IInv, NEW h \in Handlers, AcquireFails(h)
  PROVE  IInv'
  BY AlertEnds, Closed DEF AcquireFails, At, others

LEMMA HandleKeeps ==
  ASSUME IInv, NEW h \in Handlers, Handle(h)
  PROVE  IInv'
  <1>1. CASE SkipTest(h)
    BY <1>1, AlertEnds, Closed DEF SkipTest, At, others
  <1>2. CASE DoNotLaunch(h)
    BY <1>2, AlertEnds, Closed DEF DoNotLaunch, At, others
  <1>3. CASE TakeId(h)
    BY <1>3, TakeIdKeeps
  <1>4. CASE OpenFile(h) \/ Fill(h)
    BY <1>4, OpenFileKeeps, FillKeeps
  <1>5. CASE Acquire(h)
    BY <1>5, AcquireKeeps
  <1>6. CASE StartAgent(h)
    BY <1>6, StartAgentKeeps
  <1>7. QED
    BY <1>1, <1>2, <1>3, <1>4, <1>5, <1>6 DEF Handle

-----------------------------------------------------------------------------
(* The inductive invariant holds in every reachable state. *)
THEOREM LockInvariance == Spec => []IInv
  <1>1. Init => IInv
    <2> SUFFICES ASSUME Init PROVE IInv
      OBVIOUS
    <2>1. Waiting \in Handler /\ Waiting.pc = "waiting" /\ Waiting.open = FALSE
      BY DEF Waiting, Handler
    <2>2. TypeOK
      BY <2>1, ResponderAssumption DEF Init, TypeOK, NoFiles, File
    <2>3. HandlersSound /\ WritesSound /\ OneHolder /\ EvidenceBeforeAgent
      BY <2>1 DEF Init, HandlersSound, Sound, WritesSound, OneHolder,
                  EvidenceBeforeAgent, At
    <2>4. LeftProvided
      BY <2>1, PassedFiles DEF Init, LeftProvided
    <2>5. QED
      BY <2>2, <2>3, <2>4 DEF IInv
  <1>2. IInv /\ [Next]_vars => IInv'
    <2> SUFFICES ASSUME IInv, [Next]_vars PROVE IInv'
      OBVIOUS
    <2>1. CASE UNCHANGED vars
      BY <2>1 DEF vars, IInv, TypeOK, HandlersSound, WritesSound, LeftProvided,
                  OneHolder, EvidenceBeforeAgent, Provided, Opened, At
    <2>2. CASE Clock
      <3>1. TypeOK'
        BY <2>2, ResponderAssumption DEF Clock, IInv, TypeOK
      <3>2. /\ HandlersSound' /\ WritesSound' /\ LeftProvided'
            /\ OneHolder' /\ EvidenceBeforeAgent'
        BY <2>2 DEF Clock, IInv, HandlersSound, WritesSound, LeftProvided,
                    OneHolder, EvidenceBeforeAgent, Provided, Opened, At
      <3>3. QED
        BY <3>1, <3>2 DEF IInv
    <2>3. CASE Die
      BY <2>3, DieKeeps
    <2>4. ASSUME NEW h \in Handlers,
                 \/ \E w \in Webhooks : Post(h, w)
                 \/ Handle(h) \/ OriginalFails(h) \/ CopyFails(h)
                 \/ AcquireFails(h) \/ StartFails(h)
          PROVE  IInv'
      BY <2>4, PostKeeps, HandleKeeps, OriginalFailsKeeps, CopyFailsKeeps,
         AcquireFailsKeeps, StartFailsKeeps
    <2>5. ASSUME NEW a \in agents,
                 AgentEnds(a) \/ Report(a) \/ Release(a) \/ ReportFails(a)
          PROVE  IInv'
      BY <2>5, AgentKeeps, ReleaseKeeps
    <2>6. QED
      BY <2>1, <2>2, <2>3, <2>4, <2>5 DEF Next, RunAgent
  <1>3. QED
    BY <1>1, <1>2, PTL DEF Spec

(* One agent at a time, and the lock file is its own. *)
THEOREM SingleFlightAlways == Spec => []SingleFlight
  <1>1. IInv => SingleFlight
    <2> SUFFICES ASSUME IInv PROVE SingleFlight
      OBVIOUS
    <2> DEFINE L == {h \in Handlers : At(h, "locked")}
    <2>1. agents = {} \/ \E a : agents = {a}
      BY DEF IInv, OneHolder
    <2>2. L = {} \/ \E h : L = {h}
      BY DEF IInv, OneHolder
    <2>3. agents = {} \/ L = {}
      BY DEF IInv, OneHolder
    <2>4. \A S : (S = {} => Cardinality(S) = 0)
                 /\ \A e : S = {e} => Cardinality(S) = 1
      BY FS_EmptySet, FS_Singleton
    <2>5. Cardinality(agents) + Cardinality(L) <= 1
      BY <2>1, <2>2, <2>3, <2>4
    <2>6. QED
      BY <2>5 DEF IInv, OneHolder, SingleFlight
  <1>2. QED
    BY <1>1, LockInvariance, PTL

(* An agent runs on evidence that was written before it started, originals *)
(* and copies: what is missing or torn of it is so because a write failed, *)
(* or because two handlers wrote it at the same time.                      *)
THEOREM EvidenceBeforeAgentAlways == Spec => []EvidenceBeforeAgent
  <1>1. IInv => EvidenceBeforeAgent
    BY DEF IInv
  <1>2. QED
    BY <1>1, LockInvariance, PTL

-----------------------------------------------------------------------------
(* A lock file nobody will remove is left by a death or a failed start.    *)
THEOREM StrandedByFaultAlways == Spec => StrandedByFault
  <1> DEFINE Fault2 == Die \/ \E h \in Handlers : StartFails(h)
  <1>1. IInv /\ [Next]_vars => [Stranded' /\ ~Stranded => Fault2]_vars
    <2> SUFFICES ASSUME IInv, Next, ~Fault2, Stranded', ~Stranded PROVE FALSE
      BY DEF Fault2
    <2>1. lock' # Null /\ agents' = {} /\ \A h \in Handlers : ~At(h, "locked")'
      BY DEF Stranded
    <2>2. ASSUME UNCHANGED <<lock, agents>>,
                 \A h \in Handlers : At(h, "locked") => At(h, "locked")'
          PROVE  FALSE
      BY <2>1, <2>2 DEF Stranded
    <2>3. ASSUME NEW h \in Handlers, ~At(h, "locked"), NEW x,
                 handlers' = [handlers EXCEPT ![h] = x],
                 UNCHANGED <<lock, agents>>
          PROVE  FALSE
      <3>1. \A g \in Handlers : At(g, "locked") => At(g, "locked")'
        BY <2>3 DEF IInv, TypeOK, At
      <3>2. QED
        BY <2>2, <2>3, <3>1
    <2>4. ASSUME NEW h \in Handlers, NEW w \in Webhooks, Post(h, w) PROVE FALSE
      <3>1. handlers' = [handlers EXCEPT ![h] =
                           [handlers[h] EXCEPT !.pc = "next", !.alerts = w]]
        BY <2>4 DEF Post, IInv, TypeOK
      <3>2. ~At(h, "locked") /\ UNCHANGED <<lock, agents>>
        BY <2>4 DEF Post, At
      <3>3. QED
        BY <2>3, <3>1, <3>2
    <2>5. ASSUME NEW h \in Handlers,
                 Handle(h) \/ OriginalFails(h) \/ CopyFails(h) \/ AcquireFails(h)
          PROVE  FALSE
      <3>1. CASE SkipTest(h) \/ DoNotLaunch(h) \/ OriginalFails(h) \/ AcquireFails(h)
        <4>1. ~At(h, "locked") /\ Done(h) /\ UNCHANGED <<lock, agents>>
          BY <3>1 DEF SkipTest, DoNotLaunch, OriginalFails, AcquireFails, At
        <4>2. QED
          BY <2>3, <4>1 DEF Done
      <3>2. CASE TakeId(h)
        <4>1. handlers' = [handlers EXCEPT ![h] =
                [handlers[h] EXCEPT !.pc = "bundle",
                                    !.id = <<second, Current(h).rule>>]]
          BY <3>2 DEF TakeId, IInv, TypeOK
        <4>2. ~At(h, "locked") /\ UNCHANGED <<lock, agents>>
          BY <3>2 DEF TakeId, At
        <4>3. QED
          BY <2>3, <4>1, <4>2
      <3>3. CASE OpenFile(h) \/ Fill(h) \/ CopyFails(h)
        <4>1. ~At(h, "locked") /\ UNCHANGED <<lock, agents>>
          BY <3>3 DEF OpenFile, Fill, CopyFails, At, Evidence
        <4>2. \E x : handlers' = [handlers EXCEPT ![h] = x]
          <5>1. CASE OpenFile(h)
            BY <5>1 DEF OpenFile, IInv, TypeOK
          <5>2. CASE Fill(h)
            BY <5>2 DEF Fill, IInv, TypeOK
          <5>3. CASE CopyFails(h)
            BY <5>3 DEF CopyFails, IInv, TypeOK
          <5>4. QED
            BY <3>3, <5>1, <5>2, <5>3
        <4>3. QED
          BY <2>3, <4>1, <4>2
      <3>4. CASE Acquire(h)
        <4>1. At(h, "locked")'
          BY <3>4 DEF Acquire, To, At, IInv, TypeOK, Handler
        <4>2. QED
          BY <2>1, <4>1
      <3>5. CASE StartAgent(h)
        BY <2>1, <3>5 DEF StartAgent
      <3>6. QED
        BY <2>5, <3>1, <3>2, <3>3, <3>4, <3>5 DEF Handle
    <2>6. ASSUME NEW a \in agents,
                 AgentEnds(a) \/ Report(a) \/ Release(a) \/ ReportFails(a)
          PROVE  FALSE
      <3>1. CASE Release(a)
        BY <2>1, <3>1 DEF Release
      <3>2. CASE AgentEnds(a) \/ Report(a) \/ ReportFails(a)
        BY <2>1, <3>2 DEF AgentEnds, Report, ReportFails, Becomes
      <3>3. QED
        BY <2>6, <3>1, <3>2
    <2>7. CASE Clock
      BY <2>2, <2>7 DEF Clock, At
    <2>8. QED
      BY <2>4, <2>5, <2>6, <2>7 DEF Next, RunAgent, Fault2
  <1>2. QED
    BY <1>1, LockInvariance, PTL DEF Spec, StrandedByFault, Fault2
=============================================================================
