---------------------------- MODULE Preferences ----------------------------
(***************************************************************************)
(* The Nexus preferences (homework_2/backend: main.py and storage/): one   *)
(* pinned match and one view mode behind two interchangeable adapters.     *)
(* Request handlers run on the server's thread pool, so two of them, and   *)
(* the poller's own reads, interleave between every two accesses of the    *)
(* store.                                                                  *)
(*                                                                         *)
(* The SQLAlchemy adapter sets one row in one transaction.  The JSON       *)
(* adapter reads the file, changes one key of what it read, and writes the *)
(* file back: open("w") empties it, and the text arrives when it is        *)
(* closed.  A missing key reads as its default and a file that does not    *)
(* parse reads as {}, so both are the record Defaults.                     *)
(***************************************************************************)
EXTENDS NexusNames, Naturals, Sequences

CONSTANTS Views,      \* view modes: "standard", "deep"
          Requests    \* threads of the pool that may serve a PUT at a time

ASSUME PreferenceValues == Null \notin Matches /\ "standard" \in Views

VARIABLES backend,    \* STORAGE_BACKEND
          prefs,      \* what the store holds
          torn,       \* the JSON file is empty or does not parse
          requests    \* PUT handlers in progress

prefVars == <<backend, prefs, torn, requests>>

Backends == {"json", "sqlalchemy"}
Keys == {"pinned_match_id", "view_mode"}

Preference == [pinned_match_id : Matches \union {Null}, view_mode : Views]

Defaults == [pinned_match_id |-> Null, view_mode |-> "standard"]

(* One set call of a handler that is still to be made.                     *)
Setting ==
  [key : {"pinned_match_id"}, value : Matches \union {Null}]
    \union [key : {"view_mode"}, value : Views]

Idle == [pc |-> "idle", todo |-> <<>>, data |-> Defaults, overlaid |-> FALSE]

PrefTypeOK ==
  /\ backend \in Backends
  /\ prefs \in Preference
  /\ torn \in BOOLEAN
  /\ torn => backend = "json"
  /\ \A h \in Requests :
       /\ requests[h].pc \in {"idle", "set", "truncate", "write"}
       /\ Len(requests[h].todo) <= 2
       /\ \A i \in 1 .. Len(requests[h].todo) : requests[h].todo[i] \in Setting
       /\ requests[h].data \in Preference
       /\ requests[h].overlaid \in BOOLEAN

(* create_app: ensure_defaults has run on an empty store.                  *)
PrefInit ==
  /\ backend \in Backends
  /\ prefs = Defaults
  /\ torn = FALSE
  /\ requests = [h \in Requests |-> Idle]

(* repo.all() *)
Read == IF torn THEN Defaults ELSE prefs

(* read_preferences(repo).pinned_match_id, the poller's get_pinned.        *)
Pinned == Read.pinned_match_id

-----------------------------------------------------------------------------
Begin(h, todo) ==
  /\ requests[h].pc = "idle"
  /\ requests' = [requests EXCEPT ![h] = [Idle EXCEPT !.pc = "set",
                                                      !.todo = todo]]
  /\ UNCHANGED <<backend, prefs, torn>>

PutSelection(h, m) ==
  Begin(h, <<[key |-> "pinned_match_id", value |-> m]>>)

PutPreferences(h, m, v) ==
  Begin(h, <<[key |-> "pinned_match_id", value |-> m],
             [key |-> "view_mode", value |-> v]>>)

(* Once a set call returns the handler makes the next one, or replies.     *)
Returned(h) ==
  IF Len(requests[h].todo) = 1 THEN Idle
  ELSE [Idle EXCEPT !.pc = "set", !.todo = Tail(requests[h].todo)]

Changed(data, setting) == [data EXCEPT ![setting.key] = setting.value]

(* SqlAlchemyPreferencesRepository.set *)
SetRow(h) ==
  /\ backend = "sqlalchemy"
  /\ requests[h].pc = "set"
  /\ prefs' = Changed(prefs, Head(requests[h].todo))
  /\ requests' = [requests EXCEPT ![h] = Returned(h)]
  /\ UNCHANGED <<backend, torn>>

(* JsonFilePreferencesRepository.set: _read, and the key changed.          *)
ReadFile(h) ==
  /\ backend = "json"
  /\ requests[h].pc = "set"
  /\ requests' = [requests EXCEPT
       ![h].pc = "truncate", ![h].data = Changed(Read, Head(requests[h].todo))]
  /\ UNCHANGED <<backend, prefs, torn>>

(* write_text opens the file for writing ...                               *)
Truncate(h) ==
  /\ requests[h].pc = "truncate"
  /\ torn' = TRUE
  /\ requests' = [requests EXCEPT ![h].pc = "write"]
  /\ UNCHANGED <<backend, prefs>>

(* ... and its text replaces the content from the first byte.  A longer    *)
(* text another handler wrote in between keeps its tail: no JSON.          *)
WriteFile(h) ==
  /\ requests[h].pc = "write"
  /\ prefs' = requests[h].data
  /\ torn' \in (IF requests[h].overlaid THEN BOOLEAN ELSE {FALSE})
  /\ requests' =
       [g \in Requests |->
          IF g = h THEN Returned(h)
          ELSE [requests[g] EXCEPT !.overlaid = (requests[g].pc = "write")]]
  /\ UNCHANGED backend

(* The process dies and is started again: handlers are gone, the store is  *)
(* as it was, and ensure_defaults gives a file that reads as {} its keys.  *)
PrefRestart ==
  /\ prefs' = Read
  /\ torn' = FALSE
  /\ requests' = [h \in Requests |-> Idle]
  /\ UNCHANGED backend

Handler(h) == SetRow(h) \/ ReadFile(h) \/ Truncate(h) \/ WriteFile(h)

Request(h) ==
  \E m \in Matches \union {Null} :
    \/ PutSelection(h, m)
    \/ \E v \in Views : PutPreferences(h, m, v)
=============================================================================
