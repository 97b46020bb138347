----------------------------- MODULE NexusNames -----------------------------
(***************************************************************************)
(* What the parts of the Nexus server (homework_2/backend) name alike.     *)
(***************************************************************************)
CONSTANTS Matches,   \* match ids
          Null       \* JSON null, Python None: no match, no pin, no value
=============================================================================
