------------------------------ MODULE SafeSync ------------------------------
(***************************************************************************)
(* What the sync commands promise (docs/security.md, "The guarantees";     *)
(* README.md, "Mirror mode"), as a specification: two copies of each file  *)
(* and the content both last agreed on.  While a command works, nobody     *)
(* else writes; a copy is replaced by the other one only if it still is    *)
(* the agreed content (no "last writer wins"); the base becomes what both  *)
(* sides hold, or is forgotten; a copy disappears only with the user's     *)
(* leave, and in mirror mode only if the other side has none.              *)
(***************************************************************************)
CONSTANTS Files, Content, Absent

VARIABLES
    here, there,   \* the two copies
    base,          \* the content of the last agreement, Absent if none
    mode,          \* what the command at work is doing
    leave          \* the user gave it leave to delete

vars == <<here, there, base, mode, leave>>

Copies == [Files -> Content \cup {Absent}]

Init ==
    /\ here \in Copies
    /\ there \in Copies
    /\ base = [f \in Files |-> Absent]
    /\ mode = "idle"
    /\ leave = FALSE

\* People change either side, between commands.
Edit ==
    /\ mode = "idle"
    /\ here' \in Copies
    /\ there' \in Copies
    /\ UNCHANGED <<base, mode, leave>>

Start ==
    /\ mode = "idle"
    /\ \/ mode' \in {"push", "pull"} /\ leave' \in BOOLEAN
       \/ mode' = "rm" /\ leave' = TRUE
    /\ UNCHANGED <<here, there, base>>

Upload(f) ==
    /\ mode = "push"
    /\ here[f] # Absent
    /\ there[f] = base[f]
    /\ there' = [there EXCEPT ![f] = here[f]]
    /\ UNCHANGED <<here, base, mode, leave>>

Download(f) ==
    /\ mode = "pull"
    /\ there[f] # Absent
    /\ here[f] = base[f]
    /\ here' = [here EXCEPT ![f] = there[f]]
    /\ UNCHANGED <<there, base, mode, leave>>

Mirror ==
    /\ mode \in {"push", "pull"}
    /\ leave
    /\ mode' = "mirror"
    /\ UNCHANGED <<here, there, base, leave>>

DropThere(f) ==
    /\ \/ mode = "mirror" /\ here[f] = Absent
       \/ mode = "rm"
    /\ there' = [there EXCEPT ![f] = Absent]
    /\ UNCHANGED <<here, base, mode, leave>>

DropHere(f) ==
    /\ \/ mode = "mirror" /\ there[f] = Absent
       \/ mode = "rm"
    /\ here' = [here EXCEPT ![f] = Absent]
    /\ UNCHANGED <<there, base, mode, leave>>

\* The base of some files is brought up to date or forgotten.
Rebases ==
    /\ base' \in Copies
    /\ \A f \in Files : \/ base'[f] = base[f]
                        \/ base'[f] = Absent
                        \/ base'[f] = here[f] /\ here[f] = there[f]
    /\ UNCHANGED <<here, there>>

Rebase ==
    /\ mode # "idle"
    /\ Rebases
    /\ UNCHANGED <<mode, leave>>

\* The command ends, possibly with a last update of the base, or dies.
Stop ==
    /\ mode # "idle"
    /\ Rebases
    /\ mode' = "idle"
    /\ leave' = FALSE

Next ==
    \/ Edit \/ Start \/ Mirror \/ Rebase \/ Stop
    \/ \E f \in Files : Upload(f) \/ Download(f) \/ DropThere(f) \/ DropHere(f)

Spec == Init /\ [][Next]_vars
=============================================================================
