---------------------------- MODULE SyncHistory ----------------------------
(***************************************************************************)
(* Sync with history variables: what each side has held of every file      *)
(* since the running command began.                                        *)
(***************************************************************************)
EXTENDS Sync

VARIABLES here, there

Bytes(c) == {c} \ {Absent}

Held(l, r) ==
    /\ here' = [f \in Files |-> Bytes(l[f]) \cup IF pc = "idle" THEN {} ELSE here[f]]
    /\ there' = [f \in Files |-> Bytes(r[f].sha) \cup IF pc = "idle" THEN {} ELSE there[f]]

HInit ==
    /\ Init
    /\ here = [f \in Files |-> Bytes(local[f])]
    /\ there = [f \in Files |-> Bytes(remote[f].sha)]
HNext == Next /\ Held(local', remote')
hvars == <<vars, here, there>>
HSpec == HInit /\ [][HNext]_hvars /\ WF_vars(Progress)

\* The index never claims a transfer that did not happen (src/jp/index.py:12),
\* even if both sides change under the command, a call fails or the process
\* dies: a base that a command writes was on the tree and on the server while
\* that command ran - not at once: the file may be edited between the reading
\* of its bytes and the end of their transfer.
RecordsWhatBothHeld ==
    [][\A f \in Files : disk'[f] # disk[f] /\ Exists(disk'[f]) =>
           disk'[f].sha \in here[f] \cap there[f]]_hvars
=============================================================================
