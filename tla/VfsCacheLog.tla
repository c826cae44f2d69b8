---------------------------- MODULE VfsCacheLog ----------------------------
(***************************************************************************)
(* VfsCache with a log of the changes: when each was made and to which     *)
(* paths.                                                                  *)
(***************************************************************************)
EXTENDS VfsCache

VARIABLE log

LInit == Init /\ log = [e \in 1..event |-> [paths |-> {}, time |-> 0]]
LNext ==
    /\ Next
    /\ log' = IF event' = event THEN log
              ELSE Append(log, [paths |-> {p \in Paths : file'[p].at = event'}, time |-> now])
LSpec == LInit /\ [][LNext]_<<vars, log>> /\ WF_vars(Continue)

ChangedLately(p, since) ==
    \E e \in DOMAIN log : e > since /\ p \in log[e].paths /\ log[e].time > now - Ttl

\* An attribute or a listing is given out only while everything that changed
\* since it was taken changed less than the TTL ago ("the TTL attr cache",
\* vfs_cache.py), and an attribute is never older than what was told before.
AnswersAreRecent ==
    /\ \A p \in Paths : attr[p].until > now =>
           /\ attr[p].at = file[p].at \/ ChangedLately(p, attr[p].at)
           /\ \A e \in DOMAIN log :
                  e > attr[p].at /\ p \in log[e].paths => log[e].time > now - Ttl
           /\ attr[p].at >= seen[p]
    /\ \A p \in Paths :
           dirs.until > now /\ (p \in dirs.names) # There(file[p]) => ChangedLately(p, 0)
=============================================================================
