------------------------------ MODULE SyncDiff ------------------------------
(***************************************************************************)
(* The pure part of the sync engine (src/jp/sync.py): what a file looks    *)
(* like on a side or in the index, the cheap size+mtime comparison with    *)
(* the base, and the three-way classification of one file.                 *)
(*                                                                         *)
(* A file's bytes are a member of Content and stand for their sha256 too:  *)
(* the engine compares digests, and two contents never share one.  Absent  *)
(* is "no file", "no index entry" and Python's None for a digest.          *)
(***************************************************************************)
EXTENDS Naturals

CONSTANTS
    Content,    \* what a file can hold
    Size,       \* the length in bytes of each content
    Absent      \* not a content

ASSUME SizeAssumption == Size \in [Content -> Nat]
ASSUME AbsentAssumption == Absent \notin Content

MaybeContent == Content \cup {Absent}

(***************************************************************************)
(* A version pairs a content with the server's last_modified.  It is at    *)
(* once a file on the server, a RemoteEntry of a listing (its size is      *)
(* Size[sha]) and an index Entry (size = len(data) and remote_hash =       *)
(* sha256 are set from the same bytes as sha256).  mt = 0 is the empty     *)
(* validator "" that an entry gets when the server gave no time.           *)
(***************************************************************************)
Version == [sha: MaybeContent, mt: Nat]
NoVersion == [sha |-> Absent, mt |-> 0]
Exists(v) == v.sha # Absent

Change == {"UNCHANGED", "LOCAL_NEW", "LOCAL_MODIFIED",
           "REMOTE_NEW", "REMOTE_MODIFIED", "CONFLICT"}

-----------------------------------------------------------------------------
(* Mutants. *)

\* Existence alone decides when there is no base: the case where both sides
\* hold the file and must be compared is forgotten.
ClassifyNewByLocal(l, listed, rnow) ==
    IF l # Absent THEN "LOCAL_NEW"
    ELSE IF Exists(listed) THEN "REMOTE_NEW" ELSE "UNCHANGED"

-----------------------------------------------------------------------------
(***************************************************************************)
(* _remote_matches_base answers True, False or None ("unsure"); False and  *)
(* None both lead to the same remote hash, so only True is told apart.     *)
(***************************************************************************)
RemoteMatchesBase(base, listed) ==
    /\ Exists(base)
    /\ Exists(listed)
    /\ Size[listed.sha] = Size[base.sha]
    /\ base.mt # 0
    /\ base.mt = listed.mt

\* Whether classifying a file asks the server for its digest: never for a file
\* that is on one side only, nor for one whose validators match the base.
NeedsRemoteHash(l, listed, base) ==
    /\ Exists(listed)
    /\ ~RemoteMatchesBase(base, listed)
    /\ Exists(base) \/ l # Absent

\* The digest the comparison uses for the remote side; rnow is what the server
\* holds when it is asked, which may no longer be what it listed.
RemoteSha(listed, base, rnow) ==
    IF ~Exists(listed) THEN Absent
    ELSE IF RemoteMatchesBase(base, listed) THEN base.sha ELSE rnow

\* With no base, existence decides, and content only when both sides exist.
ClassifyNew(l, listed, rnow) ==
    IF l # Absent /\ Exists(listed) THEN IF rnow = l THEN "UNCHANGED" ELSE "CONFLICT"
    ELSE IF l # Absent THEN "LOCAL_NEW"
    ELSE IF Exists(listed) THEN "REMOTE_NEW" ELSE "UNCHANGED"

\* With a base, the sides that moved away from it decide.
ClassifyKnown(l, listed, base, rsha) ==
    IF l = base.sha /\ rsha = base.sha THEN "UNCHANGED"
    ELSE IF rsha = base.sha THEN IF l # Absent THEN "LOCAL_MODIFIED" ELSE "UNCHANGED"
    ELSE IF l = base.sha THEN IF Exists(listed) THEN "REMOTE_MODIFIED" ELSE "UNCHANGED"
    ELSE IF l # Absent /\ Exists(listed) /\ rsha = l THEN "UNCHANGED" ELSE "CONFLICT"

Classify(l, listed, base, rnow) ==
    IF Exists(base) THEN ClassifyKnown(l, listed, base, RemoteSha(listed, base, rnow))
    ELSE ClassifyNew(l, listed, rnow)
=============================================================================
