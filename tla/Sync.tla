-------------------------------- MODULE Sync --------------------------------
(***************************************************************************)
(* One jp workspace: the working tree, the files under the remote prefix,  *)
(* the index (.jp/index.json), and the commands that move them - `jp push` *)
(* and `jp pull` (src/jp/sync.py, commands/push.py, pull.py and clone.py), *)
(* mirror deletions (commands/_mirror.py) and `jp rm` (commands/rm.py) -   *)
(* one command at a time, each call to the server or the disk a step of    *)
(* its own.  Around them: people editing either side, calls that fail or   *)
(* whose reply is lost, and a process that may die between two steps.      *)
(*                                                                         *)
(* A file is its canonical relative path; paths are never taken apart.     *)
(* The order of a run over its files is left open (names have no order).   *)
(***************************************************************************)
EXTENDS SyncDiff

CONSTANTS
    Files,            \* relative paths
    Hidden,           \* those with a component that starts with a dot
    Ignored,          \* those scan_local leaves out (.jpignore, built-in ignores)
    EditsDuringRun,   \* may either side be edited while a command runs?
    ListingCanFail,   \* may a remote directory be unreadable during a scan?
    MaxMtime          \* bound on remote writes (one fresh last_modified each)

ASSUME FilesAssumption == Hidden \subseteq Files /\ Ignored \subseteq Files
ASSUME FlagsAssumption == {EditsDuringRun, ListingCanFail} \subseteq BOOLEAN
ASSUME MaxMtimeAssumption == MaxMtime \in Nat

VARIABLES
    local,     \* working tree: content of each file
    remote,    \* under the prefix: version of each file (key = decoded name)
    clock,     \* the server's last last_modified
    disk,      \* .jp/index.json
    mem,       \* Index.entries of the running command
    pc,        \* where the running command is; "idle" when none runs
    run,       \* its arguments
    lx,        \* local_exists of each FileState: the files scan_local found
    listing,   \* remote_entry of each FileState: what scan_remote returned
    unread,    \* files in directories the scan warned about and skipped
    change,    \* change of each FileState; "NONE" for a path not in `states`
    todo,      \* files the current loop has yet to visit
    cur,       \* the transfer whose index entry is not written yet
    result     \* the Outcome

shared == <<local, remote, clock, disk>>
scanned == <<lx, listing, unread>>
vars == <<shared, mem, pc, run, scanned, change, todo, cur, result>>

Steps == {"idle", "classify", "transfer", "put", "verify", "write", "record", "mirror",
          "unindex", "done", "rmfile", "rmlocal", "rmdir", "rmsave"}
\* The command, --dry-run, whether the dotfile policy is "protect" (`jp config
\* set dotfiles` may change it anytime), and mirror mode: off (--no-mirror or the
\* configuration), or on, and who answers for its deletions: --yes, the
\* selector of a terminal, or, with neither, nobody.
Runs == [op: {"push", "pull", "rm"}, dry: BOOLEAN, protect: BOOLEAN,
         mirror: {"off", "yes", "terminal", "nobody"}]
Outcomes == [transferred: SUBSET Files, conflicts: SUBSET Files,
             failures: SUBSET Files, upToDate: SUBSET Files,
             skipped: SUBSET Files, deleted: SUBSET Files]
Transfers == [file: Files \cup {Absent}, sha: MaybeContent, mt: Nat]
NoTransfer == [file |-> Absent, sha |-> Absent, mt |-> 0]
NoOutcome == [transferred |-> {}, conflicts |-> {}, failures |-> {},
              upToDate |-> {}, skipped |-> {}, deleted |-> {}]
NoRun == [op |-> "rm", dry |-> TRUE, protect |-> FALSE, mirror |-> "off"]
NoFiles == [f \in Files |-> NoVersion]
NoChange == [f \in Files |-> "NONE"]

TypeOK ==
    /\ local \in [Files -> MaybeContent]
    /\ remote \in [Files -> Version]
    /\ clock \in Nat
    /\ disk \in [Files -> Version]
    /\ mem \in [Files -> Version]
    /\ pc \in Steps
    /\ run \in Runs
    /\ lx \in SUBSET Files
    /\ listing \in [Files -> Version]
    /\ unread \in SUBSET Files
    /\ change \in [Files -> Change \cup {"NONE"}]
    /\ todo \in SUBSET Files
    /\ cur \in Transfers
    /\ result \in Outcomes

\* A workspace just after `jp init` or `jp clone`: an empty index over a tree
\* and a prefix that may already hold anything.
Init ==
    /\ local \in [Files -> MaybeContent]
    /\ remote \in [Files -> {NoVersion} \cup [sha: Content, mt: {1}]]
    /\ clock = 1
    /\ disk = NoFiles
    /\ mem = NoFiles
    /\ pc = "idle"
    /\ run = NoRun
    /\ lx = {}
    /\ listing = NoFiles
    /\ unread = {}
    /\ change = NoChange
    /\ todo = {}
    /\ cur = NoTransfer
    /\ result = NoOutcome

-----------------------------------------------------------------------------
(* The world around the command. *)

Editable == pc = "idle" \/ EditsDuringRun

\* Someone writes or deletes a file of the working tree.
EditLocal(f, c) ==
    /\ Editable
    /\ c # local[f]
    /\ local' = [local EXCEPT ![f] = c]
    /\ UNCHANGED <<remote, clock, disk, mem, pc, run, scanned, change, todo, cur, result>>

\* Someone writes a file under the prefix (a rewrite of the same bytes gets a
\* new last_modified as well).
EditRemote(f, c) ==
    /\ Editable
    /\ clock < MaxMtime
    /\ remote' = [remote EXCEPT ![f] = [sha |-> c, mt |-> clock + 1]]
    /\ clock' = clock + 1
    /\ UNCHANGED <<local, disk, mem, pc, run, scanned, change, todo, cur, result>>

RemoveRemote(f) ==
    /\ Editable
    /\ Exists(remote[f])
    /\ remote' = [remote EXCEPT ![f] = NoVersion]
    /\ UNCHANGED <<local, clock, disk, mem, pc, run, scanned, change, todo, cur, result>>

\* The process ends: by itself, by an exception nobody catches, or killed.
\* Its memory goes; the two sides and the index on disk are what they are.
Ends ==
    /\ pc' = "idle"
    /\ run' = NoRun
    /\ mem' = NoFiles
    /\ lx' = {}
    /\ listing' = NoFiles
    /\ unread' = {}
    /\ change' = NoChange
    /\ todo' = {}
    /\ cur' = NoTransfer
    /\ result' = NoOutcome

\* A crash or a Ctrl-C, between any two steps.
Killed ==
    /\ pc # "idle"
    /\ Ends
    /\ UNCHANGED shared

-----------------------------------------------------------------------------
(* diff: load_repo loads the index, then both sides are scanned. *)

InTree(f) == local[f] # Absent /\ f \notin Ignored
Rels == {f \in Files : f \in lx \/ Exists(listing[f]) \/ Exists(mem[f])}

Scan(args, poisoned) ==
    /\ pc = "idle"
    /\ poisoned = {} \/ ListingCanFail
    /\ mem' = disk
    /\ run' = args
    /\ lx' = {f \in Files : InTree(f)}
    /\ listing' = [f \in Files |-> IF f \in poisoned THEN NoVersion ELSE remote[f]]
    /\ unread' = poisoned
    /\ todo' = {f \in Files : InTree(f) \/ Exists(listing'[f]) \/ Exists(disk[f])}
    /\ pc' = "classify"
    /\ UNCHANGED <<shared, change, cur, result>>

\* One iteration of diff's loop.  The local digest is read now; the remote one
\* only if needed.  A file that went away since the scan raises: see DiffRaises.
Compare(f) ==
    LET l == IF f \in lx THEN local[f] ELSE Absent
    IN  /\ pc = "classify"
        /\ f \in todo
        /\ f \in lx => local[f] # Absent
        /\ NeedsRemoteHash(l, listing[f], mem[f]) => Exists(remote[f])
        /\ change' = [change EXCEPT ![f] = Classify(l, listing[f], mem[f], remote[f].sha)]
        /\ todo' = todo \ {f}
        /\ UNCHANGED <<shared, mem, pc, run, scanned, cur, result>>

\* The loop has no per-file handler: an OSError of a local read or an ApiError
\* of the fallback download ends the command.
DiffRaises ==
    /\ pc = "classify"
    /\ Ends
    /\ UNCHANGED shared

StartTransfers ==
    /\ pc = "classify"
    /\ todo = {}
    /\ pc' = "transfer"
    /\ todo' = Rels
    /\ UNCHANGED <<shared, mem, run, scanned, change, cur, result>>

-----------------------------------------------------------------------------
(* push and pull: one pass over the states. *)

SkipsDotfile(f) == run.op = "push" /\ f \in Hidden /\ ~run.protect

Moves(f) ==
    /\ ~SkipsDotfile(f)
    /\ change[f] \in IF run.op = "push" THEN {"LOCAL_NEW", "LOCAL_MODIFIED"}
                                         ELSE {"REMOTE_NEW", "REMOTE_MODIFIED"}

\* A file that is only reported: a skipped dotfile, a conflict, one with
\* nothing to do, or any file of a dry run.
Report(f) ==
    /\ pc = "transfer"
    /\ f \in todo
    /\ Moves(f) => run.dry
    /\ result' =
         IF SkipsDotfile(f)
         THEN IF f \in lx /\ change[f] \in {"LOCAL_NEW", "LOCAL_MODIFIED", "CONFLICT"}
              THEN [result EXCEPT !.skipped = @ \cup {f}] ELSE result
         ELSE IF change[f] = "CONFLICT" THEN [result EXCEPT !.conflicts = @ \cup {f}]
         ELSE IF Moves(f) THEN [result EXCEPT !.transferred = @ \cup {f}]
         ELSE IF /\ change[f] = "UNCHANGED"
                 /\ f \in lx
                 /\ run.op = "pull" => Exists(listing[f])
              THEN [result EXCEPT !.upToDate = @ \cup {f}] ELSE result
    /\ todo' = todo \ {f}
    /\ UNCHANGED <<shared, mem, pc, run, scanned, change, cur>>

Transferable(f) == pc = "transfer" /\ f \in todo /\ Moves(f) /\ ~run.dry

\* Mutants: the failure is not reported; the entry is written although the
\* download failed; the file is tried again, for ever.
TransferFailsSilently(f) ==
    /\ Transferable(f)
    /\ todo' = todo \ {f}
    /\ UNCHANGED <<shared, mem, pc, run, scanned, change, cur, result>>

TransferFailsIndexed(f) ==
    /\ Transferable(f)
    /\ mem' = [mem EXCEPT ![f] = [sha |-> local[f], mt |-> listing[f].mt]]
    /\ disk' = mem'
    /\ result' = [result EXCEPT !.failures = @ \cup {f}]
    /\ todo' = todo \ {f}
    /\ UNCHANGED <<local, remote, clock, pc, run, scanned, change, cur>>

TransferFailsAndRetries(f) ==
    /\ Transferable(f)
    /\ UNCHANGED vars

\* A JpError or OSError of one file's transfer, before anything was written:
\* the file is gone, the server or the destination refuses, the network fails.
TransferFails(f) ==
    /\ Transferable(f)
    /\ result' = [result EXCEPT !.failures = @ \cup {f}]
    /\ todo' = todo \ {f}
    /\ UNCHANGED <<shared, mem, pc, run, scanned, change, cur>>

\* push: read the local bytes.  They are what is sent and recorded, whatever
\* becomes of the file while the parent directories are created.
Read(f) ==
    /\ Transferable(f)
    /\ run.op = "push"
    /\ local[f] # Absent
    /\ cur' = [file |-> f, sha |-> local[f], mt |-> 0]
    /\ todo' = todo \ {f}
    /\ pc' = "put"
    /\ UNCHANGED <<shared, mem, run, scanned, change, result>>

\* push: PUT the whole file.
Put ==
    /\ pc = "put"
    /\ clock < MaxMtime
    /\ remote' = [remote EXCEPT ![cur.file] = [sha |-> cur.sha, mt |-> clock + 1]]
    /\ clock' = clock + 1
    /\ pc' = "verify"
    /\ UNCHANGED <<local, disk, mem, run, scanned, change, todo, cur, result>>

\* index.set, then index.save.  A save that raises leaves the entry in memory
\* (a later save of the same run writes it) and the file among the failures.
SetsAndSaves(f, v) ==
    /\ mem' = [mem EXCEPT ![f] = v]
    /\ \/ /\ disk' = mem'
          /\ result' = [result EXCEPT !.transferred = @ \cup {f}]
       \/ /\ disk' = disk
          /\ result' = [result EXCEPT !.failures = @ \cup {f}]

\* Mutants: the entry keeps the last_modified of the listing; the digest is that
\* of the local file read again.
VerifyUploadWithListedTime ==
    LET f == cur.file
    IN  /\ pc = "verify"
        /\ SetsAndSaves(f, [sha |-> cur.sha, mt |-> listing[f].mt])
        /\ pc' = "transfer"
        /\ cur' = NoTransfer
        /\ UNCHANGED <<local, remote, clock, run, scanned, change, todo>>

VerifyUploadRereading ==
    LET f == cur.file
    IN  /\ pc = "verify"
        /\ SetsAndSaves(f, [sha |-> local[f], mt |-> remote[f].mt])
        /\ pc' = "transfer"
        /\ cur' = NoTransfer
        /\ UNCHANGED <<local, remote, clock, run, scanned, change, todo>>

\* push: stat what was sent, compare sizes, record the bytes that were sent
\* with the last_modified the server now reports ("" if it reports no file).
VerifyUpload ==
    LET f == cur.file
    IN  /\ pc = "verify"
        /\ Exists(remote[f]) => Size[remote[f].sha] = Size[cur.sha]
        /\ SetsAndSaves(f, [sha |-> cur.sha, mt |-> remote[f].mt])
        /\ pc' = "transfer"
        /\ cur' = NoTransfer
        /\ UNCHANGED <<local, remote, clock, run, scanned, change, todo>>

\* pull: download.  The bytes are written whatever becomes of the remote file.
Fetch(f) ==
    /\ Transferable(f)
    /\ run.op = "pull"
    /\ Exists(remote[f])
    /\ cur' = [file |-> f, sha |-> remote[f].sha, mt |-> listing[f].mt]
    /\ todo' = todo \ {f}
    /\ pc' = "write"
    /\ UNCHANGED <<shared, mem, run, scanned, change, result>>

\* pull: replace the local file atomically.
Write ==
    /\ pc = "write"
    /\ local' = [local EXCEPT ![cur.file] = cur.sha]
    /\ pc' = "record"
    /\ UNCHANGED <<remote, clock, disk, mem, run, scanned, change, todo, cur, result>>

\* A parent cannot be created, the PUT is refused, or it was applied and its
\* reply was lost, the stat fails or reports another size; the destination of a
\* download cannot be written.  What was moved stays; the index is not told.
TransferUnfinished ==
    /\ pc \in {"put", "verify", "write"}
    /\ result' = [result EXCEPT !.failures = @ \cup {cur.file}]
    /\ pc' = "transfer"
    /\ cur' = NoTransfer
    /\ UNCHANGED <<shared, mem, run, scanned, change, todo>>

\* Mutant: the entry's time is None.
RecordDownloadWithoutTime ==
    /\ pc = "record"
    /\ SetsAndSaves(cur.file, [sha |-> cur.sha, mt |-> Absent])
    /\ pc' = "transfer"
    /\ cur' = NoTransfer
    /\ UNCHANGED <<local, remote, clock, run, scanned, change, todo>>

\* pull: record the downloaded bytes with the last_modified of the listing.
RecordDownload ==
    /\ pc = "record"
    /\ SetsAndSaves(cur.file, [sha |-> cur.sha, mt |-> cur.mt])
    /\ pc' = "transfer"
    /\ cur' = NoTransfer
    /\ UNCHANGED <<local, remote, clock, run, scanned, change, todo>>

-----------------------------------------------------------------------------
(* Mirror mode: after the pass, what is on one side only may be deleted. *)

\* Outcome.deletable: computed from the states, hence from the scan.
Deletable ==
    IF run.op = "push"
    THEN {f \in Files \ Hidden : Exists(listing[f]) /\ f \notin lx}
    ELSE {f \in lx : ~Exists(listing[f])}

\* Mutant: nobody to ask is taken for --yes.
SelectableUnasked(victims) ==
    CASE run.dry \/ run.mirror = "off" -> victims = {}
      [] run.mirror = "terminal" /\ ~run.dry -> victims \subseteq Deletable
      [] OTHER -> victims = Deletable

\* What _mirror.handle lets go: nothing without mirror mode, in a dry run, or
\* with nobody to answer; every candidate with --yes; what the user marks.
Selectable(victims) ==
    CASE run.dry \/ run.mirror \in {"off", "nobody"} -> victims = {}
      [] run.mirror = "terminal" /\ ~run.dry -> victims \subseteq Deletable
      [] OTHER -> victims = Deletable

SelectDeletions(victims) ==
    /\ pc = "transfer"
    /\ todo = {}
    /\ Selectable(victims)
    /\ todo' = victims
    /\ pc' = IF victims = {} THEN "done" ELSE "mirror"
    /\ UNCHANGED <<shared, mem, run, scanned, change, cur, result>>

\* api.delete (a 404 is fine) or unlink of one victim.
Delete(f) ==
    /\ pc = "mirror"
    /\ f \in todo
    /\ IF run.op = "push"
       THEN /\ remote' = [remote EXCEPT ![f] = NoVersion]
            /\ UNCHANGED local
       ELSE /\ local' = [local EXCEPT ![f] = Absent]
            /\ UNCHANGED remote
    /\ cur' = [file |-> f, sha |-> Absent, mt |-> 0]
    /\ todo' = todo \ {f}
    /\ pc' = "unindex"
    /\ UNCHANGED <<clock, disk, mem, run, scanned, change, result>>

DeleteFails(f) ==
    /\ pc = "mirror"
    /\ f \in todo
    /\ result' = [result EXCEPT !.failures = @ \cup {f}]
    /\ todo' = todo \ {f}
    /\ UNCHANGED <<shared, mem, pc, run, scanned, change, cur>>

\* index.remove and index.save, or the exception that skips one or both.
Unindex ==
    /\ pc = "unindex"
    /\ \/ /\ mem' = [mem EXCEPT ![cur.file] = NoVersion]
          /\ disk' = mem'
          /\ result' = [result EXCEPT !.deleted = @ \cup {cur.file}]
       \/ /\ mem' \in {mem, [mem EXCEPT ![cur.file] = NoVersion]}
          /\ UNCHANGED disk
          /\ result' = [result EXCEPT !.failures = @ \cup {cur.file}]
    /\ cur' = NoTransfer
    /\ pc' = "mirror"
    /\ UNCHANGED <<local, remote, clock, run, scanned, change, todo>>

MirrorDone ==
    /\ pc = "mirror"
    /\ todo = {}
    /\ pc' = "done"
    /\ UNCHANGED <<shared, mem, run, scanned, change, todo, cur, result>>

\* The exit code of push.run and pull.run.
ExitCode ==
    IF result.conflicts # {} THEN "EXIT_SAFETY"
    ELSE IF result.failures # {} THEN "EXIT_PARTIAL" ELSE "EXIT_OK"

Exit ==
    /\ pc = "done"
    /\ Ends
    /\ UNCHANGED shared

-----------------------------------------------------------------------------
(* jp rm: a confirmed deletion on the remote. *)

RmRun == [op |-> "rm", dry |-> FALSE, protect |-> FALSE, mirror |-> "off"]

BeginRmFile(f) ==
    /\ pc = "idle"
    /\ mem' = disk
    /\ run' = RmRun
    /\ cur' = [file |-> f, sha |-> Absent, mt |-> 0]
    /\ pc' = "rmfile"
    /\ UNCHANGED <<shared, scanned, change, todo, result>>

\* The remote path is composed from the name as typed: for a dotfile that is
\* not the alias it is stored under, so the delete finds nothing (a 404).
RmFile ==
    /\ pc = "rmfile"
    /\ remote' = IF cur.file \in Hidden THEN remote
                 ELSE [remote EXCEPT ![cur.file] = NoVersion]
    /\ pc' = "rmlocal"
    /\ UNCHANGED <<local, clock, disk, mem, run, scanned, change, todo, cur, result>>

\* _maybe_delete_local: with --local, unless the unlink fails (a warning).
RmLocal ==
    /\ pc = "rmlocal"
    /\ local' \in {local, [local EXCEPT ![cur.file] = Absent]}
    /\ mem' = [mem EXCEPT ![cur.file] = NoVersion]
    /\ pc' = "rmsave"
    /\ UNCHANGED <<remote, clock, disk, run, scanned, change, todo, cur, result>>

\* A directory: the victims are the files the walk lists under it.
BeginRmDir(victims) ==
    /\ pc = "idle"
    /\ \A f \in victims : Exists(remote[f])
    /\ mem' = disk
    /\ run' = RmRun
    /\ todo' = victims
    /\ pc' = "rmdir"
    /\ UNCHANGED <<shared, scanned, change, cur, result>>

\* One victim, by its wire path; the index key that goes is that path too, so
\* the entry of an aliased dotfile stays.
RmVictim(f) ==
    /\ pc = "rmdir"
    /\ f \in todo
    /\ remote' = [remote EXCEPT ![f] = NoVersion]
    /\ mem' = IF f \in Hidden THEN mem ELSE [mem EXCEPT ![f] = NoVersion]
    /\ todo' = todo \ {f}
    /\ UNCHANGED <<local, clock, disk, pc, run, scanned, change, cur, result>>

RmDirDone ==
    /\ pc = "rmdir"
    /\ todo = {}
    /\ pc' = "rmsave"
    /\ UNCHANGED <<shared, mem, run, scanned, change, todo, cur, result>>

\* Nothing catches an error of `jp rm` either: with it go the removals from the
\* index that were not saved yet.
RmRaises ==
    /\ pc \in {"rmfile", "rmlocal", "rmdir", "rmsave"}
    /\ Ends
    /\ UNCHANGED shared

\* The only index.save of `jp rm`, after every deletion.
RmSave ==
    /\ pc = "rmsave"
    /\ disk' = mem
    /\ Ends
    /\ UNCHANGED <<local, remote, clock>>

-----------------------------------------------------------------------------
Begin ==
    \/ \E args \in {r \in Runs : r.op # "rm"}, poisoned \in SUBSET Files : Scan(args, poisoned)
    \/ \E f \in Files : BeginRmFile(f)
    \/ \E victims \in SUBSET Files : BeginRmDir(victims)

\* What the running command does next when nothing kills it.
Progress ==
    \/ \E f \in Files : \/ Compare(f) \/ Report(f) \/ TransferFails(f) \/ Read(f)
                        \/ Fetch(f) \/ Delete(f) \/ DeleteFails(f) \/ RmVictim(f)
    \/ \E victims \in SUBSET Files : SelectDeletions(victims)
    \/ StartTransfers \/ Put \/ VerifyUpload \/ Write \/ RecordDownload \/ TransferUnfinished
    \/ Unindex \/ MirrorDone \/ Exit
    \/ RmFile \/ RmLocal \/ RmDirDone \/ RmSave
    \/ DiffRaises \/ RmRaises

Edit ==
    \E f \in Files : \/ \E c \in MaybeContent : EditLocal(f, c)
                     \/ \E c \in Content : EditRemote(f, c)
                     \/ RemoveRemote(f)

Next == Edit \/ Begin \/ Progress \/ Killed

Spec == Init /\ [][Next]_vars

\* One process runs the command to its end: every call it makes has a timeout
\* (Config.timeout) and ends in a reply or an error, and a person eventually
\* answers a prompt.
FairSpec == Spec /\ WF_vars(Progress)

-----------------------------------------------------------------------------
(* Properties. *)

\* The promise, for the files scan_local does not leave out.
Tracked == Files \ Ignored
Working == pc \notin {"idle", "done"}
\* The user gave leave to delete: `jp rm` was confirmed, or mirror mode is on and
\* --yes or a terminal answers for it.
MayDelete == run.op = "rm" \/ run.mirror \in {"yes", "terminal"}
Safe == INSTANCE SafeSync WITH
            Files <- Tracked,
            here  <- [f \in Tracked |-> local[f]],
            there <- [f \in Tracked |-> remote[f].sha],
            base  <- [f \in Tracked |-> disk[f].sha],
            mode  <- IF ~Working THEN "idle"
                     ELSE IF pc \in {"mirror", "unindex"} THEN "mirror" ELSE run.op,
            leave <- Working /\ MayDelete

\* Push, pull, mirror and rm keep the promises of docs/security.md as long as
\* nobody edits during a command and every directory can be listed: a copy is
\* overwritten only while it equals the base, the base becomes only what both
\* sides hold, and only files absent from the other side fall to mirror mode.
ImplementsSafeSync == Safe!Spec

\* An index entry's validators never vouch for other bytes: when size and
\* last_modified match, the server still holds the agreed content
\* (_remote_matches_base answers True, so no hash will be asked for).
ValidatorsSound ==
    \A f \in Files : RemoteMatchesBase(disk[f], remote[f]) => disk[f].sha = remote[f].sha

\* EXIT_OK means done: after a push, what the tree holds is on the server or
\* is the agreed content (only the server moved on); after a pull, what the
\* server holds is in the tree or is the agreed content.
ExitOkMeansDone ==
    pc = "done" /\ ~run.dry /\ ExitCode = "EXIT_OK" =>
        \A f \in Tracked \ unread :
            IF run.op = "push"
            THEN local[f] # Absent /\ (f \in Hidden => run.protect) =>
                    local[f] \in {remote[f].sha, disk[f].sha}
            ELSE Exists(remote[f]) => remote[f].sha \in {local[f], disk[f].sha}

\* A file just transferred is at rest: comparing it again, without hashing the
\* server's copy, says UNCHANGED.
TransferredIsSettled ==
    pc = "done" /\ ~run.dry =>
        \A f \in result.transferred :
            /\ RemoteMatchesBase(disk[f], remote[f])
            /\ Classify(local[f], remote[f], disk[f], Absent) = "UNCHANGED"

\* Whatever happens meanwhile: a dry run changes neither side nor the index, no
\* file disappears without the user's leave, and a file in conflict is never
\* overwritten (mirror mode may delete it: see ConflictsAreLeftAlone).
StepIsAsked ==
    Progress =>
        /\ run.dry => UNCHANGED shared
        /\ \A f \in Files : \/ MayDelete
                           \/ /\ local'[f] = Absent => local[f] = Absent
                              /\ Exists(remote[f]) => Exists(remote'[f])
        /\ \A f \in Files : change[f] = "CONFLICT" =>
               /\ local'[f] \in {local[f], Absent}
               /\ remote'[f] \in {remote[f], NoVersion}

NothingUnasked == [][StepIsAsked]_vars

\* Every command ends, whatever fails and whoever edits.
EveryCommandEnds == pc # "idle" ~> pc = "idle"

-----------------------------------------------------------------------------
(* A statement of the repository that the code does not keep. *)

\* README.md:318 "Conflicts (both sides changed) are *never* deleted or
\* overwritten".
ConflictsAreLeftAlone ==
    [][Progress => \A f \in Files :
         change[f] = "CONFLICT" => UNCHANGED <<local[f], remote[f]>>]_vars
=============================================================================
