------------------------------ MODULE LiveMount ------------------------------
(***************************************************************************)
(* The life of jp live (src/jp/commands/live.py, mount/os_mount.py,        *)
(* mount/live_state.py): a process takes a kernel, serves WebDAV, mounts   *)
(* the server under the folder ./<leaf>, writes a record of itself, and    *)
(* undoes all of it in finally clauses when a signal ends it.  Several     *)
(* processes may want the same folder; jp live unmount finds one by its    *)
(* record and signals it; signals may come at any step, also twice.        *)
(***************************************************************************)
EXTENDS Integers, Sequences, FiniteSets, SequencesExt

CONSTANTS
    Procs,         \* jp live processes started in one folder, for one leaf
    Nobody,
    Platforms,     \* "darwin", "linux", "win"
    Letters,       \* the free drive letters, in their order
    Coders,        \* those with --code
    Pointers,      \* those that may have --mount POINT, for the same folder
    MaxEvents      \* bound: signals, unmount commands and edits of the folder

ASSUME MountAssumption ==
    /\ IsFiniteSet(Procs) /\ Nobody \notin Procs
    /\ Platforms \subseteq {"darwin", "linux", "win"}
    /\ Letters \subseteq 1..26
    /\ Coders \subseteq Procs /\ Pointers \subseteq Procs /\ MaxEvents \in Nat

VARIABLES
    platform,     \* sys.platform
    remoteEmpty,  \* is the remote folder empty?
    spot,         \* what is at ./<leaf>
    mounts,       \* the mounts, the newest first: whose server, at which letter
    records,      \* the record files: for which path, and whose pid
    codeFile,     \* whose <leaf>.code-workspace there is
    proc,         \* the processes
    unmounter,    \* jp live unmount: the record it has found; was the process gone already?
    stray,        \* has an unrelated process been signalled?
    events        \* how many of the bounded events there were

files == <<spot, mounts, records, codeFile>>
world == <<platform, remoteEmpty>>
vars == <<world, files, proc, unmounter, stray, events>>

Spot(kind, of) == [kind |-> kind, of |-> of]
Absent == Spot("absent", Nobody)
UserKinds == {"file", "full", "foreign"}
Dirs == {"empty", "full"}

\* What os.path.realpath may answer: the folder, where a symlink of the user
\* points, the root of a mounted server, a drive letter that is none.
Path(name, of, letter) == [name |-> name, of |-> of, letter |-> letter]
Folder == Path("folder", Nobody, 0)
Elsewhere == Path("elsewhere", Nobody, 0)
NoPath == Path("none", Nobody, 0)
Paths == [name: {"folder", "elsewhere", "server", "drive", "none"},
          of: Procs \cup {Nobody}, letter: Letters \cup {0}]

Ending == {"unrecord", "unmount", "cleanup", "stop", "release"}
Mounting == {"prepare", "attach", "undo", "link"}
Running == {"code", "record", "handler", "loop"}
Steps == {"idle", "gone"} \cup Mounting \cup Running \cup Ending

Process ==
    [step: Steps, explicit: BOOLEAN, handle: BOOLEAN, link: BOOLEAN, drive: Letters \cup {0},
     wrote: BOOLEAN, handler: BOOLEAN, kernel: BOOLEAN,
     at: Paths,          \* recorded: the path it has a record for, if it has one
     lost: BOOLEAN,      \* its folder was another path when the record was to go
     blind: BOOLEAN,     \* it looked at another's mount instead of the folder
     refused: BOOLEAN,   \* MountError while its mount stayed
     tidy: BOOLEAN]      \* no call has failed, no signal but a handled one in the loop

TypeOK ==
    /\ platform \in Platforms /\ remoteEmpty \in BOOLEAN
    /\ spot \in [kind: {"absent", "empty", "link"} \cup UserKinds, of: Procs \cup {Nobody}]
    /\ mounts \in Seq([of: Procs, letter: Letters \cup {0}])
    /\ \A i, j \in DOMAIN mounts : i # j => mounts[i].of # mounts[j].of
    /\ records \subseteq [at: Paths, pid: Procs]
    /\ \A r, s \in records : r.at = s.at => r = s
    /\ codeFile \in Procs \cup {Nobody}
    /\ proc \in [Procs -> Process]
    /\ unmounter \in [of: Procs \cup {Nobody}, at: Paths, stale: BOOLEAN]
    /\ stray \in BOOLEAN
    /\ events \in 0..MaxEvents

NewProcess ==
    [step |-> "idle", explicit |-> FALSE, handle |-> FALSE, link |-> FALSE,
     drive |-> 0, wrote |-> FALSE, handler |-> FALSE, kernel |-> FALSE, at |-> NoPath,
     lost |-> FALSE, blind |-> FALSE, refused |-> FALSE, tidy |-> TRUE]

NotFound == [of |-> Nobody, at |-> NoPath, stale |-> FALSE]

Init ==
    /\ platform \in Platforms /\ remoteEmpty \in {TRUE, (platform # "darwin")}
    /\ spot \in {Absent, Spot("empty", Nobody), Spot("full", Nobody)}
    /\ mounts = <<>> /\ records = {}
    /\ codeFile = Nobody
    /\ proc = [p \in Procs |-> NewProcess]
    /\ unmounter = NotFound /\ stray = FALSE
    /\ events = 0

At(p, step) == proc[p].step = step
Alive(p) == proc[p].step \notin {"idle", "gone"}
Becomes(p, process) == proc' = [proc EXCEPT ![p] = process]
Goes(p, step) == Becomes(p, [proc[p] EXCEPT !.step = step])

-----------------------------------------------------------------------------
(* From the command line to the mount.                                     *)

\* _confirm_writable: a flag or a saved default decides, or the user is asked,
\* who may abort; without a terminal it is refused.
ConfirmWritable == {"prepare", "release"}

\* connect_live gives a kernel (what it made is deleted when it raises).
Start(p) ==
    /\ At(p, "idle")
    /\ \E explicit \in BOOLEAN, step \in ConfirmWritable :
           /\ explicit => p \in Pointers
           /\ Becomes(p, [proc[p] EXCEPT !.step = step, !.kernel = TRUE, !.explicit = explicit])
    /\ UNCHANGED <<world, files, unmounter, stray, events>>

\* What iterdir shows of a folder that is mounted on: the remote one, or an
\* error when the server is gone; never what is underneath.
LooksEmpty == Alive(Head(mounts).of) /\ remoteEmpty

FreeLetters == Letters \ {mounts[i].letter : i \in DOMAIN mounts}

\* Mutant: a folder with files in it is taken too.
PrepareAnyDir(p) ==
    /\ At(p, "prepare")
    /\ Goes(p, "attach")
    /\ spot' = IF spot = Absent THEN Spot("empty", Nobody) ELSE spot
    /\ UNCHANGED <<world, mounts, records, codeFile, unmounter, stray, events>>
\* The server starts; for an automatic handle _prepare_dir_target (macOS) makes
\* the folder, takes an empty one, or refuses, and a letter is chosen (Windows).
Prepare(p) ==
    LET checked == platform = "darwin" /\ ~proc[p].explicit
        lettered == platform = "win" /\ ~proc[p].explicit
        ok == /\ checked => \/ spot = Absent
                            \/ IF mounts = <<>> THEN spot.kind = "empty" ELSE LooksEmpty
              /\ lettered => FreeLetters # {}
    IN  /\ At(p, "prepare")
        /\ spot' = IF checked /\ spot = Absent THEN Spot("empty", Nobody) ELSE spot
        /\ Becomes(p, [proc[p] EXCEPT !.step = IF ok THEN "attach" ELSE "unrecord",
                                      !.drive = IF lettered /\ ok THEN Min(FreeLetters) ELSE 0,
                                      !.blind = checked /\ mounts # <<>>])
        /\ UNCHANGED <<world, mounts, records, codeFile, unmounter, stray, events>>

\* net use takes the last free letter for "*", whatever letter was chosen.
Letter == IF platform = "win" THEN Max(FreeLetters) ELSE 0
CanMount ==
    CASE platform = "darwin" -> spot.kind \in Dirs
      [] platform = "linux" -> TRUE
      [] OTHER -> FreeLetters # {}

\* Where MountError leads: an automatic handle on macOS undoes its folder.
MountFails(p) == IF platform = "darwin" /\ ~proc[p].explicit THEN "undo" ELSE "unrecord"
MountsWith(p) == <<[of |-> p, letter |-> Letter]>> \o mounts

\* Mutant: a mount that timed out is tried again.
MountRetried(p) ==
    /\ At(p, "attach") /\ CanMount
    /\ mounts' = MountsWith(p)
    /\ \/ UNCHANGED proc
       \/ Becomes(p, [proc[p] EXCEPT !.step = "code", !.handle = TRUE])
    /\ UNCHANGED <<world, spot, records, codeFile, unmounter, stray, events>>
\* mount: the tool mounts, or fails, or is killed by its timeout when it has
\* mounted already; the last two raise MountError.
Mount(p) ==
    /\ At(p, "attach")
    /\ \/ /\ CanMount
          /\ mounts' = MountsWith(p)
          /\ IF platform = "linux" /\ ~proc[p].explicit THEN Goes(p, "link")
             ELSE Becomes(p, [proc[p] EXCEPT !.step = "code", !.handle = TRUE])
       \/ UNCHANGED mounts /\ Goes(p, MountFails(p))
       \/ /\ CanMount
          /\ mounts' = MountsWith(p)
          /\ Becomes(p, [proc[p] EXCEPT !.step = MountFails(p), !.tidy = FALSE])
    /\ UNCHANGED <<world, spot, records, codeFile, unmounter, stray, events>>

\* _rmdir_if_empty: only an empty folder that nothing is mounted on goes.
RmdirIfEmpty == spot' = IF mounts = <<>> /\ spot.kind = "empty" THEN Absent ELSE spot

UndoDir(p) ==
    /\ At(p, "undo")
    /\ RmdirIfEmpty
    /\ Goes(p, "unrecord")
    /\ UNCHANGED <<world, mounts, records, codeFile, unmounter, stray, events>>

\* The mounts without the one of those numbers, if there is one.
Without(found) == IF found = {} THEN mounts ELSE RemoveAt(mounts, CHOOSE i \in found : TRUE)
MountsWithout(p) == Without({i \in DOMAIN mounts : mounts[i].of = p})

\* On Linux a symlink points to the mount.  What is there already is refused
\* with a MountError, which is no OSError: the mount stays.
MakeLink(p) ==
    /\ At(p, "link")
    /\ \/ /\ spot = Absent
          /\ spot' = Spot("link", p)
          /\ Becomes(p, [proc[p] EXCEPT !.step = "code", !.handle = TRUE, !.link = TRUE])
          /\ UNCHANGED mounts
       \/ /\ spot # Absent
          /\ Becomes(p, [proc[p] EXCEPT !.step = "unrecord", !.refused = TRUE])
          /\ UNCHANGED <<spot, mounts>>
       \/ /\ spot = Absent
          /\ mounts' = MountsWithout(p)
          /\ Goes(p, "unrecord")
          /\ UNCHANGED spot
    /\ UNCHANGED <<world, records, codeFile, unmounter, stray, events>>

-----------------------------------------------------------------------------
(* The mount is there.                                                     *)

\* _open_in_code, with --code.
OpenInCode(p) ==
    /\ At(p, "code")
    /\ codeFile' = IF p \in Coders THEN p ELSE codeFile
    /\ Becomes(p, [proc[p] EXCEPT !.step = "record", !.wrote = p \in Coders])
    /\ UNCHANGED <<world, spot, mounts, records, unmounter, stray, events>>

\* live_state._resolve: on Linux the folder is a link to a server's root; a
\* letter that has been mapped stands for the server too.
MappedTo(letter) == {mounts[i].of : i \in {j \in DOMAIN mounts : mounts[j].letter = letter}}
Resolve(path) ==
    CASE path = Folder /\ spot.kind = "link" -> Path("server", spot.of, 0)
      [] path = Folder /\ spot.kind = "foreign" -> Elsewhere
      [] path.name = "drive" /\ MappedTo(path.letter) # {} ->
             Path("server", CHOOSE q \in MappedTo(path.letter) : TRUE, 0)
      [] OTHER -> path

\* handle.display: the folder, but the letter that was chosen on Windows.
Display(p) ==
    IF platform = "win" /\ ~proc[p].explicit THEN Path("drive", Nobody, proc[p].drive) ELSE Folder

\* live_state.remove.
RecordsWithout(path) == {r \in records : r.at # Resolve(path)}

\* live_state.record: there is one record for each path, and the path is the one
\* that the folder resolves to now.  A failure is swallowed.
Record(p) ==
    /\ At(p, "record")
    /\ \/ /\ records' = RecordsWithout(Display(p)) \cup {[at |-> Resolve(Display(p)), pid |-> p]}
          /\ Becomes(p, [proc[p] EXCEPT !.step = "handler", !.at = Resolve(Display(p))])
       \/ Goes(p, "handler") /\ UNCHANGED records
    /\ UNCHANGED <<world, spot, mounts, codeFile, unmounter, stray, events>>

InstallSignalStop(p) ==
    /\ At(p, "handler")
    /\ Becomes(p, [proc[p] EXCEPT !.step = "loop", !.handler = TRUE])
    /\ UNCHANGED <<world, files, unmounter, stray, events>>

\* cached.ping raises: the exception goes through the finally clauses.
PingFails(p) ==
    /\ At(p, "loop")
    /\ Goes(p, "unrecord")
    /\ UNCHANGED <<world, files, unmounter, stray, events>>

-----------------------------------------------------------------------------
(* The finally clauses.                                                    *)

\* Mutant: a record that is not the only one stays.
UnrecordAlone(p) ==
    LET path == Resolve(Display(p))
        removes == proc[p].at # NoPath /\ proc[p].handle
    IN  /\ At(p, "unrecord")
        /\ records' = IF removes /\ Cardinality(records) = 1 THEN RecordsWithout(Display(p)) ELSE records
        /\ Becomes(p, [proc[p] EXCEPT !.step = "unmount", !.lost = @ \/ (removes /\ proc[p].at # path)])
        /\ UNCHANGED <<world, spot, mounts, codeFile, unmounter, stray, events>>
\* The record that goes is the one of the path that the folder resolves to now:
\* it may be another's, and its own stay.
Unrecord(p) ==
    LET path == Resolve(Display(p))
        removes == proc[p].at # NoPath /\ proc[p].handle
    IN  /\ At(p, "unrecord")
        /\ records' = IF removes THEN RecordsWithout(Display(p)) ELSE records
        /\ Becomes(p, [proc[p] EXCEPT !.step = "unmount", !.lost = @ \/ (removes /\ proc[p].at # path)])
        /\ UNCHANGED <<world, spot, mounts, codeFile, unmounter, stray, events>>

\* What is unmounted: by folder (whatever is on top), by server, by letter.
Unmounted(p) ==
    CASE platform = "darwin" -> IF mounts = <<>> THEN <<>> ELSE Tail(mounts)
      [] platform = "linux" -> MountsWithout(p)
      [] OTHER -> Without({i \in DOMAIN mounts : mounts[i].letter = proc[p].drive})

\* handle.unmount; the tool may fail, and nobody is told.
Unmount(p) ==
    /\ At(p, "unmount")
    /\ \/ /\ mounts' = IF proc[p].handle THEN Unmounted(p) ELSE mounts
          /\ Goes(p, "cleanup")
       \/ /\ proc[p].handle
          /\ Becomes(p, [proc[p] EXCEPT !.step = "cleanup", !.tidy = FALSE])
          /\ UNCHANGED mounts
    /\ UNCHANGED <<world, spot, records, codeFile, unmounter, stray, events>>

\* Mutant: whatever is at the folder's name goes.
CleanupPath(p) ==
    /\ At(p, "cleanup")
    /\ spot' = IF proc[p].handle /\ mounts = <<>> THEN Absent ELSE spot
    /\ Goes(p, "stop")
    /\ UNCHANGED <<world, mounts, records, codeFile, unmounter, stray, events>>
\* handle.cleanup: an empty folder, or whatever symlink is where one was made.
Cleanup(p) ==
    /\ At(p, "cleanup")
    /\ IF proc[p].handle /\ ~proc[p].explicit /\ platform = "darwin" THEN RmdirIfEmpty
       ELSE spot' = IF proc[p].link /\ spot.kind \in {"link", "foreign"} THEN Absent ELSE spot
    /\ Goes(p, "stop")
    /\ UNCHANGED <<world, mounts, records, codeFile, unmounter, stray, events>>

\* The workspace file goes and the server stops.
UnlinkAndStop(p) ==
    /\ At(p, "stop")
    /\ codeFile' = IF proc[p].wrote THEN Nobody ELSE codeFile
    /\ Goes(p, "release")
    /\ UNCHANGED <<world, spot, mounts, records, unmounter, stray, events>>

\* What is left of a process: how it ended, and for its kernel nobody cares.
Ended(p, kernel, tidy) ==
    [NewProcess EXCEPT !.step = "gone", !.explicit = proc[p].explicit, !.handle = proc[p].handle,
                       !.lost = proc[p].lost, !.blind = proc[p].blind,
                       !.refused = proc[p].refused, !.kernel = kernel, !.tidy = tidy]

Release(p) ==
    /\ At(p, "release")
    /\ Becomes(p, Ended(p, FALSE, proc[p].tidy))
    /\ UNCHANGED <<world, files, unmounter, stray, events>>

-----------------------------------------------------------------------------
(* Signals.                                                                *)

\* Mutant: nothing but the kernel is undone.
AfterInterruptRelease(step) == "release"
\* Where KeyboardInterrupt leads: contextlib.suppress(Exception) lets it pass.
AfterInterrupt(step) == IF step \in Mounting \cup Running THEN "unrecord" ELSE "release"

Killed(p) == Ended(p, proc[p].kernel, FALSE)
Interrupted(p) ==
    IF At(p, "release") THEN Killed(p)
    ELSE [proc[p] EXCEPT !.step = AfterInterrupt(@), !.tidy = @ /\ At(p, "loop")]
\* os.kill(pid, SIGTERM), before and after _install_signal_stop; on Windows that
\* is TerminateProcess, which no handler catches.
Terminated(p) == IF proc[p].handler /\ platform # "win" THEN Interrupted(p) ELSE Killed(p)

CtrlC(p) ==
    /\ Alive(p) /\ events < MaxEvents
    /\ events' = events + 1
    /\ Becomes(p, Interrupted(p))
    /\ UNCHANGED <<world, files, unmounter, stray>>

\* SIGKILL, or the machine goes down.
Kill(p) ==
    /\ Alive(p) /\ events < MaxEvents
    /\ events' = events + 1
    /\ Becomes(p, Killed(p))
    /\ UNCHANGED <<world, files, unmounter, stray>>

\* find_for_path, run in any directory.
FindRecord ==
    /\ unmounter = NotFound /\ events < MaxEvents
    /\ events' = events + 1
    /\ \E r \in records : unmounter' = [of |-> r.pid, at |-> r.at, stale |-> ~Alive(r.pid)]
    /\ UNCHANGED <<world, files, proc, stray>>

\* os.kill: a pid that was free when it was found may be another's by now; if
\* there is no such process the record goes, but on Windows, where the error is
\* not ProcessLookupError.
SignalOwner ==
    LET p == unmounter.of
    IN  /\ unmounter # NotFound
        /\ unmounter' = NotFound
        /\ \/ Alive(p) /\ Becomes(p, Terminated(p)) /\ UNCHANGED <<records, stray>>
           \/ /\ ~Alive(p)
              /\ records' = IF platform = "win" THEN records ELSE RecordsWithout(unmounter.at)
              /\ UNCHANGED <<proc, stray>>
           \/ unmounter.stale /\ stray' = TRUE /\ UNCHANGED <<proc, records>>
        /\ UNCHANGED <<world, spot, mounts, codeFile, events>>

\* The user and the folder: on Linux at any time, on macOS while nothing is
\* mounted there and no process is between its check and its mount.
UserEdits ==
    /\ events < MaxEvents
    /\ platform = "darwin" => mounts = <<>> /\ \A p \in Procs : ~At(p, "attach")
    /\ events' = events + 1
    /\ spot' \in {Absent} \cup {Spot(k, Nobody) : k \in UserKinds}
    /\ spot' # spot
    /\ UNCHANGED <<world, mounts, records, codeFile, proc, unmounter, stray>>

-----------------------------------------------------------------------------
Ends(p) ==
    \/ Unrecord(p) \/ Unmount(p) \/ Cleanup(p) \/ UnlinkAndStop(p) \/ Release(p)
Begins(p) ==
    \/ Start(p) \/ Prepare(p) \/ Mount(p) \/ UndoDir(p) \/ MakeLink(p)
    \/ OpenInCode(p) \/ Record(p) \/ InstallSignalStop(p)

Next ==
    \/ \E p \in Procs : Begins(p) \/ PingFails(p) \/ Ends(p) \/ CtrlC(p) \/ Kill(p)
    \/ FindRecord \/ SignalOwner \/ UserEdits

Spec == Init /\ [][Next]_vars

-----------------------------------------------------------------------------
(* Properties.                                                             *)

\* No step of any process takes away or replaces the user's file, folder with
\* files or symlink at the name of the mount, whatever was decided before and
\* however the user and other processes come between ("never shadow or delete
\* user data", _prepare_dir_target, _rmdir_if_empty, cleanup) - but for one: a
\* symlink of the user's where a process had made its own goes with that.
UserDataKept ==
    [][spot.kind \in UserKinds /\ spot' # spot =>
           \/ events' = events + 1 /\ UNCHANGED proc
           \/ /\ spot.kind = "foreign" /\ spot' = Absent
              /\ \E p \in Procs : At(p, "cleanup") /\ proc[p].link]_vars

\* No automatic mount on macOS covers files of the user, unless its process
\* looked at another's mount in place of them, and somebody had named the folder
\* with --mount (iterdir shows the mount, not what an explicit one covers).
NothingShadowed ==
    \A i \in DOMAIN mounts :
        (platform = "darwin" /\ ~proc[mounts[i].of].explicit) =>
            \/ spot.kind = "empty"
            \/ proc[mounts[i].of].blind /\ \E q \in Procs : proc[q].explicit

AllEnded == \A p \in Procs : proc[p].step \in {"idle", "gone"}
\* A process that was stopped as it should be: by Ctrl-C in its loop, or by jp
\* live unmount there (but on Windows, where that kills), or that met an error
\* it handles, and whose folder was the same path at both ends of its record.
InOrder(p) == proc[p].tidy /\ ~proc[p].lost
\* When the processes have ended in order, nothing of theirs is left: no mount
\* (but for the letters of Windows), record, folder, link, workspace file or
\* kernel, also when two of them shared the folder and undid each other's mounts
\* and records.
NothingLeftBehind ==
    (AllEnded /\ \A p \in Procs : InOrder(p) /\ ~proc[p].refused) =>
        /\ records = {} /\ codeFile \notin Procs /\ spot.kind # "link"
        /\ platform # "win" => mounts = <<>>
        /\ \A p \in Procs : ~proc[p].kernel
        /\ (/\ platform = "darwin"
            /\ \A p \in Procs : ~proc[p].explicit
            /\ \E p \in Procs : proc[p].handle) => spot.kind # "empty"

\* jp live unmount signals an unrelated process only if some jp live was
\* killed, interrupted during its start or its cleanup, or removed the record of
\* another path than its own: in every other case the record goes before the
\* pid is free.
NoStraySignal == (\A p \in Procs : InOrder(p)) => ~stray
=============================================================================
