# jp, specified

A TLA+ description of the parts of `jp` where order, failure and staleness
matter: the sync engine that moves files between a working tree and a Jupyter
server; the live mount that serves a server's folder as a local one, from the
kernel over the cache and the WebDAV server to the mount itself; the commands
that run a program on the server and show its output; and the credentials they
all use. The modules are checked with TLC on small instances; theorems about them are proved
with TLAPS for every value of the constants. Line numbers below are those of the
sources the modules were written from.

## 1. The system

| Part | State it keeps | Operations | Hard because |
|---|---|---|---|
| Sync engine (`sync.py`) | none between runs; per run: file states, outcome | scan, diff, push, pull | decides on a snapshot, acts later; a call may fail, or succeed with its reply lost; the process may die between transfer and save |
| Index (`index.py`) | `.jp/index.json`: per path the agreed digest and the validators (size, `last_modified`) | set, remove, save | the one memory of "what both sides agreed on"; two-phase with the transfers |
| Sync commands (`commands/push, pull, _mirror, rm, init, clone, status, diff`) | the loaded index | leave to delete, deletions, exit code | deletions decided from an old diff |
| Contents API (`api.py`) | none | list, stat, hash, get, put, delete | an unreadable directory, lost replies |
| Path safety (`paths.py`) | none | validate, normalise, contain, encode, decode | a name passes several of them on its way, each with its own idea of what is inside |
| Ignore rules (`ignore.py`) | none | match | ignored files exist on one side only |
| Agent (`_agent/agentd.py`, `agent_loader.py`) | the files under its root | stat, readdir, read, write, mkdir, rename, unlink, rmdir | runs in a kernel that may die or outlive its client |
| RPC and session (`kernel_conn.py`, `live_session.py`) | request id, pending replies, current socket and kernel | call, reconnect, cleanup | at-least-once requests over several kernels; cleanup beside daemon threads |
| Cache (`vfs_cache.py`, `remote_fs.py`) | blocks, stamps, attributes, listings, byte counter | read, stat, listdir, write-through, invalidate | coherence by mtime while files change on the server |
| WebDAV server (`mount/webdav_server.py`) | one thread per connection; what it has parsed | GET, HEAD, PROPFIND, PUT, DELETE, MKCOL, MOVE, LOCK, UNLOCK, PROPPATCH, OPTIONS | probe and act are two calls; a body not read is the next request |
| Live command, registry, OS mount (`commands/live.py`, `mount/*`) | one record per mount, the mount itself | mount, record, serve, unmount | several processes, signals during start and cleanup |
| run / terminal / kernel (`commands/run.py`, `terminal.py`, `pty.py`, `_ws.py`) | a temporary file, a terminal; frame and marker buffers | upload, connect, pump, scan for the end marker, clean up | cuts anywhere; each call may fail |
| Credentials (`credentials.py`, `commands/login.py`, `credentials_cmd.py`, the menus of `tui.py`) | registry and token files in two scopes | add, rename, remove, link, choose | two files, no transaction; a menu works on what it read before |
| Update notifier (`update_notify.py`) | one cache file | check, announce | two processes, load-modify-save |
| Config, preferences, UI, simulator | small files; none | | not modelled: load/save and presentation |

How they interact: `push`/`pull`/`rm` call the engine, which calls the Contents
API and writes the index. `jp live` starts a kernel over the API, injects the
agent, and stacks KernelConn, RemoteFS, CachingFS and the WebDAV server; the
operating system's WebDAV client calls the last of these from many threads, which
one lock in the cache and one in KernelConn serialise. Contents written through
one stack are seen by the other only as changes on the server.

What makes each part correct: the index vouches only for what is true and a replaced
copy was the agreed one (sync); every answer belongs to its request and requests take
effect in order (RPC); a read is never older than what was already told (cache); an
answer was true at some moment of its request (WebDAV); a deletion was asked for, and a
path is where it says (commands); nothing outlives the command that made it (session,
mount, run); no user file is covered or removed (mount); the screen shows the program's
output and nothing else (run); a credential gives its own token or none, whatever was
cut (credentials).

The full list of components and of hazards, each at its line, is in
`PROJECT.json`.

## 2. Modules

```
SyncDiff       _classify and its short-cuts, as operators
  Sync         workspace, server, index; push, pull, mirror, rm      -> implements SafeSync
    SyncHistory             Sync with what each side held since the command began
    MCSync, MCSyncHistory   TLC instances
    SyncProofs              theorems
SafeSync       what the sync commands promise, abstractly
VfsCache       CachingFS over RemoteFS, beside a changing server
  VfsCacheLog               VfsCache with a log of the changes
  MCVfsCache, MCVfsCacheLog TLC instances
  VfsCacheProofs            theorems
LiveRpc        KernelConn, live_session and the agent over several kernels
  MCLiveRpc                 TLC instance
  LiveRpcProofs             theorems
DavServer      the WebDAV server's connections over the agent's file operations
  MCDavServer               TLC instance
  DavServerProofs           theorems
LiveMount      jp live processes, their mounts, records and signals; jp live unmount
  MCLiveMount               TLC instance
  LiveMountProofs           theorems
RunScanner     the marker scanner, as operators       \
WsReader       frames and messages, as operators       > JpRun   jp run and jp terminal
  MCJpRun                   TLC instance               /
  JpRunProofs               theorems
Paths          the path functions, and the way of a name through the commands
  MCPaths                   TLC instance
  PathsProofs               theorems
Credentials    registry, token files, menus, the choice of a token
  MCCredentials             TLC instance
  CredentialsProofs         theorems
```

`PROJECT.json` maps each definition to its lines. Operators named "Mutant" in a
comment are deliberately wrong variants of the definition that follows them; the
specifications do not use them. They show that a property would notice.

### SyncDiff and Sync

`local` and `remote` are the two sides; a version on the server is its content
and its `last_modified` (`mt`, one fresh number per write - a server whose clock
stands still is outside the model). `disk` is the index file, `mem` the entries
of the running command. Contents are compared by digest, which is the content
itself; `Size` maps contents to sizes so that different contents may have equal
sizes. `pc` says where the command is:

| `pc` | Code | Actions |
|---|---|---|
| `classify` | `diff`: one file at a time against the listing taken at the start | `Scan`, `Compare`, `DiffRaises`, `StartTransfers` |
| `transfer` | the loop of `push` / `pull`: what needs no call; reading the file, getting its bytes | `Report`, `Read`, `Fetch`, `TransferFails` |
| `put`, `write` | `put_file_bytes`; `atomic_write`, with the bytes of the step before | `Put`, `Write`, `TransferUnfinished` |
| `verify`, `record` | post-write stat; `index.set`, `index.save` | `VerifyUpload`, `RecordDownload`, `TransferUnfinished` |
| `mirror`, `unindex` | `_mirror.handle`, its deletions one by one | `SelectDeletions`, `Delete`, `DeleteFails`, `Unindex`, `MirrorDone` |
| `rmfile` .. `rmsave` | `jp rm` of a file and of a directory | `BeginRmFile`, `BeginRmDir`, `RmFile`, `RmLocal`, `RmVictim`, `RmDirDone`, `RmRaises`, `RmSave` |
| `done` | the command's return | `Exit` |

`run.mirror` says whether files may be deleted, and by whose leave: `off` (no
flag, or `--no-mirror`), `yes` (`--yes`), `terminal` (a person picks), `nobody`
(neither, so that nothing is deleted). Between the reading of a file and the
writing of its bytes there are calls over the network, and so edits of either
side. `Killed` ends a command at any step, keeping `disk` and losing `mem`. A call
that fails may have done its work (lost reply): `Put`, `Write` and `Delete` are
followed by failing alternatives. `SyncHistory` adds what each side has held since
the command began (`here`, `there`). `EditLocal`, `EditRemote` and `RemoveRemote`
are other people; `EditsDuringRun` says whether they also act while a command
runs. `ListingCanFail` says whether `_walk_remote` may skip a directory.

`SafeSync` is the promise of docs/security.md and README.md for two copies and a
base: a copy is replaced only while it is the base, the base becomes only what
both sides hold, a file disappears only by consent and, in mirror mode, only if
the other side has none. `Sync` implements it under
`here <- local, there <- remote.sha, base <- disk.sha` for the files the scan
does not ignore, while nobody edits during a run and listings do not fail. Both
conditions are needed, and the runs that drop them show what happens instead.

### VfsCache

Files are an mtime (`id`) and a size in units; a block is `Block` units. `op` is
the call whose thread holds the cache's lock; every round-trip to the server is
a step, and between two steps the server's files change. `at` numbers the change
that a cached answer saw: it is not in the code and serves the properties only,
like `seen`, the last change of a path that a stat returned or an own call made.
mtimes are taken to be distinct for distinct contents, as a file system with
nanosecond times gives them; the cache has nothing else to go by.
`RemoteFS.read` may need two round-trips for a block (`FetchMore`, `FetchEnds`),
so a block itself may be torn, and `at` is that of its older half. `CallFails`
covers both a call that did nothing and a change whose answer was lost: either
way nothing is invalidated.

The one defence of a cached block is the stamp of its path, the mtime a later stat is
compared with. Where it fails (real defects, section 6) the path is in `unguarded`, and
`ReadsAreFresh` leaves it out until its blocks are dropped: a block was received while
the path had no stamp (`Unguard`), or an own move that was made, but whose answer was
lost, brought back the very mtime that the stamp holds while blocks are cached
(`CallFails`). `Size` adds up the lengths of the blocks at some places, `Without` is the
cache less the blocks at some places, `Moved` with one of them used last. `mkdir` and
`rmdir`, and the prefix invalidation of directories, are not modelled: the paths are
files of one directory.

### LiveRpc

One call at a time (`call`), because KernelConn's lock is held for the whole
request/reply cycle, retries included. A kernel is a queue of requests that it executes
in order; its replies reach the client only over the current socket. Timeouts are not
timed: `AttemptFails` may happen whenever no answer has been taken, because the poll
budget depends on how slow the kernel is. `main` is the thread that ends the session;
the workers are daemon threads (`Exit` stops them wherever they are). The socket has no
timeout, so a send may not return while the peer does not read (`PeerStopsReading`,
`stuck`), until it reads again or the connection breaks (`SendGoesOn`); the lock is held
meanwhile. `slipped` remembers that a deletion failed silently or that the answer to a
kernel's creation was lost; ordering and the one-kernel property are claimed up to then
and are false afterwards.

### DavServer

One record per connection: where the client is (`idle`, `waiting`, `gone`), where
the thread is (`loop`, parsing; `stat`, `list`, `act`, between two calls;
`closed`), and the bytes between them, counted in whole heads and bodies. The
client is one of an operating system: it waits for the answer to a request before
it sends the next, reads as many bytes as `Content-Length` says, and may go away
at any moment; a writer sends what writes only after `Allow` told it that it may.
A body comes with its length or without (`sized`: in chunks, or after a
`Content-Length` that is no number); `BodyVerbs` and `UnsizedVerbs` say with which
verbs the client sends one.

| Action | Code |
|---|---|
| `ParseRequest` | the head and, for the verbs that read it, the body; the secret; the answers that need no call (`AtOnce`) |
| `Stat` | the first call of GET, HEAD, PROPFIND, PUT, DELETE, MOVE |
| `Act` | the second: read, readdir, write, unlink, rmdir, rename; MKCOL's only one |
| `CallFails`, `Close` | an exception no handler expects closes the connection |
| `ReplyLost` | KernelConn's retry: the agent has executed the call, and will again |
| `Beside` | other writers on the server |

The tree is one directory, a file in it and a path beside it; `Write`, `Mkdir`,
`Rmdir`, `Unlink` and `RenameTo` are the agent's operations with its error codes,
in the agent's order of checks. `seen`, `sizes` and `did` are histories of the
current request for the properties. Under the server is RemoteFS without the
cache; with `CachingFS` an answer may be one TTL older (that is
`AnswersAreRecent` of VfsCache). To keep the state small, requests that need no
call are sent while other connections are quiet - they touch nothing shared - and
folders with files in them are not moved.

### LiveMount

One record per process; `step` is the statement it is at, `Ending` the statements of the
finally clauses. `spot` is what is at `./<leaf>`, `mounts` the mounts with the newest
first, `records` the registry: for each path a pid. A record is kept for the path that
the folder is when it is written, and removed for the path it is then (`Resolve`): `at`
is the one the process has written, `lost` that the other is a different one - it may be
another process's. A folder that is mounted on shows the newest mount and not what is
under it, which a process that looks at it takes for the folder (`blind`). The three
systems differ as the code does: macOS mounts on the folder, Linux mounts elsewhere and
links, Windows takes a letter, and there a signal of `jp live unmount` kills, and a pid
that is gone leaves its record in place. `CtrlC`, `Kill`, `FindRecord` and `UserEdits`
may happen between any two steps, `MaxEvents` of them; `FindRecord` and `SignalOwner`
are `jp live unmount`, two steps because the process may end between them. `Pointers`
are the processes that may have named the folder with `--mount`.

Assumed: on macOS the user does not edit the folder between the check and the
mount, nor through the mount; an interrupt while the mount tool runs leaves no
mount; a symlink of an earlier crash does not happen to name the same port; a
pid is reused only if its process was gone when the record was found (a pid that is
freed and taken in the moment between is not modelled).

### RunScanner, WsReader and JpRun

A byte is a symbol; a frame is two cells on the wire, a message two halves, so
that a frame can be cut and a message fragmented. `Feed` is `RunScanner.feed`,
`ReadMessages` is `read_messages` with `parse_frame`. JpRun's server writes the
program's output between the markers in pieces of `Chunks` sizes, each framed in
every way, arriving a part at a time; the client is `run` with its nested finally
clauses, every call of which may fail, done or not. The random token makes the
marker: no text of the program has it after an ESC (`TokenAssumption`). `Bytes` are
the symbols: those of the markers, and a few that stand for any others.

`link` is how the connection has ended, if it has: `cut`, so that a read finds its
end; `failing`, so that reads raise, which `_drain` passes over without closing and
the pump tries again; `silent`, a peer that is gone without a word, which a socket
without a timeout never notices.

### Credentials

`registry` and `files` are what is on disk in the two scopes; `cmd` is a command
between two of its writes, `menu` the open manager or picker with the rows it
read. `CutShort` ends a command between any two writes (a crash, or an exception
of a write); suppressed failures (`Unlink`, the move in `Rename`) are
alternatives of their steps. `LoadToken` is the order of `load_token`. The
ghosts say what was meant: `meant` (the tokens stored under a name), `suspect`
(what a cut or failed command was about), `shared` (token files that two names
have had), `replaced`, `stale`, `chosen`. `Fold` is what the file system of a scope
makes of a name: where case does not count, `lab.token` and `Lab.token` are one
file. A path that the user registers is a full one (`UserFile`) or a relative one
(`TypedFile`), kept as typed and looked up by each command from its own directory
(`Read`), where a file of that name may be missing or be another
(`Elsewhere`). The updates of two commands do not overlap, and a registered file
lies outside the managed folders. Names are numbers, which is the order in which
lists and menus show them.

### Paths

A path is the sequence of its segments, whether the text had a backslash (`back`) beside
it; a segment is its leading dots, the rest, and its marks, which are what `strip` and
NFC take away - blanks before and after it, a decomposed form - so that an alias
`__jpdot__<k>_<rest>` and what it decodes to are different values of one record. The
state is one name on its way: `Validate`, then `Name`, `Compose` and `Send` for a file
that is pushed or a path given to `jp rm`, `List` and `ScanRemote` for an entry of the
server, `Pull` for the file that is written. `NormalizeRel`, `ValidatePrefix`,
`AssertWithinPrefix`, `SafeLocalDest` and the two encodings are those of the code. The
reference they are compared with normalises nothing: `NeverLeaves` and `Place` follow a
path and count what is entered and left. A file of the tree may also be pulled in
another tree, where its first directory is a symlink (`link`). `Plain` is what the
functions that convert make of a path first (`Trim` and `Nfc`); `AssertWithinPrefix`
trims without NFC, and what is sent is the path before that. Push reads a file under its
key: if that is not its name, the file is `missing`. `DeleteListed` is `jp rm` of a
directory, which deletes what is listed below it. Blanks inside a segment mean nothing,
the blanks of a prefix are at its ends (`PrefixAssumption`), and the reserved, shared
and drive names are one each. A segment is one of these names only if nothing is before
or after it (`IsOneOf`): the alias of `shared` is not `shared`. A name is below the
prefix by whole segments, as the slash that the code puts behind the prefix makes it.

## 3. Runs

| Run | Instance | Shows |
|---|---|---|
| `sync_quiet` | two files, one of them a dotfile; two contents of equal size; two remote writes beyond the initial ones; no edits during a run | `TypeOK`, `ValidatorsSound`, `ExitOkMeansDone`, `TransferredIsSettled`, and that `Sync` implements `SafeSync` |
| `sync_race` | one file, edits at any moment, unreadable directories | `RecordsWhatBothHeld`: a base that a command writes was on both sides while it ran, even so; `NothingUnasked`; `EveryCommandEnds` |
| `vfs_cache` | two files of 1 or 4 units in blocks of 2 with room for 3 units, read-ahead of one; requests of two units at offsets 0 and 1; two changes, own or others'; a clock of two instants; no listings (`BlockSpec`) | `ReadsAreFresh`, `ReadsAreExact`, `Accounting` |
| `vfs_ttl` | one file of 1 or 3 units, two changes, a clock and a log | `AnswersAreRecent`, `EveryCallReturns` |
| `rpc` | two calls, three kernels, one reconnect per call | `AnswersAreOwn`, `ExecutedInOrder`, `OneKernel`, `EveryCallReturns` |
| `dav` | two connections, two requests, every verb, two sizes; one change beside, lost reply or client that leaves | `AnswersAreOwn`, `AnswerWasTrue`, `NobodyWaitsInVain` |
| `mount` | two processes on one folder, one with `--code`, one perhaps with `--mount`; three systems, two letters, two events | `UserDataKept`, `NothingShadowed`, `NothingLeftBehind`, `NoStraySignal` |
| `stream` | two outputs that look like markers, both commands, pieces of 3 and 20 symbols, 8 cells on the wire, two names | `ScreenIsOutput`, `AllShownWhenHeld`, `NothingLeft`, `RunEnds` |
| `creds` | two names that differ in case alone, which counts in the workspace and not in `~/.config`, two tokens, one site, two scopes, a legacy token file, three commands with a menu open or not | `OwnTokenOrNone`, `OthersUnharmed`, `MenuShowsRegistry`, `ChoiceIsUsed` |
| `paths` | 21 segments, three to a path, eleven prefixes, three origins, with and without a backslash | `AcceptedIffInside`, `SameNameBack` |

Two more runs end in a counterexample, each a statement of the repository that
the code does not keep (quotes in `PROJECT.json`, "findings"):

- `sync_mirror_conflict`: mirror mode deletes a file reported as a conflict
  (README.md:318 says never).
- `dav_desync`: the body of a PROPFIND, or of a PUT in chunks (answered 411), is
  parsed as the next request.

Why the bounds are enough. Sync handles one file at a time and files interact only
through the flags of a run and the save of the whole index, which two files exercise; a
base, an equal-sized other content and absence are three distinct situations per side,
and `MaxMtime = 3` allows a remote write before, and one after, an upload. Blocks of two
units make requests at the edge of, and across blocks; sizes 1 and 4 end inside a block
and at a block's edge (and 1 and 3, in `vfs_ttl`, inside a first and a second one), and
room for three units forces evictions while a read is under way. One reconnect per call
and two calls are what it takes for a late reply, or a late execution, of the first call
to meet the second; the third kernel is for the second call's own reconnect. `dav`: a
handler makes at most two calls, so one request of another connection, or one change,
between them is every interference with one request; the second request of the same
connection is what meets what the first left. `mount`: two processes undo each other's
mounts, a second signal meets the cleanup of the first, and a kill followed by an
unmount meets a stale record; one that names the folder covers the user's files, which
the other then cannot see. `stream`: a piece of 3 symbols ends inside every marker at
some offset, one of 20 holds both markers' neighbourhoods; 8 cells hold a fragmented
message with a ping between, and the next one's beginning. `creds`: a login, a rename
and a login of the old name are what it takes to meet a file left by a cut; of the two
scopes one gives two names one file and the other does not. `paths`: three segments
enter, leave and enter again, below a prefix that does so too; the theorems hold for
every length. `NormalizeRel` without its check for `..` would still let nothing through,
as `AssertWithinPrefix` stands behind it; a listing has only the latter between it and
the keys.

Symmetry is used only where two files, connections or tokens play the same part
(`vfs_cache`, `dav`, `creds`; no temporal property). Deadlock is checked for the
sync runs; the others stop when their bounded changes, calls or commands are used
up, or the run is over.

## 4. Fairness

- `EveryCommandEnds` assumes `WF(Progress)`: one process runs the command, every
  HTTP call has a timeout (`Config.timeout`), a person answers a prompt.
- `EveryCallReturns` of VfsCache assumes `WF(Continue)`: a round-trip ends in an
  answer or in KernelConn's error. Failing is not part of `Continue`, so the
  property is not bought by the failure that may always happen.
- `EveryCallReturns` of LiveRpc assumes `WF(Worker)`. Kernels, sockets and the user
  owe nothing: a kernel may never answer, and the poll budget, a bounded loop of the
  code, is what ends the attempt. A send on a socket whose peer does not read is not
  assumed to return, as the socket has no timeout (`_ws.py:252`, 289): the property
  excepts the runs in which that happens for ever, or again and again (`[]<>stuck`).
- `RunEnds` of JpRun assumes that the shell's program ends and writes what it
  has, and `WF` on the client's steps: every HTTP call has a timeout, and the pump is
  woken by what arrives and by the end of the stream. Breaking the connection,
  pressing a key or the end of the input are not assumed. On a failing connection the
  pump may read errors for ever, and on a silent one neither its read nor the send of
  the CLOSE is assumed to end: the property excepts the runs that stay there
  (`NotTold`).
- DavServer, LiveMount, Paths and Credentials need no fairness: `NobodyWaitsInVain` says as an
  invariant that whoever waits has something coming.

## 5. Proofs

`SyncProofs` holds the theorems, for any sets of files and contents and any
bound on writes:

- `TypeCorrect`: `TypeOK`, with `CurIsFile` (the transfer in flight names a file).
- `ValidatorsAreSound`, if nobody edits during a run. `ValidatorsSound` alone is
  not inductive: a step of a run copies `mem`, or the transfer in flight, into the
  index. `ValidatorsInv` adds that every recorded time is at most the server's
  clock (`Times`: so a later write cannot have it), that both indexes vouch only
  for true content (`Vouched`), and what is known of the transfer in flight
  (`InFlight`).
- `SyncImplementsSafeSync`, if nobody edits during a run and listings do not
  fail: initial states map to initial states and every step to a SafeSync step or
  a stutter. `SafeInv` adds to `ValidatorsInv` where control is (`Control`), that
  the snapshot still is what the server and the tree hold for files not yet moved
  (`Views`), that each decision is still the right one (`Decided`), that a
  transfer in flight made both sides equal (`Landed`), that memory and disk differ
  only where forgetting is safe (`MemSafe`), and that the files about to be
  deleted are still one-sided (`Victims`).
- `NothingIsUnasked`, without any assumption: `Asked` says that the mirror steps
  are reached only with leave and outside dry runs, and that no transfer in flight
  is of a file reported as a conflict. That what a push or pull replaces is the
  version it was compared with is no part of it (section 6).
- `ExitOkIsDone` and `TransferredSettles`, if nobody edits during a run, while any
  call and any listing may fail. What a run reports at its end was decided file by
  file long before, so `OutcomeInv` follows each file through the run: what the
  scan found is still so for a file not yet treated (`Found`, `Judged`), where the
  one in flight is (`Crossing`), what a treated file has come to (`Treated`,
  `Arrived`), what its entry in either index holds (`Saved`, `Stamped`), and which
  deletions are still due (`Doomed`).

- `RecordedWasHeld` (`RecordsWhatBothHeld`), without any assumption, edits at any
  moment included: with both sides in motion the two need never be equal, and what
  is known is only that the bytes in flight were on the side they were read from,
  then also on the other (`Recorded`), and that nothing else gets into the index.

`LiveRpcProofs` holds the theorems about a session, for any contents and any
number of calls, kernels and reconnects, without further assumptions:

- `TypeCorrect`: `TypeOK`.
- `AnswersCorrect`: `AnswersAreOwn`. `OwnInv` adds that a request bearing the
  current rid, wherever it waits and in the log, is the current call's and was
  executed since the call began (`Requests`), and that every reply, on the socket,
  in `_pending` or taken, repeats an execution in the log (`Replies`). Nothing is
  assumed about which kernel answered: that rids are never used twice is enough.
- `OrderCorrect` and `OneKernelCorrect`: `ExecutedInOrder` and `OneKernel`.
  `OrderInv` adds which kernels the session can know and that one that does not
  run has nothing to execute (`Known`); and, until something slips, that only the
  session's kernel or the one being established runs (`Alive`), that nothing
  waiting there is older than what was executed or than what waits before it
  (`Queued`), and that the log is sorted (`Sorted`).

`LiveMountProofs`, for any number of processes, letters (1 to 26) and events, on
each of the three systems:

- `TypeCorrect`; `NeverShadows` (`NothingShadowed`): the folder that was checked
  stays without the user's files until the mount lies on it, unless what was checked
  was another's mount (`Spotless`, `Misled`), and what a process's step says of its
  mount and its handle (`Shape`).
- `UserDataIsKept`, the action property, from the actions alone; a symlink in the
  place of jp's own is excepted.
- `StraysExplained` (`NoStraySignal`): a record is that of a process that will take
  it away, under that very path, or of one that did not end in order - it was killed
  or interrupted, or its folder had become another path (`Recorded`, `Kept`).
- `EndsInOrder` (`NothingLeftBehind`), of processes that ended in order and were not
  refused: every kernel, workspace file and link is
  somebody's who will take it away (`Owned`); Linux unmounts one's own mount
  (`OwnUnmounted`); macOS unmounts whatever is on top, so that what counts is that
  there are as many mounts as processes that still will unmount (`Counted`); and an
  empty folder that jp made or took is still somebody's to remove (`Minded`).

`JpRunProofs`, for any programs, statuses, pieces, framings and bounds:

- `LeavesNothing` (`NothingLeft`), by how far the nested finally clauses have come
  (`CleanUp`).
- `RunTypeOK` (`TypeOK`), `ScreenShowsOutput` (`ScreenIsOutput`) and `HeldShowsAll`
  (`AllShownWhenHeld`). Assumed is only `TokenAssumption`: no text of the program or
  the prompt has an ESC that the run's random token follows. `RunInv` says that the
  scanner is at a place of the text that the terminal writes - before the start
  marker, between the markers, past the end (`Waiting`, `Streaming`, `Finished`: what
  is shown, and that what it holds is a piece of the text that reaches to what has
  been read) - and that the frames in the reader's buffer and on the wire carry on
  from that place, up to all that was sent unless the connection broke (`Reads`).
  `FeedKeeps` is the scanner's lemma: feeding it the next piece, wherever the text
  was cut, takes it to the piece's end; it rests on what a search for a marker finds
  in a piece of the text, and on `EndHoldback` never holding back less than the part
  of the end marker that has come. `ReadCarries` is the reader's: taking the complete
  frames out of a buffer puts the fragments together as they were sent. The parsers
  are folds over the frames and messages at hand; `FramesExist` and `MessagesExist`
  prove that the function a fold is chosen as exists, `FramesStepByStep` and
  `MessagesStepByStep` that it goes through them one by one. Their inductions are
  stated with the set of numbers for which something holds (`AllNumbers`, from `Least`).

`DavServerProofs`, for any number of connections, requests, sizes and changes, if the
clients send a body only with the verbs whose handlers read it, and with its length (the
other cases are the counterexample of `dav_desync`): `TypeCorrect`, `AnswersCorrect`,
`AnswersTrue`, `NobodyInVain`. The invariant is one of each connection and the tree: at
most one request or one answer is between its two ends (`Phase`), what the handler's
calls have told it was so when they were made, and what is so now is among what it has
seen (`Informed`), and what its answer says follows from that (`Told`). A change of the
tree is a step of all connections at once; that it keeps the invariant is one lemma,
whoever makes it.

`CredentialsProofs`, for any finite set of names, whatever the file system of each
scope makes of them, any tokens and sites, any fallbacks and any number of commands:
`TypeCorrect`, `GivesItsOwn` (`OwnTokenOrNone`), `OthersStayInOrder`
(`OthersUnharmed`), `MenuIsTrue` (`MenuShowsRegistry`), `ChosenIsSent`
(`ChoiceIsUsed`). None of them is inductive: between its two writes a command's row
and its file contradict each other. The invariant says where a command is and what
it holds; which files a row may name (`Placed`); that a managed file which two rows
name, or a row and a command, is marked (`Alone`, `CommandAlone`) and what is marked
is under suspicion (`Marked`); that the user's own files are as they were
(`UserFilesKept`); that what no command is about has its token and its row (`Kept`,
`Tracked`); what must already be in order for the second write to finish the job
(`PendingAdd`, `PendingRename`); and that a choice is what the workspace's
config says (`Settled`). `MenuInv` follows the rows of a menu: they are the
registry's but for the one that its own removal is about, and no two are of one
credential - without which taking one row away could make another untrue.

`VfsCacheProofs`, for any number of files, any requests, file sizes, block and cache
sizes, read-ahead, TTL and number of changes, without further assumptions:

- `TypeCorrect`, `ReadsNothingOld` (`ReadsAreFresh`), `CountsRight` (`Accounting`).
  `CacheInv` says that the counter is the size of what is cached, that this fits,
  that no block is there twice and that the one being prefetched is not there yet
  (`Counted`); that nothing known of a path - an attribute, an answer under way, a
  block, what was told - is newer than its last change (`Dated`); that a path of
  which something is held has a stamp or is not guarded, and that the stamp is the
  mtime of the cached attribute (`Stamped`); and that everything held of a
  guarded path - a block, a part received, the oldest block of the read - is as new
  as what was told, and as the file itself while the stamp is the file's mtime
  (`Fresh`). The lemmas below them say what `InOrder`, `Kept`,
  `Without`, `Moved` and `Evicted` keep, and that `Size` adds up.
- `ReadsExact` (`ReadsAreExact`). `ExactInv` adds that a cached block, or a part
  being received, that is as new as its file has that file's length there
  (`Faithful`), and that a read at a block has handed out what lies before it and
  came there over full blocks only (`Exact`), so that the short block, or the last,
  completes the answer.
- `AnswersNotOld` (`AnswersAreRecent`), about VfsCacheLog. `Logged` ties the log to
  the files: the last change of a path is the one its file carries. `Recent` says of
  every attribute, of the answer of a stat under way and of the listing that what
  they miss was changed after the question was asked, and that no attribute misses
  what was told - so that the TTL, counted from the question, bounds what is missed.

`PathsProofs`, for any segments, prefixes, lengths and names that the module's two
assumptions admit (a segment of blanks is one segment; a prefix has blanks at its
ends at most):

- `NormPathIs`: what `normpath` makes of a path is its `Place` if it never leaves
  the directory, and begins with the parent directory if it does. The one takes and
  drops segments from a list, the other counts them; `Followed` is what relates
  them after each segment: the list is some parent directories, then the segments
  that stay (`Stays`), and the nth of m can be left m - n + 1 times before it goes.
  `FollowInto`, `FollowOut`, `FollowBack` and `FollowNothing` are its steps,
  `NormPathStepByStep` says that the fold goes through the path one by one, and
  `StripKeeps` that slashes around it do not count.
- `AliasComesBack`: a protected path has no dotfile in it and decodes to what it was.
  What a conversion returns keeps no mark that the next would take away (`PlainIs`,
  `PlainTrims`, over the segments with fewer marks, `Parts`).
- `AcceptedInside` (`AcceptedIffInside`) and `NameComesBack` (`SameNameBack`). With the
  lemmas on what each function lets through (`PrefixIs`, `RelativeIs`, `WithinIs`,
  `TrimBelow`, `WrittenIs`, `KeyIs`) and what it must not refuse (`RelativeKeeps`,
  `RelativeRefused`, `WithinBelow`, `KeyBelow`), the invariant `PathInv` says of each
  step of the way what the name is there: that the prefix is the validated one
  (`PrefixInv`), what is known of a file's name (`TreeFacts`, `RelFacts`), that what is
  composed is in its normal form and can be told from a dotfile (`OnItsWay`), and that
  what was sent is exactly that, below the prefix (`WireInv`). Without it the scan of
  what was sent could not be known to undo it.

The proof found that the model took the alias of a shared or linked name for the
name itself, which the instance had no segment for; `IsOneOf` and a further
segment and prefix of the `paths` run are the correction.

Each invariant was first checked with TLC. The assumptions on the constants are
those declared in the modules, which every run evaluates.

Only model-checked: liveness (`EveryCommandEnds`, `EveryCallReturns` of VfsCache and
of LiveRpc, `RunEnds`), as the prover does not treat fairness and ENABLED. `SyncProofs`
is the only place where files that the scan ignores (`Ignored`) are not empty.

## 6. Known divergences outside the runs

Met while modelling; each follows from the lines given, and the properties are
stated so that they hold beside it (with the exception that is named there).

Sync:
- A push overwrites a remote edit made after its scan (`sync.py:456`;
  docs/security.md:14 says conflicts are never silently overwritten). Hence
  `EditsDuringRun = FALSE` in `sync_quiet`.
- A pull overwrites a local file that the scan ignores (`sync.py:567`). Hence
  SafeSync is implemented for files the scan does not ignore.
- Files found equal are never recorded, so a base once lost stays lost and the
  next edit is a conflict (`sync.py:432`; `index.py:3`).
- A file deleted on both sides is a conflict for ever (`sync.py:391`; 360).
- A file that is edited while its bytes are on their way is recorded with a base that
  both sides held, but not at once (`sync.py:443` reads, 456 sends; 564, 567);
  `RecordsWhatBothHeld` claims no more. A remote edit of the same size between the PUT
  and the stat behind it (466) is taken for what was sent.

Paths:
- A file whose own name is that of an alias is stored under it and comes back as
  the dotfile (`paths.py:159` says so): the exception in `SameNameBack`.
- `assert_within_prefix` judges a copy, stripped and with slashes for backslashes
  (`paths.py:263`), while its callers send the path as it was (`sync.py:179` to 205,
  `rm.py:145`, 172): a listed ` me/x` or `me\x` passes for one inside `me`. `AsJudged`,
  the exception in `AcceptedIffInside` for listed paths.
- A file whose name has a backslash, ends with a blank or is decomposed gets the key of
  another name (`paths.py:90`, 100), which push then looks for under the tree and does
  not find, or finds to be another file (in the model it is `missing`): excepted in
  `SameNameBack`.
- `validate_prefix` is not idempotent for a prefix with a blank behind a slash at its
  beginning (`/ me`), which is left out.
- `normalize_rel` is not idempotent for `./C:x` (105 looks at the path as given):
  `AcceptedIffInside` does not ask that such a name be accepted.
- Where the first directory of a name is a symlink into the tree, pull writes
  where it leads (`paths.py:316`).

Live mount:
- On Linux the mount is made before the symlink is checked; when `./<leaf>`
  exists, the `MountError` of `os_mount.py:320` passes the handler for `OSError`
  and the mount stays, though line 271 promises a clean-up. `NothingLeftBehind`
  leaves out processes that were refused.
- A block cached between a failed baseline stat and the file's creation has no
  stamp: the next stat only sets one, and the old block is served until the file
  changes again (`vfs_cache.py:157`). `unguarded`, the exception in `ReadsAreFresh`.
- A move keeps the mtime. When a file is moved away and back and both answers are
  lost, nothing is invalidated (`vfs_cache.py:280`) and a stat finds the mtime it
  knows; blocks of what was there in between are then served as the file's. Found
  by the attempt to prove `ReadsAreFresh` without it; also `unguarded`. Others'
  moves and writes are taken to make a new mtime.
- An own create or delete does not drop the cached listing of the parent
  (`vfs_cache.py:248`): it is served until the TTL.
- A kernel created by a reconnecting worker outlives the session
  (`live_session.py:95`; docs/jp-live.md:154).
- A GET of a file that shrinks between the stat and the read leaves client and
  server waiting for each other (`webdav_server.py:335`), the exception in
  `NobodyWaitsInVain`.
- A send on the websocket may block for ever, with the lock of KernelConn held, when
  the peer stops reading (`_ws.py:289`): the exception in `EveryCallReturns`.
- `net use *` takes the last free letter, while the code unmounts the first
  (`os_mount.py:54`, 151), the exception for Windows in `NothingLeftBehind`.
- A user's own empty folder that was reused as the mount point is removed at the
  end (`os_mount.py:228`); an existing `<leaf>.code-workspace` is overwritten and
  removed (`live.py:388`).
- An automatic mount on macOS checks the folder by what it shows (`os_mount.py:216`):
  when another process's `--mount` lies over the user's files and its remote folder
  is empty, the files are taken for none, though line 208 says "never shadow or
  delete user data". The exception in `NothingShadowed`.
- At the end a process on Linux removes whatever symlink is in the place of its own
  (`os_mount.py:335`), the user's too: the exception in `UserDataKept`.
- The registry has one record per path: of two processes the second's record
  replaces the first's, and the first to end removes it; an unmount that finds
  its process gone removes the record even if it is a newer one (`live.py:503`).
- A record goes by the path that the folder is at that moment (`live.py:331`, 357): if
  a mount, a link or another process changed it, the process removes nothing, or
  another's record, and its own stays. `lost`, out of which `NoStraySignal` and
  `NothingLeftBehind` are not claimed.
- On Windows `jp live unmount` kills its process, whose finally clauses do not run,
  and does not remove the record of one that is gone (`live.py:500`).

Run: a connection whose reads fail is read again for ever (`_ws.py:352` breaks without
closing), and one whose peer is gone silently is waited for for ever (no timeout,
`_ws.py:252`, and no ping): `NotTold`, the exception in `RunEnds`. `jp run` returns
`EXIT_OK` when the connection breaks before the end marker (`run.py:305`;
docs/commands.md:161), and what the scanner held back then is not shown:
`AllShownWhenHeld` asks for the connection to hold.

Credentials:
- A global login in a workspace with a local credential of the same name says
  that the workspace will use it (`login.py:229`); the local one shadows it.
- A crash in `rename` leaves a row without its file, and a move that failed makes
  a later login of the old name write the file of the new one
  (`credentials.py:272`); and where file names have no case, `lab` and `Lab` are two
  rows of one token file (`credentials.py:98`), so that one gives the other's token
  and loses it with it. Both are `shared` in `OwnTokenOrNone`.
- `--token-path` keeps a relative path as typed (`credentials.py:337`) and resolves it
  from the directory of each command (200, 347): from another one the file is missing,
  and another token is sent. Excepted in `ChoiceIsUsed`.
- `--force --token-path` leaves the replaced token file behind: `replaced` in
  `OthersUnharmed`. A name typed with blanks in the manager is stored without
  them, and the menu's row then matches nothing: `padded` in `MenuShowsRegistry`.
- `load_token` falls through silently to another token when the named one's file
  is missing (`config.py:182`).

## 7. Not modelled, and the plan

Not modelled because there is little to check: the settings and preferences, the
text interface but for the credential menus, `ls`/`open`/`doctor`, the simulator,
wire encodings, the update notifier (a lost update of its cache costs a notice).
Ignore patterns are string functions without state. Of the parts
that are modelled, `PROJECT.json` says under each component what is left out.

Next, in this order:

1. DavServer over VfsCache's interface, with the listing an own change leaves.
2. The ways of a name through `_mirror` and `ls`.
