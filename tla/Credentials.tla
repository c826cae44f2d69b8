---------------------------- MODULE Credentials ----------------------------
(***************************************************************************)
(* Named credentials (src/jp/credentials.py): a registry and token files   *)
(* in ~/.config/jp and in the workspace's .jp; the commands that change    *)
(* both (jp login, jp credentials), the menus that work on a list read     *)
(* earlier (src/jp/tui.py), the name a workspace records and the token     *)
(* load_token then finds (src/jp/config.py).  A command may be cut at any  *)
(* step, by a crash or an exception, and calls whose errors are suppressed *)
(* may fail.  The file updates of two commands do not overlap; a menu may  *)
(* be open while other commands run.                                       *)
(***************************************************************************)
EXTENDS Integers, Sequences, FiniteSets, SequencesExt

Scopes == {"global", "local"}

CONSTANTS
    Names,        \* names of credentials, in their order
    Tokens,       \* tokens pasted at jp login
    Sites,        \* origins of servers
    NoSite, Missing, Nobody,
    Fold,         \* how a scope's file system takes a name: Fold[s][n] for n
    UserToken,    \* what the file registered with --token-path holds
    Elsewhere,    \* what a file of that name holds in another directory
    OtherToken,   \* what the files of Fallbacks hold
    Fallbacks,    \* "env", "path", "legacy": which other token files there are
    MaxCommands   \* bound: commands that change something

ASSUME CredentialAssumption ==
    /\ Names \subseteq Nat /\ IsFiniteSet(Names) /\ Nobody \notin Names
    /\ NoSite \notin Sites /\ Missing \notin Tokens \cup {UserToken, OtherToken}
    /\ Fold \in [Scopes -> [Names -> Names]] /\ Elsewhere \in {Missing, OtherToken}
    /\ UserToken \notin Tokens /\ OtherToken \notin Tokens \cup {UserToken}
    /\ Fallbacks \subseteq {"env", "path", "legacy"} /\ MaxCommands \in Nat

VARIABLES
    windows,      \* does a rename refuse an existing target?
    registry,     \* credentials.json of each scope
    files,        \* the token files
    workspace,    \* is there a workspace?
    credential,   \* config.json of the workspace: the name it uses
    cmd,          \* the command between two of its file updates
    menu,         \* the open credential menu
    commands,     \* how many of the bounded commands there were
    meant,        \* ghost: the tokens the user has stored under each name
    suspect,      \* ghost: credentials a cut command or a failed call was about
    shared,       \* ghost: token files that two names have had
    replaced,     \* ghost: token files whose row was overwritten with a path
    stale,        \* ghost: has another command run since the menu was opened?
    chosen        \* ghost: what the last command made the workspace use

disk == <<registry, files, workspace, credential>>
ghosts == <<meant, suspect, shared, replaced, stale, chosen>>
vars == <<windows, disk, cmd, menu, commands, ghosts>>

\* A mutant of the next one: every token file in ~/.config/jp.
TokenFileGlobal(scope, name) == <<"global", Fold["global"][name]>>
\* Where case does not count, lab.token and Lab.token are one file.
TokenFile(scope, name) == <<scope, Fold[scope][name]>>
ManagedFiles == {TokenFile(s, n) : s \in Scopes, n \in Names}
\* The user's file by its full path, and by one relative to where it was typed.
UserFile == <<"user", Nobody>>
TypedFile == <<"typed", Nobody>>
UserFiles == {UserFile, TypedFile}
Files == ManagedFiles \cup UserFiles
NoFile == <<"none", Nobody>>
NoRow == [file |-> NoFile, site |-> NoSite]
Rows == [file: Files, site: Sites \cup {NoSite}]

Command ==
    [op: {"none", "add", "rename", "rm"}, step: {"none", "save", "read", "config", "unlink"},
     here: BOOLEAN, menu: BOOLEAN, padded: BOOLEAN, scope: Scopes,
     name: Names \cup {Nobody}, to: Names \cup {Nobody}, row: Rows \cup {NoRow}]
NoCommand ==
    [op |-> "none", step |-> "none", here |-> FALSE, menu |-> FALSE, padded |-> FALSE,
     scope |-> "global", name |-> Nobody, to |-> Nobody, row |-> NoRow]

\* A row of a menu: "padded" when its name was typed with blanks around it.
Listed == [scope: Scopes, name: Names, site: Sites \cup {NoSite}, padded: BOOLEAN]
NoMenu == [kind |-> "none", here |-> FALSE, rows |-> <<>>, idx |-> 0, target |-> NoSite, all |-> TRUE]
NoChoice == [scope |-> "global", name |-> Nobody]

TypeOK ==
    /\ windows \in BOOLEAN /\ workspace \in BOOLEAN
    /\ registry \in [Scopes -> [Names -> Rows \cup {NoRow}]]
    /\ \A n \in Names : registry["local"][n] # NoRow => workspace
    /\ files \in [Files -> Tokens \cup {UserToken, Missing}]
    /\ credential \in Names \cup {Nobody}
    /\ cmd \in Command
    /\ menu \in [kind: {"none", "manager", "picker"}, here: BOOLEAN, rows: Seq(Listed),
                 idx: Nat, target: Sites \cup {NoSite}, all: BOOLEAN]
    /\ commands \in 0..MaxCommands
    /\ meant \in [Scopes -> [Names -> SUBSET (Tokens \cup {UserToken})]]
    /\ suspect \subseteq ManagedFiles /\ replaced \subseteq ManagedFiles
    /\ shared \subseteq ManagedFiles /\ stale \in BOOLEAN
    /\ chosen \in [scope: Scopes, name: Names \cup {Nobody}]

Init ==
    /\ windows \in BOOLEAN /\ workspace \in BOOLEAN
    /\ registry = [s \in Scopes |-> [n \in Names |-> NoRow]]
    /\ files = [f \in Files |-> IF f \in UserFiles THEN UserToken ELSE Missing]
    /\ credential = Nobody
    /\ cmd = NoCommand /\ menu = NoMenu /\ commands = 0
    /\ meant = [s \in Scopes |-> [n \in Names |-> {}]]
    /\ suspect = {} /\ replaced = {} /\ shared = {} /\ stale = FALSE
    /\ chosen = NoChoice

-----------------------------------------------------------------------------
(* Reading.                                                                *)

HasRow(scope, name) == registry[scope][name] # NoRow

\* list_credentials: a local row shadows the global one of its name.
ScopeOf(name, here) == IF here /\ HasRow("local", name) THEN "local" ELSE "global"
Available(here) == {n \in Names : HasRow(ScopeOf(n, here), n)}
\* The members of a set of numbers, from the least to the greatest.
InOrder(S) == [i \in 1..Cardinality(S) |-> CHOOSE n \in S : Cardinality({m \in S : m < n}) = i - 1]
RowOf(n, here) == [scope |-> ScopeOf(n, here), name |-> n, padded |-> FALSE,
                   site |-> registry[ScopeOf(n, here)][n].site]
ListCredentials(here) ==
    LET names == InOrder(Available(here)) IN [i \in DOMAIN names |-> RowOf(names[i], here)]

MatchesSite(row, site) == row.site \in {NoSite, site}
\* list_for_site; all of them when none matches.
Pool(site) ==
    LET all == ListCredentials(FALSE)
        matching == SelectSeq(all, LAMBDA row : MatchesSite(row, site))
    IN  IF site = NoSite \/ matching = <<>> THEN all ELSE matching

\* A mutant of the next one: any registered file is jp's.
IsManagedAny(scope, file) == TRUE
IsManaged(scope, file) == file[1] = scope

\* A mutant of the next one: the global scope first.
ResolveGlobalFirst(name) ==
    IF name \in Names /\ HasRow("global", name) THEN registry["global"][name].file
    ELSE IF name \in Names THEN registry["local"][name].file ELSE NoFile
\* resolve: the local scope first.
Resolve(name) ==
    IF name \in Names /\ HasRow("local", name) THEN registry["local"][name].file
    ELSE IF name \in Names THEN registry["global"][name].file ELSE NoFile

\* What is read at a path from where it was typed, or from another directory.
Dirs == {"there", "away"}
Read(file, dir) ==
    IF file = NoFile THEN Missing
    ELSE IF file = TypedFile /\ dir = "away" THEN Elsewhere ELSE files[file]

\* load_token: the first file that is there of JP_TOKEN_FILE, the named
\* credential, the config's token_path and the legacy token.
LoadToken(dir) ==
    LET fallback == IF Fallbacks \ {"env"} # {} THEN OtherToken ELSE Missing
        named == Read(Resolve(credential), dir)
    IN  IF "env" \in Fallbacks THEN OtherToken ELSE IF named # Missing THEN named ELSE fallback

-----------------------------------------------------------------------------
(* The course of a command.                                                *)

\* Which rows a menu shows, and its cursor kept on one of them.
Visible(m) ==
    InOrder({i \in DOMAIN m.rows : m.all \/ m.target = NoSite \/ MatchesSite(m.rows[i], m.target)})
\* Mutants: off by one; no max(..., 0).
ClampedLate(m) ==
    LET n == Len(Visible(m)) IN
    [m EXCEPT !.idx = IF n = 0 THEN 0 ELSE IF m.idx > n THEN n - 1 ELSE m.idx]
ClampedBelow(m) ==
    LET n == Len(Visible(m)) IN [m EXCEPT !.idx = IF m.idx >= n THEN n - 1 ELSE m.idx]
Clamped(m) ==
    LET n == Len(Visible(m)) IN
    [m EXCEPT !.idx = IF n = 0 THEN 0 ELSE IF m.idx >= n THEN n - 1 ELSE m.idx]
Cursor(m) == Visible(m)[m.idx + 1]
Current(m) == m.rows[Cursor(m)]
WithRow(m, row) == [m EXCEPT !.rows = [@ EXCEPT ![Cursor(m)] = row]]

\* Does the row of another name have the token file of this one?
Shares(scope, name, old) == \E m \in Names \ {name, old} : registry[scope][m].file = TokenFile(scope, name)

Begin(byMenu) ==
    /\ cmd = NoCommand /\ commands < MaxCommands /\ commands' = commands + 1
    /\ stale' = (IF byMenu THEN stale ELSE menu.kind # "none")
    /\ chosen' = NoChoice

\* The command is done: the menu it came from, if any, shows the change.
After(c) ==
    IF ~c.menu THEN menu
    ELSE IF c.op = "rm" THEN Clamped([menu EXCEPT !.rows = RemoveAt(@, Cursor(menu))])
    ELSE WithRow(menu, [Current(menu) EXCEPT !.name = c.to, !.padded = c.padded])
Finish(c) == cmd' = NoCommand /\ menu' = After(c)

\* A crash, or an exception of a write: what was written stays.  Only the
\* manager's rename catches the exception and goes on.
CutShort ==
    /\ cmd # NoCommand /\ cmd' = NoCommand
    /\ menu' \in {IF cmd.menu THEN NoMenu ELSE menu}
                 \cup {m \in {menu} : cmd.op = "rename"}
    /\ suspect' = suspect \cup
                  (IF cmd.step \in {"read", "config"} THEN {}
                   ELSE {TokenFile(cmd.scope, n) : n \in {cmd.name, cmd.to}})
    /\ UNCHANGED <<windows, disk, commands, meant, shared, replaced, stale, chosen>>

-----------------------------------------------------------------------------
(* jp login.                                                               *)

Login(here, scope, name, file, token, site) ==
    LET taken == IF file \in ManagedFiles /\ Shares(scope, name, name) THEN {file} ELSE {} IN
    /\ Begin(FALSE)
    /\ here => workspace
    /\ scope = "local" => here
    /\ files' = [files EXCEPT ![file] = token]
    /\ meant' = [meant EXCEPT ![scope][name] = @ \cup {token}]
    /\ cmd' = [op |-> "add", step |-> "save", here |-> here, menu |-> FALSE, padded |-> FALSE,
               scope |-> scope, name |-> name, to |-> name, row |-> [file |-> file, site |-> site]]
    /\ shared' = shared \cup taken /\ suspect' = suspect \cup taken
    /\ UNCHANGED <<windows, registry, workspace, credential, menu, replaced>>

\* credentials.add writes the token file, then the row.  A name that exists
\* is refused without --force and replaced with it.
Add(here, scope, name, token, site, force) ==
    /\ HasRow(scope, name) => force
    /\ Login(here, scope, name, TokenFile(scope, name), token, site)
\* credentials.add_path: the row names the user's own file by the path typed.
AddPath(here, scope, name, file, site, force) ==
    /\ HasRow(scope, name) => force
    /\ Login(here, scope, name, file, files[file], site)

SaveRow ==
    /\ cmd.op = "add" /\ cmd.step = "save"
    /\ registry' = [registry EXCEPT ![cmd.scope][cmd.name] = cmd.row]
    /\ meant' = [meant EXCEPT ![cmd.scope][cmd.name] = {files[cmd.row.file]}]
    /\ replaced' = replaced \cup
           (({registry[cmd.scope][cmd.name].file} \cap ManagedFiles) \ {cmd.row.file})
    /\ cmd' = (IF cmd.row.file \in UserFiles THEN [cmd EXCEPT !.step = "read"]
               ELSE IF cmd.here THEN [cmd EXCEPT !.step = "config"] ELSE NoCommand)
    /\ UNCHANGED <<windows, files, workspace, credential, menu, commands, suspect, shared,
                   stale, chosen>>

\* A registered file is read once; one that is empty ends the login here.
ReadRegistered ==
    /\ cmd.step = "read"
    /\ cmd' \in {IF cmd.here THEN [cmd EXCEPT !.step = "config"] ELSE NoCommand, NoCommand}
    /\ UNCHANGED <<windows, disk, menu, commands, ghosts>>

\* Inside a workspace, make it use the credential.
SaveConfig ==
    /\ cmd.step = "config"
    /\ credential' = cmd.name
    /\ chosen' = [scope |-> cmd.scope, name |-> cmd.name]
    /\ cmd' = NoCommand
    /\ UNCHANGED <<windows, registry, files, workspace, menu, commands, meant, suspect, shared,
                   replaced, stale>>

-----------------------------------------------------------------------------
(* jp credentials: remove, rename, set_site.                               *)

\* The registry is saved first; then the token file goes, if it is managed.
RemoveRow(scope, name, byMenu) ==
    /\ Begin(byMenu) /\ HasRow(scope, name)
    /\ registry' = [registry EXCEPT ![scope][name] = NoRow]
    /\ meant' = [meant EXCEPT ![scope][name] = {}]
    /\ LET c == [NoCommand EXCEPT !.op = "rm", !.step = "unlink", !.scope = scope, !.name = name,
                                  !.to = name, !.menu = byMenu, !.row = registry[scope][name]]
       IN  IF IsManaged(scope, c.row.file) THEN cmd' = c /\ UNCHANGED menu ELSE Finish(c)
    /\ UNCHANGED <<windows, files, workspace, credential, suspect, shared, replaced>>

Unlink ==
    /\ cmd.step = "unlink"
    /\ \/ /\ files' = [files EXCEPT ![cmd.row.file] = Missing]
          /\ UNCHANGED suspect
       \/ /\ suspect' = suspect \cup {cmd.row.file}       \* OSError, suppressed
          /\ UNCHANGED files
    /\ Finish(cmd)
    /\ UNCHANGED <<windows, registry, workspace, credential, commands, meant, shared, replaced,
                   stale, chosen>>

\* A managed token file is moved first; its path is kept when that fails.  A
\* change of case alone is a move to itself.
Moves(file, to) == files[file] # Missing /\ (windows => to = file \/ files[to] = Missing)
Rename(scope, old, new, byMenu, padded) ==
    /\ Begin(byMenu) /\ HasRow(scope, old) /\ ~HasRow(scope, new)
    /\ LET row == registry[scope][old]
           own == TokenFile(scope, old)
           to == TokenFile(scope, new)
           Marked(S, failed) == S \cup (IF failed \/ own \in S THEN {own, to} ELSE {})
           Going(file, failed, taken) ==
               /\ cmd' = [NoCommand EXCEPT !.op = "rename", !.step = "save", !.scope = scope,
                            !.name = old, !.to = new, !.menu = byMenu, !.padded = padded,
                            !.row = [row EXCEPT !.file = file]]
               /\ suspect' = Marked(suspect, failed) \cup taken
               /\ shared' = Marked(shared, failed) \cup taken
       IN  \/ /\ IsManaged(scope, row.file) /\ Moves(row.file, to)
              /\ files' = [files EXCEPT ![row.file] = Missing, ![to] = files[row.file]]
              /\ Going(to, FALSE, IF Shares(scope, new, old) THEN {to} ELSE {})
           \/ /\ IsManaged(scope, row.file)
              /\ Going(row.file, TRUE, {})
              /\ UNCHANGED files
           \/ /\ ~IsManaged(scope, row.file)
              /\ Going(row.file, FALSE, {})
              /\ UNCHANGED files
    /\ UNCHANGED <<windows, registry, workspace, credential, menu, meant, replaced>>

SaveRename ==
    /\ cmd.op = "rename"
    /\ registry' = [registry EXCEPT ![cmd.scope][cmd.name] = NoRow, ![cmd.scope][cmd.to] = cmd.row]
    /\ meant' = [meant EXCEPT ![cmd.scope][cmd.name] = {},
                              ![cmd.scope][cmd.to] = meant[cmd.scope][cmd.name]]
    /\ Finish(cmd)
    /\ UNCHANGED <<windows, files, workspace, credential, commands, suspect, shared, replaced,
                   stale, chosen>>

SetSite(scope, name, site, byMenu) ==
    /\ Begin(byMenu) /\ HasRow(scope, name)
    /\ registry' = [registry EXCEPT ![scope][name].site = site]
    /\ cmd' = cmd
    /\ menu' = (IF byMenu THEN Clamped(WithRow(menu, [Current(menu) EXCEPT !.site = site])) ELSE menu)
    /\ UNCHANGED <<windows, files, workspace, credential, meant, suspect, shared, replaced>>

\* The flags --rm, --rename and --set-site: the scope is the one listed.
Flags(here, name) ==
    /\ here => workspace
    /\ \/ RemoveRow(ScopeOf(name, here), name, FALSE)
       \/ \E new \in Names : Rename(ScopeOf(name, here), name, new, FALSE, FALSE)
       \/ \E site \in Sites : SetSite(ScopeOf(name, here), name, site, FALSE)

-----------------------------------------------------------------------------
(* The menus, and the choice of a credential by jp init and clone.          *)

CloseMenu == menu' = NoMenu /\ UNCHANGED <<windows, disk, cmd, commands, ghosts>>

OpenMenu(kind, here, target) ==
    /\ cmd = NoCommand /\ menu = NoMenu
    /\ here => workspace
    /\ LET rows == ListCredentials(here) IN
       /\ rows # <<>>
       /\ kind = "picker" => ~here /\ Len(Pool(target)) > 1
       /\ kind = "manager" => target = NoSite
       /\ menu' = [kind |-> kind, here |-> here, rows |-> rows, idx |-> 0, target |-> target,
                   all |-> target = NoSite \/ ~\E i \in DOMAIN rows : MatchesSite(rows[i], target)]
    /\ stale' = FALSE
    /\ UNCHANGED <<windows, disk, cmd, commands, meant, suspect, shared, replaced, chosen>>

InMenu == cmd = NoCommand /\ menu.kind # "none"
OnRow == InMenu /\ Visible(menu) # <<>>

Arrow ==
    /\ OnRow
    /\ \E step \in {1, -1} : menu' = [menu EXCEPT !.idx = (@ + step) % Len(Visible(menu))]
    /\ UNCHANGED <<windows, disk, cmd, commands, ghosts>>
\* a: this site or all.
Toggle ==
    /\ InMenu /\ menu.kind = "picker" /\ menu.target # NoSite
    /\ menu' = [menu EXCEPT !.all = ~@, !.idx = 0]
    /\ UNCHANGED <<windows, disk, cmd, commands, ghosts>>

\* d, s and r on the row under the cursor.  UsageError of a row the registry
\* does not have leaves the menu; the manager's rename answers it with a warning.
Known(row) == ~row.padded /\ HasRow(row.scope, row.name)
Key ==
    /\ OnRow
    /\ LET row == Current(menu) IN
       \/ menu.kind = "manager" /\ Known(row) /\ RemoveRow(row.scope, row.name, TRUE)
       \/ \E new \in Names, padded \in BOOLEAN :
            menu.kind = "manager" /\ Known(row) /\ Rename(row.scope, row.name, new, TRUE, padded)
       \/ \E site \in Sites : Known(row) /\ SetSite(row.scope, row.name, site, TRUE)
       \/ ~Known(row) /\ CloseMenu

Quit == InMenu /\ CloseMenu

\* jp init and jp clone record the name in the new workspace.
Record(name) ==
    /\ workspace' = TRUE /\ credential' = name
    /\ chosen' = [scope |-> "global", name |-> name]
    /\ UNCHANGED <<windows, registry, files, cmd, commands, meant, suspect, shared, replaced>>

\* --credential NAME or the only candidate; --token-path or the environment
\* without any.
PickSilently ==
    /\ cmd = NoCommand /\ ~workspace
    /\ \E name \in Available(FALSE) \cup {Nobody} : Record(name)
    /\ UNCHANGED <<menu, stale>>
Enter ==
    /\ OnRow /\ menu.kind = "picker"
    /\ IF workspace THEN UNCHANGED <<windows, disk, cmd, commands, ghosts>>
       ELSE Record(Current(menu).name) /\ UNCHANGED stale
    /\ menu' = NoMenu

-----------------------------------------------------------------------------
Next ==
    \/ \E here, force \in BOOLEAN, s \in Scopes, n \in Names, site \in Sites \cup {NoSite} :
          \/ \E t \in Tokens : Add(here, s, n, t, site, force)
          \/ \E f \in UserFiles : AddPath(here, s, n, f, site, force)
    \/ SaveRow \/ ReadRegistered \/ SaveConfig \/ Unlink \/ SaveRename \/ CutShort
    \/ \E here \in BOOLEAN, n \in Names : Flags(here, n)
    \/ \E here \in BOOLEAN, kind \in {"manager", "picker"}, site \in Sites \cup {NoSite} :
          OpenMenu(kind, here, site)
    \/ Arrow \/ Toggle \/ Key \/ Quit \/ Enter \/ PickSilently

Spec == Init /\ [][Next]_vars

-----------------------------------------------------------------------------
(* Properties.                                                             *)

Given(scope, name) == files[registry[scope][name].file]
InHand == {TokenFile(cmd.scope, n) : n \in {cmd.name, cmd.to} \cap Names}

\* Whatever was cut or failed before, a credential gives a token the user
\* stored under its name, or under the name it was renamed from, or none at
\* all; never another credential's - but for token files that two names have
\* had: of names that differ in case alone, where case does not count in the
\* names of files (_token_file), or of a credential renamed while its file
\* could not be moved, whose old path a later login writes.  A relative
\* --token-path is meant to be read from where it was typed.
OwnTokenOrNone ==
    \A s \in Scopes, n \in Names :
        HasRow(s, n) /\ TokenFile(s, n) \notin shared => Given(s, n) \in meant[s][n] \cup {Missing}

\* Credentials that no cut or failed command was about, nor the one they were
\* renamed from, and whose token file no other name has had, are in order:
\* every row has its token ("a failed unlink never leaves a dangling row",
\* remove), and every managed token file has its row, but for the files of
\* rows that --force --token-path replaced.
OthersUnharmed ==
    \A s \in Scopes, n \in Names :
        LET own == TokenFile(s, n) IN
        own \notin suspect \cup InHand =>
            /\ HasRow(s, n) => Given(s, n) \in meant[s][n]
            /\ files[own] # Missing => own \in replaced \/ \E m \in Names : registry[s][m].file = own

\* While no other command has run, the open menu shows what the registry has,
\* with the cursor on a row that is there, whatever was deleted, renamed,
\* filtered or linked to a site; but a name typed with blanks around it is
\* stored without them.
MenuShowsRegistry ==
    menu.kind # "none" =>
        /\ menu.idx > 0 => menu.idx < Len(Visible(menu))
        /\ \A i \in DOMAIN menu.rows : LET row == menu.rows[i] IN
             (cmd = NoCommand /\ ~stale /\ ~row.padded) =>
                 HasRow(row.scope, row.name) /\ registry[row.scope][row.name].site = row.site

\* After a login in the workspace, or the choice of a credential by init and
\* clone, the workspace sends that credential's token ("this workspace will use
\* it", login.py:229), whatever directory a command runs from - unless a local
\* credential of the name shadows it, an environment variable overrides it, or
\* its path was typed relative to another directory (add_path keeps it so).
ChoiceIsUsed ==
    LET s == chosen.scope  n == chosen.name IN
    \A dir \in Dirs :
        (/\ n # Nobody /\ "env" \notin Fallbacks
         /\ HasRow(s, n) /\ TokenFile(s, n) \notin suspect
         /\ registry[s][n].file = TypedFile => dir = "there"
         /\ s = "global" => ~HasRow("local", n)) => LoadToken(dir) \in meant[s][n]
=============================================================================
