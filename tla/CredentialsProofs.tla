------------------------- MODULE CredentialsProofs -------------------------
(***************************************************************************)
(* Theorems about Credentials, for any finite set of names, any tokens and *)
(* sites, any other token files and any number of commands: types, that a  *)
(* credential gives no other's token, that what was not cut short stays in *)
(* order, that a menu shows the registry, and that what was chosen is used.*)
(***************************************************************************)
EXTENDS Credentials, FiniteSetTheorems, SequenceTheorems, TLAPS

-----------------------------------------------------------------------------
(* The token files.  A row names its own file or the user's; a file that   *)
(* two names have had is marked, and so is the name of every row that still *)
(* has another's.  Where a command is, between its two files, says what the *)
(* other holds.                                                             *)

\* The files a row of a name may have; the last line is what rename leaves
\* when it cannot move the file.
Belongs(f, s, n) ==
    \/ f = TokenFile(s, n) \/ f \in UserFiles
    \/ TokenFile(s, n) \in shared /\ f \in shared /\ \E m \in Names : f = TokenFile(s, m)

\* A managed file without a row was left by a replacement.
HasARow(s, f, but) == \E m \in Names \ {but} : registry[s][m].file = f
AccountedBut(s, f, but) == files[f] # Missing => f \in replaced \/ HasARow(s, f, but)
Accounted(s, f) == AccountedBut(s, f, Nobody)

\* What is known of a command between two of its updates.
Course ==
    /\ cmd.op = "none" => cmd = NoCommand
    /\ cmd.op # "none" =>
         /\ cmd.name \in Names /\ cmd.to \in Names /\ cmd.row \in Rows
         /\ cmd.scope = "local" => workspace
         /\ Belongs(cmd.row.file, cmd.scope, cmd.to)
    /\ cmd.op = "add" =>
         /\ cmd.step \in {"save", "read", "config"} /\ cmd.to = cmd.name /\ ~cmd.menu
         /\ cmd.row.file = TokenFile(cmd.scope, cmd.name) \/ cmd.row.file \in UserFiles
         /\ cmd.step = "save" => files[cmd.row.file] # Missing
    /\ cmd.op = "rename" =>
         /\ cmd.step = "save" /\ HasRow(cmd.scope, cmd.name) /\ ~HasRow(cmd.scope, cmd.to)
         /\ cmd.row.site = registry[cmd.scope][cmd.name].site
    /\ cmd.op = "rm" =>
         /\ cmd.step = "unlink" /\ cmd.to = cmd.name
         /\ IsManaged(cmd.scope, cmd.row.file) /\ ~HasRow(cmd.scope, cmd.name)

Placed == \A s \in Scopes, n \in Names : HasRow(s, n) => Belongs(registry[s][n].file, s, n)

\* Two rows with one managed file: it is marked; so is the one a command is
\* about to give to its row, or to unlink, when another row has it.
Alone ==
    \A s \in Scopes, n, m \in Names :
        n # m /\ registry[s][n].file \in ManagedFiles /\ registry[s][m].file = registry[s][n].file =>
            registry[s][n].file \in shared
CommandAlone ==
    cmd.op # "none" /\ cmd.row.file \in ManagedFiles =>
        \A m \in Names \ {cmd.name, cmd.to} :
            registry[cmd.scope][m].file = cmd.row.file => cmd.row.file \in shared
Marked == shared \subseteq suspect

UserFilesKept == \A u \in UserFiles : files[u] = UserToken

\* Rows the command is not about have their token, and files it is not about
\* their row, unless they are suspect.
About(s, n) == s = cmd.scope /\ n \in {cmd.name, cmd.to}
Kept == \A s \in Scopes, n \in Names :
    HasRow(s, n) /\ TokenFile(s, n) \notin suspect /\ ~About(s, n) => Given(s, n) \in meant[s][n]
Tracked == \A s \in Scopes, n \in Names :
    TokenFile(s, n) \notin suspect \cup InHand => Accounted(s, TokenFile(s, n))

\* What a command must find in order when it ends, of the names it is about.
PendingAdd ==
    cmd.op = "add" /\ TokenFile(cmd.scope, cmd.name) \notin suspect =>
        /\ cmd.row.file \in UserFiles \/ cmd.step # "save" => Accounted(cmd.scope, TokenFile(cmd.scope, cmd.name))
        /\ cmd.step # "save" /\ HasRow(cmd.scope, cmd.name) => Given(cmd.scope, cmd.name) \in meant[cmd.scope][cmd.name]
PendingRename ==
    cmd.op = "rename" =>
        LET own == TokenFile(cmd.scope, cmd.name)  to == TokenFile(cmd.scope, cmd.to)  f == cmd.row.file IN
        /\ to \notin shared => files[f] \in meant[cmd.scope][cmd.name] \cup {Missing}
        /\ own \in suspect => to \in suspect
        /\ own \notin suspect => files[f] \in meant[cmd.scope][cmd.name]
        /\ own \notin suspect => f = own \/ AccountedBut(cmd.scope, own, cmd.name)
        /\ to \notin suspect => f = to \/ AccountedBut(cmd.scope, to, cmd.name)

Settled == chosen.name # Nobody => cmd = NoCommand /\ credential = chosen.name /\ chosen.name \in Names

FilesInv ==
    /\ Course /\ Placed /\ Alone /\ CommandAlone /\ Marked /\ UserFilesKept
    /\ OwnTokenOrNone /\ Kept /\ Tracked /\ PendingAdd /\ PendingRename /\ Settled

-----------------------------------------------------------------------------
(* The menu.  Its rows are those of the registry until another command     *)
(* runs; during its own removal all but the one under the cursor are.      *)

\* A row is true of a registry; all of a list are, but the one at k; no two
\* of a list are of the same credential.
RowTrue(row, reg) == reg[row.scope][row.name] # NoRow /\ reg[row.scope][row.name].site = row.site
Told(rows, k, reg) == \A i \in DOMAIN rows : i # k => RowTrue(rows[i], reg)
Apart(rows) == \A i, j \in DOMAIN rows : i # j => rows[i].scope # rows[j].scope \/ rows[i].name # rows[j].name

Hole == IF cmd.op = "rm" /\ cmd.menu THEN Cursor(menu) ELSE 0

MenuInv ==
    /\ cmd.menu => /\ menu.kind = "manager" /\ Visible(menu) # <<>>
                   /\ Current(menu).scope = cmd.scope /\ Current(menu).name = cmd.name
    /\ cmd # NoCommand /\ ~cmd.menu /\ menu.kind # "none" => stale
    /\ menu.idx > 0 => menu.idx < Len(Visible(menu))
    /\ menu.kind # "none" /\ ~stale => Told(menu.rows, Hole, registry) /\ Apart(menu.rows)

CredInv == TypeOK /\ FilesInv /\ MenuInv

-----------------------------------------------------------------------------
(* Sets of numbers in order, and rows taken out of a list.                 *)

\* The members of a finite set of numbers come in order, each once.
LEMMA InOrderLists ==
  ASSUME NEW S \in SUBSET Nat, IsFiniteSet(S)
  PROVE  /\ InOrder(S) \in Seq(S)
         /\ Len(InOrder(S)) = Cardinality(S) /\ Cardinality(S) \in Nat
         /\ DOMAIN InOrder(S) = 1..Cardinality(S)
         /\ \A i, j \in 1..Cardinality(S) : InOrder(S)[i] = InOrder(S)[j] => i = j
<1> DEFINE Below(n) == {m \in S : m < n}
           rank == [n \in S |-> Cardinality(Below(n))]
           c == Cardinality(S)
           T == 0 .. (c - 1)
<1>1. c \in Nat
  BY FS_CardinalityType
<1>2. ASSUME NEW n \in S PROVE IsFiniteSet(Below(n)) /\ Cardinality(Below(n)) \in T
  <2>1. Below(n) \in SUBSET (S \ {n})
    OBVIOUS
  <2>2. IsFiniteSet(S \ {n}) /\ Cardinality(S \ {n}) = c - 1
    BY FS_RemoveElement
  <2>3. IsFiniteSet(Below(n)) /\ Cardinality(Below(n)) =< c - 1
    BY <2>1, <2>2, FS_Subset
  <2>4. Cardinality(Below(n)) \in Nat
    BY <2>3, FS_CardinalityType
  <2> HIDE DEF Below
  <2>5. Cardinality(Below(n)) \in T
    <3> HIDE DEF c
    <3> QED
      BY <1>1, <2>3, <2>4
  <2> QED
    BY <2>3, <2>5
<1>3. ASSUME NEW a \in S, NEW b \in S, a < b PROVE rank[a] # rank[b]
  <2>1. Below(a) \in SUBSET Below(b) /\ a \in Below(b) /\ a \notin Below(a)
    <3>1. \A m \in S : m \in Nat
      OBVIOUS
    <3>2. \A m \in S : m < a => m < b
      BY <1>3, <3>1
    <3>3. ~(a < a)
      BY <3>1
    <3> QED
      BY <1>3, <3>2, <3>3
  <2>2. Cardinality(Below(a)) # Cardinality(Below(b))
    BY <1>2, <2>1, FS_Subset
  <2> QED
    BY <2>2
<1>4. rank \in Injection(S, T)
  <2>1. rank \in [S -> T]
    BY <1>2
  <2>2. \A a, b \in S : rank[a] = rank[b] => a = b
    BY <1>3
  <2> HIDE DEF rank, T
  <2> QED
    BY <2>1, <2>2 DEF Injection, IsInjective
<1>5. IsFiniteSet(T) /\ Cardinality(T) = c
  <2> HIDE DEF c
  <2>0. 0 \in Int /\ c - 1 \in Int
    BY <1>1
  <2>1. /\ IsFiniteSet(0 .. (c - 1))
        /\ Cardinality(0 .. (c - 1)) = IF 0 > c - 1 THEN 0 ELSE (c - 1) - 0 + 1
    BY <2>0, FS_Interval, Zenon
  <2> QED
    BY <1>1, <2>1
<1>6. rank \in Surjection(S, T)
  BY <1>4, <1>5, FS_Injection
<1>7. ASSUME NEW i \in 1..c PROVE InOrder(S)[i] \in S /\ Cardinality(Below(InOrder(S)[i])) = i - 1
  <2>1. i - 1 \in T
    BY <1>1
  <2>2. PICK k \in S : rank[k] = i - 1
    BY <1>6, <2>1 DEF Surjection
  <2>3. \E n \in S : Cardinality({m \in S : m < n}) = i - 1
    BY <2>2
  <2>4. InOrder(S)[i] = CHOOSE n \in S : Cardinality({m \in S : m < n}) = i - 1
    BY DEF InOrder
  <2> QED
    BY <2>3, <2>4
<1>8. InOrder(S) = [i \in 1..c |-> InOrder(S)[i]]
  <2> DEFINE nth(i) == CHOOSE n \in S : Cardinality({m \in S : m < n}) = i - 1
  <2>1. InOrder(S) = [i \in 1..c |-> nth(i)]
    BY Zenon DEF InOrder
  <2> HIDE DEF nth, c
  <2> QED
    BY <2>1
<1>9. DOMAIN InOrder(S) = 1..c
  BY <1>8
<1>10. InOrder(S) \in [1..c -> S]
  BY <1>7, <1>8
<1> HIDE DEF c, Below
<1>11. InOrder(S) \in Seq(S) /\ Len(InOrder(S)) = c
  BY <1>1, <1>10
<1>12. \A i, j \in 1..c : InOrder(S)[i] = InOrder(S)[j] => i = j
  <2> SUFFICES ASSUME NEW i \in 1..c, NEW j \in 1..c, InOrder(S)[i] = InOrder(S)[j] PROVE i = j
    OBVIOUS
  <2>1. i - 1 = j - 1
    BY <1>7
  <2> QED
    BY <1>1, <2>1
<1> QED
  BY <1>1, <1>9, <1>11, <1>12 DEF c

\* RemoveAt takes out one place and closes the gap.
LEMMA RemoveAtPlaces ==
  ASSUME NEW S, NEW s \in Seq(S), NEW i \in 1..Len(s)
  PROVE  /\ RemoveAt(s, i) \in Seq(S) /\ Len(RemoveAt(s, i)) = Len(s) - 1
         /\ \A j \in 1..Len(s) - 1 : RemoveAt(s, i)[j] = IF j < i THEN s[j] ELSE s[j + 1]
<1> DEFINE a == SubSeq(s, 1, i - 1)
           b == SubSeq(s, i + 1, Len(s))
<1>1. Len(s) \in Nat /\ \A j \in 1..Len(s) : s[j] \in S
  OBVIOUS
<1>2. a \in Seq(S) /\ Len(a) = i - 1 /\ \A j \in 1..(i - 1) : a[j] = s[j]
  BY <1>1, SubSeqProperties
<1>3. b \in Seq(S) /\ Len(b) = Len(s) - i /\ \A j \in 1..(Len(s) - i) : b[j] = s[i + j]
  BY <1>1, SubSeqProperties
<1>4. RemoveAt(s, i) = a \o b
  BY DEF RemoveAt
<1> HIDE DEF a, b
<1>5. /\ a \o b \in Seq(S) /\ Len(a \o b) = Len(s) - 1
      /\ \A j \in 1..Len(a) + Len(b) : (a \o b)[j] = IF j =< Len(a) THEN a[j] ELSE b[j - Len(a)]
  BY <1>1, <1>2, <1>3, ConcatProperties
<1> QED
  BY <1>1, <1>2, <1>3, <1>4, <1>5

-----------------------------------------------------------------------------
(* The steps, told apart by what they do to the files and the menu.        *)

Sites0 == Sites \cup {NoSite}
Menus == [kind: {"none", "manager", "picker"}, here: BOOLEAN, rows: Seq(Listed),
          idx: Nat, target: Sites0, all: BOOLEAN]

\* A command typed in another terminal, or given to the row under the cursor.
OnCursor(byMenu, s, n) == byMenu => OnRow /\ Known(Current(menu)) /\ Current(menu).scope = s /\ Current(menu).name = n
InManager(byMenu) == byMenu => menu.kind = "manager"

LoginStep ==
    \E here \in BOOLEAN, s \in Scopes, n \in Names, site \in Sites0, f \in Files, t \in Tokens \cup {UserToken} :
          /\ here \/ s = "local" => workspace
          /\ \/ f = TokenFile(s, n) /\ t \in Tokens
             \/ f \in UserFiles /\ t = files[f]
          /\ Login(here, s, n, f, t, site)
RemoveStep ==
    \E s \in Scopes, n \in Names, b \in BOOLEAN : OnCursor(b, s, n) /\ InManager(b) /\ RemoveRow(s, n, b)
RenameStep ==
    \E s \in Scopes, n \in Names, b \in BOOLEAN, new \in Names, padded \in BOOLEAN :
       OnCursor(b, s, n) /\ InManager(b) /\ Rename(s, n, new, b, padded)
LinkStep ==
    \E s \in Scopes, n \in Names, b \in BOOLEAN, site \in Sites : OnCursor(b, s, n) /\ SetSite(s, n, site, b)
OpenStep ==
    \E here \in BOOLEAN, kind \in {"manager", "picker"}, site \in Sites0 : OpenMenu(kind, here, site)
LeaveStep == cmd = NoCommand /\ CloseMenu
ChooseStep ==
    \/ \E name \in Names \cup {Nobody} : cmd = NoCommand /\ Record(name) /\ menu' \in {menu, NoMenu} /\ stale' = stale
    \/ cmd = NoCommand /\ UNCHANGED <<windows, disk, cmd, commands, ghosts>> /\ menu' = NoMenu

Steps ==
    \/ LoginStep \/ RemoveStep \/ RenameStep \/ LinkStep
    \/ SaveRow \/ ReadRegistered \/ SaveConfig \/ Unlink \/ SaveRename \/ CutShort
    \/ OpenStep \/ LeaveStep \/ Arrow \/ Toggle \/ ChooseStep

\* The places a menu shows.
Shown(m) == {i \in DOMAIN m.rows : m.all \/ m.target = NoSite \/ MatchesSite(m.rows[i], m.target)}

LEMMA VisibleRows ==
  ASSUME NEW m, m.rows \in Seq(Listed)
  PROVE  /\ Visible(m) \in Seq(DOMAIN m.rows) /\ Len(Visible(m)) \in Nat
         /\ Len(Visible(m)) = Cardinality(Shown(m))
         /\ DOMAIN Visible(m) = 1..Len(Visible(m))
         /\ Shown(m) \in SUBSET (1..Len(m.rows)) /\ IsFiniteSet(Shown(m)) /\ DOMAIN m.rows = 1..Len(m.rows)
         /\ Visible(m) = <<>> <=> Len(Visible(m)) = 0
<1>1. DOMAIN m.rows = 1..Len(m.rows) /\ Len(m.rows) \in Nat
  OBVIOUS
<1>2. Shown(m) \in SUBSET (1..Len(m.rows))
  BY <1>1 DEF Shown
<1>3. IsFiniteSet(Shown(m))
  <2>1. 1 \in Int /\ Len(m.rows) \in Int
    BY <1>1
  <2>2. IsFiniteSet(1..Len(m.rows))
    BY <2>1, FS_Interval, Zenon
  <2> HIDE DEF Shown
  <2> QED
    BY <1>2, <2>2, FS_Subset, Zenon
<1>4. Shown(m) \in SUBSET Nat
  BY <1>1, <1>2
<1>5. Visible(m) = InOrder(Shown(m))
  BY DEF Visible, Shown
<1>6. Visible(m) \in Seq(Shown(m)) /\ Len(Visible(m)) = Cardinality(Shown(m))
  BY <1>3, <1>4, <1>5, InOrderLists
<1>7. Visible(m) \in Seq(DOMAIN m.rows)
  BY <1>1, <1>2, <1>6, SeqMonotonic
<1> HIDE DEF Shown
<1> QED
  BY <1>1, <1>2, <1>3, <1>6, <1>7

\* A cursor on the list is on a row.
LEMMA CursorOnRow ==
  ASSUME NEW m \in Menus, m.idx > 0 => m.idx < Len(Visible(m)), Visible(m) # <<>>
  PROVE  /\ Cursor(m) \in 1..Len(m.rows) /\ Cursor(m) \in DOMAIN m.rows
         /\ Current(m) \in Listed /\ Current(m) = m.rows[Cursor(m)]
         /\ m.idx < Len(Visible(m)) /\ Len(m.rows) \in Nat
<1>1. m.rows \in Seq(Listed) /\ m.idx \in Nat
  BY DEF Menus
<1>2. /\ Visible(m) \in Seq(DOMAIN m.rows) /\ Len(Visible(m)) \in Nat /\ Len(Visible(m)) # 0
      /\ DOMAIN m.rows = 1..Len(m.rows)
  BY <1>1, VisibleRows
<1>3. m.idx + 1 \in 1..Len(Visible(m))
  BY <1>1, <1>2
<1>4. Cursor(m) \in DOMAIN m.rows
  BY <1>2, <1>3, ElementOfSeq DEF Cursor
<1> QED
  BY <1>1, <1>2, <1>3, <1>4 DEF Current

LEMMA MenuOf == TypeOK => menu \in Menus
  BY DEF TypeOK, Menus, Sites0

\* Every step is one of Steps.
LEMMA StepsCover == CredInv /\ Next => Steps
<1> SUFFICES ASSUME CredInv, Next PROVE Steps
  OBVIOUS
<1>0. TypeOK /\ UserFilesKept /\ MenuInv /\ menu \in Menus
  BY MenuOf DEF CredInv, FilesInv
<1>a. ASSUME NEW here \in BOOLEAN, NEW n \in Names PROVE ScopeOf(n, here) \in Scopes
  BY DEF ScopeOf, Scopes
<1>b. ASSUME OnRow
      PROVE  /\ Current(menu) \in Listed /\ Current(menu).scope \in Scopes /\ Current(menu).name \in Names
             /\ Current(menu).padded \in BOOLEAN
  <2>1. Current(menu) \in Listed
    BY <1>0, <1>b, CursorOnRow DEF OnRow, MenuInv
  <2> QED
    BY <2>1 DEF Listed
<1>1. ASSUME NEW here \in BOOLEAN, NEW force \in BOOLEAN, NEW s \in Scopes, NEW n \in Names, NEW site \in Sites0,
             NEW t \in Tokens, Add(here, s, n, t, site, force)
      PROVE  LoginStep
  <2>1. TokenFile(s, n) \in Files /\ t \in Tokens \cup {UserToken}
    BY DEF Files, ManagedFiles
  <2>2. Login(here, s, n, TokenFile(s, n), t, site)
    BY <1>1 DEF Add
  <2>3. here \/ s = "local" => workspace
    BY <2>2 DEF Login
  <2> QED
    BY <2>1, <2>2, <2>3, Zenon DEF LoginStep
<1>2. ASSUME NEW here \in BOOLEAN, NEW force \in BOOLEAN, NEW s \in Scopes, NEW n \in Names, NEW site \in Sites0,
             NEW f \in UserFiles, AddPath(here, s, n, f, site, force)
      PROVE  LoginStep
  <2>1. Login(here, s, n, f, files[f], site)
    BY <1>2 DEF AddPath
  <2>2. here \/ s = "local" => workspace
    BY <2>1 DEF Login
  <2>3. files[f] \in Tokens \cup {UserToken} /\ f \in Files
    BY <1>0 DEF UserFilesKept, Files
  <2> QED
    BY <2>1, <2>2, <2>3, Zenon DEF LoginStep
<1>3. ASSUME NEW here \in BOOLEAN, NEW n \in Names, Flags(here, n) PROVE Steps
  <2> DEFINE s == ScopeOf(n, here)
  <2>1. s \in Scopes
    BY <1>a
  <2> HIDE DEF s
  <2>3. ASSUME RemoveRow(s, n, FALSE) PROVE RemoveStep
    <3>1. OnCursor(FALSE, s, n) /\ InManager(FALSE)
      BY Zenon DEF OnCursor, InManager
    <3>2. FALSE \in BOOLEAN
      OBVIOUS
    <3> QED
      BY <2>1, <2>3, <3>1, <3>2, Zenon DEF RemoveStep
  <2>4. ASSUME NEW new \in Names, Rename(s, n, new, FALSE, FALSE) PROVE RenameStep
    <3>1. OnCursor(FALSE, s, n) /\ InManager(FALSE)
      BY Zenon DEF OnCursor, InManager
    <3>2. FALSE \in BOOLEAN
      OBVIOUS
    <3> QED
      BY <2>1, <2>4, <3>1, <3>2, Zenon DEF RenameStep
  <2>5. ASSUME NEW site \in Sites, SetSite(s, n, site, FALSE) PROVE LinkStep
    <3>1. OnCursor(FALSE, s, n)
      BY Zenon DEF OnCursor
    <3>2. FALSE \in BOOLEAN
      OBVIOUS
    <3> QED
      BY <2>1, <2>5, <3>1, <3>2, Zenon DEF LinkStep
  <2> QED
    BY <1>3, <2>3, <2>4, <2>5, Zenon DEF Flags, s, Steps
<1>4. ASSUME Key PROVE Steps
  <2> DEFINE row == Current(menu)
  <2>1. OnRow /\ row.scope \in Scopes /\ row.name \in Names
    BY <1>4, <1>b DEF Key
  <2>2. TRUE \in BOOLEAN
    OBVIOUS
  <2>3. ASSUME Known(row) PROVE OnCursor(TRUE, row.scope, row.name)
    BY <2>1, <2>3, Zenon DEF OnCursor
  <2>4. ASSUME menu.kind = "manager" PROVE InManager(TRUE)
    BY <2>4, Zenon DEF InManager
  <2>5. CASE menu.kind = "manager" /\ Known(row) /\ RemoveRow(row.scope, row.name, TRUE)
    BY <2>1, <2>2, <2>3, <2>4, <2>5, Zenon DEF RemoveStep, Steps
  <2>6. CASE \E new \in Names, padded \in BOOLEAN :
               menu.kind = "manager" /\ Known(row) /\ Rename(row.scope, row.name, new, TRUE, padded)
    BY <2>1, <2>2, <2>3, <2>4, <2>6, Zenon DEF RenameStep, Steps
  <2>7. CASE \E site \in Sites : Known(row) /\ SetSite(row.scope, row.name, site, TRUE)
    BY <2>1, <2>2, <2>3, <2>7, Zenon DEF LinkStep, Steps
  <2>8. CASE ~Known(row) /\ CloseMenu
    BY <2>1, <2>8 DEF LeaveStep, OnRow, InMenu, Steps
  <2> QED
    BY <1>4, <2>5, <2>6, <2>7, <2>8, Zenon DEF Key
<1>5. ASSUME Quit PROVE Steps
  BY <1>5 DEF Quit, InMenu, LeaveStep, Steps
<1>6. ASSUME Enter PROVE Steps
  <2>1. CASE workspace
    BY <1>6, <2>1 DEF Enter, OnRow, InMenu, ChooseStep, Steps
  <2>2. CASE ~workspace
    <3>1. cmd = NoCommand /\ Record(Current(menu).name) /\ stale' = stale /\ menu' \in {menu, NoMenu}
      BY <1>6, <2>2 DEF Enter, OnRow, InMenu
    <3>2. Current(menu).name \in Names \cup {Nobody}
      BY <1>6, <1>b DEF Enter
    <3> QED
      BY <3>1, <3>2, Zenon DEF ChooseStep, Steps
  <2> QED
    BY <2>1, <2>2
<1>7. ASSUME PickSilently PROVE Steps
  <2>1. PICK name \in Available(FALSE) \cup {Nobody} : Record(name)
    BY <1>7, Zenon DEF PickSilently
  <2>2. name \in Names \cup {Nobody}
    BY <2>1 DEF Available
  <2>3. cmd = NoCommand /\ stale' = stale /\ menu' \in {menu, NoMenu}
    BY <1>7 DEF PickSilently
  <2> QED
    BY <2>1, <2>2, <2>3, Zenon DEF ChooseStep, Steps
<1>8. ASSUME NEW here \in BOOLEAN, NEW kind \in {"manager", "picker"}, NEW site \in Sites0, OpenMenu(kind, here, site)
      PROVE  Steps
  BY <1>8, Zenon DEF OpenStep, Steps
<1>9. CASE \E here, force \in BOOLEAN, s \in Scopes, n \in Names, site \in Sites \cup {NoSite} :
             \/ \E t \in Tokens : Add(here, s, n, t, site, force)
             \/ \E f \in UserFiles : AddPath(here, s, n, f, site, force)
  BY <1>1, <1>2, <1>9, Zenon DEF Sites0, Steps
<1>10. CASE \E here \in BOOLEAN, n \in Names : Flags(here, n)
  BY <1>3, <1>10, Zenon
<1>11. CASE \E here \in BOOLEAN, kind \in {"manager", "picker"}, site \in Sites \cup {NoSite} : OpenMenu(kind, here, site)
  BY <1>8, <1>11, Zenon DEF Sites0
<1>12. CASE SaveRow \/ ReadRegistered \/ SaveConfig \/ Unlink \/ SaveRename \/ CutShort \/ Arrow \/ Toggle
  BY <1>12, Zenon DEF Steps
<1> QED
  BY <1>4, <1>5, <1>6, <1>7, <1>9, <1>10, <1>11, <1>12, Zenon DEF Next

-----------------------------------------------------------------------------
(* The names of files.                                                     *)

LEMMA FileNames ==
  /\ \A s \in Scopes, n \in Names : TokenFile(s, n) \in ManagedFiles /\ TokenFile(s, n) \notin UserFiles /\ TokenFile(s, n) # NoFile
  /\ \A s, t, n, m : TokenFile(s, n) = TokenFile(t, m) => s = t
  /\ \A f \in ManagedFiles : \E s \in Scopes, n \in Names : f = TokenFile(s, n)
  /\ \A s, t, n : IsManaged(s, TokenFile(t, n)) <=> s = t
  /\ \A s \in Scopes, u \in UserFiles : ~IsManaged(s, u) /\ u \notin ManagedFiles
  /\ NoFile \notin Files /\ Files = ManagedFiles \cup UserFiles
  BY DEF TokenFile, ManagedFiles, UserFiles, UserFile, TypedFile, Files, NoFile, IsManaged, Scopes

LEMMA RowFiles ==
  /\ \A row \in Rows : row.file \in Files /\ row.site \in Sites0 /\ row # NoRow
  /\ \A row \in Rows, f \in Files : [row EXCEPT !.file = f] \in Rows
  /\ NoRow.file = NoFile /\ NoRow.site = NoSite
<1>1. \A row \in Rows : row.file \in Files /\ row.site \in Sites0
  BY DEF Rows, Sites0
<1>2. NoRow.file = NoFile /\ NoRow.site = NoSite
  BY DEF NoRow
<1>3. \A row \in Rows, f \in Files : [row EXCEPT !.file = f] \in Rows
  BY DEF Rows
<1>4. NoFile \notin Files
  BY FileNames
<1> QED
  BY <1>1, <1>2, <1>3, <1>4

LEMMA NoCommandIs ==
  /\ NoCommand \in Command /\ NoCommand.op = "none" /\ NoCommand.step = "none" /\ ~NoCommand.menu
  /\ NoCommand.name = Nobody /\ NoCommand.to = Nobody /\ NoCommand.scope = "global"
  BY DEF NoCommand, Command, Scopes

\* No command is about no credential.
LEMMA NothingInHand ==
  ASSUME cmd = NoCommand
  PROVE  InHand = {} /\ \A s \in Scopes, n \in Names : ~About(s, n)
  BY NoCommandIs, CredentialAssumption DEF InHand, About

\* The types, but for the menu's.
DataTyped ==
    /\ windows \in BOOLEAN /\ workspace \in BOOLEAN
    /\ registry \in [Scopes -> [Names -> Rows \cup {NoRow}]]
    /\ \A n \in Names : registry["local"][n] # NoRow => workspace
    /\ files \in [Files -> Tokens \cup {UserToken, Missing}]
    /\ credential \in Names \cup {Nobody}
    /\ cmd \in Command
    /\ commands \in 0..MaxCommands
    /\ meant \in [Scopes -> [Names -> SUBSET (Tokens \cup {UserToken})]]
    /\ suspect \subseteq ManagedFiles /\ replaced \subseteq ManagedFiles
    /\ shared \subseteq ManagedFiles /\ stale \in BOOLEAN
    /\ chosen \in [scope: Scopes, name: Names \cup {Nobody}]

LEMMA TypeOKIs == TypeOK <=> DataTyped /\ menu \in Menus
  BY DEF TypeOK, DataTyped, Menus, Sites0

\* One place of a table of tables.
LEMMA OneCell ==
  ASSUME NEW V, NEW g \in [Scopes -> [Names -> V]], NEW s \in Scopes, NEW n \in Names, NEW v \in V,
         NEW h, h = [g EXCEPT ![s][n] = v]
  PROVE  /\ h \in [Scopes -> [Names -> V]] /\ h[s][n] = v
         /\ \A t \in Scopes, m \in Names : <<t, m>> # <<s, n>> => h[t][m] = g[t][m]
  OBVIOUS

LEMMA TwoCells ==
  ASSUME NEW V, NEW g \in [Scopes -> [Names -> V]], NEW s \in Scopes, NEW n \in Names, NEW m \in Names,
         NEW v \in V, NEW w \in V, n # m, NEW h, h = [g EXCEPT ![s][n] = v, ![s][m] = w]
  PROVE  /\ h \in [Scopes -> [Names -> V]] /\ h[s][n] = v /\ h[s][m] = w
         /\ \A t \in Scopes, k \in Names : <<t, k>> \notin {<<s, n>>, <<s, m>>} => h[t][k] = g[t][k]
  OBVIOUS

-----------------------------------------------------------------------------
(* The steps keep the files in order.                                      *)

\* The file of a row is the user's, or one of its scope: its own unless that
\* one is marked.  What has no row has no file.
LEMMA RowFile ==
  ASSUME DataTyped, FilesInv, NEW r \in Scopes, NEW m \in Names
  PROVE  /\ HasRow(r, m) => /\ registry[r][m] \in Rows /\ registry[r][m].file \in Files
                            /\ Belongs(registry[r][m].file, r, m)
                            /\ IsManaged(r, registry[r][m].file) <=> registry[r][m].file \in ManagedFiles
         /\ registry[r][m].file \in Files => HasRow(r, m)
         /\ registry[r][m].file \in ManagedFiles => \E k \in Names : registry[r][m].file = TokenFile(r, k)
         /\ TokenFile(r, m) \notin suspect => TokenFile(r, m) \notin shared
         /\ HasRow(r, m) /\ TokenFile(r, m) \notin shared =>
               registry[r][m].file = TokenFile(r, m) \/ registry[r][m].file \in UserFiles
<1>0. Placed /\ Marked
  BY DEF FilesInv
<1>1. ASSUME HasRow(r, m)
      PROVE  registry[r][m] \in Rows /\ registry[r][m].file \in Files /\ Belongs(registry[r][m].file, r, m)
  BY <1>0, <1>1, RowFiles DEF Placed, HasRow, DataTyped
<1>2. registry[r][m].file \in Files => HasRow(r, m)
  BY RowFiles, FileNames DEF HasRow
<1>3. registry[r][m].file \in ManagedFiles => \E k \in Names : registry[r][m].file = TokenFile(r, k)
  BY <1>1, <1>2, FileNames DEF Belongs
<1>4. HasRow(r, m) => (IsManaged(r, registry[r][m].file) <=> registry[r][m].file \in ManagedFiles)
  BY <1>1, <1>3, FileNames
<1> QED
  BY <1>0, <1>1, <1>2, <1>3, <1>4 DEF Belongs, Marked

LEMMA FilesLogin ==
  ASSUME DataTyped, FilesInv, NEW here \in BOOLEAN, NEW s \in Scopes, NEW n \in Names, NEW site \in Sites0,
         NEW f \in Files, NEW t \in Tokens \cup {UserToken},
         here \/ s = "local" => workspace,
         \/ f = TokenFile(s, n) /\ t \in Tokens
         \/ f \in UserFiles /\ t = files[f],
         Login(here, s, n, f, t, site)
  PROVE  DataTyped' /\ FilesInv'
<1> DEFINE c == [op |-> "add", step |-> "save", here |-> here, menu |-> FALSE, padded |-> FALSE,
                 scope |-> s, name |-> n, to |-> n, row |-> [file |-> f, site |-> site]]
           taken == IF f \in ManagedFiles /\ Shares(s, n, n) THEN {f} ELSE {}
<1>0. /\ Course /\ Placed /\ Alone /\ Marked /\ UserFilesKept /\ OwnTokenOrNone /\ Kept /\ Tracked /\ Settled
  BY DEF FilesInv
<1>1. /\ cmd = NoCommand /\ cmd' = c /\ chosen' = NoChoice /\ commands' \in 0..MaxCommands
      /\ stale' \in BOOLEAN
      /\ shared' = shared \cup taken /\ suspect' = suspect \cup taken
      /\ UNCHANGED <<windows, registry, workspace, credential, menu, replaced>>
  <2>1. stale' \in BOOLEAN
    <3>1. (menu.kind # "none") \in BOOLEAN
      OBVIOUS
    <3> QED
      BY <3>1 DEF Login, Begin, DataTyped
  <2>2. commands' \in 0..MaxCommands
    BY CredentialAssumption DEF Login, Begin, DataTyped
  <2> QED
    BY <2>1, <2>2 DEF Login, Begin
<1>2. /\ files' \in [Files -> Tokens \cup {UserToken, Missing}]
      /\ files'[f] = t /\ \A g \in Files : g # f => files'[g] = files[g]
  BY DEF Login, DataTyped
<1>3. /\ meant' \in [Scopes -> [Names -> SUBSET (Tokens \cup {UserToken})]]
      /\ t \in meant'[s][n]
      /\ \A r \in Scopes, m \in Names : meant[r][m] \subseteq meant'[r][m]
  BY DEF Login, DataTyped
<1>4. /\ c \in Command /\ c.op = "add" /\ c.step = "save" /\ c.menu = FALSE /\ c.scope = s /\ c.name = n /\ c.to = n
      /\ c.row \in Rows /\ c.row.file = f
  <2>1. [file |-> f, site |-> site] \in Rows
    BY DEF Rows, Sites0
  <2> QED
    BY <2>1 DEF Command
<1> HIDE DEF c
<1>5. taken \in SUBSET ManagedFiles
  OBVIOUS
<1>6. f \in ManagedFiles => f = TokenFile(s, n)
  BY FileNames
<1>7. f \in UserFiles => files' = files /\ t = files[f]
  BY <1>2, <1>6, FileNames DEF DataTyped
<1>8. ASSUME NEW m \in Names, m # n, f \in ManagedFiles, registry[s][m].file = f PROVE f \in taken
  BY <1>6, <1>8 DEF Shares
<1> HIDE DEF taken
<1>9. DataTyped'
  <2>1. chosen' \in [scope: Scopes, name: Names \cup {Nobody}]
    BY <1>1 DEF NoChoice, Scopes
  <2> QED
    BY <1>1, <1>2, <1>3, <1>4, <1>5, <2>1 DEF DataTyped
<1>10. ASSUME NEW r \in Scopes, NEW m \in Names, HasRow(r, m), TokenFile(r, m) \notin shared'
       PROVE  /\ registry[r][m].file = TokenFile(r, m) \/ registry[r][m].file \in UserFiles
              /\ registry[r][m].file \in Files
              /\ registry[r][m].file # f \/ f \in UserFiles \/ (r = s /\ m = n)
  <2>1. TokenFile(r, m) \notin shared
    BY <1>1, <1>10
  <2>2. /\ registry[r][m].file = TokenFile(r, m) \/ registry[r][m].file \in UserFiles
        /\ registry[r][m].file \in Files
    BY <1>10, <2>1, RowFile
  <2>3. ASSUME registry[r][m].file = f, f \notin UserFiles PROVE r = s /\ m = n
    <3>1. f = TokenFile(s, n) /\ f \in ManagedFiles /\ f = TokenFile(r, m)
      BY <2>2, <2>3, <1>6, FileNames
    <3>2. r = s
      BY <3>1, FileNames
    <3>3. m = n
      BY <1>1, <1>8, <1>10, <2>3, <3>1, <3>2
    <3> QED
      BY <3>2, <3>3
  <2> QED
    BY <2>2, <2>3
<1>11. Placed' /\ Alone' /\ Marked'
  BY <1>0, <1>1 DEF Placed, HasRow, Belongs, Alone, Marked
<1>12. CommandAlone'
  BY <1>1, <1>4, <1>8 DEF CommandAlone
<1>13. UserFilesKept'
  BY <1>0, <1>2, <1>6, <1>7, FileNames DEF UserFilesKept
<1>14. ASSUME NEW r \in Scopes, NEW m \in Names, HasRow(r, m), TokenFile(r, m) \notin shared', ~(r = s /\ m = n)
       PROVE  files'[registry[r][m].file] = files[registry[r][m].file]
  BY <1>2, <1>7, <1>10, <1>14
<1>15. OwnTokenOrNone'
  <2> SUFFICES ASSUME NEW r \in Scopes, NEW m \in Names, HasRow(r, m), TokenFile(r, m) \notin shared'
               PROVE  files'[registry[r][m].file] \in meant'[r][m] \cup {Missing}
    BY <1>1 DEF OwnTokenOrNone, HasRow, Given
  <2>1. files[registry[r][m].file] \in meant[r][m] \cup {Missing}
    BY <1>0, <1>1 DEF OwnTokenOrNone, Given
  <2>2. registry[r][m].file = f \/ files'[registry[r][m].file] = files[registry[r][m].file]
    BY <1>2, <1>10
  <2>3. CASE r = s /\ m = n
    BY <1>2, <1>3, <2>1, <2>2, <2>3
  <2>4. CASE ~(r = s /\ m = n)
    BY <1>3, <1>14, <2>1, <2>4
  <2> QED
    BY <2>3, <2>4
<1>16. Kept'
  <2> SUFFICES ASSUME NEW r \in Scopes, NEW m \in Names, HasRow(r, m), TokenFile(r, m) \notin suspect', ~(r = s /\ m = n)
               PROVE  files'[registry[r][m].file] \in meant'[r][m]
    BY <1>1, <1>4 DEF Kept, HasRow, Given, About
  <2>1. TokenFile(r, m) \notin shared' /\ TokenFile(r, m) \notin suspect
    BY <1>1, <1>11 DEF Marked
  <2>2. Given(r, m) \in meant[r][m]
    BY <1>0, <1>1, <2>1, NothingInHand DEF Kept
  <2> QED
    BY <1>3, <1>14, <2>1, <2>2 DEF Given
<1>17. Tracked'
  <2> SUFFICES ASSUME NEW r \in Scopes, NEW m \in Names, TokenFile(r, m) \notin suspect', TokenFile(r, m) # TokenFile(s, n)
               PROVE  AccountedBut(r, TokenFile(r, m), Nobody)'
    BY <1>1, <1>4 DEF Tracked, InHand, Accounted
  <2>1. TokenFile(r, m) \in Files /\ TokenFile(r, m) # f
    BY <1>6, FileNames
  <2>2. AccountedBut(r, TokenFile(r, m), Nobody)
    BY <1>0, <1>1, NothingInHand DEF Tracked, Accounted
  <2> QED
    BY <1>1, <1>2, <2>1, <2>2 DEF AccountedBut, HasARow
<1>18. PendingAdd'
  <2>1. cmd'.op = "add" /\ cmd'.step = "save" /\ cmd'.scope = s /\ cmd'.name = n /\ cmd'.row.file = f
    BY <1>1, <1>4
  <2>2. ASSUME TokenFile(s, n) \notin suspect', f \in UserFiles PROVE Accounted(s, TokenFile(s, n))'
    <3>1. Accounted(s, TokenFile(s, n))
      BY <1>0, <1>1, <2>2, NothingInHand DEF Tracked
    <3> QED
      BY <1>1, <1>7, <2>2, <3>1 DEF Accounted, AccountedBut, HasARow
  <2> QED
    BY <2>1, <2>2 DEF PendingAdd
<1>19. Course'
  <2>1. f = TokenFile(s, n) \/ f \in UserFiles
    OBVIOUS
  <2>2. t # Missing
    BY CredentialAssumption
  <2> QED
    BY <1>1, <1>2, <1>4, <2>1, <2>2 DEF Course, Belongs
<1>20. PendingRename' /\ Settled'
  BY <1>1, <1>4 DEF PendingRename, Settled, NoChoice
<1> QED
  BY <1>9, <1>11, <1>12, <1>13, <1>15, <1>16, <1>17, <1>18, <1>19, <1>20 DEF FilesInv

LEMMA FilesSaveRow == DataTyped /\ FilesInv /\ SaveRow => DataTyped' /\ FilesInv'
<1> SUFFICES ASSUME DataTyped, FilesInv, SaveRow PROVE DataTyped' /\ FilesInv'
  OBVIOUS
<1> DEFINE s == cmd.scope
           n == cmd.name
           f == cmd.row.file
           old == registry[s][n].file
<1>0. /\ Course /\ Placed /\ Alone /\ CommandAlone /\ Marked /\ UserFilesKept
      /\ OwnTokenOrNone /\ Kept /\ Tracked /\ PendingAdd /\ Settled
  BY DEF FilesInv
<1>1. /\ cmd.op = "add" /\ cmd.step = "save" /\ cmd # NoCommand
      /\ s \in Scopes /\ n \in Names /\ cmd.to = n /\ cmd.row \in Rows
      /\ f = TokenFile(s, n) \/ f \in UserFiles
      /\ files[f] # Missing
      /\ s = "local" => workspace
  BY <1>0, NoCommandIs DEF SaveRow, Course, DataTyped, Command
<1>2. /\ registry' = [registry EXCEPT ![s][n] = cmd.row]
      /\ meant' = [meant EXCEPT ![s][n] = {files[f]}]
      /\ replaced' = replaced \cup (({old} \cap ManagedFiles) \ {f})
      /\ UNCHANGED <<windows, files, workspace, credential, menu, commands, suspect, shared, stale, chosen>>
  BY DEF SaveRow
<1>3. cmd' = NoCommand \/ \E step \in {"read", "config"} : cmd' = [cmd EXCEPT !.step = step]
  BY DEF SaveRow
<1>4. files[f] \in Tokens \cup {UserToken} /\ f \in Files
  BY <1>1, FileNames DEF DataTyped
<1>6. /\ registry' \in [Scopes -> [Names -> Rows \cup {NoRow}]] /\ registry'[s][n] = cmd.row
      /\ \A r \in Scopes, m \in Names : <<r, m>> # <<s, n>> => registry'[r][m] = registry[r][m]
  BY <1>1, <1>2 DEF DataTyped
<1>7. /\ meant' \in [Scopes -> [Names -> SUBSET (Tokens \cup {UserToken})]] /\ meant'[s][n] = {files[f]}
      /\ \A r \in Scopes, m \in Names : <<r, m>> # <<s, n>> => meant'[r][m] = meant[r][m]
  BY <1>1, <1>2, <1>4 DEF DataTyped
<1>8. DataTyped'
  <2>1. \A m \in Names : registry'["local"][m] # NoRow => workspace'
    BY <1>1, <1>2, <1>6 DEF DataTyped, Scopes
  <2>2. cmd' \in Command
    <3>1. \A step \in {"read", "config"} : [cmd EXCEPT !.step = step] \in Command
      BY DEF DataTyped, Command
    <3> QED
      BY <1>3, <3>1, NoCommandIs
  <2> QED
    BY <1>2, <1>6, <1>7, <2>1, <2>2 DEF DataTyped
<1>9. /\ cmd'.op = "none" => cmd' = NoCommand
      /\ cmd'.op \in {"none", "add"}
      /\ cmd'.op = "add" => /\ cmd'.step \in {"read", "config"} /\ cmd'.to = n /\ cmd'.scope = s /\ cmd'.name = n
                            /\ cmd'.row = cmd.row /\ ~cmd'.menu
  <2>1. CASE cmd' = NoCommand
    BY <2>1, NoCommandIs
  <2>2. ASSUME NEW step \in {"read", "config"}, cmd' = [cmd EXCEPT !.step = step]
        PROVE  /\ cmd'.op = "add"
               /\ cmd'.step \in {"read", "config"} /\ cmd'.to = n /\ cmd'.scope = s /\ cmd'.name = n
               /\ cmd'.row = cmd.row /\ ~cmd'.menu
    <3>1. ~cmd.menu
      BY <1>0, <1>1 DEF Course
    <3> QED
      BY <1>1, <2>2, <3>1 DEF DataTyped, Command
  <2> QED
    BY <1>3, <2>1, <2>2
<1>10. ASSUME NEW m \in Names, m # n, f \in ManagedFiles, registry[s][m].file = f PROVE f \in shared
  BY <1>0, <1>1, <1>10 DEF CommandAlone
<1>11. f = registry'[s][n].file
  BY <1>6
<1> HIDE DEF s, n, f, old
<1>12. Placed'
  <2> SUFFICES ASSUME NEW r \in Scopes, NEW m \in Names, HasRow(r, m)'
               PROVE  Belongs(registry[r][m].file, r, m)'
    BY DEF Placed
  <2>1. CASE <<r, m>> = <<s, n>>
    BY <1>1, <1>11, <2>1 DEF Belongs
  <2>2. CASE <<r, m>> # <<s, n>>
    BY <1>0, <1>2, <1>6, <2>2 DEF Placed, HasRow, Belongs
  <2> QED
    BY <2>1, <2>2
<1>13. Alone'
  <2> SUFFICES ASSUME NEW r \in Scopes, NEW k \in Names, NEW m \in Names, k # m,
                      registry'[r][k].file \in ManagedFiles, registry'[r][m].file = registry'[r][k].file
               PROVE  registry'[r][k].file \in shared
    BY <1>2 DEF Alone
  <2>1. CASE r = s /\ (k = n \/ m = n)
    BY <1>6, <1>10, <1>11, <2>1
  <2>2. CASE ~(r = s /\ (k = n \/ m = n))
    BY <1>0, <1>6, <2>2 DEF Alone
  <2> QED
    BY <2>1, <2>2
<1>14. CommandAlone'
  BY <1>2, <1>6, <1>9, <1>10 DEF CommandAlone, f
<1>15. UserFilesKept' /\ Marked'
  BY <1>0, <1>2 DEF UserFilesKept, Marked
<1>16. OwnTokenOrNone'
  <2> SUFFICES ASSUME NEW r \in Scopes, NEW m \in Names, HasRow(r, m)', TokenFile(r, m) \notin shared
               PROVE  files[registry'[r][m].file] \in meant'[r][m] \cup {Missing}
    BY <1>2 DEF OwnTokenOrNone, Given
  <2>1. CASE <<r, m>> = <<s, n>>
    BY <1>7, <1>11, <2>1
  <2>2. CASE <<r, m>> # <<s, n>>
    BY <1>0, <1>6, <1>7, <2>2 DEF OwnTokenOrNone, HasRow, Given
  <2> QED
    BY <2>1, <2>2
<1>17. Kept'
  <2> SUFFICES ASSUME NEW r \in Scopes, NEW m \in Names, HasRow(r, m)', TokenFile(r, m) \notin suspect
               PROVE  files[registry'[r][m].file] \in meant'[r][m]
    BY <1>2 DEF Kept, Given
  <2>1. CASE <<r, m>> = <<s, n>>
    BY <1>7, <1>11, <2>1
  <2>2. CASE <<r, m>> # <<s, n>>
    <3>1. ~About(r, m)
      BY <1>1, <2>2 DEF About, s, n
    <3> QED
      BY <1>0, <1>6, <1>7, <2>2, <3>1 DEF Kept, HasRow, Given
  <2> QED
    BY <2>1, <2>2
<1>18. ASSUME NEW r \in Scopes, NEW g \in ManagedFiles, g # f \/ r # s, AccountedBut(r, g, Nobody)
       PROVE  AccountedBut(r, g, Nobody)'
  <2> SUFFICES ASSUME files[g] # Missing, g \notin replaced' PROVE HasARow(r, g, Nobody)'
    BY <1>2 DEF AccountedBut
  <2>1. g \notin replaced
    BY <1>2
  <2>2. PICK k \in Names \ {Nobody} : registry[r][k].file = g
    BY <1>18, <2>1 DEF AccountedBut, HasARow
  <2>3. ~(r = s /\ k = n)
    BY <1>2, <1>18, <2>2 DEF old
  <2>4. registry'[r][k].file = g
    BY <1>6, <2>2, <2>3
  <2> QED
    BY <2>2, <2>4 DEF HasARow
<1>19. ASSUME NEW r \in Scopes, NEW g \in ManagedFiles, r = s, g = TokenFile(s, n), g \notin suspect
       PROVE  AccountedBut(r, g, Nobody)'
  <2>1. CASE f = g
    <3>1. n \in Names \ {Nobody} /\ registry'[r][n].file = g
      BY <1>1, <1>11, <1>19, <2>1, CredentialAssumption
    <3> QED
      BY <3>1 DEF AccountedBut, HasARow
  <2>2. CASE f \in UserFiles
    <3>1. AccountedBut(r, g, Nobody)
      BY <1>0, <1>1, <1>19, <2>2 DEF PendingAdd, Accounted, s, n, f
    <3>2. g # f
      BY <2>2, FileNames
    <3> QED
      BY <1>18, <3>1, <3>2
  <2> QED
    BY <1>1, <1>19, <2>1, <2>2
<1>20. Tracked'
  <2> SUFFICES ASSUME NEW r \in Scopes, NEW m \in Names, TokenFile(r, m) \notin suspect
               PROVE  AccountedBut(r, TokenFile(r, m), Nobody)'
    BY <1>2 DEF Tracked, Accounted
  <2>1. TokenFile(r, m) \in ManagedFiles
    BY FileNames
  <2>2. CASE TokenFile(r, m) = TokenFile(s, n)
    <3>1. r = s
      BY <1>1, <2>2, FileNames
    <3> QED
      BY <1>19, <2>1, <2>2, <3>1
  <2>3. CASE TokenFile(r, m) # TokenFile(s, n)
    <3>1. TokenFile(r, m) \notin InHand
      BY <1>1, <2>3 DEF InHand, s, n
    <3>2. Accounted(r, TokenFile(r, m))
      BY <1>0, <3>1 DEF Tracked
    <3>3. TokenFile(r, m) # f
      BY <1>1, <2>1, <2>3, FileNames
    <3> QED
      BY <1>18, <2>1, <3>2, <3>3 DEF Accounted
  <2> QED
    BY <2>2, <2>3
<1>21. Course'
  BY <1>1, <1>2, <1>9 DEF Course, Belongs, f
<1>22. PendingAdd'
  <2>1. files'[registry'[s][n].file] \in meant'[s][n]
    BY <1>2, <1>7, <1>11
  <2>2. TokenFile(s, n) \in ManagedFiles
    BY <1>1, FileNames
  <2> QED
    BY <1>1, <1>2, <1>9, <1>19, <2>1, <2>2 DEF PendingAdd, Given, Accounted, AccountedBut, HasARow
<1>23. PendingRename' /\ Settled'
  BY <1>0, <1>1, <1>2, <1>9 DEF PendingRename, Settled
<1> QED
  BY <1>8, <1>12, <1>13, <1>14, <1>15, <1>16, <1>17, <1>20, <1>21, <1>22, <1>23 DEF FilesInv

LEMMA FilesRemove ==
  ASSUME DataTyped, FilesInv, NEW s \in Scopes, NEW n \in Names, NEW b \in BOOLEAN, RemoveRow(s, n, b)
  PROVE  DataTyped' /\ FilesInv'
<1> DEFINE row == registry[s][n]
           c == [NoCommand EXCEPT !.op = "rm", !.step = "unlink", !.scope = s, !.name = n,
                                  !.to = n, !.menu = b, !.row = row]
<1>0. /\ Course /\ Placed /\ Alone /\ Marked /\ UserFilesKept /\ OwnTokenOrNone /\ Kept /\ Tracked /\ Settled
  BY DEF FilesInv
<1>1. /\ cmd = NoCommand /\ HasRow(s, n) /\ chosen' = NoChoice /\ commands' \in 0..MaxCommands
      /\ registry' = [registry EXCEPT ![s][n] = NoRow]
      /\ meant' = [meant EXCEPT ![s][n] = {}]
      /\ UNCHANGED <<windows, files, workspace, credential, suspect, shared, replaced>>
  <2>1. commands' \in 0..MaxCommands
    BY CredentialAssumption DEF RemoveRow, Begin, DataTyped
  <2> QED
    BY <2>1 DEF RemoveRow, Begin
<1>2. stale' \in BOOLEAN
  <2>1. (menu.kind # "none") \in BOOLEAN
    OBVIOUS
  <2> QED
    BY <2>1 DEF RemoveRow, Begin, DataTyped
<1>3. row \in Rows
  BY <1>1 DEF HasRow, DataTyped
<1>4. /\ c \in Command /\ c.op = "rm" /\ c.step = "unlink" /\ c.scope = s /\ c.name = n /\ c.to = n /\ c.menu = b
      /\ c.row = row
  BY <1>3 DEF NoCommand, Command, Scopes
<1>5. IF IsManaged(s, row.file) THEN cmd' = c ELSE cmd' = NoCommand
  <2>1. IF IsManaged(s, c.row.file) THEN cmd' = c ELSE cmd' = NoCommand
    BY DEF RemoveRow, Finish
  <2> QED
    BY <1>4, <2>1
<1> HIDE DEF c
<1>6. /\ registry' \in [Scopes -> [Names -> Rows \cup {NoRow}]] /\ registry'[s][n] = NoRow
      /\ \A r \in Scopes, m \in Names : <<r, m>> # <<s, n>> => registry'[r][m] = registry[r][m]
  BY <1>1 DEF DataTyped
<1>7. /\ meant' \in [Scopes -> [Names -> SUBSET (Tokens \cup {UserToken})]]
      /\ \A r \in Scopes, m \in Names : <<r, m>> # <<s, n>> => meant'[r][m] = meant[r][m]
  BY <1>1 DEF DataTyped
<1>8. DataTyped'
  <2>1. \A m \in Names : registry'["local"][m] # NoRow => workspace'
    BY <1>1, <1>6 DEF DataTyped, Scopes
  <2>2. chosen' \in [scope: Scopes, name: Names \cup {Nobody}]
    BY <1>1 DEF NoChoice, Scopes
  <2>3. cmd' \in Command
    BY <1>4, <1>5, NoCommandIs
  <2> QED
    BY <1>1, <1>2, <1>6, <1>7, <2>1, <2>2, <2>3 DEF DataTyped
<1>9. /\ Belongs(row.file, s, n)
      /\ IsManaged(s, row.file) <=> row.file \in ManagedFiles
  BY <1>1, RowFile
<1>10. \A r \in Scopes, m \in Names : registry'[r][m].file \in Files => registry'[r][m] = registry[r][m] /\ <<r, m>> # <<s, n>>
  BY <1>6, RowFiles, FileNames
<1> HIDE DEF row
<1>11. Placed'
  BY <1>0, <1>1, <1>6 DEF Placed, HasRow, Belongs
<1>12. Alone'
  BY <1>0, <1>1, <1>10, FileNames DEF Alone
<1>13. UserFilesKept' /\ Marked' /\ OwnTokenOrNone'
  BY <1>0, <1>1, <1>6, <1>7 DEF UserFilesKept, Marked, OwnTokenOrNone, HasRow, Given
<1>14. Kept'
  <2> SUFFICES ASSUME NEW r \in Scopes, NEW m \in Names, HasRow(r, m)', TokenFile(r, m) \notin suspect
               PROVE  files[registry'[r][m].file] \in meant'[r][m]
    BY <1>1 DEF Kept, Given
  <2>1. <<r, m>> # <<s, n>>
    BY <1>6 DEF HasRow
  <2> QED
    BY <1>0, <1>1, <1>6, <1>7, <2>1, NothingInHand DEF Kept, HasRow, Given
<1>15. CommandAlone'
  <2>1. \A m \in Names : m # n => registry'[s][m] = registry[s][m]
    BY <1>6
  <2> QED
    BY <1>0, <1>1, <1>4, <1>5, <2>1, NoCommandIs DEF CommandAlone, Alone, row
<1>16. Tracked'
  <2> SUFFICES ASSUME NEW r \in Scopes, NEW m \in Names, TokenFile(r, m) \notin suspect, TokenFile(r, m) \notin InHand',
                      files[TokenFile(r, m)] # Missing, TokenFile(r, m) \notin replaced
               PROVE  \E k \in Names \ {Nobody} : registry'[r][k].file = TokenFile(r, m)
    BY <1>1 DEF Tracked, Accounted, AccountedBut, HasARow
  <2>1. Accounted(r, TokenFile(r, m))
    BY <1>0, <1>1, NothingInHand DEF Tracked
  <2>2. PICK k \in Names \ {Nobody} : registry[r][k].file = TokenFile(r, m)
    BY <2>1 DEF Accounted, AccountedBut, HasARow
  <2>3. ASSUME r = s, k = n PROVE FALSE
    <3>1. row.file = TokenFile(r, m) /\ row.file \in ManagedFiles
      BY <2>2, <2>3, FileNames DEF row
    <3>2. cmd' = c
      BY <1>5, <1>9, <3>1
    <3>3. row.file # TokenFile(s, n)
      BY <1>4, <3>1, <3>2 DEF InHand
    <3>4. row.file \in shared
      BY <1>9, <3>1, <3>3, FileNames DEF Belongs
    <3> QED
      BY <1>0, <3>1, <3>4 DEF Marked
  <2>4. registry'[r][k] = registry[r][k]
    BY <1>6, <2>3
  <2> QED
    BY <2>2, <2>4
<1>17. Course'
  <2>1. s = "local" => workspace
    BY <1>1 DEF DataTyped, HasRow
  <2>2. ~HasRow(s, n)'
    BY <1>6 DEF HasRow
  <2> QED
    BY <1>1, <1>3, <1>4, <1>5, <1>9, <2>1, <2>2, NoCommandIs DEF Course, Belongs
<1>18. PendingAdd' /\ PendingRename' /\ Settled'
  BY <1>1, <1>4, <1>5, NoCommandIs DEF PendingAdd, PendingRename, Settled, NoChoice
<1> QED
  BY <1>8, <1>11, <1>12, <1>13, <1>14, <1>15, <1>16, <1>17, <1>18 DEF FilesInv

LEMMA FilesUnlink == DataTyped /\ FilesInv /\ Unlink => DataTyped' /\ FilesInv'
<1> SUFFICES ASSUME DataTyped, FilesInv, Unlink PROVE DataTyped' /\ FilesInv'
  OBVIOUS
<1> DEFINE s == cmd.scope
           n == cmd.name
           f == cmd.row.file
<1>0. /\ Course /\ Placed /\ Alone /\ CommandAlone /\ Marked /\ UserFilesKept
      /\ OwnTokenOrNone /\ Kept /\ Tracked /\ Settled
  BY DEF FilesInv
<1>1. /\ cmd.op = "rm" /\ cmd # NoCommand
      /\ s \in Scopes /\ n \in Names /\ cmd.to = n /\ cmd.row \in Rows
      /\ IsManaged(s, f) /\ ~HasRow(s, n) /\ Belongs(f, s, n)
  BY <1>0, NoCommandIs DEF Unlink, Course, DataTyped, Command
<1>2. /\ \/ files' = [files EXCEPT ![f] = Missing] /\ suspect' = suspect
         \/ files' = files /\ suspect' = suspect \cup {f}
      /\ cmd' = NoCommand
      /\ UNCHANGED <<windows, registry, workspace, credential, commands, meant, shared, replaced, stale, chosen>>
  BY DEF Unlink, Finish
<1>3. f \in ManagedFiles /\ f \notin UserFiles /\ f \in Files
  BY <1>1, RowFiles, FileNames
<1>4. \A m \in Names : registry[s][m].file = f => f \in shared \/ m = n
  BY <1>0, <1>1, <1>3 DEF CommandAlone
<1>5. registry[s][n].file # f
  BY <1>1, <1>3, RowFile
<1> HIDE DEF s, n, f
<1>6. /\ files' \in [Files -> Tokens \cup {UserToken, Missing}]
      /\ \A g \in Files : files'[g] \in {files[g], Missing} /\ (g # f => files'[g] = files[g])
      /\ files'[f] = Missing \/ f \in suspect'
      /\ suspect' \in SUBSET ManagedFiles /\ suspect \subseteq suspect'
  BY <1>2, <1>3 DEF DataTyped
<1>7. DataTyped'
  BY <1>2, <1>6, NoCommandIs DEF DataTyped
<1>8. Placed' /\ Alone' /\ Marked'
  BY <1>0, <1>2, <1>6 DEF Placed, HasRow, Belongs, Alone, Marked
<1>9. UserFilesKept'
  BY <1>0, <1>3, <1>6, FileNames DEF UserFilesKept
<1>10. OwnTokenOrNone'
  <2> SUFFICES ASSUME NEW r \in Scopes, NEW m \in Names, HasRow(r, m), TokenFile(r, m) \notin shared
               PROVE  files'[registry[r][m].file] \in meant[r][m] \cup {Missing}
    BY <1>2 DEF OwnTokenOrNone, HasRow, Given
  <2>1. registry[r][m].file \in Files
    BY RowFile
  <2> QED
    BY <1>0, <1>6, <2>1 DEF OwnTokenOrNone, Given
<1>11. Kept'
  <2> SUFFICES ASSUME NEW r \in Scopes, NEW m \in Names, HasRow(r, m), TokenFile(r, m) \notin suspect'
               PROVE  files'[registry[r][m].file] \in meant[r][m]
    BY <1>2 DEF Kept, HasRow, Given
  <2>1. TokenFile(r, m) \notin suspect /\ TokenFile(r, m) \notin shared
    BY <1>0, <1>6 DEF Marked
  <2>2. ~About(r, m)
    BY <1>1 DEF About, s, n
  <2>3. /\ registry[r][m].file \in Files
        /\ registry[r][m].file = TokenFile(r, m) \/ registry[r][m].file \in UserFiles
    BY <2>1, RowFile
  <2>4. registry[r][m].file # f
    <3> SUFFICES ASSUME registry[r][m].file = f PROVE FALSE
      OBVIOUS
    <3>1. f = TokenFile(r, m) /\ \E k \in Names : f = TokenFile(s, k)
      BY <1>1, <1>3, <2>3 DEF Belongs
    <3>2. r = s
      BY <3>1, FileNames
    <3> QED
      BY <1>4, <1>5, <2>1, <3>1, <3>2
  <2> QED
    BY <1>0, <1>6, <2>1, <2>2, <2>3, <2>4 DEF Kept, Given
<1>12. Tracked'
  <2> SUFFICES ASSUME NEW r \in Scopes, NEW m \in Names, TokenFile(r, m) \notin suspect', files'[TokenFile(r, m)] # Missing
               PROVE  TokenFile(r, m) \in replaced \/ HasARow(r, TokenFile(r, m), Nobody)
    BY <1>2 DEF Tracked, Accounted, AccountedBut, HasARow
  <2>1. TokenFile(r, m) \notin suspect /\ TokenFile(r, m) \in Files
    BY <1>6, FileNames
  <2>2. files[TokenFile(r, m)] # Missing
    BY <1>6, <2>1
  <2>3. TokenFile(r, m) # TokenFile(s, n)
    <3> SUFFICES ASSUME TokenFile(r, m) = TokenFile(s, n) PROVE FALSE
      OBVIOUS
    <3>1. f = TokenFile(s, n)
      BY <1>0, <1>1, <1>3, <2>1 DEF Belongs, Marked
    <3> QED
      BY <1>6, <3>1
  <2>4. TokenFile(r, m) \notin InHand
    BY <1>1, <2>3 DEF InHand, s, n
  <2> QED
    BY <1>0, <2>1, <2>2, <2>4 DEF Tracked, Accounted, AccountedBut
<1>13. Course' /\ CommandAlone' /\ PendingAdd' /\ PendingRename' /\ Settled'
  BY <1>0, <1>1, <1>2, NoCommandIs DEF Course, CommandAlone, PendingAdd, PendingRename, Settled
<1> QED
  BY <1>7, <1>8, <1>9, <1>10, <1>11, <1>12, <1>13 DEF FilesInv

LEMMA FilesRename ==
  ASSUME DataTyped, FilesInv, NEW s \in Scopes, NEW old \in Names, NEW new \in Names, NEW b \in BOOLEAN,
         NEW padded \in BOOLEAN, Rename(s, old, new, b, padded)
  PROVE  DataTyped' /\ FilesInv'
<1> DEFINE row == registry[s][old]
           own == TokenFile(s, old)
           to == TokenFile(s, new)
           taken == IF Shares(s, new, old) THEN {to} ELSE {}
           Marks(S, failed) == S \cup (IF failed \/ own \in S THEN {own, to} ELSE {})
           Going(file) == [NoCommand EXCEPT !.op = "rename", !.step = "save", !.scope = s,
                             !.name = old, !.to = new, !.menu = b, !.padded = padded,
                             !.row = [row EXCEPT !.file = file]]
<1>0. /\ Course /\ Placed /\ Alone /\ Marked /\ UserFilesKept /\ OwnTokenOrNone /\ Kept /\ Tracked /\ Settled
  BY DEF FilesInv
<1>1. /\ cmd = NoCommand /\ HasRow(s, old) /\ ~HasRow(s, new) /\ chosen' = NoChoice /\ commands' \in 0..MaxCommands
      /\ UNCHANGED <<windows, registry, workspace, credential, meant, replaced>>
  <2>1. commands' \in 0..MaxCommands
    BY CredentialAssumption DEF Rename, Begin, DataTyped
  <2> QED
    BY <2>1 DEF Rename, Begin
<1>2. stale' \in BOOLEAN
  <2>1. (menu.kind # "none") \in BOOLEAN
    OBVIOUS
  <2> QED
    BY <2>1 DEF Rename, Begin, DataTyped
<1>3. \/ /\ IsManaged(s, row.file) /\ files[row.file] # Missing
         /\ files' = [files EXCEPT ![row.file] = Missing, ![to] = files[row.file]]
         /\ cmd' = Going(to)
         /\ suspect' = Marks(suspect, FALSE) \cup taken /\ shared' = Marks(shared, FALSE) \cup taken
      \/ /\ IsManaged(s, row.file)
         /\ cmd' = Going(row.file)
         /\ suspect' = Marks(suspect, TRUE) /\ shared' = Marks(shared, TRUE) /\ files' = files
      \/ /\ ~IsManaged(s, row.file)
         /\ cmd' = Going(row.file)
         /\ suspect' = Marks(suspect, FALSE) /\ shared' = Marks(shared, FALSE) /\ files' = files
  BY DEF Rename, Moves
<1>4. row \in Rows /\ row.file \in Files /\ Belongs(row.file, s, old) /\ (IsManaged(s, row.file) <=> row.file \in ManagedFiles)
  BY <1>1, RowFile
<1>5. own \in ManagedFiles /\ to \in ManagedFiles /\ own \notin UserFiles /\ to \notin UserFiles /\ own \in Files /\ to \in Files
  BY FileNames
<1>6. ASSUME NEW f \in Files
      PROVE  /\ Going(f) \in Command /\ Going(f).op = "rename" /\ Going(f).step = "save" /\ Going(f).scope = s
             /\ Going(f).name = old /\ Going(f).to = new /\ Going(f).row \in Rows
             /\ Going(f).row.file = f /\ Going(f).row.site = row.site /\ Going(f).menu = b
  <2> DEFINE new_row == [row EXCEPT !.file = f]
  <2>1. new_row \in Rows /\ new_row.file = f /\ new_row.site = row.site
    BY <1>4 DEF Rows
  <2> HIDE DEF new_row
  <2>2. /\ Going(f) \in Command /\ Going(f).op = "rename" /\ Going(f).step = "save" /\ Going(f).scope = s
        /\ Going(f).name = old /\ Going(f).to = new /\ Going(f).row = new_row /\ Going(f).menu = b
    BY <2>1 DEF new_row, NoCommand, Command, Scopes
  <2> QED
    BY <2>1, <2>2
<1> HIDE DEF Going, row
<1>7. PICK f \in Files : cmd' = Going(f) /\ f \in {to, row.file}
  BY <1>3, <1>4, <1>5
<1>8. /\ cmd'.op = "rename" /\ cmd'.step = "save" /\ cmd'.scope = s /\ cmd'.name = old /\ cmd'.to = new
      /\ cmd'.row \in Rows /\ cmd'.row.file = f /\ cmd'.row.site = row.site /\ cmd' \in Command
  BY <1>6, <1>7
<1>9. \/ /\ row.file \in ManagedFiles /\ files[row.file] # Missing /\ f = to
         /\ files' = [files EXCEPT ![row.file] = Missing, ![to] = files[row.file]]
         /\ suspect' = Marks(suspect, FALSE) \cup taken /\ shared' = Marks(shared, FALSE) \cup taken
      \/ /\ row.file \in ManagedFiles /\ f = row.file /\ files' = files
         /\ suspect' = Marks(suspect, TRUE) /\ shared' = Marks(shared, TRUE)
      \/ /\ row.file \in UserFiles /\ f = row.file /\ files' = files
         /\ suspect' = Marks(suspect, FALSE) /\ shared' = Marks(shared, FALSE)
  BY <1>3, <1>4, <1>5, <1>6, <1>7, FileNames
<1>10. /\ suspect' \in SUBSET ManagedFiles /\ suspect \subseteq suspect'
       /\ shared' \in SUBSET ManagedFiles /\ shared \subseteq shared'
       /\ own \in suspect' => to \in suspect'
       /\ own \in shared => to \in shared'
       /\ shared' \subseteq suspect'
  <2>1. shared \subseteq suspect /\ shared \in SUBSET ManagedFiles /\ suspect \in SUBSET ManagedFiles
    BY <1>0 DEF Marked, DataTyped
  <2>2. taken = {} \/ taken = {to}
    OBVIOUS
  <2> HIDE DEF taken, own, to
  <2> QED
    BY <1>5, <1>9, <2>1, <2>2
\* When the file moves, a row of another name that had the new file is marked.
<1>11. ASSUME NEW m \in Names \ {old}, registry[s][m].file = to, files' # files PROVE to \in shared'
  <2>1. m # new
    BY <1>1, <1>5, <1>11, RowFile
  <2>2. to \in taken
    BY <1>11, <2>1 DEF Shares
  <2> QED
    BY <1>9, <1>11, <2>2
<1>12. /\ files' \in [Files -> Tokens \cup {UserToken, Missing}]
       /\ \A g \in Files : g \notin {row.file, to} => files'[g] = files[g]
       /\ files'[f] = files[row.file]
       /\ files' # files => row.file \in ManagedFiles /\ f = to /\ (row.file # to => files'[row.file] = Missing)
  <2>1. CASE files' = files /\ f = row.file
    BY <2>1 DEF DataTyped
  <2>2. CASE f = to /\ files' = [files EXCEPT ![row.file] = Missing, ![to] = files[row.file]] /\ row.file \in ManagedFiles
    <3>1. files[row.file] \in Tokens \cup {UserToken, Missing}
      BY <1>4 DEF DataTyped
    <3> HIDE DEF to
    <3> QED
      BY <1>4, <1>5, <2>2, <3>1 DEF DataTyped
  <2> QED
    BY <1>9, <2>1, <2>2
<1> HIDE DEF taken, Marks
<1>13. DataTyped'
  <2>1. chosen' \in [scope: Scopes, name: Names \cup {Nobody}]
    BY <1>1 DEF NoChoice, Scopes
  <2> QED
    BY <1>1, <1>2, <1>8, <1>10, <1>12, <2>1 DEF DataTyped
<1>14. \/ f = to
       \/ f \in UserFiles /\ f = row.file /\ files' = files
       \/ own \in shared' /\ to \in shared' /\ own \in suspect' /\ f = row.file /\ files' = files
  BY <1>9, <1>10 DEF Marks
<1>15. Placed' /\ Alone' /\ Marked'
  BY <1>0, <1>1, <1>10 DEF Placed, HasRow, Belongs, Alone, Marked
<1>16. UserFilesKept'
  <2>1. ASSUME NEW u \in UserFiles, files' # files PROVE u \notin {row.file, to} /\ u \in Files
    BY <1>5, <1>12, <2>1, FileNames
  <2> QED
    BY <1>0, <1>12, <2>1 DEF UserFilesKept
<1>17. Belongs(f, s, new)'
  <2>1. CASE f = to \/ f \in UserFiles
    BY <2>1 DEF Belongs
  <2>2. CASE own \in shared' /\ to \in shared' /\ f = row.file /\ f \notin UserFiles
    BY <1>4, <1>10, <2>2 DEF Belongs
  <2> QED
    BY <1>14, <2>1, <2>2
<1>18. Course'
  <2>1. s = "local" => workspace
    BY <1>1 DEF DataTyped, HasRow
  <2> QED
    BY <1>1, <1>8, <1>17, <2>1 DEF Course, HasRow, row
<1>19. CommandAlone'
  <2> SUFFICES ASSUME NEW m \in Names \ {old, new}, f \in ManagedFiles, registry[s][m].file = f
               PROVE  f \in shared'
    BY <1>1, <1>8 DEF CommandAlone
  <2>1. CASE f = row.file
    BY <1>0, <1>10, <2>1 DEF Alone, row
  <2>2. CASE f # row.file
    <3>1. f = to /\ files' # files
      <4>1. files[row.file] # Missing
        BY <1>9, <2>2
      <4>2. f = to /\ files' = [files EXCEPT ![row.file] = Missing, ![to] = files[row.file]]
        BY <1>9, <2>2
      <4>3. files'[row.file] = Missing
        BY <1>4, <2>2, <4>2 DEF DataTyped
      <4> QED
        BY <4>1, <4>2, <4>3
    <3> QED
      BY <1>11, <3>1
  <2> QED
    BY <2>1, <2>2
\* The rows of other names with unmarked files of their own keep them as they were.
<1>20. ASSUME NEW r \in Scopes, NEW m \in Names, HasRow(r, m), TokenFile(r, m) \notin shared', ~(r = s /\ m = old)
       PROVE  files'[registry[r][m].file] = files[registry[r][m].file]
  <2> DEFINE g == registry[r][m].file
  <2>1. TokenFile(r, m) \notin shared
    BY <1>10, <1>20
  <2>2. g \in Files /\ (g = TokenFile(r, m) \/ g \in UserFiles)
    BY <1>20, <2>1, RowFile
  <2>3. ASSUME files' # files PROVE g \notin {row.file, to}
    <3> SUFFICES ASSUME g \in {row.file, to} PROVE FALSE
      OBVIOUS
    <3>1. g = TokenFile(r, m) /\ g \in ManagedFiles
      BY <1>5, <1>12, <2>2, <2>3, FileNames
    <3>2. r = s
      <4>1. CASE g = to
        BY <3>1, <4>1, FileNames
      <4>2. CASE g = row.file
        <5>1. row.file \notin UserFiles
          BY <3>1, <4>2, FileNames
        <5>2. PICK k \in Names : row.file = TokenFile(s, k)
          BY <1>4, <5>1 DEF Belongs
        <5> QED
          BY <3>1, <4>2, <5>2, FileNames
      <4> QED
        BY <4>1, <4>2
    <3>3. CASE g = row.file
      <4>1. g \in shared
        BY <1>0, <1>20, <3>1, <3>2, <3>3 DEF Alone, row
      <4> QED
        BY <2>1, <3>1, <4>1
    <3>4. CASE g = to
      <4>1. to \in shared'
        BY <1>11, <1>20, <2>3, <3>2, <3>4
      <4> QED
        BY <1>20, <3>1, <3>4, <4>1
    <3> QED
      BY <3>3, <3>4
  <2> HIDE DEF g
  <2> QED
    BY <1>12, <2>2, <2>3 DEF g
<1>21. OwnTokenOrNone'
  <2> SUFFICES ASSUME NEW r \in Scopes, NEW m \in Names, HasRow(r, m), TokenFile(r, m) \notin shared'
               PROVE  files'[registry[r][m].file] \in meant[r][m] \cup {Missing}
    BY <1>1 DEF OwnTokenOrNone, HasRow, Given
  <2>1. files[registry[r][m].file] \in meant[r][m] \cup {Missing}
    BY <1>0, <1>10 DEF OwnTokenOrNone, Given
  <2>2. CASE r = s /\ m = old
    <3>1. files'[row.file] \in {files[row.file], Missing}
      BY <1>12
    <3> QED
      BY <2>1, <2>2, <3>1 DEF row
  <2>3. CASE ~(r = s /\ m = old)
    BY <1>20, <2>1, <2>3
  <2> QED
    BY <2>2, <2>3
<1>22. Kept'
  <2> SUFFICES ASSUME NEW r \in Scopes, NEW m \in Names, HasRow(r, m), TokenFile(r, m) \notin suspect', ~(r = s /\ m = old)
               PROVE  files'[registry[r][m].file] \in meant[r][m]
    BY <1>1, <1>8 DEF Kept, HasRow, Given, About
  <2>1. TokenFile(r, m) \notin suspect /\ TokenFile(r, m) \notin shared'
    BY <1>10
  <2>2. Given(r, m) \in meant[r][m]
    BY <1>0, <1>1, <2>1, NothingInHand DEF Kept
  <2> QED
    BY <1>20, <2>1, <2>2 DEF Given
<1>23. ASSUME own \notin suspect PROVE row.file = own \/ row.file \in UserFiles
  BY <1>0, <1>4, <1>23 DEF Belongs, Marked
<1>24. Tracked'
  <2> SUFFICES ASSUME NEW r \in Scopes, NEW m \in Names, TokenFile(r, m) \notin suspect', TokenFile(r, m) \notin {own, to}
               PROVE  AccountedBut(r, TokenFile(r, m), Nobody)'
    BY <1>1, <1>8 DEF Tracked, Accounted, InHand
  <2>1. TokenFile(r, m) \notin suspect /\ TokenFile(r, m) \notin shared /\ TokenFile(r, m) \in Files /\ TokenFile(r, m) \notin UserFiles
    BY <1>0, <1>10, FileNames DEF Marked
  <2>2. TokenFile(r, m) # row.file
    BY <1>4, <2>1 DEF Belongs
  <2>3. AccountedBut(r, TokenFile(r, m), Nobody)
    BY <1>0, <1>1, <2>1, NothingInHand DEF Tracked, Accounted
  <2> QED
    BY <1>1, <1>12, <2>1, <2>2, <2>3 DEF AccountedBut, HasARow
<1>25. ASSUME NEW g \in {own, to}, g \notin suspect, f # to \/ g # to
       PROVE  f = g \/ AccountedBut(s, g, old)'
  <2>1. Accounted(s, g)
    BY <1>0, <1>1, <1>25, NothingInHand DEF Tracked
  <2>2. CASE files' = files /\ row.file \in UserFiles
    <3>1. \A k \in Names : registry[s][k].file = g => k # old
      BY <1>5, <2>2 DEF row
    <3> QED
      BY <1>1, <2>1, <2>2, <3>1 DEF Accounted, AccountedBut, HasARow
  <2>3. CASE f = to
    <3>1. (g = own /\ row.file = own) \/ row.file \in UserFiles
      BY <1>23, <1>25, <2>3
    <3>2. CASE row.file = own
      <4>1. own # to /\ g = own
        BY <1>25, <2>3, <3>1
      <4>2. files' = [files EXCEPT ![row.file] = Missing, ![to] = files[row.file]]
        BY <1>5, <1>9, <2>3, <3>2, <4>1
      <4>3. files'[own] = Missing
        BY <1>5, <3>2, <4>1, <4>2 DEF DataTyped
      <4> QED
        BY <4>1, <4>3 DEF AccountedBut
    <3> QED
      BY <1>5, <1>9, <1>12, <2>2, <3>1, <3>2, FileNames
  <2>4. CASE own \in shared' /\ to \in shared' /\ f = row.file /\ files' = files /\ f # to
    <3>1. CASE g = own
      <4>1. row.file = own \/ row.file \in UserFiles
        BY <1>23, <1>25, <3>1
      <4> QED
        BY <2>2, <2>4, <3>1, <4>1
    <3>2. CASE g = to /\ g # own
      <4>1. ASSUME NEW k \in Names, registry[s][k].file = g PROVE k # old
        BY <2>4, <3>2, <4>1 DEF row
      <4> QED
        BY <1>1, <2>1, <2>4, <4>1 DEF Accounted, AccountedBut, HasARow
    <3> QED
      BY <1>25, <3>1, <3>2
  <2> QED
    BY <1>14, <2>2, <2>3, <2>4
<1>26. PendingRename'
  <2>1. ASSUME to \notin shared' PROVE files'[f] \in meant[s][old] \cup {Missing}
    <3>1. own \notin shared
      BY <1>10, <2>1
    <3> QED
      BY <1>0, <1>1, <1>12, <3>1 DEF OwnTokenOrNone, Given, row
  <2>2. ASSUME own \notin suspect' PROVE files'[f] \in meant[s][old]
    <3>1. own \notin suspect
      BY <1>10, <2>2
    <3> QED
      BY <1>0, <1>1, <1>12, <3>1, NothingInHand DEF Kept, Given, row
  <2>3. ASSUME own \notin suspect' PROVE f = own \/ AccountedBut(s, own, old)'
    BY <1>10, <1>25, <2>3
  <2>4. ASSUME to \notin suspect' PROVE f = to \/ AccountedBut(s, to, old)'
    BY <1>10, <1>25, <2>4
  <2> QED
    BY <1>1, <1>8, <1>10, <2>1, <2>2, <2>3, <2>4 DEF PendingRename
<1>27. PendingAdd' /\ Settled'
  BY <1>1, <1>8 DEF PendingAdd, Settled, NoChoice
<1> QED
  BY <1>13, <1>15, <1>16, <1>18, <1>19, <1>21, <1>22, <1>24, <1>26, <1>27 DEF FilesInv

LEMMA FilesSaveRename == DataTyped /\ FilesInv /\ SaveRename => DataTyped' /\ FilesInv'
<1> SUFFICES ASSUME DataTyped, FilesInv, SaveRename PROVE DataTyped' /\ FilesInv'
  OBVIOUS
<1> DEFINE s == cmd.scope
           n == cmd.name
           to == cmd.to
           f == cmd.row.file
<1>0. /\ Course /\ Placed /\ Alone /\ CommandAlone /\ Marked /\ UserFilesKept
      /\ OwnTokenOrNone /\ Kept /\ Tracked /\ PendingRename /\ Settled
  BY DEF FilesInv
<1>1. /\ cmd.op = "rename" /\ cmd # NoCommand
      /\ s \in Scopes /\ n \in Names /\ to \in Names /\ n # to /\ cmd.row \in Rows /\ Belongs(f, s, to)
      /\ HasRow(s, n) /\ ~HasRow(s, to)
      /\ s = "local" => workspace
  BY <1>0, NoCommandIs DEF SaveRename, Course, DataTyped, Command
<1>2. /\ registry' = [registry EXCEPT ![s][n] = NoRow, ![s][to] = cmd.row]
      /\ meant' = [meant EXCEPT ![s][n] = {}, ![s][to] = meant[s][n]]
      /\ cmd' = NoCommand
      /\ UNCHANGED <<windows, files, workspace, credential, commands, suspect, shared, replaced, stale, chosen>>
  BY DEF SaveRename, Finish
<1>3. /\ TokenFile(s, to) \notin shared => files[f] \in meant[s][n] \cup {Missing}
      /\ TokenFile(s, n) \in suspect => TokenFile(s, to) \in suspect
      /\ TokenFile(s, n) \notin suspect => files[f] \in meant[s][n]
      /\ TokenFile(s, n) \notin suspect => f = TokenFile(s, n) \/ AccountedBut(s, TokenFile(s, n), n)
      /\ TokenFile(s, to) \notin suspect => f = TokenFile(s, to) \/ AccountedBut(s, TokenFile(s, to), n)
  BY <1>0, <1>1 DEF PendingRename
<1>4. \A m \in Names \ {n, to} : f \in ManagedFiles /\ registry[s][m].file = f => f \in shared
  BY <1>0, <1>1 DEF CommandAlone
<1>5. InHand = {TokenFile(s, n), TokenFile(s, to)} /\ \A r \in Scopes, m \in Names : About(r, m) => r = s /\ m \in {n, to}
  BY <1>1 DEF InHand, About
<1>6. f = cmd.row.file
  OBVIOUS
<1> HIDE DEF s, n, to, f
<1>7. /\ registry' \in [Scopes -> [Names -> Rows \cup {NoRow}]] /\ registry'[s][n] = NoRow /\ registry'[s][to] = cmd.row
      /\ \A r \in Scopes, m \in Names : <<r, m>> \notin {<<s, n>>, <<s, to>>} => registry'[r][m] = registry[r][m]
  BY <1>1, <1>2 DEF DataTyped
<1>8. /\ meant' \in [Scopes -> [Names -> SUBSET (Tokens \cup {UserToken})]] /\ meant'[s][to] = meant[s][n]
      /\ \A r \in Scopes, m \in Names : <<r, m>> \notin {<<s, n>>, <<s, to>>} => meant'[r][m] = meant[r][m]
  BY <1>1, <1>2 DEF DataTyped
<1>9. DataTyped'
  <2>1. \A m \in Names : registry'["local"][m] # NoRow => workspace'
    BY <1>1, <1>2, <1>7 DEF DataTyped, Scopes
  <2> QED
    BY <1>2, <1>7, <1>8, <2>1, NoCommandIs DEF DataTyped
<1>10. ASSUME NEW r \in Scopes, NEW m \in Names
       PROVE  \/ r = s /\ m = n /\ ~HasRow(r, m)' /\ registry'[r][m].file = NoFile
              \/ r = s /\ m = to /\ registry'[r][m].file = f
              \/ /\ registry'[r][m] = registry[r][m] /\ meant'[r][m] = meant[r][m]
                 /\ ~(r = s /\ m \in {n, to}) /\ ~About(r, m)
  BY <1>1, <1>5, <1>6, <1>7, <1>8, RowFiles DEF HasRow
<1>11. Placed'
  <2> SUFFICES ASSUME NEW r \in Scopes, NEW m \in Names, HasRow(r, m)'
               PROVE  Belongs(registry[r][m].file, r, m)'
    BY DEF Placed
  <2>1. CASE r = s /\ m = to /\ registry'[r][m].file = f
    BY <1>1, <1>2, <2>1 DEF Belongs
  <2>2. CASE registry'[r][m] = registry[r][m]
    <3>1. HasRow(r, m)
      BY <2>2 DEF HasRow
    <3>2. Belongs(registry[r][m].file, r, m)
      BY <1>0, <3>1 DEF Placed
    <3>3. shared' = shared /\ registry'[r][m].file = registry[r][m].file
      BY <1>2, <2>2
    <3> QED
      BY <3>2, <3>3 DEF Belongs
  <2> QED
    BY <1>10, <2>1, <2>2
<1>12. Alone'
  <2> SUFFICES ASSUME NEW r \in Scopes, NEW k \in Names, NEW m \in Names, k # m,
                      registry'[r][k].file \in ManagedFiles, registry'[r][m].file = registry'[r][k].file
               PROVE  registry'[r][k].file \in shared
    BY <1>2 DEF Alone
  <2>1. registry'[r][k].file # NoFile /\ registry'[r][m].file # NoFile
    BY FileNames
  <2>2. CASE r = s /\ (k = to \/ m = to)
    BY <1>4, <1>10, <2>1, <2>2
  <2>3. CASE ~(r = s /\ (k = to \/ m = to))
    BY <1>0, <1>10, <2>1, <2>3 DEF Alone
  <2> QED
    BY <2>2, <2>3
<1>13. UserFilesKept' /\ Marked'
  BY <1>0, <1>2 DEF UserFilesKept, Marked
<1>14. OwnTokenOrNone'
  <2> SUFFICES ASSUME NEW r \in Scopes, NEW m \in Names, HasRow(r, m)', TokenFile(r, m) \notin shared
               PROVE  files[registry'[r][m].file] \in meant'[r][m] \cup {Missing}
    BY <1>2 DEF OwnTokenOrNone, Given
  <2>1. CASE r = s /\ m = to /\ registry'[r][m].file = f
    BY <1>3, <1>8, <2>1
  <2>2. CASE registry'[r][m] = registry[r][m] /\ meant'[r][m] = meant[r][m]
    BY <1>0, <2>2 DEF OwnTokenOrNone, HasRow, Given
  <2> QED
    BY <1>10, <2>1, <2>2
<1>15. Kept'
  <2> SUFFICES ASSUME NEW r \in Scopes, NEW m \in Names, HasRow(r, m)', TokenFile(r, m) \notin suspect
               PROVE  files[registry'[r][m].file] \in meant'[r][m]
    BY <1>2 DEF Kept, Given
  <2>1. CASE r = s /\ m = to /\ registry'[r][m].file = f
    BY <1>3, <1>8, <2>1
  <2>2. CASE registry'[r][m] = registry[r][m] /\ meant'[r][m] = meant[r][m] /\ ~About(r, m)
    BY <1>0, <2>2 DEF Kept, HasRow, Given
  <2> QED
    BY <1>10, <2>1, <2>2
<1>16. to # Nobody
  BY <1>1, CredentialAssumption
<1>17. Tracked'
  <2> SUFFICES ASSUME NEW r \in Scopes, NEW m \in Names, TokenFile(r, m) \notin suspect,
                      files[TokenFile(r, m)] # Missing, TokenFile(r, m) \notin replaced
               PROVE  \E k \in Names \ {Nobody} : registry'[r][k].file = TokenFile(r, m)
    BY <1>2 DEF Tracked, Accounted, AccountedBut, HasARow
  <2> DEFINE g == TokenFile(r, m)
  <2>1. g \in ManagedFiles /\ g # NoFile /\ g \notin UserFiles
    BY FileNames
  <2>2. ASSUME r = s, f = g PROVE \E k \in Names \ {Nobody} : registry'[r][k].file = g
    BY <1>1, <1>6, <1>7, <1>16, <2>2
  <2>3. ASSUME NEW k \in Names \ {Nobody}, registry[r][k].file = g, ~(r = s /\ k = n) PROVE registry'[r][k].file = g
    <3>1. HasRow(r, k)
      BY <2>1, <2>3, RowFiles DEF HasRow
    <3>2. ~(r = s /\ k = to)
      BY <1>1, <3>1
    <3> QED
      BY <1>10, <2>3, <3>2
  <2>4. CASE g = TokenFile(s, n)
    <3>1. r = s
      BY <1>1, <2>4, FileNames
    <3>2. f = g \/ AccountedBut(s, g, n)
      BY <1>3, <2>4
    <3>3. CASE AccountedBut(s, g, n)
      <4>1. PICK k \in Names \ {n} : registry[s][k].file = g
        BY <3>1, <3>3 DEF AccountedBut, HasARow
      <4>2. k \in Names \ {Nobody}
        BY CredentialAssumption
      <4> QED
        BY <2>3, <3>1, <4>1, <4>2
    <3> QED
      BY <2>2, <3>1, <3>2, <3>3
  <2>5. CASE g = TokenFile(s, to)
    <3>1. r = s
      BY <1>1, <2>5, FileNames
    <3>2. f = g \/ AccountedBut(s, g, n)
      BY <1>3, <2>5
    <3>3. CASE AccountedBut(s, g, n)
      <4>1. PICK k \in Names \ {n} : registry[s][k].file = g
        BY <3>1, <3>3 DEF AccountedBut, HasARow
      <4>2. k \in Names \ {Nobody}
        BY CredentialAssumption
      <4> QED
        BY <2>3, <3>1, <4>1, <4>2
    <3> QED
      BY <2>2, <3>1, <3>2, <3>3
  <2>6. CASE g \notin {TokenFile(s, n), TokenFile(s, to)}
    <3>1. Accounted(r, g)
      BY <1>0, <1>5, <2>6 DEF Tracked
    <3>2. PICK k \in Names \ {Nobody} : registry[r][k].file = g
      BY <3>1 DEF Accounted, AccountedBut, HasARow
    <3>3. ASSUME r = s, k = n PROVE FALSE
      <4>1. Belongs(g, s, n)
        BY <1>0, <1>1, <3>2, <3>3 DEF Placed
      <4> QED
        BY <1>0, <2>1, <2>6, <4>1 DEF Belongs, Marked
    <3> QED
      BY <2>3, <3>2, <3>3
  <2> QED
    BY <2>4, <2>5, <2>6
<1>18. Course' /\ CommandAlone' /\ PendingAdd' /\ PendingRename' /\ Settled'
  BY <1>0, <1>1, <1>2, NoCommandIs DEF Course, CommandAlone, PendingAdd, PendingRename, Settled
<1> QED
  BY <1>9, <1>11, <1>12, <1>13, <1>14, <1>15, <1>17, <1>18 DEF FilesInv

LEMMA FilesLink ==
  ASSUME DataTyped, FilesInv, NEW s \in Scopes, NEW n \in Names, NEW b \in BOOLEAN, NEW site \in Sites,
         SetSite(s, n, site, b)
  PROVE  DataTyped' /\ FilesInv'
<1> DEFINE linked == [registry[s][n] EXCEPT !.site = site]
<1>0. /\ Course /\ Placed /\ Alone /\ Marked /\ UserFilesKept /\ OwnTokenOrNone /\ Kept /\ Tracked /\ Settled
  BY DEF FilesInv
<1>1. /\ cmd = NoCommand /\ cmd' = cmd /\ HasRow(s, n) /\ chosen' = NoChoice /\ commands' \in 0..MaxCommands
      /\ registry' = [registry EXCEPT ![s][n].site = site]
      /\ UNCHANGED <<windows, files, workspace, credential, meant, suspect, shared, replaced>>
  <2>1. commands' \in 0..MaxCommands
    BY CredentialAssumption DEF SetSite, Begin, DataTyped
  <2> QED
    BY <2>1 DEF SetSite, Begin
<1>2. stale' \in BOOLEAN
  <2>1. (menu.kind # "none") \in BOOLEAN
    OBVIOUS
  <2> QED
    BY <2>1 DEF SetSite, Begin, DataTyped
<1>3. linked \in Rows /\ linked.file = registry[s][n].file
  <2>1. registry[s][n] \in Rows
    BY <1>1 DEF HasRow, DataTyped
  <2> QED
    BY <2>1 DEF Rows
<1>4. registry' = [registry EXCEPT ![s][n] = linked]
  <2>1. registry[s] = registry[s]
    OBVIOUS
  <2> QED
    BY <1>1
<1> HIDE DEF linked
<1>5. /\ registry' \in [Scopes -> [Names -> Rows \cup {NoRow}]] /\ registry'[s][n] = linked
      /\ \A r \in Scopes, m \in Names : <<r, m>> # <<s, n>> => registry'[r][m] = registry[r][m]
  BY <1>3, <1>4 DEF DataTyped
<1>6. linked # NoRow
  BY <1>3, RowFiles
<1>7. \A r \in Scopes, m \in Names :
        registry'[r][m].file = registry[r][m].file /\ (registry'[r][m] # NoRow <=> registry[r][m] # NoRow)
  BY <1>1, <1>3, <1>5, <1>6 DEF HasRow
<1>8. DataTyped'
  <2>1. \A m \in Names : registry'["local"][m] # NoRow => workspace'
    BY <1>1, <1>7 DEF DataTyped, Scopes
  <2>2. chosen' \in [scope: Scopes, name: Names \cup {Nobody}]
    BY <1>1 DEF NoChoice, Scopes
  <2> QED
    BY <1>1, <1>2, <1>5, <2>1, <2>2 DEF DataTyped
<1>9. Placed'
  BY <1>0, <1>1, <1>7 DEF Placed, HasRow, Belongs
<1>10. UserFilesKept' /\ Marked' /\ OwnTokenOrNone' /\ Kept'
  BY <1>0, <1>1, <1>7 DEF UserFilesKept, Marked, OwnTokenOrNone, Kept, HasRow, Given, About
<1>11. Course' /\ CommandAlone' /\ PendingAdd' /\ PendingRename' /\ Settled'
  BY <1>1, NoCommandIs DEF Course, CommandAlone, PendingAdd, PendingRename, Settled, NoChoice
<1>12. Alone' /\ Tracked'
  BY <1>0, <1>1, <1>7 DEF Alone, Tracked, Accounted, AccountedBut, HasARow, InHand
<1> QED
  BY <1>8, <1>9, <1>10, <1>11, <1>12 DEF FilesInv

\* The steps that leave the registry and the files alone.
LEMMA FilesKept ==
  ASSUME DataTyped, FilesInv, UNCHANGED <<windows, registry, files, commands, meant, shared, replaced>>,
         workspace => workspace', workspace' \in BOOLEAN, credential' \in Names \cup {Nobody}, stale' \in BOOLEAN,
         chosen' \in [scope: Scopes, name: Names \cup {Nobody}],
         \/ suspect' = suspect /\ cmd' = cmd
         \/ suspect' = suspect /\ cmd.op = "add" /\ cmd.step # "save"
            /\ cmd' \in {NoCommand, [cmd EXCEPT !.step = "config"]}
         \/ cmd' = NoCommand /\ suspect' = suspect \cup InHand /\ InHand \subseteq ManagedFiles,
         Settled'
  PROVE  DataTyped' /\ FilesInv'
<1>0. /\ Course /\ Placed /\ Alone /\ CommandAlone /\ Marked /\ UserFilesKept
      /\ OwnTokenOrNone /\ Kept /\ Tracked /\ PendingAdd /\ PendingRename
  BY DEF FilesInv
<1>1. suspect' \in SUBSET ManagedFiles /\ suspect \subseteq suspect'
  BY DEF DataTyped
<1>2. cmd' \in Command
  <2>1. [cmd EXCEPT !.step = "config"] \in Command
    BY DEF DataTyped, Command
  <2> QED
    BY <2>1, NoCommandIs DEF DataTyped
<1>3. DataTyped'
  BY <1>1, <1>2 DEF DataTyped
<1>4. Placed' /\ Alone' /\ Marked'
  BY <1>0, <1>1 DEF Placed, HasRow, Belongs, Alone, Marked
<1>5. UserFilesKept' /\ OwnTokenOrNone'
  BY <1>0 DEF UserFilesKept, OwnTokenOrNone, HasRow, Given
<1>6. CASE suspect' = suspect /\ cmd' = cmd
  <2>1. Course' /\ CommandAlone' /\ Kept' /\ Tracked'
    BY <1>0, <1>6
       DEF Course, Belongs, CommandAlone, Kept, About, Tracked, HasRow, Given, InHand, Accounted, AccountedBut, HasARow
  <2>2. PendingAdd' /\ PendingRename'
    BY <1>0, <1>6 DEF PendingAdd, PendingRename, HasRow, Given, Accounted, AccountedBut, HasARow
  <2> QED
    BY <1>3, <1>4, <1>5, <2>1, <2>2 DEF FilesInv
<1>7. CASE suspect' = suspect /\ cmd.op = "add" /\ cmd.step # "save"
           /\ cmd' \in {NoCommand, [cmd EXCEPT !.step = "config"]}
  <2>1. cmd.scope \in Scopes /\ cmd.name \in Names /\ cmd.to = cmd.name
    BY <1>0, <1>7 DEF Course, DataTyped, Command
  <2>2. Kept'
    <3> SUFFICES ASSUME NEW r \in Scopes, NEW m \in Names, HasRow(r, m), TokenFile(r, m) \notin suspect
                 PROVE  Given(r, m) \in meant[r][m]
      BY <1>7 DEF Kept, HasRow, Given
    <3>1. CASE About(r, m)
      BY <1>0, <1>7, <2>1, <3>1 DEF PendingAdd, About
    <3> QED
      BY <1>0, <3>1 DEF Kept
  <2>3. Tracked'
    <3> SUFFICES ASSUME NEW r \in Scopes, NEW m \in Names, TokenFile(r, m) \notin suspect
                 PROVE  Accounted(r, TokenFile(r, m))
      BY <1>7 DEF Tracked, Accounted, AccountedBut, HasARow
    <3>1. CASE TokenFile(r, m) = TokenFile(cmd.scope, cmd.name)
      <4>1. r = cmd.scope
        BY <2>1, <3>1, FileNames
      <4> QED
        BY <1>0, <1>7, <3>1, <4>1 DEF PendingAdd
    <3>2. CASE TokenFile(r, m) # TokenFile(cmd.scope, cmd.name)
      BY <1>0, <2>1, <3>2 DEF Tracked, InHand
    <3> QED
      BY <3>1, <3>2
  <2>4. \/ cmd' = NoCommand
        \/ /\ cmd'.op = "add" /\ cmd'.step = "config" /\ cmd'.name = cmd.name /\ cmd'.to = cmd.to /\ cmd'.row = cmd.row
           /\ cmd'.scope = cmd.scope /\ cmd'.menu = cmd.menu
    BY <1>7 DEF DataTyped, Command
  <2>5. Course' /\ CommandAlone' /\ PendingAdd' /\ PendingRename'
    <3>1. CASE cmd' = NoCommand
      BY <3>1, NoCommandIs DEF Course, CommandAlone, PendingAdd, PendingRename
    <3>2. CASE cmd' # NoCommand
      <4>1. Course' /\ CommandAlone'
        BY <1>0, <1>7, <2>4, <3>2 DEF Course, Belongs, CommandAlone
      <4>2. PendingAdd' /\ PendingRename'
        BY <1>0, <1>7, <2>4, <3>2 DEF PendingAdd, PendingRename, HasRow, Given, Accounted, AccountedBut, HasARow
      <4> QED
        BY <4>1, <4>2
    <3> QED
      BY <3>1, <3>2
  <2> QED
    BY <1>3, <1>4, <1>5, <2>2, <2>3, <2>5 DEF FilesInv
<1>8. CASE cmd' = NoCommand /\ suspect' = suspect \cup InHand
  <2>1. Kept'
    <3> SUFFICES ASSUME NEW r \in Scopes, NEW m \in Names, HasRow(r, m), TokenFile(r, m) \notin suspect \cup InHand
                 PROVE  Given(r, m) \in meant[r][m]
      BY <1>8 DEF Kept, HasRow, Given
    <3>1. ~About(r, m)
      BY DEF About, InHand
    <3> QED
      BY <1>0, <3>1 DEF Kept
  <2>2. Tracked'
    <3> SUFFICES ASSUME NEW r \in Scopes, NEW m \in Names, TokenFile(r, m) \notin suspect \cup InHand
                 PROVE  Accounted(r, TokenFile(r, m))
      BY <1>8 DEF Tracked, Accounted, AccountedBut, HasARow
    <3> QED
      BY <1>0 DEF Tracked
  <2>3. Course' /\ CommandAlone' /\ PendingAdd' /\ PendingRename'
    BY <1>8, NoCommandIs DEF Course, CommandAlone, PendingAdd, PendingRename
  <2> QED
    BY <1>3, <1>4, <1>5, <2>1, <2>2, <2>3 DEF FilesInv
<1> QED
  BY <1>6, <1>7, <1>8

LEMMA FilesOthers ==
  ASSUME DataTyped, FilesInv,
         ReadRegistered \/ SaveConfig \/ CutShort \/ OpenStep \/ LeaveStep \/ Arrow \/ Toggle \/ ChooseStep
  PROVE  DataTyped' /\ FilesInv'
<1>0. Course /\ Settled
  BY DEF FilesInv
<1>a. ASSUME cmd.step \in {"read", "config"}
      PROVE  cmd.op = "add" /\ cmd.step # "save" /\ cmd.name \in Names /\ cmd # NoCommand
  <2>1. cmd.op \in {"none", "add", "rename", "rm"}
    BY DEF DataTyped, Command
  <2> QED
    BY <1>0, <1>a, <2>1, NoCommandIs DEF Course
<1>b. cmd # NoCommand => InHand \subseteq ManagedFiles
  <2>1. cmd.op \in {"none", "add", "rename", "rm"} /\ cmd.scope \in Scopes
    BY DEF DataTyped, Command
  <2> QED
    BY <1>0, <2>1, FileNames DEF Course, InHand
<1>c. NoChoice \in [scope: Scopes, name: Names \cup {Nobody}] /\ NoChoice.name = Nobody
  BY DEF NoChoice, Scopes
<1>1. CASE ReadRegistered
  <2>1. /\ cmd' \in {NoCommand, [cmd EXCEPT !.step = "config"]}
        /\ UNCHANGED <<windows, registry, files, workspace, credential, commands, meant, shared, replaced, stale,
                       chosen, suspect>>
        /\ cmd.op = "add" /\ cmd.step # "save" /\ cmd # NoCommand
    BY <1>1, <1>a DEF ReadRegistered, disk, ghosts
  <2>2. Settled'
    BY <1>0, <2>1 DEF Settled
  <2> QED
    BY <2>1, <2>2, FilesKept DEF DataTyped
<1>2. CASE SaveConfig
  <2>1. /\ cmd' = NoCommand /\ credential' = cmd.name /\ chosen' = [scope |-> cmd.scope, name |-> cmd.name]
        /\ UNCHANGED <<windows, registry, files, workspace, commands, meant, shared, replaced, stale, suspect>>
        /\ cmd.op = "add" /\ cmd.step # "save" /\ cmd.name \in Names
    BY <1>2, <1>a DEF SaveConfig
  <2>2. Settled'
    BY <2>1 DEF Settled
  <2>3. chosen' \in [scope: Scopes, name: Names \cup {Nobody}]
    BY <2>1 DEF DataTyped, Command
  <2> QED
    BY <2>1, <2>2, <2>3, FilesKept DEF DataTyped
<1>3. CASE CutShort
  <2>1. /\ cmd # NoCommand /\ cmd' = NoCommand
        /\ UNCHANGED <<windows, registry, files, workspace, credential, commands, meant, shared, replaced, stale, chosen>>
        /\ suspect' = suspect \cup (IF cmd.step \in {"read", "config"} THEN {} ELSE InHand)
    <3>1. cmd # NoCommand /\ cmd.op \in {"none", "add", "rename", "rm"}
      BY <1>3 DEF CutShort, DataTyped, Command
    <3>2. InHand = {TokenFile(cmd.scope, n) : n \in {cmd.name, cmd.to}}
      BY <1>0, <3>1 DEF InHand, Course
    <3> QED
      BY <1>3, <3>2 DEF CutShort, disk
  <2>2. Settled'
    BY <1>0, <2>1 DEF Settled
  <2>3. CASE cmd.step \in {"read", "config"}
    <3>1. suspect' = suspect
      BY <2>1, <2>3
    <3> QED
      BY <1>a, <2>1, <2>2, <2>3, <3>1, FilesKept DEF DataTyped
  <2>4. CASE cmd.step \notin {"read", "config"}
    BY <1>b, <2>1, <2>2, <2>4, FilesKept DEF DataTyped
  <2> QED
    BY <2>3, <2>4
<1>4. CASE OpenStep \/ LeaveStep \/ Arrow \/ Toggle
  <2>1. /\ UNCHANGED <<windows, registry, files, workspace, credential, cmd, commands, meant, shared, replaced, suspect,
                       chosen>>
        /\ stale' \in BOOLEAN
    BY <1>4 DEF OpenStep, OpenMenu, LeaveStep, CloseMenu, Arrow, Toggle, disk, ghosts, DataTyped
  <2>2. Settled'
    BY <1>0, <2>1 DEF Settled
  <2> QED
    BY <2>1, <2>2, FilesKept DEF DataTyped
<1>5. CASE ChooseStep
  <2>1. CASE UNCHANGED <<windows, disk, cmd, commands, ghosts>>
    <3>1. UNCHANGED <<windows, registry, files, workspace, credential, cmd, commands, meant, shared, replaced, suspect,
                      chosen, stale>>
      BY <2>1 DEF disk, ghosts
    <3>2. Settled'
      BY <1>0, <3>1 DEF Settled
    <3> QED
      BY <3>1, <3>2, FilesKept DEF DataTyped
  <2>2. CASE \E name \in Names \cup {Nobody} : cmd = NoCommand /\ Record(name) /\ stale' = stale
    <3>1. PICK name \in Names \cup {Nobody} : cmd = NoCommand /\ Record(name) /\ stale' = stale
      BY <2>2
    <3>2. /\ UNCHANGED <<windows, registry, files, cmd, commands, meant, shared, replaced, suspect, stale>>
          /\ workspace' = TRUE /\ credential' = name /\ chosen' = [scope |-> "global", name |-> name]
      BY <3>1 DEF Record
    <3>3. Settled'
      BY <3>1, <3>2 DEF Settled
    <3>4. chosen' \in [scope: Scopes, name: Names \cup {Nobody}]
      BY <3>2 DEF Scopes
    <3> QED
      BY <3>2, <3>3, <3>4, FilesKept DEF DataTyped
  <2> QED
    BY <1>5, <2>1, <2>2 DEF ChooseStep
<1> QED
  BY <1>1, <1>2, <1>3, <1>4, <1>5

-----------------------------------------------------------------------------
(* The steps keep the menu true.                                           *)

\* What a menu shows depends on the sites of its rows and its filter.
LEMMA SameVisible ==
  ASSUME NEW m, NEW g, g.all = m.all, g.target = m.target, DOMAIN g.rows = DOMAIN m.rows,
         \A i \in DOMAIN m.rows : g.rows[i].site = m.rows[i].site
  PROVE  Visible(g) = Visible(m)
<1>1. Shown(g) = Shown(m)
  BY DEF Shown, MatchesSite
<1>2. Visible(g) = InOrder(Shown(g)) /\ Visible(m) = InOrder(Shown(m))
  BY DEF Visible, Shown
<1> QED
  BY <1>1, <1>2

LEMMA RowsOfMenu ==
  ASSUME NEW m \in Menus
  PROVE  /\ \A i \in DOMAIN m.rows : m.rows[i] \in Listed /\ m.rows[i].scope \in Scopes /\ m.rows[i].name \in Names
         /\ 0 \notin DOMAIN m.rows /\ DOMAIN m.rows = 1..Len(m.rows)
<1>1. m.rows \in Seq(Listed)
  BY DEF Menus
<1>2. DOMAIN m.rows = 1..Len(m.rows) /\ Len(m.rows) \in Nat /\ \A i \in DOMAIN m.rows : m.rows[i] \in Listed
  BY <1>1
<1> QED
  BY <1>2 DEF Listed

\* A clamped cursor is on the list.
LEMMA ClampedIsOn ==
  ASSUME NEW m \in Menus, NEW g, g = Clamped(m)
  PROVE  /\ g \in Menus /\ (g.idx > 0 => g.idx < Len(Visible(g)))
         /\ g.kind = m.kind /\ g.rows = m.rows /\ g.all = m.all /\ g.target = m.target
<1> DEFINE n == Len(Visible(m))
           idx == IF n = 0 THEN 0 ELSE IF m.idx >= n THEN n - 1 ELSE m.idx
<1>1. m.rows \in Seq(Listed) /\ m.idx \in Nat
  BY DEF Menus
<1>2. n \in Nat
  BY <1>1, VisibleRows
<1>3. g = [m EXCEPT !.idx = idx]
  BY DEF Clamped
<1> HIDE DEF n
<1>4. idx \in Nat /\ (idx > 0 => idx < n)
  BY <1>1, <1>2
<1> HIDE DEF idx
<1>5. g \in Menus /\ g.kind = m.kind /\ g.rows = m.rows /\ g.all = m.all /\ g.target = m.target /\ g.idx = idx
  BY <1>3, <1>4 DEF Menus
<1>6. Visible(g) = Visible(m)
  BY <1>5, SameVisible
<1> QED
  BY <1>4, <1>5, <1>6 DEF n

\* A row taken out of a menu.
LEMMA RowTakenOut ==
  ASSUME NEW m \in Menus, NEW k \in 1..Len(m.rows), NEW reg, NEW g,
         g = Clamped([m EXCEPT !.rows = RemoveAt(@, k)])
  PROVE  /\ g \in Menus /\ (g.idx > 0 => g.idx < Len(Visible(g))) /\ g.kind = m.kind
         /\ Told(m.rows, k, reg) /\ Apart(m.rows) => Told(g.rows, 0, reg) /\ Apart(g.rows)
<1> DEFINE rows == RemoveAt(m.rows, k)
           h == [m EXCEPT !.rows = rows]
           At(j) == IF j < k THEN j ELSE j + 1
<1>1. m.rows \in Seq(Listed) /\ Len(m.rows) \in Nat /\ DOMAIN m.rows = 1..Len(m.rows)
  BY DEF Menus
<1>2. /\ rows \in Seq(Listed) /\ Len(rows) = Len(m.rows) - 1
      /\ \A j \in 1..Len(m.rows) - 1 : rows[j] = IF j < k THEN m.rows[j] ELSE m.rows[j + 1]
  BY <1>1, RemoveAtPlaces
<1>3. DOMAIN rows = 1..Len(m.rows) - 1
  BY <1>1, <1>2
<1> HIDE DEF rows
<1>4. h \in Menus /\ h.kind = m.kind /\ h.rows = rows
  BY <1>2 DEF Menus
<1>5. g = Clamped(h)
  BY DEF rows
<1> HIDE DEF h
<1>6. g \in Menus /\ (g.idx > 0 => g.idx < Len(Visible(g))) /\ g.kind = m.kind /\ g.rows = rows
  BY <1>4, <1>5, ClampedIsOn
<1>7. \A j \in DOMAIN rows : At(j) \in DOMAIN m.rows /\ At(j) # k /\ rows[j] = m.rows[At(j)]
  BY <1>1, <1>2, <1>3
<1>8. \A i, j \in DOMAIN rows : At(i) = At(j) => i = j
  BY <1>1, <1>3
<1> HIDE DEF At
<1>9. Told(m.rows, k, reg) => Told(rows, 0, reg)
  BY <1>7 DEF Told
<1>10. Apart(m.rows) => Apart(rows)
  BY <1>7, <1>8 DEF Apart
<1> QED
  BY <1>6, <1>9, <1>10

\* A row of a menu replaced by another.
LEMMA RowReplaced ==
  ASSUME NEW m \in Menus, NEW k \in 1..Len(m.rows), NEW row \in Listed, NEW g,
         g = [m EXCEPT !.rows = [@ EXCEPT ![k] = row]]
  PROVE  /\ g \in Menus /\ g.kind = m.kind /\ g.all = m.all /\ g.target = m.target /\ g.idx = m.idx
         /\ DOMAIN g.rows = DOMAIN m.rows /\ g.rows[k] = row
         /\ \A i \in DOMAIN m.rows : i # k => g.rows[i] = m.rows[i]
<1> DEFINE rows == [m.rows EXCEPT ![k] = row]
<1>1. m.rows \in Seq(Listed) /\ DOMAIN m.rows = 1..Len(m.rows)
  BY DEF Menus
<1>2. /\ rows \in Seq(Listed) /\ DOMAIN rows = DOMAIN m.rows /\ rows[k] = row
      /\ \A i \in DOMAIN m.rows : i # k => rows[i] = m.rows[i]
  BY <1>1
<1> HIDE DEF rows
<1>3. g = [m EXCEPT !.rows = rows]
  BY DEF rows
<1>4. g \in Menus /\ g.kind = m.kind /\ g.all = m.all /\ g.target = m.target /\ g.idx = m.idx /\ g.rows = rows
  BY <1>2, <1>3 DEF Menus
<1> QED
  BY <1>2, <1>4

\* What a menu opens with is what the registry has, each credential once.
LEMMA ListedRows ==
  ASSUME DataTyped, NEW here \in BOOLEAN, NEW rows, rows = ListCredentials(here)
  PROVE  rows \in Seq(Listed) /\ Told(rows, 0, registry) /\ Apart(rows)
<1> DEFINE names == InOrder(Available(here))
           c == Cardinality(Available(here))
<1>1. Available(here) \in SUBSET Nat /\ IsFiniteSet(Available(here)) /\ Available(here) \subseteq Names
  <2>1. Available(here) \in SUBSET Names
    BY DEF Available
  <2> QED
    BY <2>1, FS_Subset, CredentialAssumption
<1>2. /\ names \in Seq(Available(here)) /\ Len(names) = c /\ c \in Nat /\ DOMAIN names = 1..c
      /\ \A i, j \in 1..c : names[i] = names[j] => i = j
  BY <1>1, InOrderLists
<1> HIDE DEF names
<1>3. rows = [i \in DOMAIN names |-> RowOf(names[i], here)]
  BY DEF ListCredentials, names
<1> HIDE DEF c
<1>4. ASSUME NEW i \in 1..c
      PROVE  /\ names[i] \in Names /\ HasRow(ScopeOf(names[i], here), names[i])
             /\ ScopeOf(names[i], here) \in Scopes
  <2>1. names[i] \in Available(here)
    BY <1>2
  <2> QED
    BY <1>1, <2>1 DEF Available, ScopeOf, Scopes
<1>5. ASSUME NEW i \in 1..c
      PROVE  rows[i] \in Listed /\ rows[i].name = names[i] /\ RowTrue(rows[i], registry)
  <2> DEFINE n == names[i]
             s == ScopeOf(n, here)
  <2>1. n \in Names /\ s \in Scopes /\ HasRow(s, n)
    BY <1>4
  <2>2. rows[i] = RowOf(n, here)
    BY <1>2, <1>3
  <2> HIDE DEF n, s
  <2>3. registry[s][n] \in Rows
    BY <2>1 DEF HasRow, DataTyped
  <2>4. registry[s][n].site \in Sites0
    BY <2>3, RowFiles
  <2>5. rows[i] = [scope |-> s, name |-> n, padded |-> FALSE, site |-> registry[s][n].site]
    BY <2>2 DEF RowOf, s
  <2>6. rows[i] \in Listed /\ rows[i].name = n /\ rows[i].scope = s /\ rows[i].site = registry[s][n].site
    BY <2>1, <2>4, <2>5 DEF Listed, Sites0
  <2> QED
    BY <2>1, <2>6 DEF RowTrue, HasRow, n
<1>6. DOMAIN rows = 1..c
  BY <1>2, <1>3
<1>7. rows \in Seq(Listed)
  <2>1. rows \in [1..c -> Listed]
    BY <1>2, <1>3, <1>5, <1>6
  <2> QED
    BY <1>2, <2>1
<1>8. Told(rows, 0, registry) /\ Apart(rows)
  BY <1>2, <1>5, <1>6 DEF Told, Apart
<1> QED
  BY <1>7, <1>8

\* Steps that leave the menu alone.
LEMMA MenuKept ==
  ASSUME TypeOK, MenuInv, menu' = menu, ~cmd'.menu, ~(cmd.op = "rm" /\ cmd.menu),
         \/ menu.kind = "none" \/ stale'
         \/ registry' = registry /\ stale' = stale /\ cmd' = NoCommand
  PROVE  menu' \in Menus /\ MenuInv'
<1>1. menu \in Menus
  BY MenuOf
<1>2. menu'.idx > 0 => menu'.idx < Len(Visible(menu'))
  BY DEF MenuInv
<1>3. menu'.kind # "none" /\ ~stale' => Told(menu'.rows, Hole', registry') /\ Apart(menu'.rows)
  <2> SUFFICES ASSUME menu.kind # "none", ~stale' PROVE Told(menu.rows, Hole', registry') /\ Apart(menu.rows)
    OBVIOUS
  <2>1. registry' = registry /\ ~stale
    OBVIOUS
  <2>2. Hole = 0 /\ Hole' = 0
    BY DEF Hole
  <2>3. Told(menu.rows, 0, registry) /\ Apart(menu.rows)
    BY <2>1, <2>2 DEF MenuInv
  <2> QED
    BY <2>1, <2>2, <2>3
<1>4. cmd' # NoCommand /\ ~cmd'.menu /\ menu'.kind # "none" => stale'
  OBVIOUS
<1> QED
  BY <1>1, <1>2, <1>3, <1>4 DEF MenuInv

LEMMA MenuGone ==
  ASSUME menu' = NoMenu, ~cmd'.menu
  PROVE  menu' \in Menus /\ MenuInv'
<1>1. NoMenu \in Menus /\ NoMenu.kind = "none" /\ NoMenu.idx = 0
  <2>1. <<>> \in Seq(Listed)
    OBVIOUS
  <2> QED
    BY <2>1 DEF NoMenu, Menus, Sites0
<1> QED
  BY <1>1 DEF MenuInv

\* A command of another terminal.
LEMMA MenuElsewhere ==
  ASSUME CredInv, NEW b \in BOOLEAN, ~b, Begin(b), menu' = menu, ~cmd'.menu
  PROVE  menu' \in Menus /\ MenuInv'
<1>1. cmd = NoCommand /\ stale' = (menu.kind # "none")
  BY DEF Begin
<1>2. ~cmd.menu /\ (menu.kind = "none" \/ stale')
  BY <1>1, NoCommandIs
<1> QED
  BY <1>2, MenuKept DEF CredInv

\* The row of a command of the menu.
LEMMA OfTheCursor ==
  ASSUME CredInv, Visible(menu) # <<>>
  PROVE  /\ menu \in Menus /\ Cursor(menu) \in 1..Len(menu.rows) /\ Cursor(menu) \in DOMAIN menu.rows
         /\ Current(menu) \in Listed /\ Current(menu) = menu.rows[Cursor(menu)]
         /\ Cursor(menu) # 0 /\ (menu.idx > 0 => menu.idx < Len(Visible(menu)))
<1>1. menu \in Menus /\ (menu.idx > 0 => menu.idx < Len(Visible(menu)))
  BY MenuOf DEF CredInv, MenuInv
<1>2. /\ Cursor(menu) \in 1..Len(menu.rows) /\ Cursor(menu) \in DOMAIN menu.rows
      /\ Current(menu) \in Listed /\ Current(menu) = menu.rows[Cursor(menu)] /\ Len(menu.rows) \in Nat
  BY <1>1, CursorOnRow
<1> QED
  BY <1>1, <1>2

\* Taking a credential from the registry leaves the other rows true.
LEMMA OthersTold ==
  ASSUME NEW rows, NEW k \in DOMAIN rows, NEW reg, NEW reg1,
         Apart(rows), 0 \notin DOMAIN rows, NEW hole, hole \in {0, k}, Told(rows, hole, reg),
         \A i \in DOMAIN rows : rows[i].scope \in Scopes /\ rows[i].name \in Names,
         \A r \in Scopes, m \in Names :
           \/ r = rows[k].scope /\ m = rows[k].name
           \/ reg[r][m] # NoRow => reg1[r][m] = reg[r][m]
  PROVE  Told(rows, k, reg1)
<1> SUFFICES ASSUME NEW i \in DOMAIN rows, i # k PROVE RowTrue(rows[i], reg1)
  BY DEF Told
<1>1. ~(rows[i].scope = rows[k].scope /\ rows[i].name = rows[k].name)
  BY DEF Apart
<1>2. RowTrue(rows[i], reg)
  BY DEF Told
<1>3. reg1[rows[i].scope][rows[i].name] = reg[rows[i].scope][rows[i].name]
  BY <1>1, <1>2 DEF RowTrue
<1> QED
  BY <1>2, <1>3 DEF RowTrue

LEMMA MenuRemove ==
  ASSUME CredInv, NEW s \in Scopes, NEW n \in Names, NEW b \in BOOLEAN, OnCursor(b, s, n), InManager(b),
         RemoveRow(s, n, b)
  PROVE  menu' \in Menus /\ MenuInv'
<1> DEFINE c == [NoCommand EXCEPT !.op = "rm", !.step = "unlink", !.scope = s, !.name = n,
                                  !.to = n, !.menu = b, !.row = registry[s][n]]
<1>1. c.op = "rm" /\ c.scope = s /\ c.name = n /\ c.menu = b
  BY DEF NoCommand
<1>2. /\ cmd = NoCommand /\ registry' = [registry EXCEPT ![s][n] = NoRow] /\ Begin(b)
      /\ \/ cmd' = c /\ menu' = menu
         \/ cmd' = NoCommand /\ menu' = After(c)
  BY DEF RemoveRow, Begin, Finish
<1> HIDE DEF c
<1>3. CASE ~b
  <2>1. menu' = menu /\ ~cmd'.menu
    BY <1>1, <1>2, <1>3, NoCommandIs DEF After
  <2> QED
    BY <1>2, <1>3, <2>1, MenuElsewhere
<1>4. CASE b
  <2> DEFINE k == Cursor(menu)
  <2>1. /\ Visible(menu) # <<>> /\ menu.kind = "manager" /\ Current(menu).scope = s /\ Current(menu).name = n
        /\ stale' = stale
    BY <1>2, <1>4 DEF OnCursor, OnRow, InManager, Begin
  <2>2. /\ menu \in Menus /\ k \in 1..Len(menu.rows) /\ k \in DOMAIN menu.rows
        /\ Current(menu) = menu.rows[k] /\ (menu.idx > 0 => menu.idx < Len(Visible(menu)))
    BY <2>1, OfTheCursor
  <2>3. ~stale => Told(menu.rows, k, registry') /\ Apart(menu.rows)
    <3> SUFFICES ASSUME ~stale PROVE Told(menu.rows, k, registry') /\ Apart(menu.rows)
      OBVIOUS
    <3>1. Hole = 0
      BY <1>2, NoCommandIs DEF Hole
    <3>2. Told(menu.rows, 0, registry) /\ Apart(menu.rows)
      BY <2>1, <3>1 DEF CredInv, MenuInv
    <3>3. /\ \A i \in DOMAIN menu.rows : menu.rows[i].scope \in Scopes /\ menu.rows[i].name \in Names
          /\ 0 \notin DOMAIN menu.rows
      BY <2>2, RowsOfMenu
    <3>4. \A r \in Scopes, m \in Names : (r = s /\ m = n) \/ registry'[r][m] = registry[r][m]
      BY <1>2 DEF CredInv, TypeOK
    <3> HIDE DEF k
    <3>5. \A r \in Scopes, m \in Names :
            \/ r = menu.rows[k].scope /\ m = menu.rows[k].name
            \/ registry[r][m] # NoRow => registry'[r][m] = registry[r][m]
      BY <2>1, <2>2, <3>4
    <3>6. Told(menu.rows, k, registry')
      BY <2>2, <3>2, <3>3, <3>5, OthersTold
    <3> QED
      BY <3>2, <3>6
  <2>4. CASE cmd' = c /\ menu' = menu
    <3>1. Hole' = k
      BY <1>1, <1>4, <2>4 DEF Hole
    <3>2. cmd'.menu /\ cmd'.scope = s /\ cmd'.name = n
      BY <1>1, <1>4, <2>4
    <3> HIDE DEF k
    <3>3. menu'.kind # "none" /\ ~stale' => Told(menu'.rows, Hole', registry') /\ Apart(menu'.rows)
      BY <2>1, <2>3, <2>4, <3>1
    <3> QED
      BY <2>1, <2>2, <2>4, <3>2, <3>3 DEF MenuInv
  <2>5. CASE cmd' = NoCommand /\ menu' = After(c)
    <3>1. menu' = Clamped([menu EXCEPT !.rows = RemoveAt(@, k)])
      BY <1>1, <1>4, <2>5 DEF After
    <3> HIDE DEF k
    <3>2. /\ menu' \in Menus /\ (menu'.idx > 0 => menu'.idx < Len(Visible(menu')))
          /\ Told(menu.rows, k, registry') /\ Apart(menu.rows) => Told(menu'.rows, 0, registry') /\ Apart(menu'.rows)
      BY <2>2, <3>1, RowTakenOut
    <3>3. Hole' = 0 /\ ~cmd'.menu
      BY <2>5, NoCommandIs DEF Hole
    <3> QED
      BY <2>1, <2>3, <2>5, <3>2, <3>3 DEF MenuInv
  <2> QED
    BY <1>2, <2>4, <2>5
<1> QED
  BY <1>3, <1>4

LEMMA MenuUnlink ==
  ASSUME CredInv, Unlink
  PROVE  menu' \in Menus /\ MenuInv'
<1>1. cmd.op = "rm" /\ cmd # NoCommand /\ cmd' = NoCommand /\ menu' = After(cmd) /\ registry' = registry /\ stale' = stale
  BY NoCommandIs DEF Unlink, Finish, CredInv, FilesInv, Course, TypeOK, Command
<1>2. CASE ~cmd.menu
  <2>1. menu' = menu /\ (menu.kind = "none" \/ stale')
    BY <1>1, <1>2 DEF After, CredInv, MenuInv
  <2> QED
    BY <1>1, <1>2, <2>1, MenuKept, NoCommandIs DEF CredInv
<1>3. CASE cmd.menu
  <2> DEFINE k == Cursor(menu)
  <2>1. Visible(menu) # <<>> /\ menu.kind = "manager"
    BY <1>3 DEF CredInv, MenuInv
  <2>2. menu \in Menus /\ k \in 1..Len(menu.rows)
    BY <2>1, OfTheCursor
  <2>3. Hole = k
    BY <1>1, <1>3 DEF Hole
  <2>4. menu' = Clamped([menu EXCEPT !.rows = RemoveAt(@, k)])
    BY <1>1, <1>3 DEF After
  <2> HIDE DEF k
  <2>5. ~stale => Told(menu.rows, k, registry) /\ Apart(menu.rows)
    BY <2>1, <2>3 DEF CredInv, MenuInv
  <2>6. /\ menu' \in Menus /\ (menu'.idx > 0 => menu'.idx < Len(Visible(menu')))
        /\ Told(menu.rows, k, registry) /\ Apart(menu.rows) => Told(menu'.rows, 0, registry) /\ Apart(menu'.rows)
    BY <2>2, <2>4, RowTakenOut
  <2>7. Hole' = 0 /\ ~cmd'.menu
    BY <1>1, NoCommandIs DEF Hole
  <2> QED
    BY <1>1, <2>5, <2>6, <2>7 DEF MenuInv
<1> QED
  BY <1>2, <1>3

LEMMA MenuRename ==
  ASSUME CredInv, NEW s \in Scopes, NEW n \in Names, NEW b \in BOOLEAN, NEW new \in Names, NEW padded \in BOOLEAN,
         OnCursor(b, s, n), InManager(b), Rename(s, n, new, b, padded)
  PROVE  menu' \in Menus /\ MenuInv'
<1> DEFINE Going(file) == [NoCommand EXCEPT !.op = "rename", !.step = "save", !.scope = s,
                             !.name = n, !.to = new, !.menu = b, !.padded = padded,
                             !.row = [registry[s][n] EXCEPT !.file = file]]
<1>1. \A f : Going(f).op = "rename" /\ Going(f).scope = s /\ Going(f).name = n /\ Going(f).menu = b
  BY DEF NoCommand
<1>2. cmd = NoCommand /\ Begin(b) /\ menu' = menu /\ registry' = registry /\ \E f : cmd' = Going(f)
  BY DEF Rename, Begin
<1> HIDE DEF Going
<1>3. cmd'.op = "rename" /\ cmd'.scope = s /\ cmd'.name = n /\ cmd'.menu = b
  BY <1>1, <1>2
<1>4. CASE ~b
  BY <1>2, <1>3, <1>4, MenuElsewhere
<1>5. CASE b
  <2>1. /\ Visible(menu) # <<>> /\ menu.kind = "manager" /\ Current(menu).scope = s /\ Current(menu).name = n
        /\ stale' = stale
    BY <1>2, <1>5 DEF OnCursor, OnRow, InManager, Begin
  <2>2. menu \in Menus /\ (menu.idx > 0 => menu.idx < Len(Visible(menu)))
    BY <2>1, OfTheCursor
  <2>3. Hole = 0 /\ Hole' = 0
    BY <1>2, <1>3, NoCommandIs DEF Hole
  <2>4. ~stale => Told(menu.rows, 0, registry) /\ Apart(menu.rows)
    BY <2>1, <2>3 DEF CredInv, MenuInv
  <2> QED
    BY <1>2, <1>3, <1>5, <2>1, <2>2, <2>3, <2>4 DEF MenuInv
<1> QED
  BY <1>4, <1>5

\* The row under the cursor takes what the command made of it.
LEMMA MenuWithRow ==
  ASSUME CredInv, Visible(menu) # <<>>, menu.kind # "none", NEW row \in Listed, NEW m, m = WithRow(menu, row),
         NEW reg, RowTrue(row, reg), Hole = 0,
         ~stale => \A i \in DOMAIN menu.rows :
                     i # Cursor(menu) => row.scope # menu.rows[i].scope \/ row.name # menu.rows[i].name,
         \A r \in Scopes, n \in Names :
           \/ r = Current(menu).scope /\ n = Current(menu).name
           \/ registry[r][n] # NoRow => reg[r][n] = registry[r][n]
  PROVE  /\ m \in Menus /\ m.kind = menu.kind /\ m.idx = menu.idx
         /\ row.site = Current(menu).site => Visible(m) = Visible(menu)
         /\ ~stale => Told(m.rows, 0, reg) /\ Apart(m.rows)
<1> DEFINE k == Cursor(menu)
<1>1. /\ menu \in Menus /\ k \in 1..Len(menu.rows) /\ k \in DOMAIN menu.rows
      /\ Current(menu) = menu.rows[k] /\ (menu.idx > 0 => menu.idx < Len(Visible(menu)))
  BY OfTheCursor
<1>2. m = [menu EXCEPT !.rows = [@ EXCEPT ![k] = row]]
  BY DEF WithRow
<1>3. \A i \in DOMAIN menu.rows : i # k => row.scope # menu.rows[i].scope \/ row.name # menu.rows[i].name \/ stale
  OBVIOUS
<1> HIDE DEF k
<1>4. /\ m \in Menus /\ m.kind = menu.kind /\ m.all = menu.all /\ m.target = menu.target /\ m.idx = menu.idx
      /\ DOMAIN m.rows = DOMAIN menu.rows /\ m.rows[k] = row
      /\ \A i \in DOMAIN menu.rows : i # k => m.rows[i] = menu.rows[i]
  BY <1>1, <1>2, RowReplaced
<1>5. row.site = Current(menu).site => Visible(m) = Visible(menu)
  <2> SUFFICES ASSUME row.site = Current(menu).site PROVE Visible(m) = Visible(menu)
    OBVIOUS
  <2>1. \A i \in DOMAIN menu.rows : m.rows[i].site = menu.rows[i].site
    BY <1>1, <1>4
  <2> QED
    BY <1>4, <2>1, SameVisible
<1>6. ASSUME ~stale PROVE Told(m.rows, 0, reg) /\ Apart(m.rows)
  <2>1. Told(menu.rows, 0, registry) /\ Apart(menu.rows)
    BY <1>6 DEF CredInv, MenuInv
  <2>2. /\ \A i \in DOMAIN menu.rows : menu.rows[i].scope \in Scopes /\ menu.rows[i].name \in Names
        /\ 0 \notin DOMAIN menu.rows
    BY <1>1, RowsOfMenu
  <2>3. Told(menu.rows, k, reg)
    BY <1>1, <2>1, <2>2, OthersTold
  <2>4. Told(m.rows, 0, reg)
    BY <1>4, <2>3 DEF Told
  <2>5. Apart(m.rows)
    BY <1>3, <1>4, <1>6, <2>1 DEF Apart
  <2> QED
    BY <2>4, <2>5
<1> QED
  BY <1>4, <1>5, <1>6

LEMMA MenuSaveRename ==
  ASSUME CredInv, SaveRename
  PROVE  menu' \in Menus /\ MenuInv'
<1>1. /\ cmd.op = "rename" /\ cmd # NoCommand /\ cmd' = NoCommand /\ menu' = After(cmd) /\ stale' = stale
      /\ registry' = [registry EXCEPT ![cmd.scope][cmd.name] = NoRow, ![cmd.scope][cmd.to] = cmd.row]
  BY NoCommandIs DEF SaveRename, Finish
<1>2. CASE ~cmd.menu
  <2>1. menu' = menu /\ (menu.kind = "none" \/ stale')
    BY <1>1, <1>2 DEF After, CredInv, MenuInv
  <2> QED
    BY <1>1, <1>2, <2>1, MenuKept, NoCommandIs DEF CredInv
<1>3. CASE cmd.menu
  <2> DEFINE s == cmd.scope
             n == cmd.name
             to == cmd.to
             row == [Current(menu) EXCEPT !.name = to, !.padded = cmd.padded]
  <2>1. Visible(menu) # <<>> /\ menu.kind = "manager" /\ Current(menu).scope = s /\ Current(menu).name = n
    BY <1>3 DEF CredInv, MenuInv
  <2>2. /\ Current(menu) \in Listed /\ Current(menu) = menu.rows[Cursor(menu)] /\ Cursor(menu) \in DOMAIN menu.rows
        /\ menu \in Menus /\ (menu.idx > 0 => menu.idx < Len(Visible(menu)))
    BY <2>1, OfTheCursor
  <2>3. /\ s \in Scopes /\ n \in Names /\ to \in Names /\ n # to /\ cmd.row \in Rows /\ cmd.padded \in BOOLEAN
        /\ HasRow(s, n) /\ ~HasRow(s, to) /\ cmd.row.site = registry[s][n].site
    <3>1. s \in Scopes /\ cmd.padded \in BOOLEAN
      BY DEF CredInv, TypeOK, Command
    <3> QED
      BY <1>1, <3>1, NoCommandIs DEF CredInv, FilesInv, Course
  <2>4. row \in Listed /\ row.scope = s /\ row.name = to /\ row.site = Current(menu).site
    BY <2>1, <2>2, <2>3 DEF Listed
  <2>5. menu' = WithRow(menu, row)
    BY <1>1, <1>3 DEF After
  <2> HIDE DEF s, n, to, row
  <2>6. Hole = 0 /\ Hole' = 0 /\ ~cmd'.menu
    BY <1>1, NoCommandIs DEF Hole
  <2>7. /\ registry'[s][to] = cmd.row /\ cmd.row # NoRow
        /\ \A r \in Scopes, m \in Names : <<r, m>> \notin {<<s, n>>, <<s, to>>} => registry'[r][m] = registry[r][m]
    BY <1>1, <2>3, RowFiles DEF CredInv, TypeOK, s, n, to
  <2>8. CASE stale
    <3>1. menu' \in Menus /\ menu'.kind = menu.kind /\ menu'.idx = menu.idx /\ Visible(menu') = Visible(menu)
      <4>1. Cursor(menu) \in 1..Len(menu.rows)
        BY <2>1, OfTheCursor
      <4>2. /\ menu' \in Menus /\ menu'.kind = menu.kind /\ menu'.all = menu.all /\ menu'.target = menu.target
            /\ menu'.idx = menu.idx /\ DOMAIN menu'.rows = DOMAIN menu.rows
            /\ \A i \in DOMAIN menu.rows : menu'.rows[i].site = menu.rows[i].site
        BY <2>2, <2>4, <2>5, <4>1, RowReplaced DEF WithRow
      <4> QED
        BY <4>2, SameVisible
    <3> QED
      BY <1>1, <2>2, <2>6, <2>8, <3>1 DEF MenuInv
  <2>9. CASE ~stale
    <3>1. Told(menu.rows, 0, registry)
      BY <2>1, <2>6, <2>9 DEF CredInv, MenuInv
    <3>2. \A i \in DOMAIN menu.rows : RowTrue(menu.rows[i], registry)
      BY <2>2, <3>1, RowsOfMenu DEF Told
    <3>3. \A i \in DOMAIN menu.rows :
            i # Cursor(menu) => row.scope # menu.rows[i].scope \/ row.name # menu.rows[i].name
      BY <2>3, <2>4, <3>2 DEF RowTrue, HasRow
    <3>4. RowTrue(row, registry')
      <4>1. registry[s][n].site = Current(menu).site
        BY <2>1, <2>2, <3>2 DEF RowTrue
      <4> QED
        BY <2>3, <2>4, <2>7, <4>1 DEF RowTrue
    <3>5. \A r \in Scopes, m \in Names :
            \/ r = Current(menu).scope /\ m = Current(menu).name
            \/ registry[r][m] # NoRow => registry'[r][m] = registry[r][m]
      BY <2>1, <2>3, <2>7 DEF HasRow
    <3>6. /\ menu' \in Menus /\ menu'.kind = menu.kind /\ menu'.idx = menu.idx /\ Visible(menu') = Visible(menu)
          /\ Told(menu'.rows, 0, registry') /\ Apart(menu'.rows)
      BY <2>1, <2>4, <2>5, <2>6, <2>9, <3>3, <3>4, <3>5, MenuWithRow
    <3> QED
      BY <1>1, <2>2, <2>6, <3>6 DEF MenuInv
  <2> QED
    BY <2>8, <2>9
<1> QED
  BY <1>2, <1>3

LEMMA MenuLink ==
  ASSUME CredInv, NEW s \in Scopes, NEW n \in Names, NEW b \in BOOLEAN, NEW site \in Sites, OnCursor(b, s, n),
         SetSite(s, n, site, b)
  PROVE  menu' \in Menus /\ MenuInv'
<1> DEFINE row == [Current(menu) EXCEPT !.site = site]
<1>1. /\ cmd = NoCommand /\ Begin(b) /\ cmd' = cmd /\ registry' = [registry EXCEPT ![s][n].site = site]
      /\ menu' = (IF b THEN Clamped(WithRow(menu, row)) ELSE menu) /\ HasRow(s, n)
  BY DEF SetSite, Begin
<1>2. CASE ~b
  BY <1>1, <1>2, MenuElsewhere, NoCommandIs
<1>3. CASE b
  <2>1. /\ Visible(menu) # <<>> /\ menu.kind # "none" /\ Current(menu).scope = s /\ Current(menu).name = n
        /\ stale' = stale
    BY <1>1, <1>3 DEF OnCursor, OnRow, InMenu, Begin
  <2>2. /\ Current(menu) \in Listed /\ Current(menu) = menu.rows[Cursor(menu)] /\ Cursor(menu) \in DOMAIN menu.rows
        /\ menu \in Menus
    BY <2>1, OfTheCursor
  <2>3. row \in Listed /\ row.scope = s /\ row.name = n /\ row.site = site
    BY <2>1, <2>2 DEF Listed
  <2> DEFINE m == WithRow(menu, row)
  <2>4. menu' = Clamped(m)
    BY <1>1, <1>3
  <2> HIDE DEF row
  <2>5. Hole = 0 /\ Hole' = 0 /\ ~cmd'.menu
    BY <1>1, NoCommandIs DEF Hole
  <2>6. registry[s][n] \in Rows
    BY <1>1 DEF CredInv, TypeOK, HasRow
  <2>7. /\ registry'[s][n] = [registry[s][n] EXCEPT !.site = site]
        /\ \A r \in Scopes, k \in Names : (r = s /\ k = n) \/ registry'[r][k] = registry[r][k]
    BY <1>1 DEF CredInv, TypeOK
  <2>8. [registry[s][n] EXCEPT !.site = site] \in Rows /\ registry'[s][n].site = site
    BY <2>6, <2>7 DEF Rows
  <2>9. RowTrue(row, registry')
    BY <2>3, <2>7, <2>8, RowFiles DEF RowTrue
  <2>10. ~stale => \A i \in DOMAIN menu.rows :
                     i # Cursor(menu) => row.scope # menu.rows[i].scope \/ row.name # menu.rows[i].name
    <3>1. ~stale => Apart(menu.rows)
      BY <2>1 DEF CredInv, MenuInv
    <3> QED
      BY <2>1, <2>2, <2>3, <3>1 DEF Apart
  <2>11. \A r \in Scopes, k \in Names :
           \/ r = Current(menu).scope /\ k = Current(menu).name
           \/ registry[r][k] # NoRow => registry'[r][k] = registry[r][k]
    BY <2>1, <2>7
  <2>12. m \in Menus /\ m.kind = menu.kind /\ (~stale => Told(m.rows, 0, registry') /\ Apart(m.rows))
    BY <2>1, <2>3, <2>5, <2>9, <2>10, <2>11, MenuWithRow
  <2> HIDE DEF m
  <2>13. menu' \in Menus /\ (menu'.idx > 0 => menu'.idx < Len(Visible(menu'))) /\ menu'.rows = m.rows
    BY <2>4, <2>12, ClampedIsOn
  <2> QED
    BY <1>1, <2>1, <2>5, <2>12, <2>13 DEF MenuInv
<1> QED
  BY <1>2, <1>3

LEMMA MenuOthers ==
  ASSUME CredInv,
         \/ SaveRow \/ ReadRegistered \/ SaveConfig \/ CutShort
         \/ OpenStep \/ LeaveStep \/ Arrow \/ Toggle \/ ChooseStep
  PROVE  menu' \in Menus /\ MenuInv'
<1>0. /\ menu \in Menus /\ (menu.idx > 0 => menu.idx < Len(Visible(menu))) /\ TypeOK /\ MenuInv /\ DataTyped
      /\ Course
  BY MenuOf, TypeOKIs DEF CredInv, MenuInv, FilesInv
<1>1. CASE SaveRow \/ ReadRegistered \/ SaveConfig
  <2>1. cmd.op = "add" /\ cmd # NoCommand
    <3>1. cmd.op \in {"none", "add", "rename", "rm"}
      BY <1>0 DEF DataTyped, Command
    <3> QED
      BY <1>0, <1>1, <3>1, NoCommandIs DEF Course, SaveRow, ReadRegistered, SaveConfig
  <2>2. ~cmd.menu
    BY <1>0, <2>1 DEF Course
  <2>3. menu' = menu /\ stale' = stale /\ (cmd' = NoCommand \/ \E step : cmd' = [cmd EXCEPT !.step = step])
    BY <1>1 DEF SaveRow, ReadRegistered, SaveConfig, ghosts
  <2>4. ~cmd'.menu
    BY <1>0, <2>2, <2>3, NoCommandIs DEF DataTyped, Command
  <2>5. menu.kind = "none" \/ stale'
    BY <1>0, <2>1, <2>2, <2>3 DEF MenuInv
  <2> QED
    BY <1>0, <2>1, <2>3, <2>4, <2>5, MenuKept
<1>2. CASE CutShort
  <2>1. /\ cmd # NoCommand /\ cmd' = NoCommand /\ registry' = registry /\ stale' = stale /\ ~cmd'.menu
        /\ menu' = NoMenu \/ (menu' = menu /\ (~cmd.menu \/ cmd.op = "rename"))
    BY <1>2, NoCommandIs DEF CutShort, disk
  <2> QED
    BY <1>0, <2>1, MenuKept, MenuGone
<1>3. CASE OpenStep
  <2>1. PICK here \in BOOLEAN, kind \in {"manager", "picker"}, site \in Sites0 : OpenMenu(kind, here, site)
    BY <1>3 DEF OpenStep
  <2> DEFINE rows == ListCredentials(here)
             all == site = NoSite \/ ~\E i \in DOMAIN rows : MatchesSite(rows[i], site)
  <2>2. /\ menu' = [kind |-> kind, here |-> here, rows |-> rows, idx |-> 0, target |-> site, all |-> all]
        /\ cmd = NoCommand /\ cmd' = cmd /\ registry' = registry
    BY <2>1 DEF OpenMenu, disk
  <2>3. rows \in Seq(Listed) /\ Told(rows, 0, registry) /\ Apart(rows)
    BY <1>0, ListedRows
  <2>4. all \in BOOLEAN
    OBVIOUS
  <2> HIDE DEF rows, all
  <2>5. menu' \in Menus /\ menu'.idx = 0 /\ menu'.rows = rows
    BY <2>2, <2>3, <2>4 DEF Menus
  <2>6. Hole' = 0 /\ ~cmd'.menu
    BY <2>2, NoCommandIs DEF Hole
  <2> QED
    BY <2>2, <2>3, <2>5, <2>6 DEF MenuInv
<1>4. CASE LeaveStep
  BY <1>4, MenuGone, NoCommandIs DEF LeaveStep, CloseMenu
<1>5. CASE Arrow \/ Toggle
  <2>1. cmd = NoCommand /\ cmd' = cmd /\ registry' = registry /\ stale' = stale /\ Hole = 0 /\ Hole' = 0 /\ ~cmd'.menu
    BY <1>5, NoCommandIs DEF Arrow, Toggle, OnRow, InMenu, disk, ghosts, Hole
  <2>2. /\ menu' \in Menus /\ menu'.kind = menu.kind /\ menu'.rows = menu.rows
        /\ menu'.idx > 0 => menu'.idx < Len(Visible(menu'))
    <3>1. CASE Toggle
      <4> DEFINE all == ~menu.all
      <4>1. all \in BOOLEAN
        OBVIOUS
      <4>2. menu' = [menu EXCEPT !.all = all, !.idx = 0]
        BY <3>1 DEF Toggle
      <4> HIDE DEF all
      <4>3. menu' \in Menus
        BY <1>0, <4>1, <4>2 DEF Menus
      <4>4. menu'.kind = menu.kind /\ menu'.rows = menu.rows /\ menu'.idx = 0
        BY <1>0, <4>2 DEF Menus
      <4> QED
        BY <4>3, <4>4
    <3>2. CASE Arrow
      <4> DEFINE n == Len(Visible(menu))
      <4>1. n \in Nat /\ n > 0
        BY <1>0, <3>2, VisibleRows DEF Arrow, OnRow, Menus
      <4>2. PICK step \in {1, -1} : menu' = [menu EXCEPT !.idx = (@ + step) % n]
        BY <3>2 DEF Arrow
      <4> DEFINE idx == (menu.idx + step) % n
      <4>3. menu.idx \in Nat
        BY <1>0 DEF Menus
      <4> HIDE DEF n
      <4>4. idx \in 0..(n - 1)
        BY <4>1, <4>3
      <4>5. menu' = [menu EXCEPT !.idx = idx]
        BY <4>2
      <4> HIDE DEF idx
      <4>6. /\ menu' \in Menus /\ menu'.kind = menu.kind /\ menu'.rows = menu.rows /\ menu'.idx = idx
            /\ menu'.all = menu.all /\ menu'.target = menu.target
        BY <1>0, <4>1, <4>4, <4>5 DEF Menus
      <4>7. Visible(menu') = Visible(menu)
        BY <4>6, SameVisible
      <4> QED
        BY <4>1, <4>4, <4>6, <4>7 DEF n
    <3> QED
      BY <1>5, <3>1, <3>2
  <2> QED
    BY <1>0, <2>1, <2>2 DEF MenuInv
<1>6. CASE ChooseStep
  <2>1. /\ cmd = NoCommand /\ cmd' = cmd /\ registry' = registry /\ stale' = stale
        /\ menu' = NoMenu \/ menu' = menu
    BY <1>6 DEF ChooseStep, Record, disk, ghosts
  <2> QED
    BY <1>0, <2>1, MenuKept, MenuGone, NoCommandIs
<1> QED
  BY <1>1, <1>2, <1>3, <1>4, <1>5, <1>6

-----------------------------------------------------------------------------
(* The invariant.                                                          *)

LEMMA CredInit == Init => CredInv
<1> SUFFICES ASSUME Init PROVE CredInv
  OBVIOUS
<1>1. NoChoice \in [scope: Scopes, name: Names \cup {Nobody}] /\ NoChoice.name = Nobody
  BY DEF NoChoice, Scopes
<1>2. NoMenu \in Menus /\ NoMenu.kind = "none" /\ NoMenu.idx = 0
  <2>1. <<>> \in Seq(Listed)
    OBVIOUS
  <2> QED
    BY <2>1 DEF NoMenu, Menus, Sites0
<1>3. /\ files \in [Files -> Tokens \cup {UserToken, Missing}]
      /\ \A u \in UserFiles : files[u] = UserToken
      /\ \A s \in Scopes, n \in Names : files[TokenFile(s, n)] = Missing
  BY FileNames DEF Init
<1>4. DataTyped
  <2>1. /\ registry \in [Scopes -> [Names -> Rows \cup {NoRow}]]
        /\ \A n \in Names : registry["local"][n] = NoRow
    BY DEF Init, Scopes
  <2>2. meant \in [Scopes -> [Names -> SUBSET (Tokens \cup {UserToken})]]
    BY DEF Init
  <2>3. commands \in 0..MaxCommands
    BY CredentialAssumption DEF Init
  <2> QED
    BY <1>1, <1>3, <2>1, <2>2, <2>3, NoCommandIs DEF Init, DataTyped
<1>5. \A s \in Scopes, n \in Names : ~HasRow(s, n) /\ registry[s][n].file \notin ManagedFiles
  BY RowFiles, FileNames DEF Init, HasRow
<1>6. FilesInv
  <2>1. cmd = NoCommand /\ chosen.name = Nobody
    BY <1>1 DEF Init
  <2>2. Course /\ CommandAlone /\ PendingAdd /\ PendingRename /\ Settled
    BY <2>1, NoCommandIs DEF Course, CommandAlone, PendingAdd, PendingRename, Settled
  <2>3. Placed /\ Alone /\ UserFilesKept /\ OwnTokenOrNone /\ Kept /\ Tracked
    BY <1>3, <1>5 DEF Placed, Alone, UserFilesKept, OwnTokenOrNone, Kept, Tracked, Accounted, AccountedBut
  <2>4. Marked
    BY DEF Init, Marked
  <2> QED
    BY <2>2, <2>3, <2>4 DEF FilesInv
<1>7. MenuInv
  BY <1>2, NoCommandIs DEF Init, MenuInv
<1> QED
  BY <1>2, <1>4, <1>6, <1>7, TypeOKIs DEF Init, CredInv

LEMMA CredStep == CredInv /\ [Next]_vars => CredInv'
<1> SUFFICES ASSUME CredInv, [Next]_vars PROVE CredInv'
  OBVIOUS
<1>0. DataTyped /\ FilesInv
  BY TypeOKIs DEF CredInv
<1>1. ASSUME Next PROVE DataTyped' /\ FilesInv' /\ menu' \in Menus /\ MenuInv'
  <2>1. Steps
    BY <1>1, StepsCover
  <2>2. CASE LoginStep
    <3>1. PICK here \in BOOLEAN, s \in Scopes, n \in Names, site \in Sites0, f \in Files,
             t \in Tokens \cup {UserToken} :
                /\ here \/ s = "local" => workspace
                /\ \/ f = TokenFile(s, n) /\ t \in Tokens
                   \/ f \in UserFiles /\ t = files[f]
                /\ Login(here, s, n, f, t, site)
      BY <2>2 DEF LoginStep
    <3>2. DataTyped' /\ FilesInv'
      BY <1>0, <3>1, FilesLogin
    <3>3. menu' = menu /\ ~cmd'.menu
      BY <3>1 DEF Login
    <3>4. FALSE \in BOOLEAN /\ ~FALSE /\ Begin(FALSE)
      BY <3>1 DEF Login
    <3>5. menu' \in Menus /\ MenuInv'
      BY <3>3, <3>4, MenuElsewhere, Zenon
    <3> QED
      BY <3>2, <3>5
  <2>3. CASE RemoveStep
    BY <1>0, <2>3, FilesRemove, MenuRemove DEF RemoveStep
  <2>4. CASE RenameStep
    BY <1>0, <2>4, FilesRename, MenuRename DEF RenameStep
  <2>5. CASE LinkStep
    BY <1>0, <2>5, FilesLink, MenuLink DEF LinkStep
  <2>6. CASE SaveRow
    BY <1>0, <2>6, FilesSaveRow, MenuOthers
  <2>7. CASE Unlink
    BY <1>0, <2>7, FilesUnlink, MenuUnlink
  <2>8. CASE SaveRename
    BY <1>0, <2>8, FilesSaveRename, MenuSaveRename
  <2>9. CASE ReadRegistered \/ SaveConfig \/ CutShort \/ OpenStep \/ LeaveStep \/ Arrow \/ Toggle \/ ChooseStep
    BY <1>0, <2>9, FilesOthers, MenuOthers
  <2> QED
    BY <2>1, <2>2, <2>3, <2>4, <2>5, <2>6, <2>7, <2>8, <2>9 DEF Steps
<1>2. CASE UNCHANGED vars
  BY <1>0, <1>2
     DEF CredInv, vars, disk, ghosts, TypeOK, FilesInv, MenuInv, Course, Placed, Alone, CommandAlone, Marked, UserFilesKept,
         OwnTokenOrNone, Kept, Tracked, PendingAdd, PendingRename, Settled, Belongs, About, Accounted, AccountedBut, HasARow,
         HasRow, Given, InHand, Hole, Cursor, Current
<1>3. CASE Next
  <2>1. DataTyped' /\ FilesInv' /\ menu' \in Menus /\ MenuInv'
    BY <1>1, <1>3
  <2>2. TypeOK'
    BY <2>1 DEF TypeOK, DataTyped, Menus, Sites0
  <2> QED
    BY <2>1, <2>2 DEF CredInv
<1> QED
  BY <1>2, <1>3

LEMMA Invariant == Spec => []CredInv
  BY CredInit, CredStep, PTL DEF Spec

-----------------------------------------------------------------------------
(* The theorems.                                                           *)

\* Every reachable state is of the right types: the registry of a workspace
\* needs a workspace, and jp never stores what is not a token.
THEOREM TypeCorrect == Spec => []TypeOK
<1>1. CredInv => TypeOK
  BY DEF CredInv
<1> QED
  BY Invariant, <1>1, PTL

\* Whatever was cut short, refused or repeated: a credential gives one of the
\* tokens the user stored under its name, or none (credentials.py: add,
\* add_path, remove, rename and resolve), unless two names have had its file.
THEOREM GivesItsOwn == Spec => []OwnTokenOrNone
<1>1. CredInv => OwnTokenOrNone
  BY DEF CredInv, FilesInv
<1> QED
  BY Invariant, <1>1, PTL

\* A crash or a failed call leaves every credential it was not about, and that
\* has its file alone, in order: rows have their token, managed files a row.
THEOREM OthersStayInOrder == Spec => []OthersUnharmed
<1>1. ASSUME CredInv PROVE OthersUnharmed
  <2> SUFFICES ASSUME NEW s \in Scopes, NEW n \in Names, TokenFile(s, n) \notin suspect \cup InHand
               PROVE  /\ HasRow(s, n) => Given(s, n) \in meant[s][n]
                      /\ files[TokenFile(s, n)] # Missing =>
                            \/ TokenFile(s, n) \in replaced
                            \/ \E m \in Names : registry[s][m].file = TokenFile(s, n)
    BY DEF OthersUnharmed
  <2>1. Kept /\ Tracked
    BY <1>1 DEF CredInv, FilesInv
  <2>2. ~About(s, n)
    BY DEF About, InHand
  <2> QED
    BY <2>1, <2>2 DEF Kept, Tracked, Accounted, AccountedBut, HasARow
<1> QED
  BY Invariant, <1>1, PTL

\* The open menu shows what the registry has, with its cursor on a row, until
\* another jp changes the registry (tui.py keeps its own list of rows).
THEOREM MenuIsTrue == Spec => []MenuShowsRegistry
<1>1. ASSUME CredInv PROVE MenuShowsRegistry
  <2>1. MenuInv
    BY <1>1 DEF CredInv
  <2>2. ASSUME menu.kind # "none", NEW i \in DOMAIN menu.rows, cmd = NoCommand, ~stale
        PROVE  /\ HasRow(menu.rows[i].scope, menu.rows[i].name)
               /\ registry[menu.rows[i].scope][menu.rows[i].name].site = menu.rows[i].site
    <3>1. Hole = 0
      BY <2>2, NoCommandIs DEF Hole
    <3>2. menu \in Menus
      BY <1>1, MenuOf DEF CredInv
    <3>3. i # 0
      BY <3>2, RowsOfMenu
    <3>4. RowTrue(menu.rows[i], registry)
      BY <2>1, <2>2, <3>1, <3>3 DEF MenuInv, Told
    <3> QED
      BY <3>4 DEF RowTrue, HasRow
  <2> QED
    BY <2>1, <2>2 DEF MenuShowsRegistry, MenuInv
<1> QED
  BY Invariant, <1>1, PTL

\* After a login in a workspace, or the choice made by jp init and jp clone,
\* load_token finds a token of that credential (config.py) from whatever
\* directory, unless something the user set shadows it, two names have had its
\* file or its path was typed relative to another directory.
THEOREM ChosenIsSent == Spec => []ChoiceIsUsed
<1>1. ASSUME CredInv PROVE ChoiceIsUsed
  <2> DEFINE s == chosen.scope
             n == chosen.name
  <2> SUFFICES ASSUME NEW dir \in Dirs, n # Nobody, "env" \notin Fallbacks, HasRow(s, n), TokenFile(s, n) \notin suspect,
                      registry[s][n].file = TypedFile => dir = "there",
                      s = "global" => ~HasRow("local", n)
               PROVE  LoadToken(dir) \in meant[s][n]
    BY DEF ChoiceIsUsed
  <2>1. cmd = NoCommand /\ credential = n /\ n \in Names /\ s \in Scopes /\ FilesInv /\ DataTyped
    BY <1>1, TypeOKIs DEF CredInv, FilesInv, Settled, DataTyped
  <2>2. Given(s, n) \in meant[s][n]
    BY <2>1, NothingInHand DEF FilesInv, Kept
  <2>3. meant[s][n] \in SUBSET (Tokens \cup {UserToken})
    BY <2>1 DEF DataTyped
  <2>4. Given(s, n) # Missing
    BY <2>2, <2>3, CredentialAssumption
  <2>5. registry[s][n].file # NoFile
    BY <2>1, RowFile, FileNames
  <2>6. Resolve(credential) = registry[s][n].file
    BY <2>1 DEF Resolve, HasRow, Scopes
  <2> HIDE DEF s, n
  <2>7. Read(Resolve(credential), dir) = Given(s, n)
    BY <2>5, <2>6 DEF Read, Given, Dirs
  <2>8. LoadToken(dir) = Given(s, n)
    BY <2>4, <2>7 DEF LoadToken
  <2> QED
    BY <2>2, <2>8
<1> QED
  BY Invariant, <1>1, PTL
=============================================================================
