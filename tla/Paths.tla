-------------------------------- MODULE Paths --------------------------------
(***************************************************************************)
(* The path layer (src/jp/paths.py) and the way of a name through it: from *)
(* a file of the tree to the path that push sends, from a path that the    *)
(* server lists to the key of the remote scan and the file that pull       *)
(* writes, and from what the user types at jp rm to the path it deletes.   *)
(*                                                                         *)
(* A path is the sequence of what str.split("/") gives once backslashes    *)
(* are slashes, so a leading slash is an empty first segment; whether the  *)
(* text had a backslash is a bit beside it.  A segment is its leading dots *)
(* and the rest of it; an alias "__jpdot__<k>_" has them after its marker. *)
(* Its marks are what strip() and NFC take away: blanks before and after   *)
(* it and a decomposed form.                                               *)
(***************************************************************************)
EXTENDS Integers, Sequences, FiniteSets, SequencesExt

CONSTANTS
    Segments,    \* the segments that names are made of
    GivenPrefixes, \* what the configuration may give as the prefix
    MaxSegments, \* bound: segments of a path
    Shared,      \* names of shared spaces (_FORBIDDEN_PREFIXES)
    Reserved,    \* names of devices (_WIN_RESERVED)
    Drives,      \* names like "C:"
    Links        \* names of symlinks in the root of the tree

Segment(dots, name, marks) == [alias |-> FALSE, k |-> 0, dots |-> dots, name |-> name, marks |-> marks]
Alias(k, dots, name, marks) == [alias |-> TRUE, k |-> k, dots |-> dots, name |-> name, marks |-> marks]
NoName == ""
Empty == Segment(0, NoName, {})
Dot == Segment(1, NoName, {})
DotDot == Segment(2, NoName, {})
Marks == {"before", "after", "blank", "nfd"}
\* A segment of blanks only.
Blank == Segment(0, NoName, {"blank"})

ASSUME SegmentAssumption ==
    /\ \A s \in Segments : /\ s.marks \subseteq Marks /\ ("blank" \in s.marks => s = Blank)
                           /\ \/ s = Segment(s.dots, s.name, s.marks) /\ s.dots \in Nat
                              \/ s = Alias(s.k, s.dots, s.name, s.marks) /\ s.k \in Nat /\ s.dots \in Nat
    /\ GivenPrefixes \subseteq Seq(Segments) \ {<<>>}
    /\ MaxSegments \in Nat \ {0}

VARIABLES
    given,   \* what the way began with: the prefix, the path, whether it has a
             \* backslash, where it is from and the dotfile policy
    step,    \* where it has got to
    prefix,  \* the validated prefix
    path,    \* what the name is now
    wire,    \* the path that has been sent to the server, or <<>>
    link     \* where the symlinks lead: "in" to a directory of the tree, "out" of it

vars == <<given, step, prefix, path, wire, link>>

\* What raises SafetyError gives no path.
Refused == <<>>

-----------------------------------------------------------------------------
(* paths.py.                                                               *)

Without(s, gone) == [s EXCEPT !.marks = @ \ gone]
\* unicodedata.normalize("NFC", _), and strip(), which reaches the two ends.
Nfc(p) == [i \in DOMAIN p |-> Without(p[i], {"nfd"})]
AtEnd(p, i) == (IF i = 1 THEN {"before", "blank"} ELSE {}) \cup (IF i = Len(p) THEN {"after", "blank"} ELSE {})
Trim(p) == [i \in DOMAIN p |-> Without(p[i], AtEnd(p, i))]
Plain(p) == Trim(Nfc(p))

\* A prefix has blanks at its own ends at most ("/ me" and "me /x" are left out).
ASSUME PrefixAssumption ==
    \A pre \in GivenPrefixes : \A i \in DOMAIN pre : Plain(pre)[i].marks = {}

\* posixpath.normpath of a path that is not absolute; <<>> is ".".
TakeSegment(done, s) ==
    CASE s \in {Empty, Dot} -> done
      [] s \notin {Empty, Dot, DotDot} -> Append(done, s)
      [] s = DotDot /\ (done = <<>> \/ Last(done) = DotDot) -> Append(done, s)
      [] OTHER -> Front(done)
NormPath(p) == FoldLeft(TakeSegment, <<>>, p)

\* The segment is the name itself, with nothing before or after it.
IsOneOf(s, names) == ~s.alias /\ s.dots = 0 /\ s.marks = {} /\ s.name \in names

IsAbsolute(p) == Len(p) > 1 /\ Head(p) = Empty
LooksLikeWindowsAbsolute(p) == IsOneOf(Without(Head(p), {"after", "nfd"}), Drives)

NormalizeRel(p) ==
    LET raw == Plain(p)
        collapsed == NormPath(raw)
    IN
    IF \/ raw = <<>> \/ raw = <<Empty>>
       \/ IsAbsolute(raw) \/ LooksLikeWindowsAbsolute(raw)
       \/ collapsed = <<>> \/ Head(collapsed) = DotDot
    THEN Refused ELSE collapsed

StartsWithDots(s, n) == ~s.alias /\ "before" \notin s.marks /\ s.dots >= n
IsHidden(p) == \E i \in DOMAIN p : StartsWithDots(p[i], 1)

EncodeSegment(s) == IF StartsWithDots(s, 1) THEN Alias(s.dots, 0, s.name, s.marks) ELSE s
\* Mutant: every alias gives one dot.
DecodeOneDot(s) == IF s.alias THEN Segment(1 + s.dots, s.name, s.marks) ELSE s
DecodeSegment(s) ==
    IF s.alias /\ "before" \notin s.marks THEN Segment(s.k + s.dots, s.name, s.marks) ELSE s
\* The segments of p at some of its places, in order.
Picked(p, places) ==
    [n \in 1..Cardinality(places) |->
       p[CHOOSE i \in places : Cardinality({j \in places : j < i}) = n - 1]]
NotEmpty(p) == Picked(p, {i \in DOMAIN p : p[i] # Empty})
EncodeProtected(p) == [i \in DOMAIN NotEmpty(p) |-> EncodeSegment(NotEmpty(p)[i])]
DecodeProtected(p) == [i \in DOMAIN NotEmpty(p) |-> DecodeSegment(NotEmpty(p)[i])]

\* str.lstrip("/") and strip("/").
LStrip(p) ==
    LET named == {i \in DOMAIN p : p[i] # Empty} IN
    IF named = {} THEN <<Empty>> ELSE SubSeq(p, Min(named), Len(p))
Strip(p) == Reverse(LStrip(Reverse(LStrip(p))))

\* Mutant: only a whole prefix or its first segment is looked at.
ValidatePrefixFirst(p) ==
    LET norm == NormPath(Strip(Plain(p))) IN
    IF \/ norm = <<>> \/ StartsWithDots(Head(norm), 1) \/ IsOneOf(Head(norm), Shared)
    THEN Refused ELSE norm
ValidatePrefix(p) ==
    LET norm == NormPath(Strip(Plain(p))) IN
    IF \/ norm = <<>>
       \/ \E i \in DOMAIN norm : StartsWithDots(norm[i], 1) \/ IsOneOf(norm[i], Shared)
    THEN Refused ELSE norm

RemotePathFor(pre, rel) ==
    IF Refused \in {ValidatePrefix(pre), NormalizeRel(rel)} THEN Refused
    ELSE ValidatePrefix(pre) \o NormalizeRel(rel)

AssertWithinPrefix(p, pre) ==
    LET candidate == NormPath(LStrip(Trim(p))) IN
    IF \/ \E i \in DOMAIN candidate : StartsWithDots(candidate[i], 2)
       \/ ~IsStrictPrefix(ValidatePrefix(pre), candidate)
    THEN Refused ELSE candidate

\* Path.resolve below the root; what leads out of it has no place in it.
Resolve(p) ==
    CASE IsOneOf(Head(p), Links) /\ link = "out" -> <<DotDot>>
      [] IsOneOf(Head(p), Links) /\ link = "in" -> <<Segment(0, "in", {})>> \o Tail(p)
      [] OTHER -> p

SafeLocalDest(p) ==
    LET name == LStrip(p)
        rel == NormalizeRel(name)
    IN  IF \/ LooksLikeWindowsAbsolute(name) \/ rel = Refused
           \/ \E i \in DOMAIN rel : IsOneOf(rel[i], Reserved)
           \/ Head(Resolve(rel)) = DotDot
        THEN Refused ELSE Resolve(rel)

-----------------------------------------------------------------------------
(* The ways.                                                               *)

Paths == UNION {[1..n -> Segments] : n \in 1..MaxSegments}
\* What a tree may have as the name of a file; with backslashes in it, any path.
FileNames == {p \in Paths : \A i \in DOMAIN p : p[i] \notin {Empty, Dot, DotDot}}
TwoOrMore == {p \in Paths : Len(p) > 1}

\* "tree": push of a file; "user": jp rm PATH, where a backslash is a slash;
\* "listing": an entry the server lists, below the prefix or anywhere.
PathsOf(from, back, pre) ==
    CASE from = "tree" -> IF back THEN TwoOrMore ELSE FileNames
      [] from = "user" -> IF back THEN {} ELSE Paths
      [] OTHER -> (IF back THEN TwoOrMore ELSE Paths) \cup {pre \o p : p \in Paths}
\* Only push has the dotfile policy.
ProtectOf(from) == IF from = "tree" THEN BOOLEAN ELSE {FALSE}
Begins(from, back, pre) ==
    [prefix: {pre}, path: PathsOf(from, back, pre), back: {back}, from: {from}, protect: ProtectOf(from)]

Init ==
    /\ \E from \in {"tree", "user", "listing"}, back \in BOOLEAN, pre \in GivenPrefixes :
           given \in Begins(from, back, pre)
    /\ step = "begin" /\ prefix = <<>> /\ path = given.path /\ wire = <<>>
    /\ link \in {"in", "out"}

\* The next step with what an operation gave, or the end with a refusal.
Goes(next, result) ==
    IF result = Refused THEN step' = "refused" /\ UNCHANGED path
    ELSE step' = next /\ path' = result

\* Every command validates the prefix first.
Validate ==
    /\ step = "begin"
    /\ IF ValidatePrefix(given.prefix) = Refused
       THEN step' = "badPrefix" /\ UNCHANGED prefix
       ELSE /\ step' = IF given.from = "listing" THEN "listed" ELSE "named"
            /\ prefix' = ValidatePrefix(given.prefix)
    /\ UNCHANGED <<given, path, wire, link>>

\* scan_local of a file and rm's argument.
Name ==
    /\ step = "named"
    /\ Goes("rel", NormalizeRel(path))
    /\ UNCHANGED <<given, prefix, wire, link>>

\* The path of the PUT or DELETE: push skips dotfiles or encodes them; it reads the
\* file that has the key as its name, which need not be there when this is another.
SkippedHidden == given.from = "tree" /\ ~given.protect /\ IsHidden(path)
Compose ==
    /\ step = "rel"
    /\ \/ SkippedHidden /\ step' = "skipped" /\ UNCHANGED path
       \/ /\ ~SkippedHidden /\ given.from = "tree" /\ (given.back \/ path # given.path)
          /\ step' = "missing" /\ UNCHANGED path
       \/ ~SkippedHidden /\ Goes("composed", RemotePathFor(prefix, IF given.protect THEN EncodeProtected(path) ELSE path))
    /\ UNCHANGED <<given, prefix, wire, link>>

\* assert_within_prefix, immediately before the call; the path sent is the one
\* that was composed.
Send ==
    /\ step = "composed"
    /\ IF AssertWithinPrefix(path, prefix) = Refused
       THEN step' = "refused" /\ UNCHANGED wire
       ELSE step' = "sent" /\ wire' = path
    /\ UNCHANGED <<given, prefix, path, link>>

\* The server lists what push has sent.
List ==
    /\ step = "sent" /\ given.from = "tree"
    /\ step' = "listed"
    /\ UNCHANGED <<given, prefix, path, wire, link>>

\* _walk_remote: the key of an entry.
Key(p) ==
    LET inside == AssertWithinPrefix(p, prefix)
        norm == NormalizeRel(SubSeq(inside, Len(prefix) + 1, Len(inside)))
    IN  IF inside = Refused \/ norm = Refused \/ IsHidden(norm) THEN Refused
        ELSE NormalizeRel(DecodeProtected(norm))
ScanRemote ==
    /\ step = "listed"
    /\ Goes("key", Key(path))
    /\ UNCHANGED <<given, prefix, wire, link>>

\* rm --recursive deletes what is listed, by the path as it is listed.
DeleteListed ==
    /\ step = "listed" /\ given.from = "listing"
    /\ IF AssertWithinPrefix(path, prefix) = Refused
       THEN step' = "refused" /\ UNCHANGED wire
       ELSE step' = "sent" /\ wire' = path
    /\ UNCHANGED <<given, prefix, path, link>>

Pull ==
    /\ step = "key"
    /\ Goes("written", SafeLocalDest(path))
    /\ UNCHANGED <<given, prefix, wire, link>>

Next == Validate \/ Name \/ Compose \/ Send \/ List \/ ScanRemote \/ DeleteListed \/ Pull
Spec == Init /\ [][Next]_vars

-----------------------------------------------------------------------------
(* What the paths mean: where one gets to that follows them, segment by     *)
(* segment, without normalising anything.                                   *)

Enters(p, i) == p[i] \notin {Empty, Dot, DotDot}
Entered(p, i, j) == Cardinality({m \in i..j : Enters(p, m)})
Left(p, i, j) == Cardinality({m \in i..j : p[m] = DotDot})
NeverLeaves(p) == \A j \in DOMAIN p : Left(p, 1, j) <= Entered(p, 1, j)
\* The directories entered and not left again, and the file.
Place(p) ==
    Picked(p, {i \in DOMAIN p : Enters(p, i) /\ \A j \in i..Len(p) : Entered(p, i, j) > Left(p, i, j)})
StrictlyInside(p) == NeverLeaves(p) /\ IsStrictPrefix(Place(Plain(given.prefix)), Place(p))
\* What assert_within_prefix judges is the path itself, and not a copy of it
\* without its blanks and with slashes for its backslashes (263).
AsJudged == ~given.back /\ Trim(given.path) = given.path

\* What is sent to the server, and every entry that becomes a key, is strictly
\* below the prefix for one who follows the path as it is, except where the path
\* judged is a copy of the one listed; a prefix is in the server's root and in no
\* shared space; what pull writes is in the tree; and what a user types is refused
\* only for a reason: it leads out of the bounds, begins with two dots or like a
\* drive, or has blanks that come to its ends when it is normalised ("MUST be
\* called IMMEDIATELY before every PUT", paths.py:12).
AcceptedIffInside ==
    /\ (wire # <<>> /\ (given.from = "listing" => AsJudged)) => StrictlyInside(wire)
    /\ step = "sent" => wire = path
    /\ (given.from = "listing" /\ AsJudged /\ step \in {"key", "written"}) => StrictlyInside(given.path)
    /\ prefix # <<>> => /\ NeverLeaves(Plain(given.prefix)) /\ prefix = Place(Plain(given.prefix))
                        /\ \A i \in DOMAIN prefix : ~IsOneOf(prefix[i], Shared)
    /\ step = "written" => Enters(path, 1) /\ NeverLeaves(path)
    /\ (given.from = "user" /\ step = "refused") =>
           LET typed == Plain(given.path) IN
           \/ IsAbsolute(typed) \/ LooksLikeWindowsAbsolute(typed)
           \/ ~NeverLeaves(typed) \/ Place(typed) = <<>>
           \/ LooksLikeWindowsAbsolute(Place(typed)) \/ Plain(Place(typed)) # Place(typed)
           \/ \E i \in DOMAIN typed : StartsWithDots(typed[i], 2)

\* A file that push has sent is found by the next scan under the key of the
\* file in the tree, so no two files meet on the server and a pull writes the
\* one it came from (but through a symlink); except for files that have the
\* name of an alias, a backslash, blanks at the ends or a decomposed name.
SameNameBack ==
    (/\ wire # <<>> /\ given.from = "tree" /\ ~given.back /\ Plain(given.path) = given.path
     /\ \A i \in DOMAIN given.path : ~given.path[i].alias) =>
        /\ step = "refused" => path = given.path
        /\ step = "key" => path = given.path
        /\ step = "written" => path = given.path \/ IsOneOf(Head(given.path), Links)
=============================================================================
