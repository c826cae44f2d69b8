---------------------------- MODULE LiveMountProofs ----------------------------
(***************************************************************************)
(* Theorems about LiveMount, for any number of jp live processes, letters  *)
(* and events, on each platform.                                           *)
(***************************************************************************)
EXTENDS LiveMount, FiniteSetTheorems, SequenceTheorems, WellFoundedInduction, TLAPS

Before == {"idle", "prepare", "attach"}
Serving == {"code", "record", "handler", "loop"}
\* The statements after a mount that must still be followed by its unmount.
Held == Serving \cup {"unrecord", "unmount"}

HasMount(p) == \E i \in DOMAIN mounts : mounts[i].of = p

\* What the step of a process says of its other fields and of its mount.
Fits(process, mounted) ==
    /\ process.step = "idle" => process = NewProcess
    /\ process.step \in Before => ~mounted
    /\ process.step \in Before \cup {"undo", "link"} => ~process.handle
    /\ process.step \in Serving => process.handle
    /\ process.step = "undo" => platform = "darwin" /\ ~process.explicit
    /\ process.step = "link" \/ process.link => platform = "linux"
Shape == \A p \in Procs : Fits(proc[p], HasMount(p))
Aimed == unmounter # NotFound => unmounter.of \in Procs

\* It was another's mount that the process looked at, and not all are automatic.
Misled(p) == proc[p].blind /\ \E q \in Procs : proc[q].explicit
\* The folder that was checked stays free of files until it is mounted on.
Spotless ==
    \A p \in Procs : At(p, "attach") /\ platform = "darwin" /\ ~proc[p].explicit
                        => spot.kind \in {"absent", "empty"} \/ Misled(p)

MountInv == TypeOK /\ Shape /\ Aimed /\ Spotless /\ NothingShadowed

TakesRecord(p) == proc[p].step \in {"handler", "loop", "unrecord"} /\ proc[p].at # NoPath /\ proc[p].handle
Kept(r) == (TakesRecord(r.pid) /\ proc[r.pid].at = r.at) \/ ~InOrder(r.pid)
TakesCode(p) == proc[p].wrote /\ proc[p].step \in (Held \ {"code"}) \cup {"cleanup", "stop"}
TakesLink(p) == proc[p].link /\ proc[p].step \in Held \cup {"cleanup"}

\* A record is that of a process that will take it away, unless its folder is
\* another path by then, or of one that did not end in order.
Recorded ==
    /\ \A r \in records : Kept(r)
    /\ unmounter.stale => \E p \in Procs : ~InOrder(p)

StrayInv == MountInv /\ Recorded /\ NoStraySignal

AllTidy == \A p \in Procs : proc[p].tidy
Pending == {p \in Procs : proc[p].handle /\ proc[p].step \in Held}

\* Kernels, workspace files and links are those of processes that will take
\* them away.
Owned ==
    /\ \A p \in Procs : proc[p].kernel => Alive(p) \/ ~proc[p].tidy
    /\ codeFile # Nobody => TakesCode(codeFile) \/ ~proc[codeFile].tidy
    /\ spot.kind = "link" =>
           /\ spot.of \in Procs /\ platform = "linux"
           /\ TakesLink(spot.of) \/ ~proc[spot.of].tidy

\* Linux unmounts one's own mount; macOS the newest, but as many as there were.
WillUnmount(p) ==
    At(p, "link") \/ (proc[p].handle /\ proc[p].step \in Held) \/ ~proc[p].tidy \/ proc[p].refused
OwnUnmounted == platform = "linux" => \A p \in Procs : HasMount(p) => WillUnmount(p)
Counted == platform = "darwin" /\ AllTidy => Len(mounts) = Cardinality(Pending)

\* An empty folder that jp has made or taken is still somebody's to remove.
Minds(p) == proc[p].step \in {"attach", "undo"} \/ (proc[p].handle /\ proc[p].step \in Held \cup {"cleanup"})
Minded ==
    (/\ platform = "darwin" /\ AllTidy /\ spot.kind = "empty"
     /\ \A p \in Procs : ~proc[p].explicit
     /\ \E p \in Procs : proc[p].handle) => \E p \in Procs : Minds(p)

LeftInv == StrayInv /\ Owned /\ OwnUnmounted /\ Counted /\ Minded

-----------------------------------------------------------------------------
(* The mounts.                                                             *)

MountSet == [of: Procs, letter: Letters \cup {0}]
IsMounts(ms) == ms \in Seq(MountSet) /\ \A i, j \in DOMAIN ms : i # j => ms[i].of # ms[j].of
\* ms has no mount that there was not.
NoneNew(ms) == \A k \in DOMAIN ms : \E i \in DOMAIN mounts : ms[k] = mounts[i]

LEMMA FirstLetter ==
  ASSUME NEW S \in SUBSET Letters, S # {}
  PROVE  Min(S) \in Letters /\ Max(S) \in Letters
<1> DEFINE R == OpToRel(<, Nat)
           T == {26 - x : x \in S}
<1>1. S \subseteq 1..26 /\ S \subseteq Nat
  BY MountAssumption
<1>0. T \subseteq Nat /\ T # {}
  <2>1. \A x \in S : 26 - x \in Nat
    BY <1>1
  <2> QED
    BY <2>1
<1>2. IsWellFoundedOn(R, Nat)
  BY NatLessThanWellFounded
<1>3. \A x, y \in Nat : <<y, x>> \in R <=> y < x
  BY DEF OpToRel
<1> HIDE DEF R
<1>4. PICK x \in S : \A y \in S : ~(<<y, x>> \in R)
  BY <1>1, <1>2, WFMin
<1>5. \A y \in S : x =< y
  <2> SUFFICES ASSUME NEW y \in S PROVE x =< y
    OBVIOUS
  <2>1. x \in Nat /\ y \in Nat
    BY <1>1
  <2>2. ~(y < x)
    BY <1>3, <1>4, <2>1
  <2> QED
    BY <2>1, <2>2
<1>6. PICK t \in T : \A y \in T : ~(<<y, t>> \in R)
  <2> HIDE DEF T
  <2> QED
    BY <1>0, <1>2, WFMin
<1>7. PICK z \in S : t = 26 - z
  OBVIOUS
<1>8. \A y \in S : z >= y
  <2> SUFFICES ASSUME NEW y \in S PROVE z >= y
    OBVIOUS
  <2>1. 26 - y \in T /\ 26 - z \in Nat /\ 26 - y \in Nat
    BY <1>1
  <2>2. ~(26 - y < 26 - z)
    BY <1>3, <1>6, <1>7, <2>1
  <2> QED
    BY <1>1, <2>1, <2>2
<1>9. Min(S) \in S
  BY <1>5 DEF Min
<1>10. Max(S) \in S
  BY <1>8 DEF Max
<1> QED
  BY <1>9, <1>10

LEMMA RemoveAtIs ==
  ASSUME NEW S, NEW s \in Seq(S), NEW i \in 1..Len(s)
  PROVE  /\ RemoveAt(s, i) \in Seq(S)
         /\ Len(RemoveAt(s, i)) = Len(s) - 1
         /\ \A k \in 1..(Len(s) - 1) : RemoveAt(s, i)[k] = IF k < i THEN s[k] ELSE s[k + 1]
<1> DEFINE u == SubSeq(s, 1, i - 1)
           v == SubSeq(s, i + 1, Len(s))
<1>1. u \in Seq(S) /\ Len(u) = i - 1 /\ \A k \in 1..(i - 1) : u[k] = s[k]
  OBVIOUS
<1>2. v \in Seq(S) /\ Len(v) = Len(s) - i /\ \A k \in 1..(Len(s) - i) : v[k] = s[k + i]
  OBVIOUS
<1>3. RemoveAt(s, i) = u \o v
  BY DEF RemoveAt
<1> HIDE DEF u, v
<1>4. Len(s) \in Nat /\ i \in Nat
  OBVIOUS
<1>5. u \o v \in Seq(S) /\ Len(u \o v) = Len(s) - 1
  <2>1. u \o v \in Seq(S) /\ Len(u \o v) = Len(u) + Len(v)
    BY <1>1, <1>2, ConcatProperties
  <2> QED
    BY <1>1, <1>2, <1>4, <2>1
<1>6. ASSUME NEW k \in 1..(Len(s) - 1) PROVE (u \o v)[k] = IF k < i THEN s[k] ELSE s[k + 1]
  <2>1. CASE k < i
    BY <1>1, <1>2, <1>4, <2>1
  <2>2. CASE ~(k < i)
    <3>1. (u \o v)[k] = v[k - (i - 1)]
      BY <1>1, <1>2, <1>4, <2>2
    <3>2. k - (i - 1) \in 1..(Len(s) - i) /\ k - (i - 1) + i = k + 1
      BY <1>4, <2>2
    <3> QED
      BY <1>2, <2>2, <3>1, <3>2
  <2> QED
    BY <2>1, <2>2
<1> QED
  BY <1>3, <1>5, <1>6

LEMMA WithoutIs ==
  ASSUME TypeOK, NEW found \in SUBSET DOMAIN mounts
  PROVE  /\ IsMounts(Without(found)) /\ NoneNew(Without(found))
         /\ \A j \in DOMAIN mounts : found = {j} =>
                \A k \in DOMAIN Without(found) : Without(found)[k].of # mounts[j].of
         /\ found = {} => Without(found) = mounts
<1>1. mounts \in Seq(MountSet)
  BY DEF TypeOK, MountSet
<1>2. CASE found = {}
  BY <1>1, <1>2 DEF Without, TypeOK, IsMounts, NoneNew
<1>3. CASE found # {}
  <2> DEFINE i == CHOOSE i \in found : TRUE
             w == RemoveAt(mounts, i)
  <2>1. i \in found /\ i \in 1..Len(mounts)
    BY <1>1, <1>3
  <2>2. Without(found) = w
    BY <1>3 DEF Without
  <2> HIDE DEF i
  <2>3. /\ w \in Seq(MountSet) /\ Len(w) = Len(mounts) - 1
        /\ \A k \in 1..(Len(mounts) - 1) : w[k] = IF k < i THEN mounts[k] ELSE mounts[k + 1]
    BY <1>1, <2>1, RemoveAtIs
  <2> HIDE DEF w
  <2>4. DOMAIN w = 1..(Len(mounts) - 1) /\ Len(mounts) \in Nat /\ DOMAIN mounts = 1..Len(mounts)
    BY <1>1, <2>3
  <2>5. \A k \in DOMAIN w : \E j \in DOMAIN mounts : j # i /\ w[k] = mounts[j]
    <3> SUFFICES ASSUME NEW k \in DOMAIN w PROVE \E j \in DOMAIN mounts : j # i /\ w[k] = mounts[j]
      OBVIOUS
    <3>1. CASE k < i
      BY <2>1, <2>3, <2>4, <3>1
    <3>2. CASE ~(k < i)
      <4>1. k + 1 \in DOMAIN mounts /\ k + 1 # i /\ w[k] = mounts[k + 1]
        BY <2>1, <2>3, <2>4, <3>2
      <4> QED
        BY <4>1
    <3> QED
      BY <3>1, <3>2
  <2>6. \A k, l \in DOMAIN w : k # l => w[k].of # w[l].of
    <3> SUFFICES ASSUME NEW k \in DOMAIN w, NEW l \in DOMAIN w, k # l PROVE w[k].of # w[l].of
      OBVIOUS
    <3> DEFINE at(n) == IF n < i THEN n ELSE n + 1
    <3>1. at(k) \in DOMAIN mounts /\ at(l) \in DOMAIN mounts /\ at(k) # at(l)
      BY <2>1, <2>4
    <3>2. w[k] = mounts[at(k)] /\ w[l] = mounts[at(l)]
      BY <2>3, <2>4
    <3> QED
      BY <3>1, <3>2 DEF TypeOK
  <2> QED
    BY <1>3, <2>1, <2>2, <2>3, <2>5, <2>6 DEF TypeOK, IsMounts, NoneNew
<1> QED
  BY <1>2, <1>3

LEMMA MountsWithIs ==
  ASSUME TypeOK, NEW p \in Procs, ~HasMount(p), CanMount
  PROVE  /\ IsMounts(MountsWith(p)) /\ Len(MountsWith(p)) = Len(mounts) + 1
         /\ \A k \in DOMAIN MountsWith(p) :
                MountsWith(p)[k].of = p \/ \E i \in DOMAIN mounts : MountsWith(p)[k] = mounts[i]
<1>1. mounts \in Seq(MountSet)
  BY DEF TypeOK, MountSet
<1>2. Letter \in Letters \cup {0}
  BY FirstLetter DEF Letter, CanMount, TypeOK, FreeLetters, MountAssumption
<1> DEFINE m == [of |-> p, letter |-> Letter]
<1>3. m \in MountSet /\ MountsWith(p) = <<m>> \o mounts
  BY <1>2 DEF MountSet, MountsWith
<1> HIDE DEF m
<1> DEFINE s == <<m>>
           ms == MountsWith(p)
<1>4. s \in Seq(MountSet) /\ Len(s) = 1 /\ s[1] = m /\ Len(mounts) \in Nat /\ DOMAIN mounts = 1..Len(mounts)
  BY <1>1, <1>3
<1>5. ms = s \o mounts
  BY <1>3
<1> HIDE DEF s, ms
<1>6. /\ ms \in Seq(MountSet) /\ Len(ms) = 1 + Len(mounts)
      /\ \A k \in 1..Len(ms) : ms[k] = IF k =< 1 THEN s[k] ELSE mounts[k - 1]
  <2>1. /\ s \o mounts \in Seq(MountSet) /\ Len(s \o mounts) = Len(s) + Len(mounts)
        /\ \A k \in 1..(Len(s) + Len(mounts)) :
               (s \o mounts)[k] = IF k =< Len(s) THEN s[k] ELSE mounts[k - Len(s)]
    BY <1>1, <1>4, ConcatProperties
  <2> QED
    BY <1>4, <1>5, <2>1
<1>7. DOMAIN ms = 1..Len(ms) /\ Len(ms) = Len(mounts) + 1
  BY <1>4, <1>6
<1>8. ASSUME NEW k \in DOMAIN ms
      PROVE  \/ k = 1 /\ ms[k] = m
             \/ k - 1 \in DOMAIN mounts /\ ms[k] = mounts[k - 1]
  <2>1. CASE k = 1
    BY <1>4, <1>6, <1>7, <2>1
  <2>2. CASE k # 1
    <3>1. k - 1 \in 1..Len(mounts) /\ ~(k =< 1) /\ k \in 1..Len(ms)
      BY <1>4, <1>7, <2>2
    <3> QED
      BY <1>4, <1>6, <3>1
  <2> QED
    BY <2>1, <2>2
<1>9. m.of = p
  BY DEF m
<1>10. \A i \in DOMAIN mounts : mounts[i].of # p
  BY DEF HasMount
<1>11. ASSUME NEW k \in DOMAIN ms, NEW l \in DOMAIN ms, k # l PROVE ms[k].of # ms[l].of
  <2>0. k \in Int /\ l \in Int
    BY <1>4, <1>7
  <2>1. CASE k = 1
    <3>1. l - 1 \in DOMAIN mounts /\ ms[l] = mounts[l - 1] /\ ms[k] = m
      BY <1>8, <1>11, <2>1, <1>4
    <3> QED
      BY <1>9, <1>10, <3>1
  <2>2. CASE l = 1
    <3>1. k - 1 \in DOMAIN mounts /\ ms[k] = mounts[k - 1] /\ ms[l] = m
      BY <1>8, <1>11, <2>2, <1>4
    <3> QED
      BY <1>9, <1>10, <3>1
  <2>3. CASE k # 1 /\ l # 1
    <3>1. /\ k - 1 \in DOMAIN mounts /\ ms[k] = mounts[k - 1]
          /\ l - 1 \in DOMAIN mounts /\ ms[l] = mounts[l - 1]
      BY <1>8, <2>3
    <3>2. k - 1 # l - 1
      BY <2>0, <1>11
    <3> QED
      BY <3>1, <3>2 DEF TypeOK
  <2> QED
    BY <2>1, <2>2, <2>3
<1>12. IsMounts(ms)
  BY <1>6, <1>11 DEF IsMounts
<1>13. \A k \in DOMAIN ms : ms[k].of = p \/ \E i \in DOMAIN mounts : ms[k] = mounts[i]
  BY <1>8, <1>9
<1> QED
  BY <1>7, <1>12, <1>13 DEF ms

-----------------------------------------------------------------------------
(* Type correctness.                                                       *)

LEMMA OwnersAreProcs == TypeOK => \A i \in DOMAIN mounts : mounts[i].of \in Procs
<1> SUFFICES ASSUME TypeOK, NEW i \in DOMAIN mounts PROVE mounts[i].of \in Procs
  OBVIOUS
<1>1. mounts \in Seq(MountSet)
  BY DEF TypeOK, MountSet
<1>2. mounts[i] \in MountSet
  BY <1>1
<1> QED
  BY <1>2 DEF MountSet

LEMMA FewerMounts ==
  ASSUME IsMounts(mounts'), NoneNew(mounts')
  PROVE  /\ \A q \in Procs : HasMount(q)' => HasMount(q)
         /\ mounts' \in Seq(MountSet) /\ \A i, j \in DOMAIN mounts' : i # j => mounts'[i].of # mounts'[j].of
<1>1. ASSUME NEW q \in Procs, NEW k \in DOMAIN mounts', mounts'[k].of = q PROVE HasMount(q)
  <2>1. PICK i \in DOMAIN mounts : mounts'[k] = mounts[i]
    BY DEF NoneNew
  <2> QED
    BY <1>1, <2>1 DEF HasMount
<1> QED
  BY <1>1 DEF HasMount, IsMounts

LEMMA UnmountedIs ==
  ASSUME TypeOK, NEW p \in Procs
  PROVE  IsMounts(Unmounted(p)) /\ NoneNew(Unmounted(p))
<1>1. mounts \in Seq(MountSet)
  BY DEF TypeOK, MountSet
<1>2. CASE platform = "darwin" /\ mounts # <<>>
  <2>1. /\ Tail(mounts) \in Seq(MountSet) /\ DOMAIN Tail(mounts) = 1..(Len(mounts) - 1)
        /\ Len(mounts) \in Nat /\ DOMAIN mounts = 1..Len(mounts)
        /\ \A k \in 1..(Len(mounts) - 1) : Tail(mounts)[k] = mounts[k + 1]
    BY <1>1, <1>2
  <2>2. \A k \in 1..(Len(mounts) - 1) : k + 1 \in DOMAIN mounts
    BY <2>1
  <2>3. IsMounts(Tail(mounts))
    BY <2>1, <2>2 DEF IsMounts, TypeOK
  <2>4. NoneNew(Tail(mounts))
    BY <2>1, <2>2 DEF NoneNew
  <2> QED
    BY <1>2, <2>3, <2>4 DEF Unmounted
<1>3. CASE platform = "darwin" /\ mounts = <<>>
  BY <1>1, <1>3 DEF Unmounted, IsMounts, NoneNew
<1>4. CASE platform # "darwin"
  BY <1>4, WithoutIs DEF Unmounted, MountsWithout
<1> QED
  BY <1>2, <1>3, <1>4

LEMMA MountsWithoutIs ==
  ASSUME TypeOK, NEW p \in Procs, mounts' = MountsWithout(p)
  PROVE  (\A q \in Procs : HasMount(q)' => HasMount(q)) /\ ~HasMount(p)'
<1> DEFINE found == {i \in DOMAIN mounts : mounts[i].of = p}
<1>1. found \in SUBSET DOMAIN mounts /\ mounts' = Without(found)
  BY DEF MountsWithout
<1>2. CASE found = {}
  <2>1. mounts' = mounts /\ ~HasMount(p)
    BY <1>1, <1>2, WithoutIs DEF HasMount
  <2> QED
    BY <2>1 DEF HasMount
<1>3. CASE found # {}
  <2>1. PICK j \in found : TRUE
    BY <1>3
  <2>2. found = {j}
    BY <2>1 DEF TypeOK
  <2>3. j \in DOMAIN mounts /\ mounts[j].of = p
    BY <2>1
  <2> HIDE DEF found
  <2>4. ~HasMount(p)'
    BY <1>1, <2>2, <2>3, WithoutIs DEF HasMount
  <2>5. \A q \in Procs : HasMount(q)' => HasMount(q)
    BY <1>1, WithoutIs, FewerMounts
  <2> QED
    BY <2>4, <2>5
<1> QED
  BY <1>2, <1>3

LEMMA BecomesIs ==
  ASSUME TypeOK, NEW p \in Procs, NEW r \in Process, Becomes(p, r)
  PROVE  /\ proc' \in [Procs -> Process] /\ proc'[p] = r
         /\ \A q \in Procs : q # p => proc'[q] = proc[q]
  BY DEF TypeOK, Becomes

LEMMA ShapeStep ==
  ASSUME TypeOK, Shape, NEW p \in Procs, NEW r \in Process, Becomes(p, r), platform' = platform,
         Fits(r, HasMount(p)'), \A q \in Procs : q # p => (HasMount(q)' => HasMount(q))
  PROVE  Shape'
<1> SUFFICES ASSUME NEW q \in Procs PROVE Fits(proc[q], HasMount(q))'
  BY DEF Shape
<1>1. CASE q = p
  BY <1>1, BecomesIs DEF Fits
<1>2. CASE q # p
  BY <1>2, BecomesIs DEF Fits, Shape
<1> QED
  BY <1>1, <1>2

\* How a process may change so that its step still says the same of it.
LEMMA Reshape ==
  ASSUME TypeOK, Shape, NEW p \in Procs, NEW r \in Process, Becomes(p, r), platform' = platform,
         \A q \in Procs : q # p => (HasMount(q)' => HasMount(q)),
         r.step # "idle",
         r.step \in Before => proc[p].step \in Before /\ mounts' = mounts,
         r.step \in Before \cup {"undo", "link"} => ~r.handle,
         r.step \in Serving => r.handle,
         r.step = "undo" => platform = "darwin" /\ ~r.explicit,
         r.step = "link" \/ r.link => platform = "linux"
  PROVE  proc' \in [Procs -> Process] /\ Shape'
<1>1. mounts' = mounts => (HasMount(p)' <=> HasMount(p))
  BY DEF HasMount
<1>2. Fits(proc[p], HasMount(p))
  BY DEF Shape
<1>3. Fits(r, HasMount(p)')
  BY <1>1, <1>2 DEF Fits
<1> QED
  BY <1>3, BecomesIs, ShapeStep

LEMMA MountsStay == mounts' = mounts => \A q \in Procs : HasMount(q)' <=> HasMount(q)
  BY DEF HasMount

\* The same for a step that changes only where the process is.
LEMMA Regoes ==
  ASSUME TypeOK, Shape, NEW p \in Procs, NEW step \in Steps, Goes(p, step), platform' = platform,
         \A q \in Procs : q # p => (HasMount(q)' => HasMount(q)),
         step \in Serving => proc[p].step \in Serving,
         step = "undo" => platform = "darwin" /\ ~proc[p].explicit /\ ~proc[p].handle,
         step = "link" => platform = "linux" /\ ~proc[p].handle,
         step \notin Before
  PROVE  proc' \in [Procs -> Process] /\ Shape'
<1> DEFINE r == [proc[p] EXCEPT !.step = step]
<1>1. proc[p] \in Process /\ Fits(proc[p], HasMount(p))
  BY DEF TypeOK, Shape
<1>2. r \in Process /\ Becomes(p, r) /\ r.step = step /\ r.handle = proc[p].handle
      /\ r.link = proc[p].link /\ r.explicit = proc[p].explicit
  BY <1>1 DEF Process, Goes
<1> HIDE DEF r
<1> QED
  BY <1>1, <1>2, Reshape DEF Fits, Before

LEMMA NewProcessIs == NoPath \in Paths /\ NewProcess \in Process
<1>1. NoPath \in Paths
  BY DEF NoPath, Path, Paths
<1> HIDE DEF NoPath
<1> QED
  BY <1>1 DEF NewProcess, Process, Steps

\* Where realpath leads from a path.
LEMMA ResolveIs ==
  ASSUME TypeOK, NEW path \in Paths
  PROVE  Resolve(path) \in Paths
<1>1. CASE path = Folder /\ spot.kind = "link"
  <2>1. spot.of \in Procs \cup {Nobody}
    BY DEF TypeOK
  <2>2. Folder.name = "folder"
    BY DEF Folder, Path
  <2>3. Resolve(path) = Path("server", spot.of, 0)
    BY <1>1, <2>2 DEF Resolve
  <2>4. \A q \in Procs \cup {Nobody} : Path("server", q, 0) \in Paths
    BY DEF Path, Paths
  <2> QED
    BY <2>1, <2>3, <2>4
<1>2. CASE path.name = "drive" /\ MappedTo(path.letter) # {}
  <2>1. \A q \in MappedTo(path.letter) : q \in Procs
    BY OwnersAreProcs DEF MappedTo
  <2>2. \A q \in Procs : Path("server", q, 0) \in Paths
    BY DEF Path, Paths
  <2>3. (CHOOSE q \in MappedTo(path.letter) : TRUE) \in MappedTo(path.letter)
    BY <1>2
  <2>4. path # Folder
    BY <1>2 DEF Folder, Path
  <2> DEFINE owner == CHOOSE q \in MappedTo(path.letter) : TRUE
  <2>5. Resolve(path) = Path("server", owner, 0) /\ owner \in Procs
    BY <1>2, <2>1, <2>3, <2>4 DEF Resolve
  <2> HIDE DEF owner
  <2> QED
    BY <2>2, <2>5
<1>3. CASE path = Folder /\ spot.kind # "link"
  <2>1. ~(path.name = "drive")
    BY <1>3 DEF Folder, Path
  <2>2. Resolve(path) = Elsewhere \/ Resolve(path) = path
    BY <1>3, <2>1 DEF Resolve
  <2>3. Elsewhere \in Paths
    BY DEF Elsewhere, Path, Paths
  <2> QED
    BY <2>2, <2>3
<1>4. CASE path # Folder /\ ~(path.name = "drive" /\ MappedTo(path.letter) # {})
  BY <1>4 DEF Resolve
<1> QED
  BY <1>1, <1>2, <1>3, <1>4

LEMMA DisplayIs ==
  ASSUME TypeOK, NEW p \in Procs
  PROVE  Display(p) \in Paths /\ Resolve(Display(p)) \in Paths
<1>1. proc[p].drive \in Letters \cup {0}
  BY DEF TypeOK, Process
<1>2. Display(p) \in Paths
  BY <1>1 DEF Display, Folder, Path, Paths
<1> QED
  BY <1>2, ResolveIs

LEMMA DisplayIsSome ==
  ASSUME TypeOK, NEW p \in Procs
  PROVE  Resolve(Display(p)) # NoPath
<1>1. Display(p).name # "none"
  BY DEF Display, Folder, Path
<1>2. Resolve(Display(p)).name # "none"
  BY <1>1 DEF Resolve, Elsewhere, Path
<1> QED
  BY <1>2 DEF NoPath, Path

LEMMA EndedIs ==
  ASSUME TypeOK, NEW p \in Procs, NEW kernel \in BOOLEAN, NEW tidy \in BOOLEAN
  PROVE  LET r == Ended(p, kernel, tidy)
         IN  /\ r \in Process /\ r.step = "gone" /\ ~r.link /\ ~r.wrote /\ ~r.handler
             /\ r.explicit = proc[p].explicit /\ r.handle = proc[p].handle
             /\ r.lost = proc[p].lost /\ r.blind = proc[p].blind
             /\ r.refused = proc[p].refused /\ r.kernel = kernel /\ r.tidy = tidy
<1> DEFINE e == proc[p].explicit
           h == proc[p].handle
           f == proc[p].refused
           l == proc[p].lost
           b == proc[p].blind
<1>1. e \in BOOLEAN /\ h \in BOOLEAN /\ f \in BOOLEAN /\ l \in BOOLEAN /\ b \in BOOLEAN
  BY DEF TypeOK, Process
<1>2. NewProcess \in Process /\ kernel \in BOOLEAN /\ tidy \in BOOLEAN
  BY NewProcessIs
<1> HIDE DEF e, h, f, l, b
<1>3. Ended(p, kernel, tidy) =
        [NewProcess EXCEPT !.step = "gone", !.explicit = e, !.handle = h, !.lost = l, !.blind = b,
                           !.refused = f, !.kernel = kernel, !.tidy = tidy]
  BY DEF Ended, e, h, f, l, b
<1>4. ~NewProcess.link /\ ~NewProcess.wrote /\ ~NewProcess.handler
  BY DEF NewProcess
<1>5. "gone" \in Steps
  BY DEF Steps
<1> QED
  BY <1>1, <1>2, <1>3, <1>4, <1>5 DEF Process, e, h, f, l, b

LEMMA AimedStep == TypeOK /\ Aimed /\ [Next]_vars => Aimed'
<1> SUFFICES ASSUME TypeOK, Aimed, [Next]_vars PROVE Aimed'
  OBVIOUS
<1>1. CASE FindRecord
  BY <1>1 DEF FindRecord, Aimed, TypeOK
<1>2. CASE SignalOwner
  BY <1>2 DEF SignalOwner, Aimed
<1>3. CASE unmounter' = unmounter
  BY <1>3 DEF Aimed, NotFound
<1>4. ASSUME NEW p \in Procs, Begins(p) \/ PingFails(p) \/ Ends(p) \/ CtrlC(p) \/ Kill(p)
      PROVE  unmounter' = unmounter
  <2>1. CASE Begins(p)
    BY <2>1 DEF Begins, Start, Prepare, Mount, UndoDir, MakeLink, OpenInCode, Record, InstallSignalStop
  <2>2. CASE Ends(p)
    BY <2>2 DEF Ends, Unrecord, Unmount, Cleanup, UnlinkAndStop, Release
  <2> QED
    BY <1>4, <2>1, <2>2 DEF PingFails, CtrlC, Kill
<1>5. CASE UserEdits \/ UNCHANGED vars
  BY <1>3, <1>5 DEF UserEdits, vars
<1> QED
  BY <1>1, <1>2, <1>3, <1>4, <1>5 DEF Next

LEMMA TypeInit == Init => TypeOK /\ Shape
<1> SUFFICES ASSUME Init PROVE TypeOK /\ Shape
  OBVIOUS
<1>1. NewProcess \in Process
  BY NewProcessIs
<1>2. mounts \in Seq([of: Procs, letter: Letters \cup {0}]) /\ DOMAIN mounts = {}
  BY DEF Init
<1>3. spot \in [kind: {"absent", "empty", "link"} \cup UserKinds, of: Procs \cup {Nobody}]
  BY DEF Init, Spot, Absent, UserKinds
<1>4. unmounter \in [of: Procs \cup {Nobody}, at: Paths, stale: BOOLEAN]
  BY NewProcessIs DEF Init, NotFound
<1>5. remoteEmpty \in BOOLEAN
  BY Zenon DEF Init
<1>8. events \in 0..MaxEvents
  BY MountAssumption DEF Init
<1>6. TypeOK
  BY <1>1, <1>2, <1>3, <1>4, <1>5, <1>8 DEF Init, TypeOK
<1>7. Shape
  BY <1>2 DEF Init, Shape, Fits, HasMount, NewProcess, Before, Serving
<1> QED
  BY <1>6, <1>7

LEMMA TypeStep == TypeOK /\ Shape /\ Aimed /\ [Next]_vars => TypeOK' /\ Shape'
<1> SUFFICES ASSUME TypeOK, Shape, Aimed, [Next]_vars PROVE TypeOK' /\ Shape'
  OBVIOUS
<1> USE DEF world, files
<1>0. ASSUME NEW p \in Procs PROVE proc[p] \in Process /\ Fits(proc[p], HasMount(p))
  BY DEF TypeOK, Shape
<1>1. ASSUME NEW p \in Procs, Start(p) PROVE TypeOK' /\ Shape'
  <2>1. PICK explicit \in BOOLEAN, step \in {"prepare", "release"} :
           Becomes(p, [proc[p] EXCEPT !.step = step, !.kernel = TRUE, !.explicit = explicit])
    BY <1>1 DEF Start, ConfirmWritable
  <2> DEFINE r == [proc[p] EXCEPT !.step = step, !.kernel = TRUE, !.explicit = explicit]
  <2>2. /\ Becomes(p, r) /\ r \in Process /\ r.step = step
        /\ r.handle = proc[p].handle /\ r.link = proc[p].link
    BY <1>0, <2>1 DEF Process, Steps, Mounting, Ending
  <2>3. proc[p].step = "idle"
    BY <1>1 DEF Start, At
  <2> HIDE DEF r
  <2>4. proc' \in [Procs -> Process] /\ Shape'
    BY <1>0, <1>1, <2>2, <2>3, MountsStay, Reshape DEF Start, Fits, Before, Serving
  <2> QED
    BY <1>1, <2>4 DEF Start, TypeOK
<1>2. ASSUME NEW p \in Procs, Prepare(p) PROVE TypeOK' /\ Shape'
  <2>1. PICK step \in {"attach", "unrecord"}, drive \in Letters \cup {0}, blind \in BOOLEAN :
           Becomes(p, [proc[p] EXCEPT !.step = step, !.drive = drive, !.blind = blind])
    <3>1. FreeLetters # {} => Min(FreeLetters) \in Letters
      BY FirstLetter DEF FreeLetters
    <3> QED
      BY <1>2, <3>1 DEF Prepare
  <2> DEFINE r == [proc[p] EXCEPT !.step = step, !.drive = drive, !.blind = blind]
  <2>2. /\ Becomes(p, r) /\ r \in Process /\ r.step = step
        /\ r.handle = proc[p].handle /\ r.link = proc[p].link
    BY <1>0, <2>1 DEF Process, Steps, Mounting, Ending
  <2>3. proc[p].step = "prepare"
    BY <1>2 DEF Prepare, At
  <2> HIDE DEF r
  <2>4. proc' \in [Procs -> Process] /\ Shape'
    BY <1>0, <1>2, <2>2, <2>3, MountsStay, Reshape DEF Prepare, Fits, Before, Serving
  <2>5. spot' \in [kind: {"absent", "empty", "link"} \cup UserKinds, of: Procs \cup {Nobody}]
    BY <1>2 DEF Prepare, TypeOK, Spot
  <2> QED
    BY <1>2, <2>4, <2>5 DEF Prepare, TypeOK
<1>3. ASSUME NEW p \in Procs, Mount(p) PROVE TypeOK' /\ Shape'
  <2>1. ~HasMount(p) /\ ~proc[p].handle /\ proc[p].step = "attach" /\ (proc[p].link => platform = "linux")
    BY <1>0, <1>3 DEF Mount, Fits, At, Before
  <2>2. /\ IsMounts(mounts')
        /\ \A q \in Procs : q # p => (HasMount(q)' => HasMount(q))
    <3>1. CASE mounts' = mounts
      BY <3>1, MountsStay DEF TypeOK, IsMounts, MountSet
    <3>2. CASE CanMount /\ mounts' = MountsWith(p)
      BY <2>1, <3>2, MountsWithIs DEF HasMount
    <3> QED
      BY <1>3, <3>1, <3>2 DEF Mount
  <2>3. proc' \in [Procs -> Process] /\ Shape'
    <3>1. MountFails(p) \in {"undo", "unrecord"}
          /\ (MountFails(p) = "undo" => platform = "darwin" /\ ~proc[p].explicit)
      BY DEF MountFails
    <3>2. CASE platform = "linux" /\ Goes(p, "link")
      BY <1>3, <2>1, <2>2, <3>2, Regoes DEF Mount, Steps, Mounting, Before, Serving
    <3>3. CASE Becomes(p, [proc[p] EXCEPT !.step = "code", !.handle = TRUE])
      <4> DEFINE r == [proc[p] EXCEPT !.step = "code", !.handle = TRUE]
      <4>1. Becomes(p, r) /\ r \in Process /\ r.step = "code" /\ r.handle /\ r.link = proc[p].link
        BY <1>0, <3>3 DEF Process, Steps, Running
      <4> HIDE DEF r
      <4> QED
        BY <1>3, <2>1, <2>2, <4>1, Reshape DEF Mount, Before
    <3>4. CASE Goes(p, MountFails(p))
      BY <1>3, <2>1, <2>2, <3>1, <3>4, Regoes DEF Mount, Steps, Mounting, Ending, Before, Serving
    <3>5. CASE Becomes(p, [proc[p] EXCEPT !.step = MountFails(p), !.tidy = FALSE])
      <4> DEFINE step == MountFails(p)
                 r == [proc[p] EXCEPT !.step = step, !.tidy = FALSE]
      <4> HIDE DEF step
      <4>1. /\ Becomes(p, r) /\ r \in Process /\ r.step = step
            /\ r.handle = proc[p].handle /\ r.link = proc[p].link /\ r.explicit = proc[p].explicit
        BY <1>0, <3>1, <3>5 DEF Process, Steps, Mounting, Ending, step
      <4> HIDE DEF r
      <4> QED
        BY <1>3, <2>1, <2>2, <3>1, <4>1, Reshape DEF Mount, Before, Serving, step
    <3> QED
      BY <1>3, <3>2, <3>3, <3>4, <3>5 DEF Mount
  <2> QED
    BY <1>3, <2>2, <2>3 DEF Mount, TypeOK, IsMounts, MountSet
<1>4. ASSUME NEW p \in Procs, UndoDir(p) PROVE TypeOK' /\ Shape'
  <2>1. proc' \in [Procs -> Process] /\ Shape'
    BY <1>4, MountsStay, Regoes DEF UndoDir, Steps, Ending, Before, Serving
  <2>2. spot' \in [kind: {"absent", "empty", "link"} \cup UserKinds, of: Procs \cup {Nobody}]
    BY <1>4 DEF UndoDir, RmdirIfEmpty, TypeOK, Spot, Absent
  <2> QED
    BY <1>4, <2>1, <2>2 DEF UndoDir, TypeOK
<1>5. ASSUME NEW p \in Procs, MakeLink(p) PROVE TypeOK' /\ Shape'
  <2>0. /\ proc[p].step = "link" /\ platform = "linux"
        /\ UNCHANGED <<world, records, codeFile, unmounter, stray, events>>
    BY <1>0, <1>5 DEF MakeLink, At, Fits
  <2>1. IsMounts(mounts') /\ \A q \in Procs : HasMount(q)' => HasMount(q)
    <3>1. CASE mounts' = mounts
      BY <3>1, MountsStay DEF TypeOK, IsMounts, MountSet
    <3>2. CASE mounts' = MountsWithout(p)
      BY <3>2, WithoutIs, FewerMounts DEF MountsWithout
    <3> QED
      BY <1>5, <3>1, <3>2 DEF MakeLink
  <2>2. CASE /\ spot' = Spot("link", p)
             /\ Becomes(p, [proc[p] EXCEPT !.step = "code", !.handle = TRUE, !.link = TRUE])
    <3> DEFINE r == [proc[p] EXCEPT !.step = "code", !.handle = TRUE, !.link = TRUE]
    <3>1. Becomes(p, r) /\ r \in Process /\ r.step = "code" /\ r.handle
      BY <1>0, <2>2 DEF Process, Steps, Running
    <3> HIDE DEF r
    <3>2. proc' \in [Procs -> Process] /\ Shape'
      BY <2>0, <2>1, <3>1, Reshape DEF Before
    <3>3. spot' \in [kind: {"absent", "empty", "link"} \cup UserKinds, of: Procs \cup {Nobody}]
      BY <2>2 DEF Spot
    <3> QED
      BY <2>0, <2>1, <3>2, <3>3 DEF TypeOK, IsMounts, MountSet
  <2>3. CASE spot' = spot /\ Becomes(p, [proc[p] EXCEPT !.step = "unrecord", !.refused = TRUE])
    <3> DEFINE r == [proc[p] EXCEPT !.step = "unrecord", !.refused = TRUE]
    <3>1. Becomes(p, r) /\ r \in Process /\ r.step = "unrecord" /\ r.link = proc[p].link
      BY <1>0, <2>3 DEF Process, Steps, Ending
    <3> HIDE DEF r
    <3>2. proc' \in [Procs -> Process] /\ Shape'
      BY <2>0, <2>1, <3>1, Reshape DEF Before, Serving
    <3> QED
      BY <2>0, <2>1, <2>3, <3>2 DEF TypeOK, IsMounts, MountSet
  <2>4. CASE spot' = spot /\ Goes(p, "unrecord")
    <3>1. proc' \in [Procs -> Process] /\ Shape'
      BY <2>0, <2>1, <2>4, Regoes DEF Before, Serving, Steps, Ending
    <3> QED
      BY <2>0, <2>1, <2>4, <3>1 DEF TypeOK, IsMounts, MountSet
  <2> QED
    BY <1>5, <2>2, <2>3, <2>4 DEF MakeLink
<1>6. ASSUME NEW p \in Procs, OpenInCode(p) PROVE TypeOK' /\ Shape'
  <2> DEFINE wrote == p \in Coders
             r == [proc[p] EXCEPT !.step = "record", !.wrote = wrote]
  <2>0. wrote \in BOOLEAN /\ Becomes(p, r)
    BY <1>6 DEF OpenInCode
  <2> HIDE DEF wrote
  <2>1. /\ Becomes(p, r) /\ r \in Process /\ r.step = "record"
        /\ r.handle = proc[p].handle /\ r.link = proc[p].link
    BY <1>0, <2>0 DEF Process, Steps, Running
  <2>2. proc[p].step = "code"
    BY <1>6 DEF OpenInCode, At
  <2> HIDE DEF r
  <2>3. proc' \in [Procs -> Process] /\ Shape'
    BY <1>0, <1>6, <2>1, <2>2, MountsStay, Reshape DEF OpenInCode, Fits, Before, Serving
  <2> QED
    BY <1>6, <2>3 DEF OpenInCode, TypeOK
<1>7. ASSUME NEW p \in Procs, Record(p) PROVE TypeOK' /\ Shape'
  <2>1. proc[p].step = "record"
    BY <1>7 DEF Record, At
  <2> DEFINE at == Resolve(Display(p))
             new == RecordsWithout(Display(p)) \cup {[at |-> at, pid |-> p]}
  <2>4. at \in Paths
    BY DisplayIs
  <2>5. new \subseteq [at: Paths, pid: Procs] /\ \A r, s \in new : r.at = s.at => r = s
    <3>1. \A r \in RecordsWithout(Display(p)) : r \in records /\ r.at # at
      BY DEF RecordsWithout
    <3> HIDE DEF at
    <3> QED
      BY <2>4, <3>1 DEF TypeOK
  <2> HIDE DEF at, new
  <2>2. CASE Becomes(p, [proc[p] EXCEPT !.step = "handler", !.at = at]) /\ records' = new
    <3> DEFINE r == [proc[p] EXCEPT !.step = "handler", !.at = at]
    <3>1. /\ Becomes(p, r) /\ r \in Process /\ r.step = "handler"
          /\ r.handle = proc[p].handle /\ r.link = proc[p].link
      BY <1>0, <2>2, <2>4 DEF Process, Steps, Running
    <3> HIDE DEF r
    <3> QED
      <4>1. proc' \in [Procs -> Process] /\ Shape'
        BY <1>0, <1>7, <2>1, <3>1, MountsStay, Reshape DEF Record, Fits, Before, Serving
      <4> QED
        BY <1>7, <2>2, <2>5, <4>1 DEF Record, TypeOK
  <2>3. CASE Goes(p, "handler") /\ records' = records
    <3>1. proc' \in [Procs -> Process] /\ Shape'
      BY <1>7, <2>1, <2>3, MountsStay, Regoes DEF Record, Before, Serving, Steps, Running
    <3> QED
      BY <1>7, <2>3, <3>1 DEF Record, TypeOK
  <2> QED
    BY <1>7, <2>2, <2>3 DEF Record, at, new
<1>8. ASSUME NEW p \in Procs, InstallSignalStop(p) PROVE TypeOK' /\ Shape'
  <2> DEFINE r == [proc[p] EXCEPT !.step = "loop", !.handler = TRUE]
  <2>1. /\ Becomes(p, r) /\ r \in Process /\ r.step = "loop"
        /\ r.handle = proc[p].handle /\ r.link = proc[p].link
    BY <1>0, <1>8 DEF InstallSignalStop, Process, Steps, Running
  <2>2. proc[p].step = "handler"
    BY <1>8 DEF InstallSignalStop, At
  <2> HIDE DEF r
  <2>3. proc' \in [Procs -> Process] /\ Shape'
    BY <1>0, <1>8, <2>1, <2>2, MountsStay, Reshape DEF InstallSignalStop, Fits, Before, Serving
  <2> QED
    BY <1>8, <2>3 DEF InstallSignalStop, TypeOK
<1>9. ASSUME NEW p \in Procs, PingFails(p) PROVE TypeOK' /\ Shape'
  <2>1. proc' \in [Procs -> Process] /\ Shape'
    BY <1>9, MountsStay, Regoes DEF PingFails, Steps, Ending, Before, Serving
  <2> QED
    BY <1>9, <2>1 DEF PingFails, TypeOK
<1>10. ASSUME NEW p \in Procs, Unrecord(p) PROVE TypeOK' /\ Shape'
  <2>1. PICK lost \in BOOLEAN : Becomes(p, [proc[p] EXCEPT !.step = "unmount", !.lost = lost])
    BY <1>10 DEF Unrecord
  <2> DEFINE r == [proc[p] EXCEPT !.step = "unmount", !.lost = lost]
  <2>2. /\ Becomes(p, r) /\ r \in Process /\ r.step = "unmount"
        /\ r.handle = proc[p].handle /\ r.link = proc[p].link
    BY <1>0, <2>1 DEF Process, Steps, Ending
  <2> HIDE DEF r
  <2>3. proc' \in [Procs -> Process] /\ Shape'
    BY <1>0, <1>10, <2>2, MountsStay, Reshape DEF Unrecord, Fits, Before, Serving
  <2>4. records' \subseteq records
    BY <1>10 DEF Unrecord, RecordsWithout
  <2> QED
    BY <1>10, <2>3, <2>4 DEF Unrecord, TypeOK
<1>11. ASSUME NEW p \in Procs, Unmount(p) PROVE TypeOK' /\ Shape'
  <2>1. IsMounts(mounts') /\ \A q \in Procs : HasMount(q)' => HasMount(q)
    <3>1. CASE mounts' = mounts
      BY <3>1, MountsStay DEF TypeOK, IsMounts, MountSet
    <3>2. CASE mounts' = Unmounted(p)
      BY <3>2, UnmountedIs, FewerMounts
    <3> QED
      BY <1>11, <3>1, <3>2 DEF Unmount
  <2>0. platform' = platform /\ proc[p].step = "unmount"
    BY <1>11 DEF Unmount, At
  <2>2. ASSUME Goes(p, "cleanup") PROVE proc' \in [Procs -> Process] /\ Shape'
    BY <2>0, <2>1, <2>2, Regoes DEF Steps, Ending, Before, Serving
  <2>3. ASSUME Becomes(p, [proc[p] EXCEPT !.step = "cleanup", !.tidy = FALSE])
        PROVE  proc' \in [Procs -> Process] /\ Shape'
    <3> DEFINE r == [proc[p] EXCEPT !.step = "cleanup", !.tidy = FALSE]
    <3>1. Becomes(p, r) /\ r \in Process /\ r.step = "cleanup" /\ r.link = proc[p].link
      BY <1>0, <2>3 DEF Process, Steps, Ending
    <3> HIDE DEF r
    <3> QED
      BY <1>0, <2>0, <2>1, <3>1, Reshape DEF Fits, Before, Serving
  <2>5. Goes(p, "cleanup") \/ Becomes(p, [proc[p] EXCEPT !.step = "cleanup", !.tidy = FALSE])
    BY <1>11 DEF Unmount
  <2>4. proc' \in [Procs -> Process] /\ Shape'
    BY <2>2, <2>3, <2>5
  <2> QED
    BY <1>11, <2>1, <2>4 DEF Unmount, TypeOK, IsMounts, MountSet
<1>12. ASSUME NEW p \in Procs, Cleanup(p) PROVE TypeOK' /\ Shape'
  <2>1. proc' \in [Procs -> Process] /\ Shape'
    BY <1>12, MountsStay, Regoes DEF Cleanup, Steps, Ending, Before, Serving
  <2>2. spot' \in [kind: {"absent", "empty", "link"} \cup UserKinds, of: Procs \cup {Nobody}]
    BY <1>12 DEF Cleanup, RmdirIfEmpty, TypeOK, Spot, Absent
  <2> QED
    BY <1>12, <2>1, <2>2 DEF Cleanup, TypeOK
<1>13. ASSUME NEW p \in Procs, UnlinkAndStop(p) PROVE TypeOK' /\ Shape'
  <2>1. proc' \in [Procs -> Process] /\ Shape'
    BY <1>13, MountsStay, Regoes DEF UnlinkAndStop, Steps, Ending, Before, Serving
  <2> QED
    BY <1>13, <2>1 DEF UnlinkAndStop, TypeOK
<1>14. ASSUME NEW p \in Procs, NEW r \in {Interrupted(p), Killed(p), Ended(p, FALSE, proc[p].tidy)}, Becomes(p, r),
              platform' = platform, mounts' = mounts
       PROVE  proc' \in [Procs -> Process] /\ Shape'
  <2>1. ASSUME NEW kernel \in BOOLEAN, NEW tidy \in BOOLEAN, r = Ended(p, kernel, tidy)
        PROVE  proc' \in [Procs -> Process] /\ Shape'
    <3>1. r \in Process /\ r.step = "gone" /\ ~r.link
      BY <2>1, EndedIs
    <3> QED
      BY <1>14, <3>1, MountsStay, Reshape DEF Before, Serving
  <2>2. ASSUME NEW step \in {"unrecord", "release"}, NEW tidy \in BOOLEAN,
               r = [proc[p] EXCEPT !.step = step, !.tidy = tidy]
        PROVE  proc' \in [Procs -> Process] /\ Shape'
    <3>1. r \in Process /\ r.step = step /\ r.link = proc[p].link
      BY <1>0, <2>2 DEF Process, Steps, Ending
    <3> QED
      BY <1>0, <1>14, <3>1, MountsStay, Reshape DEF Fits, Before, Serving
  <2>3. proc[p].kernel \in BOOLEAN /\ proc[p].tidy \in BOOLEAN
    BY <1>0 DEF Process
  <2>4. CASE r = Killed(p) \/ r = Ended(p, FALSE, proc[p].tidy)
    BY <2>1, <2>3, <2>4 DEF Killed
  <2>5. CASE r = [proc[p] EXCEPT !.step = AfterInterrupt(@), !.tidy = @ /\ At(p, "loop")]
    <3> DEFINE step == AfterInterrupt(proc[p].step)
               tidy == proc[p].tidy /\ At(p, "loop")
    <3>1. r = [proc[p] EXCEPT !.step = step, !.tidy = tidy]
      BY <2>5
    <3>2. step \in {"unrecord", "release"}
      BY DEF AfterInterrupt
    <3>3. tidy \in BOOLEAN
      OBVIOUS
    <3> HIDE DEF step, tidy
    <3> QED
      BY <2>2, <3>1, <3>2, <3>3
  <2> QED
    BY <2>4, <2>5 DEF Interrupted
<1>15. ASSUME NEW p \in Procs, Release(p) PROVE TypeOK' /\ Shape'
  BY <1>14, <1>15 DEF Release, TypeOK
<1>16. ASSUME NEW p \in Procs, CtrlC(p) \/ Kill(p) PROVE TypeOK' /\ Shape'
  <2>1. events' \in 0..MaxEvents
    BY <1>16, MountAssumption DEF CtrlC, Kill, TypeOK
  <2>2. proc' \in [Procs -> Process] /\ Shape'
    BY <1>14, <1>16 DEF CtrlC, Kill
  <2> QED
    BY <1>16, <2>1, <2>2 DEF CtrlC, Kill, TypeOK
<1>17. CASE FindRecord
  <2>1. events' \in 0..MaxEvents
    BY <1>17, MountAssumption DEF FindRecord, TypeOK
  <2>2. PICK r \in records : unmounter' = [of |-> r.pid, at |-> r.at, stale |-> ~Alive(r.pid)]
    BY <1>17 DEF FindRecord
  <2>3. unmounter' \in [of: Procs \cup {Nobody}, at: Paths, stale: BOOLEAN]
    <3>1. (~Alive(r.pid)) \in BOOLEAN
      OBVIOUS
    <3>2. r.pid \in Procs /\ r.at \in Paths
      BY DEF TypeOK
    <3> QED
      BY <2>2, <3>1, <3>2
  <2>4. TypeOK'
    BY <1>17, <2>1, <2>3 DEF FindRecord, TypeOK
  <2>5. Shape'
    BY <1>17, MountsStay DEF FindRecord, Shape, Fits
  <2> QED
    BY <2>4, <2>5
<1>18. CASE SignalOwner
  <2>1. unmounter' \in [of: Procs \cup {Nobody}, at: Paths, stale: BOOLEAN]
    BY <1>18, NewProcessIs DEF SignalOwner, NotFound
  <2>2. CASE Alive(unmounter.of) /\ Becomes(unmounter.of, Terminated(unmounter.of)) /\ UNCHANGED <<records, stray>>
    <3>1. unmounter.of \in Procs
      BY <1>18 DEF SignalOwner, Aimed
    <3>2. proc' \in [Procs -> Process] /\ Shape'
      BY <1>14, <1>18, <2>2, <3>1 DEF SignalOwner, Terminated
    <3> QED
      BY <1>18, <2>1, <2>2, <3>2 DEF SignalOwner, TypeOK
  <2>3. CASE proc' = proc
    <3>1. records' \subseteq records /\ stray' \in BOOLEAN
      BY <1>18, <2>3 DEF SignalOwner, RecordsWithout, TypeOK
    <3> QED
      BY <1>18, <2>1, <2>3, <3>1, MountsStay DEF SignalOwner, TypeOK, Shape, Fits
  <2> QED
    BY <1>18, <2>2, <2>3 DEF SignalOwner
<1>19. CASE UserEdits
  <2>1. events' \in 0..MaxEvents
    BY <1>19, MountAssumption DEF UserEdits, TypeOK
  <2>2. spot' \in [kind: {"absent", "empty", "link"} \cup UserKinds, of: Procs \cup {Nobody}]
    BY <1>19 DEF UserEdits, Spot, Absent, UserKinds
  <2> QED
    BY <1>19, <2>1, <2>2, MountsStay DEF UserEdits, TypeOK, Shape, Fits
<1>20. CASE UNCHANGED vars
  BY <1>20, MountsStay DEF vars, TypeOK, Shape, Fits
<1> QED
  BY <1>1, <1>2, <1>3, <1>4, <1>5, <1>6, <1>7, <1>8, <1>9, <1>10, <1>11, <1>12, <1>13, <1>15,
     <1>16, <1>17, <1>18, <1>19, <1>20 DEF Next, Begins, Ends

\* Every state of the processes, of the folder, of the mounts and of the
\* records has its type, and a process its shape: nothing is mounted before the
\* mount, and only a handle leads to the steps that use it.
THEOREM TypeCorrect == Spec => []TypeOK
<1>1. Init => TypeOK /\ Shape /\ Aimed
  BY TypeInit DEF Init, Aimed
<1>2. TypeOK /\ Shape /\ Aimed /\ [Next]_vars => (TypeOK /\ Shape /\ Aimed)'
  BY TypeStep, AimedStep
<1> QED
  BY <1>1, <1>2, PTL DEF Spec

-----------------------------------------------------------------------------
(* What an action does to its process.                                     *)

Others(p) == \A q \in Procs : q # p => proc'[q] = proc[q]
\* What belongs to a process is as it was, but for its handle.
Marks(p) ==
    /\ proc'[p].explicit = proc[p].explicit /\ proc'[p].link = proc[p].link
    /\ proc'[p].at = proc[p].at /\ proc'[p].wrote = proc[p].wrote
    /\ proc'[p].lost = proc[p].lost /\ proc'[p].kernel = proc[p].kernel /\ proc'[p].refused = proc[p].refused
SameHandle(p) == proc'[p].handle = proc[p].handle
SameTidy(p) == proc'[p].tidy = proc[p].tidy
Like(p) == Marks(p) /\ SameHandle(p) /\ SameTidy(p)

LEMMA GoesIs ==
  ASSUME TypeOK, NEW p \in Procs, NEW step \in Steps, Goes(p, step)
  PROVE  Others(p) /\ Like(p) /\ proc'[p].step = step
<1>1. proc[p] \in Process
  BY DEF TypeOK
<1> DEFINE r == [proc[p] EXCEPT !.step = step]
<1>2. Becomes(p, r) /\ r \in Process
  BY <1>1 DEF Goes, Process
<1>3. /\ r.step = step /\ r.handle = proc[p].handle /\ r.tidy = proc[p].tidy
      /\ r.explicit = proc[p].explicit /\ r.link = proc[p].link /\ r.at = proc[p].at /\ r.lost = proc[p].lost
      /\ r.wrote = proc[p].wrote /\ r.kernel = proc[p].kernel /\ r.refused = proc[p].refused
  BY <1>1 DEF Process
<1> HIDE DEF r
<1> QED
  BY <1>2, <1>3, BecomesIs DEF Others, Like, Marks, SameHandle, SameTidy

LEMMA StartIs ==
  ASSUME TypeOK, Shape, NEW p \in Procs, Start(p)
  PROVE  /\ Others(p) /\ SameHandle(p) /\ SameTidy(p) /\ proc[p] = NewProcess
         /\ proc'[p].step \in {"prepare", "release"} /\ proc'[p].kernel
         /\ ~proc'[p].link /\ ~proc'[p].lost /\ ~proc'[p].wrote /\ ~proc'[p].handle
<1>1. proc[p] = NewProcess /\ NewProcess \in Process
  BY NewProcessIs DEF Start, At, Shape, Fits
<1>2. PICK explicit \in BOOLEAN, step \in {"prepare", "release"} :
         Becomes(p, [proc[p] EXCEPT !.step = step, !.kernel = TRUE, !.explicit = explicit])
  BY DEF Start, ConfirmWritable
<1> DEFINE r == [NewProcess EXCEPT !.step = step, !.kernel = TRUE, !.explicit = explicit]
<1>3. Becomes(p, r) /\ r \in Process
  BY <1>1, <1>2 DEF Process, Steps, Mounting, Ending
<1>4. /\ r.step = step /\ r.kernel /\ r.handle = NewProcess.handle /\ r.tidy = NewProcess.tidy
      /\ ~r.link /\ ~r.lost /\ ~r.wrote /\ ~r.handle
  BY DEF NewProcess
<1> HIDE DEF r
<1> QED
  BY <1>1, <1>3, <1>4, BecomesIs DEF Others, SameHandle, SameTidy

LEMMA PrepareIs ==
  ASSUME TypeOK, NEW p \in Procs, Prepare(p)
  PROVE  /\ Others(p) /\ Like(p) /\ proc[p].step = "prepare"
         /\ \/ /\ proc'[p].step = "attach"
               /\ (platform = "darwin" /\ ~proc[p].explicit) =>
                      spot'.kind = "empty" \/ (proc'[p].blind /\ mounts # <<>>)
            \/ proc'[p].step = "unrecord" /\ (platform = "darwin" => spot # Absent \/ proc[p].explicit)
<1>1. proc[p] \in Process
  BY DEF TypeOK
<1>2. PICK step \in {"attach", "unrecord"}, drive \in Letters \cup {0}, blind \in BOOLEAN :
         /\ Becomes(p, [proc[p] EXCEPT !.step = step, !.drive = drive, !.blind = blind])
         /\ step = "attach" => ((platform = "darwin" /\ ~proc[p].explicit) =>
                spot'.kind = "empty" \/ (blind /\ mounts # <<>>))
         /\ step = "unrecord" => (platform = "darwin" => spot # Absent \/ proc[p].explicit)
  <2>1. FreeLetters # {} => Min(FreeLetters) \in Letters
    BY FirstLetter DEF FreeLetters
  <2> QED
    BY <2>1 DEF Prepare, Spot, Absent
<1> DEFINE r == [proc[p] EXCEPT !.step = step, !.drive = drive, !.blind = blind]
<1>3. Becomes(p, r) /\ r \in Process
  BY <1>1, <1>2 DEF Process, Steps, Mounting, Ending
<1>4. /\ r.step = step /\ r.blind = blind /\ r.handle = proc[p].handle /\ r.tidy = proc[p].tidy
      /\ r.explicit = proc[p].explicit /\ r.link = proc[p].link /\ r.at = proc[p].at /\ r.lost = proc[p].lost
      /\ r.wrote = proc[p].wrote /\ r.kernel = proc[p].kernel /\ r.refused = proc[p].refused
  BY <1>1 DEF Process
<1>5. proc[p].step = "prepare"
  BY DEF Prepare, At
<1> HIDE DEF r
<1> QED
  BY <1>2, <1>3, <1>4, <1>5, BecomesIs DEF Others, Like, Marks, SameHandle, SameTidy

LEMMA MountIs ==
  ASSUME TypeOK, NEW p \in Procs, Mount(p)
  PROVE  /\ Others(p) /\ Marks(p) /\ proc[p].step = "attach"
         /\ \/ /\ CanMount /\ mounts' = MountsWith(p) /\ SameTidy(p)
               /\ \/ proc'[p].step = "link" /\ platform = "linux" /\ SameHandle(p)
                  \/ proc'[p].step = "code" /\ proc'[p].handle
            \/ mounts' = mounts /\ SameTidy(p) /\ SameHandle(p) /\ proc'[p].step = MountFails(p)
            \/ /\ CanMount /\ mounts' = MountsWith(p) /\ ~proc'[p].tidy /\ SameHandle(p)
               /\ proc'[p].step = MountFails(p)
<1>1. proc[p] \in Process /\ proc[p].step = "attach"
  BY DEF TypeOK, Mount, At
<1>2. MountFails(p) \in Steps /\ "link" \in Steps
  BY DEF MountFails, Steps, Mounting, Ending
<1>3. CASE CanMount /\ mounts' = MountsWith(p) /\ platform = "linux" /\ Goes(p, "link")
  BY <1>1, <1>2, <1>3, GoesIs DEF Like
<1>4. CASE CanMount /\ mounts' = MountsWith(p) /\ Becomes(p, [proc[p] EXCEPT !.step = "code", !.handle = TRUE])
  <2> DEFINE r == [proc[p] EXCEPT !.step = "code", !.handle = TRUE]
  <2>1. Becomes(p, r) /\ r \in Process
    BY <1>1, <1>4 DEF Process, Steps, Running
  <2>2. /\ r.step = "code" /\ r.handle /\ r.tidy = proc[p].tidy
        /\ r.explicit = proc[p].explicit /\ r.link = proc[p].link /\ r.at = proc[p].at /\ r.lost = proc[p].lost
        /\ r.wrote = proc[p].wrote /\ r.kernel = proc[p].kernel /\ r.refused = proc[p].refused
    BY <1>1 DEF Process
  <2> HIDE DEF r
  <2> QED
    BY <1>1, <1>4, <2>1, <2>2, BecomesIs DEF Others, Marks, SameTidy
<1>5. CASE mounts' = mounts /\ Goes(p, MountFails(p))
  BY <1>1, <1>2, <1>5, GoesIs DEF Like
<1>6. CASE CanMount /\ mounts' = MountsWith(p) /\ Becomes(p, [proc[p] EXCEPT !.step = MountFails(p), !.tidy = FALSE])
  <2> DEFINE step == MountFails(p)
  <2> HIDE DEF step
  <2> DEFINE r == [proc[p] EXCEPT !.step = step, !.tidy = FALSE]
  <2>1. Becomes(p, r) /\ r \in Process
    BY <1>1, <1>2, <1>6 DEF Process, step
  <2>2. /\ r.step = step /\ r.handle = proc[p].handle /\ ~r.tidy
        /\ r.explicit = proc[p].explicit /\ r.link = proc[p].link /\ r.at = proc[p].at /\ r.lost = proc[p].lost
        /\ r.wrote = proc[p].wrote /\ r.kernel = proc[p].kernel /\ r.refused = proc[p].refused
    BY <1>1 DEF Process
  <2> HIDE DEF r
  <2> QED
    BY <1>1, <1>6, <2>1, <2>2, BecomesIs DEF Others, Marks, SameHandle, step
<1> QED
  BY <1>3, <1>4, <1>5, <1>6 DEF Mount

LEMMA MakeLinkIs ==
  ASSUME TypeOK, NEW p \in Procs, MakeLink(p)
  PROVE  /\ Others(p) /\ SameTidy(p) /\ proc[p].step = "link"
         /\ proc'[p].explicit = proc[p].explicit /\ proc'[p].kernel = proc[p].kernel
         /\ proc'[p].lost = proc[p].lost
         /\ \/ /\ spot' = Spot("link", p) /\ mounts' = mounts
               /\ proc'[p].step = "code" /\ proc'[p].handle /\ proc'[p].link
            \/ /\ spot' = spot /\ mounts' = mounts
               /\ proc'[p].step = "unrecord" /\ proc'[p].refused
            \/ /\ spot' = spot /\ mounts' = MountsWithout(p)
               /\ proc'[p].step = "unrecord"
<1>1. proc[p] \in Process /\ proc[p].step = "link"
  BY DEF TypeOK, MakeLink, At
<1>2. CASE /\ spot' = Spot("link", p) /\ mounts' = mounts
           /\ Becomes(p, [proc[p] EXCEPT !.step = "code", !.handle = TRUE, !.link = TRUE])
  <2> DEFINE r == [proc[p] EXCEPT !.step = "code", !.handle = TRUE, !.link = TRUE]
  <2>1. Becomes(p, r) /\ r \in Process
    BY <1>1, <1>2 DEF Process, Steps, Running
  <2>2. /\ r.step = "code" /\ r.handle /\ r.link /\ r.tidy = proc[p].tidy
        /\ r.explicit = proc[p].explicit /\ r.kernel = proc[p].kernel /\ r.lost = proc[p].lost
    BY <1>1 DEF Process
  <2> HIDE DEF r
  <2> QED
    BY <1>1, <1>2, <2>1, <2>2, BecomesIs DEF Others, SameTidy
<1>3. CASE /\ spot' = spot /\ mounts' = mounts
           /\ Becomes(p, [proc[p] EXCEPT !.step = "unrecord", !.refused = TRUE])
  <2> DEFINE r == [proc[p] EXCEPT !.step = "unrecord", !.refused = TRUE]
  <2>1. Becomes(p, r) /\ r \in Process
    BY <1>1, <1>3 DEF Process, Steps, Ending
  <2>2. /\ r.step = "unrecord" /\ r.refused /\ r.tidy = proc[p].tidy
        /\ r.explicit = proc[p].explicit /\ r.kernel = proc[p].kernel /\ r.lost = proc[p].lost
    BY <1>1 DEF Process
  <2> HIDE DEF r
  <2> QED
    BY <1>1, <1>3, <2>1, <2>2, BecomesIs DEF Others, SameTidy
<1>4. CASE spot' = spot /\ mounts' = MountsWithout(p) /\ Goes(p, "unrecord")
  BY <1>1, <1>4, GoesIs DEF Like, Marks, Steps, Ending
<1> QED
  BY <1>2, <1>3, <1>4 DEF MakeLink

LEMMA OpenInCodeIs ==
  ASSUME TypeOK, NEW p \in Procs, OpenInCode(p)
  PROVE  /\ Others(p) /\ SameTidy(p) /\ SameHandle(p) /\ proc[p].step = "code"
         /\ proc'[p].explicit = proc[p].explicit /\ proc'[p].link = proc[p].link
         /\ proc'[p].lost = proc[p].lost /\ proc'[p].kernel = proc[p].kernel
         /\ proc'[p].refused = proc[p].refused /\ proc'[p].step = "record"
         /\ (p \in Coders => proc'[p].wrote)
<1>1. proc[p] \in Process /\ proc[p].step = "code"
  BY DEF TypeOK, OpenInCode, At
<1> DEFINE wrote == p \in Coders
           r == [proc[p] EXCEPT !.step = "record", !.wrote = wrote]
<1>0. wrote \in BOOLEAN /\ Becomes(p, r) /\ (p \in Coders => wrote)
  BY DEF OpenInCode
<1> HIDE DEF wrote
<1>2. r \in Process
  BY <1>0, <1>1 DEF Process, Steps, Running
<1>3. /\ r.step = "record" /\ r.handle = proc[p].handle /\ r.tidy = proc[p].tidy
      /\ r.explicit = proc[p].explicit /\ r.link = proc[p].link /\ r.at = proc[p].at /\ r.lost = proc[p].lost
      /\ r.wrote = wrote /\ r.kernel = proc[p].kernel /\ r.refused = proc[p].refused
  BY <1>1 DEF Process
<1> HIDE DEF r
<1> QED
  BY <1>0, <1>1, <1>2, <1>3, BecomesIs DEF Others, SameTidy, SameHandle

LEMMA RecordIs ==
  ASSUME TypeOK, Shape, NEW p \in Procs, Record(p)
  PROVE  /\ Others(p) /\ SameTidy(p) /\ SameHandle(p) /\ proc[p].step = "record" /\ proc[p].handle
         /\ proc'[p].explicit = proc[p].explicit /\ proc'[p].link = proc[p].link
         /\ proc'[p].wrote = proc[p].wrote /\ proc'[p].kernel = proc[p].kernel
         /\ proc'[p].refused = proc[p].refused /\ proc'[p].step = "handler"
         /\ proc'[p].lost = proc[p].lost
         /\ \/ /\ records' \subseteq records \cup {[at |-> proc'[p].at, pid |-> p]}
               /\ proc'[p].at = Resolve(Display(p))
            \/ records' = records
<1>1. proc[p] \in Process /\ proc[p].step = "record" /\ proc[p].handle
  BY DEF TypeOK, Shape, Fits, Serving, Record, At
<1> DEFINE at == Resolve(Display(p))
<1>6. RecordsWithout(Display(p)) \subseteq records
  BY DEF RecordsWithout
<1>7. at \in Paths
  BY DisplayIs
<1>4. \/ /\ records' \subseteq records \cup {[at |-> at, pid |-> p]}
         /\ Becomes(p, [proc[p] EXCEPT !.step = "handler", !.at = at])
      \/ Goes(p, "handler") /\ records' = records
  BY <1>6 DEF Record
<1>5. at = Resolve(Display(p))
  OBVIOUS
<1> HIDE DEF at
<1>2. CASE /\ records' \subseteq records \cup {[at |-> at, pid |-> p]}
           /\ Becomes(p, [proc[p] EXCEPT !.step = "handler", !.at = at])
  <2> DEFINE r == [proc[p] EXCEPT !.step = "handler", !.at = at]
  <2>1. Becomes(p, r) /\ r \in Process
    BY <1>1, <1>2, <1>7 DEF Process, Steps, Running
  <2>2. /\ r.step = "handler" /\ r.handle = proc[p].handle /\ r.tidy = proc[p].tidy
        /\ r.explicit = proc[p].explicit /\ r.link = proc[p].link /\ r.at = at /\ r.lost = proc[p].lost
        /\ r.wrote = proc[p].wrote /\ r.kernel = proc[p].kernel /\ r.refused = proc[p].refused
    BY <1>1 DEF Process
  <2> HIDE DEF r
  <2> QED
    BY <1>1, <1>2, <1>5, <2>1, <2>2, BecomesIs DEF Others, SameTidy, SameHandle
<1>3. CASE Goes(p, "handler") /\ records' = records
  BY <1>1, <1>3, GoesIs DEF Like, Marks, Steps, Running
<1> QED
  BY <1>2, <1>3, <1>4

LEMMA InstallIs ==
  ASSUME TypeOK, NEW p \in Procs, InstallSignalStop(p)
  PROVE  Others(p) /\ Like(p) /\ proc[p].step = "handler" /\ proc'[p].step = "loop"
<1>1. proc[p] \in Process /\ proc[p].step = "handler"
  BY DEF TypeOK, InstallSignalStop, At
<1> DEFINE r == [proc[p] EXCEPT !.step = "loop", !.handler = TRUE]
<1>2. Becomes(p, r) /\ r \in Process
  BY <1>1 DEF InstallSignalStop, Process, Steps, Running
<1>3. /\ r.step = "loop" /\ r.handle = proc[p].handle /\ r.tidy = proc[p].tidy
      /\ r.explicit = proc[p].explicit /\ r.link = proc[p].link /\ r.at = proc[p].at /\ r.lost = proc[p].lost
      /\ r.wrote = proc[p].wrote /\ r.kernel = proc[p].kernel /\ r.refused = proc[p].refused
  BY <1>1 DEF Process
<1> HIDE DEF r
<1> QED
  BY <1>1, <1>2, <1>3, BecomesIs DEF Others, Like, Marks, SameTidy, SameHandle

LEMMA UnrecordIs ==
  ASSUME TypeOK, NEW p \in Procs, Unrecord(p)
  PROVE  /\ Others(p) /\ SameHandle(p) /\ SameTidy(p)
         /\ proc[p].step = "unrecord" /\ proc'[p].step = "unmount"
         /\ proc'[p].explicit = proc[p].explicit /\ proc'[p].link = proc[p].link
         /\ proc'[p].wrote = proc[p].wrote /\ proc'[p].kernel = proc[p].kernel
         /\ proc'[p].refused = proc[p].refused
         /\ (proc[p].lost => proc'[p].lost)
         /\ records' \subseteq records
         /\ (proc[p].at # NoPath /\ proc[p].handle) =>
                /\ proc[p].at # Resolve(Display(p)) => proc'[p].lost
                /\ \A r \in records' : r.at # Resolve(Display(p))
<1>1. proc[p] \in Process /\ proc[p].step = "unrecord"
  BY DEF TypeOK, Unrecord, At
<1> DEFINE lost == proc[p].lost \/ (proc[p].at # NoPath /\ proc[p].handle /\ proc[p].at # Resolve(Display(p)))
           r == [proc[p] EXCEPT !.step = "unmount", !.lost = lost]
<1>2. Becomes(p, r) /\ lost \in BOOLEAN
  BY DEF Unrecord
<1>3. /\ records' \subseteq records
      /\ (proc[p].at # NoPath /\ proc[p].handle) => \A q \in records' : q.at # Resolve(Display(p))
  BY DEF Unrecord, RecordsWithout
<1>4. /\ proc[p].lost => lost
      /\ (proc[p].at # NoPath /\ proc[p].handle /\ proc[p].at # Resolve(Display(p))) => lost
  OBVIOUS
<1> HIDE DEF lost
<1>5. r \in Process
  BY <1>1, <1>2 DEF Process, Steps, Ending
<1>6. /\ r.step = "unmount" /\ r.handle = proc[p].handle /\ r.tidy = proc[p].tidy
      /\ r.explicit = proc[p].explicit /\ r.link = proc[p].link /\ r.lost = lost
      /\ r.wrote = proc[p].wrote /\ r.kernel = proc[p].kernel /\ r.refused = proc[p].refused
  BY <1>1 DEF Process
<1> HIDE DEF r
<1> QED
  BY <1>1, <1>2, <1>3, <1>4, <1>5, <1>6, BecomesIs DEF Others, SameTidy, SameHandle

LEMMA UnmountStepIs ==
  ASSUME TypeOK, NEW p \in Procs, Unmount(p)
  PROVE  /\ Others(p) /\ Marks(p) /\ SameHandle(p)
         /\ proc[p].step = "unmount" /\ proc'[p].step = "cleanup"
         /\ \/ proc[p].handle /\ mounts' = Unmounted(p) /\ SameTidy(p)
            \/ ~proc[p].handle /\ mounts' = mounts /\ SameTidy(p)
            \/ proc[p].handle /\ mounts' = mounts /\ ~proc'[p].tidy
<1>1. proc[p] \in Process /\ proc[p].step = "unmount"
  BY DEF TypeOK, Unmount, At
<1>2. CASE mounts' = (IF proc[p].handle THEN Unmounted(p) ELSE mounts) /\ Goes(p, "cleanup")
  BY <1>1, <1>2, GoesIs DEF Like, Steps, Ending
<1>3. CASE proc[p].handle /\ mounts' = mounts /\ Becomes(p, [proc[p] EXCEPT !.step = "cleanup", !.tidy = FALSE])
  <2> DEFINE r == [proc[p] EXCEPT !.step = "cleanup", !.tidy = FALSE]
  <2>1. Becomes(p, r) /\ r \in Process
    BY <1>1, <1>3 DEF Process, Steps, Ending
  <2>2. /\ r.step = "cleanup" /\ r.handle = proc[p].handle /\ ~r.tidy
        /\ r.explicit = proc[p].explicit /\ r.link = proc[p].link /\ r.at = proc[p].at /\ r.lost = proc[p].lost
        /\ r.wrote = proc[p].wrote /\ r.kernel = proc[p].kernel /\ r.refused = proc[p].refused
    BY <1>1 DEF Process
  <2> HIDE DEF r
  <2> QED
    BY <1>1, <1>3, <2>1, <2>2, BecomesIs DEF Others, Marks, SameHandle
<1> QED
  BY <1>2, <1>3 DEF Unmount

LEMMA ReleaseIs ==
  ASSUME TypeOK, NEW p \in Procs, Release(p)
  PROVE  /\ Others(p) /\ SameTidy(p) /\ SameHandle(p) /\ proc[p].step = "release"
         /\ proc'[p].explicit = proc[p].explicit /\ ~proc'[p].kernel /\ proc'[p].step = "gone"
         /\ proc'[p].refused = proc[p].refused /\ proc'[p].lost = proc[p].lost
<1>1. proc[p] \in Process /\ proc[p].step = "release"
  BY DEF TypeOK, Release, At
<1> DEFINE r == Ended(p, FALSE, proc[p].tidy)
<1>2. Becomes(p, r) /\ proc[p].tidy \in BOOLEAN
  BY <1>1 DEF Release, Process
<1>3. /\ r \in Process /\ r.step = "gone" /\ r.handle = proc[p].handle /\ r.tidy = proc[p].tidy
      /\ r.explicit = proc[p].explicit /\ ~r.kernel /\ r.refused = proc[p].refused
      /\ r.lost = proc[p].lost
  BY <1>2, EndedIs
<1> HIDE DEF r
<1> QED
  BY <1>1, <1>2, <1>3, BecomesIs DEF Others, SameTidy, SameHandle

\* A signal leaves a process tidy only if it meets it in its loop.
Signalled(p) ==
    /\ Others(p) /\ SameHandle(p)
    /\ proc'[p].explicit = proc[p].explicit
    /\ proc'[p].step \in {"unrecord", "release", "gone"}
    /\ proc'[p].tidy => proc[p].step = "loop" /\ proc'[p].step = "unrecord" /\ Like(p)

LEMMA SignalIs ==
  ASSUME TypeOK, NEW p \in Procs,
         Becomes(p, Killed(p)) \/ Becomes(p, Interrupted(p)) \/ Becomes(p, Terminated(p))
  PROVE  Signalled(p)
<1>1. proc[p] \in Process
  BY DEF TypeOK
<1>2. CASE Becomes(p, Killed(p))
  <2> DEFINE r == Killed(p)
  <2>1. proc[p].kernel \in BOOLEAN
    BY <1>1 DEF Process
  <2>2. /\ r \in Process /\ r.step = "gone" /\ r.handle = proc[p].handle /\ ~r.tidy
        /\ r.explicit = proc[p].explicit
    BY <2>1, EndedIs DEF Killed
  <2>3. Becomes(p, r)
    BY <1>2
  <2> HIDE DEF r
  <2> QED
    BY <2>2, <2>3, BecomesIs DEF Signalled, Others, SameHandle
<1>3. CASE Becomes(p, [proc[p] EXCEPT !.step = AfterInterrupt(@), !.tidy = @ /\ At(p, "loop")])
  <2> DEFINE step == AfterInterrupt(proc[p].step)
             tidy == proc[p].tidy /\ At(p, "loop")
             r == [proc[p] EXCEPT !.step = step, !.tidy = tidy]
  <2>1. Becomes(p, r)
    BY <1>3
  <2>2. step \in {"unrecord", "release"} /\ (proc[p].step = "loop" => step = "unrecord")
    BY DEF AfterInterrupt, Running
  <2>3. tidy \in BOOLEAN /\ (tidy => proc[p].tidy /\ proc[p].step = "loop")
    BY DEF At
  <2> HIDE DEF step, tidy
  <2>4. r \in Process
    BY <1>1, <2>2, <2>3 DEF Process, Steps, Ending
  <2>5. /\ r.step = step /\ r.handle = proc[p].handle /\ r.tidy = tidy
        /\ r.explicit = proc[p].explicit /\ r.link = proc[p].link /\ r.at = proc[p].at /\ r.lost = proc[p].lost
        /\ r.wrote = proc[p].wrote /\ r.kernel = proc[p].kernel /\ r.refused = proc[p].refused
    BY <1>1 DEF Process
  <2> HIDE DEF r
  <2>6. proc'[p] = r /\ Others(p)
    BY <2>1, <2>4, BecomesIs DEF Others
  <2>7. proc[p].tidy \in BOOLEAN /\ r.tidy \in BOOLEAN
    BY <1>1, <2>4 DEF Process
  <2> QED
    BY <2>2, <2>3, <2>5, <2>6, <2>7 DEF Signalled, Like, Marks, SameHandle, SameTidy
<1> QED
  BY <1>2, <1>3 DEF Interrupted, Terminated

Acts(p) == Begins(p) \/ PingFails(p) \/ Ends(p) \/ CtrlC(p) \/ Kill(p)

\* Whether a process mounts automatically, and what it looked at, is as it was.
SameView(p) == proc'[p].explicit = proc[p].explicit /\ proc'[p].blind = proc[p].blind

LEMMA ViewOf ==
  ASSUME TypeOK, NEW p \in Procs, NEW r, Becomes(p, r),
         r.explicit = proc[p].explicit, r.blind = proc[p].blind
  PROVE  SameView(p)
  BY DEF TypeOK, Becomes, SameView

LEMMA SignalKeepsView ==
  ASSUME TypeOK, NEW p \in Procs,
         Becomes(p, Killed(p)) \/ Becomes(p, Interrupted(p)) \/ Becomes(p, Terminated(p))
  PROVE  SameView(p)
<1>1. proc[p] \in Process
  BY DEF TypeOK
<1>2. CASE Becomes(p, Killed(p))
  <2> DEFINE r == Killed(p)
  <2>1. proc[p].kernel \in BOOLEAN
    BY <1>1 DEF Process
  <2>2. r.explicit = proc[p].explicit /\ r.blind = proc[p].blind
    BY <2>1, EndedIs DEF Killed
  <2>3. Becomes(p, r)
    BY <1>2
  <2> HIDE DEF r
  <2> QED
    BY <2>2, <2>3, ViewOf
<1>3. CASE Becomes(p, [proc[p] EXCEPT !.step = AfterInterrupt(@), !.tidy = @ /\ At(p, "loop")])
  <2> DEFINE step == AfterInterrupt(proc[p].step)
             tidy == proc[p].tidy /\ At(p, "loop")
             r == [proc[p] EXCEPT !.step = step, !.tidy = tidy]
  <2>1. Becomes(p, r)
    BY <1>3
  <2> HIDE DEF step, tidy
  <2>2. r.explicit = proc[p].explicit /\ r.blind = proc[p].blind
    BY <1>1 DEF Process
  <2> HIDE DEF r
  <2> QED
    BY <2>1, <2>2, ViewOf
<1> QED
  BY <1>2, <1>3 DEF Interrupted, Terminated

LEMMA ViewIs ==
  ASSUME TypeOK, NEW p \in Procs, Acts(p), ~Start(p), ~Prepare(p)
  PROVE  SameView(p)
<1>0. proc[p] \in Process
  BY DEF TypeOK
<1>1. ASSUME NEW step, Goes(p, step) PROVE SameView(p)
  <2> DEFINE r == [proc[p] EXCEPT !.step = step]
  <2>1. Becomes(p, r) /\ r.explicit = proc[p].explicit /\ r.blind = proc[p].blind
    BY <1>0, <1>1 DEF Goes, Process
  <2> HIDE DEF r
  <2> QED
    BY <2>1, ViewOf
<1>2. CASE UndoDir(p) \/ PingFails(p) \/ Cleanup(p) \/ UnlinkAndStop(p)
  BY <1>1, <1>2 DEF UndoDir, PingFails, Cleanup, UnlinkAndStop
<1>3. CASE Mount(p)
  <2>1. CASE Becomes(p, [proc[p] EXCEPT !.step = "code", !.handle = TRUE])
    <3> DEFINE r == [proc[p] EXCEPT !.step = "code", !.handle = TRUE]
    <3>1. Becomes(p, r) /\ r.explicit = proc[p].explicit /\ r.blind = proc[p].blind
      BY <1>0, <2>1 DEF Process
    <3> HIDE DEF r
    <3> QED
      BY <3>1, ViewOf
  <2>2. CASE Becomes(p, [proc[p] EXCEPT !.step = MountFails(p), !.tidy = FALSE])
    <3> DEFINE step == MountFails(p)
    <3> HIDE DEF step
    <3> DEFINE r == [proc[p] EXCEPT !.step = step, !.tidy = FALSE]
    <3>1. Becomes(p, r) /\ r.explicit = proc[p].explicit /\ r.blind = proc[p].blind
      BY <1>0, <2>2 DEF Process, step
    <3> HIDE DEF r
    <3> QED
      BY <3>1, ViewOf
  <2> QED
    BY <1>1, <1>3, <2>1, <2>2 DEF Mount
<1>4. CASE MakeLink(p)
  <2>1. CASE Becomes(p, [proc[p] EXCEPT !.step = "code", !.handle = TRUE, !.link = TRUE])
    <3> DEFINE r == [proc[p] EXCEPT !.step = "code", !.handle = TRUE, !.link = TRUE]
    <3>1. Becomes(p, r) /\ r.explicit = proc[p].explicit /\ r.blind = proc[p].blind
      BY <1>0, <2>1 DEF Process
    <3> HIDE DEF r
    <3> QED
      BY <3>1, ViewOf
  <2>2. CASE Becomes(p, [proc[p] EXCEPT !.step = "unrecord", !.refused = TRUE])
    <3> DEFINE r == [proc[p] EXCEPT !.step = "unrecord", !.refused = TRUE]
    <3>1. Becomes(p, r) /\ r.explicit = proc[p].explicit /\ r.blind = proc[p].blind
      BY <1>0, <2>2 DEF Process
    <3> HIDE DEF r
    <3> QED
      BY <3>1, ViewOf
  <2> QED
    BY <1>1, <1>4, <2>1, <2>2 DEF MakeLink
<1>5. CASE OpenInCode(p)
  <2> DEFINE wrote == p \in Coders
             r == [proc[p] EXCEPT !.step = "record", !.wrote = wrote]
  <2>1. Becomes(p, r)
    BY <1>5 DEF OpenInCode
  <2> HIDE DEF wrote
  <2>2. r.explicit = proc[p].explicit /\ r.blind = proc[p].blind
    BY <1>0 DEF Process
  <2> HIDE DEF r
  <2> QED
    BY <2>1, <2>2, ViewOf
<1>6. CASE Record(p)
  <2> DEFINE at == Resolve(Display(p))
             r == [proc[p] EXCEPT !.step = "handler", !.at = at]
  <2>1. Becomes(p, r) \/ Goes(p, "handler")
    BY <1>6 DEF Record
  <2> HIDE DEF at
  <2>2. r.explicit = proc[p].explicit /\ r.blind = proc[p].blind
    BY <1>0 DEF Process
  <2> HIDE DEF r
  <2> QED
    BY <1>1, <2>1, <2>2, ViewOf
<1>7. CASE InstallSignalStop(p)
  <2> DEFINE r == [proc[p] EXCEPT !.step = "loop", !.handler = TRUE]
  <2>1. Becomes(p, r) /\ r.explicit = proc[p].explicit /\ r.blind = proc[p].blind
    BY <1>0, <1>7 DEF InstallSignalStop, Process
  <2> HIDE DEF r
  <2> QED
    BY <2>1, ViewOf
<1>8. CASE Unrecord(p)
  <2>1. PICK lost : Becomes(p, [proc[p] EXCEPT !.step = "unmount", !.lost = lost])
    BY <1>8 DEF Unrecord
  <2> DEFINE r == [proc[p] EXCEPT !.step = "unmount", !.lost = lost]
  <2>2. Becomes(p, r) /\ r.explicit = proc[p].explicit /\ r.blind = proc[p].blind
    BY <1>0, <2>1 DEF Process
  <2> HIDE DEF r
  <2> QED
    BY <2>2, ViewOf
<1>9. CASE Unmount(p)
  <2> DEFINE r == [proc[p] EXCEPT !.step = "cleanup", !.tidy = FALSE]
  <2>1. Becomes(p, r) \/ Goes(p, "cleanup")
    BY <1>9 DEF Unmount
  <2>2. r.explicit = proc[p].explicit /\ r.blind = proc[p].blind
    BY <1>0 DEF Process
  <2> HIDE DEF r
  <2> QED
    BY <1>1, <2>1, <2>2, ViewOf
<1>10. CASE Release(p)
  <2> DEFINE r == Ended(p, FALSE, proc[p].tidy)
  <2>1. Becomes(p, r) /\ proc[p].tidy \in BOOLEAN
    BY <1>0, <1>10 DEF Release, Process
  <2>2. r.explicit = proc[p].explicit /\ r.blind = proc[p].blind
    BY <2>1, EndedIs
  <2> HIDE DEF r
  <2> QED
    BY <2>1, <2>2, ViewOf
<1>11. CASE CtrlC(p) \/ Kill(p)
  BY <1>11, SignalKeepsView DEF CtrlC, Kill
<1> QED
  BY <1>2, <1>3, <1>4, <1>5, <1>6, <1>7, <1>8, <1>9, <1>10, <1>11 DEF Acts, Begins, Ends

-----------------------------------------------------------------------------
(* No automatic mount covers files of the user.                            *)

\* A step after which its process does not wait to mount, and which makes no
\* mount and takes a folder only where nothing is mounted.
LEMMA SpotlessStays ==
  ASSUME MountInv, NEW p \in Procs, Others(p), platform' = platform,
         proc'[p].step # "attach", SameView(p),
         IsMounts(mounts'), NoneNew(mounts'),
         platform = "darwin" => \/ spot' = spot
                                \/ spot' = Absent /\ mounts = <<>>
  PROVE  Spotless' /\ NothingShadowed'
<1> USE DEF MountInv
<1>0. \A q \in Procs : Misled(q) => Misled(q)'
  BY DEF Misled, Others, SameView
<1>1. Spotless'
  <2> SUFFICES ASSUME NEW q \in Procs, At(q, "attach")', platform = "darwin", ~proc'[q].explicit
               PROVE  spot'.kind \in {"absent", "empty"} \/ Misled(q)'
    BY DEF Spotless
  <2>1. q # p /\ At(q, "attach") /\ ~proc[q].explicit
    BY DEF At, Others
  <2> QED
    BY <1>0, <2>1 DEF Spotless, Spot, Absent
<1>2. NothingShadowed'
  <2> SUFFICES ASSUME NEW k \in DOMAIN mounts', platform = "darwin", ~proc'[mounts'[k].of].explicit
               PROVE  spot'.kind = "empty" \/ Misled(mounts[k].of)'
    BY DEF NothingShadowed, Misled
  <2>1. PICK i \in DOMAIN mounts : mounts'[k] = mounts[i]
    BY DEF NoneNew
  <2>2. mounts[i].of \in Procs
    BY OwnersAreProcs
  <2>3. ~proc[mounts[i].of].explicit
    BY <2>1, <2>2 DEF Others, SameView
  <2>4. mounts # <<>>
    OBVIOUS
  <2>5. spot.kind = "empty" \/ Misled(mounts[i].of)
    BY <2>3 DEF NothingShadowed, Misled
  <2> QED
    BY <1>0, <2>1, <2>2, <2>4, <2>5
<1> QED
  BY <1>1, <1>2

LEMMA SameMounts == TypeOK /\ mounts' = mounts => IsMounts(mounts') /\ NoneNew(mounts')
  BY DEF TypeOK, IsMounts, NoneNew, MountSet

LEMMA SpotlessStep == MountInv /\ [Next]_vars => Spotless' /\ NothingShadowed'
<1> SUFFICES ASSUME MountInv, [Next]_vars PROVE Spotless' /\ NothingShadowed'
  OBVIOUS
<1>0. TypeOK /\ Shape /\ Spotless /\ NothingShadowed
  BY DEF MountInv
<1> USE DEF world, files
\* A mount was the user's wish, or is over an empty folder, or its process was misled.
<1>18. \A i \in DOMAIN mounts : platform = "darwin" =>
          \/ proc[mounts[i].of].explicit \/ spot.kind = "empty" \/ Misled(mounts[i].of)
  BY <1>0 DEF NothingShadowed, Misled
<1>19. \A i \in DOMAIN mounts : mounts[i].of \in Procs
  BY <1>0, OwnersAreProcs
<1>1. ASSUME NEW p \in Procs, Start(p) PROVE Spotless' /\ NothingShadowed'
  <2>1. platform' = platform /\ spot' = spot /\ mounts' = mounts
    BY <1>1 DEF Start
  <2>2. Others(p) /\ proc'[p].step # "attach" /\ proc[p] = NewProcess
    BY <1>0, <1>1, StartIs
  <2>3. ~HasMount(p) /\ ~proc[p].explicit
    BY <1>0, <2>2 DEF Shape, Fits, Before, NewProcess
  <2>4. \A q \in Procs : q # p /\ Misled(q) => Misled(q)'
    BY <2>2, <2>3 DEF Misled, Others
  <2>5. Spotless'
    <3> SUFFICES ASSUME NEW q \in Procs, At(q, "attach")', platform = "darwin", ~proc'[q].explicit
                 PROVE  spot'.kind \in {"absent", "empty"} \/ Misled(q)'
      BY <2>1 DEF Spotless
    <3>1. q # p /\ At(q, "attach") /\ ~proc[q].explicit
      BY <2>2 DEF At, Others
    <3> QED
      BY <1>0, <2>1, <2>4, <3>1 DEF Spotless
  <2>6. \A i \in DOMAIN mounts : mounts[i].of # p
    BY <2>3 DEF HasMount
  <2>7. NothingShadowed'
    <3> SUFFICES ASSUME NEW i \in DOMAIN mounts, platform = "darwin", ~proc'[mounts[i].of].explicit
                 PROVE  spot.kind = "empty" \/ Misled(mounts[i].of)'
      BY <2>1 DEF NothingShadowed, Misled
    <3>1. mounts[i].of # p /\ ~proc[mounts[i].of].explicit
      BY <1>19, <2>2, <2>6 DEF Others
    <3> QED
      BY <1>18, <1>19, <2>1, <2>4, <3>1
  <2> QED
    BY <2>5, <2>7
<1>2. ASSUME NEW p \in Procs, Prepare(p) PROVE Spotless' /\ NothingShadowed'
  <2>1. platform' = platform /\ mounts' = mounts /\ (spot' = spot \/ (spot = Absent /\ spot' = Spot("empty", Nobody)))
    BY <1>2 DEF Prepare
  <2>2. /\ Others(p) /\ Like(p) /\ proc[p].step = "prepare"
        /\ (proc'[p].step = "attach" /\ platform = "darwin" /\ ~proc[p].explicit =>
               spot'.kind = "empty" \/ (proc'[p].blind /\ mounts # <<>>))
    BY <1>0, <1>2, PrepareIs
  <2>3. \A q \in Procs : proc'[q].explicit = proc[q].explicit
    BY <2>2 DEF Others, Like, Marks
  <2>4. ~HasMount(p)
    BY <1>0, <2>2 DEF Shape, Fits, Before
  <2>5. \A q \in Procs : q # p /\ Misled(q) => Misled(q)'
    BY <2>2, <2>3 DEF Misled, Others
  <2>6. mounts # <<>> /\ platform = "darwin" => (\E q \in Procs : proc[q].explicit) \/ spot.kind = "empty"
    <3> SUFFICES ASSUME mounts # <<>>, platform = "darwin"
                 PROVE  (\E q \in Procs : proc[q].explicit) \/ spot.kind = "empty"
      OBVIOUS
    <3>1. mounts \in Seq(MountSet)
      BY <1>0 DEF TypeOK, MountSet
    <3>2. 1 \in DOMAIN mounts
      BY <3>1
    <3> QED
      BY <1>18, <1>19, <3>2 DEF Misled
  <2>7. Spotless'
    <3> SUFFICES ASSUME NEW q \in Procs, At(q, "attach")', platform = "darwin", ~proc'[q].explicit
                 PROVE  spot'.kind \in {"absent", "empty"} \/ Misled(q)'
      BY <2>1 DEF Spotless
    <3>1. CASE q # p
      <4>1. At(q, "attach") /\ ~proc[q].explicit
        BY <2>2, <3>1 DEF At, Others
      <4>2. spot.kind \in {"absent", "empty"} \/ Misled(q)
        BY <1>0, <4>1 DEF Spotless
      <4> QED
        BY <2>1, <2>5, <3>1, <4>2 DEF Spot
    <3>2. CASE q = p
      <4>1. proc'[p].step = "attach" /\ ~proc[p].explicit
        BY <2>3, <3>2 DEF At
      <4>2. CASE spot'.kind = "empty"
        BY <4>2
      <4>3. CASE proc'[p].blind /\ mounts # <<>>
        <5>1. spot' = spot \/ spot'.kind = "empty"
          BY <2>1 DEF Spot
        <5> QED
          BY <2>3, <2>6, <3>2, <4>3, <5>1 DEF Misled
      <4> QED
        BY <2>2, <4>1, <4>2, <4>3
    <3> QED
      BY <3>1, <3>2
  <2>8. NothingShadowed'
    <3> SUFFICES ASSUME NEW i \in DOMAIN mounts, platform = "darwin", ~proc'[mounts[i].of].explicit
                 PROVE  spot'.kind = "empty" \/ Misled(mounts[i].of)'
      BY <2>1 DEF NothingShadowed, Misled
    <3>1. mounts[i].of # p /\ ~proc[mounts[i].of].explicit
      BY <1>19, <2>3, <2>4 DEF HasMount
    <3>2. spot.kind = "empty" \/ Misled(mounts[i].of)'
      BY <1>18, <1>19, <2>1, <2>5, <3>1
    <3> QED
      BY <2>1, <3>2 DEF Spot
  <2> QED
    BY <2>7, <2>8
<1>3. ASSUME NEW p \in Procs, Mount(p) PROVE Spotless' /\ NothingShadowed'
  <2>1. platform' = platform /\ spot' = spot
    BY <1>3 DEF Mount
  <2>2. /\ Others(p) /\ At(p, "attach") /\ proc'[p].step # "attach"
        /\ mounts' = mounts \/ (CanMount /\ mounts' = MountsWith(p))
    BY <1>0, <1>3, MountIs DEF At, MountFails
  <2>3. SameView(p)
    <3>1. Acts(p) /\ ~Start(p) /\ ~Prepare(p)
      BY <1>3, <2>2 DEF Acts, Begins, Start, Prepare, At
    <3> QED
      BY <1>0, <3>1, ViewIs
  <2>4. \A q \in Procs : Misled(q) => Misled(q)'
    BY <2>2, <2>3 DEF Misled, Others, SameView
  <2>5. \A q \in Procs : proc'[q].explicit = proc[q].explicit
    BY <2>2, <2>3 DEF Others, SameView
  <2>8. Spotless'
    <3> SUFFICES ASSUME NEW q \in Procs, At(q, "attach")', platform = "darwin", ~proc'[q].explicit
                 PROVE  spot'.kind \in {"absent", "empty"} \/ Misled(q)'
      BY <2>1 DEF Spotless
    <3>1. At(q, "attach") /\ ~proc[q].explicit
      BY <2>2, <2>5 DEF At, Others
    <3> QED
      BY <1>0, <2>1, <2>4, <3>1 DEF Spotless
  <2>6. \A q \in Procs : HasMount(q) /\ platform = "darwin" /\ ~proc'[q].explicit
            => spot.kind = "empty" \/ Misled(q)'
    BY <1>18, <2>4, <2>5 DEF HasMount
  <2>7. NothingShadowed'
    <3> SUFFICES ASSUME NEW k \in DOMAIN mounts', platform = "darwin", ~proc'[mounts'[k].of].explicit
                 PROVE  spot.kind = "empty" \/ Misled(mounts[k].of)'
      BY <2>1 DEF NothingShadowed, Misled
    <3>4. \A q \in Procs : q = mounts'[k].of /\ Misled(q)' => Misled(mounts[k].of)'
      BY DEF Misled
    <3>5. ASSUME NEW i \in DOMAIN mounts, mounts'[k] = mounts[i]
          PROVE  spot.kind = "empty" \/ Misled(mounts[k].of)'
      <4>1. PICK q \in Procs : q = mounts[i].of /\ HasMount(q)
        BY <1>19 DEF HasMount
      <4>2. spot.kind = "empty" \/ Misled(q)'
        BY <2>6, <3>5, <4>1
      <4> QED
        BY <3>4, <3>5, <4>1, <4>2
    <3>0. CASE mounts' = mounts
      BY <3>0, <3>5
    <3>1. ~HasMount(p)
      BY <1>0, <2>2 DEF Shape, Fits, At, Before
    <3>2. CASE mounts'[k].of = p /\ CanMount
      <4>1. spot.kind \in {"absent", "empty"} \/ Misled(p)
        BY <1>0, <2>2, <2>5, <3>2 DEF Spotless
      <4>2. spot.kind \in Dirs
        BY <3>2 DEF CanMount
      <4> QED
        BY <2>4, <3>2, <3>4, <4>1, <4>2 DEF Dirs
    <3>3. CASE \E i \in DOMAIN mounts : mounts'[k] = mounts[i]
      BY <3>3, <3>5
    <3> QED
      BY <1>0, <2>2, <3>0, <3>1, <3>2, <3>3, MountsWithIs
  <2> QED
    BY <2>7, <2>8
<1>20. ASSUME NEW p \in Procs, Acts(p), proc[p].step \notin {"idle", "prepare"} PROVE SameView(p)
  <2>1. ~Start(p) /\ ~Prepare(p)
    BY <1>20 DEF Start, Prepare, At
  <2> QED
    BY <1>0, <1>20, <2>1, ViewIs
<1>4. ASSUME NEW p \in Procs, UndoDir(p) PROVE Spotless' /\ NothingShadowed'
  <2>1. platform' = platform /\ mounts' = mounts /\ (spot' = spot \/ (spot' = Absent /\ mounts = <<>>))
    BY <1>4 DEF UndoDir, RmdirIfEmpty
  <2>2. Others(p) /\ Like(p) /\ proc'[p].step = "unrecord"
    BY <1>0, <1>4, GoesIs DEF UndoDir, Steps, Ending
  <2> QED
    BY <1>0, <1>4, <2>1, <2>2, <1>20, SameMounts, SpotlessStays DEF UndoDir, At, Acts, Begins
<1>5. ASSUME NEW p \in Procs, MakeLink(p) PROVE Spotless' /\ NothingShadowed'
  <2>1. platform' = platform /\ platform = "linux"
    BY <1>0, <1>5 DEF MakeLink, Shape, Fits, At
  <2> QED
    BY <2>1 DEF Spotless, NothingShadowed
<1>6. ASSUME NEW p \in Procs, OpenInCode(p) PROVE Spotless' /\ NothingShadowed'
  <2>1. platform' = platform /\ mounts' = mounts /\ spot' = spot
    BY <1>6 DEF OpenInCode
  <2> QED
    BY <1>0, <1>6, <2>1, <1>20, OpenInCodeIs, SameMounts, SpotlessStays DEF Acts, Begins
<1>7. ASSUME NEW p \in Procs, Record(p) PROVE Spotless' /\ NothingShadowed'
  <2>1. platform' = platform /\ mounts' = mounts /\ spot' = spot
    BY <1>7 DEF Record
  <2> QED
    BY <1>0, <1>7, <2>1, <1>20, RecordIs, SameMounts, SpotlessStays DEF Acts, Begins
<1>8. ASSUME NEW p \in Procs, InstallSignalStop(p) PROVE Spotless' /\ NothingShadowed'
  <2>1. platform' = platform /\ mounts' = mounts /\ spot' = spot
    BY <1>8 DEF InstallSignalStop
  <2> QED
    BY <1>0, <1>8, <2>1, <1>20, InstallIs, SameMounts, SpotlessStays DEF Acts, Begins
<1>9. ASSUME NEW p \in Procs, PingFails(p) \/ Unrecord(p) \/ UnlinkAndStop(p)
      PROVE  Spotless' /\ NothingShadowed'
  <2>1. platform' = platform /\ mounts' = mounts /\ spot' = spot
    BY <1>9 DEF PingFails, Unrecord, UnlinkAndStop
  <2>2. Acts(p) /\ proc[p].step \notin {"idle", "prepare"}
    BY <1>9 DEF PingFails, Unrecord, UnlinkAndStop, At, Acts, Ends
  <2>3. Others(p) /\ proc'[p].step # "attach"
    BY <1>0, <1>9, GoesIs, UnrecordIs DEF PingFails, UnlinkAndStop, Steps, Ending
  <2> QED
    BY <1>0, <1>20, <2>1, <2>2, <2>3, SameMounts, SpotlessStays
<1>10. ASSUME NEW p \in Procs, Unmount(p) PROVE Spotless' /\ NothingShadowed'
  <2>1. platform' = platform /\ spot' = spot
    BY <1>10 DEF Unmount
  <2>2. IsMounts(mounts') /\ NoneNew(mounts')
    BY <1>0, <1>10, UnmountStepIs, UnmountedIs, SameMounts
  <2> QED
    BY <1>0, <1>10, <2>1, <2>2, <1>20, UnmountStepIs, SpotlessStays DEF Acts, Ends
<1>11. ASSUME NEW p \in Procs, Cleanup(p) PROVE Spotless' /\ NothingShadowed'
  <2>1. platform' = platform /\ mounts' = mounts
    BY <1>11 DEF Cleanup
  <2>2. proc[p].link => platform # "darwin"
    BY <1>0 DEF Shape, Fits
  <2>3. platform = "darwin" => spot' = spot \/ (spot' = Absent /\ mounts = <<>>)
    BY <1>11, <2>2 DEF Cleanup, RmdirIfEmpty
  <2>4. Others(p) /\ Like(p) /\ proc'[p].step = "stop"
    BY <1>0, <1>11, GoesIs DEF Cleanup, Steps, Ending
  <2> QED
    BY <1>0, <1>11, <2>1, <2>3, <2>4, <1>20, SameMounts, SpotlessStays DEF Cleanup, At, Acts, Ends
<1>12. ASSUME NEW p \in Procs, Release(p) PROVE Spotless' /\ NothingShadowed'
  <2>1. platform' = platform /\ mounts' = mounts /\ spot' = spot
    BY <1>12 DEF Release
  <2> QED
    BY <1>0, <1>12, <2>1, <1>20, ReleaseIs, SameMounts, SpotlessStays DEF Acts, Ends
<1>13. ASSUME NEW p \in Procs, CtrlC(p) \/ Kill(p) PROVE Spotless' /\ NothingShadowed'
  <2>1. platform' = platform /\ mounts' = mounts /\ spot' = spot
    BY <1>13 DEF CtrlC, Kill
  <2>2. Signalled(p)
    BY <1>0, <1>13, SignalIs DEF CtrlC, Kill
  <2>3. SameView(p)
    BY <1>0, <1>13, SignalKeepsView DEF CtrlC, Kill
  <2> QED
    BY <1>0, <2>1, <2>2, <2>3, SameMounts, SpotlessStays DEF Signalled
<1>14. CASE FindRecord \/ UNCHANGED vars
  <2>1. platform' = platform /\ mounts' = mounts /\ spot' = spot /\ proc' = proc
    BY <1>14 DEF FindRecord, vars
  <2> QED
    BY <1>0, <2>1 DEF Spotless, NothingShadowed, Misled, At
<1>15. CASE SignalOwner
  <2> DEFINE p == unmounter.of
  <2>1. platform' = platform /\ mounts' = mounts /\ spot' = spot /\ p \in Procs
    BY <1>15 DEF SignalOwner, MountInv, Aimed
  <2>2. Becomes(p, Terminated(p)) \/ proc' = proc
    BY <1>15 DEF SignalOwner
  <2>3. CASE proc' = proc
    BY <1>0, <2>1, <2>3 DEF Spotless, NothingShadowed, Misled, At
  <2>4. CASE Becomes(p, Terminated(p))
    BY <1>0, <2>1, <2>4, SignalIs, SignalKeepsView, SameMounts, SpotlessStays DEF Signalled
  <2> QED
    BY <2>2, <2>3, <2>4
<1>16. CASE UserEdits
  <2>1. platform' = platform /\ mounts' = mounts /\ proc' = proc
        /\ (platform = "darwin" => mounts = <<>> /\ \A p \in Procs : ~At(p, "attach"))
    BY <1>16 DEF UserEdits
  <2>2. Spotless'
    BY <2>1 DEF Spotless, At
  <2>3. platform = "darwin" => DOMAIN mounts = {}
    BY <2>1
  <2>4. NothingShadowed'
    BY <2>1, <2>3 DEF NothingShadowed
  <2> QED
    BY <2>2, <2>4
<1> QED
  BY <1>1, <1>2, <1>3, <1>4, <1>5, <1>6, <1>7, <1>8, <1>9, <1>10, <1>11, <1>12, <1>13, <1>14,
     <1>15, <1>16 DEF Next, Begins, Ends

LEMMA MountInvCorrect == (Init => MountInv) /\ (MountInv /\ [Next]_vars => MountInv')
<1>1. ASSUME Init PROVE MountInv
  <2>1. TypeOK /\ Shape /\ Aimed
    BY <1>1, TypeInit DEF Init, Aimed
  <2>2. Spotless /\ NothingShadowed
    BY <1>1 DEF Init, Spotless, NothingShadowed, NewProcess, At
  <2> QED
    BY <2>1, <2>2 DEF MountInv
<1>2. ASSUME MountInv, [Next]_vars PROVE MountInv'
  BY <1>2, TypeStep, AimedStep, SpotlessStep DEF MountInv
<1> QED
  BY <1>1, <1>2

\* However many processes start, mount, fail, are stopped and undo one another's
\* mounts, an automatic mount of macOS lies over files of the user only if its
\* process looked at another's mount in place of them, and somebody used --mount
\* (_prepare_dir_target checks, the mount tool does not).
THEOREM NeverShadows == Spec => []NothingShadowed
<1>1. MountInv => NothingShadowed
  BY DEF MountInv
<1> QED
  BY <1>1, MountInvCorrect, PTL DEF Spec

-----------------------------------------------------------------------------
(* Records, and the signals they lead to.                                  *)

\* What all actions of a process have in common: it is never tidy again, nor in order.
LEMMA ActsIs ==
  ASSUME TypeOK, Shape, NEW p \in Procs, Acts(p)
  PROVE  /\ Others(p) /\ (proc'[p].tidy => proc[p].tidy) /\ (InOrder(p)' => InOrder(p))
         /\ platform' = platform /\ unmounter' = unmounter /\ stray' = stray
<1> USE DEF world, files, InOrder
<1>1. CASE Start(p) \/ Prepare(p) \/ Mount(p) \/ MakeLink(p)
  <2>1. Others(p)
    BY <1>1, StartIs, PrepareIs, MountIs, MakeLinkIs
  <2>2. proc'[p].tidy => proc[p].tidy
    BY <1>1, StartIs, PrepareIs, MountIs, MakeLinkIs DEF SameTidy, Like
  <2>3. proc[p].lost => proc'[p].lost
    BY <1>1, StartIs, PrepareIs, MountIs, MakeLinkIs DEF Marks, Like, NewProcess
  <2> QED
    BY <1>1, <2>1, <2>2, <2>3 DEF Start, Prepare, Mount, MakeLink
<1>2. CASE OpenInCode(p) \/ Record(p) \/ InstallSignalStop(p) \/ Unmount(p) \/ Release(p)
  <2>1. Others(p)
    BY <1>2, OpenInCodeIs, RecordIs, InstallIs, UnmountStepIs, ReleaseIs
  <2>2. proc'[p].tidy => proc[p].tidy
    BY <1>2, OpenInCodeIs, RecordIs, InstallIs, UnmountStepIs, ReleaseIs DEF SameTidy, Like
  <2>3. proc[p].lost => proc'[p].lost
    BY <1>2, OpenInCodeIs, RecordIs, InstallIs, UnmountStepIs, ReleaseIs DEF Marks, Like
  <2> QED
    BY <1>2, <2>1, <2>2, <2>3 DEF OpenInCode, Record, InstallSignalStop, Unmount, Release
<1>3. CASE UndoDir(p) \/ PingFails(p) \/ Cleanup(p) \/ UnlinkAndStop(p)
  <2>1. PICK step \in {"unrecord", "unmount", "stop", "release"} : Goes(p, step)
    BY <1>3 DEF UndoDir, PingFails, Cleanup, UnlinkAndStop
  <2>2. Others(p) /\ Like(p)
    BY <2>1, GoesIs DEF Steps, Ending
  <2> QED
    BY <1>3, <2>2 DEF UndoDir, PingFails, Cleanup, UnlinkAndStop, Like, Marks, SameTidy
<1>5. CASE Unrecord(p)
  BY <1>5, UnrecordIs DEF Unrecord, SameTidy
<1>4. CASE CtrlC(p) \/ Kill(p)
  <2>1. Signalled(p)
    BY <1>4, SignalIs DEF CtrlC, Kill
  <2> QED
    BY <1>4, <2>1 DEF CtrlC, Kill, Signalled, Like, Marks, SameTidy
<1> QED
  BY <1>1, <1>2, <1>3, <1>4, <1>5 DEF Acts, Begins, Ends

LEMMA RecordedStays ==
  ASSUME TypeOK, Recorded, NoStraySignal, NEW p \in Procs, Others(p),
         InOrder(p)' => InOrder(p), unmounter' = unmounter, stray' = stray,
         \A r \in records' : r \in records \/ r.pid = p,
         \A r \in records' : r.pid = p => Kept(r)'
  PROVE  Recorded' /\ NoStraySignal'
<1>1. \A r \in records' : Kept(r)'
  <2> SUFFICES ASSUME NEW r \in records', r.pid # p PROVE Kept(r)'
    OBVIOUS
  <2>1. r \in records /\ r.pid \in Procs /\ proc'[r.pid] = proc[r.pid]
    BY DEF TypeOK, Others
  <2>2. Kept(r)
    BY <2>1 DEF Recorded
  <2> QED
    BY <2>1, <2>2 DEF Kept, TakesRecord, InOrder
<1>2. (\E q \in Procs : ~InOrder(q)) => \E q \in Procs : ~InOrder(q)'
  BY DEF Others, InOrder
<1> QED
  BY <1>1, <1>2 DEF Recorded, NoStraySignal

LEMMA RecordedStep == TypeOK /\ Shape /\ Aimed /\ Recorded /\ NoStraySignal /\ [Next]_vars
                          => Recorded' /\ NoStraySignal'
<1> SUFFICES ASSUME TypeOK, Shape, Aimed, Recorded, NoStraySignal, [Next]_vars
             PROVE  Recorded' /\ NoStraySignal'
  OBVIOUS
<1> USE DEF world, files
\* The steps that leave the records, of a process whose record, if it has one,
\* nobody takes away.
<1>1. ASSUME NEW p \in Procs, Acts(p), records' = records, proc[p].step \notin {"handler", "loop", "unrecord"}
      PROVE  Recorded' /\ NoStraySignal'
  <2>1. ASSUME NEW r \in records, r.pid = p PROVE Kept(r)'
    <3>1. ~InOrder(p)
      BY <1>1, <2>1 DEF Recorded, Kept, TakesRecord
    <3> QED
      BY <1>1, <2>1, <3>1, ActsIs DEF Kept, InOrder
  <2> QED
    BY <1>1, <2>1, ActsIs, RecordedStays
<1>2. ASSUME NEW p \in Procs, Record(p) PROVE Recorded' /\ NoStraySignal'
  <2>0. Acts(p)
    BY <1>2 DEF Acts, Begins
  <2>1. \A r \in records' : r \in records \/ r = [at |-> proc'[p].at, pid |-> p]
    BY <1>2, RecordIs
  <2>2. ASSUME NEW r \in records', r.pid = p PROVE Kept(r)'
    <3>1. CASE r \in records
      <4>1. ~InOrder(p)
        BY <1>2, <2>2, <3>1, RecordIs DEF Recorded, Kept, TakesRecord
      <4> QED
        BY <2>0, <2>2, <4>1, ActsIs DEF Kept, InOrder
    <3>2. CASE r \notin records
      <4>1. r.at = proc'[p].at /\ proc'[p].step = "handler" /\ proc'[p].handle
        BY <1>2, <2>1, <3>2, RecordIs DEF SameHandle
      <4>2. proc'[p].at = Resolve(Display(p))
        BY <1>2, <3>2, RecordIs
      <4>3. proc'[p].at # NoPath
        BY <4>2, DisplayIsSome
      <4> QED
        BY <2>2, <4>1, <4>3 DEF Kept, TakesRecord
    <3> QED
      BY <3>1, <3>2
  <2>3. \A r \in records' : r \in records \/ r.pid = p
    BY <2>1
  <2> QED
    BY <2>0, <2>2, <2>3, ActsIs, RecordedStays
<1>3. ASSUME NEW p \in Procs, InstallSignalStop(p) \/ PingFails(p) PROVE Recorded' /\ NoStraySignal'
  <2>1. records' = records /\ Acts(p)
    BY <1>3 DEF InstallSignalStop, PingFails, Acts, Begins
  <2>2. Like(p) /\ proc'[p].step \in {"loop", "unrecord"}
    BY <1>3, InstallIs, GoesIs DEF PingFails, Steps, Ending
  <2>3. ASSUME NEW r \in records, r.pid = p PROVE Kept(r)'
    <3>1. Kept(r)
      BY DEF Recorded
    <3> QED
      BY <2>2, <2>3, <3>1 DEF Kept, TakesRecord, InOrder, Like, Marks, SameHandle, SameTidy
  <2> QED
    BY <2>1, <2>3, ActsIs, RecordedStays
<1>4. ASSUME NEW p \in Procs, Unrecord(p) PROVE Recorded' /\ NoStraySignal'
  <2>1. Acts(p) /\ records' \subseteq records /\ proc[p].step = "unrecord"
    BY <1>4, UnrecordIs DEF Acts, Ends
  <2>2. ASSUME NEW r \in records', r.pid = p PROVE Kept(r)'
    <3>1. Kept(r)
      BY <2>1 DEF Recorded
    <3>2. CASE ~InOrder(p)
      BY <2>1, <2>2, <3>2, ActsIs DEF Kept, InOrder
    <3>3. CASE TakesRecord(p) /\ proc[p].at = r.at
      <4>1. r.at # Resolve(Display(p))
        BY <1>4, <2>2, <3>3, UnrecordIs DEF TakesRecord
      <4>2. proc'[p].lost
        BY <1>4, <3>3, <4>1, UnrecordIs DEF TakesRecord
      <4> QED
        BY <2>2, <4>2 DEF Kept, InOrder
    <3> QED
      BY <2>2, <3>1, <3>2, <3>3 DEF Kept
  <2> QED
    BY <2>1, <2>2, ActsIs, RecordedStays
<1>5. ASSUME NEW p \in Procs, Signalled(p), records' = records, stray' = stray,
             unmounter' = unmounter \/ unmounter' = NotFound
      PROVE  Recorded' /\ NoStraySignal'
  <2>1. InOrder(p)' => InOrder(p)
    BY <1>5 DEF Signalled, Like, Marks, SameTidy, InOrder
  <2>3. \A r \in records : Kept(r)'
    <3> SUFFICES ASSUME NEW r \in records PROVE Kept(r)'
      OBVIOUS
    <3>1. Kept(r) /\ r.pid \in Procs
      BY DEF Recorded, TypeOK
    <3>2. CASE r.pid # p
      <4>1. proc'[r.pid] = proc[r.pid]
        BY <1>5, <3>1, <3>2 DEF Signalled, Others
      <4> QED
        BY <3>1, <4>1 DEF Kept, TakesRecord, InOrder
    <3>3. CASE r.pid = p /\ ~proc'[p].tidy
      BY <3>3 DEF Kept, InOrder
    <3>4. CASE r.pid = p /\ proc'[p].tidy
      <4>1. proc[p].step = "loop" /\ proc'[p].step = "unrecord" /\ Like(p)
        BY <1>5, <3>4 DEF Signalled
      <4> QED
        BY <3>1, <3>4, <4>1 DEF Kept, TakesRecord, InOrder, Like, Marks, SameHandle, SameTidy
    <3> QED
      BY <3>2, <3>3, <3>4
  <2>4. (\E q \in Procs : ~InOrder(q)) => \E q \in Procs : ~InOrder(q)'
    BY <1>5, <2>1 DEF Signalled, Others, InOrder
  <2> QED
    BY <1>5, <2>3, <2>4 DEF Recorded, NoStraySignal, NotFound
<1>6. ASSUME NEW p \in Procs, Acts(p) PROVE Recorded' /\ NoStraySignal'
  <2>1. CASE CtrlC(p) \/ Kill(p)
    <3>1. Signalled(p) /\ records' = records /\ stray' = stray /\ unmounter' = unmounter
      BY <2>1, SignalIs DEF CtrlC, Kill
    <3> QED
      BY <1>5, <3>1
  <2>2. CASE Start(p) \/ Prepare(p) \/ Mount(p) \/ UndoDir(p) \/ MakeLink(p) \/ OpenInCode(p)
             \/ Unmount(p) \/ Cleanup(p) \/ UnlinkAndStop(p) \/ Release(p)
    <3>1. proc[p].step \notin {"handler", "loop", "unrecord"}
      BY <2>2 DEF At, Start, Prepare, Mount, UndoDir, MakeLink, OpenInCode, Unmount, Cleanup,
                  UnlinkAndStop, Release
    <3>2. records' = records
      BY <2>2 DEF Start, Prepare, Mount, UndoDir, MakeLink, OpenInCode, Unmount, Cleanup,
                  UnlinkAndStop, Release
    <3> QED
      BY <1>1, <1>6, <3>1, <3>2
  <2> QED
    BY <1>2, <1>3, <1>4, <1>6, <2>1, <2>2 DEF Acts, Begins, Ends
<1>7. CASE FindRecord
  <2>1. PICK r \in records : unmounter' = [of |-> r.pid, at |-> r.at, stale |-> ~Alive(r.pid)]
    BY <1>7 DEF FindRecord
  <2>2. proc' = proc /\ records' = records /\ stray' = stray /\ r.pid \in Procs
    BY <1>7 DEF FindRecord, TypeOK
  <2>3. unmounter'.stale => ~InOrder(r.pid)
    BY <2>1 DEF Recorded, Kept, TakesRecord, Alive
  <2> QED
    BY <2>2, <2>3 DEF Recorded, Kept, NoStraySignal, TakesRecord, InOrder
<1>8. CASE SignalOwner
  <2> DEFINE p == unmounter.of
  <2>1. p \in Procs /\ unmounter' = NotFound
    BY <1>8 DEF SignalOwner, Aimed
  <2>2. CASE Becomes(p, Terminated(p)) /\ UNCHANGED <<records, stray>>
    BY <1>5, <2>1, <2>2, SignalIs
  <2>3. CASE proc' = proc /\ records' \subseteq records /\ (stray' = stray \/ unmounter.stale)
    BY <2>1, <2>3 DEF Recorded, Kept, NoStraySignal, TakesRecord, InOrder, NotFound
  <2>4. RecordsWithout(unmounter.at) \subseteq records
    BY DEF RecordsWithout
  <2> QED
    BY <1>8, <2>2, <2>3, <2>4 DEF SignalOwner
<1>9. CASE UserEdits \/ UNCHANGED vars
  <2>1. proc' = proc /\ records' = records /\ stray' = stray /\ unmounter' = unmounter
    BY <1>9 DEF UserEdits, vars
  <2> QED
    BY <2>1 DEF Recorded, Kept, NoStraySignal, TakesRecord, InOrder
<1> QED
  BY <1>6, <1>7, <1>8, <1>9 DEF Next, Acts

LEMMA StrayInvCorrect == (Init => StrayInv) /\ (StrayInv /\ [Next]_vars => StrayInv')
<1>1. Init => Recorded /\ NoStraySignal
  BY DEF Init, Recorded, NoStraySignal, NotFound
<1>2. StrayInv /\ [Next]_vars => Recorded' /\ NoStraySignal'
  BY RecordedStep DEF StrayInv, MountInv
<1> QED
  BY <1>1, <1>2, MountInvCorrect DEF StrayInv

\* jp live unmount signals a process that is no jp live only after some jp live
\* was killed (on Windows, by that command), was interrupted outside its loop, or
\* removed the record of another path than its own: a record outlives its process
\* in no other way (live_state.remove in the finally clause, find_for_path).
THEOREM StraysExplained == Spec => []NoStraySignal
<1>1. StrayInv => NoStraySignal
  BY DEF StrayInv
<1> QED
  BY <1>1, StrayInvCorrect, PTL DEF Spec

-----------------------------------------------------------------------------
(* What the user has at the name of the mount.                             *)

\* No step of jp replaces or takes away what the user has at the name of the
\* mount: only the user does, and the cleanup of a process that had made a link
\* there, which unlinks the user's too (_prepare_dir_target, _rmdir_if_empty,
\* _linux_cleanup).
THEOREM UserDataIsKept == Spec => UserDataKept
<1> DEFINE Unlinked == /\ spot.kind = "foreign" /\ spot' = Absent
                       /\ \E p \in Procs : At(p, "cleanup") /\ proc[p].link
           Stays == spot.kind \in UserKinds /\ spot' # spot =>
                       \/ events' = events + 1 /\ UNCHANGED proc
                       \/ Unlinked
<1>1. ASSUME Next PROVE Stays
  <2> SUFFICES ASSUME spot.kind \in {"file", "full", "foreign"}, spot' # spot, ~Unlinked
               PROVE  events' = events + 1 /\ UNCHANGED proc
    BY DEF UserKinds
  <2> USE DEF files
  <2>1. \A p \in Procs : ~(Prepare(p) \/ UndoDir(p) \/ MakeLink(p))
    BY DEF Prepare, UndoDir, MakeLink, RmdirIfEmpty, Absent, Spot
  <2>7. \A p \in Procs : ~Cleanup(p)
    <3> SUFFICES ASSUME NEW p \in Procs, Cleanup(p) PROVE FALSE
      OBVIOUS
    <3>1. proc[p].link /\ spot.kind = "foreign" /\ spot' = Absent /\ At(p, "cleanup")
      BY DEF Cleanup, RmdirIfEmpty
    <3> QED
      BY <3>1
  <2>2. \A p \in Procs : ~(Start(p) \/ Mount(p) \/ OpenInCode(p) \/ Record(p) \/ InstallSignalStop(p))
    BY DEF Start, Mount, OpenInCode, Record, InstallSignalStop
  <2>3. \A p \in Procs : ~(Unrecord(p) \/ Unmount(p) \/ UnlinkAndStop(p) \/ Release(p))
    BY DEF Unrecord, Unmount, UnlinkAndStop, Release
  <2>4. \A p \in Procs : ~(PingFails(p) \/ CtrlC(p) \/ Kill(p))
    BY DEF PingFails, CtrlC, Kill
  <2>5. ~FindRecord /\ ~SignalOwner
    BY DEF FindRecord, SignalOwner
  <2>6. UserEdits
    BY <1>1, <2>1, <2>2, <2>3, <2>4, <2>5, <2>7 DEF Next, Begins, Ends
  <2> QED
    BY <2>6 DEF UserEdits
<1>2. [Next]_vars => [Stays]_vars
  BY <1>1
<1> QED
  BY <1>2, PTL DEF Spec, UserDataKept

-----------------------------------------------------------------------------
(* Kernels, workspace files and links.                                     *)

LEMMA OwnedStays ==
  ASSUME TypeOK, Owned, NEW p \in Procs, Others(p), platform' = platform,
         proc'[p].kernel => Alive(p)' \/ ~proc'[p].tidy,
         codeFile' = codeFile \/ codeFile' = Nobody \/ codeFile' = p,
         codeFile' = p => TakesCode(p)' \/ ~proc'[p].tidy,
         spot'.kind = "link" => \/ spot' = spot /\ spot.of # p
                                \/ spot'.of = p /\ platform = "linux" /\ (TakesLink(p)' \/ ~proc'[p].tidy)
  PROVE  Owned'
<1>1. \A q \in Procs : proc'[q].kernel => Alive(q)' \/ ~proc'[q].tidy
  BY DEF Owned, Others, Alive
<1>2. codeFile' # Nobody => TakesCode(codeFile)' \/ ~proc'[codeFile'].tidy
  BY DEF Owned, TypeOK, TakesCode, Others
<1>3. spot'.kind = "link" =>
         /\ spot'.of \in Procs /\ platform' = "linux"
         /\ TakesLink(spot.of)' \/ ~proc'[spot'.of].tidy
  <2> SUFFICES ASSUME spot'.kind = "link"
               PROVE  /\ spot'.of \in Procs /\ platform' = "linux"
                      /\ TakesLink(spot.of)' \/ ~proc'[spot'.of].tidy
    OBVIOUS
  <2>1. CASE spot' = spot /\ spot.of # p
    BY <2>1 DEF Owned, TakesLink, Others
  <2>2. CASE spot'.of = p /\ platform = "linux" /\ (TakesLink(p)' \/ ~proc'[p].tidy)
    BY <2>2 DEF TakesLink
  <2> QED
    BY <2>1, <2>2
<1> QED
  BY <1>1, <1>2, <1>3 DEF Owned

\* The case that the step leaves the file and the link: what p would take away
\* it still would, or it is not tidy.
LEMMA OwnedGoesOn ==
  ASSUME TypeOK, Shape, Owned, NEW p \in Procs, Acts(p), spot' = spot, codeFile' = codeFile,
         proc'[p].kernel => Alive(p)' \/ ~proc'[p].tidy,
         TakesCode(p) => TakesCode(p)' \/ ~proc'[p].tidy,
         TakesLink(p) => TakesLink(p)' \/ ~proc'[p].tidy
  PROVE  Owned'
<1>1. codeFile' = p => TakesCode(p)' \/ ~proc'[p].tidy
  BY ActsIs, MountAssumption DEF Owned
<1>2. spot'.kind = "link" => \/ spot' = spot /\ spot.of # p
                             \/ spot'.of = p /\ platform = "linux" /\ (TakesLink(p)' \/ ~proc'[p].tidy)
  BY ActsIs DEF Owned
<1> QED
  BY <1>1, <1>2, ActsIs, OwnedStays

LEMMA OwnedStep == TypeOK /\ Shape /\ Aimed /\ Owned /\ [Next]_vars => Owned'
<1> SUFFICES ASSUME TypeOK, Shape, Aimed, Owned, [Next]_vars PROVE Owned'
  OBVIOUS
<1> USE DEF world, files
<1>1. ASSUME NEW p \in Procs, Start(p) PROVE Owned'
  <2>1. spot' = spot /\ codeFile' = codeFile /\ Acts(p)
    BY <1>1 DEF Start, Acts, Begins
  <2>2. proc[p] = NewProcess /\ proc'[p].step \in {"prepare", "release"}
    BY <1>1, StartIs
  <2> QED
    BY <2>1, <2>2, OwnedGoesOn DEF Alive, TakesCode, TakesLink, NewProcess
<1>2. ASSUME NEW p \in Procs, Prepare(p) PROVE Owned'
  <2>1. /\ codeFile' = codeFile /\ Acts(p) /\ platform' = platform
        /\ spot' = spot \/ spot' = Spot("empty", Nobody)
    BY <1>2 DEF Prepare, Acts, Begins
  <2>2. Others(p) /\ Like(p) /\ proc[p].step = "prepare" /\ proc'[p].step \in {"attach", "unrecord"}
    BY <1>2, PrepareIs
  <2>3. ~TakesCode(p) /\ ~TakesLink(p) /\ Alive(p)'
    BY <2>2 DEF TakesCode, TakesLink, Held, Serving, Alive
  <2>4. CASE spot' = spot
    BY <2>1, <2>3, <2>4, OwnedGoesOn
  <2>5. CASE spot' = Spot("empty", Nobody)
    <3>1. codeFile' = p => ~proc'[p].tidy
      BY <2>1, <2>2, <2>3, MountAssumption DEF Owned, Like, SameTidy
    <3> QED
      BY <2>1, <2>2, <2>3, <2>5, <3>1, OwnedStays DEF Spot
  <2> QED
    BY <2>1, <2>4, <2>5
<1>3. ASSUME NEW p \in Procs, Mount(p) PROVE Owned'
  <2>1. spot' = spot /\ codeFile' = codeFile /\ Acts(p)
    BY <1>3 DEF Mount, Acts, Begins
  <2>2. proc[p].step = "attach" /\ proc'[p].step \in {"link", "code", "undo", "unrecord"}
    BY <1>3, MountIs DEF MountFails
  <2> QED
    BY <2>1, <2>2, OwnedGoesOn DEF Alive, TakesCode, TakesLink, Held, Serving
<1>4. ASSUME NEW p \in Procs, UndoDir(p) \/ Cleanup(p) PROVE Owned'
  <2>1. codeFile' = codeFile /\ Acts(p) /\ (spot' = spot \/ spot' = Absent)
    BY <1>4 DEF UndoDir, Cleanup, RmdirIfEmpty, Acts, Begins, Ends
  <2>2. Like(p) /\ proc'[p].step \in {"unrecord", "stop"} /\ proc[p].step \in {"undo", "cleanup"}
        /\ (proc[p].step = "cleanup" => proc'[p].step = "stop")
    BY <1>4, GoesIs DEF UndoDir, Cleanup, Steps, Ending, At
  <2>3. codeFile' = p => TakesCode(p)' \/ ~proc'[p].tidy
    <3>1. TakesCode(p) => TakesCode(p)'
      BY <2>2 DEF TakesCode, Held, Serving, Like, Marks
    <3> QED
      BY <2>1, <2>2, <3>1, MountAssumption DEF Owned, Like, SameTidy
  <2>4. spot'.kind = "link" => \/ spot' = spot /\ spot.of # p
                               \/ spot'.of = p /\ platform = "linux" /\ ~proc'[p].tidy
    <3> SUFFICES ASSUME spot'.kind = "link", spot.of = p
                 PROVE  spot'.of = p /\ platform = "linux" /\ ~proc'[p].tidy
      BY <2>1 DEF Absent, Spot
    <3>1. spot' = spot /\ platform = "linux"
      BY <2>1 DEF Owned, Absent, Spot
    <3>2. ~(proc[p].step = "cleanup" /\ proc[p].link)
      BY <1>4, <3>1 DEF UndoDir, Cleanup, At, Absent, Spot
    <3>3. ~TakesLink(p)
      BY <2>2, <3>2 DEF TakesLink, Held, Serving
    <3> QED
      BY <2>2, <3>1, <3>3 DEF Owned, Like, SameTidy
  <2>5. Alive(p)'
    BY <2>2 DEF Alive
  <2> QED
    BY <2>1, <2>3, <2>4, <2>5, ActsIs, OwnedStays
<1>5. ASSUME NEW p \in Procs, MakeLink(p) PROVE Owned'
  <2>1. codeFile' = codeFile /\ Acts(p) /\ platform = "linux"
    BY <1>5 DEF MakeLink, Acts, Begins, Shape, Fits, At
  <2>2. proc[p].step = "link" /\ SameTidy(p)
    BY <1>5, MakeLinkIs
  <2>3. ~TakesCode(p) /\ ~TakesLink(p)
    BY <2>2 DEF TakesCode, TakesLink, Held, Serving
  <2>4. CASE spot' # spot
    <3>0. spot' = Spot("link", p) /\ proc'[p].step = "code" /\ proc'[p].link
      BY <1>5, <2>4, MakeLinkIs
    <3>1. Alive(p)' /\ TakesLink(p)'
      BY <3>0 DEF Alive, TakesLink, Held, Serving
    <3>2. codeFile' = p => ~proc'[p].tidy
      BY <2>1, <2>2, <2>3, MountAssumption DEF Owned, SameTidy
    <3> QED
      BY <2>1, <3>0, <3>1, <3>2, ActsIs, OwnedStays DEF Spot
  <2>5. CASE spot' = spot
    <3>1. proc'[p].step \in {"code", "unrecord"}
      BY <1>5, MakeLinkIs
    <3> QED
      BY <2>1, <2>3, <2>5, <3>1, OwnedGoesOn DEF Alive
  <2> QED
    BY <2>4, <2>5
<1>6. ASSUME NEW p \in Procs, OpenInCode(p) PROVE Owned'
  <2>1. /\ Acts(p) /\ spot' = spot /\ codeFile' = (IF p \in Coders THEN p ELSE codeFile)
    BY <1>6 DEF OpenInCode, Acts, Begins
  <2>2. /\ SameTidy(p) /\ proc[p].step = "code" /\ proc'[p].step = "record"
        /\ proc'[p].link = proc[p].link /\ (p \in Coders => proc'[p].wrote)
    BY <1>6, OpenInCodeIs
  <2>3. Alive(p)' /\ (TakesLink(p) => TakesLink(p)')
    BY <2>2 DEF Alive, TakesLink, Held, Serving
  <2>4. CASE p \in Coders
    <3>1. TakesCode(p)'
      BY <2>2, <2>4 DEF TakesCode, Held, Serving
    <3>2. spot'.kind = "link" => \/ spot' = spot /\ spot.of # p
                                 \/ spot'.of = p /\ platform = "linux" /\ (TakesLink(p)' \/ ~proc'[p].tidy)
      BY <2>1, <2>2, <2>3 DEF Owned, SameTidy
    <3> QED
      BY <2>1, <2>3, <2>4, <3>1, <3>2, ActsIs, OwnedStays
  <2>5. CASE p \notin Coders
    BY <2>1, <2>2, <2>3, <2>5, OwnedGoesOn DEF TakesCode, Held, Serving
  <2> QED
    BY <2>4, <2>5
<1>7. ASSUME NEW p \in Procs, Record(p) \/ InstallSignalStop(p) \/ PingFails(p) \/ Unrecord(p) \/ Unmount(p)
      PROVE  Owned'
  <2>1. spot' = spot /\ codeFile' = codeFile /\ Acts(p)
    BY <1>7 DEF Record, InstallSignalStop, PingFails, Unrecord, Unmount, Acts, Begins, Ends
  <2>2. CASE PingFails(p) \/ Unrecord(p)
    <3>1. /\ proc[p].step \in Held /\ proc[p].step # "code" /\ proc'[p].step \in {"unrecord", "unmount"}
          /\ proc'[p].link = proc[p].link /\ proc'[p].wrote = proc[p].wrote
      BY <2>2, GoesIs, UnrecordIs DEF PingFails, At, Held, Serving, Steps, Ending, Like, Marks
    <3> QED
      BY <2>1, <3>1, OwnedGoesOn DEF Alive, TakesCode, TakesLink, Held, Serving
  <2>3. CASE ~(PingFails(p) \/ Unrecord(p))
    <3>1. /\ proc'[p].link = proc[p].link /\ proc'[p].wrote = proc[p].wrote
          /\ proc'[p].step \in {"handler", "loop", "cleanup"}
      BY <1>7, <2>3, RecordIs, InstallIs, UnmountStepIs DEF Like, Marks
    <3> QED
      BY <2>1, <3>1, OwnedGoesOn DEF Alive, TakesCode, TakesLink, Held, Serving
  <2> QED
    BY <2>2, <2>3
<1>8. ASSUME NEW p \in Procs, UnlinkAndStop(p) PROVE Owned'
  <2>1. /\ spot' = spot /\ Acts(p) /\ Goes(p, "release") /\ proc[p].step = "stop"
        /\ codeFile' = (IF proc[p].wrote THEN Nobody ELSE codeFile)
    BY <1>8 DEF UnlinkAndStop, Acts, Ends, At
  <2>2. Like(p) /\ proc'[p].step = "release"
    BY <2>1, GoesIs DEF Steps, Ending
  <2>3. Alive(p)' /\ ~TakesLink(p)
    BY <2>1, <2>2 DEF Alive, TakesLink, Held, Serving
  <2>4. codeFile' = p => ~proc'[p].tidy
    BY <2>1, <2>2, MountAssumption DEF Owned, TakesCode, Like, SameTidy
  <2>5. spot'.kind = "link" => \/ spot' = spot /\ spot.of # p
                               \/ spot'.of = p /\ platform = "linux" /\ ~proc'[p].tidy
    BY <2>1, <2>2, <2>3 DEF Owned, Like, SameTidy
  <2> QED
    BY <2>1, <2>3, <2>4, <2>5, ActsIs, OwnedStays
<1>9. ASSUME NEW p \in Procs, Release(p) PROVE Owned'
  <2>1. spot' = spot /\ codeFile' = codeFile /\ Acts(p)
    BY <1>9 DEF Release, Acts, Ends
  <2>2. proc[p].step = "release" /\ ~proc'[p].kernel
    BY <1>9, ReleaseIs
  <2> QED
    BY <2>1, <2>2, OwnedGoesOn DEF TakesCode, TakesLink, Held, Serving
<1>10. ASSUME NEW p \in Procs, Signalled(p), spot' = spot, codeFile' = codeFile, platform' = platform
       PROVE  Owned'
  <2>1. proc'[p].kernel => Alive(p)' \/ ~proc'[p].tidy
    BY <1>10 DEF Signalled, Alive
  <2>2. codeFile' = p => TakesCode(p)' \/ ~proc'[p].tidy
    BY <1>10, MountAssumption DEF Signalled, Owned, TakesCode, Held, Serving, Like, Marks, SameTidy
  <2>3. spot'.kind = "link" => \/ spot' = spot /\ spot.of # p
                               \/ spot'.of = p /\ platform = "linux" /\ (TakesLink(p)' \/ ~proc'[p].tidy)
    BY <1>10 DEF Signalled, Owned, TakesLink, Held, Serving, Like, Marks, SameTidy
  <2> QED
    BY <1>10, <2>1, <2>2, <2>3, OwnedStays DEF Signalled
<1>11. ASSUME NEW p \in Procs, CtrlC(p) \/ Kill(p) PROVE Owned'
  <2>1. spot' = spot /\ codeFile' = codeFile /\ platform' = platform
    BY <1>11 DEF CtrlC, Kill
  <2> QED
    BY <1>10, <1>11, <2>1, SignalIs DEF CtrlC, Kill
<1>12. ASSUME proc' = proc, codeFile' = codeFile, platform' = platform,
              spot' = spot \/ spot'.kind # "link"
       PROVE  Owned'
  BY <1>12 DEF Owned, Alive, TakesCode, TakesLink
<1>13. CASE SignalOwner
  <2> DEFINE p == unmounter.of
  <2>1. p \in Procs /\ spot' = spot /\ codeFile' = codeFile /\ platform' = platform
    BY <1>13 DEF SignalOwner, Aimed
  <2>2. proc' = proc \/ Becomes(p, Terminated(p))
    BY <1>13 DEF SignalOwner
  <2> QED
    BY <1>10, <1>12, <2>1, <2>2, SignalIs
<1>14. CASE FindRecord \/ UserEdits \/ UNCHANGED vars
  <2>1. proc' = proc /\ codeFile' = codeFile /\ platform' = platform
    BY <1>14 DEF FindRecord, UserEdits, vars
  <2>2. spot' = spot \/ spot'.kind # "link"
    BY <1>14 DEF FindRecord, UserEdits, vars, Absent, Spot, UserKinds
  <2> QED
    BY <1>12, <2>1, <2>2
<1> QED
  BY <1>1, <1>2, <1>3, <1>4, <1>5, <1>6, <1>7, <1>8, <1>9, <1>11, <1>13, <1>14 DEF Next, Begins, Ends

-----------------------------------------------------------------------------
(* Mounts: each process unmounts its own, or one for its own.              *)

LEMMA OwnUnmountedStays ==
  ASSUME TypeOK, OwnUnmounted, NEW p \in Procs, Others(p), platform' = platform,
         \A q \in Procs : q # p => (HasMount(q)' => HasMount(q)),
         platform = "linux" /\ HasMount(p)' => WillUnmount(p)'
  PROVE  OwnUnmounted'
  BY DEF OwnUnmounted, WillUnmount, Others, At

LEMMA OwnUnmountedStep == TypeOK /\ Shape /\ Aimed /\ OwnUnmounted /\ [Next]_vars => OwnUnmounted'
<1> SUFFICES ASSUME TypeOK, Shape, Aimed, OwnUnmounted, [Next]_vars PROVE OwnUnmounted'
  OBVIOUS
<1> USE DEF world, files
\* The steps that leave the mounts, of a process that still will unmount.
<1>1. ASSUME NEW p \in Procs, Acts(p), mounts' = mounts,
             HasMount(p) /\ WillUnmount(p) => WillUnmount(p)'
      PROVE  OwnUnmounted'
  <2>1. \A q \in Procs : HasMount(q)' <=> HasMount(q)
    BY <1>1, MountsStay
  <2>2. platform = "linux" /\ HasMount(p)' => WillUnmount(p)'
    BY <1>1, <2>1 DEF OwnUnmounted
  <2> QED
    BY <1>1, <2>1, <2>2, ActsIs, OwnUnmountedStays
<1>2. ASSUME NEW p \in Procs, Start(p) PROVE OwnUnmounted'
  <2>1. mounts' = mounts /\ Acts(p) /\ proc[p] = NewProcess
    BY <1>2, StartIs DEF Start, Acts, Begins
  <2>2. ~HasMount(p)
    BY <2>1 DEF Shape, Fits, Before, NewProcess
  <2> QED
    BY <1>1, <2>1, <2>2
<1>3. ASSUME NEW p \in Procs, Prepare(p) PROVE OwnUnmounted'
  <2>1. mounts' = mounts /\ Acts(p) /\ proc[p].step = "prepare"
    BY <1>3, PrepareIs DEF Prepare, Acts, Begins
  <2>2. ~HasMount(p)
    BY <2>1 DEF Shape, Fits, Before
  <2> QED
    BY <1>1, <2>1, <2>2
<1>4. ASSUME NEW p \in Procs, Mount(p) PROVE OwnUnmounted'
  <2>1. proc[p].step = "attach" /\ Acts(p) /\ ~HasMount(p)
    BY <1>4, MountIs DEF Acts, Begins, Shape, Fits, Before
  <2>2. CASE mounts' = mounts
    BY <1>1, <2>1, <2>2
  <2>3. CASE CanMount /\ mounts' = MountsWith(p) /\ mounts' # mounts
    <3>1. \A q \in Procs : q # p => (HasMount(q)' => HasMount(q))
      BY <2>1, <2>3, MountsWithIs DEF HasMount
    <3>2. WillUnmount(p)'
      BY <1>4, <2>3, MountIs DEF WillUnmount, At, Held, Serving
    <3> QED
      BY <2>1, <3>1, <3>2, ActsIs, OwnUnmountedStays
  <2> QED
    BY <1>4, <2>2, <2>3, MountIs
<1>5. ASSUME NEW p \in Procs, MakeLink(p) PROVE OwnUnmounted'
  <2>1. proc[p].step = "link" /\ Acts(p)
    BY <1>5, MakeLinkIs DEF Acts, Begins
  <2>2. CASE mounts' = mounts /\ ((proc'[p].step = "code" /\ proc'[p].handle) \/ proc'[p].refused)
    BY <1>1, <2>1, <2>2 DEF WillUnmount, Held, Serving
  <2>3. CASE mounts' = MountsWithout(p)
    <3>1. (\A q \in Procs : HasMount(q)' => HasMount(q)) /\ ~HasMount(p)'
      BY <2>3, MountsWithoutIs
    <3> QED
      BY <2>1, <3>1, ActsIs, OwnUnmountedStays
  <2> QED
    BY <1>5, <2>2, <2>3, MakeLinkIs
<1>6. ASSUME NEW p \in Procs, UndoDir(p) \/ OpenInCode(p) \/ Record(p) \/ InstallSignalStop(p) \/ PingFails(p)
                              \/ Unrecord(p) \/ Cleanup(p) \/ UnlinkAndStop(p) \/ Release(p)
      PROVE  OwnUnmounted'
  <2>1. mounts' = mounts /\ Acts(p)
    BY <1>6 DEF UndoDir, OpenInCode, Record, InstallSignalStop, PingFails, Unrecord, Cleanup,
                UnlinkAndStop, Release, Acts, Begins, Ends
  <2>2. CASE OpenInCode(p) \/ Record(p) \/ InstallSignalStop(p)
    BY <1>1, <2>1, <2>2, OpenInCodeIs, RecordIs, InstallIs
       DEF WillUnmount, At, Held, Serving, Like, Marks, SameHandle, SameTidy
  <2>3. CASE Release(p)
    <3>1. proc[p].step = "release" /\ ~proc'[p].kernel /\ SameTidy(p) /\ proc'[p].refused = proc[p].refused
      BY <2>3, ReleaseIs
    <3> QED
      BY <1>1, <2>1, <3>1 DEF WillUnmount, At, Held, Serving, SameTidy
  <2>5. CASE Unrecord(p)
    <3>1. /\ proc[p].step = "unrecord" /\ proc'[p].step = "unmount" /\ SameHandle(p) /\ SameTidy(p)
          /\ proc'[p].refused = proc[p].refused
      BY <2>5, UnrecordIs
    <3> QED
      BY <1>1, <2>1, <3>1 DEF WillUnmount, At, Held, Serving, SameHandle, SameTidy
  <2>4. CASE UndoDir(p) \/ PingFails(p) \/ Cleanup(p) \/ UnlinkAndStop(p)
    <3>1. PICK step \in {"unrecord", "stop", "release"} : Goes(p, step)
      BY <2>4 DEF UndoDir, PingFails, Cleanup, UnlinkAndStop
    <3>2. Like(p) /\ proc'[p].step = step
      BY <3>1, GoesIs DEF Steps, Ending
    <3>3. CASE PingFails(p)
      <4>1. proc[p].step # "link" /\ proc'[p].step = "unrecord"
        BY <3>3, GoesIs DEF PingFails, At, Steps, Ending
      <4> QED
        BY <1>1, <2>1, <3>2, <4>1 DEF WillUnmount, At, Held, Serving, Like, Marks, SameHandle, SameTidy
    <3>4. CASE UndoDir(p) \/ Cleanup(p) \/ UnlinkAndStop(p)
      <4>1. proc[p].step \in {"undo", "cleanup", "stop"}
        BY <3>4 DEF UndoDir, Cleanup, UnlinkAndStop, At
      <4> QED
        BY <1>1, <2>1, <3>2, <4>1 DEF WillUnmount, At, Held, Serving, Like, Marks, SameHandle, SameTidy
    <3> QED
      BY <2>4, <3>3, <3>4
  <2> QED
    BY <1>6, <2>2, <2>3, <2>4, <2>5
<1>7. ASSUME NEW p \in Procs, Unmount(p) PROVE OwnUnmounted'
  <2>1. Acts(p)
    BY <1>7 DEF Acts, Ends
  <2>2. CASE mounts' = mounts /\ ((~proc[p].handle /\ SameTidy(p)) \/ ~proc'[p].tidy)
    <3>1. Marks(p) /\ proc[p].step = "unmount"
      BY <1>7, UnmountStepIs
    <3> QED
      BY <1>1, <2>1, <2>2, <3>1 DEF WillUnmount, At, SameTidy, Marks
  <2>3. CASE mounts' = Unmounted(p)
    <3>1. \A q \in Procs : HasMount(q)' => HasMount(q)
      BY <2>3, UnmountedIs, FewerMounts
    <3>2. platform = "linux" => ~HasMount(p)'
      BY <2>3, MountsWithoutIs DEF Unmounted
    <3> QED
      BY <2>1, <3>1, <3>2, ActsIs, OwnUnmountedStays
  <2> QED
    BY <1>7, <2>2, <2>3, UnmountStepIs
<1>8. ASSUME NEW p \in Procs, Signalled(p), mounts' = mounts, platform' = platform
      PROVE  OwnUnmounted'
  <2>1. \A q \in Procs : HasMount(q)' <=> HasMount(q)
    BY <1>8, MountsStay
  <2>2. HasMount(p)' /\ platform = "linux" => WillUnmount(p)'
    BY <1>8, <2>1 DEF OwnUnmounted, Signalled, WillUnmount, At, Held, Serving, Like, Marks, SameHandle, SameTidy
  <2> QED
    BY <1>8, <2>1, <2>2, OwnUnmountedStays DEF Signalled
<1>9. ASSUME NEW p \in Procs, CtrlC(p) \/ Kill(p) PROVE OwnUnmounted'
  <2>1. mounts' = mounts /\ platform' = platform
    BY <1>9 DEF CtrlC, Kill
  <2> QED
    BY <1>8, <1>9, <2>1, SignalIs DEF CtrlC, Kill
<1>10. ASSUME proc' = proc, mounts' = mounts, platform' = platform PROVE OwnUnmounted'
  BY <1>10, MountsStay DEF OwnUnmounted, WillUnmount, At
<1>11. CASE SignalOwner
  <2> DEFINE p == unmounter.of
  <2>1. p \in Procs /\ mounts' = mounts /\ platform' = platform
    BY <1>11 DEF SignalOwner, Aimed
  <2>2. proc' = proc \/ Becomes(p, Terminated(p))
    BY <1>11 DEF SignalOwner
  <2> QED
    BY <1>8, <1>10, <2>1, <2>2, SignalIs
<1>12. CASE FindRecord \/ UserEdits \/ UNCHANGED vars
  BY <1>10, <1>12 DEF FindRecord, UserEdits, vars
<1> QED
  BY <1>2, <1>3, <1>4, <1>5, <1>6, <1>7, <1>9, <1>11, <1>12 DEF Next, Begins, Ends

LEMMA PendingFinite == IsFiniteSet(Pending) /\ IsFiniteSet(Pending') /\ Cardinality(Pending) \in Nat
<1>1. Pending \subseteq Procs /\ Pending' \subseteq Procs
  BY DEF Pending
<1> QED
  BY <1>1, MountAssumption, FS_Subset, FS_CardinalityType

\* A step that leaves the mounts and who is to unmount.
LEMMA CountedStays ==
  ASSUME Counted, NEW p \in Procs, Others(p), proc'[p].tidy => proc[p].tidy, platform' = platform,
         proc'[p].tidy => mounts' = mounts /\ (p \in Pending' <=> p \in Pending)
  PROVE  Counted'
<1> SUFFICES ASSUME platform = "darwin", AllTidy' PROVE Len(mounts') = Cardinality(Pending')
  BY DEF Counted
<1>1. AllTidy /\ proc'[p].tidy
  BY DEF AllTidy, Others
<1>2. Pending' = Pending
  BY <1>1 DEF Pending, Others
<1> QED
  BY <1>1, <1>2 DEF Counted

LEMMA CountedStep == TypeOK /\ Shape /\ Aimed /\ Counted /\ [Next]_vars => Counted'
<1> SUFFICES ASSUME TypeOK, Shape, Aimed, Counted, [Next]_vars PROVE Counted'
  OBVIOUS
<1> USE DEF world, files
<1>0. \A p \in Procs : proc[p].step \in Before \cup {"undo"} => ~proc[p].handle
  BY DEF Shape, Fits
<1>1. ASSUME NEW p \in Procs, Acts(p), mounts' = mounts, proc'[p].tidy => (p \in Pending' <=> p \in Pending)
      PROVE  Counted'
  BY <1>1, ActsIs, CountedStays
\* The steps on which a process without a handle gets none.
<1>2. ASSUME NEW p \in Procs, Start(p) \/ Prepare(p) \/ UndoDir(p) PROVE Counted'
  <2>1. mounts' = mounts /\ Acts(p)
    BY <1>2 DEF Start, Prepare, UndoDir, Acts, Begins
  <2>2. ~proc[p].handle
    BY <1>0, <1>2 DEF Start, Prepare, UndoDir, At, Before
  <2>3. SameHandle(p)
    <3>1. CASE UndoDir(p)
      BY <3>1, GoesIs DEF UndoDir, Like, Steps, Ending
    <3> QED
      BY <1>2, <3>1, StartIs, PrepareIs DEF Like
  <2> QED
    BY <1>1, <2>1, <2>2, <2>3 DEF Pending, SameHandle
<1>3. ASSUME NEW p \in Procs, Mount(p) PROVE Counted'
  <2>1. /\ proc[p].step = "attach" /\ Acts(p) /\ ~HasMount(p) /\ ~proc[p].handle /\ Others(p)
        /\ p \notin Pending /\ platform' = platform /\ (proc'[p].tidy => proc[p].tidy)
    BY <1>3, MountIs, ActsIs DEF Acts, Begins, Shape, Fits, Before, Pending
  <2>2. CASE mounts' = mounts /\ SameHandle(p)
    BY <1>1, <2>1, <2>2 DEF Pending, SameHandle
  <2>3. CASE ~proc'[p].tidy
    BY <2>1, <2>3, CountedStays
  <2>4. CASE platform = "linux"
    BY <2>1, <2>4 DEF Counted
  <2>5. CASE CanMount /\ mounts' = MountsWith(p) /\ proc'[p].step = "code" /\ proc'[p].handle
    <3>1. Len(mounts') = Len(mounts) + 1
      BY <2>1, <2>5, MountsWithIs
    <3>2. Pending' = Pending \cup {p}
      BY <2>1, <2>5 DEF Pending, Others, Held, Serving
    <3>3. Cardinality(Pending') = Cardinality(Pending) + 1
      BY <2>1, <3>2, PendingFinite, FS_AddElement
    <3>4. AllTidy' => AllTidy
      BY <2>1 DEF AllTidy, Others
    <3> QED
      BY <2>1, <3>1, <3>3, <3>4 DEF Counted
  <2> QED
    BY <1>3, <2>2, <2>3, <2>4, <2>5, MountIs
<1>4. ASSUME NEW p \in Procs, MakeLink(p) PROVE Counted'
  <2>1. platform' = platform /\ platform = "linux"
    BY <1>4 DEF MakeLink, Shape, Fits, At
  <2> QED
    BY <2>1 DEF Counted
\* The steps on which a process goes on to its unmount.
<1>5. ASSUME NEW p \in Procs, OpenInCode(p) \/ Record(p) \/ InstallSignalStop(p) \/ PingFails(p) \/ Unrecord(p)
      PROVE  Counted'
  <2>1. mounts' = mounts /\ Acts(p)
    BY <1>5 DEF OpenInCode, Record, InstallSignalStop, PingFails, Unrecord, Acts, Begins, Ends
  <2>2. SameHandle(p) /\ proc[p].step \in Held /\ proc'[p].step \in Held
    <3>1. CASE PingFails(p) \/ Unrecord(p)
      BY <3>1, GoesIs, UnrecordIs DEF PingFails, At, Like, Held, Serving, Steps, Ending
    <3> QED
      BY <1>5, <3>1, OpenInCodeIs, RecordIs, InstallIs DEF Like, Held, Serving
  <2> QED
    BY <1>1, <2>1, <2>2 DEF Pending, SameHandle
<1>6. ASSUME NEW p \in Procs, Unmount(p) PROVE Counted'
  <2>1. /\ proc[p].step = "unmount" /\ proc'[p].step = "cleanup" /\ Acts(p) /\ Others(p) /\ SameHandle(p)
        /\ platform' = platform /\ (proc'[p].tidy => proc[p].tidy)
    BY <1>6, UnmountStepIs, ActsIs DEF Acts, Ends
  <2>2. p \notin Pending'
    BY <2>1 DEF Pending, Held, Serving
  <2>3. CASE mounts' = mounts /\ ~proc[p].handle
    BY <1>1, <2>1, <2>2, <2>3 DEF Pending
  <2>4. CASE ~proc'[p].tidy
    BY <2>1, <2>4, CountedStays
  <2>5. CASE proc[p].handle /\ mounts' = Unmounted(p)
    <3> SUFFICES ASSUME platform = "darwin", AllTidy' PROVE Len(mounts') = Cardinality(Pending')
      BY <2>1 DEF Counted
    <3>1. AllTidy
      BY <2>1 DEF AllTidy, Others
    <3>2. p \in Pending /\ Pending' = Pending \ {p}
      BY <2>1, <2>2, <2>5 DEF Pending, Others, Held
    <3>3. Cardinality(Pending') = Cardinality(Pending) - 1
      BY <3>2, PendingFinite, FS_RemoveElement
    <3>4. Cardinality(Pending) # 0
      BY <3>2, PendingFinite, FS_EmptySet
    <3>5. mounts # <<>> /\ mounts \in Seq(MountSet)
      BY <3>1, <3>4 DEF Counted, TypeOK, MountSet
    <3>6. Len(Tail(mounts)) = Len(mounts) - 1
      BY <3>5
    <3> QED
      BY <2>5, <3>1, <3>3, <3>5, <3>6 DEF Counted, Unmounted
  <2> QED
    BY <1>6, <2>3, <2>4, <2>5, UnmountStepIs
<1>7. ASSUME NEW p \in Procs, Cleanup(p) \/ UnlinkAndStop(p) \/ Release(p) PROVE Counted'
  <2>1. mounts' = mounts /\ Acts(p) /\ proc[p].step \in {"cleanup", "stop", "release"}
    BY <1>7 DEF Cleanup, UnlinkAndStop, Release, At, Acts, Ends
  <2>2. proc'[p].step \in {"stop", "release", "gone"}
    BY <1>7, GoesIs, ReleaseIs DEF Cleanup, UnlinkAndStop, Steps, Ending
  <2> QED
    BY <1>1, <2>1, <2>2 DEF Pending, Held, Serving
<1>8. ASSUME NEW p \in Procs, Signalled(p), mounts' = mounts, platform' = platform
      PROVE  Counted'
  <2>1. proc'[p].tidy => proc[p].tidy /\ (p \in Pending' <=> p \in Pending)
    BY <1>8 DEF Signalled, Pending, Held, Serving, Like, SameHandle, SameTidy
  <2> QED
    BY <1>8, <2>1, CountedStays DEF Signalled
<1>9. ASSUME NEW p \in Procs, CtrlC(p) \/ Kill(p) PROVE Counted'
  <2>1. mounts' = mounts /\ platform' = platform
    BY <1>9 DEF CtrlC, Kill
  <2> QED
    BY <1>8, <1>9, <2>1, SignalIs DEF CtrlC, Kill
<1>10. ASSUME proc' = proc, mounts' = mounts, platform' = platform PROVE Counted'
  <2>1. Pending' = Pending
    BY <1>10 DEF Pending
  <2> QED
    BY <1>10, <2>1 DEF Counted, AllTidy
<1>11. CASE SignalOwner
  <2> DEFINE p == unmounter.of
  <2>1. p \in Procs /\ mounts' = mounts /\ platform' = platform
    BY <1>11 DEF SignalOwner, Aimed
  <2>2. proc' = proc \/ Becomes(p, Terminated(p))
    BY <1>11 DEF SignalOwner
  <2> QED
    BY <1>8, <1>10, <2>1, <2>2, SignalIs
<1>12. CASE FindRecord \/ UserEdits \/ UNCHANGED vars
  BY <1>10, <1>12 DEF FindRecord, UserEdits, vars
<1> QED
  BY <1>2, <1>3, <1>4, <1>5, <1>6, <1>7, <1>9, <1>11, <1>12 DEF Next, Begins, Ends

-----------------------------------------------------------------------------
(* The folder that jp made or took.                                        *)

\* The folder is empty, as jp left it, and every jp live can be relied on.
Orderly ==
    /\ platform = "darwin" /\ AllTidy /\ spot.kind = "empty"
    /\ \A q \in Procs : ~proc[q].explicit
    /\ \E q \in Procs : proc[q].handle

LEMMA MindedGoesOn ==
  ASSUME Minded, NEW p \in Procs, Others(p), platform' = platform,
         proc'[p].tidy => proc[p].tidy,
         ~proc'[p].explicit => ~proc[p].explicit,
         Orderly' => /\ spot' = spot /\ SameHandle(p)
                     /\ Minds(p) => Minds(p)'
  PROVE  Minded'
<1> SUFFICES ASSUME Orderly' PROVE \E q \in Procs : Minds(q)'
  BY DEF Minded, Orderly
<1>1. AllTidy
  BY DEF AllTidy, Others, Orderly
<1>2. \A q \in Procs : ~proc[q].explicit
  BY DEF Others, Orderly
<1>3. \E q \in Procs : proc[q].handle
  BY DEF Others, Orderly, SameHandle
<1>4. PICK q \in Procs : Minds(q)
  BY <1>1, <1>2, <1>3 DEF Orderly, Minded
<1>5. Minds(q)'
  BY <1>4 DEF Minds, Others
<1> QED
  BY <1>5

\* While something is mounted there is a process that is to unmount.
LEMMA OthersMind ==
  ASSUME TypeOK, Counted, NEW p \in Procs, Others(p), p \notin Pending,
         platform = "darwin", AllTidy, mounts # <<>>
  PROVE  \E q \in Procs : Minds(q)'
<1>1. mounts \in Seq(MountSet)
  BY DEF TypeOK, MountSet
<1>2. Len(mounts) # 0
  BY <1>1
<1>3. Pending # {}
  BY <1>2, FS_EmptySet DEF Counted
<1>4. PICK q \in Pending : TRUE
  BY <1>3
<1>5. q \in Procs /\ Minds(q)'
  BY <1>4 DEF Pending, Others, Minds
<1> QED
  BY <1>5

LEMMA MindedStep == TypeOK /\ Shape /\ Aimed /\ Counted /\ Minded /\ [Next]_vars => Minded'
<1> SUFFICES ASSUME TypeOK, Shape, Aimed, Counted, Minded, [Next]_vars PROVE Minded'
  OBVIOUS
<1> USE DEF world, files
<1>1. ASSUME NEW p \in Procs, Start(p) PROVE Minded'
  <2>1. Acts(p) /\ spot' = spot /\ proc[p] = NewProcess /\ SameHandle(p)
    BY <1>1, StartIs DEF Start, Acts, Begins
  <2> QED
    BY <2>1, ActsIs, MindedGoesOn DEF Minds, NewProcess
<1>2. ASSUME NEW p \in Procs, Prepare(p) PROVE Minded'
  <2>1. Acts(p) /\ Like(p) /\ proc[p].step = "prepare"
    BY <1>2, PrepareIs DEF Acts, Begins
  <2>2. CASE proc'[p].step = "attach"
    BY <2>2 DEF Minded, Minds
  <2>3. CASE proc'[p].step # "attach"
    <3>1. platform = "darwin" => spot' = spot \/ proc[p].explicit
      BY <1>2, <2>3, PrepareIs DEF Prepare
    <3>2. Orderly' => spot' = spot
      BY <2>1, <3>1, ActsIs DEF Orderly, Like, Marks
    <3>3. ~Minds(p) /\ SameHandle(p) /\ proc'[p].explicit = proc[p].explicit
      BY <2>1 DEF Minds, Like, Marks, Shape, Fits, Before
    <3> QED
      BY <2>1, <3>2, <3>3, ActsIs, MindedGoesOn
  <2> QED
    BY <2>2, <2>3
<1>3. ASSUME NEW p \in Procs, Mount(p) PROVE Minded'
  <2>1. platform' = platform /\ Marks(p)
    BY <1>3, MountIs DEF Mount
  <2>2. Orderly' => Minds(p)'
    BY <1>3, <2>1, MountIs DEF Orderly, Minds, Marks, MountFails, Held, Serving
  <2> QED
    BY <2>2 DEF Minded, Orderly
<1>4. ASSUME NEW p \in Procs, MakeLink(p) PROVE Minded'
  <2>1. platform' = platform /\ platform = "linux"
    BY <1>4 DEF MakeLink, Shape, Fits, At
  <2> QED
    BY <2>1 DEF Minded
\* The two steps that remove an empty folder that nothing is mounted on.
<1>5. ASSUME NEW p \in Procs, UndoDir(p) \/ Cleanup(p) PROVE Minded'
  <2>1. /\ Acts(p) /\ Like(p) /\ proc[p].step \in {"undo", "cleanup"} /\ p \notin Pending
        /\ proc'[p].step \in {"unrecord", "stop"}
    BY <1>5, GoesIs DEF UndoDir, Cleanup, At, Acts, Begins, Ends, Steps, Ending, Pending, Held, Serving
  <2>2. ~proc[p].link \/ platform # "darwin"
    BY DEF Shape, Fits
  <2>3. CASE RmdirIfEmpty
    <3> SUFFICES ASSUME Orderly' PROVE \E q \in Procs : Minds(q)'
      BY DEF Minded, Orderly
    <3>1. mounts # <<>>
      BY <2>3 DEF RmdirIfEmpty, Orderly, Absent, Spot
    <3>2. AllTidy /\ platform = "darwin"
      BY <2>1, ActsIs DEF AllTidy, Others, Orderly
    <3> QED
      BY <2>1, <3>1, <3>2, ActsIs, OthersMind
  <2>4. CASE ~RmdirIfEmpty
    <3>1. /\ Cleanup(p) /\ proc[p].step = "cleanup"
          /\ ~(proc[p].handle /\ ~proc[p].explicit /\ platform = "darwin")
          /\ spot' = IF proc[p].link /\ spot.kind \in {"link", "foreign"} THEN Absent ELSE spot
      BY <1>5, <2>4 DEF UndoDir, Cleanup, At
    <3>2. Orderly' => spot' = spot /\ ~Minds(p)
      BY <2>1, <2>2, <3>1, ActsIs DEF Orderly, Minds, Like, Marks
    <3> QED
      BY <2>1, <3>2, ActsIs, MindedGoesOn DEF Like, Marks
  <2> QED
    BY <2>3, <2>4
<1>6. ASSUME NEW p \in Procs, OpenInCode(p) \/ Record(p) \/ InstallSignalStop(p) \/ PingFails(p) \/ Unrecord(p)
                              \/ Unmount(p)
      PROVE  Minded'
  <2>1. spot' = spot /\ Acts(p)
    BY <1>6 DEF OpenInCode, Record, InstallSignalStop, PingFails, Unrecord, Unmount, Acts, Begins, Ends
  <2>2. /\ SameHandle(p) /\ proc[p].step \in Held /\ proc'[p].step \in Held \cup {"cleanup"}
        /\ proc'[p].explicit = proc[p].explicit
    <3>1. CASE PingFails(p) \/ Unrecord(p)
      BY <3>1, GoesIs, UnrecordIs DEF PingFails, At, Like, Marks, Held, Serving, Steps, Ending
    <3> QED
      BY <1>6, <3>1, OpenInCodeIs, RecordIs, InstallIs, UnmountStepIs DEF Like, Marks, Held, Serving
  <2>3. Minds(p) => Minds(p)'
    BY <2>2 DEF Minds, Held, Serving, SameHandle
  <2> QED
    BY <2>1, <2>2, <2>3, ActsIs, MindedGoesOn
<1>7. ASSUME NEW p \in Procs, UnlinkAndStop(p) \/ Release(p) PROVE Minded'
  <2>1. spot' = spot /\ Acts(p) /\ proc[p].step \in {"stop", "release"}
    BY <1>7 DEF UnlinkAndStop, Release, At, Acts, Ends
  <2>2. SameHandle(p) /\ proc'[p].explicit = proc[p].explicit
    BY <1>7, GoesIs, ReleaseIs DEF UnlinkAndStop, Like, Marks, Steps, Ending
  <2>3. ~Minds(p)
    BY <2>1 DEF Minds, Held, Serving
  <2> QED
    BY <2>1, <2>2, <2>3, ActsIs, MindedGoesOn
<1>8. ASSUME NEW p \in Procs, Signalled(p), spot' = spot, platform' = platform
      PROVE  Minded'
  <2>1. proc'[p].tidy => proc[p].tidy /\ (Minds(p) => Minds(p)')
    BY <1>8 DEF Signalled, Minds, Held, Serving, Like, SameHandle, SameTidy
  <2>2. Orderly' => proc'[p].tidy
    BY DEF Orderly, AllTidy
  <2> QED
    BY <1>8, <2>1, <2>2, MindedGoesOn DEF Signalled
<1>9. ASSUME NEW p \in Procs, CtrlC(p) \/ Kill(p) PROVE Minded'
  <2>1. spot' = spot /\ platform' = platform
    BY <1>9 DEF CtrlC, Kill
  <2> QED
    BY <1>8, <1>9, <2>1, SignalIs DEF CtrlC, Kill
<1>10. ASSUME proc' = proc, platform' = platform, spot' = spot \/ spot'.kind # "empty" PROVE Minded'
  BY <1>10 DEF Minded, Minds, AllTidy
<1>11. CASE SignalOwner
  <2> DEFINE p == unmounter.of
  <2>1. p \in Procs /\ spot' = spot /\ platform' = platform
    BY <1>11 DEF SignalOwner, Aimed
  <2>2. proc' = proc \/ Becomes(p, Terminated(p))
    BY <1>11 DEF SignalOwner
  <2> QED
    BY <1>8, <1>10, <2>1, <2>2, SignalIs
<1>12. CASE FindRecord \/ UserEdits \/ UNCHANGED vars
  <2>1. spot' = spot \/ spot'.kind # "empty"
    BY <1>12 DEF FindRecord, UserEdits, vars, Absent, Spot, UserKinds
  <2> QED
    BY <1>10, <1>12, <2>1 DEF FindRecord, UserEdits, vars
<1> QED
  BY <1>1, <1>2, <1>3, <1>4, <1>5, <1>6, <1>7, <1>9, <1>11, <1>12 DEF Next, Begins, Ends

-----------------------------------------------------------------------------
LEMMA LeftInvInit == Init => LeftInv
<1> SUFFICES ASSUME Init PROVE LeftInv
  OBVIOUS
<1>1. Owned
  BY DEF Init, Owned, NewProcess, Absent, Spot
<1>2. OwnUnmounted
  BY DEF Init, OwnUnmounted, HasMount
<1>3. Counted
  <2>1. Pending = {}
    BY DEF Init, Pending, NewProcess
  <2> QED
    BY <2>1, FS_EmptySet DEF Init, Counted
<1>4. Minded
  BY DEF Init, Minded, NewProcess
<1> QED
  BY <1>1, <1>2, <1>3, <1>4, StrayInvCorrect DEF LeftInv

LEMMA NothingLeft == LeftInv => NothingLeftBehind
<1> SUFFICES ASSUME LeftInv, AllEnded, \A p \in Procs : InOrder(p) /\ ~proc[p].refused
             PROVE  /\ records = {} /\ codeFile \notin Procs /\ spot.kind # "link"
                    /\ platform # "win" => mounts = <<>>
                    /\ \A p \in Procs : ~proc[p].kernel
                    /\ (/\ platform = "darwin"
                        /\ \A p \in Procs : ~proc[p].explicit
                        /\ \E p \in Procs : proc[p].handle) => spot.kind # "empty"
  BY DEF NothingLeftBehind
<1> USE DEF LeftInv, StrayInv, MountInv, AllEnded, InOrder
<1>1. records = {}
  <2> SUFFICES ASSUME NEW r \in records PROVE FALSE
    OBVIOUS
  <2>1. r.pid \in Procs /\ Kept(r)
    BY DEF TypeOK, Recorded
  <2> QED
    BY <2>1 DEF Kept, TakesRecord
<1>2. codeFile \notin Procs
  BY MountAssumption DEF Owned, TakesCode, Held, Serving
<1>3. spot.kind # "link"
  BY DEF Owned, TakesLink, Held, Serving
<1>4. platform # "win" => mounts = <<>>
  <2>1. mounts \in Seq(MountSet)
    BY DEF TypeOK, MountSet
  <2>2. CASE platform = "linux"
    <3> SUFFICES ASSUME mounts # <<>> PROVE FALSE
      BY <2>2
    <3>1. 1 \in DOMAIN mounts
      BY <2>1
    <3>2. mounts[1].of \in Procs /\ HasMount(mounts[1].of)
      BY <3>1, OwnersAreProcs DEF HasMount
    <3> QED
      BY <2>2, <3>2 DEF OwnUnmounted, WillUnmount, At, Held, Serving
  <2>3. CASE platform = "darwin"
    <3>1. Pending = {} /\ AllTidy
      BY DEF Pending, AllTidy, Held, Serving
    <3>2. Len(mounts) = 0
      BY <2>3, <3>1, FS_EmptySet DEF Counted
    <3> QED
      BY <2>1, <3>2
  <2> QED
    BY <2>2, <2>3, MountAssumption DEF TypeOK
<1>5. \A p \in Procs : ~proc[p].kernel
  BY DEF Owned, Alive
<1>6. (/\ platform = "darwin"
       /\ \A p \in Procs : ~proc[p].explicit
       /\ \E p \in Procs : proc[p].handle) => spot.kind # "empty"
  BY DEF Minded, Minds, AllTidy, Held, Serving
<1> QED
  BY <1>1, <1>2, <1>3, <1>4, <1>5, <1>6

\* When the processes have ended in order, however many there were and however
\* they undid one another's mounts, nothing of theirs is left (the finally
\* clauses of live.py, handle.unmount and handle.cleanup of os_mount.py).
THEOREM EndsInOrder == Spec => []NothingLeftBehind
<1>1. LeftInv /\ [Next]_vars => LeftInv'
  BY StrayInvCorrect, OwnedStep, OwnUnmountedStep, CountedStep, MindedStep DEF LeftInv, StrayInv, MountInv
<1> QED
  BY <1>1, LeftInvInit, NothingLeft, PTL DEF Spec
=============================================================================
