--------------------------- MODULE DavServerProofs ---------------------------
(***************************************************************************)
(* Theorems about DavServer, for any number of connections, requests and   *)
(* changes beside the mount.                                               *)
(***************************************************************************)
EXTENDS DavServer, SequenceTheorems, TLAPS

Busy == {"stat", "list", "act"}
\* The verbs of which the handler reads the body.
Draining == {"PUT", "LOCK", "UNLOCK", "PROPPATCH"}
\* The verbs with a handler that calls the agent.
Calling == {"GET", "HEAD", "PROPFIND", "PUT", "DELETE", "MKCOL", "MOVE"}

Connection ==
    [client: {"idle", "waiting", "gone"}, server: {"loop", "stat", "list", "act", "closed"},
     input: Seq(Token), output: Seq(Answer), req: Request, st: Nodes,
     seen: [Paths -> SUBSET Views], sizes: SUBSET Sizes, did: SUBSET Views]

\* The requests a client sends to a server that is writable or not (w).
Sendable(r, w) ==
    /\ r \in Request
    /\ r.body => r.verb \in Draining /\ r.sized /\ w
    /\ r.verb = "PUT" => r.size \in Sizes
    /\ r.verb = "MOVE" => Children(r.path) = {}
\* The requests a handler asks the agent about.
Asking(r, w) ==
    /\ Sendable(r, w) /\ r.secret /\ r.verb \in Calling
    /\ r.verb \in Writing => w
    /\ r.verb = "MOVE" => r.dest \in Paths

Head2(r) == [body |-> FALSE, of |-> r]
Body2(r) == [body |-> TRUE, of |-> r]
\* The head and the body of one request.
OneRequest(k, w) ==
    \E r \in Request : /\ Sendable(r, w)
                       /\ k.input = IF r.body THEN <<Head2(r), Body2(r)>> ELSE <<Head2(r)>>

\* Where the two ends of a connection can be at the same time: never more than
\* one request or one answer between them.
Phase(k, w) ==
    /\ k.input = <<>> \/ (OneRequest(k, w) /\ MaxRequests # 0)
    /\ k.input # <<>> => k.server = "loop" /\ k.output = <<>> /\ k.client # "idle"
    /\ k.output # <<>> => /\ k.client = "waiting" /\ k.server = "loop"
                          /\ Len(k.output) = 1 /\ Head(k.output).to = k.req.id
    /\ k.client = "idle" => k.server = "loop"
    /\ (k.client = "waiting" /\ k.server = "loop") => k.input # <<>> \/ k.output # <<>>

Missed(k, p, h) == "absent" \in k.seen[p] \/ p \in h
There(k, p) == k.seen[p] \ {"absent"} # {}
NoFolder(k, p) == p \in Paths /\ k.seen[p] \cap {"absent", "file"} # {}

\* What a request under way has seen of the tree t as it is now, and what its
\* stat has told it of an earlier one.
Informed(k, t, w, h) ==
    k.server \in Busy =>
        /\ Asking(k.req, w)
        /\ \A p \in About(k.req) \cap Paths : View(t, p) \in k.seen[p]
        /\ (k.req.verb = "GET" /\ t[k.req.path].kind = "file") => t[k.req.path].size \in k.sizes
        /\ k.server = "stat" => k.req.verb # "MKCOL"
        /\ k.server = "list" => k.req.verb = "PROPFIND"
        /\ k.server = "act" =>
             /\ k.req.verb \in {"GET", "PUT", "DELETE", "MKCOL", "MOVE"}
             /\ Probing(k.req.verb) => IF k.st = Absent THEN Missed(k, Asked(k.req), h) ELSE There(k, Asked(k.req))
             /\ k.req.verb = "GET" => k.st.kind = "file" /\ k.st.size \in k.sizes

\* AnswerWasTrue, of one connection.
Harmless(k, w) ==
    /\ k.req.verb = "DELETE" => "full" \notin k.did
    /\ (k.req.verb \in Writing /\ k.did # {}) => w /\ k.req.secret
TrueAnswer(k, status, short, h) ==
    /\ (k.req.verb \in {"PUT", "DELETE", "MKCOL", "MOVE"} /\ status \in {201, 204}) => k.did # {}
    /\ status = 404 => \/ ~k.req.secret \/ Missed(k, k.req.path, h)
                       \/ k.req.verb = "MOVE" /\ NoFolder(k, Parent(k.req.dest))
    /\ status = 409 => NoFolder(k, Parent(k.req.path))
    /\ status = 405 => There(k, k.req.path)
    /\ (status = 201 /\ k.req.verb \in {"PUT", "MOVE"}) => Missed(k, Asked(k.req), h)
    /\ (status = 204 /\ k.req.verb \in {"PUT", "MOVE"}) => There(k, Asked(k.req))
    /\ short => \E m, n \in k.sizes : m < n
Told(k, w, h) ==
    /\ Harmless(k, w)
    /\ k.output # <<>> => TrueAnswer(k, Head(k.output).status, Head(k.output).short, h)

Good(k, t, w, h) == k \in Connection /\ Phase(k, w) /\ Informed(k, t, w, h) /\ Told(k, w, h)

World ==
    /\ writable \in BOOLEAN /\ hidden \subseteq Paths /\ tree \in Trees
    /\ requests \in 0..MaxRequests /\ beside \in 0..MaxBeside
DavInv ==
    /\ World /\ conn \in [Conns -> Connection]
    /\ \A c \in Conns : Good(conn[c], tree, writable, hidden)

-----------------------------------------------------------------------------
(* The tree and the calls.                                                 *)

LEMMA PathFacts ==
  /\ Dir \in Paths /\ File \in Paths /\ Other \in Paths /\ NoPath \notin Paths
  /\ \A p \in Paths : Parent(p) \in Paths => p = File /\ Parent(p) = Dir
  /\ Parent(File) = Dir /\ Parent(Dir) = NoPath /\ Parent(Other) = NoPath /\ Parent(NoPath) = NoPath
  /\ Children(Dir) = {File} /\ Children(File) = {} /\ Children(Other) = {}
  BY DavAssumption DEF Paths, Parent, Children

LEMMA NodeFacts ==
  /\ Absent \in Nodes /\ Folder \in Nodes /\ \A n \in Sizes : FileOf(n) \in Nodes
  /\ Absent.kind = "absent" /\ Folder.kind = "dir" /\ \A n \in Sizes : FileOf(n).kind = "file" /\ FileOf(n).size = n
  /\ \A x \in Nodes : /\ x.kind \in {"absent", "dir", "file"}
                      /\ x.kind = "absent" <=> x = Absent
                      /\ x.kind = "file" => x.size \in Sizes
<1>1. /\ Absent.kind = "absent" /\ Folder.kind = "dir"
      /\ \A n \in Sizes : FileOf(n).kind = "file" /\ FileOf(n).size = n
  BY DEF Absent, Folder, FileOf
<1>2. Absent \in Nodes /\ Folder \in Nodes /\ \A n \in Sizes : FileOf(n) \in Nodes
  BY DEF Nodes
<1>3. ASSUME NEW x \in Nodes
      PROVE  /\ x.kind \in {"absent", "dir", "file"}
             /\ x.kind = "absent" <=> x = Absent
             /\ x.kind = "file" => x.size \in Sizes
  <2>1. CASE x \in {Absent, Folder}
    BY <1>1, <2>1
  <2>2. CASE \E n \in Sizes : x = FileOf(n)
    BY <1>1, <2>2
  <2> QED
    BY <2>1, <2>2 DEF Nodes
<1> QED
  BY <1>1, <1>2, <1>3

LEMMA ViewFacts ==
  ASSUME NEW t \in Trees, NEW p \in Paths
  PROVE  /\ t \in [Paths -> Nodes] /\ t[p] \in Nodes /\ WellFormed(t)
         /\ View(t, p) \in Views
         /\ t[p].kind = "file" => View(t, p) = "file"
         /\ t[p] = Absent => View(t, p) = "absent"
         /\ t[p] # Absent => View(t, p) # "absent"
         /\ t[p].kind # "dir" => View(t, p) \in {"absent", "file"}
         /\ (t[p].kind # "dir" \/ ~Full(t, p)) => View(t, p) # "full"
         /\ Full(t, p) <=> p = Dir /\ t[Dir].kind = "dir" /\ t[File].kind # "absent"
<1>1. t \in [Paths -> Nodes] /\ WellFormed(t) /\ t[p] \in Nodes
  BY DEF Trees
<1>2. Full(t, p) <=> p = Dir /\ t[Dir].kind = "dir" /\ t[File].kind # "absent"
  BY DavAssumption DEF Full, Children
<1> QED
  BY <1>1, <1>2, NodeFacts DEF View, Views, Absent

\* An operation leaves a tree, and the code it fails with is true of the tree.
LEMMA WriteFacts ==
  ASSUME NEW p \in Paths, NEW n \in Sizes, tree \in Trees
  PROVE  /\ Write(p, n).tree \in Trees
         /\ Write(p, n).code # "ok" => Write(p, n).tree = tree
         /\ Write(p, n).code = "noent" => Orphan(p)
         /\ Write(p, n).code \in {"ok", "denied", "noent", "other"}
<1>1. tree \in [Paths -> Nodes] /\ WellFormed(tree)
  BY DEF Trees
<1>2. ~Orphan(p) /\ tree[p].kind # "dir" => [tree EXCEPT ![p] = FileOf(n)] \in Trees
  <2> SUFFICES ASSUME ~Orphan(p), tree[p].kind # "dir" PROVE [tree EXCEPT ![p] = FileOf(n)] \in Trees
    OBVIOUS
  <2>1. [tree EXCEPT ![p] = FileOf(n)] \in [Paths -> Nodes]
    BY <1>1, NodeFacts
  <2>2. WellFormed([tree EXCEPT ![p] = FileOf(n)])
    BY <1>1, NodeFacts, PathFacts DEF WellFormed, Orphan
  <2> QED
    BY <2>1, <2>2 DEF Trees
<1> QED
  BY <1>2 DEF Write, Result

LEMMA MkdirFacts ==
  ASSUME NEW p \in Paths, tree \in Trees
  PROVE  /\ Mkdir(p).tree \in Trees
         /\ Mkdir(p).code # "ok" => Mkdir(p).tree = tree
         /\ Mkdir(p).code = "noent" => Orphan(p)
         /\ Mkdir(p).code = "exist" => tree[p] # Absent
         /\ Mkdir(p).code \in {"ok", "denied", "noent", "exist", "other"}
<1>1. tree \in [Paths -> Nodes] /\ WellFormed(tree)
  BY DEF Trees
<1>2. ~Orphan(p) /\ tree[p] = Absent => [tree EXCEPT ![p] = Folder] \in Trees
  <2> SUFFICES ASSUME ~Orphan(p), tree[p] = Absent PROVE [tree EXCEPT ![p] = Folder] \in Trees
    OBVIOUS
  <2>1. [tree EXCEPT ![p] = Folder] \in [Paths -> Nodes]
    BY <1>1, NodeFacts
  <2>2. WellFormed([tree EXCEPT ![p] = Folder])
    BY <1>1, NodeFacts, PathFacts DEF WellFormed, Orphan
  <2> QED
    BY <2>1, <2>2 DEF Trees
<1> QED
  BY <1>2 DEF Mkdir, Result

LEMMA StatFacts ==
  ASSUME NEW p \in Paths, tree \in Trees
  PROVE  /\ StatCode(p) \in {"ok", "denied", "noent", "other"}
         /\ StatCode(p) = "denied" => p \in hidden
         /\ StatCode(p) = "noent" => tree[p] = Absent
         /\ StatCode(p) = "ok" => tree[p] # Absent
  BY DEF StatCode

\* What is removed leaves a tree, unless it is a folder with something in it.
LEMMA RemovedIsTree ==
  ASSUME NEW t \in Trees, NEW p \in Paths, ~Full(t, p)
  PROVE  [t EXCEPT ![p] = Absent] \in Trees
<1>1. t \in [Paths -> Nodes] /\ WellFormed(t)
  BY DEF Trees
<1>2. [t EXCEPT ![p] = Absent] \in [Paths -> Nodes]
  BY <1>1, NodeFacts
<1>3. WellFormed([t EXCEPT ![p] = Absent])
  BY <1>1, NodeFacts, PathFacts, ViewFacts DEF WellFormed
<1> QED
  BY <1>2, <1>3 DEF Trees

LEMMA RemoveFacts ==
  ASSUME NEW p \in Paths, tree \in Trees, NEW result \in {Rmdir(p), Unlink(p)}
  PROVE  /\ result.tree \in Trees
         /\ result.code # "ok" => result.tree = tree
         /\ result.code = "noent" => tree[p] = Absent
         /\ result.code = "ok" => ~Full(tree, p)
         /\ result.code \in {"ok", "denied", "noent", "notempty", "other"}
<1>1. tree[p].kind # "dir" => ~Full(tree, p)
  BY ViewFacts
<1>2. ~Full(tree, p) => [tree EXCEPT ![p] = Absent] \in Trees
  BY RemovedIsTree
<1>3. CASE result = Rmdir(p)
  BY <1>2, <1>3, StatFacts DEF Rmdir, Result
<1>4. CASE result = Unlink(p)
  BY <1>1, <1>2, <1>4, StatFacts DEF Unlink, Result
<1> QED
  BY <1>3, <1>4

LEMMA RenameFacts ==
  ASSUME NEW p \in Paths, NEW q \in Paths, Children(p) = {}, tree \in Trees
  PROVE  /\ RenameTo(p, q).tree \in Trees
         /\ RenameTo(p, q).code # "ok" => RenameTo(p, q).tree = tree
         /\ RenameTo(p, q).code = "noent" => tree[p] = Absent \/ Orphan(q)
         /\ RenameTo(p, q).code \in {"ok", "denied", "noent", "notempty", "other"}
<1> DEFINE t == [tree EXCEPT ![q] = tree[p], ![p] = Absent]
<1>1. tree \in [Paths -> Nodes] /\ WellFormed(tree)
  BY DEF Trees
<1>2. ASSUME ~Orphan(q), ~Full(tree, q), tree[q] = Absent \/ tree[q].kind = tree[p].kind, tree[p] # Absent
      PROVE  t \in Trees
  <2>1. t \in [Paths -> Nodes]
    BY <1>1, NodeFacts
  <2>2. p # Dir
    BY PathFacts
  <2>3. t[Dir].kind # "dir" => t[File].kind = "absent"
    <3> SUFFICES ASSUME t[Dir].kind # "dir" PROVE t[File].kind = "absent"
      OBVIOUS
    <3>1. CASE q = Dir
      <4>1. t[Dir] = tree[p] /\ tree[p].kind # "dir"
        BY <2>2, <3>1, <1>1, PathFacts
      <4>2. tree[Dir].kind # "dir"
        BY <1>2, <4>1, <3>1, NodeFacts
      <4> QED
        BY <4>2, <1>1, <3>1, PathFacts, NodeFacts DEF WellFormed
    <3>2. CASE q # Dir
      <4>1. t[Dir] = tree[Dir]
        BY <3>2, <2>2, <1>1, PathFacts
      <4>2. q # File
        BY <1>2, <4>1, PathFacts DEF Orphan
      <4> QED
        BY <4>1, <4>2, <1>1, PathFacts, NodeFacts DEF WellFormed
    <3> QED
      BY <3>1, <3>2
  <2> QED
    BY <2>1, <2>3 DEF Trees, WellFormed
<1> HIDE DEF t
<1>3. CASE {p, q} \cap hidden # {} \/ StatCode(p) # "ok" \/ Blocked(q)
  BY <1>3, StatFacts DEF RenameTo, Result
<1>4. CASE ~({p, q} \cap hidden # {} \/ StatCode(p) # "ok" \/ Blocked(q))
  <2>1. tree[p] # Absent
    BY <1>4, StatFacts
  <2>2. RenameTo(p, q) = CASE Orphan(q) -> Result("noent", tree)
      [] tree[q] # Absent /\ tree[q].kind # tree[p].kind -> Result("other", tree)
      [] Full(tree, q) -> Result("notempty", tree)
      [] OTHER -> Result("ok", t)
    BY <1>4 DEF RenameTo, t
  <2> QED
    BY <2>1, <2>2, <1>2 DEF Result
<1> QED
  BY <1>3, <1>4

\* What a handler learns from its call, when it has failed and when it has not.
OperationTells(k, t) ==
    LET result == Operation(k) IN
    /\ result.tree \in Trees
    /\ result.code # "ok" => result.tree = t
    /\ result.code = "noent" => \/ k.req.verb \notin {"PUT", "MKCOL"} /\ t[k.req.path] = Absent
                                \/ k.req.verb = "MOVE" /\ Orphan(k.req.dest)
                                \/ k.req.verb \in {"PUT", "MKCOL"} /\ Orphan(k.req.path)
    /\ result.code = "exist" => k.req.verb = "MKCOL" /\ t[k.req.path] # Absent
    /\ (result.code = "ok" /\ k.req.verb = "DELETE") => ~Full(t, k.req.path)
    /\ (result.code = "ok" /\ k.req.verb = "GET") => t[k.req.path].kind = "file"

LEMMA RequestFacts ==
  ASSUME NEW r \in Request
  PROVE  /\ r.id \in Nat /\ r.verb \in Verbs /\ r.path \in Paths /\ r.dest \in Paths \cup {NoPath}
         /\ r.secret \in BOOLEAN /\ r.body \in BOOLEAN /\ r.sized \in BOOLEAN /\ r.size \in Sizes \cup {0}
  BY DEF Request

LEMMA OperationFacts ==
  ASSUME NEW k, NEW w, tree \in Trees, Informed(k, tree, w, hidden), k.server \in {"list", "act"}
  PROVE  OperationTells(k, tree)
<1> DEFINE r == k.req
<1>0. /\ r \in Request /\ r.path \in Paths
      /\ r.verb = "PUT" => r.size \in Sizes
      /\ r.verb = "MOVE" => Children(r.path) = {} /\ r.dest \in Paths
      /\ k.server = "list" => r.verb = "PROPFIND"
      /\ k.server = "act" => r.verb \in {"GET", "PUT", "DELETE", "MKCOL", "MOVE"}
  BY RequestFacts DEF Informed, Busy, Asking, Sendable
<1>1. CASE k.server = "list"
  <2>1. Operation(k) = Readdir(r.path) /\ r.verb = "PROPFIND"
    BY <1>0, <1>1 DEF Operation
  <2> QED
    BY <1>0, <2>1, StatFacts DEF OperationTells, Readdir, Result
<1>2. CASE k.server = "act" /\ r.verb = "GET"
  <2>1. Operation(k) = Read(r.path)
    BY <1>2 DEF Operation
  <2>2. tree[r.path] \in Nodes
    BY <1>0, ViewFacts
  <2> QED
    BY <1>0, <1>2, <2>1, <2>2, StatFacts, NodeFacts DEF OperationTells, Read, Result
<1>3. CASE k.server = "act" /\ r.verb = "PUT"
  <2>1. Operation(k) = Write(r.path, r.size)
    BY <1>3 DEF Operation
  <2> QED
    BY <1>0, <1>3, <2>1, WriteFacts DEF OperationTells
<1>4. CASE k.server = "act" /\ r.verb = "MKCOL"
  <2>1. Operation(k) = Mkdir(r.path)
    BY <1>4 DEF Operation
  <2> QED
    BY <1>0, <1>4, <2>1, MkdirFacts DEF OperationTells
<1>5. CASE k.server = "act" /\ r.verb = "DELETE"
  <2>1. Operation(k) \in {Rmdir(r.path), Unlink(r.path)}
    BY <1>5 DEF Operation
  <2> QED
    BY <1>0, <1>5, <2>1, RemoveFacts DEF OperationTells
<1>6. CASE k.server = "act" /\ r.verb = "MOVE"
  <2>1. Operation(k) = RenameTo(r.path, r.dest)
    BY <1>6 DEF Operation
  <2> QED
    BY <1>0, <1>6, <2>1, RenameFacts DEF OperationTells
<1> QED
  BY <1>0, <1>1, <1>2, <1>3, <1>4, <1>5, <1>6

-----------------------------------------------------------------------------
(* One connection.                                                         *)

LEMMA ConnectionFacts ==
  ASSUME NEW k \in Connection
  PROVE  /\ k.client \in {"idle", "waiting", "gone"} /\ k.server \in {"loop", "stat", "list", "act", "closed"}
         /\ k.input \in Seq(Token) /\ k.output \in Seq(Answer) /\ k.req \in Request /\ k.st \in Nodes
         /\ k.seen \in [Paths -> SUBSET Views] /\ k.sizes \in SUBSET Sizes /\ k.did \in SUBSET Views
  BY DEF Connection

LEMMA ClosedFacts ==
  /\ Closed \in Connection /\ Closed.client = "gone" /\ Closed.server = "closed"
  /\ Closed.input = <<>> /\ Closed.output = <<>> /\ Closed.did = {}
<1>1. NoRequest \in Request
  BY PathFacts DEF NoRequest, Request, Verbs, Reading
<1>2. [p \in Paths |-> {}] \in [Paths -> SUBSET Views]
  OBVIOUS
<1>3. <<>> \in Seq(Token) /\ <<>> \in Seq(Answer)
  OBVIOUS
<1> QED
  BY <1>1, <1>2, <1>3, NodeFacts DEF Closed, Connection

\* A connection with nothing on it and no request.
LEMMA QuietIsGood ==
  ASSUME NEW k, NEW t, NEW w, NEW h, k \in Connection, k.input = <<>>, k.output = <<>>, k.did = {},
         \/ k.server = "loop" /\ k.client \in {"idle", "gone"}
         \/ k.server = "closed" /\ k.client \in {"waiting", "gone"}
  PROVE  Good(k, t, w, h)
  BY DEF Good, Phase, Informed, Busy, Told, Harmless

LEMMA ReplyIsGood ==
  ASSUME NEW k \in Connection, NEW t, NEW w, NEW h, NEW status \in Nat, NEW short \in BOOLEAN,
         k.input = <<>>, k.output = <<>>, k.client \in {"waiting", "gone"},
         Harmless(k, w), TrueAnswer(k, status, short, h)
  PROVE  Good(Reply(k, status, short), t, w, h)
<1> DEFINE a == [to |-> k.req.id, status |-> status, short |-> short]
           s == [k EXCEPT !.server = "loop", !.output = Append(@, a)]
<1>1. CASE k.client = "gone"
  BY <1>1, ClosedFacts, QuietIsGood DEF Reply
<1>2. CASE k.client = "waiting"
  <2>1. a \in Answer
    BY ConnectionFacts, RequestFacts DEF Answer
  <2>2. Append(k.output, a) = <<a>> /\ Append(k.output, a) \in Seq(Answer)
    BY <2>1
  <2>3. /\ s \in Connection /\ s.server = "loop" /\ s.output = <<a>> /\ s.client = "waiting" /\ s.input = <<>>
        /\ s.req = k.req /\ s.did = k.did /\ s.seen = k.seen /\ s.sizes = k.sizes
    BY <1>2, <2>2 DEF Connection
  <2>4. s = Reply(k, status, short)
    BY <1>2 DEF Reply
  <2> HIDE DEF s
  <2>5. Phase(s, w)
    BY <2>3 DEF Phase
  <2>6. Informed(s, t, w, h)
    BY <2>3 DEF Informed, Busy
  <2>7. Told(s, w, h)
    BY <2>3 DEF Told, Harmless, TrueAnswer, Missed, There, NoFolder
  <2> QED
    BY <2>3, <2>4, <2>5, <2>6, <2>7 DEF Good
<1> QED
  BY <1>1, <1>2

LEMMA WholeIsGood ==
  ASSUME NEW k \in Connection, NEW t, NEW w, NEW h, NEW status \in Nat,
         k.input = <<>>, k.output = <<>>, k.client \in {"waiting", "gone"},
         Harmless(k, w), TrueAnswer(k, status, FALSE, h)
  PROVE  Good(Reply(k, status, FALSE), t, w, h)
<1>1. \A short \in BOOLEAN : TrueAnswer(k, status, short, h) => Good(Reply(k, status, short), t, w, h)
  BY ReplyIsGood
<1> QED
  BY <1>1, Zenon

-----------------------------------------------------------------------------
(* The steps: one connection changes, or the tree under all of them.       *)

LEMMA SetStep ==
  ASSUME DavInv, NEW c \in Conns, NEW k, Set(c, k), Good(k, tree, writable, hidden),
         UNCHANGED <<world, tree>>, requests' \in 0..MaxRequests, beside' \in 0..MaxBeside
  PROVE  DavInv'
<1>1. World'
  BY DEF DavInv, World, world
<1>2. conn' \in [Conns -> Connection]
  BY DEF DavInv, Set, Good
<1>3. ASSUME NEW d \in Conns PROVE Good(conn'[d], tree', writable', hidden')
  <2>1. Good(conn'[d], tree, writable, hidden)
    BY DEF DavInv, Set
  <2>2. tree' = tree /\ writable' = writable /\ hidden' = hidden
    BY DEF world
  <2> QED
    BY <2>1, <2>2
<1> QED
  BY <1>1, <1>2, <1>3 DEF DavInv

\* A connection that has seen the tree t as well.
Sees(k, t) ==
    IF k.server \notin Busy THEN k
    ELSE [k EXCEPT !.seen = [p \in Paths |-> @[p] \cup Looks(k.req, t)[p]],
                   !.sizes = @ \cup Lengths(k.req, t)]

LEMMA LooksFacts ==
  ASSUME NEW r \in Request, NEW t \in Trees
  PROVE  /\ Looks(r, t) \in [Paths -> SUBSET Views] /\ Lengths(r, t) \in SUBSET Sizes
         /\ \A p \in About(r) \cap Paths : View(t, p) \in Looks(r, t)[p]
         /\ (r.verb = "GET" /\ t[r.path].kind = "file") => t[r.path].size \in Lengths(r, t)
<1>1. Looks(r, t) \in [Paths -> SUBSET Views]
  BY ViewFacts DEF Looks
<1>2. \A p \in About(r) \cap Paths : View(t, p) \in Looks(r, t)[p]
  BY DEF Looks
<1>3. Lengths(r, t) \in SUBSET Sizes
  BY RequestFacts, ViewFacts, NodeFacts DEF Lengths
<1>4. (r.verb = "GET" /\ t[r.path].kind = "file") => t[r.path].size \in Lengths(r, t)
  BY DEF Lengths
<1> QED
  BY <1>1, <1>2, <1>3, <1>4

LEMMA SeenIsGood ==
  ASSUME NEW k, NEW t, NEW u \in Trees, NEW w, NEW h, Good(k, t, w, h)
  PROVE  Good(Sees(k, u), u, w, h)
<1>0. k \in Connection /\ Phase(k, w) /\ Informed(k, t, w, h) /\ Told(k, w, h) /\ k.req \in Request
  BY ConnectionFacts DEF Good
<1>1. CASE k.server \notin Busy
  BY <1>0, <1>1 DEF Good, Sees, Informed
<1>2. CASE k.server \in Busy
  <2> DEFINE seen == [p \in Paths |-> k.seen[p] \cup Looks(k.req, u)[p]]
             sizes == k.sizes \cup Lengths(k.req, u)
             s == [k EXCEPT !.seen = seen, !.sizes = sizes]
  <2>1. s = Sees(k, u)
    BY <1>2 DEF Sees
  <2>2. seen \in [Paths -> SUBSET Views] /\ sizes \in SUBSET Sizes
    BY <1>0, ConnectionFacts, LooksFacts
  <2>3. \A p \in Paths : k.seen[p] \subseteq seen[p] /\ Looks(k.req, u)[p] \subseteq seen[p]
    OBVIOUS
  <2>4. k.sizes \subseteq sizes /\ Lengths(k.req, u) \subseteq sizes
    OBVIOUS
  <2> HIDE DEF seen, sizes
  <2>5. /\ s \in Connection /\ s.seen = seen /\ s.sizes = sizes /\ s.client = k.client /\ s.server = k.server
        /\ s.input = k.input /\ s.output = k.output /\ s.req = k.req /\ s.st = k.st /\ s.did = k.did
    BY <1>0, <2>2 DEF Connection
  <2> HIDE DEF s
  <2>6. Phase(s, w)
    BY <1>0, <2>5 DEF Phase, OneRequest
  <2>7. s.output = <<>>
    BY <1>0, <1>2, <2>5 DEF Phase, Busy
  <2>8. Told(s, w, h)
    BY <1>0, <2>5, <2>7 DEF Told, Harmless
  <2>9. Informed(s, u, w, h)
    <3>1. Asking(s.req, w)
      BY <1>0, <1>2, <2>5 DEF Informed
    <3>2. \A p \in About(s.req) \cap Paths : View(u, p) \in s.seen[p]
      BY <1>0, <2>3, <2>5, LooksFacts
    <3>3. (s.req.verb = "GET" /\ u[s.req.path].kind = "file") => u[s.req.path].size \in s.sizes
      BY <1>0, <2>4, <2>5, LooksFacts
    <3>4. Asked(s.req) \in Paths \/ ~Probing(s.req.verb)
      BY <3>1, RequestFacts DEF Asking, Sendable, Asked, Probing
    <3>5. ASSUME NEW p \in Paths PROVE Missed(k, p, h) => Missed(s, p, h)
      BY <2>3, <2>5 DEF Missed
    <3>6. ASSUME NEW p \in Paths PROVE There(k, p) => There(s, p)
      BY <2>3, <2>5 DEF There
    <3> QED
      BY <1>0, <1>2, <2>4, <2>5, <3>1, <3>2, <3>3, <3>4, <3>5, <3>6 DEF Informed
  <2> QED
    BY <2>1, <2>5, <2>6, <2>8, <2>9 DEF Good
<1> QED
  BY <1>1, <1>2

LEMMA ChangedStep ==
  ASSUME DavInv, NEW conns, NEW t \in Trees, Changed(conns, t),
         \A d \in Conns : Good(conns[d], tree, writable, hidden),
         UNCHANGED world, requests' \in 0..MaxRequests, beside' \in 0..MaxBeside
  PROVE  DavInv'
<1>1. tree' = t /\ writable' = writable /\ hidden' = hidden
  BY DEF Changed, world
<1>2. World'
  BY <1>1 DEF DavInv, World
<1>3. conn' = [d \in Conns |-> Sees(conns[d], t)]
  BY DEF Changed, Sees, Busy
<1>4. ASSUME NEW d \in Conns
      PROVE  /\ conn'[d] = Sees(conns[d], t) /\ conn'[d] \in Connection
             /\ Good(conn'[d], tree', writable', hidden')
  <2>1. conn'[d] = Sees(conns[d], t)
    BY <1>3
  <2>2. Good(Sees(conns[d], t), t, writable, hidden)
    BY SeenIsGood
  <2> QED
    BY <1>1, <2>1, <2>2 DEF Good
<1>5. conn' \in [Conns -> Connection]
  BY <1>3, <1>4
<1> QED
  BY <1>2, <1>4, <1>5 DEF DavInv

LEMMA OpenedFacts ==
  /\ Opened \in Connection /\ Opened.client = "idle" /\ Opened.server = "loop"
  /\ Opened.input = <<>> /\ Opened.output = <<>> /\ Opened.did = {}
<1>1. Opened \in Connection
  BY ClosedFacts DEF Opened, Connection
<1> QED
  BY <1>1, ClosedFacts DEF Opened, Closed

LEMMA InitIsGood == Init => DavInv
<1> SUFFICES ASSUME Init PROVE DavInv
  OBVIOUS
<1>1. Largest \in Sizes
  BY DavAssumption DEF Largest
<1>2. tree \in Trees
  <2>1. Filled \in Trees
    BY <1>1, NodeFacts, PathFacts DEF Filled, Trees, WellFormed
  <2>2. [p \in Paths |-> Absent] \in Trees
    BY NodeFacts, PathFacts DEF Trees, WellFormed
  <2>3. [p \in Paths |-> IF p = File THEN Absent ELSE FileOf(Largest)] \in Trees
    BY <1>1, NodeFacts, PathFacts DEF Trees, WellFormed
  <2> QED
    BY <2>1, <2>2, <2>3 DEF Init, Starts
<1>3. writable \in BOOLEAN /\ hidden \subseteq Paths
  BY PathFacts DEF Init
<1>4. requests \in 0..MaxRequests /\ beside \in 0..MaxBeside
  BY DavAssumption DEF Init
<1>5. conn = [c \in Conns |-> Opened]
  BY DEF Init
<1>6. ASSUME NEW c \in Conns PROVE Good(conn[c], tree, writable, hidden)
  BY <1>5, OpenedFacts, QuietIsGood
<1> QED
  BY <1>2, <1>3, <1>4, <1>5, <1>6, OpenedFacts DEF DavInv, World

\* What Good says, taken apart.
LEMMA GoodFacts ==
  ASSUME DavInv, NEW c \in Conns
  PROVE  /\ conn[c] \in Connection /\ Phase(conn[c], writable)
         /\ Informed(conn[c], tree, writable, hidden) /\ Told(conn[c], writable, hidden)
         /\ requests \in 0..MaxRequests /\ beside \in 0..MaxBeside /\ tree \in Trees
         /\ writable \in BOOLEAN /\ hidden \subseteq Paths
         /\ conn \in [Conns -> Connection]
  BY DEF DavInv, World, Good

LEMMA ConnectKeeps ==
  ASSUME DavInv, NEW c \in Conns, Connect(c)
  PROVE  DavInv'
<1>1. Good(Opened, tree, writable, hidden)
  BY OpenedFacts, QuietIsGood
<1> QED
  BY <1>1, GoodFacts, SetStep DEF Connect

LEMMA PairConcat ==
  ASSUME NEW S, NEW a \in S, NEW b \in S
  PROVE  <<>> \o <<a>> \o <<b>> = <<a, b>>
<1>1. <<a>> \in Seq(S) /\ <<b>> \in Seq(S) /\ <<a, b>> \in Seq(S) /\ Len(<<a, b>>) = 2
  OBVIOUS
<1>2. <<>> \o <<a>> = <<a>>
  BY <1>1, ConcatEmptySeq
<1>3. <<a>> \o <<b>> \in Seq(S) /\ Len(<<a>> \o <<b>>) = 2
  BY <1>1, ConcatProperties
<1>4. ASSUME NEW i \in 1..2 PROVE (<<a>> \o <<b>>)[i] = <<a, b>>[i]
  OBVIOUS
<1>5. <<a>> \o <<b>> = <<a, b>>
  BY <1>1, <1>3, <1>4, SeqEqual
<1> QED
  BY <1>2, <1>5

LEMMA SendKeeps ==
  ASSUME BodyVerbs \subseteq Draining, UnsizedVerbs = {}, DavInv, NEW c \in Conns, Send(c)
  PROVE  DavInv'
<1>0. /\ conn[c] \in Connection /\ Phase(conn[c], writable) /\ Told(conn[c], writable, hidden)
      /\ requests \in 0..MaxRequests /\ beside \in 0..MaxBeside
  BY GoodFacts
<1>1. MaxRequests \in Nat /\ requests < MaxRequests /\ requests' = requests + 1
  BY DavAssumption DEF Send
<1>2. requests' \in 0..MaxRequests /\ requests + 1 \in Nat /\ MaxRequests # 0
  BY <1>0, <1>1
<1>3. conn[c].client = "idle" /\ conn[c].server = "loop" /\ conn[c].input = <<>> /\ conn[c].output = <<>>
  BY <1>0 DEF Send, Phase
<1>4. PICK verb \in Verbs, p \in Paths, q \in Paths, secret \in BOOLEAN, body \in BOOLEAN,
            sized \in BOOLEAN, n \in Sizes :
        LET r == [id |-> requests + 1, verb |-> verb, path |-> p,
                  dest |-> IF verb = "MOVE" /\ p # q THEN q ELSE NoPath, secret |-> secret,
                  body |-> body, sized |-> sized, size |-> IF verb = "PUT" THEN n ELSE 0]
        IN  /\ body => verb \in (IF sized THEN BodyVerbs ELSE UnsizedVerbs) /\ (verb \in Writing => writable)
            /\ sized => body
            /\ AtOnce(r) # {} => p = Dir /\ \A d \in Conns : conn[d].client # "waiting"
            /\ verb = "MOVE" => Children(p) = {}
            /\ Set(c, [conn[c] EXCEPT !.client = "waiting",
                         !.input = @ \o <<[body |-> FALSE, of |-> r]>>
                                     \o (IF body THEN <<[body |-> TRUE, of |-> r]>> ELSE <<>>)])
  BY DEF Send
<1> DEFINE r == [id |-> requests + 1, verb |-> verb, path |-> p,
                 dest |-> IF verb = "MOVE" /\ p # q THEN q ELSE NoPath, secret |-> secret,
                 body |-> body, sized |-> sized, size |-> IF verb = "PUT" THEN n ELSE 0]
           i == IF body THEN <<Head2(r), Body2(r)>> ELSE <<Head2(r)>>
           k == [conn[c] EXCEPT !.client = "waiting", !.input = i]
<1>5. /\ r \in Request /\ r.verb = verb /\ r.path = p /\ r.body = body /\ r.sized = sized
      /\ verb = "PUT" => r.size = n
  BY <1>2 DEF Request
<1>6. body => verb \in Draining /\ sized /\ writable
  BY <1>4 DEF Draining, Writing
<1>7. verb = "MOVE" => Children(p) = {}
  BY <1>4
<1>8. Set(c, [conn[c] EXCEPT !.client = "waiting",
                 !.input = <<>> \o <<Head2(r)>> \o (IF body THEN <<Body2(r)>> ELSE <<>>)])
  BY <1>3, <1>4 DEF Head2, Body2
<1> HIDE DEF r
<1>9. Sendable(r, writable)
  BY <1>5, <1>6, <1>7 DEF Sendable
<1>10. Head2(r) \in Token /\ Body2(r) \in Token
  BY <1>5 DEF Head2, Body2, Token
<1>11. i \in Seq(Token) /\ i # <<>>
  BY <1>10
<1>12. <<>> \o <<Head2(r)>> \o (IF body THEN <<Body2(r)>> ELSE <<>>) = i
  <2>1. CASE body
    BY <1>10, <2>1, PairConcat
  <2>2. CASE ~body
    BY <1>10, <2>2
  <2> QED
    BY <2>1, <2>2
<1>13. Set(c, k)
  BY <1>8, <1>12
<1>14. i = IF r.body THEN <<Head2(r), Body2(r)>> ELSE <<Head2(r)>>
  BY <1>5
<1> HIDE DEF i
<1>15. /\ k \in Connection /\ k.client = "waiting" /\ k.server = "loop" /\ k.input = i /\ k.output = <<>>
       /\ k.req = conn[c].req /\ k.did = conn[c].did
  BY <1>0, <1>3, <1>11 DEF Connection
<1> HIDE DEF k
<1>16. OneRequest(k, writable)
  BY <1>5, <1>9, <1>14, <1>15 DEF OneRequest
<1>17. Phase(k, writable)
  BY <1>2, <1>11, <1>15, <1>16 DEF Phase
<1>18. Informed(k, tree, writable, hidden)
  BY <1>15 DEF Informed, Busy
<1>19. Told(k, writable, hidden)
  BY <1>0, <1>15 DEF Told, Harmless
<1>20. Good(k, tree, writable, hidden)
  BY <1>15, <1>17, <1>18, <1>19 DEF Good
<1>21. UNCHANGED <<world, tree, beside>>
  BY DEF Send
<1>22. beside' \in 0..MaxBeside
  BY <1>0, <1>21
<1> QED
  BY <1>2, <1>13, <1>20, <1>21, <1>22, SetStep

LEMMA TailOfOne ==
  ASSUME NEW S, NEW s \in Seq(S), s # <<>>, Len(s) = 1
  PROVE  Tail(s) = <<>>
<1> DEFINE q == Tail(s)
<1>1. q \in Seq(S) /\ Len(q) = 0
  BY HeadTailProperties
<1> HIDE DEF q
<1>2. q # <<>> => Len(q) \in Nat \ {0}
  BY <1>1, EmptySeq
<1>3. q = <<>>
  BY <1>1, <1>2
<1> QED
  BY <1>3 DEF q

LEMMA TakeKeeps ==
  ASSUME DavInv, NEW c \in Conns, Take(c)
  PROVE  DavInv'
<1> DEFINE k == [Closed EXCEPT !.client = "idle", !.server = conn[c].server, !.input = conn[c].input,
                               !.output = Tail(conn[c].output)]
<1>0. /\ conn[c] \in Connection /\ Phase(conn[c], writable)
      /\ requests \in 0..MaxRequests /\ beside \in 0..MaxBeside
  BY GoodFacts
<1>1. conn[c].output # <<>> /\ conn[c].output \in Seq(Answer)
  BY <1>0, ConnectionFacts DEF Take
<1>2. conn[c].server = "loop" /\ conn[c].input = <<>> /\ Len(conn[c].output) = 1
  BY <1>0, <1>1 DEF Phase
<1>3. Tail(conn[c].output) = <<>>
  BY <1>1, <1>2, TailOfOne
<1>4. k \in Connection /\ k.client = "idle" /\ k.server = "loop" /\ k.input = <<>> /\ k.output = <<>> /\ k.did = {}
  BY <1>2, <1>3, ClosedFacts DEF Connection
<1>5. Set(c, k) /\ UNCHANGED <<world, tree, requests, beside>>
  BY DEF Take
<1> HIDE DEF k
<1>6. Good(k, tree, writable, hidden)
  BY <1>4, QuietIsGood
<1> QED
  BY <1>0, <1>5, <1>6, SetStep

LEMMA LeaveKeeps ==
  ASSUME DavInv, NEW c \in Conns, Leave(c)
  PROVE  DavInv'
<1>0. /\ conn[c] \in Connection /\ Phase(conn[c], writable) /\ Informed(conn[c], tree, writable, hidden)
      /\ Told(conn[c], writable, hidden)
      /\ requests \in 0..MaxRequests /\ beside \in 0..MaxBeside
  BY GoodFacts
<1>1. UNCHANGED <<world, tree>> /\ requests' = requests
  BY DEF Leave
<1>2. CASE conn[c].server = "closed" /\ Set(c, Closed) /\ UNCHANGED beside
  <2>1. Good(Closed, tree, writable, hidden)
    BY ClosedFacts, QuietIsGood
  <2> QED
    BY <1>0, <1>1, <1>2, <2>1, SetStep
<1>3. CASE /\ conn[c].server # "closed" /\ conn[c].client = "waiting"
           /\ beside < MaxBeside /\ beside' = beside + 1
           /\ Set(c, [conn[c] EXCEPT !.client = "gone", !.output = <<>>])
  <2> DEFINE k == [conn[c] EXCEPT !.client = "gone", !.output = <<>>]
  <2>8. <<>> \in Seq(Answer)
    OBVIOUS
  <2>9. k \in Connection
    BY <1>0, <2>8 DEF Connection
  <2>1. /\ k \in Connection /\ k.client = "gone" /\ k.output = <<>> /\ k.input = conn[c].input
        /\ k.server = conn[c].server /\ k.req = conn[c].req /\ k.st = conn[c].st
        /\ k.seen = conn[c].seen /\ k.sizes = conn[c].sizes /\ k.did = conn[c].did
    BY <1>0, <2>9 DEF Connection
  <2>2. Set(c, k)
    BY <1>3
  <2> HIDE DEF k
  <2>3. Phase(k, writable)
    BY <1>0, <1>3, <2>1 DEF Phase, OneRequest
  <2>4. Informed(k, tree, writable, hidden)
    BY <1>0, <2>1 DEF Informed, Missed, There
  <2>5. Told(k, writable, hidden)
    BY <1>0, <2>1 DEF Told, Harmless
  <2>6. Good(k, tree, writable, hidden)
    BY <2>1, <2>3, <2>4, <2>5 DEF Good
  <2>7. beside' \in 0..MaxBeside
    BY <1>0, <1>3, DavAssumption
  <2> QED
    BY <1>0, <1>1, <2>2, <2>6, <2>7, SetStep
<1> QED
  BY <1>2, <1>3 DEF Leave

LEMMA EndOfStreamKeeps ==
  ASSUME DavInv, NEW c \in Conns, EndOfStream(c)
  PROVE  DavInv'
<1>1. Good(Closed, tree, writable, hidden)
  BY ClosedFacts, QuietIsGood
<1> QED
  BY <1>1, GoodFacts, SetStep DEF EndOfStream

\* A handler that is at work has a client that waits or is gone.
LEMMA BusyFacts ==
  ASSUME DavInv, NEW c \in Conns, conn[c].server \in Busy
  PROVE  /\ conn[c].input = <<>> /\ conn[c].output = <<>> /\ conn[c].client \in {"waiting", "gone"}
         /\ Asking(conn[c].req, writable) /\ Harmless(conn[c], writable)
  BY GoodFacts, ConnectionFacts DEF Phase, Informed, Told, Busy

LEMMA CloseStep ==
  ASSUME DavInv, NEW c \in Conns, conn[c].server \in Busy, Close(c), UNCHANGED <<world, tree, requests, beside>>
  PROVE  DavInv'
<1> DEFINE k == [Closed EXCEPT !.client = conn[c].client]
<1>1. /\ k \in Connection /\ k.client \in {"waiting", "gone"} /\ k.server = "closed" /\ k.input = <<>>
      /\ k.output = <<>> /\ k.did = {}
  BY BusyFacts, ClosedFacts DEF Connection
<1>2. Set(c, k)
  BY DEF Close
<1> HIDE DEF k
<1>3. Good(k, tree, writable, hidden)
  BY <1>1, QuietIsGood
<1> QED
  BY <1>2, <1>3, GoodFacts, SetStep

\* What an error code must mean for the status made of it to be true.
CodeIsTrue(k, code, h) ==
    /\ code = "noent" => \/ k.req.verb \notin {"PUT", "MKCOL"} /\ Missed(k, k.req.path, h)
                         \/ k.req.verb = "MOVE" /\ NoFolder(k, Parent(k.req.dest))
                         \/ k.req.verb \in {"PUT", "MKCOL"} /\ NoFolder(k, Parent(k.req.path))
    /\ code = "exist" => k.req.verb = "MKCOL" /\ There(k, k.req.path)

LEMMA FailStep ==
  ASSUME DavInv, NEW c \in Conns, conn[c].server \in Busy, NEW code, CodeIsTrue(conn[c], code, hidden),
         Fails(c, code), UNCHANGED <<world, tree, requests, beside>>
  PROVE  DavInv'
<1> DEFINE k == conn[c]
           S == Status(k.req.verb, code)
<1>1. CASE S = {}
  BY <1>1, CloseStep DEF Fails
<1>2. CASE S # {}
  <2>1. PICK status \in S : Set(c, Reply(k, status, FALSE))
    BY <1>2 DEF Fails
  <2>2. status \in {403, 404, 405, 409, 412}
    BY <2>1 DEF Status
  <2>3. status = 404 => code = "noent" /\ k.req.verb \notin {"PUT", "MKCOL"}
    BY <2>1 DEF Status
  <2>4. status = 409 => code = "noent" /\ k.req.verb \in {"PUT", "MKCOL"}
    BY <2>1 DEF Status
  <2>5. status = 405 => code = "exist"
    BY <2>1 DEF Status
  <2>6. TrueAnswer(k, status, FALSE, hidden)
    BY <2>2, <2>3, <2>4, <2>5 DEF TrueAnswer, CodeIsTrue
  <2>7. Good(Reply(k, status, FALSE), tree, writable, hidden)
    <3>1. status \in Nat /\ k \in Connection
      BY <2>2, GoodFacts
    <3>2. k.input = <<>> /\ k.output = <<>> /\ k.client \in {"waiting", "gone"} /\ Harmless(k, writable)
      BY BusyFacts
    <3> QED
      BY <2>6, <3>1, <3>2, WholeIsGood, Zenon
  <2> QED
    BY <2>1, <2>7, GoodFacts, SetStep
<1> QED
  BY <1>1, <1>2

LEMMA CallFailsKeeps ==
  ASSUME DavInv, NEW c \in Conns, CallFails(c)
  PROVE  DavInv'
  BY CloseStep DEF CallFails, Busy

\* An answer that nothing has to be true for.
Plain(c, status) == Set(c, Reply(conn[c], status, FALSE))

\* The answers that tell nothing of a path: a lock granted, a list, a refusal.
Untelling == {200, 207, 403}

LEMMA PlainStep ==
  ASSUME DavInv, NEW c \in Conns, conn[c].server \in Busy, NEW status \in Untelling,
         Plain(c, status), UNCHANGED <<world, tree, requests, beside>>
  PROVE  DavInv'
<1> DEFINE k == Reply(conn[c], status, FALSE)
<1>1. TrueAnswer(conn[c], status, FALSE, hidden)
  BY DEF TrueAnswer, Untelling
<1>2. conn[c] \in Connection /\ conn[c].input = <<>> /\ conn[c].output = <<>>
  BY BusyFacts, GoodFacts
<1>3. conn[c].client \in {"waiting", "gone"} /\ Harmless(conn[c], writable)
  BY BusyFacts
<1>4. status \in Nat
  BY DEF Untelling
<1>5. Set(c, k)
  BY DEF Plain
<1>6. Good(k, tree, writable, hidden)
  BY <1>1, <1>2, <1>3, <1>4, WholeIsGood, Zenon
<1> HIDE DEF k
<1> QED
  BY <1>5, <1>6, GoodFacts, SetStep

-----------------------------------------------------------------------------
(* The handlers.                                                           *)

LEMMA ParseKeeps ==
  ASSUME DavInv, NEW c \in Conns, ParseRequest(c)
  PROVE  DavInv'
<1>0. /\ conn[c] \in Connection /\ Phase(conn[c], writable)
      /\ requests \in 0..MaxRequests /\ beside \in 0..MaxBeside /\ tree \in Trees
  BY GoodFacts
<1>1. conn[c].server = "loop" /\ conn[c].input # <<>> /\ UNCHANGED <<world, tree, requests, beside>>
  BY DEF ParseRequest
<1>2. conn[c].output = <<>> /\ conn[c].client \in {"waiting", "gone"}
  BY <1>0, <1>1, ConnectionFacts DEF Phase
<1>3. PICK r \in Request :
        /\ Sendable(r, writable)
        /\ conn[c].input = IF r.body THEN <<Head2(r), Body2(r)>> ELSE <<Head2(r)>>
  BY <1>0, <1>1 DEF Phase, OneRequest
<1>4. r.body => ReadsBody(r)
  BY <1>3 DEF Sendable, ReadsBody, Draining
<1>5. Head(conn[c].input) = Head2(r) /\ Head2(r).body = FALSE /\ Head2(r).of = r
  <2>1. Head2(r) \in Token /\ Body2(r) \in Token
    BY DEF Head2, Body2, Token, Request
  <2>2. CASE r.body
    BY <1>3, <2>1, <2>2 DEF Head2
  <2>3. CASE ~r.body
    BY <1>3, <2>1, <2>3 DEF Head2
  <2> QED
    BY <2>2, <2>3
<1> DEFINE rest == IF r.body /\ ReadsBody(r) THEN Tail(Tail(conn[c].input)) ELSE Tail(conn[c].input)
           k == [conn[c] EXCEPT !.input = rest, !.req = r, !.st = Absent, !.seen = Looks(r, tree),
                                !.sizes = Lengths(r, tree), !.did = {}]
           next == IF r.verb = "MKCOL" THEN "act" ELSE "stat"
           s == [k EXCEPT !.server = next]
<1>6. rest = <<>>
  <2>1. CASE r.body
    BY <1>3, <1>4, <2>1
  <2>2. CASE ~r.body
    BY <1>3, <2>2
  <2> QED
    BY <2>1, <2>2
<1>7. \/ AtOnce(r) # {} /\ \E status \in AtOnce(r) : Set(c, Reply(k, status, FALSE))
      \/ AtOnce(r) = {} /\ Set(c, s)
  BY <1>5 DEF ParseRequest
<1> HIDE DEF rest, next
<1>8. /\ Looks(r, tree) \in [Paths -> SUBSET Views] /\ Lengths(r, tree) \in SUBSET Sizes
      /\ \A p \in About(r) \cap Paths : View(tree, p) \in Looks(r, tree)[p]
      /\ (r.verb = "GET" /\ tree[r.path].kind = "file") => tree[r.path].size \in Lengths(r, tree)
  BY <1>0, LooksFacts
<1>9. /\ k \in Connection /\ k.input = <<>> /\ k.output = <<>> /\ k.client = conn[c].client
      /\ k.server = "loop" /\ k.req = r /\ k.st = Absent /\ k.seen = Looks(r, tree)
      /\ k.sizes = Lengths(r, tree) /\ k.did = {}
  <2>1. <<>> \in Seq(Token)
    OBVIOUS
  <2>2. k \in Connection
    BY <1>0, <1>6, <1>8, <2>1, NodeFacts DEF Connection
  <2> QED
    BY <1>0, <1>1, <1>2, <1>6, <2>2 DEF Connection
<1>10. next \in {"act", "stat"}
  BY DEF next
<1>11. /\ s \in Connection /\ s.input = <<>> /\ s.output = <<>> /\ s.client = conn[c].client
       /\ s.server = next /\ s.req = r /\ s.st = Absent /\ s.seen = Looks(r, tree)
       /\ s.sizes = Lengths(r, tree) /\ s.did = {}
  <2>1. s \in Connection
    BY <1>9, <1>10 DEF Connection
  <2> HIDE DEF k
  <2> QED
    BY <1>9, <1>10, <2>1 DEF Connection
<1> HIDE DEF k, s
<1>12. CASE AtOnce(r) # {} /\ \E status \in AtOnce(r) : Set(c, Reply(k, status, FALSE))
  <2>1. PICK status \in AtOnce(r) : Set(c, Reply(k, status, FALSE))
    BY <1>12
  <2>2. /\ status \in {200, 204, 207, 400, 403, 404, 411}
        /\ status = 404 => ~r.secret
        /\ status = 204 => r.verb = "UNLOCK"
    BY DEF AtOnce
  <2>3. TrueAnswer(k, status, FALSE, hidden)
    BY <1>9, <2>2 DEF TrueAnswer
  <2>4. Harmless(k, writable)
    BY <1>9 DEF Harmless
  <2>5. Good(Reply(k, status, FALSE), tree, writable, hidden)
    <3>1. status \in Nat /\ k.client \in {"waiting", "gone"}
      BY <1>2, <1>9, <2>2
    <3> QED
      BY <1>9, <2>3, <2>4, <3>1, WholeIsGood, Zenon
  <2> QED
    BY <1>0, <1>1, <2>1, <2>5, SetStep
<1>13. CASE AtOnce(r) = {} /\ Set(c, s)
  <2>1. Asking(r, writable)
    BY <1>3, <1>13, RequestFacts DEF Asking, AtOnce, Calling, Verbs, Reading, Writing
  <2>2. Phase(s, writable)
    BY <1>2, <1>10, <1>11 DEF Phase
  <2>3. s.server \in Busy /\ (s.server = "stat" => r.verb # "MKCOL") /\ (s.server = "act" => r.verb = "MKCOL")
        /\ s.server # "list"
    BY <1>11 DEF next, Busy
  <2>4. Informed(s, tree, writable, hidden)
    BY <1>8, <1>11, <2>1, <2>3 DEF Informed, Probing
  <2>5. Told(s, writable, hidden)
    BY <1>11 DEF Told, Harmless
  <2>6. Good(s, tree, writable, hidden)
    BY <1>11, <2>2, <2>4, <2>5 DEF Good
  <2> QED
    BY <1>0, <1>1, <1>13, <2>6, SetStep
<1> QED
  BY <1>7, <1>12, <1>13

\* The target of the probe is one of the paths looked at.
LEMMA AskedFacts ==
  ASSUME NEW r, NEW w, Asking(r, w)
  PROVE  /\ r \in Request /\ r.verb \in Calling /\ r.path \in Paths /\ r.path \in About(r) /\ Asked(r) \in Paths
         /\ Asked(r) \in About(r) /\ Parent(r.path) \in About(r) /\ Parent(r.dest) \in About(r)
         /\ r.verb # "MOVE" => Asked(r) = r.path
  BY RequestFacts DEF Asking, Sendable, Asked, About

LEMMA SeenFacts ==
  ASSUME DavInv, NEW c \in Conns, conn[c].server \in Busy, NEW p \in About(conn[c].req) \cap Paths
  PROVE  /\ tree[p] = Absent => Missed(conn[c], p, hidden)
         /\ tree[p] # Absent => There(conn[c], p)
         /\ tree[p].kind # "dir" => NoFolder(conn[c], p)
<1>1. View(tree, p) \in conn[c].seen[p]
  BY GoodFacts DEF Informed
<1> QED
  BY <1>1, GoodFacts, ViewFacts DEF Missed, There, NoFolder

LEMMA OrphanFacts ==
  ASSUME DavInv, NEW c \in Conns, conn[c].server \in Busy, NEW p, Parent(p) \in About(conn[c].req), Orphan(p)
  PROVE  NoFolder(conn[c], Parent(p))
  BY SeenFacts DEF Orphan

LEMMA StatKeeps ==
  ASSUME DavInv, NEW c \in Conns, Stat(c)
  PROVE  DavInv'
<1> DEFINE r == conn[c].req
           code == StatCode(Asked(r))
           node == tree[Asked(r)]
           st == IF code = "ok" THEN node ELSE Absent
           Gone(step) == [conn[c] EXCEPT !.st = st, !.server = step]
<1>0. /\ conn[c] \in Connection /\ Phase(conn[c], writable) /\ Informed(conn[c], tree, writable, hidden)
      /\ Told(conn[c], writable, hidden)
      /\ requests \in 0..MaxRequests /\ beside \in 0..MaxBeside /\ tree \in Trees
  BY GoodFacts
<1>1. conn[c].server = "stat" /\ conn[c].server \in Busy /\ UNCHANGED <<world, tree, requests, beside>>
  BY DEF Stat, Busy
<1>2. /\ conn[c].input = <<>> /\ conn[c].output = <<>> /\ conn[c].client \in {"waiting", "gone"}
      /\ Asking(r, writable) /\ Harmless(conn[c], writable)
  BY <1>1, BusyFacts
<1>3. /\ r \in Request /\ r.verb \in Calling /\ r.path \in Paths /\ r.path \in About(r) /\ Asked(r) \in Paths
      /\ Asked(r) \in About(r)
      /\ r.verb # "MOVE" => Asked(r) = r.path
  BY <1>2, AskedFacts
<1>4. /\ code \in {"ok", "denied", "noent", "other"}
      /\ code = "denied" => Asked(r) \in hidden
      /\ code = "noent" => node = Absent
      /\ code = "ok" => node # Absent
  BY <1>0, <1>3, StatFacts
<1>5. node \in Nodes /\ st \in Nodes
  BY <1>0, <1>3, ViewFacts, NodeFacts
<1>6. /\ node = Absent => Missed(conn[c], Asked(r), hidden)
      /\ node # Absent => There(conn[c], Asked(r))
  BY <1>1, <1>3, SeenFacts
<1>7. \/ ~GoesOn(r, code) /\ Fails(c, code)
      \/ Plain(c, 200) \/ Plain(c, 207) \/ Plain(c, 403)
      \/ GoesOn(r, code) /\ r.verb = "PROPFIND" /\ Set(c, Gone("list"))
      \/ GoesOn(r, code) /\ r.verb = "GET" /\ node.kind = "file" /\ Set(c, Gone("act"))
      \/ GoesOn(r, code) /\ r.verb \in {"PUT", "MOVE", "DELETE"} /\ Set(c, Gone("act"))
  BY Zenon DEF Stat, Plain
<1>8. CASE ~GoesOn(r, code) /\ Fails(c, code)
  <2>1. CodeIsTrue(conn[c], code, hidden)
    <3>1. r.verb # "MKCOL"
      BY <1>0, <1>1 DEF Informed
    <3>2. code # "exist" /\ (code = "noent" => r.verb \notin {"PUT", "MKCOL", "MOVE"})
      BY <1>4, <1>8, <3>1 DEF GoesOn, Probing
    <3>3. code = "noent" => Missed(conn[c], r.path, hidden)
      BY <1>3, <1>4, <1>6, <3>2
    <3> QED
      BY <3>2, <3>3 DEF CodeIsTrue
  <2> QED
    BY <1>1, <1>8, <2>1, FailStep
<1>9. CASE Plain(c, 200) \/ Plain(c, 207) \/ Plain(c, 403)
  BY <1>1, <1>9, PlainStep DEF Untelling
<1>10. ASSUME NEW step \in {"list", "act"},
              step = "list" => r.verb = "PROPFIND",
              step = "act" => r.verb \in {"GET", "PUT", "MOVE", "DELETE"},
              r.verb = "GET" => node.kind = "file",
              GoesOn(r, code), Set(c, Gone(step))
       PROVE  DavInv'
  <2> DEFINE s == Gone(step)
  <2>1. s \in Connection
    BY <1>0, <1>5 DEF Connection
  <2> HIDE DEF st
  <2>2. /\ s.input = <<>> /\ s.output = <<>> /\ s.client = conn[c].client /\ s.server = step /\ s.req = r /\ s.st = st
        /\ s.seen = conn[c].seen /\ s.sizes = conn[c].sizes /\ s.did = conn[c].did
    BY <1>0, <1>2, <2>1 DEF Connection
  <2>3. Set(c, s)
    BY <1>10
  <2> HIDE DEF s
  <2>4. Phase(s, writable)
    BY <1>2, <2>2, <1>10 DEF Phase
  <2>5. r.verb = "GET" => st.kind = "file" /\ st.size \in s.sizes
    <3> SUFFICES ASSUME r.verb = "GET" PROVE st.kind = "file" /\ st.size \in s.sizes
      OBVIOUS
    <3>1. code = "ok" /\ Asked(r) = r.path
      BY <1>3, <1>10 DEF GoesOn, Probing
    <3>2. st = tree[r.path] /\ st.kind = "file"
      BY <3>1, <1>10 DEF st
    <3> QED
      BY <3>2, <2>2, <1>0, <1>1 DEF Informed
  <2>6. Probing(r.verb) => IF st = Absent THEN Missed(s, Asked(r), hidden) ELSE There(s, Asked(r))
    <3>1. CASE code = "ok"
      BY <3>1, <1>4, <1>6, <2>2 DEF st, There
    <3>2. CASE code # "ok"
      BY <3>2, <1>4, <1>6, <1>10, <2>2 DEF st, Missed, GoesOn
    <3> QED
      BY <3>1, <3>2
  <2>7. Informed(s, tree, writable, hidden)
    BY <1>0, <1>1, <1>10, <2>2, <2>5, <2>6 DEF Informed
  <2>8. Told(s, writable, hidden)
    BY <1>2, <2>2 DEF Told, Harmless
  <2>9. Good(s, tree, writable, hidden)
    BY <2>1, <2>4, <2>7, <2>8 DEF Good
  <2> QED
    BY <1>0, <1>1, <2>3, <2>9, SetStep
<1> QED
  BY <1>7, <1>8, <1>9, <1>10

LEMMA OperationIsTrue ==
  ASSUME DavInv, NEW c \in Conns, conn[c].server \in {"list", "act"}
  PROVE  OperationTells(conn[c], tree) /\ CodeIsTrue(conn[c], Operation(conn[c]).code, hidden)
<1> DEFINE k == conn[c]
           r == k.req
           code == Operation(k).code
<1>0. k.server \in Busy
  BY DEF Busy
<1>1. OperationTells(k, tree)
  BY GoodFacts, OperationFacts
<1>2. /\ r \in Request /\ r.path \in Paths /\ r.path \in About(r)
      /\ Parent(r.path) \in About(r) /\ Parent(r.dest) \in About(r)
  BY <1>0, BusyFacts, AskedFacts
<1>3. /\ code = "noent" => \/ r.verb \notin {"PUT", "MKCOL"} /\ tree[r.path] = Absent
                           \/ r.verb = "MOVE" /\ Orphan(r.dest)
                           \/ r.verb \in {"PUT", "MKCOL"} /\ Orphan(r.path)
      /\ code = "exist" => r.verb = "MKCOL" /\ tree[r.path] # Absent
  BY <1>1 DEF OperationTells
<1>4. /\ tree[r.path] = Absent => Missed(k, r.path, hidden)
      /\ tree[r.path] # Absent => There(k, r.path)
  BY <1>0, <1>2, SeenFacts
<1>5. /\ Orphan(r.path) => NoFolder(k, Parent(r.path))
      /\ Orphan(r.dest) => NoFolder(k, Parent(r.dest))
  BY <1>0, <1>2, OrphanFacts
<1>6. CodeIsTrue(k, code, hidden)
  BY <1>3, <1>4, <1>5 DEF CodeIsTrue
<1> QED
  BY <1>1, <1>6

\* What an operation that succeeds does may be done, and the connection that
\* has done it may be told so.
LEMMA DidIsGood ==
  ASSUME DavInv, NEW c \in Conns, conn[c].server \in {"list", "act"}, Operation(conn[c]).code = "ok",
         NEW k, k = [conn[c] EXCEPT !.did = @ \cup {View(tree, conn[c].req.path)}]
  PROVE  /\ Good(k, tree, writable, hidden) /\ Harmless(k, writable) /\ k.did # {}
         /\ k.server = conn[c].server /\ k.req = conn[c].req /\ k.st = conn[c].st
         /\ k.seen = conn[c].seen /\ k.sizes = conn[c].sizes
<1> DEFINE view == View(tree, conn[c].req.path)
<1>0. conn[c].server \in Busy
  BY DEF Busy
<1>1. /\ conn[c] \in Connection /\ Phase(conn[c], writable) /\ Informed(conn[c], tree, writable, hidden)
      /\ tree \in Trees
  BY GoodFacts
<1>2. /\ conn[c].output = <<>> /\ Asking(conn[c].req, writable) /\ Harmless(conn[c], writable)
      /\ conn[c].req.path \in Paths
  BY <1>0, BusyFacts, AskedFacts
<1>3. view \in Views
  BY <1>1, <1>2, ViewFacts
<1>4. conn[c].req.verb = "DELETE" => view # "full"
  BY <1>1, <1>2, OperationIsTrue, ViewFacts DEF OperationTells
<1>5. k = [conn[c] EXCEPT !.did = conn[c].did \cup {view}]
  OBVIOUS
<1> HIDE DEF view
<1>6. conn[c].did \cup {view} \in SUBSET Views
  BY <1>1, <1>3, ConnectionFacts
<1>7. k \in Connection
  BY <1>1, <1>5, <1>6 DEF Connection
<1>8. /\ k.input = conn[c].input /\ k.output = conn[c].output /\ k.client = conn[c].client
      /\ k.server = conn[c].server /\ k.req = conn[c].req /\ k.st = conn[c].st
      /\ k.seen = conn[c].seen /\ k.sizes = conn[c].sizes /\ k.did = conn[c].did \cup {view}
  BY <1>1, <1>5, <1>7 DEF Connection
<1>9. Harmless(k, writable)
  BY <1>2, <1>4, <1>8 DEF Harmless, Asking
<1>10. Phase(k, writable)
  BY <1>1, <1>8 DEF Phase, OneRequest
<1>11. Informed(k, tree, writable, hidden)
  BY <1>1, <1>8 DEF Informed, Missed, There
<1>12. Told(k, writable, hidden)
  BY <1>2, <1>8, <1>9 DEF Told
<1> QED
  BY <1>7, <1>8, <1>9, <1>10, <1>11, <1>12 DEF Good

LEMMA DoneIsGood ==
  ASSUME DavInv, NEW c \in Conns, conn[c].server \in {"list", "act"}, Operation(conn[c]).code = "ok",
         NEW k, k = [conn[c] EXCEPT !.did = @ \cup {View(tree, conn[c].req.path)}]
  PROVE  Good(Done(k), tree, writable, hidden)
<1> DEFINE r == conn[c].req
<1>1. /\ Good(k, tree, writable, hidden) /\ Harmless(k, writable) /\ k.did # {}
      /\ k.server = conn[c].server /\ k.req = r /\ k.st = conn[c].st
      /\ k.seen = conn[c].seen /\ k.sizes = conn[c].sizes
  BY DidIsGood
<1>2. k \in Connection /\ k.server \in Busy /\ Phase(k, writable) /\ Informed(k, tree, writable, hidden)
  BY <1>1 DEF Good, Busy
<1>3. k.input = <<>> /\ k.output = <<>> /\ k.client \in {"waiting", "gone"}
  BY <1>2, ConnectionFacts DEF Phase, Busy
<1>4. OperationTells(conn[c], tree)
  BY OperationIsTrue
<1>5. /\ r.path \in Paths /\ tree \in Trees /\ tree[r.path] \in Nodes
      /\ k.server = "list" => r.verb = "PROPFIND"
      /\ k.server = "act" => r.verb \in {"GET", "PUT", "DELETE", "MKCOL", "MOVE"}
  BY <1>1, <1>2, GoodFacts, AskedFacts, ViewFacts DEF Informed
<1>6. CASE k.server = "list"
  <2>1. Done(k) = Reply(k, 207, FALSE)
    <3>1. k.req.verb = "PROPFIND"
      BY <1>1, <1>5, <1>6
    <3> QED
      BY <1>6, <3>1, Zenon DEF Done
  <2>2. TrueAnswer(k, 207, FALSE, hidden)
    BY DEF TrueAnswer
  <2>3. 207 \in Nat
    OBVIOUS
  <2>4. Good(Reply(k, 207, FALSE), tree, writable, hidden)
    BY <1>1, <1>2, <1>3, <2>2, <2>3, WholeIsGood, Zenon
  <2> QED
    BY <2>1, <2>4, Zenon
<1>7. CASE k.server = "act" /\ r.verb = "GET"
  <2> DEFINE short == tree[r.path].size < k.st.size
  <2>1. Done(k) = Reply(k, 200, short)
    BY <1>1, <1>7, Zenon DEF Done
  <2>2. /\ tree[r.path].kind = "file" /\ k.st.kind = "file"
        /\ tree[r.path].size \in k.sizes /\ k.st.size \in k.sizes
    BY <1>1, <1>2, <1>4, <1>7 DEF Informed, OperationTells
  <2>3. short => \E m, n \in k.sizes : m < n
    BY <2>2
  <2>4. short \in BOOLEAN
    OBVIOUS
  <2> HIDE DEF short
  <2>5. TrueAnswer(k, 200, short, hidden)
    <3>1. 200 \notin {201, 204, 404, 405, 409}
      OBVIOUS
    <3> QED
      BY <2>3, <3>1 DEF TrueAnswer
  <2>6. 200 \in Nat
    OBVIOUS
  <2>7. Good(Reply(k, 200, short), tree, writable, hidden)
    BY <1>1, <1>2, <1>3, <2>4, <2>5, <2>6, ReplyIsGood, Zenon
  <2> QED
    BY <2>1, <2>7, Zenon
<1>8. CASE k.server = "act" /\ r.verb \in {"PUT", "DELETE", "MKCOL", "MOVE"}
  <2> DEFINE status == CASE r.verb = "MKCOL" -> 201
                         [] r.verb = "DELETE" -> 204
                         [] OTHER -> IF k.st = Absent THEN 201 ELSE 204
  <2>1. /\ r.verb = "MKCOL" => status = 201
        /\ r.verb = "DELETE" => status = 204
        /\ r.verb \in {"PUT", "MOVE"} => status = IF k.st = Absent THEN 201 ELSE 204
    OBVIOUS
  <2> HIDE DEF status
  <2>2. status \in {201, 204}
    BY <1>8, <2>1
  <2>7. Done(k) = Reply(k, status, FALSE)
    <3>3. CASE r.verb = "MKCOL"
      <4>1. k.server # "list" /\ k.req.verb # "GET" /\ k.req.verb = "MKCOL" /\ k.req.verb # "DELETE"
        BY <1>1, <1>8, <3>3
      <4>2. Done(k) = Reply(k, 201, FALSE)
        BY <4>1, Zenon DEF Done
      <4> QED
        BY <2>1, <3>3, <4>2
    <3>4. CASE r.verb = "DELETE"
      <4>1. k.server # "list" /\ k.req.verb # "GET" /\ k.req.verb = "DELETE" /\ k.req.verb # "MKCOL"
        BY <1>1, <1>8, <3>4
      <4>2. Done(k) = Reply(k, 204, FALSE)
        BY <4>1, Zenon DEF Done
      <4> QED
        BY <2>1, <3>4, <4>2
    <3>5. CASE r.verb \in {"PUT", "MOVE"}
      <4>1. k.server # "list" /\ k.req.verb # "GET" /\ k.req.verb # "MKCOL" /\ k.req.verb # "DELETE"
        BY <1>1, <1>8, <3>5
      <4>2. Done(k) = Reply(k, IF k.st = Absent THEN 201 ELSE 204, FALSE)
        BY <4>1, Zenon DEF Done
      <4> QED
        BY <2>1, <3>5, <4>2
    <3> QED
      BY <1>8, <3>3, <3>4, <3>5
  <2>3. r.verb \in {"PUT", "MOVE"} =>
            IF k.st = Absent THEN Missed(k, Asked(r), hidden) ELSE There(k, Asked(r))
    BY <1>1, <1>2, <1>8 DEF Informed, Probing
  <2>4. TrueAnswer(k, status, FALSE, hidden)
    BY <1>1, <2>1, <2>2, <2>3 DEF TrueAnswer
  <2>5. status \in Nat
    BY <2>2
  <2>6. Good(Reply(k, status, FALSE), tree, writable, hidden)
    BY <1>1, <1>2, <1>3, <2>4, <2>5, WholeIsGood, Zenon
  <2> QED
    BY <2>6, <2>7, Zenon
<1> QED
  BY <1>1, <1>5, <1>6, <1>7, <1>8

LEMMA ActKeeps ==
  ASSUME DavInv, NEW c \in Conns, Act(c)
  PROVE  DavInv'
<1> DEFINE result == Operation(conn[c])
           k == [conn[c] EXCEPT !.did = @ \cup {View(tree, conn[c].req.path)}]
           conns == [conn EXCEPT ![c] = Done(k)]
<1>1. conn[c].server \in {"list", "act"} /\ conn[c].server \in Busy /\ UNCHANGED <<world, requests, beside>>
  BY DEF Act, Busy
<1>2. \/ result.code = "ok" /\ Changed(conns, result.tree)
      \/ result.code # "ok" /\ Fails(c, result.code) /\ UNCHANGED tree
  BY DEF Act
<1>3. OperationTells(conn[c], tree) /\ CodeIsTrue(conn[c], result.code, hidden)
  BY <1>1, OperationIsTrue
<1>4. CASE result.code = "ok" /\ Changed(conns, result.tree)
  <2>1. Good(Done(k), tree, writable, hidden)
    BY <1>1, <1>4, DoneIsGood
  <2>2. result.tree \in Trees
    BY <1>3 DEF OperationTells
  <2> HIDE DEF result, k
  <2>3. ASSUME NEW d \in Conns PROVE Good(conns[d], tree, writable, hidden)
    BY <2>1 DEF DavInv
  <2> HIDE DEF conns
  <2>4. requests' \in 0..MaxRequests /\ beside' \in 0..MaxBeside
    BY <1>1, GoodFacts
  <2> QED
    BY <1>1, <1>4, <2>2, <2>3, <2>4, ChangedStep
<1>5. CASE result.code # "ok" /\ Fails(c, result.code) /\ UNCHANGED tree
  BY <1>1, <1>3, <1>5, FailStep
<1> QED
  BY <1>2, <1>4, <1>5

LEMMA ReplyLostKeeps ==
  ASSUME DavInv, NEW c \in Conns, ReplyLost(c)
  PROVE  DavInv'
<1> DEFINE result == Operation(conn[c])
           more == [conn[c] EXCEPT !.did = @ \cup {View(tree, conn[c].req.path)}]
           k == [conn[c] EXCEPT !.did = IF result.code = "ok" THEN @ \cup {View(tree, conn[c].req.path)} ELSE @]
           conns == [conn EXCEPT ![c] = k]
<1>1. /\ conn[c].server \in {"list", "act"} /\ UNCHANGED <<world, requests>>
      /\ beside < MaxBeside /\ beside' = beside + 1 /\ Changed(conns, result.tree)
  BY DEF ReplyLost
<1>2. OperationTells(conn[c], tree)
  BY <1>1, OperationIsTrue
<1>3. Good(k, tree, writable, hidden)
  <2>1. CASE result.code = "ok"
    <3>1. Good(more, tree, writable, hidden)
      BY <1>1, <2>1, DidIsGood
    <3>2. k = more
      BY <2>1
    <3> QED
      BY <3>1, <3>2
  <2>2. CASE result.code # "ok"
    <3>1. conn[c] \in Connection
      BY GoodFacts
    <3>2. k = conn[c]
      BY <2>2, <3>1 DEF Connection
    <3>3. Good(conn[c], tree, writable, hidden)
      BY DEF DavInv
    <3> QED
      BY <3>2, <3>3
  <2> QED
    BY <2>1, <2>2
<1>4. result.tree \in Trees
  BY <1>2 DEF OperationTells
<1> HIDE DEF result, k
<1>5. ASSUME NEW d \in Conns PROVE Good(conns[d], tree, writable, hidden)
  BY <1>3 DEF DavInv
<1> HIDE DEF conns
<1>6. requests' \in 0..MaxRequests /\ beside' \in 0..MaxBeside
  BY <1>1, GoodFacts, DavAssumption
<1> QED
  BY <1>1, <1>4, <1>5, <1>6, ChangedStep

LEMMA BesideKeeps ==
  ASSUME DavInv, Beside
  PROVE  DavInv'
<1>1. PICK p \in Paths \ hidden, node \in Nodes :
        WellFormed([tree EXCEPT ![p] = node]) /\ Changed(conn, [tree EXCEPT ![p] = node])
  BY DEF Beside
<1> DEFINE t == [tree EXCEPT ![p] = node]
<1>2. tree \in Trees /\ \A d \in Conns : Good(conn[d], tree, writable, hidden)
  BY DEF DavInv, World
<1>3. t \in Trees
  BY <1>1, <1>2 DEF Trees
<1>4. Changed(conn, t)
  BY <1>1
<1> HIDE DEF t
<1>5. requests' \in 0..MaxRequests /\ beside' \in 0..MaxBeside /\ UNCHANGED world
  BY DavAssumption DEF Beside, DavInv, World
<1> QED
  BY <1>2, <1>3, <1>4, <1>5, ChangedStep

-----------------------------------------------------------------------------
(* The theorems.                                                           *)

LEMMA NextKeeps ==
  ASSUME BodyVerbs \subseteq Draining, UnsizedVerbs = {}, DavInv, [Next]_vars
  PROVE  DavInv'
<1>1. CASE UNCHANGED vars
  <2>1. /\ writable' = writable /\ hidden' = hidden /\ tree' = tree /\ conn' = conn
        /\ requests' = requests /\ beside' = beside
    BY <1>1 DEF vars, world
  <2> QED
    BY <2>1 DEF DavInv, World
<1>2. ASSUME NEW c \in Conns, Connect(c) \/ Send(c) \/ Take(c) \/ Leave(c) \/ Thread(c) \/ ReplyLost(c)
      PROVE  DavInv'
  BY <1>2, ConnectKeeps, SendKeeps, TakeKeeps, LeaveKeeps, ParseKeeps, EndOfStreamKeeps, StatKeeps,
     ActKeeps, CallFailsKeeps, ReplyLostKeeps DEF Thread
<1>3. CASE Beside
  BY <1>3, BesideKeeps
<1> QED
  BY <1>1, <1>2, <1>3 DEF Next

LEMMA Invariance ==
  ASSUME BodyVerbs \subseteq Draining, UnsizedVerbs = {}
  PROVE  Spec => []DavInv
<1>1. Init => DavInv
  BY InitIsGood
<1>2. DavInv /\ [Next]_vars => DavInv'
  BY NextKeeps
<1> QED
  BY <1>1, <1>2, PTL DEF Spec

LEMMA TypeCorrectNow == DavInv => TypeOK
<1> SUFFICES ASSUME DavInv PROVE TypeOK
  OBVIOUS
<1>1. ASSUME NEW c \in Conns
      PROVE  LET k == conn[c] IN
             /\ k.client \in {"idle", "waiting", "gone"}
             /\ k.server \in {"loop", "stat", "list", "act", "closed"}
             /\ k.input \in Seq(Token) /\ Len(k.input) <= 2 * MaxRequests
             /\ k.output \in Seq(Answer) /\ Len(k.output) <= 2
             /\ k.req \in Request /\ k.st \in Nodes
             /\ k.seen \in [Paths -> SUBSET Views] /\ k.sizes \subseteq Sizes
             /\ k.did \subseteq Views
  <2> DEFINE k == conn[c]
  <2>1. k \in Connection /\ Phase(k, writable)
    BY GoodFacts
  <2>2. Len(k.input) <= 2 * MaxRequests
    <3>1. CASE k.input = <<>>
      BY <3>1, DavAssumption
    <3>2. CASE OneRequest(k, writable) /\ MaxRequests # 0
      <4>1. PICK r : k.input = IF r.body THEN <<Head2(r), Body2(r)>> ELSE <<Head2(r)>>
        BY <3>2 DEF OneRequest
      <4>2. Len(k.input) <= 2
        BY <4>1
      <4>3. MaxRequests \in Nat /\ MaxRequests # 0
        BY <3>2, DavAssumption
      <4>4. Len(k.input) \in Nat
        BY <2>1, ConnectionFacts, LenProperties
      <4> QED
        BY <4>2, <4>3, <4>4
    <3> QED
      BY <2>1, <3>1, <3>2 DEF Phase
  <2>3. Len(k.output) <= 2
    <3>1. CASE k.output = <<>>
      BY <3>1
    <3>2. CASE k.output # <<>>
      <4>1. Len(k.output) = 1
        BY <2>1, <3>2, Zenon DEF Phase
      <4> QED
        BY <4>1
    <3> QED
      BY <3>1, <3>2
  <2> QED
    BY <2>1, <2>2, <2>3, ConnectionFacts
<1> QED
  BY <1>1 DEF TypeOK, DavInv, World

LEMMA AnswersTrueNow == DavInv => AnswerWasTrue
<1> SUFFICES ASSUME DavInv, NEW c \in Conns
             PROVE  LET k == conn[c]
                        r == k.req
                        missed(p) == "absent" \in k.seen[p] \/ p \in hidden
                        there(p) == k.seen[p] \ {"absent"} # {}
                        noFolder(p) == p \in Paths /\ k.seen[p] \cap {"absent", "file"} # {}
                    IN
                    /\ r.verb = "DELETE" => "full" \notin k.did
                    /\ (r.verb \in Writing /\ k.did # {}) => writable /\ r.secret
                    /\ k.output # <<>> =>
                        LET a == Head(k.output) IN
                        /\ (r.verb \in {"PUT", "DELETE", "MKCOL", "MOVE"} /\ a.status \in {201, 204}) => k.did # {}
                        /\ a.status = 404 => \/ ~r.secret \/ missed(r.path)
                                             \/ r.verb = "MOVE" /\ noFolder(Parent(r.dest))
                        /\ a.status = 409 => noFolder(Parent(r.path))
                        /\ a.status = 405 => there(r.path)
                        /\ (a.status = 201 /\ r.verb \in {"PUT", "MOVE"}) => missed(Asked(r))
                        /\ (a.status = 204 /\ r.verb \in {"PUT", "MOVE"}) => there(Asked(r))
                        /\ a.short => \E m, n \in k.sizes : m < n
  BY DEF AnswerWasTrue
<1>1. Told(conn[c], writable, hidden)
  BY GoodFacts
<1> QED
  BY <1>1, Zenon DEF Told, Harmless, TrueAnswer, Missed, There, NoFolder

\* The values of every variable, of as many connections as there are, of any
\* length of what is on them.
THEOREM TypeCorrect ==
  ASSUME BodyVerbs \subseteq {"PUT", "LOCK", "UNLOCK", "PROPPATCH"}, UnsizedVerbs = {}
  PROVE  Spec => []TypeOK
<1>1. BodyVerbs \subseteq Draining
  BY DEF Draining
<1> QED
  BY <1>1, Invariance, TypeCorrectNow, PTL

\* What a client reads is the answer to its own request, if it sends bodies only
\* with the verbs whose handler reads them and says how long they are (_drain_body).
THEOREM AnswersCorrect ==
  ASSUME BodyVerbs \subseteq {"PUT", "LOCK", "UNLOCK", "PROPPATCH"}, UnsizedVerbs = {}
  PROVE  Spec => []AnswersAreOwn
<1>1. BodyVerbs \subseteq Draining
  BY DEF Draining
<1>2. DavInv => AnswersAreOwn
  BY GoodFacts DEF AnswersAreOwn, Phase
<1> QED
  BY <1>1, <1>2, Invariance, PTL

\* Every answer tells what was so at some moment of the request, whatever the
\* other connections and writers do between its two calls.
THEOREM AnswersTrue ==
  ASSUME BodyVerbs \subseteq {"PUT", "LOCK", "UNLOCK", "PROPPATCH"}, UnsizedVerbs = {}
  PROVE  Spec => []AnswerWasTrue
<1>1. BodyVerbs \subseteq Draining
  BY DEF Draining
<1> QED
  BY <1>1, Invariance, AnswersTrueNow, PTL

\* A client that waits for a server that waits for it has a whole answer to
\* read, but for a file that shrank between stat and read.
THEOREM NobodyInVain ==
  ASSUME BodyVerbs \subseteq {"PUT", "LOCK", "UNLOCK", "PROPPATCH"}, UnsizedVerbs = {}
  PROVE  Spec => []NobodyWaitsInVain
<1>1. BodyVerbs \subseteq Draining
  BY DEF Draining
<1>2. DavInv => NobodyWaitsInVain
  BY GoodFacts DEF NobodyWaitsInVain, Phase, Told, TrueAnswer
<1> QED
  BY <1>1, <1>2, Invariance, PTL
=============================================================================
