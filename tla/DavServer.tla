------------------------------ MODULE DavServer ------------------------------
(***************************************************************************)
(* The WebDAV server of a mount (src/jp/mount/webdav_server.py): a thread  *)
(* per kept-alive connection parses one request after the other, asks the  *)
(* remote file system (remote_fs.py, _agent/agentd.py) for the target and  *)
(* acts on it in a second call, while other connections and writers beside *)
(* the mount change the same tree, replies of calls are lost and repeated, *)
(* and clients go away.  Bytes on a connection are whole heads and bodies. *)
(***************************************************************************)
EXTENDS Integers, Sequences

CONSTANTS
    Conns,        \* connections of the OS's WebDAV client
    Dir, File, Other,  \* the paths: File is in Dir, Other beside it
    NoPath,
    Sizes,        \* of files
    BodyVerbs,    \* the verbs the client sends a body with
    UnsizedVerbs, \* the verbs it sends one with in chunks, or after a bad Content-Length
    MaxRequests,  \* bound: requests
    MaxBeside     \* bound: changes beside the mount, lost replies, clients that leave

ASSUME DavAssumption ==
    /\ Dir \notin {File, Other, NoPath} /\ File \notin {Other, NoPath} /\ Other # NoPath
    /\ Sizes \subseteq Nat /\ \E n \in Sizes : \A m \in Sizes : m <= n
    /\ {MaxRequests, MaxBeside} \subseteq Nat

VARIABLES
    writable,   \* was the server started with writable=True?
    hidden,     \* the paths the agent refuses
    tree,       \* the remote files
    conn,       \* the connections with their threads
    requests, beside   \* how many of the bounded events there were

world == <<writable, hidden>>
vars == <<world, tree, conn, requests, beside>>

Paths == {Dir, File, Other}
Largest == CHOOSE n \in Sizes : \A m \in Sizes : m <= n
Absent == [kind |-> "absent", size |-> 0]
Folder == [kind |-> "dir", size |-> 0]
FileOf(n) == [kind |-> "file", size |-> n]
Nodes == {Absent, Folder} \cup {FileOf(n) : n \in Sizes}
Children(p) == IF p = Dir THEN {File} ELSE {}
Parent(p) == IF p = File THEN Dir ELSE NoPath

Full(t, p) == \E q \in Children(p) : t[p].kind = "dir" /\ t[q].kind # "absent"
\* A path below one that is no directory does not exist.
WellFormed(t) == t[Dir].kind # "dir" => t[File].kind = "absent"
Trees == {t \in [Paths -> Nodes] : WellFormed(t)}
View(t, p) == IF Full(t, p) THEN "full" ELSE t[p].kind
Views == {"absent", "file", "dir", "full"}

Reading == {"GET", "HEAD", "PROPFIND"}
Writing == {"PUT", "DELETE", "MKCOL", "MOVE", "PROPPATCH", "LOCK", "UNLOCK", "COPY"}
Verbs == Reading \cup Writing \cup {"OPTIONS"}

\* body: does one follow the head?  sized: with its length in Content-Length?
Request == [id: Nat, verb: Verbs, path: Paths, dest: Paths \cup {NoPath}, secret: BOOLEAN,
            body: BOOLEAN, sized: BOOLEAN, size: Sizes \cup {0}]
Answer == [to: Nat, status: Nat, short: BOOLEAN]
Token == [body: BOOLEAN, of: Request]

NoRequest == [id |-> 0, verb |-> "OPTIONS", path |-> Dir, dest |-> NoPath, secret |-> TRUE,
              body |-> FALSE, sized |-> FALSE, size |-> 0]
\* client, server: where the two ends are; st: what the stat told; seen: ghost,
\* how each path looked at since the request began, with its sizes; did: ghost,
\* how the request's target looked before each of its changes.
Closed == [client |-> "gone", server |-> "closed", input |-> <<>>, output |-> <<>>,
           req |-> NoRequest, st |-> Absent,
           seen |-> [p \in Paths |-> {}], sizes |-> {}, did |-> {}]

Opened == [Closed EXCEPT !.client = "idle", !.server = "loop"]

TypeOK ==
    /\ writable \in BOOLEAN /\ hidden \subseteq Paths
    /\ tree \in Trees
    /\ requests \in 0..MaxRequests /\ beside \in 0..MaxBeside
    /\ \A c \in Conns : LET k == conn[c] IN
        /\ k.client \in {"idle", "waiting", "gone"}
        /\ k.server \in {"loop", "stat", "list", "act", "closed"}
        /\ k.input \in Seq(Token) /\ Len(k.input) <= 2 * MaxRequests
        /\ k.output \in Seq(Answer) /\ Len(k.output) <= 2
        /\ k.req \in Request /\ k.st \in Nodes
        /\ k.seen \in [Paths -> SUBSET Views] /\ k.sizes \subseteq Sizes
        /\ k.did \subseteq Views

\* What the mount starts on: nothing, a folder with a file in it, or a file.
Filled == [p \in Paths |-> IF p = Dir THEN Folder ELSE IF p = File THEN FileOf(Largest) ELSE Absent]
Starts ==
    {Filled, [p \in Paths |-> Absent], [p \in Paths |-> IF p = File THEN Absent ELSE FileOf(Largest)]}
Init ==
    /\ \/ writable = TRUE /\ hidden = {} /\ tree \in Starts
       \/ writable \in BOOLEAN /\ hidden = {Other} /\ tree = Filled
    /\ conn = [c \in Conns |-> Opened]
    /\ requests = 0 /\ beside = 0

\* A mutant of the next one: do_LOCK does not drain.
ReadsBodyButLock(r) == writable /\ r.sized /\ r.verb \in {"PUT", "UNLOCK", "PROPPATCH"}
\* The verbs that read a body, where they get to it.
ReadsBody(r) == writable /\ r.sized /\ r.verb \in {"PUT", "LOCK", "UNLOCK", "PROPPATCH"}

\* A mutant of the next one: a wrong secret is answered only where nothing is asked.
AtOnceOpen(r) ==
    CASE r.verb = "OPTIONS" -> {200}
      [] r.verb = "COPY" \/ (r.verb \in Writing /\ ~writable) -> {403}
      [] r.verb = "PUT" /\ ~r.sized -> {411, 400}
      [] r.verb = "MOVE" /\ r.dest = NoPath -> {400}
      [] r.verb = "LOCK" -> {200}
      [] r.verb = "UNLOCK" -> {204}
      [] ~r.secret /\ r.verb \in Reading -> {404}
      [] r.verb = "PROPPATCH" -> {207}
      [] OTHER -> {}
\* The answers that need no call; none for the rest.
AtOnce(r) ==
    CASE r.verb = "OPTIONS" -> {200}
      [] r.verb = "COPY" \/ (r.verb \in Writing /\ ~writable) -> {403}
      [] r.verb = "PUT" /\ ~r.sized -> {411, 400}
      [] r.verb = "MOVE" /\ r.dest = NoPath -> {400}
      [] r.verb = "LOCK" -> {200}
      [] r.verb = "UNLOCK" -> {204}
      [] ~r.secret -> {404}
      [] r.verb = "PROPPATCH" -> {207}
      [] OTHER -> {}

Set(c, k) == conn' = [conn EXCEPT ![c] = k]

-----------------------------------------------------------------------------
(* The client's end.                                                       *)

Connect(c) ==
    /\ conn[c] = Closed
    /\ Set(c, Opened)
    /\ UNCHANGED <<world, tree, requests, beside>>

\* Allow told the client whether it may write; only then it sends what to
\* write.  Folders are not moved with files in them, and what needs no call is
\* sent while the other connections are quiet.
Send(c) ==
    /\ conn[c].client = "idle" /\ requests < MaxRequests
    /\ \E verb \in Verbs, p, q \in Paths, secret, body, sized \in BOOLEAN, n \in Sizes :
        LET r == [id |-> requests + 1, verb |-> verb, path |-> p,
                  dest |-> IF verb = "MOVE" /\ p # q THEN q ELSE NoPath, secret |-> secret,
                  body |-> body, sized |-> sized, size |-> IF verb = "PUT" THEN n ELSE 0]
        IN  /\ body => verb \in (IF sized THEN BodyVerbs ELSE UnsizedVerbs) /\ (verb \in Writing => writable)
            /\ sized => body
            /\ AtOnce(r) # {} => p = Dir /\ \A k \in Conns : conn[k].client # "waiting"
            /\ verb = "MOVE" => Children(p) = {}
            /\ Set(c, [conn[c] EXCEPT !.client = "waiting",
                         !.input = @ \o <<[body |-> FALSE, of |-> r]>>
                                     \o (IF body THEN <<[body |-> TRUE, of |-> r]>> ELSE <<>>)])
    /\ requests' = requests + 1
    /\ UNCHANGED <<world, tree, beside>>

\* It waits for as many bytes as Content-Length says.
Take(c) ==
    /\ conn[c].client = "waiting" /\ conn[c].output # <<>> /\ ~Head(conn[c].output).short
    /\ Set(c, [Closed EXCEPT !.client = "idle", !.server = conn[c].server, !.input = conn[c].input,
                             !.output = Tail(conn[c].output)])
    /\ UNCHANGED <<world, tree, requests, beside>>

\* The end of the stream, or a client that has had enough.
Leave(c) ==
    /\ conn[c].client # "gone"
    /\ \/ conn[c].server = "closed" /\ Set(c, Closed) /\ UNCHANGED beside
       \/ /\ conn[c].server # "closed" /\ conn[c].client = "waiting"
          /\ beside < MaxBeside /\ beside' = beside + 1
          /\ Set(c, [conn[c] EXCEPT !.client = "gone", !.output = <<>>])
    /\ UNCHANGED <<world, tree, requests>>

-----------------------------------------------------------------------------
(* The thread of a connection.                                             *)

\* What a thread writes to a client that is gone goes nowhere.
Reply(k, status, short) ==
    IF k.client = "gone" THEN Closed
    ELSE [k EXCEPT !.server = "loop",
                   !.output = Append(@, [to |-> k.req.id, status |-> status, short |-> short])]

\* What a request is about, and how that looks.
About(r) == {r.path, r.dest, Parent(r.path), Parent(r.dest)}
Looks(r, t) == [p \in Paths |-> IF p \in About(r) THEN {View(t, p)} ELSE {}]
Lengths(r, t) == {t[p].size : p \in {q \in {r.path} : r.verb = "GET" /\ t[q].kind = "file"}}

\* The head of a request.  A body nobody has read is taken for one.
ParseRequest(c) ==
    /\ conn[c].server = "loop" /\ conn[c].input # <<>>
    /\ LET token == Head(conn[c].input)
           r == token.of
           k == [conn[c] EXCEPT !.input = IF r.body /\ ReadsBody(r) THEN Tail(Tail(@)) ELSE Tail(@),
                   !.req = r, !.st = Absent, !.seen = Looks(r, tree), !.sizes = Lengths(r, tree),
                   !.did = {}]
       IN  \/ /\ token.body
              /\ Set(c, [Reply([conn[c] EXCEPT !.input = Tail(@), !.req = NoRequest], 400, FALSE)
                           EXCEPT !.server = "closed"])
           \/ /\ ~token.body /\ AtOnce(r) # {}
              /\ \E status \in AtOnce(r) : Set(c, Reply(k, status, FALSE))
           \/ /\ ~token.body /\ AtOnce(r) = {}
              /\ Set(c, [k EXCEPT !.server = IF r.verb = "MKCOL" THEN "act" ELSE "stat"])
    /\ UNCHANGED <<world, tree, requests, beside>>

\* The client has closed; or an exception leaves the handler and the server
\* closes the connection without an answer (a mutant: it is swallowed).
CloseSilently(c) == Set(c, [Closed EXCEPT !.client = conn[c].client, !.server = "loop"])
Close(c) == Set(c, [Closed EXCEPT !.client = conn[c].client])
EndOfStream(c) ==
    /\ conn[c].client = "gone" /\ conn[c].server \in {"loop", "closed"} /\ conn[c] # Closed
    /\ conn[c].input = <<>> \/ conn[c].server = "closed"
    /\ Set(c, Closed)
    /\ UNCHANGED <<world, tree, requests, beside>>
CallFails(c) ==
    /\ conn[c].server \in {"stat", "list", "act"}
    /\ Close(c)
    /\ UNCHANGED <<world, tree, requests, beside>>

-----------------------------------------------------------------------------
(* The calls: what the agent does, and its error code.                     *)

Result(code, t) == [code |-> code, tree |-> t]
\* A component of the path that is a file.
Blocked(p) == Parent(p) \in Paths /\ tree[Parent(p)].kind = "file"
Orphan(p) == Parent(p) \in Paths /\ tree[Parent(p)].kind # "dir"

StatCode(p) ==
    CASE p \in hidden -> "denied"
      [] Blocked(p) -> "other"
      [] tree[p] = Absent -> "noent"
      [] OTHER -> "ok"

Readdir(p) == Result(IF tree[p].kind = "file" THEN "other" ELSE StatCode(p), tree)
Read(p) == Result(IF tree[p].kind = "dir" THEN "other" ELSE StatCode(p), tree)
Write(p, n) ==
    CASE p \in hidden -> Result("denied", tree)
      [] p \notin hidden /\ Orphan(p) -> Result("noent", tree)
      [] tree[p].kind = "dir" -> Result("other", tree)
      [] OTHER -> Result("ok", [tree EXCEPT ![p] = FileOf(n)])
Mkdir(p) ==
    CASE p \in hidden -> Result("denied", tree)
      [] Blocked(p) -> Result("other", tree)
      [] tree[p] # Absent -> Result("exist", tree)
      [] Orphan(p) -> Result("noent", tree)
      [] OTHER -> Result("ok", [tree EXCEPT ![p] = Folder])
\* A mutant of the next one: shutil.rmtree.
RmdirTree(p) ==
    CASE StatCode(p) # "ok" -> Result(StatCode(p), tree)
      [] tree[p].kind = "file" -> Result("other", tree)
      [] OTHER -> Result("ok", [tree EXCEPT ![p] = Absent])
Rmdir(p) ==
    CASE StatCode(p) # "ok" -> Result(StatCode(p), tree)
      [] tree[p].kind = "file" -> Result("other", tree)
      [] Full(tree, p) -> Result("notempty", tree)
      [] OTHER -> Result("ok", [tree EXCEPT ![p] = Absent])
Unlink(p) ==
    CASE StatCode(p) # "ok" -> Result(StatCode(p), tree)
      [] tree[p].kind = "dir" -> Result("other", tree)
      [] OTHER -> Result("ok", [tree EXCEPT ![p] = Absent])
\* A file replaces a file, an empty directory an empty directory.
RenameTo(p, q) ==
    CASE {p, q} \cap hidden # {} -> Result("denied", tree)
      [] StatCode(p) # "ok" -> Result(StatCode(p), tree)
      [] Blocked(q) -> Result("other", tree)
      [] Orphan(q) -> Result("noent", tree)
      [] tree[q] # Absent /\ tree[q].kind # tree[p].kind -> Result("other", tree)
      [] Full(tree, q) -> Result("notempty", tree)
      [] OTHER -> Result("ok", [tree EXCEPT ![q] = tree[p], ![p] = Absent])

-----------------------------------------------------------------------------
(* The handlers.                                                           *)

\* The answers to the error codes a handler expects; others raise.
Status(verb, code) ==
    CASE code = "denied" -> {403}
      [] code = "noent" /\ verb \in {"PUT", "MKCOL"} -> {409}
      [] code = "noent" /\ verb \notin {"PUT", "MKCOL"} -> {404}
      [] code = "notempty" /\ verb = "DELETE" -> {403}
      [] code = "exist" /\ verb = "MKCOL" -> {405}
      [] code = "exist" /\ verb = "MOVE" -> {412}
      [] OTHER -> {}

\* PUT and MOVE ask whether the target exists, to answer 201 or 204 later.
Probing(verb) == verb \in {"PUT", "MOVE"}
Asked(r) == IF r.verb = "MOVE" THEN r.dest ELSE r.path
GoesOn(r, code) ==
    \/ code = "ok"
    \/ Probing(r.verb) /\ code = "noent"
    \/ r.verb = "MOVE" /\ code = "denied"

Fails(c, code) ==
    IF Status(conn[c].req.verb, code) = {} THEN Close(c)
    ELSE \E status \in Status(conn[c].req.verb, code) : Set(c, Reply(conn[c], status, FALSE))

Stat(c) ==
    /\ conn[c].server = "stat"
    /\ LET r == conn[c].req
           code == StatCode(Asked(r))
           node == tree[Asked(r)]
           Going(step) == Set(c, [conn[c] EXCEPT !.st = IF code = "ok" THEN node ELSE Absent,
                                                 !.server = step])
       IN  IF ~GoesOn(r, code) THEN Fails(c, code)
           ELSE \/ /\ r.verb = "PROPFIND"              \* Depth: 0
                   /\ Set(c, Reply(conn[c], 207, FALSE))
                \/ r.verb = "PROPFIND" /\ node.kind = "dir" /\ Going("list")
                \/ /\ r.verb \in {"GET", "HEAD"} /\ node.kind = "dir"
                   /\ Set(c, Reply(conn[c], 403, FALSE))
                \/ /\ r.verb = "HEAD" /\ node.kind = "file"
                   /\ Set(c, Reply(conn[c], 200, FALSE))
                \/ r.verb = "GET" /\ node.kind = "file" /\ Going("act")
                \/ r.verb \in {"PUT", "MOVE", "DELETE"} /\ Going("act")
    /\ UNCHANGED <<world, tree, requests, beside>>

Operation(k) ==
    LET r == k.req IN
    CASE k.server = "list" -> Readdir(r.path)
      [] r.verb = "GET" -> Read(r.path)
      [] r.verb = "PUT" -> Write(r.path, r.size)
      [] r.verb = "MKCOL" -> Mkdir(r.path)
      [] r.verb = "DELETE" -> IF k.st.kind = "dir" THEN Rmdir(r.path) ELSE Unlink(r.path)
      [] r.verb = "MOVE" -> RenameTo(r.path, r.dest)

\* A change is seen by every request under way.
Changed(conns, t) ==
    /\ tree' = t
    /\ conn' = [c \in Conns |-> LET r == conns[c].req IN
         IF conns[c].server \notin {"stat", "list", "act"} THEN conns[c]
         ELSE [conns[c] EXCEPT !.seen = [p \in Paths |-> @[p] \cup Looks(r, t)[p]],
                               !.sizes = @ \cup Lengths(r, t)]]

Done(k) ==
    LET r == k.req IN
    CASE k.server = "list" -> Reply(k, 207, FALSE)
      [] r.verb = "GET" -> Reply(k, 200, tree[r.path].size < k.st.size)
      [] r.verb = "MKCOL" -> Reply(k, 201, FALSE)
      [] r.verb = "DELETE" -> Reply(k, 204, FALSE)
      [] OTHER -> Reply(k, IF k.st = Absent THEN 201 ELSE 204, FALSE)

Act(c) ==
    /\ conn[c].server \in {"list", "act"}
    /\ LET result == Operation(conn[c])
           k == [conn[c] EXCEPT !.did = @ \cup {View(tree, conn[c].req.path)}]
       IN  \/ result.code = "ok" /\ Changed([conn EXCEPT ![c] = Done(k)], result.tree)
           \/ result.code # "ok" /\ Fails(c, result.code) /\ UNCHANGED tree
    /\ UNCHANGED <<world, requests, beside>>

\* The reply of the agent is lost, and KernelConn sends the request again.
ReplyLost(c) ==
    /\ conn[c].server \in {"list", "act"} /\ beside < MaxBeside /\ beside' = beside + 1
    /\ LET result == Operation(conn[c])
           k == [conn[c] EXCEPT !.did = IF result.code = "ok" THEN @ \cup {View(tree, conn[c].req.path)} ELSE @]
       IN  Changed([conn EXCEPT ![c] = k], result.tree)
    /\ UNCHANGED <<world, requests>>

-----------------------------------------------------------------------------
(* Everything else.                                                        *)

\* Kernels, notebooks and other sessions write on the server.
Beside ==
    /\ beside < MaxBeside /\ beside' = beside + 1
    /\ \E p \in Paths \ hidden, node \in Nodes :
         /\ ~Full(tree, p) /\ tree[p] # node /\ WellFormed([tree EXCEPT ![p] = node])
         /\ Changed(conn, [tree EXCEPT ![p] = node])
    /\ UNCHANGED <<world, requests>>

Thread(c) == ParseRequest(c) \/ EndOfStream(c) \/ Stat(c) \/ Act(c) \/ CallFails(c)
Next ==
    \/ \E c \in Conns : Connect(c) \/ Send(c) \/ Take(c) \/ Leave(c) \/ Thread(c) \/ ReplyLost(c)
    \/ Beside

Spec == Init /\ [][Next]_vars

-----------------------------------------------------------------------------
(* Properties.                                                             *)

\* What is there for the client to read is the answer to the request it waits
\* for ("Consume any request body so keep-alive connections stay in sync",
\* _drain_body).
AnswersAreOwn ==
    \A c \in Conns : LET k == conn[c] IN
        k.output # <<>> => /\ Len(k.output) = 1 /\ k.client = "waiting"
                           /\ Head(k.output).to = k.req.id

\* An answer tells what was so at some moment of the request, however the
\* tree changed between the probe and the act and however often the act was
\* executed: no success without the change, no 404 or 409 unless something was
\* missing, no removal of a directory with files in it, no change without the
\* secret or on a read-only mount, and a body shorter than announced only of a
\* file that has shrunk.
AnswerWasTrue ==
    \A c \in Conns :
        LET k == conn[c]
            r == k.req
            Missed(p) == "absent" \in k.seen[p] \/ p \in hidden
            There(p) == k.seen[p] \ {"absent"} # {}
            NoFolder(p) == p \in Paths /\ k.seen[p] \cap {"absent", "file"} # {}
        IN
        /\ r.verb = "DELETE" => "full" \notin k.did
        /\ (r.verb \in Writing /\ k.did # {}) => writable /\ r.secret
        /\ k.output # <<>> =>
            LET a == Head(k.output) IN
            /\ (r.verb \in {"PUT", "DELETE", "MKCOL", "MOVE"} /\ a.status \in {201, 204}) => k.did # {}
            /\ a.status = 404 => \/ ~r.secret \/ Missed(r.path)
                                 \/ r.verb = "MOVE" /\ NoFolder(Parent(r.dest))
            /\ a.status = 409 => NoFolder(Parent(r.path))
            /\ a.status = 405 => There(r.path)
            /\ (a.status = 201 /\ r.verb \in {"PUT", "MOVE"}) => Missed(Asked(r))
            /\ (a.status = 204 /\ r.verb \in {"PUT", "MOVE"}) => There(Asked(r))
            /\ a.short => \E m, n \in k.sizes : m < n

\* Nobody waits in vain: while a client waits, its request is still to be
\* parsed or with a handler, or there is a whole answer or the end of the stream
\* to read, unless the file it reads has shrunk since it was asked for its size:
\* then each end waits for the other.
NobodyWaitsInVain ==
    \A c \in Conns : LET k == conn[c] IN
        (k.client = "waiting" /\ k.server = "loop" /\ k.input = <<>>) =>
            /\ k.output # <<>>
            /\ Head(k.output).short => \E m, n \in k.sizes : m < n
=============================================================================
