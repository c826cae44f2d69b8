------------------------------ MODULE LiveRpc ------------------------------
(***************************************************************************)
(* The calls of a live mount: KernelConn (src/jp/kernel_conn.py), the      *)
(* session that gives it kernels (src/jp/live_session.py) and the agent    *)
(* inside a kernel (src/jp/_agent/agentd.py).  The WebDAV workers and the  *)
(* keep-alive loop make one call at a time (KernelConn._lock); a call that *)
(* gets no answer discards its kernel, starts another and sends the same   *)
(* request again.  The main thread ends the session whenever the user says *)
(* so, while a worker may be anywhere in a call.                           *)
(*                                                                         *)
(* The agent's file system is one file; a request writes, reads or removes *)
(* it.  log and slipped are history: what the agents executed, in order,   *)
(* and whether a deletion failed or a creation's answer was lost.          *)
(***************************************************************************)
EXTENDS Integers, Sequences, FiniteSets

CONSTANTS
    Value,          \* contents of the file
    Absent,         \* no file
    None,           \* no answer yet
    Ops,            \* the operations that are called
    MaxReconnects,  \* _max_reconnects
    MaxCalls, MaxKernels   \* bounds: calls, kernels (a quota of the server)

ASSUME ValueAssumption == Absent \notin Value /\ None \notin Value \cup {Absent, "ok", "ENOENT"}
ASSUME OpsAssumption == Ops \subseteq {"write", "read", "remove"}
ASSUME BoundsAssumption ==
    {MaxReconnects, MaxCalls} \subseteq Nat /\ MaxKernels \in Nat \ {0}

VARIABLES
    file,     \* the file under the agent's root
    kernels,  \* the server's kernels, each with the requests it has not run
    link,     \* is the current socket up?
    stuck,    \* is the call blocked in sendall, by a peer that does not read?
    wire,     \* replies on the current socket, not yet read
    pending,  \* _pending: by rid
    rid,      \* _rid
    kid,      \* live_session: state["kid"]; conn's socket and comm are this kernel's
    call,     \* the call whose thread holds the lock
    main,     \* the main thread
    log,      \* the requests executed so far
    slipped   \* has an HTTP call gone wrong half-way?

server == <<file, kernels, log, slipped>>
session == <<link, stuck, wire, pending, kid>>
vars == <<server, session, rid, call, main>>

Kernels == 1..MaxKernels
Request == [rid: 1..MaxCalls, op: Ops, val: Value]
Answers == Value \cup {"ok", "ENOENT"}
Reply == [rid: 1..MaxCalls, answer: Answers]
Kernel == [state: {"none", "running", "gone"}, inbox: Seq(Request)]
Steps == {"idle", "send", "poll", "discard", "create", "establish", "done"}
\* Where a call writes to a websocket: the request, the answer to a ping that
\* came among the replies, the agent and the comm of a new kernel.
Sending == {"send", "poll", "establish"}
Idle == [step |-> "idle"]
CallRecord == [step: Steps \ {"idle"}, req: Request, attempts: 0..MaxReconnects,
               new: {0} \cup Kernels, answer: Answers \cup {None}, since: Nat]

TypeOK ==
    /\ file \in Value \cup {Absent}
    /\ kernels \in [Kernels -> Kernel]
    /\ link \in BOOLEAN
    /\ stuck \in BOOLEAN
    /\ stuck => call.step \in Sending
    /\ wire \in Seq(Reply)
    /\ pending \in [1..MaxCalls -> Answers \cup {None}]
    /\ rid \in 0..MaxCalls
    /\ kid \in Kernels
    /\ call \in CallRecord \cup {Idle}
    /\ call.step = "establish" => call.new \in Kernels
    /\ main \in {"serving", "stopping", "deleting", "closed", "gone"}
    /\ log \in Seq([req: Request, answer: Answers])
    /\ slipped \in BOOLEAN

\* connect_live has started the first kernel.
Init ==
    /\ file \in Value \cup {Absent}
    /\ kernels = [k \in Kernels |-> [state |-> IF k = 1 THEN "running" ELSE "none", inbox |-> <<>>]]
    /\ link = TRUE
    /\ stuck = FALSE
    /\ wire = <<>>
    /\ pending = [r \in 1..MaxCalls |-> None]
    /\ rid = 0
    /\ kid = 1
    /\ call = Idle
    /\ main = "serving"
    /\ log = <<>>
    /\ slipped = FALSE

Running(k) == kernels[k].state = "running"
\* Kernels are numbered as they are started.
Fresh(k) == kernels[k].state = "none" /\ \A j \in 1..(k - 1) : kernels[j].state # "none"

-----------------------------------------------------------------------------
(* The server: a kernel runs its requests in the order they came; the      *)
(* reply goes to the socket it is connected to.                            *)

Answer(req) ==
    CASE req.op = "write" -> "ok"
      [] req.op = "remove" -> IF file = Absent THEN "ENOENT" ELSE "ok"
      [] req.op = "read" -> IF file = Absent THEN "ENOENT" ELSE file

Effect(req) ==
    CASE req.op = "write" -> req.val
      [] req.op = "remove" -> Absent
      [] req.op = "read" -> file

Execute(k) ==
    LET req == Head(kernels[k].inbox)
    IN  /\ Running(k) /\ kernels[k].inbox # <<>>
        /\ kernels' = [kernels EXCEPT ![k].inbox = Tail(@)]
        /\ file' = Effect(req)
        /\ log' = Append(log, [req |-> req, answer |-> Answer(req)])
        /\ wire' = IF k = kid /\ link
                   THEN Append(wire, [rid |-> req.rid, answer |-> Answer(req)]) ELSE wire
        /\ UNCHANGED <<link, stuck, pending, kid, rid, call, main, slipped>>

Gone(k) == [kernels EXCEPT ![k] = [state |-> "gone", inbox |-> <<>>]]

\* Culled, killed or restarted.
KernelDies(k) ==
    /\ Running(k)
    /\ kernels' = Gone(k)
    /\ UNCHANGED <<file, log, slipped, session, rid, call, main>>

\* What was under way is lost.
SocketDrops ==
    /\ link
    /\ link' = FALSE
    /\ \E n \in 0..Len(wire) : wire' = SubSeq(wire, 1, n)
    /\ UNCHANGED <<server, stuck, pending, kid, rid, call, main>>

\* The socket blocks and has no timeout: while the peer does not read, sendall
\* does not return - for ever, unless the peer reads on or the connection breaks.
PeerStopsReading ==
    /\ call.step \in Sending /\ (link \/ call.step = "establish")
    /\ ~stuck
    /\ stuck' = TRUE
    /\ UNCHANGED <<server, link, wire, pending, kid, rid, call, main>>

SendGoesOn ==
    /\ stuck
    /\ stuck' = FALSE
    /\ UNCHANGED <<server, link, wire, pending, kid, rid, call, main>>

\* api.delete_kernel with its exceptions suppressed.
Delete(k) ==
    \/ /\ kernels' = IF Running(k) THEN Gone(k) ELSE kernels
       /\ UNCHANGED slipped
    \/ /\ Running(k)
       /\ slipped' = TRUE
       /\ UNCHANGED kernels

-----------------------------------------------------------------------------
(* A call. *)

Call(op, v) ==
    /\ call = Idle /\ main # "gone"
    /\ rid < MaxCalls
    /\ rid' = rid + 1
    /\ call' = [step |-> "send", req |-> [rid |-> rid', op |-> op, val |-> v], attempts |-> 0,
                new |-> 0, answer |-> None, since |-> Len(log)]
    /\ UNCHANGED <<server, session, main>>

\* A socket that is down may take the bytes and lose them.
Send ==
    /\ call.step = "send" /\ ~stuck
    /\ kernels' = IF link /\ Running(kid)
                  THEN [kernels EXCEPT ![kid].inbox = Append(@, call.req)] ELSE kernels
    /\ call' = [call EXCEPT !.step = "poll"]
    /\ UNCHANGED <<file, log, slipped, session, rid, main>>

\* A reply is kept under its rid, whoever waits for it.
Absorb ==
    /\ call.step = "poll" /\ ~stuck
    /\ wire # <<>>
    /\ pending' = [pending EXCEPT ![Head(wire).rid] = Head(wire).answer]
    /\ wire' = Tail(wire)
    /\ UNCHANGED <<server, link, stuck, kid, rid, call, main>>

\* Mutant: any reply will do.
AnswerAny ==
    /\ call.step = "poll" /\ ~stuck
    /\ \E r \in DOMAIN pending :
           /\ pending[r] # None
           /\ call' = [call EXCEPT !.step = "done", !.answer = pending[r]]
           /\ pending' = [pending EXCEPT ![r] = None]
    /\ UNCHANGED <<server, link, stuck, wire, kid, rid, main>>

Answered ==
    /\ call.step = "poll" /\ ~stuck
    /\ pending[call.req.rid] # None
    /\ call' = [call EXCEPT !.step = "done", !.answer = pending[call.req.rid]]
    /\ pending' = [pending EXCEPT ![call.req.rid] = None]
    /\ UNCHANGED <<server, link, stuck, wire, kid, rid, main>>

\* Mutants: one attempt too many; no poll budget.
AttemptFailsOnceMore ==
    /\ ~stuck
    /\ \/ call.step = "send" /\ ~link
       \/ call.step = "poll" /\ pending[call.req.rid] = None
    /\ call' = IF call.attempts =< MaxReconnects
               THEN [call EXCEPT !.step = "discard", !.attempts = @ + 1] ELSE Idle
    /\ UNCHANGED <<server, session, rid, main>>

AttemptFailsIfClosed ==
    /\ call.step \in {"send", "poll"} /\ ~link /\ ~stuck
    /\ call.step = "poll" => pending[call.req.rid] = None
    /\ call' = IF call.attempts < MaxReconnects
               THEN [call EXCEPT !.step = "discard", !.attempts = @ + 1] ELSE Idle
    /\ UNCHANGED <<server, session, rid, main>>

\* The socket is found closed, or the poll budget is used up - which a slow
\* kernel can do at any time.  Out of attempts, the call raises ConnectionLost.
AttemptFails ==
    /\ ~stuck
    /\ \/ call.step = "send" /\ ~link
       \/ call.step = "poll" /\ pending[call.req.rid] = None
    /\ call' = IF call.attempts < MaxReconnects
               THEN [call EXCEPT !.step = "discard", !.attempts = @ + 1] ELSE Idle
    /\ UNCHANGED <<server, session, rid, main>>

\* Mutant: the old kernel is left to the server's culling.
DiscardNothing ==
    /\ call.step = "discard"
    /\ call' = [call EXCEPT !.step = "create"]
    /\ UNCHANGED <<server, session, rid, main>>

\* _reconnect: the old kernel first.
Discard ==
    /\ call.step = "discard"
    /\ Delete(kid)
    /\ call' = [call EXCEPT !.step = "create"]
    /\ UNCHANGED <<file, log, session, rid, main>>

Create(k) ==
    /\ call.step = "create"
    /\ Fresh(k)
    /\ kernels' = [kernels EXCEPT ![k].state = "running"]
    /\ call' = [call EXCEPT !.step = "establish", !.new = k]
    /\ UNCHANGED <<file, log, slipped, session, rid, main>>

\* The kernel was started but its identifier never arrives: nobody knows it.
CreateAnswerLost(k) ==
    /\ call.step = "create"
    /\ Fresh(k)
    /\ kernels' = [kernels EXCEPT ![k].state = "running"]
    /\ slipped' = TRUE
    /\ call' = Idle
    /\ UNCHANGED <<file, log, session, rid, main>>

\* The factory failed: ConnectionLost, with the session as it was.
CreateFails ==
    /\ call.step = "create"
    /\ call' = Idle
    /\ UNCHANGED <<server, session, rid, main>>

\* The socket is up, the agent injected, the comm open; the session and the
\* connection are switched over and the same request goes out again.
Establish ==
    /\ call.step = "establish" /\ ~stuck
    /\ kid' = call.new
    /\ link' = TRUE
    /\ wire' = <<>>
    /\ pending' = [r \in DOMAIN pending |-> None]
    /\ call' = [call EXCEPT !.step = "send", !.new = 0]
    /\ UNCHANGED <<server, stuck, rid, main>>

\* Mutant: the new kernel is not deleted when its setup fails.
EstablishFailsLeaking ==
    /\ call.step = "establish" /\ ~stuck
    /\ call' = Idle
    /\ UNCHANGED <<server, session, rid, main>>

EstablishFails ==
    /\ call.step = "establish" /\ ~stuck
    /\ Delete(call.new)
    /\ call' = Idle
    /\ UNCHANGED <<file, log, session, rid, main>>

Return ==
    /\ call.step = "done"
    /\ call' = Idle
    /\ UNCHANGED <<server, session, rid, main>>

-----------------------------------------------------------------------------
(* The main thread: cleanup, after dav.stop(), whose workers are daemon    *)
(* threads and go on until the process ends.  The kernel is looked up,     *)
(* deleted, and the socket closed.                                         *)

Stop ==
    /\ main = "serving"
    /\ main' = "stopping"
    /\ UNCHANGED <<server, session, rid, call>>

CleanupDelete ==
    /\ main = "stopping"
    /\ Delete(kid)
    /\ main' = "deleting"
    /\ UNCHANGED <<file, log, session, rid, call>>

CleanupClose ==
    /\ main = "deleting"
    /\ main' = "closed"
    /\ link' = FALSE
    /\ wire' = <<>>
    /\ UNCHANGED <<server, stuck, pending, kid, rid, call>>

\* The process ends, and its daemon threads with it.
Exit ==
    /\ main = "closed"
    /\ main' = "gone"
    /\ call' = Idle
    /\ stuck' = FALSE
    /\ UNCHANGED <<server, link, wire, pending, kid, rid>>

-----------------------------------------------------------------------------
Calls == \E op \in Ops, v \in Value : Call(op, v)

Worker ==
    \/ Send \/ Absorb \/ Answered \/ AttemptFails \/ Return
    \/ Discard \/ CreateFails \/ Establish \/ EstablishFails
    \/ \E k \in Kernels : Create(k) \/ CreateAnswerLost(k)

Server == SocketDrops \/ PeerStopsReading \/ SendGoesOn \/ \E k \in Kernels : Execute(k) \/ KernelDies(k)

Cleanup == CleanupDelete \/ CleanupClose \/ Exit

Next == Calls \/ Worker \/ Server \/ Stop \/ Cleanup

Spec == Init /\ [][Next]_vars

\* The thread that holds the lock runs on, as each wait of a call is bounded (the
\* poll budget, the timeouts of the HTTP calls) - but one: nothing makes sendall
\* return, so SendGoesOn is not fair.  Nor is the clean-up, whose last step sends
\* a CLOSE the same way.
FairSpec == Spec /\ WF_vars(Worker)

-----------------------------------------------------------------------------
(* Properties. *)

Executed(r) == {i \in DOMAIN log : log[i].req.rid = r}

\* The answer a call returns is what the agent answered to this very request,
\* executed since the call began: no late reply of an earlier call, of an
\* abandoned attempt or of a dead kernel is taken for it.
AnswersAreOwn ==
    call.step = "done" =>
        \E i \in Executed(call.req.rid) :
            i > call.since /\ log[i].req = call.req /\ log[i].answer = call.answer

\* Whatever is lost, abandoned or sent again, the requests take effect in the
\* order of the calls, so a later write is never undone by an earlier one - as
\* long as the kernels that are deleted are gone.
ExecutedInOrder ==
    ~slipped => \A i, j \in DOMAIN log : i < j => log[i].req.rid =< log[j].req.rid

\* A session holds one kernel at a time, unless a deletion or the answer to a
\* creation fails.
OneKernel == ~slipped => Cardinality({k \in Kernels : Running(k)}) =< 1

\* No call keeps the lock for ever, whatever is lost and however often a kernel
\* dies - unless the peer of its websocket will not read what it sends.
EveryCallReturns == (call # Idle ~> call = Idle) \/ []<>stuck
=============================================================================
