--------------------------- MODULE LiveRpcProofs ---------------------------
(***************************************************************************)
(* Theorems about LiveRpc, for any contents, number of calls, kernels and  *)
(* reconnects: answers belong to their requests; and, until an HTTP call   *)
(* goes wrong half-way, requests are executed in the order of the calls    *)
(* and one kernel runs at a time.                                          *)
(***************************************************************************)
EXTENDS LiveRpc, FiniteSetTheorems, TLAPS

Busy == call.step # "idle"

\* A request with the current rid is the current call's.
Mine(q) == q.rid \in 1..rid /\ (Busy /\ q.rid = rid => q = call.req)
Witnessed(r, a) == \E i \in DOMAIN log : log[i].req.rid = r /\ log[i].answer = a

Requests ==
    /\ Busy => call.req.rid = rid /\ call.since =< Len(log)
    /\ \A k \in Kernels : \A j \in 1..Len(kernels[k].inbox) : Mine(kernels[k].inbox[j])
    /\ \A i \in 1..Len(log) : Mine(log[i].req)
    /\ \A i \in 1..Len(log) : Busy /\ log[i].req.rid = rid => i > call.since

Replies ==
    /\ \A j \in 1..Len(wire) : Witnessed(wire[j].rid, wire[j].answer)
    /\ \A r \in 1..MaxCalls : pending[r] # None => Witnessed(r, pending[r])
    /\ call.step = "done" => Witnessed(call.req.rid, call.answer)

OwnInv == TypeOK /\ Requests /\ Replies

\* What a kernel may hold, and which kernels the session may know.
Known ==
    /\ \A k \in Kernels : ~Running(k) => kernels[k].inbox = <<>>
    /\ kernels[kid].state # "none"
    /\ call.step = "establish" => kernels[call.new].state # "none"

\* The kernels that run, and what they have still to execute.
Alive ==
    /\ \A j, k \in Kernels : Running(j) /\ Running(k) => j = k
    /\ main = "gone" => ~Busy
    /\ main # "gone" => \A k \in Kernels : Running(k) =>
           k = kid \/ (call.step = "establish" /\ k = call.new)
    /\ call.step \in {"create", "establish"} => ~Running(kid)

Queued ==
    \A k \in Kernels : Running(k) =>
        \A j \in 1..Len(kernels[k].inbox) :
            /\ \A i \in 1..Len(log) : log[i].req.rid =< kernels[k].inbox[j].rid
            /\ \A i \in 1..j : kernels[k].inbox[i].rid =< kernels[k].inbox[j].rid

Sorted == \A j \in 1..Len(log) : \A i \in 1..j : log[i].req.rid =< log[j].req.rid

OrderInv == OwnInv /\ Known /\ (~slipped => Alive /\ Queued /\ Sorted)

-----------------------------------------------------------------------------
(* Type correctness. *)

LEMMA KernelsNat == Kernels \subseteq Nat /\ 1 \in Kernels /\ 0 \notin Kernels
  BY BoundsAssumption DEF Kernels

LEMMA BusyCall == TypeOK /\ Busy => call \in CallRecord
  BY DEF TypeOK, Busy, Idle, CallRecord

LEMMA AnswerType == ASSUME TypeOK, NEW req \in Request
                    PROVE  Answer(req) \in Answers /\ Effect(req) \in Value \cup {Absent}
  BY OpsAssumption DEF TypeOK, Request, Answer, Effect, Answers

LEMMA GoneType == ASSUME TypeOK, NEW k \in Kernels PROVE Gone(k) \in [Kernels -> Kernel]
  BY DEF TypeOK, Gone, Kernel

LEMMA DeleteType == ASSUME TypeOK, NEW k \in Kernels, Delete(k)
                    PROVE  kernels' \in [Kernels -> Kernel] /\ slipped' \in BOOLEAN
  BY GoneType DEF TypeOK, Delete

LEMMA TypeInit == Init => TypeOK
<1> SUFFICES ASSUME Init PROVE TypeOK
  OBVIOUS
<1>1. kernels \in [Kernels -> Kernel]
  BY DEF Init, Kernel
<1>2. /\ wire \in Seq(Reply)
      /\ log \in Seq([req: Request, answer: Answers])
  BY DEF Init
<1>3. rid \in 0..MaxCalls
  BY BoundsAssumption DEF Init
<1> QED
  BY <1>1, <1>2, <1>3, KernelsNat DEF Init, TypeOK, Idle

LEMMA TypeStep == TypeOK /\ [Next]_vars => TypeOK'
<1> SUFFICES ASSUME TypeOK, [Next]_vars PROVE TypeOK'
  OBVIOUS
<1> USE DEF server, session, Sending
<1>1. ASSUME NEW op \in Ops, NEW v \in Value, Call(op, v) PROVE TypeOK'
  <2>1. rid' \in 1..MaxCalls /\ rid' \in 0..MaxCalls
    BY <1>1, BoundsAssumption DEF Call, TypeOK
  <2>2. Len(log) \in Nat
    BY DEF TypeOK
  <2>3. call' \in CallRecord
    BY <1>1, <2>1, <2>2, BoundsAssumption DEF Call, CallRecord, Request, Steps
  <2> QED
    BY <1>1, <2>1, <2>3 DEF Call, TypeOK, CallRecord, Idle
<1>2. CASE Send
  <2>1. call \in CallRecord
    BY <1>2, BusyCall DEF Send, Busy
  <2>2. call' \in CallRecord
    BY <1>2, <2>1 DEF Send, CallRecord, Steps
  <2>3. kernels' \in [Kernels -> Kernel]
    <3>1. kernels[kid] \in Kernel /\ call.req \in Request
      BY <2>1 DEF TypeOK, CallRecord
    <3>2. Append(kernels[kid].inbox, call.req) \in Seq(Request)
      BY <3>1 DEF Kernel
    <3>3. [kernels[kid] EXCEPT !.inbox = Append(kernels[kid].inbox, call.req)] \in Kernel
      BY <3>1, <3>2 DEF Kernel
    <3> QED
      BY <1>2, <3>3 DEF Send, TypeOK
  <2> QED
    BY <1>2, <2>2, <2>3 DEF Send, TypeOK, CallRecord
<1>3. CASE Absorb
  <2>1. Head(wire) \in Reply /\ wire' \in Seq(Reply)
    BY <1>3 DEF Absorb, TypeOK
  <2>2. pending' \in [1..MaxCalls -> Answers \cup {None}]
    BY <1>3, <2>1 DEF Absorb, TypeOK, Reply
  <2> QED
    BY <1>3, <2>1, <2>2 DEF Absorb, TypeOK
<1>4. CASE Answered
  <2>1. call \in CallRecord
    BY <1>4, BusyCall DEF Answered, Busy
  <2>2. pending' \in [1..MaxCalls -> Answers \cup {None}]
    BY <1>4 DEF Answered, TypeOK
  <2>3. call.answer \in Answers \cup {None}
    BY <2>1 DEF CallRecord
  <2>4. pending[call.req.rid] \in Answers \cup {None}
    BY <2>1 DEF CallRecord, Request, TypeOK
  <2>5. call' \in CallRecord
    BY <1>4, <2>1, <2>4 DEF Answered, CallRecord, Steps
  <2> QED
    BY <1>4, <2>2, <2>5 DEF Answered, TypeOK, CallRecord
<1>5. CASE AttemptFails
  <2>1. call \in CallRecord
    BY <1>5, BusyCall DEF AttemptFails, Busy
  <2>2. call.attempts < MaxReconnects => call.attempts + 1 \in 0..MaxReconnects
    BY <2>1, BoundsAssumption DEF CallRecord
  <2>3. call' \in CallRecord \/ call' = Idle
    BY <1>5, <2>1, <2>2 DEF AttemptFails, CallRecord, Steps
  <2> QED
    BY <1>5, <2>1, <2>3 DEF AttemptFails, TypeOK, CallRecord, Idle
<1>6. CASE Return
  BY <1>6 DEF Return, TypeOK, Idle
<1>7. CASE Discard
  <2>1. call \in CallRecord
    BY <1>7, BusyCall DEF Discard, Busy
  <2>2. call' \in CallRecord
    BY <1>7, <2>1 DEF Discard, CallRecord, Steps
  <2>3. kernels' \in [Kernels -> Kernel] /\ slipped' \in BOOLEAN
    BY <1>7, DeleteType DEF Discard, TypeOK
  <2> QED
    BY <1>7, <2>2, <2>3 DEF Discard, TypeOK, CallRecord
<1>8. ASSUME NEW k \in Kernels, Create(k) PROVE TypeOK'
  <2>1. call \in CallRecord
    BY <1>8, BusyCall DEF Create, Busy
  <2>2. call' \in CallRecord
    BY <1>8, <2>1 DEF Create, CallRecord, Steps
  <2>3. kernels' \in [Kernels -> Kernel]
    BY <1>8 DEF Create, TypeOK, Kernel
  <2> QED
    BY <1>8, <2>2, <2>3 DEF Create, TypeOK, CallRecord
<1>9. ASSUME NEW k \in Kernels, CreateAnswerLost(k) PROVE TypeOK'
  <2>1. kernels' \in [Kernels -> Kernel]
    BY <1>9 DEF CreateAnswerLost, TypeOK, Kernel
  <2> QED
    BY <1>9, <2>1 DEF CreateAnswerLost, TypeOK, Idle
<1>10. CASE CreateFails
  BY <1>10 DEF CreateFails, TypeOK, Idle
<1>11. CASE Establish
  <2>1. call \in CallRecord
    BY <1>11, BusyCall DEF Establish, Busy
  <2>2. call' \in CallRecord
    BY <1>11, <2>1 DEF Establish, CallRecord, Steps
  <2>3. pending' \in [1..MaxCalls -> Answers \cup {None}] /\ wire' \in Seq(Reply)
    BY <1>11 DEF Establish, TypeOK
  <2>4. kid' \in Kernels
    BY <1>11 DEF Establish, TypeOK
  <2> QED
    BY <1>11, <2>2, <2>3, <2>4 DEF Establish, TypeOK, CallRecord
<1>12. CASE EstablishFails
  <2>1. call \in CallRecord
    BY <1>12, BusyCall DEF EstablishFails, Busy
  <2>2. kernels' \in [Kernels -> Kernel] /\ slipped' \in BOOLEAN
    BY <1>12, DeleteType DEF EstablishFails, TypeOK, Idle
  <2> QED
    BY <1>12, <2>2 DEF EstablishFails, TypeOK, Idle
<1>13. CASE SocketDrops
  <2>1. wire' \in Seq(Reply)
    BY <1>13 DEF SocketDrops, TypeOK
  <2> QED
    BY <1>13, <2>1 DEF SocketDrops, TypeOK
<1>14. ASSUME NEW k \in Kernels, Execute(k) PROVE TypeOK'
  <2> DEFINE req == Head(kernels[k].inbox)
  <2>0. kernels[k] \in Kernel /\ kernels[k].inbox \in Seq(Request) /\ kernels[k].inbox # <<>>
    BY <1>14 DEF Execute, TypeOK, Kernel
  <2>1. req \in Request /\ Tail(kernels[k].inbox) \in Seq(Request)
    BY <2>0
  <2>1a. [kernels[k] EXCEPT !.inbox = Tail(kernels[k].inbox)] \in Kernel
    BY <2>0, <2>1 DEF Kernel
  <2>2. /\ Answer(req) \in Answers
        /\ Effect(req) \in Value \cup {Absent}
    BY <2>1, AnswerType
  <2>3. kernels' \in [Kernels -> Kernel]
    BY <1>14, <2>1a DEF Execute, TypeOK
  <2>4. log' \in Seq([req: Request, answer: Answers])
    BY <1>14, <2>1, <2>2 DEF Execute, TypeOK
  <2>5. [rid |-> req.rid, answer |-> Answer(req)] \in Reply
    BY <2>1, <2>2 DEF Reply, Request
  <2>6. wire' \in Seq(Reply)
    BY <1>14, <2>5 DEF Execute, TypeOK
  <2> QED
    BY <1>14, <2>2, <2>3, <2>4, <2>6 DEF Execute, TypeOK
<1>15. ASSUME NEW k \in Kernels, KernelDies(k) PROVE TypeOK'
  BY <1>15, GoneType DEF KernelDies, TypeOK
<1>16. CASE Stop
  BY <1>16 DEF Stop, TypeOK
<1>17. CASE CleanupDelete
  <2>1. kernels' \in [Kernels -> Kernel] /\ slipped' \in BOOLEAN
    BY <1>17, DeleteType DEF CleanupDelete, TypeOK
  <2> QED
    BY <1>17, <2>1 DEF CleanupDelete, TypeOK
<1>18. CASE CleanupClose
  <2>1. wire' \in Seq(Reply)
    BY <1>18 DEF CleanupClose
  <2> QED
    BY <1>18, <2>1 DEF CleanupClose, TypeOK
<1>19. CASE Exit
  BY <1>19 DEF Exit, TypeOK, Idle
<1>21. CASE PeerStopsReading \/ SendGoesOn
  BY <1>21 DEF PeerStopsReading, SendGoesOn, TypeOK
<1>20. CASE UNCHANGED vars
  BY <1>20 DEF vars, TypeOK
<1> QED
  BY <1>1, <1>2, <1>3, <1>4, <1>5, <1>6, <1>7, <1>8, <1>9, <1>10, <1>11, <1>12, <1>13, <1>14,
     <1>15, <1>16, <1>17, <1>18, <1>19, <1>20, <1>21 DEF Next, Calls, Worker, Server, Cleanup

\* Every variable has its type, whatever is lost, delayed or sent again
\* (KernelConn.call, live_session.connect_live).
THEOREM TypeCorrect == Spec => []TypeOK
  BY TypeInit, TypeStep, PTL DEF Spec

-----------------------------------------------------------------------------
(* Answers belong to their requests. *)

\* The call is the same one, or over.
SameCall == Busy' => Busy /\ call'.req = call.req /\ call'.since = call.since

\* Nothing is added to what the kernels have to execute.
NothingSent == \A k \in Kernels : \/ kernels'[k].inbox = kernels[k].inbox
                                  \/ kernels'[k].inbox = <<>>

LEMMA CallEnds == ASSUME call' = Idle PROVE SameCall /\ call'.step = "idle" /\ ~Busy'
  BY DEF SameCall, Busy, Idle

LEMMA GoneSends == ASSUME TypeOK, NEW k \in Kernels, kernels' = Gone(k) PROVE NothingSent
  BY DEF Gone, NothingSent, TypeOK

LEMMA DeleteSends == ASSUME TypeOK, NEW k \in Kernels, Delete(k) PROVE NothingSent
  BY GoneSends DEF Delete, NothingSent

LEMMA StartSends ==
    ASSUME TypeOK, NEW k \in Kernels, kernels' = [kernels EXCEPT ![k].state = "running"]
    PROVE  NothingSent
<1>1. kernels[k] \in Kernel
  BY DEF TypeOK
<1> QED
  BY <1>1 DEF TypeOK, NothingSent, Kernel

LEMMA RequestsKept ==
    ASSUME TypeOK, Requests, SameCall, NothingSent, log' = log, rid' = rid
    PROVE  Requests'
<1>1. \A q : Mine(q) => Mine(q)'
  BY DEF Mine, SameCall
<1>2. \A k \in Kernels : \A j \in 1..Len(kernels'[k].inbox) : Mine(kernels[k].inbox[j])'
  <2> SUFFICES ASSUME NEW k \in Kernels, NEW j \in 1..Len(kernels'[k].inbox)
               PROVE  Mine(kernels[k].inbox[j])'
    OBVIOUS
  <2>1. kernels'[k].inbox = kernels[k].inbox
    BY DEF NothingSent
  <2>2. Mine(kernels[k].inbox[j])
    BY <2>1 DEF Requests
  <2> QED
    BY <2>1, <2>2, <1>1 DEF Mine
<1>3. \A i \in 1..Len(log') : Mine(log[i].req)'
  BY DEF Requests, Mine, SameCall
<1>4. Busy' => call'.req.rid = rid' /\ call'.since =< Len(log')
  BY DEF Requests, SameCall
<1>5. \A i \in 1..Len(log') : Busy' /\ log'[i].req.rid = rid' => i > call'.since
  BY DEF Requests, SameCall
<1> QED
  BY <1>2, <1>3, <1>4, <1>5 DEF Requests

LEMMA RepliesKept ==
    ASSUME TypeOK, Replies, log' = log,
           wire' \in {wire, <<>>},
           pending' \in {pending, [r \in DOMAIN pending |-> None]},
           call'.step # "done"
    PROVE  Replies'
<1>1. \A j \in 1..Len(wire') : Witnessed(wire[j].rid, wire[j].answer)'
  BY DEF Replies, Witnessed
<1>2. \A r \in 1..MaxCalls : pending'[r] # None => pending'[r] = pending[r]
  BY DEF TypeOK
<1>3. \A r \in 1..MaxCalls : pending'[r] # None => Witnessed(r, pending[r])'
  BY <1>2 DEF Replies, Witnessed
<1> QED
  BY <1>1, <1>3 DEF Replies

LEMMA OwnInit == Init => OwnInv
<1> SUFFICES ASSUME Init PROVE OwnInv
  OBVIOUS
<1>1. Requests
  BY DEF Init, Requests, Busy, Idle, Mine
<1>2. Replies
  BY DEF Init, Replies, Idle
<1> QED
  BY <1>1, <1>2, TypeInit DEF OwnInv

\* The steps that change no request, no record of one and no reply that is
\* already there.
LEMMA OwnQuietStep ==
    ASSUME TypeOK, Requests, Replies,
           \/ AttemptFails \/ Return \/ Discard \/ CreateFails \/ Establish \/ EstablishFails
           \/ \E k \in Kernels : Create(k) \/ CreateAnswerLost(k)
           \/ Exit
    PROVE  Requests' /\ Replies'
<1> USE DEF server, session
<1>1. CASE AttemptFails
  <2>1. SameCall /\ call'.step # "done"
    <3>1. CASE call.attempts < MaxReconnects
      <4>1. call \in CallRecord
        BY <1>1, BusyCall DEF AttemptFails, Busy
      <4> QED
        BY <1>1, <3>1, <4>1 DEF AttemptFails, CallRecord, SameCall, Busy
    <3>2. CASE ~(call.attempts < MaxReconnects)
      BY <1>1, <3>2, CallEnds DEF AttemptFails
    <3> QED
      BY <3>1, <3>2
  <2> QED
    BY <1>1, <2>1, RequestsKept, RepliesKept DEF AttemptFails, NothingSent
<1>2. CASE Return
  BY <1>2, CallEnds, RequestsKept, RepliesKept DEF Return, NothingSent
<1>3. CASE Discard
  <2>0. call \in CallRecord
    BY <1>3, BusyCall DEF Discard, Busy
  <2>1. SameCall /\ call'.step # "done"
    BY <1>3, <2>0 DEF Discard, CallRecord, SameCall, Busy
  <2>2. NothingSent
    BY <1>3, DeleteSends DEF Discard, TypeOK
  <2> QED
    BY <1>3, <2>1, <2>2, RequestsKept, RepliesKept DEF Discard
<1>4. CASE CreateFails
  BY <1>4, CallEnds, RequestsKept, RepliesKept DEF CreateFails, NothingSent
<1>5. CASE Establish
  <2>0. call \in CallRecord
    BY <1>5, BusyCall DEF Establish, Busy
  <2>1. SameCall /\ call'.step # "done"
    BY <1>5, <2>0 DEF Establish, CallRecord, SameCall, Busy
  <2> QED
    BY <1>5, <2>1, RequestsKept, RepliesKept DEF Establish, NothingSent
<1>6. CASE EstablishFails
  <2>1. NothingSent
    BY <1>6, DeleteSends DEF EstablishFails, TypeOK
  <2> QED
    BY <1>6, <2>1, CallEnds, RequestsKept, RepliesKept DEF EstablishFails
<1>7. ASSUME NEW k \in Kernels, Create(k) PROVE Requests' /\ Replies'
  <2>0. call \in CallRecord
    BY <1>7, BusyCall DEF Create, Busy
  <2>1. SameCall /\ call'.step # "done"
    BY <1>7, <2>0 DEF Create, CallRecord, SameCall, Busy
  <2>2. NothingSent
    BY <1>7, StartSends DEF Create
  <2> QED
    BY <1>7, <2>1, <2>2, RequestsKept, RepliesKept DEF Create
<1>8. ASSUME NEW k \in Kernels, CreateAnswerLost(k) PROVE Requests' /\ Replies'
  <2>1. NothingSent
    BY <1>8, StartSends DEF CreateAnswerLost
  <2> QED
    BY <1>8, <2>1, CallEnds, RequestsKept, RepliesKept DEF CreateAnswerLost
<1>9. CASE Exit
  BY <1>9, CallEnds, RequestsKept, RepliesKept DEF Exit, NothingSent
<1> QED
  BY <1>1, <1>2, <1>3, <1>4, <1>5, <1>6, <1>7, <1>8, <1>9

\* The steps of the server and of the main thread that execute nothing.
LEMMA OwnServerStep ==
    ASSUME TypeOK, Requests, Replies,
           \/ SocketDrops \/ PeerStopsReading \/ SendGoesOn \/ Stop \/ CleanupDelete \/ CleanupClose
           \/ \E k \in Kernels : KernelDies(k)
           \/ UNCHANGED vars
    PROVE  Requests' /\ Replies'
<1> USE DEF server, session
<1>1. call' = call /\ log' = log /\ rid' = rid /\ pending' = pending
  BY DEF SocketDrops, PeerStopsReading, SendGoesOn, Stop, CleanupDelete, CleanupClose, KernelDies, vars
<1>2. NothingSent
  <2>1. ASSUME NEW k \in Kernels, KernelDies(k) PROVE NothingSent
    BY <2>1, GoneSends DEF KernelDies
  <2>2. CASE CleanupDelete
    BY <2>2, DeleteSends DEF CleanupDelete, TypeOK
  <2>3. CASE SocketDrops \/ PeerStopsReading \/ SendGoesOn \/ Stop \/ CleanupClose \/ UNCHANGED vars
    BY <2>3 DEF SocketDrops, PeerStopsReading, SendGoesOn, Stop, CleanupClose, vars, NothingSent
  <2> QED
    BY <2>1, <2>2, <2>3
<1>3. Requests'
  BY <1>1, <1>2, RequestsKept DEF SameCall, Busy
<1>4. \A r, a : Witnessed(r, a) => Witnessed(r, a)'
  BY <1>1 DEF Witnessed
<1>5. \A j \in 1..Len(wire') : j \in 1..Len(wire) /\ wire'[j] = wire[j]
  <2>1. CASE SocketDrops
    BY <2>1 DEF SocketDrops, TypeOK
  <2>2. CASE wire' \in {wire, <<>>}
    BY <2>2
  <2> QED
    BY <2>1, <2>2 DEF PeerStopsReading, SendGoesOn, Stop, CleanupDelete, CleanupClose, KernelDies, vars
<1>6. \A j \in 1..Len(wire') : Witnessed(wire[j].rid, wire[j].answer)'
  BY <1>5, <1>1 DEF Replies, Witnessed
<1> QED
  BY <1>1, <1>3, <1>6 DEF Replies, Witnessed

LEMMA OwnCall ==
    ASSUME TypeOK, Requests, Replies, NEW op \in Ops, NEW v \in Value, Call(op, v)
    PROVE  Requests' /\ Replies'
<1> USE DEF server, session
<1>1. /\ ~Busy /\ Busy' /\ rid' = rid + 1 /\ rid \in Nat
      /\ call'.req.rid = rid' /\ call'.since = Len(log) /\ call'.step = "send"
  BY DEF Call, TypeOK, Busy, Idle
<1>2. \A q : Mine(q) => Mine(q)'
  BY <1>1 DEF Mine
<1>3. kernels' = kernels /\ log' = log /\ wire' = wire /\ pending' = pending
  BY DEF Call
<1>4. Len(log) \in Nat
  BY DEF TypeOK
<1>5. \A i \in 1..Len(log) : log[i].req.rid # rid'
  BY <1>1 DEF Requests, Mine
<1>6. Requests'
  BY <1>1, <1>2, <1>3, <1>4, <1>5 DEF Requests, Mine
<1>7. Replies'
  BY <1>1, <1>3, RepliesKept
<1> QED
  BY <1>6, <1>7

LEMMA OwnSend == ASSUME TypeOK, Requests, Replies, Send PROVE Requests' /\ Replies'
<1> USE DEF server, session
<1>0. call \in CallRecord
  BY BusyCall DEF Send, Busy
<1>1. SameCall /\ call'.step = "poll" /\ Busy'
  BY <1>0 DEF Send, CallRecord, SameCall, Busy
<1>2. log' = log /\ rid' = rid /\ wire' = wire /\ pending' = pending
  BY DEF Send
<1>4. \A q : Mine(q) => Mine(q)'
  BY <1>1, <1>2 DEF Mine, SameCall
<1>5. Mine(call.req)'
  <2>1. call.req \in Request /\ call.req.rid = rid
    BY <1>0 DEF CallRecord, Requests, Send, Busy
  <2> QED
    BY <1>1, <1>2, <2>1 DEF Mine, SameCall, Request, TypeOK
<1>6. \A k \in Kernels : \A j \in 1..Len(kernels'[k].inbox) : Mine(kernels[k].inbox[j])'
  <2> SUFFICES ASSUME NEW k \in Kernels, NEW j \in 1..Len(kernels'[k].inbox)
               PROVE  Mine(kernels[k].inbox[j])'
    OBVIOUS
  <2>1. kernels[k] \in Kernel /\ kernels[k].inbox \in Seq(Request) /\ call.req \in Request
    BY <1>0 DEF TypeOK, Kernel, CallRecord
  <2>2. CASE kernels'[k].inbox = kernels[k].inbox
    BY <2>2, <1>4 DEF Requests, Mine
  <2>3. CASE kernels'[k].inbox = Append(kernels[k].inbox, call.req)
    <3>1. CASE j \in 1..Len(kernels[k].inbox)
      <4>1. kernels'[k].inbox[j] = kernels[k].inbox[j]
        BY <2>1, <2>3, <3>1
      <4> QED
        BY <4>1, <3>1, <1>4 DEF Requests, Mine
    <3>2. CASE j = Len(kernels[k].inbox) + 1
      <4>1. kernels'[k].inbox[j] = call.req
        BY <2>1, <2>3, <3>2
      <4> QED
        BY <4>1, <1>5, <1>1 DEF Mine, SameCall
    <3> QED
      BY <2>1, <2>3, <3>1, <3>2
  <2> QED
    BY <2>1, <2>2, <2>3 DEF Send, TypeOK, Kernel
<1>7. Requests'
  BY <1>1, <1>2, <1>4, <1>6 DEF Requests, SameCall, Mine
<1> QED
  BY <1>1, <1>2, <1>7, RepliesKept

LEMMA OwnAbsorb == ASSUME TypeOK, Requests, Replies, Absorb PROVE Requests' /\ Replies'
<1> USE DEF server, session
<1>1. call' = call /\ log' = log /\ rid' = rid /\ kernels' = kernels
  BY DEF Absorb
<1>2. Requests'
  BY <1>1, RequestsKept DEF SameCall, NothingSent, Busy
<1>3. Head(wire) = wire[1] /\ 1 \in 1..Len(wire) /\ wire[1] \in Reply
  BY DEF Absorb, TypeOK
<1>4. Witnessed(wire[1].rid, wire[1].answer)
  BY <1>3 DEF Replies
<1>5. \A r \in 1..MaxCalls : pending'[r] # None => Witnessed(r, pending[r])'
  <2> SUFFICES ASSUME NEW r \in 1..MaxCalls, pending'[r] # None PROVE Witnessed(r, pending'[r])
    BY <1>1 DEF Witnessed
  <2>1. CASE r = wire[1].rid
    BY <2>1, <1>3, <1>4 DEF Absorb, TypeOK
  <2>2. CASE r # wire[1].rid
    BY <2>2, <1>3 DEF Absorb, TypeOK, Replies
  <2> QED
    BY <2>1, <2>2
<1>6. \A j \in 1..Len(wire') : j + 1 \in 1..Len(wire) /\ wire'[j] = wire[j + 1]
  BY DEF Absorb, TypeOK
<1>7. \A j \in 1..Len(wire') : Witnessed(wire[j].rid, wire[j].answer)'
  BY <1>1, <1>6 DEF Replies, Witnessed
<1> QED
  BY <1>1, <1>2, <1>5, <1>7 DEF Replies, Absorb

LEMMA OwnAnswered == ASSUME TypeOK, Requests, Replies, Answered PROVE Requests' /\ Replies'
<1> USE DEF server, session
<1>1. call \in CallRecord
  BY BusyCall DEF Answered, Busy
<1>2. /\ call'.req = call.req /\ call'.answer = pending[call.req.rid]
      /\ SameCall /\ call.req.rid \in 1..MaxCalls
  BY <1>1 DEF Answered, CallRecord, SameCall, Busy, Request
<1>3. log' = log /\ rid' = rid /\ kernels' = kernels /\ wire' = wire
  BY DEF Answered
<1>4. Requests'
  BY <1>2, <1>3, RequestsKept DEF NothingSent
<1>5. Witnessed(call.req.rid, pending[call.req.rid])
  BY <1>2 DEF Replies, Answered
<1>6. \A r \in 1..MaxCalls : pending'[r] # None => pending'[r] = pending[r]
  BY <1>2 DEF Answered, TypeOK
<1> QED
  BY <1>2, <1>3, <1>4, <1>5, <1>6 DEF Replies, Witnessed

LEMMA OwnExecute ==
    ASSUME TypeOK, Requests, Replies, NEW k \in Kernels, Execute(k)
    PROVE  Requests' /\ Replies'
<1> USE DEF server, session
<1> DEFINE req == Head(kernels[k].inbox)
           entry == [req |-> req, answer |-> Answer(req)]
<1>1. /\ kernels[k] \in Kernel /\ kernels[k].inbox \in Seq(Request) /\ kernels[k].inbox # <<>>
      /\ req = kernels[k].inbox[1] /\ 1 \in 1..Len(kernels[k].inbox)
  BY DEF Execute, TypeOK, Kernel
<1>2. /\ call' = call /\ rid' = rid /\ pending' = pending
      /\ log' = Append(log, entry)
  BY DEF Execute
<1>3. Mine(req)
  BY <1>1 DEF Requests
<1>4. \A q : Mine(q) => Mine(q)'
  BY <1>2 DEF Mine, Busy
<1>5. /\ Len(log) \in Nat /\ Len(log') = Len(log) + 1
      /\ log'[Len(log) + 1] = entry
      /\ \A i \in 1..Len(log) : log'[i] = log[i]
  BY <1>2 DEF TypeOK
<1>6. \A i \in 1..Len(log') : i \in 1..Len(log) \/ i = Len(log) + 1
  BY <1>5
<1>7. Requests'
  <2>1. \A j \in Kernels : \A i \in 1..Len(kernels'[j].inbox) : Mine(kernels[j].inbox[i])'
    <3> SUFFICES ASSUME NEW j \in Kernels, NEW i \in 1..Len(kernels'[j].inbox)
                 PROVE  Mine(kernels[j].inbox[i])'
      OBVIOUS
    <3>1. CASE j = k
      <4>1. kernels'[j].inbox = Tail(kernels[k].inbox)
        BY <3>1, <1>1 DEF Execute, TypeOK, Kernel
      <4>2. i + 1 \in 1..Len(kernels[k].inbox) /\ kernels'[j].inbox[i] = kernels[k].inbox[i + 1]
        BY <4>1, <1>1
      <4> QED
        BY <4>2, <1>4 DEF Requests, Mine
    <3>2. CASE j # k
      <4>1. kernels'[j] = kernels[j]
        BY <3>2 DEF Execute, TypeOK
      <4> QED
        BY <4>1, <1>4 DEF Requests, Mine
    <3> QED
      BY <3>1, <3>2
  <2>2. \A i \in 1..Len(log') : Mine(log[i].req)'
    <3> SUFFICES ASSUME NEW i \in 1..Len(log') PROVE Mine(log[i].req)'
      OBVIOUS
    <3>1. Mine(log'[i].req)
      BY <1>3, <1>5, <1>6 DEF Requests
    <3> QED
      BY <3>1, <1>4 DEF Mine
  <2>3. Busy' => call'.req.rid = rid' /\ call'.since =< Len(log')
    BY <1>2, <1>5, BusyCall DEF Requests, Busy, CallRecord
  <2>4. \A i \in 1..Len(log') : Busy' /\ log'[i].req.rid = rid' => i > call'.since
    BY <1>2, <1>5, <1>6, BusyCall DEF Requests, Busy, CallRecord
  <2> QED
    BY <2>1, <2>2, <2>3, <2>4 DEF Requests
<1>8. \A r, a : Witnessed(r, a) => Witnessed(r, a)'
  <2>1. \A i \in DOMAIN log : i \in DOMAIN log' /\ log'[i] = log[i]
    BY <1>5, <1>2 DEF TypeOK
  <2> QED
    BY <2>1 DEF Witnessed
<1>9. \E i \in DOMAIN log' : log'[i].req.rid = req.rid /\ log'[i].answer = Answer(req)
  <2>1. Len(log) + 1 \in DOMAIN log'
    BY <1>2 DEF TypeOK
  <2> QED
    BY <2>1, <1>5
<1>10. \A j \in 1..Len(wire') : Witnessed(wire[j].rid, wire[j].answer)'
  <2> SUFFICES ASSUME NEW j \in 1..Len(wire')
               PROVE  Witnessed(wire[j].rid, wire[j].answer)'
    OBVIOUS
  <2>0. ASSUME j \in 1..Len(wire), wire'[j] = wire[j]
        PROVE  Witnessed(wire[j].rid, wire[j].answer)'
    <3>1. PICK i \in DOMAIN log : log[i].req.rid = wire[j].rid /\ log[i].answer = wire[j].answer
      BY <2>0 DEF Replies, Witnessed
    <3>2. i \in DOMAIN log' /\ log'[i] = log[i]
      BY <1>2 DEF TypeOK
    <3> QED
      BY <2>0, <3>1, <3>2 DEF Witnessed
  <2>1. CASE wire' = wire
    BY <2>0, <2>1
  <2>2. CASE wire' = Append(wire, [rid |-> req.rid, answer |-> Answer(req)])
    <3>1. CASE j \in 1..Len(wire)
      <4>1. wire'[j] = wire[j]
        BY <2>2, <3>1 DEF TypeOK
      <4> QED
        BY <4>1, <3>1, <2>0
    <3>2. CASE j = Len(wire) + 1
      <4>1. wire'[j] = [rid |-> req.rid, answer |-> Answer(req)]
        BY <2>2, <3>2 DEF TypeOK
      <4> QED
        BY <4>1, <1>9 DEF Witnessed
    <3> QED
      BY <2>2, <3>1, <3>2 DEF TypeOK
  <2> QED
    BY <2>1, <2>2 DEF Execute
<1>11. Replies'
  BY <1>2, <1>8, <1>10 DEF Replies, Witnessed
<1> QED
  BY <1>7, <1>11

LEMMA OwnStep == OwnInv /\ [Next]_vars => OwnInv'
<1> SUFFICES ASSUME TypeOK, Requests, Replies, [Next]_vars PROVE Requests' /\ Replies'
  BY TypeStep DEF OwnInv
<1>1. ASSUME NEW op \in Ops, NEW v \in Value, Call(op, v) PROVE Requests' /\ Replies'
  BY <1>1, OwnCall
<1>2. ASSUME NEW k \in Kernels, Execute(k) PROVE Requests' /\ Replies'
  BY <1>2, OwnExecute
<1>3. CASE Send \/ Absorb \/ Answered
  BY <1>3, OwnSend, OwnAbsorb, OwnAnswered
<1>4. CASE \/ AttemptFails \/ Return \/ Discard \/ CreateFails \/ Establish \/ EstablishFails
           \/ \E k \in Kernels : Create(k) \/ CreateAnswerLost(k)
           \/ Exit
  BY <1>4, OwnQuietStep
<1>5. CASE \/ SocketDrops \/ PeerStopsReading \/ SendGoesOn \/ Stop \/ CleanupDelete \/ CleanupClose
           \/ \E k \in Kernels : KernelDies(k)
           \/ UNCHANGED vars
  BY <1>5, OwnServerStep
<1> QED
  BY <1>1, <1>2, <1>3, <1>4, <1>5 DEF Next, Calls, Worker, Server, Cleanup

LEMMA OwnImplies == OwnInv => AnswersAreOwn
<1> SUFFICES ASSUME TypeOK, Requests, Replies, call.step = "done"
             PROVE  \E i \in Executed(call.req.rid) :
                        i > call.since /\ log[i].req = call.req /\ log[i].answer = call.answer
  BY DEF OwnInv, AnswersAreOwn
<1>1. Busy
  BY DEF Busy
<1>2. PICK i \in DOMAIN log : log[i].req.rid = call.req.rid /\ log[i].answer = call.answer
  BY DEF Replies, Witnessed
<1>3. i \in 1..Len(log)
  BY DEF TypeOK
<1>4. call.req.rid = rid
  BY <1>1 DEF Requests
<1>5. log[i].req = call.req /\ i > call.since
  BY <1>1, <1>2, <1>3, <1>4 DEF Requests, Mine
<1> QED
  BY <1>2, <1>5 DEF Executed

\* The answer a call returns was given to this very request, after the call
\* began: no late or foreign reply is taken for it (KernelConn.call and
\* _request_once, the rids and the reset at a reconnect).
THEOREM AnswersCorrect == Spec => []AnswersAreOwn
<1>1. Spec => []OwnInv
  BY OwnInit, OwnStep, PTL DEF Spec
<1> QED
  BY <1>1, OwnImplies, PTL

-----------------------------------------------------------------------------
(* One kernel, and the order of what it executes. *)

\* A kernel that was started is not fresh again, and one that is not running
\* has nothing to execute.
KernelsMove ==
    \A k \in Kernels :
        /\ kernels[k].state # "none" => kernels'[k].state # "none"
        /\ ~Running(k)' => kernels'[k].inbox = <<>>

LEMMA GoneMoves == ASSUME TypeOK, Known, NEW k \in Kernels, kernels' = Gone(k)
                   PROVE  KernelsMove /\ ~Running(k)' /\ \A j \in Kernels : Running(j)' => Running(j)
<1>1. /\ kernels'[k] = [state |-> "gone", inbox |-> <<>>]
      /\ \A j \in Kernels \ {k} : kernels'[j] = kernels[j]
  BY DEF Gone, TypeOK
<1>2. KernelsMove
  <2> SUFFICES ASSUME NEW j \in Kernels
               PROVE  /\ kernels[j].state # "none" => kernels'[j].state # "none"
                      /\ ~Running(j)' => kernels'[j].inbox = <<>>
    BY DEF KernelsMove
  <2>1. CASE j = k
    BY <2>1, <1>1
  <2>2. CASE j # k
    BY <2>2, <1>1 DEF Known, Running
  <2> QED
    BY <2>1, <2>2
<1> QED
  BY <1>1, <1>2 DEF Running

LEMMA SameMoves == ASSUME TypeOK, Known, kernels' = kernels PROVE KernelsMove
  BY DEF Known, Running, KernelsMove

LEMMA DeleteMoves == ASSUME TypeOK, Known, NEW k \in Kernels, Delete(k)
                     PROVE  /\ KernelsMove
                            /\ \A j \in Kernels : Running(j)' => Running(j)
                            /\ ~slipped' => ~slipped /\ ~Running(k)'
<1>1. CASE kernels' = Gone(k) /\ slipped' = slipped
  BY <1>1, GoneMoves
<1>2. CASE kernels' = kernels
  <2>1. KernelsMove /\ \A j \in Kernels : Running(j)' => Running(j)
    BY <1>2, SameMoves DEF Running
  <2>2. ~slipped' => ~slipped /\ ~Running(k)'
    <3>1. CASE slipped' = TRUE
      BY <3>1
    <3>2. CASE slipped' = slipped /\ ~Running(k)
      BY <3>2, <1>2 DEF Running
    <3>3. CASE kernels' = Gone(k) /\ slipped' = slipped
      BY <3>3, GoneMoves
    <3> QED
      BY <3>1, <3>2, <3>3 DEF Delete
  <2> QED
    BY <2>1, <2>2
<1> QED
  BY <1>1, <1>2 DEF Delete

LEMMA StartMoves ==
    ASSUME TypeOK, Known, NEW k \in Kernels, kernels' = [kernels EXCEPT ![k].state = "running"]
    PROVE  /\ KernelsMove
           /\ Running(k)'
           /\ \A j \in Kernels \ {k} : kernels'[j] = kernels[j]
           /\ kernels'[k].inbox = kernels[k].inbox
<1>1. kernels[k] \in Kernel
  BY DEF TypeOK
<1>2. /\ kernels'[k].state = "running" /\ kernels'[k].inbox = kernels[k].inbox
      /\ \A j \in Kernels \ {k} : kernels'[j] = kernels[j]
  BY <1>1 DEF TypeOK, Kernel
<1>3. KernelsMove
  <2> SUFFICES ASSUME NEW j \in Kernels
               PROVE  /\ kernels[j].state # "none" => kernels'[j].state # "none"
                      /\ ~Running(j)' => kernels'[j].inbox = <<>>
    BY DEF KernelsMove
  <2>1. CASE j = k
    BY <2>1, <1>2 DEF Running
  <2>2. CASE j # k
    BY <2>2, <1>2 DEF Known, Running
  <2> QED
    BY <2>1, <2>2
<1> QED
  BY <1>2, <1>3 DEF Running

\* Send and Execute change the inbox of a running kernel.
LEMMA InboxMoves ==
    ASSUME TypeOK, Known, NEW k \in Kernels, Running(k), NEW q,
           kernels' = [kernels EXCEPT ![k].inbox = q]
    PROVE  /\ KernelsMove
           /\ \A j \in Kernels : Running(j)' <=> Running(j)
           /\ kernels'[k].inbox = q
           /\ \A j \in Kernels \ {k} : kernels'[j] = kernels[j]
<1>1. kernels[k] \in Kernel
  BY DEF TypeOK
<1>2. /\ kernels'[k].state = kernels[k].state /\ kernels'[k].inbox = q
      /\ \A j \in Kernels \ {k} : kernels'[j] = kernels[j]
  BY <1>1 DEF TypeOK, Kernel
<1>3. \A j \in Kernels : kernels'[j].state = kernels[j].state
  BY <1>2
<1>4. KernelsMove
  <2> SUFFICES ASSUME NEW j \in Kernels
               PROVE  /\ kernels[j].state # "none" => kernels'[j].state # "none"
                      /\ ~Running(j)' => kernels'[j].inbox = <<>>
    BY DEF KernelsMove
  <2>1. CASE j = k
    BY <2>1, <1>2 DEF Running
  <2>2. CASE j # k
    BY <2>2, <1>2 DEF Known, Running
  <2> QED
    BY <2>1, <2>2
<1> QED
  BY <1>2, <1>3, <1>4 DEF Running

LEMMA KernelsStep == ASSUME TypeOK, Known, [Next]_vars PROVE KernelsMove
<1> USE DEF server, session
<1>1. CASE Send
  <2>1. CASE link /\ Running(kid)
    BY <1>1, <2>1, InboxMoves DEF Send, TypeOK
  <2>2. CASE ~(link /\ Running(kid))
    BY <1>1, <2>2, SameMoves DEF Send
  <2> QED
    BY <2>1, <2>2
<1>2. CASE Discard
  BY <1>2, DeleteMoves DEF Discard, TypeOK
<1>3. ASSUME NEW k \in Kernels, Create(k) PROVE KernelsMove
  BY <1>3, StartMoves DEF Create
<1>4. ASSUME NEW k \in Kernels, CreateAnswerLost(k) PROVE KernelsMove
  BY <1>4, StartMoves DEF CreateAnswerLost
<1>5. CASE EstablishFails
  BY <1>5, DeleteMoves DEF EstablishFails, TypeOK
<1>6. ASSUME NEW k \in Kernels, Execute(k) PROVE KernelsMove
  <2>1. kernels' = [kernels EXCEPT ![k].inbox = Tail(kernels[k].inbox)]
    BY <1>6 DEF Execute
  <2> QED
    BY <1>6, <2>1, InboxMoves DEF Execute
<1>7. ASSUME NEW k \in Kernels, KernelDies(k) PROVE KernelsMove
  BY <1>7, GoneMoves DEF KernelDies
<1>8. CASE CleanupDelete
  BY <1>8, DeleteMoves DEF CleanupDelete, TypeOK
<1>9. CASE \/ Calls \/ Absorb \/ Answered \/ AttemptFails \/ Return \/ CreateFails \/ Establish
           \/ SocketDrops \/ PeerStopsReading \/ SendGoesOn \/ Stop \/ CleanupClose \/ Exit \/ UNCHANGED vars
  BY <1>9, SameMoves DEF Calls, Call, Absorb, Answered, AttemptFails, Return, CreateFails,
                         Establish, SocketDrops, PeerStopsReading, SendGoesOn, Stop, CleanupClose, Exit, vars
<1> QED
  BY <1>1, <1>2, <1>3, <1>4, <1>5, <1>6, <1>7, <1>8, <1>9 DEF Next, Worker, Server, Cleanup

LEMMA KnownStep == ASSUME TypeOK, Known, [Next]_vars PROVE Known'
<1> USE DEF server, session
<1>1. KernelsMove
  BY KernelsStep
<1>2. CASE Establish
  <2>1. call \in CallRecord
    BY <1>2, BusyCall DEF Establish, Busy
  <2>2. kid' = call.new /\ kid' \in Kernels /\ call'.step = "send"
    BY <1>2, <2>1 DEF Establish, CallRecord, TypeOK
  <2>3. kernels'[kid'].state # "none"
    BY <1>1, <1>2, <2>2 DEF KernelsMove, Known, Establish
  <2> QED
    BY <1>1, <2>2, <2>3 DEF KernelsMove, Known, Running
<1>3. ASSUME NEW k \in Kernels, Create(k) PROVE Known'
  <2>1. call \in CallRecord
    BY <1>3, BusyCall DEF Create, Busy
  <2>2. call'.new = k /\ kid' = kid
    BY <1>3, <2>1 DEF Create, CallRecord
  <2>3. Running(k)'
    BY <1>3, StartMoves DEF Create
  <2> QED
    BY <1>1, <2>2, <2>3 DEF KernelsMove, Known, Running, TypeOK
<1>4. CASE /\ kid' = kid
           /\ call' = call \/ call'.step # "establish"
  BY <1>1, <1>4 DEF KernelsMove, Known, Running, TypeOK
<1>5. CASE Calls
  BY <1>4, <1>5 DEF Calls, Call
<1>6. CASE Send \/ Answered \/ AttemptFails \/ Discard
  <2>1. call \in CallRecord
    BY <1>6, BusyCall DEF Send, Answered, AttemptFails, Discard, Busy
  <2>2. kid' = kid
    BY <1>6 DEF Send, Answered, AttemptFails, Discard
  <2>3. call'.step # "establish"
    <3>1. CASE Send \/ Answered \/ Discard
      BY <3>1, <2>1 DEF Send, Answered, Discard, CallRecord
    <3>2. CASE AttemptFails
      BY <3>2, <2>1 DEF AttemptFails, CallRecord, Idle
    <3> QED
      BY <1>6, <3>1, <3>2
  <2> QED
    BY <1>4, <2>2, <2>3
<1>7. CASE \/ Return \/ CreateFails \/ EstablishFails \/ Exit
           \/ \E k \in Kernels : CreateAnswerLost(k)
  BY <1>4, <1>7 DEF Return, CreateFails, EstablishFails, Exit, CreateAnswerLost, Idle
<1>8. CASE \/ Absorb \/ SocketDrops \/ PeerStopsReading \/ SendGoesOn \/ Stop \/ CleanupDelete \/ CleanupClose \/ UNCHANGED vars
           \/ \E k \in Kernels : Execute(k) \/ KernelDies(k)
  BY <1>4, <1>8 DEF Absorb, SocketDrops, PeerStopsReading, SendGoesOn, Stop, CleanupDelete, CleanupClose, Execute, KernelDies,
                    vars
<1> QED
  BY <1>2, <1>3, <1>5, <1>6, <1>7, <1>8 DEF Next, Worker, Server, Cleanup

LEMMA QueuedKept ==
    ASSUME TypeOK, Queued, Sorted, NothingSent, log' = log,
           \A k \in Kernels : Running(k)' => Running(k) \/ kernels'[k].inbox = <<>>
    PROVE  Queued' /\ Sorted'
<1>1. Sorted'
  BY DEF Sorted
<1>2. ASSUME NEW k \in Kernels, Running(k)', NEW j \in 1..Len(kernels'[k].inbox)
      PROVE  /\ \A i \in 1..Len(log') : log'[i].req.rid =< kernels'[k].inbox[j].rid
             /\ \A i \in 1..j : kernels'[k].inbox[i].rid =< kernels'[k].inbox[j].rid
  <2>0. kernels'[k].inbox # <<>>
    BY <1>2
  <2>1. Running(k) /\ kernels'[k].inbox = kernels[k].inbox
    BY <1>2, <2>0 DEF NothingSent
  <2> QED
    BY <1>2, <2>1 DEF Queued
<1> QED
  BY <1>1, <1>2 DEF Queued, Running

\* An unslipped step that starts no kernel leaves at most the kernels running
\* that were.
LEMMA AliveKept ==
    ASSUME TypeOK, Alive,
           \A k \in Kernels : Running(k)' => Running(k),
           kid' = kid, main' = main, Busy' => Busy,
           call' = call \/ call'.step \notin {"create", "establish"},
           call.step = "establish" => call' = call \/ kernels'[call.new].state # "running"
    PROVE  Alive'
<1>1. \A j, k \in Kernels : Running(j)' /\ Running(k)' => j = k
  BY DEF Alive
<1>2. main' = "gone" => ~Busy'
  BY DEF Alive
<1>3. main' # "gone" => \A k \in Kernels : Running(k)' =>
          k = kid' \/ (call'.step = "establish" /\ k = call'.new)
  BY DEF Alive, Running
<1>4. call'.step \in {"create", "establish"} => ~Running(kid)'
  BY DEF Alive, TypeOK, Running
<1> QED
  BY <1>1, <1>2, <1>3, <1>4 DEF Alive, Running

LEMMA OrderCall ==
    ASSUME TypeOK, Alive, Queued, Sorted, NEW op \in Ops, NEW v \in Value, Call(op, v)
    PROVE  Alive' /\ Queued' /\ Sorted'
<1> USE DEF server, session
<1>1. /\ kernels' = kernels /\ log' = log /\ kid' = kid /\ main' = main
      /\ call'.step = "send" /\ call.step = "idle" /\ main # "gone"
  BY DEF Call, Idle
<1>2. Alive'
  BY <1>1 DEF Alive, Running
<1> QED
  BY <1>1, <1>2, QueuedKept DEF NothingSent, Running

LEMMA OrderSend ==
    ASSUME TypeOK, Requests, Known, Alive, Queued, Sorted, Send
    PROVE  Alive' /\ Queued' /\ Sorted'
<1> USE DEF server, session
<1>0. call \in CallRecord
  BY BusyCall DEF Send, Busy
<1>1. /\ log' = log /\ kid' = kid /\ main' = main
      /\ call.step = "send" /\ call'.step = "poll" /\ Busy /\ Busy'
  BY <1>0 DEF Send, CallRecord, Busy
<1>2. CASE kernels' = kernels
  <2>1. Alive'
    BY <1>1, <1>2, AliveKept DEF Running
  <2> QED
    BY <1>1, <1>2, <2>1, QueuedKept DEF NothingSent, Running
<1>3. CASE link /\ Running(kid)
  <2>1. /\ \A j \in Kernels : Running(j)' <=> Running(j)
        /\ kernels'[kid].inbox = Append(kernels[kid].inbox, call.req)
        /\ \A j \in Kernels \ {kid} : kernels'[j] = kernels[j]
    BY <1>3, InboxMoves DEF Send, TypeOK
  <2>2. Alive'
    BY <1>1, <2>1, AliveKept
  <2>3. /\ kernels[kid].inbox \in Seq(Request) /\ call.req \in Request /\ call.req.rid = rid
        /\ rid \in Nat
    BY <1>0, <1>1 DEF TypeOK, Kernel, CallRecord, Requests
  <2> DEFINE q == kernels[kid].inbox
             n == Len(q)
  <2>4. /\ n \in Nat /\ Len(kernels'[kid].inbox) = n + 1
        /\ kernels'[kid].inbox[n + 1] = call.req
        /\ \A i \in 1..n : kernels'[kid].inbox[i] = q[i]
    BY <2>1, <2>3
  <2>5. \A i \in 1..n : q[i].rid =< rid
    BY <2>3 DEF Requests, Mine, TypeOK
  <2>6. \A i \in 1..Len(log') : log'[i].req.rid =< rid
    BY <1>1, <2>3 DEF Requests, Mine
  <2>7. ASSUME NEW j \in 1..(n + 1)
        PROVE  /\ \A i \in 1..Len(log') : log'[i].req.rid =< kernels'[kid].inbox[j].rid
               /\ \A i \in 1..j : kernels'[kid].inbox[i].rid =< kernels'[kid].inbox[j].rid
    <3>1. CASE j \in 1..n
      <4>1. /\ \A i \in 1..Len(log) : log[i].req.rid =< q[j].rid
            /\ \A i \in 1..j : q[i].rid =< q[j].rid
        BY <3>1, <1>3 DEF Queued, TypeOK
      <4>2. \A i \in 1..j : i \in 1..n
        BY <2>4, <3>1
      <4> QED
        BY <2>4, <3>1, <4>1, <4>2, <1>1
    <3>2. CASE j = n + 1
      <4>1. kernels'[kid].inbox[j].rid = rid
        BY <2>3, <2>4, <3>2
      <4>2. ASSUME NEW i \in 1..j PROVE kernels'[kid].inbox[i].rid =< rid
        <5>1. CASE i \in 1..n
          BY <5>1, <2>4, <2>5
        <5>2. CASE i = j
          BY <5>2, <4>1, <2>3
        <5> QED
          BY <5>1, <5>2, <2>4, <3>2
      <4> QED
        BY <2>6, <4>1, <4>2
    <3>3. j \in 1..n \/ j = n + 1
      BY <2>4
    <3> QED
      BY <3>1, <3>2, <3>3
  <2>8. ASSUME NEW k \in Kernels \ {kid}, Running(k)', NEW j \in 1..Len(kernels'[k].inbox)
        PROVE  /\ \A i \in 1..Len(log') : log'[i].req.rid =< kernels'[k].inbox[j].rid
               /\ \A i \in 1..j : kernels'[k].inbox[i].rid =< kernels'[k].inbox[j].rid
    BY <2>1, <2>8, <1>1 DEF Queued
  <2>9. Queued'
    BY <2>4, <2>7, <2>8 DEF Queued, Running
  <2> QED
    BY <2>2, <2>9, <1>1 DEF Sorted
<1> QED
  BY <1>2, <1>3 DEF Send

LEMMA OrderExecute ==
    ASSUME TypeOK, Known, Alive, Queued, Sorted, NEW k \in Kernels, Execute(k)
    PROVE  Alive' /\ Queued' /\ Sorted'
<1> USE DEF server, session
<1> DEFINE q == kernels[k].inbox
           n == Len(log)
<1>1. /\ q \in Seq(Request) /\ q # <<>> /\ Running(k)
      /\ Head(q) = q[1] /\ 1 \in 1..Len(q) /\ Len(q) \in Nat
      /\ call' = call /\ kid' = kid /\ main' = main
      /\ log \in Seq([req: Request, answer: Answers])
  BY DEF Execute, TypeOK, Kernel
<1>2. /\ \A j \in Kernels : Running(j)' <=> Running(j)
      /\ kernels'[k].inbox = Tail(q)
      /\ \A j \in Kernels \ {k} : kernels'[j] = kernels[j]
  <2>1. kernels' = [kernels EXCEPT ![k].inbox = Tail(q)]
    BY DEF Execute
  <2> QED
    BY <1>1, <2>1, InboxMoves
<1>3. Alive'
  BY <1>1, <1>2, AliveKept DEF Busy
<1>4. /\ n \in Nat /\ Len(log') = n + 1
      /\ log'[n + 1].req = q[1]
      /\ \A i \in 1..n : log'[i] = log[i]
  BY <1>1 DEF Execute
<1>5. /\ \A j \in 1..Len(q) : \A i \in 1..n : log[i].req.rid =< q[j].rid
      /\ \A j \in 1..Len(q) : \A i \in 1..j : q[i].rid =< q[j].rid
  BY <1>1 DEF Queued
<1>6. \A j \in 1..Len(Tail(q)) : Tail(q)[j] = q[j + 1] /\ j + 1 \in 1..Len(q)
  BY <1>1
<1>7. ASSUME NEW j \in 1..Len(Tail(q))
      PROVE  /\ \A i \in 1..Len(log') : log'[i].req.rid =< Tail(q)[j].rid
             /\ \A i \in 1..j : Tail(q)[i].rid =< Tail(q)[j].rid
  <2>1. Tail(q)[j] = q[j + 1] /\ j + 1 \in 1..Len(q)
    BY <1>6
  <2>2. \A i \in 1..n : log'[i].req.rid =< Tail(q)[j].rid
    BY <1>4, <1>5, <2>1
  <2>3. log'[n + 1].req.rid =< Tail(q)[j].rid
    BY <1>1, <1>4, <1>5, <2>1
  <2>4. \A i \in 1..j : i + 1 \in 1..(j + 1) /\ Tail(q)[i] = q[i + 1]
    BY <1>6, <2>1
  <2>5. \A i \in 1..Len(log') : i \in 1..n \/ i = n + 1
    BY <1>4
  <2> QED
    BY <1>5, <2>1, <2>2, <2>3, <2>4, <2>5
<1>8. Queued'
  <2> SUFFICES ASSUME NEW m \in Kernels, Running(m)', NEW j \in 1..Len(kernels'[m].inbox)
               PROVE  /\ \A i \in 1..Len(log') : log'[i].req.rid =< kernels'[m].inbox[j].rid
                      /\ \A i \in 1..j : kernels'[m].inbox[i].rid =< kernels'[m].inbox[j].rid
    BY DEF Queued, Running
  <2>1. m = k
    BY <1>1, <1>2 DEF Alive
  <2> QED
    BY <2>1, <1>2, <1>7
<1>9. Sorted'
  <2> SUFFICES ASSUME NEW j \in 1..Len(log')
               PROVE  \A i \in 1..j : log'[i].req.rid =< log'[j].req.rid
    BY DEF Sorted
  <2>1. CASE j \in 1..n
    <3>1. \A i \in 1..j : i \in 1..n
      BY <2>1, <1>4
    <3> QED
      BY <2>1, <3>1, <1>4 DEF Sorted
  <2>2. CASE j = n + 1
    <3>1. ASSUME NEW i \in 1..n PROVE log'[i].req.rid =< log'[j].req.rid
      BY <2>2, <3>1, <1>1, <1>4, <1>5
    <3>2. log'[j].req.rid =< log'[j].req.rid
      <4>1. log'[j].req \in Request
        BY <2>2, <1>1, <1>4
      <4>2. log'[j].req.rid \in Nat
        BY <4>1, BoundsAssumption DEF Request
      <4> QED
        BY <4>2
    <3>3. \A i \in 1..j : i \in 1..n \/ i = j
      BY <2>2, <1>4
    <3> QED
      BY <3>1, <3>2, <3>3
  <2>3. j \in 1..n \/ j = n + 1
    BY <1>4
  <2> QED
    BY <2>1, <2>2, <2>3
<1> QED
  BY <1>3, <1>8, <1>9

\* The steps of a call that execute and send nothing.
LEMMA OrderWorker ==
    ASSUME TypeOK, Known, Alive, Queued, Sorted, ~slipped',
           \/ Absorb \/ Answered \/ AttemptFails \/ Return \/ Discard \/ CreateFails \/ EstablishFails
    PROVE  Alive' /\ Queued' /\ Sorted'
<1> USE DEF server, session
<1>1. log' = log /\ kid' = kid /\ main' = main
  BY DEF Absorb, Answered, AttemptFails, Return, Discard, CreateFails, EstablishFails
<1>2. CASE Absorb \/ Answered \/ AttemptFails
  <2>1. kernels' = kernels /\ Busy
    BY <1>2 DEF Absorb, Answered, AttemptFails, Busy
  <2>2. call \in CallRecord
    BY <2>1, BusyCall
  <2>3. /\ call' = call \/ call'.step \notin {"create", "establish"}
        /\ call.step = "establish" => call' = call
    <3>1. CASE Absorb \/ Answered
      BY <3>1, <2>2 DEF Absorb, Answered, CallRecord
    <3>2. CASE AttemptFails
      BY <3>2, <2>2 DEF AttemptFails, CallRecord, Idle
    <3> QED
      BY <1>2, <3>1, <3>2
  <2> QED
    BY <1>1, <2>1, <2>3, AliveKept, QueuedKept DEF NothingSent, Running
<1>3. CASE Return \/ CreateFails
  <2>1. kernels' = kernels /\ call' = Idle /\ call.step # "establish" /\ Busy
    BY <1>3 DEF Return, CreateFails, Busy
  <2>2. call'.step \notin {"create", "establish"}
    BY <2>1 DEF Idle
  <2> QED
    BY <1>1, <2>1, <2>2, AliveKept, QueuedKept DEF NothingSent, Running
<1>4. CASE Discard
  <2>1. call \in CallRecord /\ Busy
    BY <1>4, BusyCall DEF Discard, Busy
  <2>2. call'.step = "create" /\ call.step = "discard"
    BY <1>4, <2>1 DEF Discard, CallRecord
  <2>3. /\ \A j \in Kernels : Running(j)' => Running(j)
        /\ ~Running(kid)'
        /\ NothingSent
    BY <1>4, DeleteMoves, DeleteSends DEF Discard, TypeOK
  <2>4. \A k \in Kernels : Running(k)' => k = kid
    BY <2>1, <2>2, <2>3 DEF Alive
  <2>5. Alive'
    BY <1>1, <2>1, <2>2, <2>3, <2>4 DEF Alive, Running, Busy
  <2> QED
    BY <1>1, <2>3, <2>5, QueuedKept
<1>5. CASE EstablishFails
  <2>1. call.new \in Kernels /\ Delete(call.new) /\ call'.step = "idle" /\ Busy
    BY <1>5 DEF EstablishFails, TypeOK, Idle, Busy
  <2>2. /\ \A j \in Kernels : Running(j)' => Running(j)
        /\ kernels'[call.new].state # "running"
        /\ NothingSent
    BY <2>1, DeleteMoves, DeleteSends DEF Running
  <2> QED
    BY <1>1, <2>1, <2>2, AliveKept, QueuedKept
<1> QED
  BY <1>2, <1>3, <1>4, <1>5

\* The steps that give the session another kernel.
LEMMA OrderReconnect ==
    ASSUME TypeOK, Known, Alive, Queued, Sorted, ~slipped',
           Establish \/ \E k \in Kernels : Create(k) \/ CreateAnswerLost(k)
    PROVE  Alive' /\ Queued' /\ Sorted'
<1> USE DEF server, session
<1>1. CASE Establish
  <2>1. call \in CallRecord /\ Busy
    BY <1>1, BusyCall DEF Establish, Busy
  <2>2. /\ kid' = call.new /\ call'.step = "send" /\ call.step = "establish"
        /\ kernels' = kernels /\ log' = log /\ main' = main
    BY <1>1, <2>1 DEF Establish, CallRecord
  <2>3. Alive'
    BY <2>1, <2>2 DEF Alive, Running, Busy
  <2> QED
    BY <2>2, <2>3, QueuedKept DEF NothingSent, Running
<1>2. ASSUME NEW k \in Kernels, Create(k) PROVE Alive' /\ Queued' /\ Sorted'
  <2>1. call \in CallRecord /\ Busy
    BY <1>2, BusyCall DEF Create, Busy
  <2>2. /\ kid' = kid /\ call'.step = "establish" /\ call'.new = k /\ call.step = "create"
        /\ log' = log /\ main' = main
        /\ kernels' = [kernels EXCEPT ![k].state = "running"]
    BY <1>2, <2>1 DEF Create, CallRecord
  <2>3. /\ \A j \in Kernels \ {k} : kernels'[j] = kernels[j]
        /\ kernels'[k].inbox = kernels[k].inbox
    BY <2>2, StartMoves
  <2>4. \A j \in Kernels : ~Running(j)
    BY <2>1, <2>2 DEF Alive
  <2>5. \A j \in Kernels : Running(j)' => j = k
    BY <2>3, <2>4 DEF Running
  <2>6. k # kid
    BY <1>2 DEF Create, Fresh, Known
  <2>7. Alive'
    BY <2>1, <2>2, <2>5, <2>6 DEF Alive, Running, Busy, TypeOK
  <2>8. kernels'[k].inbox = <<>>
    BY <2>3, <2>4 DEF Known
  <2>9. \A j \in Kernels : Running(j)' => kernels'[j].inbox = <<>>
    BY <2>5, <2>8
  <2>10. NothingSent
    BY <2>2, StartSends
  <2> QED
    BY <2>2, <2>7, <2>9, <2>10, QueuedKept
<1>3. ASSUME NEW k \in Kernels, CreateAnswerLost(k) PROVE FALSE
  BY <1>3 DEF CreateAnswerLost
<1> QED
  BY <1>1, <1>2, <1>3

\* The steps of the server and of the main thread that execute nothing.
LEMMA OrderServer ==
    ASSUME TypeOK, Known, Alive, Queued, Sorted, ~slipped',
           \/ SocketDrops \/ PeerStopsReading \/ SendGoesOn \/ Stop \/ CleanupDelete \/ CleanupClose \/ Exit
           \/ \E k \in Kernels : KernelDies(k)
           \/ UNCHANGED vars
    PROVE  Alive' /\ Queued' /\ Sorted'
<1> USE DEF server, session
<1>1. log' = log /\ kid' = kid
  BY DEF SocketDrops, PeerStopsReading, SendGoesOn, Stop, CleanupDelete, CleanupClose, Exit, KernelDies, vars
<1>2. (\A k \in Kernels : Running(k)' => Running(k)) /\ NothingSent
  <2>1. ASSUME NEW k \in Kernels, KernelDies(k)
        PROVE  (\A j \in Kernels : Running(j)' => Running(j)) /\ NothingSent
    BY <2>1, GoneMoves, GoneSends DEF KernelDies
  <2>2. CASE CleanupDelete
    BY <2>2, DeleteMoves, DeleteSends DEF CleanupDelete, TypeOK
  <2>3. CASE kernels' = kernels
    BY <2>3 DEF Running, NothingSent
  <2> QED
    BY <2>1, <2>2, <2>3 DEF SocketDrops, PeerStopsReading, SendGoesOn, Stop, CleanupClose, Exit, vars
<1>3. Queued' /\ Sorted'
  BY <1>1, <1>2, QueuedKept
<1>4. CASE Exit
  <2>1. call'.step = "idle" /\ main' = "gone"
    BY <1>4 DEF Exit, Idle
  <2> QED
    BY <1>1, <1>2, <1>3, <2>1 DEF Alive, Running, Busy
<1>5. CASE ~Exit
  <2>1. call' = call
    BY <1>5 DEF SocketDrops, PeerStopsReading, SendGoesOn, Stop, CleanupDelete, CleanupClose, KernelDies, vars
  <2>2. CASE main' = main
    BY <1>1, <1>2, <1>3, <2>1, <2>2 DEF Alive, Running, Busy, TypeOK
  <2>3. CASE main # "gone" /\ main' # "gone"
    BY <1>1, <1>2, <1>3, <2>1, <2>3 DEF Alive, Running, Busy, TypeOK
  <2> QED
    BY <1>5, <2>2, <2>3 DEF SocketDrops, PeerStopsReading, SendGoesOn, Stop, CleanupDelete, CleanupClose, KernelDies, vars
<1> QED
  BY <1>4, <1>5

LEMMA SlippedStays == ASSUME TypeOK, [Next]_vars, ~slipped' PROVE ~slipped
<1> USE DEF server, session
<1>1. CASE Discard \/ EstablishFails \/ CleanupDelete
  BY <1>1 DEF Discard, EstablishFails, CleanupDelete, Delete
<1>2. ASSUME NEW k \in Kernels, Create(k) \/ CreateAnswerLost(k) PROVE ~slipped
  BY <1>2 DEF Create, CreateAnswerLost
<1>3. CASE \/ Calls \/ Send \/ Absorb \/ Answered \/ AttemptFails \/ Return \/ CreateFails
           \/ Establish
  BY <1>3 DEF Calls, Call, Send, Absorb, Answered, AttemptFails, Return, CreateFails, Establish
<1>4. CASE Server \/ Stop \/ CleanupClose \/ Exit \/ UNCHANGED vars
  BY <1>4 DEF Server, SocketDrops, PeerStopsReading, SendGoesOn, Execute, KernelDies, Stop, CleanupClose, Exit, vars
<1> QED
  BY <1>1, <1>2, <1>3, <1>4 DEF Next, Worker, Cleanup

LEMMA OrderInit == Init => OrderInv
<1> SUFFICES ASSUME Init PROVE OrderInv
  OBVIOUS
<1>1. Known
  BY KernelsNat DEF Init, Known, Running, Idle
<1>2. Alive
  BY KernelsNat DEF Init, Alive, Running, Busy, Idle
<1>3. Queued /\ Sorted
  BY DEF Init, Queued, Sorted
<1> QED
  BY <1>1, <1>2, <1>3, OwnInit DEF OrderInv

LEMMA OrderStep == OrderInv /\ [Next]_vars => OrderInv'
<1> SUFFICES ASSUME OrderInv, [Next]_vars PROVE OrderInv'
  OBVIOUS
<1>1. OwnInv' /\ Known' /\ TypeOK /\ Requests /\ Known
  BY OwnStep, KnownStep DEF OrderInv, OwnInv
<1>2. ASSUME ~slipped' PROVE Alive' /\ Queued' /\ Sorted'
  <2>1. Alive /\ Queued /\ Sorted
    BY <1>1, <1>2, SlippedStays DEF OrderInv
  <2>2. ASSUME NEW op \in Ops, NEW v \in Value, Call(op, v) PROVE Alive' /\ Queued' /\ Sorted'
    BY <1>1, <2>1, <2>2, OrderCall
  <2>3. CASE Send
    BY <1>1, <2>1, <2>3, OrderSend
  <2>4. ASSUME NEW k \in Kernels, Execute(k) PROVE Alive' /\ Queued' /\ Sorted'
    BY <1>1, <2>1, <2>4, OrderExecute
  <2>5. CASE \/ Absorb \/ Answered \/ AttemptFails \/ Return \/ Discard \/ CreateFails
             \/ EstablishFails
    BY <1>1, <1>2, <2>1, <2>5, OrderWorker
  <2>6. CASE Establish \/ \E k \in Kernels : Create(k) \/ CreateAnswerLost(k)
    BY <1>1, <1>2, <2>1, <2>6, OrderReconnect
  <2>7. CASE \/ SocketDrops \/ PeerStopsReading \/ SendGoesOn \/ Stop \/ CleanupDelete \/ CleanupClose \/ Exit
             \/ \E k \in Kernels : KernelDies(k)
             \/ UNCHANGED vars
    BY <1>1, <1>2, <2>1, <2>7, OrderServer
  <2> QED
    BY <2>2, <2>3, <2>4, <2>5, <2>6, <2>7 DEF Next, Calls, Worker, Server, Cleanup
<1> QED
  BY <1>1, <1>2 DEF OrderInv

LEMMA OrderImplies == OrderInv => ExecutedInOrder
  BY DEF OrderInv, Sorted, ExecutedInOrder, OwnInv, TypeOK

LEMMA OneImplies == OrderInv => OneKernel
<1> SUFFICES ASSUME OrderInv, ~slipped PROVE Cardinality({k \in Kernels : Running(k)}) =< 1
  BY DEF OneKernel
<1> DEFINE R == {k \in Kernels : Running(k)}
<1>1. CASE R = {}
  BY <1>1, FS_EmptySet
<1>2. CASE R # {}
  <2>1. PICK k \in R : TRUE
    BY <1>2
  <2>2. R = {k}
    BY <2>1 DEF OrderInv, Alive
  <2>3. Cardinality({k}) = 1
    BY FS_Singleton
  <2> QED
    BY <2>2, <2>3
<1> QED
  BY <1>1, <1>2

\* Requests are executed in the order of their calls, whatever is lost,
\* abandoned or sent again, until an HTTP call goes wrong half-way
\* (KernelConn.call's lock and reconnect: the old kernel is deleted first).
THEOREM OrderCorrect == Spec => []ExecutedInOrder
<1>1. Spec => []OrderInv
  BY OrderInit, OrderStep, PTL DEF Spec
<1> QED
  BY <1>1, OrderImplies, PTL

\* A session has at most one kernel running, until an HTTP call goes wrong
\* half-way (live_session._new_kernel_channel, kernel_conn._reconnect).
THEOREM OneKernelCorrect == Spec => []OneKernel
<1>1. Spec => []OrderInv
  BY OrderInit, OrderStep, PTL DEF Spec
<1> QED
  BY <1>1, OneImplies, PTL
=============================================================================
