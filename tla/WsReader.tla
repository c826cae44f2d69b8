------------------------------ MODULE WsReader ------------------------------
(***************************************************************************)
(* The receiving side of a websocket (src/jp/_ws.py): frames cut out of    *)
(* the bytes that have arrived, and messages put together from frames.     *)
(*                                                                         *)
(* A frame is two cells on the wire, its first bytes and the rest; the     *)
(* text of a message is two halves, and a fragmented message has one in    *)
(* each of its frames.                                                     *)
(***************************************************************************)
EXTENDS Integers, Sequences, SequencesExt

\* What an opcode and the FIN bit say, and the payload.
Frame(op, fin, payload) == [op |-> op, fin |-> fin, payload |-> payload]
Halves(msg) == <<[msg |-> msg, half |-> 1], [msg |-> msg, half |-> 2]>>

\* The ways a server can frame a message: whole, or in two fragments with or
\* without a control frame between them.
Framings(msg) ==
    LET whole == Frame("text", TRUE, Halves(msg))
        begin == Frame("text", FALSE, <<Halves(msg)[1]>>)
        rest == Frame("cont", TRUE, <<Halves(msg)[2]>>)
        ping == Frame("ping", TRUE, <<>>)
    IN  {<<whole>>, <<begin, rest>>, <<begin, ping, rest>>}

OnWire(frames) ==
    [i \in 1..(2 * Len(frames)) |-> [frame |-> frames[(i + 1) \div 2], part |-> ((i + 1) % 2) + 1]]

\* Where parse_frame gets to: every frame of which the last byte is there.
CompleteFrames(buf) == [i \in 1..(Len(buf) \div 2) |-> buf[2 * i].frame]

NewReader == [buf |-> <<>>, frag |-> <<>>, closed |-> FALSE]

\* One frame of read_messages' loop; got has the messages so far.
TakeFrame(got, frame) ==
    CASE got.closed -> got
      [] ~got.closed /\ frame.op \in {"ping", "pong"} ->
             [got EXCEPT !.pings = @ + (IF frame.op = "ping" THEN 1 ELSE 0)]
      [] ~got.closed /\ frame.op = "close" -> [got EXCEPT !.closed = TRUE]
      [] ~got.closed /\ frame.op = "cont" /\ frame.fin ->
             [got EXCEPT !.messages = Append(@, got.frag \o frame.payload), !.frag = <<>>]
      [] ~got.closed /\ frame.op = "cont" /\ ~frame.fin ->
             [got EXCEPT !.frag = @ \o frame.payload]
      [] ~got.closed /\ frame.op = "text" /\ frame.fin ->
             [got EXCEPT !.messages = Append(@, frame.payload)]
      [] OTHER -> [got EXCEPT !.frag = frame.payload]

\* Mutant: a CLOSE ends the reading before what came with it is handed on.
ReadMessagesOrClose(reader, bytes) ==
    LET buf == reader.buf \o bytes
        frames == CompleteFrames(buf)
        start == [messages |-> <<>>, frag |-> reader.frag, closed |-> FALSE, pings |-> 0]
        got == FoldLeft(TakeFrame, start, frames)
    IN  [reader |-> [buf |-> SubSeq(buf, 2 * Len(frames) + 1, Len(buf)),
                     frag |-> got.frag, closed |-> got.closed],
         messages |-> IF got.closed THEN <<>> ELSE got.messages,
         pings |-> got.pings]
\* read_messages, once bytes have come in; nothing after a CLOSE is looked at.
ReadMessages(reader, bytes) ==
    LET buf == reader.buf \o bytes
        frames == CompleteFrames(buf)
        start == [messages |-> <<>>, frag |-> reader.frag, closed |-> FALSE, pings |-> 0]
        got == FoldLeft(TakeFrame, start, frames)
    IN  [reader |-> [buf |-> SubSeq(buf, 2 * Len(frames) + 1, Len(buf)),
                     frag |-> got.frag, closed |-> got.closed],
         messages |-> got.messages,
         pings |-> got.pings]

Nothing == [kind |-> "", data |-> <<>>]
\* parse_server_message: what is not one whole JSON text is ignored.
ParseServerMessage(payload) ==
    IF payload # <<>> /\ payload = Halves(payload[1].msg) THEN payload[1].msg ELSE Nothing
=============================================================================
