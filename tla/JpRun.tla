------------------------------- MODULE JpRun -------------------------------
(***************************************************************************)
(* jp run (src/jp/commands/run.py) and jp terminal (commands/terminal.py): *)
(* a temporary file and a terminal on the server, a websocket to the       *)
(* terminal's shell, the output pumped through it, and the clean-up that   *)
(* follows whatever happened before.  jp terminal has no temporary file    *)
(* and shows all the output; jp run shows the program's part of it.        *)
(*                                                                         *)
(* The server's side is the shell: it writes a program's output (after the *)
(* prompt and the echo of the command, between two markers) in pieces of   *)
(* any size, which come in frames, whole or fragmented, that arrive a part *)
(* at a time.  The connection may break anywhere, and the client need not  *)
(* be told: it has no timeout and sends no pings.                          *)
(***************************************************************************)
EXTENDS RunScanner, WsReader

CONSTANTS
    Programs,      \* the programs: what comes before the marker, the output, the status
    Commands,      \* "run" and "terminal"
    ClearSeq,      \* clear_seq
    Chunks,        \* the sizes of the pieces a terminal sends
    MaxTries,      \* names tried for the temporary file
    MaxWire        \* bound: cells on the wire

ASSUME ProgramsAssumption ==
    \A p \in Programs : /\ p.before \in Seq(Bytes) /\ p.out \in Seq(Bytes)
                        /\ p.code \in Seq(Bytes) /\ ExitStatus(p.code)
\* secrets.token_hex(8): what the program and the prompt print has no ESC that
\* the token follows (the echo of the command line has it after "\\033").
NoToken(text) == \A i \in 1..(Len(text) - 1) : ~(text[i] = "e" /\ text[i + 1] = "j")
ASSUME TokenAssumption == \A p \in Programs : NoToken(p.before) /\ NoToken(p.out)
ASSUME RunAssumption ==
    /\ Commands \subseteq {"run", "terminal"}
    /\ ClearSeq \in Seq(Bytes)
    /\ Chunks \subseteq Nat \ {0} /\ MaxTries \in Nat \ {0} /\ MaxWire \in Nat

VARIABLES
    command,  \* which of the two commands
    prog,     \* the program that the shell runs
    temp,     \* the temporary file: "none", "there", "gone"
    shell,    \* the terminal: "none", "idle", "running", "exited", "gone"
    sent,     \* how much of the terminal's output has been written
    link,     \* the connection: "none", "up", "ended" (by the server), "closed", or
              \* broken: "cut" (reads find its end), "failing" (reads fail), "silent"
    wire,     \* what the server has sent and the client has not received
    step,     \* where the client is
    tries,    \* names tried
    reader,   \* WebSocket: _buf, _frag, closed
    scan,     \* the RunScanner
    screen,   \* what has been written to stdout
    raised,   \* is an exception on its way out?
    slipped   \* what a failed call may have left: "temp", "terminal"

server == <<temp, shell, sent>>
network == <<link, wire>>
client == <<step, tries, reader, scan, screen, raised>>
vars == <<command, prog, server, network, client, slipped>>

Stream == IF command = "run"
          THEN prog.before \o StartMarker \o prog.out \o EndMarker(prog.code)
          ELSE prog.before \o prog.out
\* rm -f -- "$f" comes before the end marker's printf.
RemovedAt == Len(prog.before \o StartMarker \o prog.out) + 1
Links == {"none", "up", "ended", "closed", "cut", "failing", "silent"}
ClientSteps == {"name", "put", "terminal", "again", "connect", "pump",
                "close", "endTerminal", "removeTemp", "done"}

TypeOK ==
    /\ command \in Commands /\ prog \in Programs
    /\ temp \in {"none", "there", "gone"}
    /\ shell \in {"none", "idle", "running", "exited", "gone"}
    /\ sent \in 0..Len(Stream)
    /\ link \in Links
    /\ Len(wire) <= MaxWire
    /\ step \in ClientSteps /\ tries \in 0..MaxTries
    /\ scan \in Scanner
    /\ screen \in Seq(Bytes)
    /\ {raised, reader.closed} \subseteq BOOLEAN
    /\ slipped \subseteq {"temp", "terminal"}

Init ==
    /\ command \in Commands /\ prog \in Programs
    /\ temp = "none" /\ shell = "none" /\ sent = 0
    /\ link = "none" /\ wire = <<>>
    /\ step = IF command = "run" THEN "name" ELSE "terminal"
    /\ tries = 0
    /\ reader = NewReader
    /\ scan = NewScanner
    /\ screen = <<>>
    /\ raised = FALSE /\ slipped = {}

-----------------------------------------------------------------------------
(* The server.                                                             *)

Message(kind, data) == [kind |-> kind, data |-> data]
CloseFrame == Frame("close", TRUE, <<>>)
\* What is sent is lost if the link is gone.
Send(choices) ==
    \/ link # "up" /\ UNCHANGED wire
    \/ /\ link = "up"
       /\ \E frames \in choices : wire' = wire \o OnWire(frames)
       /\ Len(wire') <= MaxWire

\* The terminal writes its next n bytes, or what is left of them; nobody can
\* tell how it writes when the link is gone.
Emit(n) ==
    /\ shell = "running" /\ sent < Len(Stream)
    /\ sent' = IF link # "up" \/ sent + n > Len(Stream) THEN Len(Stream) ELSE sent + n
    /\ temp' = IF temp = "there" /\ sent' >= RemovedAt THEN "gone" ELSE temp
    /\ Send(Framings(Message("stdout", SubSeq(Stream, sent + 1, sent'))))
    /\ UNCHANGED <<command, prog, shell, link, client, slipped>>

\* The shell exits: terminado says so and closes the websocket.
ShellExits ==
    /\ shell = "running" /\ sent = Len(Stream)
    /\ shell' = "exited"
    /\ link' = IF link = "up" THEN "ended" ELSE link
    /\ Send({Append(frames, CloseFrame) : frames \in Framings(Message("disconnect", <<>>))})
    /\ UNCHANGED <<command, prog, temp, sent, client, slipped>>

\* The connection breaks, or its peer is gone: some of what was on its way is
\* lost.  What is silent may be found broken later.
Cut ==
    /\ link \in {"up", "silent"}
    /\ link' \in {"cut", "failing", "silent"}
    /\ \E n \in 0..Len(wire) : wire' = SubSeq(wire, 1, n)
    /\ UNCHANGED <<command, prog, server, client, slipped>>

-----------------------------------------------------------------------------
(* The client up to the connection.  A call that fails may have done its   *)
(* work; an exception leads through the finally clauses that are open.     *)

\* Mutant: names are tried without an end.
PickNameForever ==
    /\ step = "name"
    /\ \/ step' = "put" /\ tries' = 0
       \/ tries' = tries + 1 /\ UNCHANGED step
    /\ UNCHANGED <<command, prog, server, network, reader, scan, screen, raised, slipped>>
\* A random name is tried until stat finds it free.
PickName ==
    /\ step = "name"
    /\ \/ step' = "put" /\ tries' = 0 /\ UNCHANGED raised
       \/ /\ tries < MaxTries - 1
          /\ tries' = tries + 1 /\ UNCHANGED <<step, raised>>
       \/ step' = "done" /\ raised' = TRUE /\ tries' = 0
    /\ UNCHANGED <<command, prog, server, network, reader, scan, screen, slipped>>

PutTemp ==
    /\ step = "put"
    /\ \/ temp' = "there" /\ step' = "terminal" /\ UNCHANGED raised
       \/ temp' \in {"none", "there"} /\ step' = "removeTemp" /\ raised' = TRUE
    /\ UNCHANGED <<command, prog, shell, sent, network, tries, reader, scan, screen, slipped>>

\* Mutant: the file is removed only once there is a terminal.
NoTerminalNoFile == "done"
\* Where an exception in create_terminal leads.
NoTerminal == IF command = "run" THEN "removeTemp" ELSE "done"

\* create_terminal: a server that refuses the cwd is asked again without it.
CreateTerminal ==
    /\ step \in {"terminal", "again"}
    /\ \/ shell' = "idle" /\ step' = "connect" /\ UNCHANGED <<raised, slipped>>
       \/ /\ step = "terminal"
          /\ step' = "again" /\ UNCHANGED <<shell, raised, slipped>>
       \/ /\ shell' \in {"none", "idle"}
          /\ step' = NoTerminal /\ raised' = TRUE
          /\ slipped' = slipped \cup {"terminal"}
    /\ UNCHANGED <<command, prog, temp, sent, network, tries, reader, scan, screen>>

\* WebSocket.connect answers with an open connection or raises.
Handshake(ok) == link' = IF ok THEN "up" ELSE link

\* The handshake, and the command line that starts the program.
Connect ==
    /\ step = "connect"
    /\ \E ok \in BOOLEAN :
           /\ Handshake(ok)
           /\ step' = IF ok THEN "pump" ELSE "endTerminal"
           /\ shell' = IF ok THEN "running" ELSE shell
           /\ raised' = ~ok
    /\ UNCHANGED <<command, prog, temp, sent, wire, tries, reader, scan, screen, slipped>>

-----------------------------------------------------------------------------
(* The pump.                                                               *)

\* One message of _pump's loop: jp run filters it, jp terminal does not.
RunTakes(pumped, msg) ==
    LET fed == Feed(pumped.scan, msg.data, ClearSeq)
    IN  [scan |-> fed.scan, screen |-> pumped.screen \o fed.out, ends |-> fed.scan.done]
TerminalTakes(pumped, msg) == [pumped EXCEPT !.screen = @ \o msg.data]

\* What is no message is ignored; after the end of it nothing is looked at.
TakeMessage(pumped, payload) ==
    LET msg == ParseServerMessage(payload)
    IN  CASE pumped.ends -> pumped
          [] ~pumped.ends /\ msg.kind = "stdout" ->
                 IF command = "run" THEN RunTakes(pumped, msg) ELSE TerminalTakes(pumped, msg)
          [] ~pumped.ends /\ msg.kind = "disconnect" -> [pumped EXCEPT !.ends = TRUE]
          [] OTHER -> pumped

\* Mutant: the end of the stream is not noticed.
ReaderGoesOn(rdr, nothing, pongFails) == [rdr EXCEPT !.closed = @ \/ pongFails]
\* recv of nothing is the end, and a failed send is one too; a recv that fails
\* is not.
ReaderAfter(rdr, nothing, pongFails) == [rdr EXCEPT !.closed = @ \/ nothing \/ pongFails]

\* read_messages takes what has arrived (n cells), and comes to the end of the
\* stream if that has arrived too.  There recv returns nothing, but on a failing
\* connection it may raise an error, and again the next time (as over TLS).
\* Answering a ping on a broken connection fails.
Pump(n, eof) ==
    /\ step = "pump"
    /\ n \in 0..Len(wire)
    /\ n > 0 \/ eof
    /\ eof => link \notin {"up", "silent"} /\ n = Len(wire)
    /\ \E read \in {ReadMessages(reader, SubSeq(wire, 1, n))} :
       \E pumped \in {FoldLeft(TakeMessage, [scan |-> scan, screen |-> screen, ends |-> FALSE],
                              read.messages)} :
       \E nothing \in {eof, eof /\ link # "failing"} :
       \E pongFails \in {FALSE} \cup {read.pings > 0 /\ link \in {"cut", "failing"}} :
           /\ reader' = ReaderAfter(read.reader, nothing, pongFails)
           /\ scan' = pumped.scan /\ screen' = pumped.screen
           /\ step' = IF pumped.ends \/ reader'.closed THEN "close" ELSE "pump"
    /\ wire' = SubSeq(wire, n + 1, Len(wire))
    /\ UNCHANGED <<command, prog, server, link, tries, raised, slipped>>

\* Ctrl-C where it is not sent to the program, or an error on stdout.
Interrupt ==
    /\ step = "pump"
    /\ raised' = TRUE /\ step' = "close"
    /\ UNCHANGED <<command, prog, server, network, tries, reader, scan, screen, slipped>>

StopsPumping ==
    /\ step = "pump" /\ step' = "close"
    /\ UNCHANGED <<command, prog, server, network, tries, reader, scan, screen, raised, slipped>>
\* _loop of jp run: the end of the local input.
InputEnds == command = "run" /\ StopsPumping
\* _loop of jp terminal: the same, or Ctrl-].
Escape == command = "terminal" /\ StopsPumping

-----------------------------------------------------------------------------
(* The finally clauses.                                                    *)

CloseLink ==
    /\ step = "close"
    /\ link' = IF link = "up" THEN "closed" ELSE link
    /\ wire' = <<>>
    /\ reader' = [NewReader EXCEPT !.closed = TRUE]
    /\ step' = "endTerminal"
    /\ UNCHANGED <<command, prog, server, tries, scan, screen, raised, slipped>>

\* delete_terminal: an error is not suppressed, but removeTemp comes after it.
EndTerminal ==
    /\ step = "endTerminal"
    /\ step' = IF command = "run" THEN "removeTemp" ELSE "done"
    /\ \/ shell' = "gone" /\ UNCHANGED <<raised, slipped>>
       \/ /\ shell' \in {shell, "gone"} /\ raised' = TRUE
          /\ slipped' = slipped \cup {"terminal"}
    /\ UNCHANGED <<command, prog, temp, sent, network, tries, reader, scan, screen>>

RemoveTemp ==
    /\ step = "removeTemp"
    /\ step' = "done"
    /\ \/ temp' = "gone" /\ UNCHANGED slipped
       \/ temp' \in {temp, "gone"} /\ slipped' = slipped \cup {"temp"}
    /\ UNCHANGED <<command, prog, shell, sent, network, tries, reader, scan, screen, raised>>

\* return rc if rc is not None else EXIT_OK
ExitCode == IF scan.done THEN scan.code ELSE <<"0">>

Shell == ShellExits \/ \E n \in Chunks : Emit(n)
Client ==
    \/ PickName \/ PutTemp \/ CreateTerminal \/ Connect
    \/ \E n \in 0..Len(wire), eof \in BOOLEAN : Pump(n, eof)
    \/ Interrupt \/ InputEnds \/ Escape
    \/ CloseLink \/ EndTerminal \/ RemoveTemp

Next == Shell \/ Cut \/ Client

\* The shell's program comes to an end, what was sent arrives, and the client
\* goes on; nobody has to break the connection or to press a key.  On a failing
\* connection the pump may read errors for ever, and nothing makes the send of
\* the CLOSE return when the peer is silent.
Fairness ==
    /\ WF_vars(Shell)
    /\ WF_vars(PickName \/ PutTemp \/ CreateTerminal \/ Connect)
    /\ WF_vars(\E n \in 0..Len(wire), eof \in BOOLEAN : (link = "failing" => n > 0) /\ Pump(n, eof))
    /\ WF_vars((link # "silent" /\ CloseLink) \/ EndTerminal \/ RemoveTemp)
Spec == Init /\ [][Next]_vars /\ Fairness

-----------------------------------------------------------------------------
(* Properties.                                                             *)

Shown == IF command = "run" THEN ClearSeq \o prog.out ELSE Stream

\* However the output is cut into messages, frames and arrivals, what is on
\* the screen is a beginning of what the program wrote, and never a piece of
\* the prompt or of a marker (RunScanner.feed, read_messages).
ScreenIsOutput ==
    /\ IsPrefix(screen, Shown)
    /\ scan.done => screen = Shown /\ scan.code = prog.code

\* If the connection holds and nobody interferes, all of the output is shown
\* and jp run ends with the program's status ("The exit code is propagated").
AllShownWhenHeld ==
    (step = "close" /\ link = "ended" /\ ~raised /\ reader.closed) =>
        /\ screen = Shown
        /\ command = "run" => ExitCode = prog.code

\* Whatever failed on the way, the temporary file and the terminal are gone at
\* the end, unless the call that removes it failed, or the one that made the
\* terminal did and its answer was lost (run's nested finally clauses).
NothingLeft ==
    step = "done" =>
        /\ temp = "there" => "temp" \in slipped
        /\ shell \notin {"none", "gone"} => "terminal" \in slipped

\* Nothing tells the client that its connection is gone.
NotTold ==
    \/ link = "failing" /\ step = "pump"
    \/ link = "silent" /\ step \in {"pump", "close"}

\* Every run ends, wherever the connection is ended or cut, unless it is never
\* told: its recv fails for ever, which _drain passes over, or its peer is gone
\* without a word (the socket has no timeout).
RunEnds == <>(step = "done") \/ <>[]NotTold
=============================================================================
