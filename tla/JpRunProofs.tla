----------------------------- MODULE JpRunProofs -----------------------------
(***************************************************************************)
(* What jp run and jp terminal show, and what they leave on the server,    *)
(* for any programs, sizes of pieces, framings and bounds.                 *)
(*                                                                         *)
(* The screen: the scanner is always at a place of the text that the       *)
(* terminal writes (ScannerAt), what is on the wire carries it on from     *)
(* there (Carried), and feeding it the next piece of the text takes it to  *)
(* the end of the piece, wherever the text was cut (FeedKeeps).            *)
(***************************************************************************)
EXTENDS JpRun, SequenceTheorems, WellFoundedInduction, TLAPS

-----------------------------------------------------------------------------
(* What is left on the server.                                             *)

\* There is no temporary file yet, and no terminal yet; or there may be a
\* terminal, but then a call that should have removed it has failed.
NoTempYet == step \in {"name", "put"} \/ command = "terminal"
NoShellYet == step \in {"name", "put", "terminal", "again"}
ShellSettled == shell \notin {"none", "gone"} => "terminal" \in slipped

\* How far the nested finally clauses have come.
CleanUp ==
    /\ command \in Commands
    /\ command = "terminal" => step \notin {"name", "put", "removeTemp"}
    /\ NoTempYet => temp = "none"
    /\ NoShellYet => shell = "none"
    /\ step \in {"removeTemp", "done"} => ShellSettled

LeftInv == CleanUp /\ NothingLeft

\* Nothing has been made yet.
LEMMA LeftInit == Init => LeftInv
  BY RunAssumption DEF Init, LeftInv, CleanUp, NoTempYet, NoShellYet, ShellSettled, NothingLeft

\* Every step keeps how far the clean-up has come.
LEMMA LeftStep == LeftInv /\ [Next]_vars => LeftInv'
<1> SUFFICES ASSUME LeftInv, [Next]_vars PROVE LeftInv'
  OBVIOUS
<1> USE RunAssumption DEF LeftInv, CleanUp, NoTempYet, NoShellYet, ShellSettled, NothingLeft,
                          server, network, client
\* The shell only ever removes the file, and exits without being removed.
<1>1. ASSUME NEW n \in Chunks, Emit(n) PROVE LeftInv'
  <2>1. /\ UNCHANGED <<command, step, shell, slipped>>
        /\ temp' = temp \/ (temp = "there" /\ temp' = "gone")
    BY <1>1 DEF Emit
  <2> QED
    BY <2>1
<1>2. CASE ShellExits
  <2>1. UNCHANGED <<command, step, temp, slipped>> /\ shell = "running" /\ shell' = "exited"
    BY <1>2 DEF ShellExits
  <2> QED
    BY <2>1
<1>3. CASE PickName
  BY <1>3 DEF PickName
<1>4. CASE PutTemp
  BY <1>4 DEF PutTemp
<1>5. CASE CreateTerminal
  BY <1>5 DEF CreateTerminal, NoTerminal
<1>6. CASE Connect
  BY <1>6 DEF Connect
\* The steps between the connection and its end say nothing of what is left.
<1>7. ASSUME step = "pump", step' \in {"pump", "close"}, UNCHANGED <<command, temp, shell, slipped>>
      PROVE  LeftInv'
  BY <1>7
<1>8. ASSUME NEW n \in 0..Len(wire), NEW eof \in BOOLEAN, Pump(n, eof) PROVE LeftInv'
  <2>1. step = "pump" /\ step' \in {"pump", "close"} /\ UNCHANGED <<command, temp, shell, slipped>>
    BY <1>8 DEF Pump
  <2> QED
    BY <1>7, <2>1
<1>9. CASE Interrupt \/ InputEnds \/ Escape
  BY <1>7, <1>9 DEF Interrupt, InputEnds, Escape, StopsPumping
<1>10. CASE CloseLink
  BY <1>10 DEF CloseLink
<1>11. CASE EndTerminal
  BY <1>11 DEF EndTerminal
<1>12. CASE RemoveTemp
  BY <1>12 DEF RemoveTemp
<1>13. CASE Cut \/ UNCHANGED vars
  <2>1. UNCHANGED <<command, step, temp, shell, slipped>>
    BY <1>13 DEF Cut, vars
  <2> QED
    BY <2>1
<1> QED
  BY <1>1, <1>2, <1>3, <1>4, <1>5, <1>6, <1>8, <1>9, <1>10, <1>11, <1>12, <1>13
     DEF Next, Shell, Client

\* Whatever fails, breaks or is interrupted between the name of the temporary
\* file and the last finally clause, the file and the terminal are gone at the
\* end, but for what a call that failed itself may have left (run.py,
\* terminal.py).
THEOREM LeavesNothing == Spec => []NothingLeft
<1>1. LeftInv => NothingLeft
  BY DEF LeftInv
<1> QED
  BY <1>1, LeftInit, LeftStep, PTL DEF Spec

-----------------------------------------------------------------------------
(* Pieces of a text.                                                       *)

\* The pieces of a text, and the pieces of a piece.
LEMMA Piece ==
  ASSUME NEW T, NEW s \in Seq(T), NEW a \in Int, NEW b \in Int, 1 =< a, b =< Len(s)
  PROVE  /\ SubSeq(s, a, b) \in Seq(T)
         /\ Len(SubSeq(s, a, b)) = IF a =< b THEN b - a + 1 ELSE 0
         /\ \A i \in 1..(b - a + 1) : SubSeq(s, a, b)[i] = s[a + i - 1]
         /\ DOMAIN SubSeq(s, a, b) = 1..Len(SubSeq(s, a, b))
<1>1. \A i \in a..b : s[i] \in T
  BY ElementOfSeq, LenProperties
<1> QED
  BY <1>1, SubSeqProperties, LenProperties

\* A piece of a piece is a piece.
LEMMA PieceOfPiece ==
  ASSUME NEW T, NEW s \in Seq(T), NEW a \in Int, NEW b \in Int, 1 =< a, b =< Len(s),
         NEW c \in Int, NEW d \in Int, 1 =< c, d =< b - a + 1
  PROVE  SubSeq(SubSeq(s, a, b), c, d) = SubSeq(s, a + c - 1, a + d - 1)
<1> DEFINE p == SubSeq(s, a, b)
           x == SubSeq(p, c, d)
           y == SubSeq(s, a + c - 1, a + d - 1)
<1>1. CASE d < c
  <2>1. x = <<>> /\ y = <<>>
    BY <1>1, SubSeqEmpty
  <2> QED
    BY <2>1
<1>2. CASE c =< d
  <2>1. a =< b /\ Len(s) \in Nat
    BY <1>2, LenProperties
  <2>2. /\ p \in Seq(T) /\ Len(p) = b - a + 1
        /\ \A i \in 1..(b - a + 1) : p[i] = s[a + i - 1]
    BY <2>1, Piece
  <2> HIDE DEF p
  <2>3. /\ x \in Seq(T) /\ Len(x) = d - c + 1
        /\ \A i \in 1..(d - c + 1) : x[i] = p[c + i - 1]
    BY <1>2, <2>2, Piece
  <2>4. /\ y \in Seq(T) /\ Len(y) = d - c + 1
        /\ \A i \in 1..(d - c + 1) : y[i] = s[(a + c - 1) + i - 1]
    <3> DEFINE u == a + c - 1
               v == a + d - 1
    <3>1. u \in Int /\ v \in Int /\ 1 =< u /\ v =< Len(s) /\ u =< v /\ v - u + 1 = d - c + 1
      BY <1>2, <2>1
    <3> HIDE DEF u, v
    <3>2. /\ SubSeq(s, u, v) \in Seq(T) /\ Len(SubSeq(s, u, v)) = v - u + 1
          /\ \A i \in 1..(v - u + 1) : SubSeq(s, u, v)[i] = s[u + i - 1]
      BY <3>1, Piece
    <3> QED
      BY <3>1, <3>2 DEF u, v
  <2>5. \A i \in 1..Len(x) : x[i] = y[i]
    <3> HIDE DEF x, y
    <3> TAKE i \in 1..Len(x)
    <3>1. i \in 1..(d - c + 1) /\ c + i - 1 \in 1..(b - a + 1)
      BY <1>2, <2>3
    <3>2. p[c + i - 1] = s[a + (c + i - 1) - 1]
      <4> DEFINE q == c + i - 1
      <4>1. q \in 1..(b - a + 1)
        BY <3>1
      <4> HIDE DEF q
      <4>2. p[q] = s[a + q - 1]
        BY <2>2, <4>1
      <4> QED
        BY <4>2 DEF q
    <3>3. a + (c + i - 1) - 1 = (a + c - 1) + i - 1
      BY <3>1
    <3> QED
      BY <2>3, <2>4, <3>1, <3>2, <3>3
  <2> HIDE DEF x, y
  <2>6. x = y
    BY <2>3, <2>4, <2>5, SeqEqual
  <2> QED
    BY <2>6 DEF x, y, p
<1> QED
  BY <1>1, <1>2

\* Two pieces that meet are one.
LEMMA PiecesMeet ==
  ASSUME NEW T, NEW s \in Seq(T), NEW a \in Int, NEW b \in Int, NEW c \in Int,
         1 =< a, a =< b + 1, b =< c, c =< Len(s)
  PROVE  SubSeq(s, a, b) \o SubSeq(s, b + 1, c) = SubSeq(s, a, c)
<1>1. Len(s) \in Nat
  BY LenProperties
<1> QED
  BY <1>1, ConcatAdjacentSubSeq

-----------------------------------------------------------------------------
(* What jp run's terminal writes, and where the markers are in it.         *)

Text(p) == p.before \o StartMarker \o p.out \o EndMarker(p.code)
StartAt(p) == Len(p.before) + 1
OutputAt(p) == Len(p.before) + 6
EndAt(p) == Len(p.before) + Len(p.out) + 6

\* The symbols of the start marker and of the prefix of the end marker.
LEMMA Markers ==
  /\ StartMarker \in Seq(Bytes) /\ Len(StartMarker) = 5
  /\ StartMarker[1] = "e" /\ StartMarker[2] = "j" /\ StartMarker[3] = "C"
  /\ StartMarker[4] = "e" /\ StartMarker[5] = "b"
  /\ EndPrefix \in Seq(Bytes) /\ Len(EndPrefix) = 3
  /\ EndPrefix[1] = "e" /\ EndPrefix[2] = "j" /\ EndPrefix[3] = "D"
<1>1. {"e", "j", "C", "b", "D"} \subseteq Bytes
  BY BytesAssumption
<1> QED
  BY <1>1 DEF StartMarker, EndPrefix

\* The symbols of the end marker.
LEMMA EndMarkerIs ==
  ASSUME NEW code \in Seq(Bytes)
  PROVE  LET m == EndMarker(code) IN
         /\ m \in Seq(Bytes) /\ Len(m) = Len(code) + 5
         /\ m[1] = "e" /\ m[2] = "j" /\ m[3] = "D"
         /\ \A i \in 1..Len(code) : m[i + 3] = code[i]
         /\ m[Len(code) + 4] = "e" /\ m[Len(code) + 5] = "b"
<1> DEFINE begun == EndPrefix \o code
           tail == <<"e", "b">>
           m == begun \o tail
<1>1. Len(code) \in Nat
  BY LenProperties
<1> HIDE DEF tail
<1>2. /\ begun \in Seq(Bytes) /\ Len(begun) = Len(code) + 3
      /\ \A i \in 1..(Len(code) + 3) : begun[i] = IF i =< 3 THEN EndPrefix[i] ELSE code[i - 3]
  <2>1. /\ begun \in Seq(Bytes) /\ Len(begun) = Len(EndPrefix) + Len(code)
        /\ \A i \in 1..(Len(EndPrefix) + Len(code)) : begun[i] = IF i =< Len(EndPrefix) THEN EndPrefix[i] ELSE code[i - Len(EndPrefix)]
    BY Markers, ConcatProperties
  <2> HIDE DEF begun
  <2> QED
    BY <1>1, <2>1, Markers
<1>3. tail \in Seq(Bytes) /\ Len(tail) = 2 /\ tail[1] = "e" /\ tail[2] = "b"
  BY BytesAssumption DEF tail
<1> HIDE DEF begun, tail
<1>4. /\ m \in Seq(Bytes) /\ Len(m) = Len(code) + 5
      /\ \A i \in 1..(Len(code) + 5) : m[i] = IF i =< Len(code) + 3 THEN begun[i] ELSE tail[i - (Len(code) + 3)]
  <2>1. /\ m \in Seq(Bytes) /\ Len(m) = Len(begun) + Len(tail)
        /\ \A i \in 1..(Len(begun) + Len(tail)) : m[i] = IF i =< Len(begun) THEN begun[i] ELSE tail[i - Len(begun)]
    BY <1>2, <1>3, ConcatProperties
  <2> HIDE DEF m
  <2> QED
    BY <1>1, <1>2, <1>3, <2>1
<1> HIDE DEF m
<1>5. m[1] = "e" /\ m[2] = "j" /\ m[3] = "D"
  BY <1>1, <1>2, <1>4, Markers
<1>6. \A i \in 1..Len(code) : m[i + 3] = code[i]
  <2> TAKE i \in 1..Len(code)
  <2>1. m[i + 3] = begun[i + 3]
    BY <1>1, <1>4
  <2>2. begun[i + 3] = code[(i + 3) - 3] /\ (i + 3) - 3 = i
    BY <1>1, <1>2
  <2> QED
    BY <2>1, <2>2
<1>7. m[Len(code) + 4] = "e" /\ m[Len(code) + 5] = "b"
  BY <1>1, <1>3, <1>4
<1>8. m = EndMarker(code)
  BY DEF EndMarker, m, begun, tail
<1> QED
  BY <1>4, <1>5, <1>6, <1>7, <1>8

\* Where everything is in the text.
LEMMA TextIs ==
  ASSUME NEW p \in Programs
  PROVE  LET t == Text(p) IN
         /\ t \in Seq(Bytes) /\ Len(t) \in Nat /\ DOMAIN t = 1..Len(t)
         /\ Len(p.before) \in Nat /\ Len(p.out) \in Nat /\ Len(p.code) \in Nat \ {0}
         /\ Len(t) = EndAt(p) + Len(p.code) + 4
         /\ \A i \in 1..Len(p.before) : t[i] = p.before[i]
         /\ \A i \in 1..5 : t[StartAt(p) + i - 1] = StartMarker[i]
         /\ \A i \in 1..Len(p.out) : t[OutputAt(p) + i - 1] = p.out[i]
         /\ t[EndAt(p)] = "e" /\ t[EndAt(p) + 1] = "j" /\ t[EndAt(p) + 2] = "D"
         /\ \A i \in 1..Len(p.code) : t[EndAt(p) + 2 + i] = p.code[i]
         /\ t[Len(t) - 1] = "e" /\ t[Len(t)] = "b"
<1> DEFINE b == Len(p.before)
           o == Len(p.out)
           c == Len(p.code)
           m == EndMarker(p.code)
           s1 == p.before \o StartMarker
           s2 == s1 \o p.out
           t == s2 \o m
<1>1. p.before \in Seq(Bytes) /\ p.out \in Seq(Bytes) /\ p.code \in Seq(Bytes) /\ p.code # <<>>
  BY ProgramsAssumption DEF ExitStatus
<1>2. b \in Nat /\ o \in Nat /\ c \in Nat \ {0}
  BY <1>1, LenProperties, EmptySeq
<1>3. /\ s1 \in Seq(Bytes) /\ Len(s1) = b + 5
      /\ \A i \in 1..(b + 5) : s1[i] = IF i =< b THEN p.before[i] ELSE StartMarker[i - b]
  <2>1. /\ s1 \in Seq(Bytes) /\ Len(s1) = Len(p.before) + Len(StartMarker)
        /\ \A i \in 1..(Len(p.before) + Len(StartMarker)) : s1[i] = IF i =< Len(p.before) THEN p.before[i] ELSE StartMarker[i - Len(p.before)]
    BY <1>1, Markers, ConcatProperties
  <2> HIDE DEF s1
  <2> QED
    BY <1>2, Markers, <2>1
<1> HIDE DEF s1
<1>4. /\ s2 \in Seq(Bytes) /\ Len(s2) = b + 5 + o
      /\ \A i \in 1..(b + 5 + o) : s2[i] = IF i =< b + 5 THEN s1[i] ELSE p.out[i - (b + 5)]
  <2>1. /\ s2 \in Seq(Bytes) /\ Len(s2) = Len(s1) + Len(p.out)
        /\ \A i \in 1..(Len(s1) + Len(p.out)) : s2[i] = IF i =< Len(s1) THEN s1[i] ELSE p.out[i - Len(s1)]
    BY <1>1, <1>3, ConcatProperties
  <2> HIDE DEF s2
  <2> QED
    BY <1>2, <1>3, <2>1
<1> HIDE DEF s2
<1>5. /\ m \in Seq(Bytes) /\ Len(m) = c + 5
      /\ m[1] = "e" /\ m[2] = "j" /\ m[3] = "D"
      /\ \A i \in 1..c : m[i + 3] = p.code[i]
      /\ m[c + 4] = "e" /\ m[c + 5] = "b"
  BY <1>1, EndMarkerIs
<1> HIDE DEF m
<1>6. /\ t \in Seq(Bytes) /\ Len(t) = b + 5 + o + c + 5
      /\ \A i \in 1..(b + 5 + o + c + 5) : t[i] = IF i =< b + 5 + o THEN s2[i] ELSE m[i - (b + 5 + o)]
  <2>1. /\ t \in Seq(Bytes) /\ Len(t) = Len(s2) + Len(m)
        /\ \A i \in 1..(Len(s2) + Len(m)) : t[i] = IF i =< Len(s2) THEN s2[i] ELSE m[i - Len(s2)]
    <3>1. s2 \in Seq(Bytes) /\ m \in Seq(Bytes)
      BY <1>4, <1>5
    <3> QED
      BY <3>1, ConcatProperties
  <2> HIDE DEF t
  <2>2. Len(s2) = b + 5 + o /\ Len(m) = c + 5
    BY <1>4, <1>5
  <2> HIDE DEF b, o, c
  <2> QED
    BY <1>2, <2>1, <2>2
<1> HIDE DEF t
<1>7. t = Text(p)
  BY DEF t, s2, s1, m, Text
<1> HIDE DEF b, o, c
<1>8. \A i \in 1..b : t[i] = p.before[i]
  BY <1>2, <1>3, <1>4, <1>6
<1>9. \A i \in 1..5 : t[b + i] = StartMarker[i]
  <2> TAKE i \in 1..5
  <2>1. t[b + i] = s2[b + i] /\ s2[b + i] = s1[b + i]
    BY <1>2, <1>4, <1>6
  <2>2. s1[b + i] = StartMarker[(b + i) - b] /\ (b + i) - b = i
    BY <1>2, <1>3
  <2> QED
    BY <2>1, <2>2
<1>10. \A i \in 1..o : t[b + 5 + i] = p.out[i]
  <2> TAKE i \in 1..o
  <2>1. t[b + 5 + i] = s2[b + 5 + i]
    BY <1>2, <1>6
  <2>2. s2[b + 5 + i] = p.out[(b + 5 + i) - (b + 5)] /\ (b + 5 + i) - (b + 5) = i
    BY <1>2, <1>4
  <2> QED
    BY <2>1, <2>2
<1>11. \A i \in 1..(c + 5) : t[b + 5 + o + i] = m[i]
  <2> TAKE i \in 1..(c + 5)
  <2>1. t[b + 5 + o + i] = m[(b + 5 + o + i) - (b + 5 + o)] /\ (b + 5 + o + i) - (b + 5 + o) = i
    BY <1>2, <1>6
  <2> QED
    BY <2>1
<1>12. /\ t[b + 5 + o + 1] = "e" /\ t[b + 5 + o + 2] = "j" /\ t[b + 5 + o + 3] = "D"
       /\ t[b + 5 + o + (c + 4)] = "e" /\ t[b + 5 + o + (c + 5)] = "b"
  BY <1>2, <1>5, <1>11
<1>13. \A i \in 1..c : t[b + 5 + o + (i + 3)] = p.code[i]
  BY <1>2, <1>5, <1>11
<1>14. StartAt(p) = b + 1 /\ OutputAt(p) = b + 6 /\ EndAt(p) = b + 5 + o + 1
  <2>1. b + 5 + o + 1 = b + o + 6
    BY <1>2
  <2> QED
    BY <2>1 DEF StartAt, OutputAt, EndAt, b, o
<1>15. /\ \A i \in 1..5 : t[StartAt(p) + i - 1] = StartMarker[i]
       /\ \A i \in 1..o : t[OutputAt(p) + i - 1] = p.out[i]
  <2>1. ASSUME NEW i \in 1..5 PROVE t[StartAt(p) + i - 1] = StartMarker[i]
    <3>1. StartAt(p) + i - 1 = b + i
      BY <1>2, <1>14
    <3> QED
      BY <1>9, <3>1
  <2>2. ASSUME NEW i \in 1..o PROVE t[OutputAt(p) + i - 1] = p.out[i]
    <3>1. OutputAt(p) + i - 1 = b + 5 + i
      BY <1>2, <1>14
    <3> QED
      BY <1>10, <3>1
  <2> QED
    BY <2>1, <2>2
<1>16. \A i \in 1..c : t[EndAt(p) + 2 + i] = p.code[i]
  <2> TAKE i \in 1..c
  <2>1. EndAt(p) + 2 + i = b + 5 + o + (i + 3)
    BY <1>2, <1>14
  <2> QED
    BY <1>13, <2>1
<1>17. t[EndAt(p)] = "e" /\ t[EndAt(p) + 1] = "j" /\ t[EndAt(p) + 2] = "D"
  <2>1. /\ EndAt(p) = b + 5 + o + 1 /\ EndAt(p) + 1 = b + 5 + o + 2 /\ EndAt(p) + 2 = b + 5 + o + 3
    BY <1>2, <1>14
  <2> QED
    BY <1>12, <2>1
<1>18. Len(t) = EndAt(p) + c + 4 /\ t[Len(t) - 1] = "e" /\ t[Len(t)] = "b"
  <2>1. Len(t) = b + 5 + o + (c + 5) /\ Len(t) - 1 = b + 5 + o + (c + 4)
    BY <1>2, <1>6
  <2> QED
    BY <1>2, <1>12, <1>14, <2>1
<1>19. Len(t) \in Nat /\ DOMAIN t = 1..Len(t)
  BY <1>6, LenProperties
<1> QED
  BY <1>2, <1>6, <1>7, <1>8, <1>15, <1>16, <1>17, <1>18, <1>19 DEF b, o, c

\* The places of the markers, in their order.
LEMMA Places ==
  ASSUME NEW p \in Programs
  PROVE  /\ Len(Text(p)) \in Nat
         /\ StartAt(p) \in Nat \ {0} /\ OutputAt(p) \in Nat \ {0} /\ EndAt(p) \in Nat \ {0}
         /\ OutputAt(p) = StartAt(p) + 5 /\ EndAt(p) = OutputAt(p) + Len(p.out)
         /\ StartAt(p) + 5 =< EndAt(p) /\ EndAt(p) + 5 =< Len(Text(p))
<1>1. /\ Len(p.before) \in Nat /\ Len(p.out) \in Nat /\ Len(p.code) \in Nat \ {0}
      /\ Len(Text(p)) = EndAt(p) + Len(p.code) + 4
  BY TextIs
<1> DEFINE b == Len(p.before)
           o == Len(p.out)
           c == Len(p.code)
<1>2. StartAt(p) = b + 1 /\ OutputAt(p) = b + 6 /\ EndAt(p) = b + o + 6
  BY DEF StartAt, OutputAt, EndAt
<1> HIDE DEF b, o, c
<1>3. b \in Nat /\ o \in Nat /\ c \in Nat \ {0} /\ Len(Text(p)) = EndAt(p) + c + 4
  BY <1>1 DEF b, o, c
<1>4. EndAt(p) = OutputAt(p) + o
  BY <1>2, <1>3
<1>5. /\ Len(Text(p)) \in Nat
      /\ StartAt(p) \in Nat \ {0} /\ OutputAt(p) \in Nat \ {0} /\ EndAt(p) \in Nat \ {0}
      /\ OutputAt(p) = StartAt(p) + 5
      /\ StartAt(p) + 5 =< EndAt(p) /\ EndAt(p) + 5 =< Len(Text(p))
  BY <1>2, <1>3
<1> QED
  BY <1>4, <1>5 DEF o

\* ESC and the token come together only where a marker begins.
LEMMA EscToken ==
  ASSUME NEW p \in Programs, NEW i \in 1..(Len(Text(p)) - 1),
         Text(p)[i] = "e", Text(p)[i + 1] = "j"
  PROVE  i = StartAt(p) \/ i = EndAt(p)
<1> DEFINE t == Text(p)
           b == Len(p.before)
           o == Len(p.out)
           c == Len(p.code)
<1>1. /\ Len(t) \in Nat
      /\ b \in Nat /\ o \in Nat /\ c \in Nat \ {0}
      /\ Len(t) = EndAt(p) + c + 4
      /\ \A k \in 1..b : t[k] = p.before[k]
      /\ \A k \in 1..5 : t[StartAt(p) + k - 1] = StartMarker[k]
      /\ \A k \in 1..o : t[OutputAt(p) + k - 1] = p.out[k]
      /\ t[EndAt(p)] = "e" /\ t[EndAt(p) + 1] = "j" /\ t[EndAt(p) + 2] = "D"
      /\ \A k \in 1..c : t[EndAt(p) + 2 + k] = p.code[k]
      /\ t[Len(t) - 1] = "e" /\ t[Len(t)] = "b"
  BY TextIs
<1>2. \A k \in 1..(b - 1) : ~(p.before[k] = "e" /\ p.before[k + 1] = "j")
  BY TokenAssumption DEF NoToken
<1>3. \A k \in 1..(o - 1) : ~(p.out[k] = "e" /\ p.out[k + 1] = "j")
  BY TokenAssumption DEF NoToken
<1>4. \A k \in 1..c : p.code[k] # "e"
  <2>1. p.code \in Seq(Bytes) /\ MinusDigits(p.code)
    BY ProgramsAssumption DEF ExitStatus
  <2>2. DOMAIN p.code = 1..c
    BY <2>1, LenProperties
  <2> QED
    BY <2>1, <2>2 DEF MinusDigits, Digits
<1>5. t[i] = "e" /\ t[i + 1] = "j" /\ i \in 1..(Len(t) - 1)
  OBVIOUS
<1> HIDE DEF t
<1>6. StartAt(p) = b + 1 /\ OutputAt(p) = b + 6 /\ EndAt(p) = b + o + 6
  BY DEF StartAt, OutputAt, EndAt
<1> HIDE DEF b, o, c
<1>7. CASE i < b
  <2>1. i \in 1..(b - 1) /\ i \in 1..b /\ i + 1 \in 1..b
    BY <1>1, <1>7
  <2> QED
    BY <1>1, <1>2, <1>5, <2>1
<1>8. /\ t[b + 1] = "e" /\ t[b + 2] = "j" /\ t[b + 3] = "C" /\ t[b + 4] = "e" /\ t[b + 5] = "b"
  <2>1. \A k \in 1..5 : t[b + k] = StartMarker[k]
    <3> TAKE k \in 1..5
    <3>1. StartAt(p) + k - 1 = b + k
      BY <1>1, <1>6
    <3> QED
      BY <1>1, <3>1
  <2> QED
    BY <2>1, Markers
<1>9. CASE i \in b..(b + 5)
  <2>1. i = b \/ i = b + 1 \/ i = b + 2 \/ i = b + 3 \/ i = b + 4 \/ i = b + 5
    BY <1>1, <1>9
  <2> QED
    BY <1>1, <1>5, <1>6, <1>8, <2>1
<1>10. CASE i \in (b + 6)..(b + o + 5)
  <2> DEFINE k == i - b - 5
  <2>0. b \in Nat /\ o \in Nat /\ i \in Int
    BY <1>1
  <2>1. k \in 1..o /\ OutputAt(p) + k - 1 = i
    BY <1>6, <1>10, <2>0
  <2>2. CASE k < o
    <3>1. k \in 1..(o - 1) /\ k + 1 \in 1..o /\ OutputAt(p) + (k + 1) - 1 = i + 1
      BY <1>1, <1>6, <2>1, <2>2
    <3>2. p.out[k] = "e"
      BY <1>1, <1>5, <2>1
    <3>3. p.out[k + 1] = "j"
      <4> DEFINE l == k + 1
      <4>1. l \in 1..o /\ OutputAt(p) + l - 1 = i + 1
        BY <3>1
      <4> HIDE DEF k, l
      <4>2. p.out[l] = "j"
        BY <1>1, <1>5, <4>1
      <4> QED
        BY <4>2 DEF l
    <3> QED
      BY <1>3, <3>1, <3>2, <3>3
  <2>3. CASE k = o
    <3>1. i + 1 = EndAt(p)
      BY <1>1, <1>6, <2>1, <2>3
    <3> QED
      BY <1>1, <1>5, <3>1
  <2> QED
    BY <1>1, <2>1, <2>2, <2>3
<1>11. CASE i > b + o + 5
  <2> DEFINE k == i - EndAt(p) - 2
  <2>1. EndAt(p) \in Int
    BY <1>1, <1>6
  <2>2. CASE k = -2 \/ k = -1 \/ k = 0
    <3>1. i = EndAt(p) \/ i = EndAt(p) + 1 \/ i = EndAt(p) + 2
      BY <1>5, <2>1, <2>2
    <3> QED
      BY <1>1, <1>5, <3>1
  <2>3. CASE k \in 1..c
    <3>1. EndAt(p) + 2 + k = i
      BY <1>5, <2>1
    <3> QED
      BY <1>1, <1>4, <1>5, <2>3, <3>1
  <2>4. CASE k = c + 1
    <3>1. i + 1 = Len(t)
      BY <1>1, <1>5, <2>1, <2>4
    <3> QED
      BY <1>1, <1>5, <3>1
  <2>5. b \in Nat /\ o \in Nat /\ c \in Nat /\ i \in Int /\ i =< Len(t) - 1 /\ Len(t) = EndAt(p) + c + 4
    BY <1>1, <1>5
  <2>6. k >= -2 /\ k =< c + 1 /\ k \in Int
    <3>1. i >= EndAt(p)
      BY <1>6, <1>11, <2>5
    <3>2. i =< EndAt(p) + c + 3
      BY <2>1, <2>5
    <3> QED
      BY <2>1, <2>5, <3>1, <3>2
  <2> HIDE DEF k
  <2>7. k = -2 \/ k = -1 \/ k = 0 \/ k \in 1..c \/ k = c + 1
    <3>1. k < 1 \/ k \in 1..c \/ k > c
      BY <2>5, <2>6
    <3>2. k > c => k = c + 1
      BY <2>5, <2>6
    <3>3. k < 1 => k = -2 \/ k = -1 \/ k = 0
      BY <2>6
    <3> QED
      BY <3>1, <3>2, <3>3
  <2> QED
    BY <2>2, <2>3, <2>4, <2>7
<1> QED
  BY <1>1, <1>5, <1>7, <1>9, <1>10, <1>11

\* An occurrence, symbol by symbol.
LEMMA OccursAt ==
  ASSUME NEW T, NEW marker \in Seq(T), NEW buf \in Seq(T), NEW i
  PROVE  i \in Occurrences(marker, buf) <=>
            /\ i \in 1..(Len(buf) - Len(marker) + 1)
            /\ \A k \in 1..Len(marker) : buf[i + k - 1] = marker[k]
<1>1. Len(buf) \in Nat /\ Len(marker) \in Nat
  BY LenProperties
<1>2. ASSUME i \in 1..(Len(buf) - Len(marker) + 1)
      PROVE  SubSeq(buf, i, i + Len(marker) - 1) = marker
                <=> \A k \in 1..Len(marker) : buf[i + k - 1] = marker[k]
  <2> DEFINE s == SubSeq(buf, i, i + Len(marker) - 1)
             n == Len(marker)
  <2>1. /\ s \in Seq(T) /\ Len(s) = n
        /\ \A k \in 1..n : s[k] = buf[i + k - 1]
    <3> DEFINE j == i + n - 1
    <3>1. i \in Int /\ j \in Int /\ 1 =< i /\ j =< Len(buf) /\ j - i + 1 = n /\ (i =< j <=> n # 0)
      BY <1>1, <1>2
    <3> HIDE DEF j
    <3>2. /\ SubSeq(buf, i, j) \in Seq(T)
          /\ Len(SubSeq(buf, i, j)) = IF i =< j THEN j - i + 1 ELSE 0
          /\ \A k \in 1..(j - i + 1) : SubSeq(buf, i, j)[k] = buf[i + k - 1]
      BY <3>1, Piece
    <3>3. s = SubSeq(buf, i, j)
      BY DEF j
    <3> HIDE DEF s, n
    <3>4. Len(s) = n
      BY <3>1, <3>2, <3>3
    <3> QED
      BY <3>1, <3>2, <3>3, <3>4
  <2> HIDE DEF s
  <2>2. s = marker <=> \A k \in 1..n : s[k] = marker[k]
    BY <2>1, SeqEqual
  <2>3. (\A k \in 1..n : s[k] = marker[k]) <=> \A k \in 1..n : buf[i + k - 1] = marker[k]
    BY <2>1
  <2> QED
    BY <2>2, <2>3 DEF s
<1> QED
  BY <1>2 DEF Occurrences

\* A marker occurs in a piece of the text if the piece has all of it.
LEMMA MarkerIn ==
  ASSUME NEW p \in Programs, NEW a \in Int, NEW d \in Int, 1 =< a, d =< Len(Text(p)),
         NEW marker \in Seq(Bytes), NEW at \in Nat \ {0},
         Len(marker) >= 3, marker[1] = "e", marker[2] = "j",
         at \in {StartAt(p), EndAt(p)}, at + Len(marker) - 1 =< Len(Text(p)),
         \A k \in 1..Len(marker) : Text(p)[at + k - 1] = marker[k],
         \A i \in {StartAt(p), EndAt(p)} : Text(p)[i + 2] = marker[3] => i = at
  PROVE  Occurrences(marker, SubSeq(Text(p), a, d))
            = IF a =< at /\ at + Len(marker) - 1 =< d THEN {at - a + 1} ELSE {}
<1> DEFINE n == Len(marker)
           t == Text(p)
           buf == SubSeq(t, a, d)
           size == d - a + 1
<1>1. t \in Seq(Bytes) /\ Len(t) \in Nat
  BY TextIs
<1>2. /\ buf \in Seq(Bytes) /\ Len(buf) = IF a =< d THEN size ELSE 0
      /\ \A i \in 1..size : buf[i] = t[a + i - 1]
  BY <1>1, Piece
<1>3. size \in Int /\ d =< Len(t)
  OBVIOUS
<1>9. n \in Nat /\ n >= 3 /\ marker[1] = "e" /\ marker[2] = "j" /\ at + n - 1 =< Len(t)
  BY LenProperties
<1>10. \A i : i \in Occurrences(marker, buf) <=>
               /\ i \in 1..(Len(buf) - n + 1)
               /\ \A k \in 1..n : buf[i + k - 1] = marker[k]
  <2>1. buf \in Seq(Bytes) /\ marker \in Seq(Bytes)
    BY <1>2
  <2> HIDE DEF buf
  <2> QED
    BY <2>1, OccursAt
<1>4. \A k \in 1..n : t[at + k - 1] = marker[k]
  OBVIOUS
<1>5. \A i \in 1..(Len(t) - 1) : t[i] = "e" /\ t[i + 1] = "j" => i \in {StartAt(p), EndAt(p)}
  BY EscToken
<1>6. \A i \in {StartAt(p), EndAt(p)} : t[i + 2] = marker[3] => i = at
  OBVIOUS
<1> HIDE DEF t, buf, n
<1>7. ASSUME NEW i \in Occurrences(marker, buf)
      PROVE  i = at - a + 1 /\ a =< at /\ at + n - 1 =< d
  <2>1. /\ i \in 1..(Len(buf) - n + 1)
        /\ \A k \in 1..n : buf[i + k - 1] = marker[k]
    BY <1>7, <1>10
  <2>2. i \in 1..(size - n + 1)
    BY <1>2, <1>3, <1>9, <2>1
  <2>3. buf[i] = "e" /\ buf[i + 1] = "j" /\ buf[i + 2] = marker[3]
    <3>1. 1 \in 1..n /\ 2 \in 1..n /\ 3 \in 1..n
      BY <1>9
    <3>2. i + 1 - 1 = i /\ i + 2 - 1 = i + 1 /\ i + 3 - 1 = i + 2
      BY <2>2
    <3>3. buf[i + 1 - 1] = marker[1] /\ buf[i + 2 - 1] = marker[2] /\ buf[i + 3 - 1] = marker[3]
      BY <2>1, <3>1
    <3> QED
      BY <1>9, <3>2, <3>3
  <2> DEFINE j == a + i - 1
  <2>4. /\ i \in 1..size /\ i + 1 \in 1..size /\ i + 2 \in 1..size
        /\ a + (i + 1) - 1 = j + 1 /\ a + (i + 2) - 1 = j + 2
        /\ j \in 1..(Len(t) - 1) /\ a =< j /\ j + n - 1 =< d /\ i = j - a + 1
    <3> HIDE DEF size
    <3>1. i \in Int /\ 1 =< i /\ i + n - 1 =< size
      BY <1>3, <1>9, <2>2
    <3>2. i + 2 =< size
      BY <1>3, <1>9, <3>1
    <3>3. i \in 1..size /\ i + 1 \in 1..size /\ i + 2 \in 1..size
      BY <1>3, <3>1, <3>2
    <3>4. a + size - 1 = d
      BY DEF size
    <3>5. j + n - 1 =< d
      BY <1>3, <1>9, <3>1, <3>4
    <3> QED
      BY <1>1, <1>3, <1>9, <3>1, <3>3, <3>5
  <2>5. t[j] = "e" /\ t[j + 1] = "j" /\ t[j + 2] = marker[3]
    <3>1. buf[i] = t[j]
      BY <1>2, <2>4
    <3>2. buf[i + 1] = t[a + (i + 1) - 1] /\ buf[i + 2] = t[a + (i + 2) - 1]
      BY <1>2, <2>4
    <3> QED
      BY <2>3, <2>4, <3>1, <3>2
  <2> HIDE DEF j
  <2>6. j = at
    BY <1>5, <1>6, <2>4, <2>5
  <2> QED
    BY <2>4, <2>6
<1>8. ASSUME a =< at, at + n - 1 =< d
      PROVE  at - a + 1 \in Occurrences(marker, buf)
  <2> DEFINE i == at - a + 1
  <2>1. i \in 1..(size - n + 1) /\ Len(buf) = size
    <3>1. a =< d
      BY <1>8, <1>9
    <3> QED
      BY <1>2, <1>8, <1>9, <3>1
  <2>2. ASSUME NEW k \in 1..n PROVE buf[i + k - 1] = marker[k]
    <3> DEFINE l == i + k - 1
    <3>1. l \in 1..size /\ a + l - 1 = at + k - 1
      BY <1>9, <2>1
    <3> HIDE DEF l
    <3>2. buf[l] = t[a + l - 1]
      BY <1>2, <3>1
    <3>3. buf[l] = t[at + k - 1]
      BY <3>1, <3>2
    <3> QED
      BY <1>4, <3>3 DEF l
  <2> HIDE DEF i
  <2>4. i \in Occurrences(marker, buf)
    BY <1>10, <2>1, <2>2
  <2> QED
    BY <2>4 DEF i
<1> QED
  BY <1>7, <1>8 DEF t, buf, n

\* The start marker is found where it is written, once it is all there.
LEMMA StartsIn ==
  ASSUME NEW p \in Programs, NEW a \in Int, NEW d \in Int, 1 =< a, d =< Len(Text(p))
  PROVE  Occurrences(StartMarker, SubSeq(Text(p), a, d))
            = IF a =< StartAt(p) /\ StartAt(p) + 4 =< d THEN {StartAt(p) - a + 1} ELSE {}
<1> DEFINE t == Text(p)
           at == StartAt(p)
<1>1. /\ Len(t) \in Nat /\ at \in Nat \ {0} /\ at + 4 =< Len(t) /\ EndAt(p) # at
      /\ \A k \in 1..5 : t[at + k - 1] = StartMarker[k]
      /\ t[EndAt(p) + 2] = "D"
  <2>1. /\ \A k \in 1..5 : t[StartAt(p) + k - 1] = StartMarker[k]
        /\ t[EndAt(p)] = "e" /\ t[EndAt(p) + 1] = "j" /\ t[EndAt(p) + 2] = "D"
    BY TextIs
  <2>2. /\ Len(t) \in Nat /\ StartAt(p) \in Nat \ {0} /\ EndAt(p) \in Nat \ {0}
        /\ StartAt(p) + 4 =< Len(t) /\ EndAt(p) + 2 =< Len(t) /\ StartAt(p) # EndAt(p)
    BY Places
  <2> QED
    BY <2>1, <2>2
<1>2. /\ StartMarker \in Seq(Bytes) /\ Len(StartMarker) = 5
      /\ StartMarker[1] = "e" /\ StartMarker[2] = "j" /\ StartMarker[3] = "C"
  BY Markers
<1>3. \A i \in {at, EndAt(p)} : t[i + 2] = StartMarker[3] => i = at
  BY <1>1, <1>2
<1>4. Len(StartMarker) >= 3 /\ at + Len(StartMarker) - 1 =< Len(t) /\ at + Len(StartMarker) - 1 = at + 4
  BY <1>1, <1>2
<1>5. \A k \in 1..Len(StartMarker) : t[at + k - 1] = StartMarker[k]
  BY <1>1, <1>2
<1>6. Occurrences(StartMarker, SubSeq(t, a, d))
         = IF a =< at /\ at + Len(StartMarker) - 1 =< d THEN {at - a + 1} ELSE {}
  <2>1. StartMarker \in Seq(Bytes) /\ StartMarker[1] = "e" /\ StartMarker[2] = "j"
    BY <1>2
  <2>2. at \in Nat \ {0}
    BY <1>1
  <2> QED
    BY <1>3, <1>4, <1>5, <2>1, <2>2, MarkerIn
<1> QED
  BY <1>4, <1>6

\* The end marker's prefix is found where it is written.
LEMMA EndsIn ==
  ASSUME NEW p \in Programs, NEW a \in Int, NEW d \in Int, 1 =< a, d =< Len(Text(p))
  PROVE  Occurrences(EndPrefix, SubSeq(Text(p), a, d))
            = IF a =< EndAt(p) /\ EndAt(p) + 2 =< d THEN {EndAt(p) - a + 1} ELSE {}
<1> DEFINE t == Text(p)
           at == EndAt(p)
<1>1. /\ Len(t) \in Nat /\ at \in Nat \ {0} /\ at + 2 =< Len(t) /\ StartAt(p) # at
      /\ \A k \in 1..5 : t[StartAt(p) + k - 1] = StartMarker[k]
      /\ t[at] = "e" /\ t[at + 1] = "j" /\ t[at + 2] = "D"
      /\ StartAt(p) \in Nat
  <2>1. /\ \A k \in 1..5 : t[StartAt(p) + k - 1] = StartMarker[k]
        /\ t[EndAt(p)] = "e" /\ t[EndAt(p) + 1] = "j" /\ t[EndAt(p) + 2] = "D"
    BY TextIs
  <2>2. /\ Len(t) \in Nat /\ StartAt(p) \in Nat \ {0} /\ EndAt(p) \in Nat \ {0}
        /\ StartAt(p) + 4 =< Len(t) /\ EndAt(p) + 2 =< Len(t) /\ StartAt(p) # EndAt(p)
    BY Places
  <2> QED
    BY <2>1, <2>2
<1>2. /\ EndPrefix \in Seq(Bytes) /\ Len(EndPrefix) = 3 /\ StartMarker[3] = "C"
      /\ EndPrefix[1] = "e" /\ EndPrefix[2] = "j" /\ EndPrefix[3] = "D"
  BY Markers
<1>3. t[StartAt(p) + 2] = "C"
  <2>1. t[StartAt(p) + 3 - 1] = StartMarker[3] /\ StartAt(p) + 3 - 1 = StartAt(p) + 2
    BY <1>1
  <2> QED
    BY <1>2, <2>1
<1>4. \A i \in {StartAt(p), at} : t[i + 2] = EndPrefix[3] => i = at
  BY <1>2, <1>3
<1>5. Len(EndPrefix) >= 3 /\ at + Len(EndPrefix) - 1 =< Len(t) /\ at + Len(EndPrefix) - 1 = at + 2
  BY <1>1, <1>2
<1>6. \A k \in 1..Len(EndPrefix) : t[at + k - 1] = EndPrefix[k]
  <2>1. at + 1 - 1 = at /\ at + 2 - 1 = at + 1 /\ at + 3 - 1 = at + 2
    BY <1>1
  <2>2. \A k \in 1..Len(EndPrefix) : k = 1 \/ k = 2 \/ k = 3
    BY <1>2
  <2> QED
    BY <1>1, <1>2, <2>1, <2>2
<1>7. Occurrences(EndPrefix, SubSeq(t, a, d))
         = IF a =< at /\ at + Len(EndPrefix) - 1 =< d THEN {at - a + 1} ELSE {}
  <2>1. EndPrefix \in Seq(Bytes) /\ EndPrefix[1] = "e" /\ EndPrefix[2] = "j"
    BY <1>2
  <2>2. at \in Nat \ {0}
    BY <1>1
  <2> QED
    BY <1>4, <1>5, <1>6, <2>1, <2>2, MarkerIn
<1> QED
  BY <1>5, <1>7

\* The exit status is in the text, between the end marker's prefix and its end.
LEMMA StatusIn ==
  ASSUME NEW p \in Programs
  PROVE  /\ SubSeq(Text(p), EndAt(p) + 3, Len(Text(p)) - 2) = p.code
         /\ ExitStatus(p.code) /\ p.code \in Seq(Bytes) /\ p.code \in Seq(Digits \cup {"-"})
         /\ \A i \in (EndAt(p) + 3)..(Len(Text(p)) - 2) : Text(p)[i] # "e"
<1> DEFINE t == Text(p)
           at == EndAt(p)
           n == Len(t)
           c == Len(p.code)
<1>1. /\ t \in Seq(Bytes) /\ n = at + c + 4 /\ c \in Nat \ {0}
      /\ \A i \in 1..c : t[at + 2 + i] = p.code[i]
  BY TextIs
<1>2. n \in Nat /\ at \in Nat \ {0}
  BY Places
<1>3. p.code \in Seq(Bytes) /\ ExitStatus(p.code) /\ MinusDigits(p.code) /\ DOMAIN p.code = 1..c
  BY ProgramsAssumption, LenProperties DEF ExitStatus
<1> HIDE DEF t, at
<1>4. \A i \in 1..c : p.code[i] # "e" /\ p.code[i] \in Digits \cup {"-"}
  BY <1>3 DEF MinusDigits, Digits
<1> DEFINE s == SubSeq(t, at + 3, n - 2)
           x == at + 3
           y == n - 2
<1>5. x \in Int /\ y \in Int /\ 1 =< x /\ y =< n /\ x =< y /\ y - x + 1 = c
  BY <1>1, <1>2
<1>6. x - 1 = at + 2
  BY <1>2
<1> HIDE DEF x, y, n, c
<1>7. /\ SubSeq(t, x, y) \in Seq(Bytes) /\ Len(SubSeq(t, x, y)) = c
      /\ \A i \in 1..c : SubSeq(t, x, y)[i] = t[x + i - 1]
  <2>1. /\ SubSeq(t, x, y) \in Seq(Bytes)
        /\ Len(SubSeq(t, x, y)) = IF x =< y THEN y - x + 1 ELSE 0
        /\ \A i \in 1..(y - x + 1) : SubSeq(t, x, y)[i] = t[x + i - 1]
    BY <1>1, <1>5, Piece DEF n
  <2> QED
    BY <1>5, <2>1
<1>8. \A i \in 1..c : SubSeq(t, x, y)[i] = p.code[i]
  <2> TAKE i \in 1..c
  <2>1. x + i - 1 = at + 2 + i
    BY <1>2, <1>5, <1>6
  <2> QED
    BY <1>1, <1>7, <2>1
<1>9. SubSeq(t, x, y) = p.code
  <2>1. Len(p.code) = c
    BY DEF c
  <2> HIDE DEF s
  <2> QED
    BY <1>3, <1>7, <1>8, <2>1, SeqEqual
<1>10. \A i \in x..y : t[i] # "e"
  <2> TAKE i \in x..y
  <2> DEFINE k == i - x + 1
  <2>1. k \in 1..c /\ at + 2 + k = i
    BY <1>2, <1>5, <1>6
  <2> QED
    BY <1>1, <1>4, <2>1
<1>11. p.code \in Seq(Digits \cup {"-"})
  <2>1. p.code \in [1..c -> Digits \cup {"-"}]
    BY <1>3, <1>4, LenProperties DEF c
  <2> QED
    BY <1>1, <2>1, SeqDef
<1> QED
  BY <1>3, <1>9, <1>10, <1>11 DEF t, at, n, x, y

\* One complete end marker is found, once all of the text is there.
LEMMA EndMarkersIn ==
  ASSUME NEW p \in Programs, NEW a \in Int, NEW d \in Int, 1 =< a, d =< Len(Text(p))
  PROVE  LET t == Text(p)
             ends == EndMarkers(SubSeq(t, a, d))
         IN  /\ \A m \in ends : /\ a =< EndAt(p) /\ d = Len(t)
                                /\ m.at = EndAt(p) - a + 1 /\ m.last = Len(t) - a - 1
             /\ a =< EndAt(p) /\ d = Len(t) => ends # {}
<1> DEFINE t == Text(p)
           e == EndAt(p)
           n == Len(t)
           buf == SubSeq(t, a, d)
           size == d - a + 1
<1>1. /\ t \in Seq(Bytes) /\ t[n - 1] = "e" /\ t[n] = "b"
      /\ SubSeq(t, e + 3, n - 2) = p.code /\ ExitStatus(p.code)
      /\ \A i \in (e + 3)..(n - 2) : t[i] # "e"
  BY TextIs, StatusIn
<1>2. n \in Nat /\ e \in Nat \ {0} /\ e + 5 =< n /\ d =< n
  BY Places
<1>3. Len(buf) = (IF a =< d THEN size ELSE 0) /\ buf \in Seq(Bytes)
  BY <1>1, Piece
<1>4. Occurrences(EndPrefix, buf) = IF a =< e /\ e + 2 =< d THEN {e - a + 1} ELSE {}
  BY EndsIn
<1>5. Len(EndPrefix) = 3
  BY Markers
<1>6. \A x, y \in Int : 1 =< x /\ y =< size => SubSeq(buf, x, y) = SubSeq(t, a + x - 1, a + y - 1)
  BY <1>1, PieceOfPiece
<1> HIDE DEF t, e, n, buf
<1>7. ASSUME NEW m \in EndMarkers(buf)
      PROVE  a =< e /\ d = n /\ m.at = e - a + 1 /\ m.last = n - a - 1
  <2>1. /\ m.at \in Occurrences(EndPrefix, buf) /\ m.last \in 1..(Len(buf) - 2)
        /\ ExitStatus(SubSeq(buf, m.at + Len(EndPrefix), m.last))
        /\ SubSeq(buf, m.last + 1, m.last + 2) = <<"e", "b">>
    BY <1>7 DEF EndMarkers
  <2>2. a =< e /\ e + 2 =< d /\ m.at = e - a + 1
    BY <1>4, <2>1
  <2> DEFINE l == a + m.last - 1
  <2>3. m.last \in 1..(size - 2) /\ l \in Int /\ l + 2 =< d /\ a =< l
    <3>1. a =< d
      BY <1>2, <2>2
    <3>2. Len(buf) = size /\ size \in Int
      BY <1>3, <3>1
    <3> QED
      BY <1>2, <2>1, <3>1, <3>2
  <2>4. SubSeq(buf, m.at + 3, m.last) = SubSeq(t, e + 3, l)
    <3> DEFINE x == m.at + 3
    <3>1. x \in Int /\ 1 =< x /\ a + x - 1 = e + 3 /\ m.last \in Int /\ m.last =< size
      BY <1>2, <2>2, <2>3
    <3> HIDE DEF x
    <3>2. SubSeq(buf, x, m.last) = SubSeq(t, a + x - 1, a + m.last - 1)
      BY <1>6, <3>1
    <3> QED
      BY <3>1, <3>2 DEF x
  <2>5. SubSeq(buf, m.last + 1, m.last + 2) = SubSeq(t, l + 1, l + 2)
    <3> DEFINE x == m.last + 1
               y == m.last + 2
    <3> DEFINE k == m.last
    <3>3. k \in Int /\ 1 =< k /\ k + 2 =< size
      BY <2>3
    <3>4. x = k + 1 /\ y = k + 2 /\ l = a + k - 1
      OBVIOUS
    <3> HIDE DEF k, x, y, l
    <3>1. x \in Int /\ y \in Int /\ 1 =< x /\ y =< size /\ a + x - 1 = l + 1 /\ a + y - 1 = l + 2
      BY <3>3, <3>4
    <3> HIDE DEF x, y
    <3>2. SubSeq(buf, x, y) = SubSeq(t, a + x - 1, a + y - 1)
      BY <1>6, <3>1
    <3> QED
      BY <3>1, <3>2 DEF x, y
  <2> HIDE DEF l
  <2>6. t[l + 1] = "e"
    <3> DEFINE x == l + 1
               y == l + 2
    <3>1. x \in Int /\ y \in Int /\ 1 =< x /\ y =< n /\ y - x + 1 = 2
      BY <1>2, <2>3
    <3>2. x + 1 - 1 = x
      BY <3>1
    <3> HIDE DEF x, y
    <3>3. \A i \in 1..(y - x + 1) : SubSeq(t, x, y)[i] = t[x + i - 1]
      <4>1. t \in Seq(Bytes)
        BY <1>1
      <4>2. x \in Int /\ y \in Int /\ 1 =< x /\ y =< Len(t)
        BY <3>1 DEF n
      <4> QED
        BY <4>1, <4>2, Piece
    <3>4. SubSeq(t, x, y)[1] = t[x]
      BY <3>1, <3>2, <3>3
    <3>5. SubSeq(t, x, y) = <<"e", "b">>
      BY <2>1, <2>5 DEF x, y
    <3>6. <<"e", "b">>[1] = "e"
      OBVIOUS
    <3>7. t[x] = "e"
      BY <3>4, <3>5, <3>6
    <3> QED
      BY <3>7 DEF x
  <2>7. e + 3 =< l
    <3>1. SubSeq(t, e + 3, l) # <<>>
      BY <1>5, <2>1, <2>4 DEF ExitStatus
    <3>2. e + 3 \in Int
      BY <1>2
    <3> QED
      BY <2>3, <3>1, <3>2, SubSeqEmpty
  <2>8. ~(l + 1 =< n - 2)
    BY <1>1, <1>2, <2>3, <2>6, <2>7
  <2>9. l = n - 2 /\ d = n
    BY <1>2, <2>3, <2>8
  <2> QED
    BY <2>2, <2>3, <2>9 DEF l
<1>8. ASSUME a =< e, d = n
      PROVE  EndMarkers(buf) # {}
  <2> DEFINE at == e - a + 1
             last == n - a - 1
             m == [at |-> at, last |-> last]
  <2>1. /\ at \in Int /\ last \in 1..(size - 2) /\ Len(buf) = size
        /\ at + 3 \in Int /\ 1 =< at + 3 /\ last =< size /\ a + (at + 3) - 1 = e + 3 /\ a + last - 1 = n - 2
        /\ last + 1 \in Int /\ last + 2 \in Int /\ 1 =< last + 1 /\ last + 2 =< size
        /\ a + (last + 1) - 1 = n - 1 /\ a + (last + 2) - 1 = n
    <3>1. a =< d
      BY <1>2, <1>8
    <3> QED
      BY <1>2, <1>3, <1>8, <3>1
  <2>2. at \in Occurrences(EndPrefix, buf)
    <3>1. e + 2 =< d
      BY <1>2, <1>8
    <3> QED
      BY <1>4, <1>8, <3>1
  <2> HIDE DEF at, last
  <2>3. SubSeq(buf, at + 3, last) = p.code
    <3> DEFINE x == at + 3
    <3>2. x \in Int /\ last \in Int /\ 1 =< x /\ last =< size
      BY <2>1
    <3> HIDE DEF x
    <3>3. SubSeq(buf, x, last) = SubSeq(t, a + x - 1, a + last - 1)
      BY <1>6, <3>2
    <3>1. SubSeq(buf, at + 3, last) = SubSeq(t, a + (at + 3) - 1, a + last - 1)
      BY <3>3 DEF x
    <3> QED
      BY <1>1, <2>1, <3>1
  <2>4. SubSeq(buf, last + 1, last + 2) = <<"e", "b">>
    <3> DEFINE u == last + 1
               v == last + 2
    <3>10. u \in Int /\ v \in Int /\ 1 =< u /\ v =< size
      BY <2>1
    <3> HIDE DEF u, v
    <3>11. SubSeq(buf, u, v) = SubSeq(t, a + u - 1, a + v - 1)
      BY <1>6, <3>10
    <3>1. SubSeq(buf, last + 1, last + 2) = SubSeq(t, a + (last + 1) - 1, a + (last + 2) - 1)
      BY <3>11 DEF u, v
    <3>2. SubSeq(buf, last + 1, last + 2) = SubSeq(t, n - 1, n)
      BY <2>1, <3>1
    <3> DEFINE x == n - 1
    <3>3. x \in Int /\ 1 =< x /\ x =< n /\ n \in Int /\ n - x + 1 = 2 /\ x + 1 - 1 = x /\ x + 2 - 1 = n
      BY <1>2
    <3> DEFINE r == SubSeq(t, x, n)
    <3>4. /\ r \in Seq(Bytes)
          /\ Len(r) = IF x =< n THEN n - x + 1 ELSE 0
          /\ \A i \in 1..(n - x + 1) : r[i] = t[x + i - 1]
      <4> HIDE DEF x
      <4> QED
        BY <1>1, <3>3, Piece DEF n
    <3>5. t[x] = "e" /\ t[n] = "b"
      BY <1>1
    <3> HIDE DEF x, r
    <3>6. Len(r) = 2 /\ r[1] = "e" /\ r[2] = "b"
      BY <3>3, <3>4, <3>5
    <3>7. <<"e", "b">> \in Seq(Bytes)
      BY BytesAssumption
    <3>8. \A i \in 1..2 : i = 1 \/ i = 2
      OBVIOUS
    <3>9. r = <<"e", "b">>
      BY <3>4, <3>6, <3>7, <3>8, SeqEqual
    <3> QED
      BY <3>2, <3>9 DEF r, x
  <2>5. m \in [at : Occurrences(EndPrefix, buf), last : 1..(Len(buf) - 2)]
    BY <2>1, <2>2
  <2>6. m.at = at /\ m.last = last
    OBVIOUS
  <2> HIDE DEF m
  <2>7. m \in EndMarkers(buf)
    BY <1>1, <1>5, <2>3, <2>4, <2>5, <2>6 DEF EndMarkers
  <2> QED
    BY <2>7
<1> QED
  BY <1>7, <1>8 DEF t, e, n, buf

-----------------------------------------------------------------------------
(* What the scanner holds back.                                            *)

\* A set of numbers that is not empty has a least.
LEMMA Least ==
  ASSUME NEW S \in SUBSET Nat, S # {}
  PROVE  \E x \in S : \A y \in S : x =< y
<1> DEFINE R == OpToRel(<, Nat)
<1>1. IsWellFoundedOn(R, Nat)
  BY NatLessThanWellFounded
<1>2. \A x, y \in Nat : <<y, x>> \in R <=> y < x
  BY DEF OpToRel
<1> HIDE DEF R
<1>3. PICK x \in S : \A y \in S : ~(<<y, x>> \in R)
  BY <1>1, WFMin
<1>4. \A y \in S : x =< y
  <2> SUFFICES ASSUME NEW y \in S PROVE x =< y
    OBVIOUS
  <2>1. x \in Nat /\ y \in Nat
    OBVIOUS
  <2>2. ~(y < x)
    BY <1>2, <1>3, <2>1
  <2> QED
    BY <2>1, <2>2
<1> QED
  BY <1>4

\* A set of numbers below a bound has a greatest.
LEMMA Greatest ==
  ASSUME NEW n \in Nat, NEW S \in SUBSET (0..n), S # {}
  PROVE  Max(S) \in S /\ \A y \in S : y =< Max(S)
<1> DEFINE R == {k \in 0..n : n - k \in S}
<1>1. PICK s \in S : TRUE
  OBVIOUS
<1>2. R \in SUBSET Nat /\ R # {}
  <2>1. n - s \in 0..n /\ n - (n - s) = s
    OBVIOUS
  <2>2. n - s \in R
    BY <2>1
  <2> QED
    BY <2>2
<1>3. PICK k \in R : \A j \in R : k =< j
  BY <1>2, Least
<1> DEFINE x == n - k
<1>4. x \in S /\ k \in 0..n
  BY <1>3
<1>5. \A y \in S : x >= y
  <2> TAKE y \in S
  <2>1. n - y \in 0..n /\ n - (n - y) = y
    OBVIOUS
  <2>2. n - y \in R
    BY <2>1
  <2>3. k =< n - y
    BY <1>3, <2>2
  <2> QED
    BY <1>4, <2>1, <2>3
<1> HIDE DEF x
<1>6. Max(S) \in S /\ \A y \in S : Max(S) >= y
  BY <1>4, <1>5 DEF Max
<1> QED
  BY <1>6

\* What is kept of a piece of the text has the beginning of a marker that
\* begins in it and is not complete.
LEMMA SuffixIn ==
  ASSUME NEW p \in Programs, NEW a \in Int, NEW d \in Int, 1 =< a, a =< d + 1, d =< Len(Text(p)),
         NEW marker \in Seq(Bytes), Len(marker) >= 1, NEW at \in Nat \ {0}, a =< at, d < at + Len(marker) - 1,
         \A k \in 1..Len(marker) : Text(p)[at + k - 1] = marker[k]
  PROVE  LET kept == SuffixPrefixOf(SubSeq(Text(p), a, d), marker) IN
         /\ Len(kept) \in 0..(d - a + 1)
         /\ kept = SubSeq(Text(p), d - Len(kept) + 1, d)
         /\ d - Len(kept) + 1 =< at
<1> DEFINE t == Text(p)
           buf == SubSeq(t, a, d)
           size == d - a + 1
           n == Len(marker)
           lengths == {k \in 0..(Len(marker) - 1) :
                        k <= Len(buf) /\ From(buf, Len(buf) - k + 1) = SubSeq(marker, 1, k)}
<1>1. t \in Seq(Bytes) /\ Len(t) \in Nat /\ n \in Nat /\ d =< Len(t)
  BY TextIs, LenProperties
<1>2. size \in Nat /\ Len(buf) = size /\ buf \in Seq(Bytes)
  <2>1. buf \in Seq(Bytes) /\ Len(buf) = IF a =< d THEN size ELSE 0
    BY <1>1, Piece
  <2> QED
    BY <2>1
<1>3. \A k \in Int : 0 =< k /\ k =< size => From(buf, size - k + 1) = SubSeq(t, d - k + 1, d)
  <2> TAKE k \in Int
  <2> HAVE 0 =< k /\ k =< size
  <2> DEFINE x == size - k + 1
  <2>1. x \in Int /\ 1 =< x /\ size \in Int /\ a + x - 1 = d - k + 1 /\ a + size - 1 = d
    OBVIOUS
  <2>2. size = d - a + 1
    OBVIOUS
  <2> HIDE DEF x, size, t
  <2>3. SubSeq(SubSeq(t, a, d), x, size) = SubSeq(t, a + x - 1, a + size - 1)
    BY <1>1, <2>1, <2>2, PieceOfPiece
  <2> QED
    BY <1>2, <2>1, <2>3 DEF From, x
<1>4. \A k \in 1..n : t[at + k - 1] = marker[k]
  OBVIOUS
<1>6. n >= 1
  OBVIOUS
<1>5. at \in Int /\ 1 =< at /\ a =< at /\ d < at + n - 1 /\ d \in Int
  OBVIOUS
<1> HIDE DEF t, buf, n
<1>7. \A k \in Int : 0 =< k /\ k =< n - 1 /\ k =< size =>
        (k \in lengths <=> SubSeq(t, d - k + 1, d) = SubSeq(marker, 1, k))
  <2> TAKE k \in Int
  <2> HAVE 0 =< k /\ k =< n - 1 /\ k =< size
  <2>1. From(buf, size - k + 1) = SubSeq(t, d - k + 1, d)
    BY <1>3
  <2>2. k \in 0..(Len(marker) - 1)
    BY <1>1 DEF n
  <2>3. k \in lengths <=> From(buf, Len(buf) - k + 1) = SubSeq(marker, 1, k)
    BY <1>2, <2>2
  <2> QED
    BY <1>2, <2>1, <2>3
<1>8. lengths \in SUBSET (0..(n - 1)) /\ \A k \in lengths : k =< size
  BY <1>2 DEF n
<1>9. 0 \in lengths
  <2>1. SubSeq(t, d - 0 + 1, d) = <<>>
    <3> DEFINE x == d - 0 + 1
    <3>1. x \in Int /\ d < x
      OBVIOUS
    <3> HIDE DEF x
    <3>2. SubSeq(t, x, d) = <<>>
      BY <3>1, SubSeqEmpty
    <3> QED
      BY <3>2 DEF x
  <2>2. SubSeq(marker, 1, 0) = <<>>
    BY SubSeqEmpty
  <2> DEFINE z == 0
  <2>3. z \in Int /\ 0 =< z /\ z =< n - 1 /\ z =< size
    BY <1>1, <1>2, <1>6
  <2>4. SubSeq(t, d - z + 1, d) = SubSeq(marker, 1, z)
    BY <2>1, <2>2
  <2> HIDE DEF z, lengths
  <2>5. z \in lengths
    BY <1>7, <2>3, <2>4
  <2> QED
    BY <2>5 DEF z
<1>10. ASSUME d >= at PROVE d - at + 1 \in lengths
  <2> DEFINE k == d - at + 1
             x == d - k + 1
  <2>1. k \in Int /\ 1 =< k /\ k =< n - 1 /\ k =< size /\ x = at
    BY <1>1, <1>5, <1>10
  <2>2. /\ SubSeq(t, at, d) \in Seq(Bytes) /\ Len(SubSeq(t, at, d)) = k
        /\ \A i \in 1..k : SubSeq(t, at, d)[i] = t[at + i - 1]
    <3>1. /\ SubSeq(t, at, d) \in Seq(Bytes)
          /\ Len(SubSeq(t, at, d)) = IF at =< d THEN d - at + 1 ELSE 0
          /\ \A i \in 1..(d - at + 1) : SubSeq(t, at, d)[i] = t[at + i - 1]
      BY <1>1, <1>5, Piece
    <3> QED
      BY <1>10, <3>1
  <2> HIDE DEF k
  <2>3. /\ SubSeq(marker, 1, k) \in Seq(Bytes) /\ Len(SubSeq(marker, 1, k)) = k
        /\ \A i \in 1..k : SubSeq(marker, 1, k)[i] = marker[i]
    <3>1. k =< Len(marker)
      BY <1>1, <2>1 DEF n
    <3>2. /\ SubSeq(marker, 1, k) \in Seq(Bytes)
          /\ Len(SubSeq(marker, 1, k)) = IF 1 =< k THEN k - 1 + 1 ELSE 0
          /\ \A i \in 1..(k - 1 + 1) : SubSeq(marker, 1, k)[i] = marker[1 + i - 1]
      BY <2>1, <3>1, Piece
    <3>3. k - 1 + 1 = k /\ \A i \in 1..k : 1 + i - 1 = i
      BY <2>1
    <3> QED
      BY <2>1, <3>2, <3>3
  <2>4. \A i \in 1..k : t[at + i - 1] = marker[i]
    BY <1>1, <1>4, <2>1
  <2>5. SubSeq(t, at, d) = SubSeq(marker, 1, k)
    <3> DEFINE u == SubSeq(t, at, d)
               v == SubSeq(marker, 1, k)
    <3>1. u \in Seq(Bytes) /\ v \in Seq(Bytes) /\ Len(u) = Len(v) /\ \A i \in 1..Len(u) : u[i] = v[i]
      BY <2>2, <2>3, <2>4
    <3> HIDE DEF u, v
    <3>2. u = v
      BY <3>1, SeqEqual
    <3> QED
      BY <3>2 DEF u, v
  <2>7. SubSeq(t, d - k + 1, d) = SubSeq(marker, 1, k)
    BY <2>1, <2>5
  <2> HIDE DEF lengths
  <2>6. k \in lengths
    BY <1>1, <1>7, <2>1, <2>7
  <2> QED
    BY <2>6 DEF k
<1> DEFINE k == Max(lengths)
<1>11. k \in lengths /\ \A j \in lengths : j =< k
  <2> DEFINE m == n - 1
  <2> HIDE DEF lengths
  <2>1. m \in Nat /\ lengths \in SUBSET (0..m) /\ lengths # {}
    BY <1>1, <1>6, <1>8, <1>9
  <2> HIDE DEF m
  <2> QED
    BY <2>1, Greatest
<1>12. SuffixPrefixOf(buf, marker) = SubSeq(marker, 1, k)
  BY DEF SuffixPrefixOf
<1> HIDE DEF k, lengths
<1>13. k \in 0..size /\ k =< n - 1 /\ SubSeq(t, d - k + 1, d) = SubSeq(marker, 1, k)
  <2>1. k \in Int /\ 0 =< k /\ k =< n - 1 /\ k =< size
    <3>1. k \in 0..(n - 1) /\ k =< size
      BY <1>8, <1>11
    <3> QED
      BY <1>1, <3>1
  <2>2. SubSeq(t, d - k + 1, d) = SubSeq(marker, 1, k)
    BY <1>7, <1>11, <2>1
  <2> QED
    BY <1>2, <2>1, <2>2
<1>14. Len(SubSeq(marker, 1, k)) = k
  <2>1. k \in Int /\ k =< Len(marker) /\ 0 =< k
    BY <1>1, <1>13 DEF n
  <2>2. Len(SubSeq(marker, 1, k)) = IF 1 =< k THEN k - 1 + 1 ELSE 0
    BY <2>1, Piece
  <2> QED
    BY <2>1, <2>2
<1>15. d - k + 1 =< at
  BY <1>5, <1>10, <1>11, <1>13
<1>16. SuffixPrefixOf(buf, marker) = SubSeq(t, d - k + 1, d)
  BY <1>12, <1>13
<1>17. Len(SuffixPrefixOf(buf, marker)) = k
  BY <1>12, <1>14
<1> QED
  BY <1>13, <1>15, <1>16, <1>17 DEF buf, t

\* An end marker that has begun and is not complete is held back.
LEMMA HeldBack ==
  ASSUME NEW p \in Programs, NEW a \in Int, NEW d \in Int, 1 =< a, a =< d + 1,
         a =< EndAt(p), d < Len(Text(p))
  PROVE  /\ EndHoldback(SubSeq(Text(p), a, d)) \in 0..(d - a + 1)
         /\ d - EndHoldback(SubSeq(Text(p), a, d)) + 1 =< EndAt(p)
<1> DEFINE t == Text(p)
           e == EndAt(p)
           n == Len(t)
           buf == SubSeq(t, a, d)
           size == d - a + 1
           begun == Occurrences(EndPrefix, buf)
<1>1. /\ t \in Seq(Bytes) /\ t[n - 1] = "e"
      /\ n = e + Len(p.code) + 4
      /\ \A i \in 1..Len(p.code) : t[e + 2 + i] = p.code[i]
      /\ t[e] = "e" /\ t[e + 1] = "j" /\ t[e + 2] = "D"
  BY TextIs
<1>2. n \in Nat /\ e \in Nat \ {0} /\ e + 5 =< n /\ d =< n
  BY Places
<1>3. size \in Nat /\ Len(buf) = size /\ buf \in Seq(Bytes)
  <2>1. Len(buf) = (IF a =< d THEN size ELSE 0) /\ buf \in Seq(Bytes)
    <3>1. t \in Seq(Bytes) /\ d =< Len(t)
      BY <1>1, <1>2
    <3> HIDE DEF t
    <3> QED
      BY <3>1, Piece
  <2> HIDE DEF buf
  <2> QED
    BY <2>1
<1>4. begun = IF a =< e /\ e + 2 =< d THEN {e - a + 1} ELSE {}
  BY <1>2, EndsIn
<1>5. Len(EndPrefix) = 3 /\ EndPrefix \in Seq(Bytes)
      /\ EndPrefix[1] = "e" /\ EndPrefix[2] = "j" /\ EndPrefix[3] = "D"
  BY Markers
<1>6. \A x, y \in Int : 1 =< x /\ y =< size => SubSeq(buf, x, y) = SubSeq(t, a + x - 1, a + y - 1)
  BY <1>1, <1>2, PieceOfPiece
<1>7. SubSeq(t, e + 3, n - 2) = p.code /\ ExitStatus(p.code) /\ p.code \in Seq(Bytes)
  BY StatusIn
<1>8. a =< e /\ d < n /\ a =< d + 1
  OBVIOUS
<1>9. CASE e + 2 =< d
  <2> DEFINE x == e - a + 1
             rest == From(buf, x + 3)
  <2>1. begun = {x} /\ x \in Int
    BY <1>2, <1>4, <1>8, <1>9
  <2>2. Max(begun) = x
    <3> HIDE DEF x, begun
    <3>1. \A m \in begun : m = x /\ x >= m
      BY <2>1
    <3> QED
      BY <2>1, <3>1 DEF Max
  <2>3. rest = SubSeq(t, e + 3, d)
    <3> DEFINE u == x + 3
    <3>1. u \in Int /\ size \in Int /\ 1 =< u /\ a + u - 1 = e + 3 /\ a + size - 1 = d
      BY <1>2, <1>8
    <3> HIDE DEF u, x, size
    <3>2. SubSeq(buf, u, size) = SubSeq(t, a + u - 1, a + size - 1)
      BY <1>6, <3>1
    <3>3. SubSeq(buf, u, size) = SubSeq(t, e + 3, d)
      BY <3>1, <3>2
    <3> QED
      BY <1>3, <3>3 DEF From, u
  <2> DEFINE y == e + 3
             c == Len(p.code)
  <2>4. y \in Int /\ 1 =< y /\ d \in Int /\ d =< Len(t) /\ c \in Nat /\ n = y + c + 1
    <3>1. c \in Nat
      BY <1>7, LenProperties
    <3>2. n = e + c + 4
      BY <1>1
    <3> HIDE DEF c, e, n
    <3>3. e + 3 \in Int /\ 1 =< e + 3 /\ d \in Int /\ d =< n /\ n = e + 3 + c + 1
      BY <1>2, <1>8, <3>1, <3>2
    <3> QED
      BY <3>1, <3>3 DEF n
  <2>5. rest = SubSeq(t, y, d)
    BY <2>3
  <2> HIDE DEF y, t, rest
  <2>6. /\ rest \in Seq(Bytes) /\ Len(rest) = (IF y =< d THEN d - y + 1 ELSE 0)
        /\ \A i \in 1..(d - y + 1) : rest[i] = t[y + i - 1]
        /\ DOMAIN rest = 1..Len(rest)
    <3>1. t \in Seq(Bytes)
      BY <1>1
    <3>2. /\ SubSeq(t, y, d) \in Seq(Bytes)
          /\ Len(SubSeq(t, y, d)) = (IF y =< d THEN d - y + 1 ELSE 0)
          /\ \A i \in 1..(d - y + 1) : SubSeq(t, y, d)[i] = t[y + i - 1]
          /\ DOMAIN SubSeq(t, y, d) = 1..Len(SubSeq(t, y, d))
      BY <2>4, <3>1, Piece
    <3> QED
      BY <2>5, <3>2
  <2>7. MinusDigits(p.code) /\ DOMAIN p.code = 1..c
    BY <1>7, LenProperties DEF ExitStatus
  <2>8. EndTail(rest)
    <3>1. CASE d =< n - 2
      <4>1. ASSUME NEW i \in DOMAIN rest
            PROVE  rest[i] \in Digits \/ (i = 1 /\ rest[i] = "-")
        <5>1. i \in 1..(d - y + 1) /\ i \in 1..c
          <6>1. i \in 1..Len(rest)
            BY <2>6
          <6>2. Len(rest) \in Int /\ i \in Int /\ 1 =< i /\ i =< Len(rest) /\ (Len(rest) = d - y + 1 \/ Len(rest) = 0)
            BY <2>4, <2>6, <6>1
          <6>3. i =< d - y + 1
            BY <2>4, <6>2
          <6> QED
            BY <1>2, <2>4, <3>1, <6>2, <6>3
        <5>2. rest[i] = t[y + i - 1] /\ t[e + 2 + i] = p.code[i]
          BY <1>1, <2>6, <5>1
        <5>3. y + i - 1 = e + 2 + i
          BY <1>2, <5>1 DEF y
        <5>4. p.code[i] \in Digits \/ (i = 1 /\ p.code[i] = "-")
          BY <2>7, <5>1 DEF MinusDigits
        <5> QED
          BY <5>2, <5>3, <5>4
      <4> QED
        BY <4>1 DEF EndTail, MinusDigits
    <3>2. CASE d = n - 1
      <4>1. Len(rest) = c + 1 /\ c + 1 \in 1..(d - y + 1) /\ y + (c + 1) - 1 = d /\ d - y + 1 = c + 1
        <5>1. d - y + 1 = c + 1 /\ y =< d /\ y + (c + 1) - 1 = d
          BY <1>2, <2>4, <3>2
        <5> QED
          BY <2>4, <2>6, <5>1
      <4>2. rest[Len(rest)] = "e"
        <5> DEFINE l == c + 1
        <5>1. rest[l] = t[y + l - 1]
          BY <2>6, <4>1
        <5>2. rest[c + 1] = t[d]
          BY <4>1, <5>1
        <5> QED
          BY <1>1, <3>2, <4>1, <5>2
      <4>3. Front(rest) = SubSeq(rest, 1, c)
        <5>1. Len(rest) - 1 = c
          BY <2>4, <4>1
        <5> QED
          BY <5>1 DEF Front
      <4>4. SubSeq(rest, 1, c) = SubSeq(t, y, n - 2)
        <5> DEFINE one == 1
        <5>1. one \in Int /\ c \in Int /\ 1 =< one /\ c =< d - y + 1 /\ y + one - 1 = y /\ y + c - 1 = n - 2
          BY <1>2, <2>4, <4>1
        <5> HIDE DEF one, c
        <5>2. SubSeq(SubSeq(t, y, d), one, c) = SubSeq(t, y + one - 1, y + c - 1)
          BY <1>1, <2>4, <5>1, PieceOfPiece
        <5> QED
          BY <2>5, <5>1, <5>2 DEF one
      <4>5. Front(rest) = p.code
        BY <1>7, <4>3, <4>4 DEF y
      <4>6. rest # <<>>
        <5>1. Len(rest) # 0
          BY <2>4, <4>1
        <5> QED
          BY <5>1
      <4> QED
        BY <2>7, <4>2, <4>5, <4>6 DEF EndTail
    <3> QED
      BY <1>2, <1>8, <3>1, <3>2
  <2>9. EndHoldback(buf) = size - x + 1
    <3>1. begun # {} /\ EndTail(From(buf, Max(begun) + Len(EndPrefix)))
      <4> HIDE DEF x, begun, buf
      <4>1. Max(begun) + Len(EndPrefix) = x + 3
        BY <1>5, <2>2
      <4> QED
        BY <2>1, <2>8, <4>1 DEF rest
    <3>2. EndHoldback(buf) = Len(buf) - Max(begun) + 1
      BY <3>1 DEF EndHoldback
    <3> QED
      BY <1>3, <2>2, <3>2
  <2>10. size - x + 1 = d - e + 1
    BY <1>2
  <2> QED
    BY <1>2, <1>8, <1>9, <2>9, <2>10 DEF t
<1>10. CASE ~(e + 2 =< d)
  <2>1. begun = {}
    BY <1>4, <1>10
  <2>2. EndHoldback(buf) = Len(SuffixPrefixOf(buf, EndPrefix))
    BY <2>1 DEF EndHoldback
  <2>3. \A i \in 1..Len(EndPrefix) : t[e + i - 1] = EndPrefix[i]
    <3>1. e + 1 - 1 = e /\ e + 2 - 1 = e + 1 /\ e + 3 - 1 = e + 2
      BY <1>2
    <3>2. \A i \in 1..Len(EndPrefix) : i = 1 \/ i = 2 \/ i = 3
      BY <1>5
    <3> QED
      BY <1>1, <1>5, <3>1, <3>2
  <2>4. d < e + Len(EndPrefix) - 1 /\ Len(EndPrefix) >= 1
    BY <1>2, <1>5, <1>8, <1>10
  <2> DEFINE kept == SuffixPrefixOf(buf, EndPrefix)
  <2>5. Len(kept) \in 0..(d - a + 1) /\ d - Len(kept) + 1 =< e
    <3>1. EndPrefix \in Seq(Bytes) /\ e \in Nat \ {0} /\ d =< Len(t) /\ a =< e
      BY <1>2, <1>5, <1>8
    <3> HIDE DEF e
    <3> QED
      BY <2>3, <2>4, <3>1, SuffixIn
  <2> QED
    BY <2>2, <2>5
<1> QED
  BY <1>9, <1>10

-----------------------------------------------------------------------------
(* One piece of the output after another.                                  *)

\* What is between the markers is the output of the program.
LEMMA OutputIs ==
  ASSUME NEW p \in Programs
  PROVE  SubSeq(Text(p), OutputAt(p), EndAt(p) - 1) = p.out /\ p.out \in Seq(Bytes)
<1> DEFINE t == Text(p)
           x == OutputAt(p)
           y == EndAt(p) - 1
           s == SubSeq(t, x, y)
           o == Len(p.out)
<1>1. /\ t \in Seq(Bytes) /\ o \in Nat
      /\ \A i \in 1..o : t[x + i - 1] = p.out[i]
  BY TextIs
<1>2. x \in Int /\ y \in Int /\ 1 =< x /\ y =< Len(t) /\ y - x + 1 = o /\ (x =< y <=> o # 0)
  <2>1. EndAt(p) = x + o /\ x \in Nat \ {0} /\ EndAt(p) + 5 =< Len(t) /\ Len(t) \in Nat
    BY Places
  <2> HIDE DEF x, o, t
  <2> QED
    BY <1>1, <2>1
<1>3. p.out \in Seq(Bytes)
  BY ProgramsAssumption
<1>4. s \in Seq(Bytes) /\ Len(s) = o /\ \A i \in 1..o : s[i] = t[x + i - 1]
  <2>1. t \in Seq(Bytes)
    BY <1>1
  <2> HIDE DEF t, x, y, o
  <2>2. /\ SubSeq(t, x, y) \in Seq(Bytes)
        /\ Len(SubSeq(t, x, y)) = IF x =< y THEN y - x + 1 ELSE 0
        /\ \A i \in 1..(y - x + 1) : SubSeq(t, x, y)[i] = t[x + i - 1]
    BY <1>2, <2>1, Piece
  <2>3. s = SubSeq(t, x, y)
    OBVIOUS
  <2> HIDE DEF s
  <2>4. Len(s) = o
    BY <1>1, <1>2, <2>2, <2>3
  <2> QED
    BY <1>2, <2>2, <2>3, <2>4
<1> HIDE DEF s, x, t
<1>5. Len(s) = Len(p.out) /\ \A i \in 1..Len(s) : s[i] = p.out[i]
  BY <1>1, <1>4
<1>6. s = p.out
  BY <1>3, <1>4, <1>5, SeqEqual
<1> QED
  BY <1>3, <1>6 DEF s, x, t

\* What is shown, and what is held back, once the start marker has been seen.
Clear(sc) == IF sc.streaming THEN <<>> ELSE ClearSeq
Shows(p, sc, data, q, d) ==
    LET all == sc.buf \o data
        starts == Occurrences(StartMarker, all)
    IN  \/ sc.streaming /\ all = SubSeq(Text(p), q, d)
        \/ /\ ~sc.streaming /\ starts # {}
           /\ From(all, Min(starts) + Len(StartMarker)) = SubSeq(Text(p), q, d)
\* The rest of the output, or what is not held back of it.
FedAll(p, sc, q, fed) ==
    /\ fed.scan = [streaming |-> TRUE, buf |-> <<>>, done |-> TRUE, code |-> p.code]
    /\ fed.out = Clear(sc) \o SubSeq(Text(p), q, EndAt(p) - 1)
FedTo(p, sc, q, d, fed, x) ==
    /\ fed.scan = [sc EXCEPT !.streaming = TRUE, !.buf = SubSeq(Text(p), x, d)]
    /\ fed.out = Clear(sc) \o SubSeq(Text(p), q, x - 1)

\* Feeding a piece: what is shown, and what is kept.
LEMMA FeedOn ==
  ASSUME NEW p \in Programs, NEW q \in OutputAt(p)..EndAt(p), NEW d \in Int,
         q =< d + 1, d =< Len(Text(p)), NEW sc, NEW data, Shows(p, sc, data, q, d)
  PROVE  LET fed == Feed(sc, data, ClearSeq)
         IN  /\ d = Len(Text(p)) => FedAll(p, sc, q, fed)
             /\ d # Len(Text(p)) => \E x \in q..EndAt(p) : x =< d + 1 /\ FedTo(p, sc, q, d, fed, x)
<1> DEFINE clear == Clear(sc)
           t == Text(p)
           n == Len(t)
           e == EndAt(p)
           all == sc.buf \o data
           starts == Occurrences(StartMarker, all)
           shown == SubSeq(t, q, d)
           size == d - q + 1
           ends == EndMarkers(shown)
           end == CHOOSE m \in ends : \A k \in ends : m.at <= k.at
           hold == EndHoldback(shown)
           fed == Feed(sc, data, ClearSeq)
<1>1. /\ n \in Nat /\ e \in Nat \ {0} /\ e + 5 =< n /\ OutputAt(p) \in Nat \ {0}
      /\ t \in Seq(Bytes)
  BY Places, TextIs
<1>2. q \in Int /\ 1 =< q /\ q =< e /\ d =< n /\ q =< d + 1 /\ size \in Nat
  BY <1>1
<1>3. Len(shown) = size
  <2>1. t \in Seq(Bytes) /\ d =< Len(t) /\ 1 =< q /\ q \in Int
    BY <1>1, <1>2
  <2> HIDE DEF t
  <2>2. Len(shown) = IF q =< d THEN d - q + 1 ELSE 0
    BY <2>1, Piece
  <2> HIDE DEF shown
  <2> QED
    BY <1>2, <2>2
<1>4. \A x, y \in Int : 1 =< x /\ y =< size => SubSeq(shown, x, y) = SubSeq(t, q + x - 1, q + y - 1)
  <2>1. t \in Seq(Bytes) /\ d =< Len(t) /\ 1 =< q /\ q \in Int
    BY <1>1, <1>2
  <2> HIDE DEF t
  <2> QED
    BY <2>1, PieceOfPiece
<1>5. fed = IF ends # {}
            THEN [scan |-> [streaming |-> TRUE, buf |-> <<>>, done |-> TRUE,
                            code |-> SubSeq(shown, end.at + Len(EndPrefix), end.last)],
                  out |-> clear \o SubSeq(shown, 1, end.at - 1)]
            ELSE [scan |-> [sc EXCEPT !.streaming = TRUE, !.buf = From(shown, Len(shown) - hold + 1)],
                  out |-> clear \o SubSeq(shown, 1, Len(shown) - hold)]
  <2>1. CASE sc.streaming
    BY <2>1 DEF Feed, Shows, Clear
  <2>2. CASE ~sc.streaming
    BY <2>2 DEF Feed, Shows, Clear
  <2> QED
    BY <2>1, <2>2
<1>6. /\ \A m \in ends : /\ q =< e /\ d = n
                         /\ m.at = e - q + 1 /\ m.last = n - q - 1
      /\ q =< e /\ d = n => ends # {}
  BY <1>2, EndMarkersIn
<1> HIDE DEF t, e, n, shown, ends
<1>7. CASE d = n
  <2>1. ends # {}
    BY <1>2, <1>6, <1>7
  <2>2. end \in ends
    <3>1. PICK m \in ends : TRUE
      BY <2>1
    <3>2. \A k \in ends : m.at <= k.at
      BY <1>1, <1>2, <1>6
    <3> QED
      BY <3>1, <3>2
  <2>3. end.at = e - q + 1 /\ end.last = n - q - 1
    BY <1>6, <2>2
  <2> HIDE DEF end
  <2> DEFINE x == end.at + 3
             y == end.last
             z == end.at - 1
             one == 1
  <2>4. x \in Int /\ y \in Int /\ 1 =< x /\ y =< size /\ q + x - 1 = e + 3 /\ q + y - 1 = n - 2
    BY <1>1, <1>2, <1>7, <2>3
  <2>5. one \in Int /\ z \in Int /\ 1 =< one /\ z =< size /\ q + one - 1 = q /\ q + z - 1 = e - 1
    BY <1>1, <1>2, <1>7, <2>3
  <2>6. SubSeq(shown, end.at + Len(EndPrefix), end.last) = p.code
    <3>1. end.at + Len(EndPrefix) = x
      BY Markers
    <3> HIDE DEF x, y
    <3>2. SubSeq(shown, x, y) = SubSeq(t, q + x - 1, q + y - 1)
      BY <1>4, <2>4
    <3>3. SubSeq(shown, x, y) = SubSeq(t, e + 3, n - 2)
      BY <2>4, <3>2
    <3> QED
      BY <3>1, <3>3, StatusIn DEF y, t, e, n
  <2>7. SubSeq(shown, 1, end.at - 1) = SubSeq(t, q, e - 1)
    <3> HIDE DEF one, z
    <3>1. SubSeq(shown, one, z) = SubSeq(t, q + one - 1, q + z - 1)
      BY <1>4, <2>5
    <3>2. SubSeq(shown, one, z) = SubSeq(t, q, e - 1)
      BY <2>5, <3>1
    <3> QED
      BY <3>2 DEF one, z
  <2> HIDE DEF fed
  <2>8. fed = [scan |-> [streaming |-> TRUE, buf |-> <<>>, done |-> TRUE, code |-> p.code],
               out |-> clear \o SubSeq(t, q, e - 1)]
    BY <1>5, <2>1, <2>6, <2>7
  <2> QED
    <3>1. FedAll(p, sc, q, fed)
      BY <2>8 DEF FedAll, t, e
    <3> QED
      BY <1>7, <3>1 DEF fed, t, n
<1>8. CASE d # n
  <2>1. ends = {}
    BY <1>6, <1>8
  <2>2. hold \in 0..size /\ d - hold + 1 =< e
    <3>1. d < n /\ 1 =< q /\ q \in Int /\ q =< e /\ q =< d + 1
      BY <1>1, <1>2, <1>8
    <3>2. EndHoldback(SubSeq(Text(p), q, d)) \in 0..(d - q + 1)
          /\ d - EndHoldback(SubSeq(Text(p), q, d)) + 1 =< EndAt(p)
      BY <3>1, HeldBack DEF n, e, t
    <3> QED
      BY <3>2 DEF t, e, shown
  <2> HIDE DEF hold
  <2> DEFINE x == d - hold + 1
             u == size - hold + 1
             v == size - hold
             one == 1
  <2>3. /\ x \in q..e /\ x =< d + 1
        /\ u \in Int /\ v \in Int /\ 1 =< u /\ v =< size /\ size \in Int
        /\ q + u - 1 = x /\ q + size - 1 = d /\ q + v - 1 = x - 1
        /\ one \in Int /\ 1 =< one /\ q + one - 1 = q
    <3>1. hold \in Int /\ 0 =< hold /\ hold =< size
      BY <1>2, <2>2
    <3> QED
      BY <1>1, <1>2, <2>2, <3>1
  <2>4. From(shown, Len(shown) - hold + 1) = SubSeq(t, x, d)
    <3>1. Len(shown) - hold + 1 = u
      BY <1>3
    <3> HIDE DEF x, u, size
    <3>4. u \in Int /\ size \in Int /\ 1 =< u /\ size =< size
      BY <2>3
    <3>2. SubSeq(shown, u, size) = SubSeq(t, q + u - 1, q + size - 1)
      BY <1>4, <3>4
    <3>3. SubSeq(shown, u, size) = SubSeq(t, x, d)
      BY <2>3, <3>2
    <3> QED
      BY <1>3, <3>1, <3>3 DEF From
  <2>5. SubSeq(shown, 1, Len(shown) - hold) = SubSeq(t, q, x - 1)
    <3>1. Len(shown) - hold = v
      BY <1>3
    <3> HIDE DEF x, v, size, one
    <3>2. SubSeq(shown, one, v) = SubSeq(t, q + one - 1, q + v - 1)
      BY <1>4, <2>3
    <3>3. SubSeq(shown, one, v) = SubSeq(t, q, x - 1)
      BY <2>3, <3>2
    <3> QED
      BY <3>1, <3>3 DEF one
  <2> HIDE DEF fed, x
  <2>6. fed = [scan |-> [sc EXCEPT !.streaming = TRUE, !.buf = SubSeq(t, x, d)],
               out |-> clear \o SubSeq(t, q, x - 1)]
    BY <1>5, <2>1, <2>4, <2>5
  <2>7. \E w \in q..e : w =< d + 1 /\ FedTo(p, sc, q, d, fed, w)
    BY <2>3, <2>6 DEF FedTo, t
  <2> QED
    BY <1>8, <2>7 DEF fed, t, e, n
<1> QED
  BY <1>7, <1>8 DEF t, n

\* The scanner and the screen of jp run after the first r symbols of the text:
\* before the start marker, between the markers, after the end marker.
Waiting(p, sc, shown, r) ==
    /\ shown = <<>> /\ r < StartAt(p) + 4
    /\ \E q \in 1..(r + 1) :
          /\ q =< StartAt(p)
          /\ sc = [streaming |-> FALSE, buf |-> SubSeq(Text(p), q, r), done |-> FALSE, code |-> <<>>]
Streaming(p, sc, shown, r) ==
    /\ r < Len(Text(p))
    /\ \E q \in OutputAt(p)..EndAt(p) :
          /\ q =< r + 1
          /\ sc = [streaming |-> TRUE, buf |-> SubSeq(Text(p), q, r), done |-> FALSE, code |-> <<>>]
          /\ shown = ClearSeq \o SubSeq(Text(p), OutputAt(p), q - 1)
Finished(p, sc, shown, r) ==
    /\ r = Len(Text(p))
    /\ sc = [streaming |-> TRUE, buf |-> <<>>, done |-> TRUE, code |-> p.code]
    /\ shown = ClearSeq \o p.out
ScannerAt(p, sc, shown, r) ==
    Waiting(p, sc, shown, r) \/ Streaming(p, sc, shown, r) \/ Finished(p, sc, shown, r)

\* Before the start marker, the next piece is fed right.
LEMMA FeedWaiting ==
  ASSUME NEW p \in Programs, NEW r \in 0..Len(Text(p)), NEW d \in r..Len(Text(p)),
         NEW sc, NEW shown, Waiting(p, sc, shown, r)
  PROVE  LET fed == Feed(sc, SubSeq(Text(p), r + 1, d), ClearSeq)
         IN  ScannerAt(p, fed.scan, shown \o fed.out, d)
<1> DEFINE t == Text(p)
           n == Len(t)
           data == SubSeq(t, r + 1, d)
           fed == Feed(sc, data, ClearSeq)
           s == StartAt(p)
<1>1. /\ n \in Nat /\ s \in Nat \ {0} /\ OutputAt(p) = s + 5 /\ EndAt(p) \in Nat \ {0}
      /\ s + 5 =< EndAt(p) /\ EndAt(p) + 5 =< n /\ t \in Seq(Bytes)
  BY Places, TextIs
<1>2. r \in Nat /\ d \in Nat /\ r =< d /\ d =< n
  BY <1>1
<1>3. shown = <<>> /\ r < s + 4
  BY DEF Waiting
<1>4. PICK q \in 1..(r + 1) :
         /\ q =< s
         /\ sc = [streaming |-> FALSE, buf |-> SubSeq(t, q, r), done |-> FALSE, code |-> <<>>]
  BY DEF Waiting
<1> DEFINE all == sc.buf \o data
           starts == Occurrences(StartMarker, all)
<1>5. q \in Int /\ 1 =< q /\ q =< s /\ q =< r + 1 /\ q =< d + 1
  BY <1>1, <1>2, <1>4
<1>6. all = SubSeq(t, q, d)
  <2>1. sc.buf = SubSeq(t, q, r)
    BY <1>4
  <2>2. SubSeq(t, q, r) \o SubSeq(t, r + 1, d) = SubSeq(t, q, d)
    <3> HIDE DEF t
    <3> QED
      BY <1>1, <1>2, <1>5, PiecesMeet DEF n
  <2> QED
    BY <2>1, <2>2
<1>7. starts = IF q =< s /\ s + 4 =< d THEN {s - q + 1} ELSE {}
  <2>1. Occurrences(StartMarker, SubSeq(t, q, d)) = IF q =< s /\ s + 4 =< d THEN {s - q + 1} ELSE {}
    <3>1. q \in Int /\ d \in Int /\ 1 =< q /\ d =< Len(Text(p))
      BY <1>2, <1>5
    <3> QED
      BY <3>1, StartsIn
  <2> HIDE DEF all
  <2> QED
    BY <1>6, <2>1
<1>8. CASE d < s + 4
  <2> DEFINE kept == SuffixPrefixOf(all, StartMarker)
             k == Len(kept)
  <2>1. starts = {}
    BY <1>1, <1>2, <1>7, <1>8
  <2>2. fed = [scan |-> [sc EXCEPT !.buf = kept], out |-> <<>>]
    BY <1>4, <2>1 DEF Feed
  <2>3. k \in 0..(d - q + 1) /\ kept = SubSeq(t, d - k + 1, d) /\ d - k + 1 =< s
    <3>1. /\ StartMarker \in Seq(Bytes) /\ s \in Nat \ {0} /\ Len(StartMarker) >= 1
          /\ d < s + Len(StartMarker) - 1
      BY <1>1, <1>2, <1>8, Markers
    <3>2. \A i \in 1..Len(StartMarker) : t[s + i - 1] = StartMarker[i]
      <4>1. \A i \in 1..5 : t[s + i - 1] = StartMarker[i]
        BY TextIs
      <4> QED
        BY <4>1, Markers
    <3>3. q \in Int /\ d \in Int /\ 1 =< q /\ q =< d + 1 /\ d =< Len(Text(p)) /\ q =< s
      BY <1>2, <1>5
    <3> DEFINE keptIn == SuffixPrefixOf(SubSeq(Text(p), q, d), StartMarker)
    <3>4. /\ Len(keptIn) \in 0..(d - q + 1)
          /\ keptIn = SubSeq(Text(p), d - Len(keptIn) + 1, d)
          /\ d - Len(keptIn) + 1 =< s
      <4> HIDE DEF s
      <4> QED
        BY <3>1, <3>2, <3>3, SuffixIn
    <3>5. kept = keptIn
      BY <1>6
    <3> HIDE DEF kept, keptIn
    <3> QED
      BY <3>4, <3>5
  <2> HIDE DEF kept, fed
  <2> DEFINE x == d - k + 1
  <2>4. x \in 1..(d + 1) /\ x =< s
    BY <1>2, <1>5, <2>3
  <2>5. fed.scan = [streaming |-> FALSE, buf |-> SubSeq(t, x, d), done |-> FALSE, code |-> <<>>]
    BY <1>4, <2>2, <2>3
  <2>6. shown \o fed.out = <<>>
    BY <1>3, <2>2
  <2> HIDE DEF x
  <2>7. Waiting(p, fed.scan, shown \o fed.out, d)
    BY <1>8, <2>4, <2>5, <2>6 DEF Waiting
  <2> QED
    BY <2>7 DEF ScannerAt, fed
<1>9. CASE ~(d < s + 4)
  <2> DEFINE o == OutputAt(p)
             x == s - q + 1
             y == s - q + 6
  <2>1. starts = {x} /\ x \in Int /\ y \in Int /\ 1 =< y
    BY <1>1, <1>2, <1>5, <1>7, <1>9
  <2>2. Min(starts) = x
    <3> HIDE DEF starts, x
    <3>1. \A m \in starts : m = x /\ x <= m
      BY <2>1
    <3> QED
      BY <2>1, <3>1 DEF Min
  <2>3. Min(starts) + Len(StartMarker) = y
    <3>1. Len(StartMarker) = 5 /\ x + 5 = y
      BY <1>1, <1>5, Markers
    <3> HIDE DEF starts, x, y
    <3> QED
      BY <2>2, <3>1
  <2>4. From(all, y) = SubSeq(t, o, d)
    <3> DEFINE size == d - q + 1
    <3>1. size \in Int /\ q + y - 1 = o /\ q + size - 1 = d /\ size =< d - q + 1 /\ size >= 0
      BY <1>1, <1>2, <1>5
    <3>2. Len(SubSeq(t, q, d)) = size
      <4>1. t \in Seq(Bytes) /\ d =< Len(t) /\ d \in Int
        BY <1>1, <1>2
      <4> HIDE DEF t
      <4>2. Len(SubSeq(t, q, d)) = IF q =< d THEN d - q + 1 ELSE 0
        BY <1>5, <4>1, Piece
      <4> QED
        BY <1>2, <1>5, <4>2
    <3> HIDE DEF size, y, o, t
    <3>3. SubSeq(SubSeq(t, q, d), y, size) = SubSeq(t, q + y - 1, q + size - 1)
      BY <1>1, <1>2, <1>5, <2>1, <3>1, PieceOfPiece DEF n
    <3> HIDE DEF all
    <3> QED
      BY <1>6, <3>1, <3>2, <3>3 DEF From
  <2>5. o \in o..EndAt(p) /\ o \in Nat /\ o =< d + 1
    BY <1>1, <1>2, <1>9
  <2>6. ~sc.streaming /\ Clear(sc) = ClearSeq
    BY <1>4 DEF Clear
  <2>7. /\ d = n => FedAll(p, sc, o, fed)
        /\ d # n => \E w \in o..EndAt(p) : w =< d + 1 /\ FedTo(p, sc, o, d, fed, w)
    <3>1. starts # {} /\ From(all, Min(starts) + Len(StartMarker)) = SubSeq(t, o, d)
      BY <2>1, <2>3, <2>4
    <3>2. Shows(p, sc, data, o, d)
      BY <2>6, <3>1 DEF Shows
    <3>3. o \in OutputAt(p)..EndAt(p) /\ d \in Int /\ o =< d + 1 /\ d =< Len(Text(p))
      BY <1>2, <2>5
    <3> HIDE DEF data, o
    <3> QED
      BY <3>2, <3>3, FeedOn DEF o
  <2> HIDE DEF fed
  <2>9. CASE d = n
    <3>1. fed.scan = [streaming |-> TRUE, buf |-> <<>>, done |-> TRUE, code |-> p.code]
      BY <2>7, <2>9 DEF FedAll
    <3>2. shown \o fed.out = ClearSeq \o p.out
      <4>1. fed.out = ClearSeq \o p.out /\ ClearSeq \in Seq(Bytes) /\ p.out \in Seq(Bytes)
        <5>1. fed.out = Clear(sc) \o SubSeq(t, o, EndAt(p) - 1)
          BY <2>7, <2>9 DEF FedAll
        <5>2. SubSeq(t, o, EndAt(p) - 1) = p.out /\ p.out \in Seq(Bytes)
          BY OutputIs
        <5> QED
          BY <2>6, <5>1, <5>2, RunAssumption
      <4>2. ClearSeq \o p.out \in Seq(Bytes)
        BY <4>1, ConcatProperties
      <4> QED
        BY <1>3, <4>1, <4>2, ConcatEmptySeq
    <3>3. Finished(p, fed.scan, shown \o fed.out, d)
      BY <2>9, <3>1, <3>2 DEF Finished
    <3> QED
      BY <3>3 DEF ScannerAt, fed
  <2>10. CASE d # n
    <3>1. PICK w \in o..EndAt(p) : w =< d + 1 /\ FedTo(p, sc, o, d, fed, w)
      BY <2>7, <2>10
    <3>2. fed.scan = [streaming |-> TRUE, buf |-> SubSeq(t, w, d), done |-> FALSE, code |-> <<>>]
      BY <1>4, <3>1 DEF FedTo
    <3>3. shown \o fed.out = ClearSeq \o SubSeq(t, o, w - 1)
      <4>1. fed.out = ClearSeq \o SubSeq(t, o, w - 1) /\ ClearSeq \in Seq(Bytes)
        BY <2>6, <3>1, RunAssumption DEF FedTo
      <4>2. SubSeq(t, o, w - 1) \in Seq(Bytes)
        <5> DEFINE v == w - 1
        <5>1. v \in Int /\ v =< n /\ o \in Int /\ 1 =< o
          BY <1>1, <1>2, <2>5, <3>1
        <5> HIDE DEF v, o, t
        <5>2. SubSeq(t, o, v) \in Seq(Bytes)
          BY <1>1, <5>1, Piece DEF n
        <5> QED
          BY <5>2 DEF v
      <4>3. ClearSeq \o SubSeq(t, o, w - 1) \in Seq(Bytes)
        BY <4>1, <4>2, ConcatProperties
      <4> QED
        BY <1>3, <4>1, <4>3, ConcatEmptySeq
    <3>4. d < n
      BY <1>1, <1>2, <2>10
    <3>5. Streaming(p, fed.scan, shown \o fed.out, d)
      BY <3>1, <3>2, <3>3, <3>4 DEF Streaming
    <3> QED
      BY <3>5 DEF ScannerAt, fed
  <2> QED
    BY <2>9, <2>10
<1> QED
  BY <1>8, <1>9

\* After the start marker, the next piece is fed right.
LEMMA FeedStreaming ==
  ASSUME NEW p \in Programs, NEW r \in 0..Len(Text(p)), NEW d \in r..Len(Text(p)),
         NEW sc, NEW shown, Streaming(p, sc, shown, r)
  PROVE  LET fed == Feed(sc, SubSeq(Text(p), r + 1, d), ClearSeq)
         IN  ScannerAt(p, fed.scan, shown \o fed.out, d)
<1> DEFINE t == Text(p)
           n == Len(t)
           o == OutputAt(p)
           data == SubSeq(t, r + 1, d)
           fed == Feed(sc, data, ClearSeq)
<1>1. /\ n \in Nat /\ o \in Nat \ {0} /\ EndAt(p) \in Nat \ {0} /\ EndAt(p) + 5 =< n
      /\ t \in Seq(Bytes)
  BY Places, TextIs
<1>2. r \in Nat /\ d \in Nat /\ r =< d /\ d =< n
  BY <1>1
<1>3. PICK q \in o..EndAt(p) :
         /\ q =< r + 1
         /\ sc = [streaming |-> TRUE, buf |-> SubSeq(t, q, r), done |-> FALSE, code |-> <<>>]
         /\ shown = ClearSeq \o SubSeq(t, o, q - 1)
  BY DEF Streaming
<1>4. q \in Int /\ 1 =< q /\ o =< q /\ q =< r + 1 /\ q =< d + 1 /\ q =< n /\ q =< EndAt(p)
  BY <1>1, <1>2, <1>3
<1> DEFINE all == sc.buf \o data
<1>5. all = SubSeq(t, q, d)
  <2>1. sc.buf = SubSeq(t, q, r)
    BY <1>3
  <2>2. SubSeq(t, q, r) \o SubSeq(t, r + 1, d) = SubSeq(t, q, d)
    <3> HIDE DEF t
    <3> QED
      BY <1>1, <1>2, <1>4, PiecesMeet DEF n
  <2> QED
    BY <2>1, <2>2
<1>6. sc.streaming /\ Clear(sc) = <<>>
  BY <1>3 DEF Clear
<1>7. /\ d = n => FedAll(p, sc, q, fed)
      /\ d # n => \E w \in q..EndAt(p) : w =< d + 1 /\ FedTo(p, sc, q, d, fed, w)
  <2>1. Shows(p, sc, data, q, d)
    BY <1>5, <1>6 DEF Shows
  <2>2. q \in OutputAt(p)..EndAt(p) /\ d \in Int /\ q =< d + 1 /\ d =< Len(Text(p))
    BY <1>2, <1>3, <1>4
  <2> HIDE DEF data
  <2> QED
    BY <2>1, <2>2, FeedOn
<1> HIDE DEF fed
<1>8. \A w \in Int : q =< w /\ w - 1 =< n /\ fed.out = Clear(sc) \o SubSeq(t, q, w - 1)
                       => shown \o fed.out = ClearSeq \o SubSeq(t, o, w - 1)
  <2> TAKE w \in Int
  <2> HAVE q =< w /\ w - 1 =< n /\ fed.out = Clear(sc) \o SubSeq(t, q, w - 1)
  <2> DEFINE v == w - 1
             u == q - 1
             before == SubSeq(t, o, u)
             after == SubSeq(t, u + 1, v)
  <2>1. u \in Int /\ v \in Int /\ o \in Int /\ 1 =< o /\ o =< u + 1 /\ u =< v /\ v =< n /\ u + 1 = q /\ u =< n /\ 1 =< u + 1
    BY <1>1, <1>4
  <2> HIDE DEF u, v, o, t
  <2>2. before \in Seq(Bytes) /\ after \in Seq(Bytes) /\ before \o after = SubSeq(t, o, v)
    <3>1. before \in Seq(Bytes) /\ before \o after = SubSeq(t, o, v)
      BY <1>1, <2>1, Piece, PiecesMeet DEF n
    <3>2. after \in Seq(Bytes)
      BY <1>1, <2>1, Piece DEF n
    <3> QED
      BY <3>1, <3>2
  <2>3. fed.out = <<>> \o after /\ shown = ClearSeq \o before
    <3>1. fed.out = <<>> \o SubSeq(t, q, v)
      BY <1>6 DEF v
    <3>2. shown = ClearSeq \o SubSeq(t, o, u)
      BY <1>3 DEF u
    <3>3. u + 1 = q
      BY <2>1
    <3> QED
      BY <3>1, <3>2, <3>3
  <2> HIDE DEF before, after
  <2>4. <<>> \o after = after
    BY <2>2, ConcatEmptySeq
  <2>5. (ClearSeq \o before) \o after = ClearSeq \o (before \o after)
    <3>1. ClearSeq \in Seq(Bytes)
      BY RunAssumption
    <3>2. before \in Seq(Bytes) /\ after \in Seq(Bytes)
      BY <2>2
    <3> QED
      BY <3>1, <3>2, ConcatAssociative
  <2> QED
    BY <2>2, <2>3, <2>4, <2>5 DEF v
<1>9. CASE d = n
  <2>1. fed.scan = [streaming |-> TRUE, buf |-> <<>>, done |-> TRUE, code |-> p.code]
        /\ fed.out = Clear(sc) \o SubSeq(t, q, EndAt(p) - 1)
    BY <1>7, <1>9 DEF FedAll
  <2>2. EndAt(p) \in Int /\ q =< EndAt(p) /\ EndAt(p) - 1 =< n
    BY <1>1, <1>4
  <2>3. shown \o fed.out = ClearSeq \o SubSeq(t, o, EndAt(p) - 1)
    BY <1>8, <2>1, <2>2
  <2>4. shown \o fed.out = ClearSeq \o p.out
    BY <2>3, OutputIs
  <2>5. Finished(p, fed.scan, shown \o fed.out, d)
    BY <1>9, <2>1, <2>4 DEF Finished
  <2> QED
    BY <2>5 DEF ScannerAt, fed
<1>10. CASE d # n
  <2>1. PICK w \in q..EndAt(p) : w =< d + 1 /\ FedTo(p, sc, q, d, fed, w)
    BY <1>7, <1>10
  <2>2. fed.scan = [streaming |-> TRUE, buf |-> SubSeq(t, w, d), done |-> FALSE, code |-> <<>>]
        /\ fed.out = Clear(sc) \o SubSeq(t, q, w - 1)
    BY <1>3, <2>1 DEF FedTo
  <2>3. w \in Int /\ q =< w /\ w - 1 =< n /\ w \in o..EndAt(p) /\ d < n
    BY <1>1, <1>2, <1>4, <1>10, <2>1
  <2>4. shown \o fed.out = ClearSeq \o SubSeq(t, o, w - 1)
    BY <1>8, <2>2, <2>3
  <2>5. Streaming(p, fed.scan, shown \o fed.out, d)
    BY <2>1, <2>2, <2>3, <2>4 DEF Streaming
  <2> QED
    BY <2>5 DEF ScannerAt, fed
<1> QED
  BY <1>9, <1>10

\* The scanner is fed the next piece of the text, however it was cut.
LEMMA FeedKeeps ==
  ASSUME NEW p \in Programs, NEW r \in 0..Len(Text(p)), NEW d \in r..Len(Text(p)),
         NEW sc, NEW shown, ScannerAt(p, sc, shown, r), ~sc.done
  PROVE  LET fed == Feed(sc, SubSeq(Text(p), r + 1, d), ClearSeq)
         IN  ScannerAt(p, fed.scan, shown \o fed.out, d)
<1>1. ~Finished(p, sc, shown, r)
  BY DEF Finished
<1> QED
  BY <1>1, FeedWaiting, FeedStreaming DEF ScannerAt

-----------------------------------------------------------------------------
(* Folds over sequences, step by step.                                     *)

\* Induction, with the numbers for which something holds as a set.
LEMMA AllNumbers ==
  ASSUME NEW S, 0 \in S, \A k \in Nat : k \in S => k + 1 \in S
  PROVE  Nat \subseteq S
<1> DEFINE R == Nat \ S
<1> SUFFICES ASSUME R # {} PROVE FALSE
  OBVIOUS
<1>1. PICK k \in R : \A j \in R : k =< j
  BY Least
<1>2. k \in Nat /\ k \notin S /\ k # 0
  BY <1>1
<1>3. k - 1 \in Nat /\ k - 1 \in S
  BY <1>1, <1>2
<1>4. (k - 1) + 1 = k
  BY <1>2
<1>5. k \in S
  BY <1>3, <1>4
<1> QED
  BY <1>2, <1>5

\* What read_messages' loop over the frames computes.
FramesDef(it, b, fs, m) ==
    [s \in SUBSET (1..m) |-> IF s = {} THEN b ELSE TakeFrame(it[s \ {Max(s)}], fs[Max(s)])]

\* The fold over the frames is well defined.
LEMMA FramesExist ==
  ASSUME NEW b, NEW fs
  PROVE  \A m \in Nat : \E it : it = FramesDef(it, b, fs, m)
<1> DEFINE S == {m \in Nat : \E it : it = FramesDef(it, b, fs, m)}
<1>1. 0 \in S
  <2> DEFINE it == [s \in SUBSET (1..0) |-> b]
  <2>1. \A s \in SUBSET (1..0) : s = {}
    OBVIOUS
  <2>2. it = FramesDef(it, b, fs, 0)
    BY <2>1 DEF FramesDef
  <2> HIDE DEF it
  <2> QED
    BY <2>2
<1>2. ASSUME NEW m \in Nat, m \in S PROVE m + 1 \in S
  <2>1. PICK old : old = FramesDef(old, b, fs, m)
    BY <1>2
  <2> DEFINE l == m + 1
             it == [s \in SUBSET (1..l) |->
                      IF l \in s THEN TakeFrame(old[s \ {l}], fs[l]) ELSE old[s]]
  <2>2. ASSUME NEW s \in SUBSET (1..l), l \in s
        PROVE  Max(s) = l /\ s \ {l} \in SUBSET (1..m) /\ s \ {l} \in SUBSET (1..l) /\ l \notin s \ {l}
    <3>1. \A y \in s : l >= y
      BY <2>2
    <3>2. \A x \in s : (\A y \in s : x >= y) => x = l
      BY <2>2, <3>1
    <3>3. Max(s) = l
      BY <2>2, <3>1, <3>2 DEF Max
    <3> QED
      BY <2>2, <3>3
  <2>3. ASSUME NEW s \in SUBSET (1..l), l \notin s
        PROVE  s \in SUBSET (1..m)
    BY <2>3
  <2>4. ASSUME NEW s \in SUBSET (1..m)
        PROVE  /\ s \in SUBSET (1..l) /\ l \notin s
               /\ old[s] = IF s = {} THEN b ELSE TakeFrame(old[s \ {Max(s)}], fs[Max(s)])
               /\ s \ {Max(s)} \in SUBSET (1..m)
    <3>1. old[s] = FramesDef(old, b, fs, m)[s]
      BY <2>1
    <3>2. old[s] = IF s = {} THEN b ELSE TakeFrame(old[s \ {Max(s)}], fs[Max(s)])
      BY <3>1 DEF FramesDef
    <3>3. s \in SUBSET (1..l) /\ l \notin s
      OBVIOUS
    <3> QED
      BY <3>2, <3>3
  <2> HIDE DEF l
  <2>5. \A s \in SUBSET (1..m) : it[s] = old[s]
    BY <2>4
  <2>6. ASSUME NEW s \in SUBSET (1..l)
        PROVE  it[s] = IF s = {} THEN b ELSE TakeFrame(it[s \ {Max(s)}], fs[Max(s)])
    <3>1. CASE l \in s
      <4>1. it[s] = TakeFrame(old[s \ {l}], fs[l]) /\ s # {}
        BY <3>1
      <4> HIDE DEF it
      <4> QED
        BY <2>2, <2>5, <3>1, <4>1
    <3>2. CASE l \notin s
      <4>1. it[s] = old[s] /\ s \in SUBSET (1..m)
        BY <2>3, <3>2
      <4> HIDE DEF it
      <4> QED
        BY <2>4, <2>5, <4>1
    <3> QED
      BY <3>1, <3>2
  <2>7. it = FramesDef(it, b, fs, l)
    <3>1. it = [s \in SUBSET (1..l) |-> it[s]]
      OBVIOUS
    <3> HIDE DEF it
    <3> QED
      BY <2>6, <3>1 DEF FramesDef
  <2> HIDE DEF it
  <2> QED
    BY <2>7 DEF l
<1> HIDE DEF S
<1>3. Nat \subseteq S
  BY <1>1, <1>2, AllNumbers
<1> QED
  BY <1>3 DEF S

FramesTaken(b, fs) == FoldLeft(TakeFrame, b, fs)
FrameByFrame(g, b, fs, n) ==
    /\ g[0] = b
    /\ \A k \in 1..n : g[k] = TakeFrame(g[k - 1], fs[k])
    /\ FramesTaken(b, fs) = g[n]

\* The fold over the frames takes them one by one.
LEMMA FramesStepByStep ==
  ASSUME NEW b, NEW fs, NEW n \in Nat, DOMAIN fs = 1..n
  PROVE  \E g : FrameByFrame(g, b, fs, n)
<1> DEFINE it == CHOOSE i : i = FramesDef(i, b, fs, n)
           g == [k \in 0..n |-> it[1..k]]
<1>1. FramesTaken(b, fs) = it[1..n]
  BY DEF FramesTaken, FoldLeft, MapThenFoldSet, FramesDef
<1>2. it = FramesDef(it, b, fs, n)
  BY FramesExist
<1> HIDE DEF it
<1>3. \A s \in SUBSET (1..n) : it[s] = IF s = {} THEN b ELSE TakeFrame(it[s \ {Max(s)}], fs[Max(s)])
  <2> TAKE s \in SUBSET (1..n)
  <2>1. it[s] = FramesDef(it, b, fs, n)[s]
    BY <1>2
  <2> QED
    BY <2>1 DEF FramesDef
<1>4. g[0] = b
  <2>1. 1..0 = {} /\ {} \in SUBSET (1..n)
    OBVIOUS
  <2>2. it[1..0] = b
    BY <1>3, <2>1
  <2> QED
    BY <2>2
<1>5. ASSUME NEW k \in 1..n PROVE g[k] = TakeFrame(g[k - 1], fs[k])
  <2>1. /\ 1..k \in SUBSET (1..n) /\ 1..k # {} /\ k \in 1..k
        /\ (1..k) \ {k} = 1..(k - 1) /\ k \in 0..n /\ k - 1 \in 0..n
    <3>1. \A i \in 1..k : i \in 1..n
      OBVIOUS
    <3>2. k \in 1..k /\ k \in 0..n /\ k - 1 \in 0..n
      OBVIOUS
    <3>3. ASSUME NEW i PROVE i \in (1..k) \ {k} <=> i \in 1..(k - 1)
      OBVIOUS
    <3>4. (1..k) \ {k} = 1..(k - 1)
      BY <3>3
    <3> QED
      BY <3>1, <3>2, <3>4
  <2>2. Max(1..k) = k
    <3>1. \A x \in 1..k : (\A y \in 1..k : x >= y) => x = k
      BY <2>1
    <3>2. \A y \in 1..k : k >= y
      OBVIOUS
    <3> QED
      BY <2>1, <3>1, <3>2 DEF Max
  <2>3. it[1..k] = TakeFrame(it[1..(k - 1)], fs[k])
    BY <1>3, <2>1, <2>2
  <2> QED
    BY <2>1, <2>3
<1>6. FramesTaken(b, fs) = g[n]
  BY <1>1
<1> HIDE DEF g
<1> QED
  BY <1>4, <1>5, <1>6 DEF FrameByFrame

\* What _pump's loop over the messages computes.
MessagesDef(it, b, fs, m) ==
    [s \in SUBSET (1..m) |-> IF s = {} THEN b ELSE TakeMessage(it[s \ {Max(s)}], fs[Max(s)])]

\* The fold over the messages is well defined.
LEMMA MessagesExist ==
  ASSUME NEW b, NEW fs
  PROVE  \A m \in Nat : \E it : it = MessagesDef(it, b, fs, m)
<1> DEFINE S == {m \in Nat : \E it : it = MessagesDef(it, b, fs, m)}
<1>1. 0 \in S
  <2> DEFINE it == [s \in SUBSET (1..0) |-> b]
  <2>1. \A s \in SUBSET (1..0) : s = {}
    OBVIOUS
  <2>2. it = MessagesDef(it, b, fs, 0)
    BY <2>1 DEF MessagesDef
  <2> HIDE DEF it
  <2> QED
    BY <2>2
<1>2. ASSUME NEW m \in Nat, m \in S PROVE m + 1 \in S
  <2>1. PICK old : old = MessagesDef(old, b, fs, m)
    BY <1>2
  <2> DEFINE l == m + 1
             it == [s \in SUBSET (1..l) |->
                      IF l \in s THEN TakeMessage(old[s \ {l}], fs[l]) ELSE old[s]]
  <2>2. ASSUME NEW s \in SUBSET (1..l), l \in s
        PROVE  Max(s) = l /\ s \ {l} \in SUBSET (1..m) /\ s \ {l} \in SUBSET (1..l) /\ l \notin s \ {l}
    <3>1. \A y \in s : l >= y
      BY <2>2
    <3>2. \A x \in s : (\A y \in s : x >= y) => x = l
      BY <2>2, <3>1
    <3>3. Max(s) = l
      BY <2>2, <3>1, <3>2 DEF Max
    <3> QED
      BY <2>2, <3>3
  <2>3. ASSUME NEW s \in SUBSET (1..l), l \notin s
        PROVE  s \in SUBSET (1..m)
    BY <2>3
  <2>4. ASSUME NEW s \in SUBSET (1..m)
        PROVE  /\ s \in SUBSET (1..l) /\ l \notin s
               /\ old[s] = IF s = {} THEN b ELSE TakeMessage(old[s \ {Max(s)}], fs[Max(s)])
               /\ s \ {Max(s)} \in SUBSET (1..m)
    <3>1. old[s] = MessagesDef(old, b, fs, m)[s]
      BY <2>1
    <3>2. old[s] = IF s = {} THEN b ELSE TakeMessage(old[s \ {Max(s)}], fs[Max(s)])
      BY <3>1 DEF MessagesDef
    <3>3. s \in SUBSET (1..l) /\ l \notin s
      OBVIOUS
    <3> QED
      BY <3>2, <3>3
  <2> HIDE DEF l
  <2>5. \A s \in SUBSET (1..m) : it[s] = old[s]
    BY <2>4
  <2>6. ASSUME NEW s \in SUBSET (1..l)
        PROVE  it[s] = IF s = {} THEN b ELSE TakeMessage(it[s \ {Max(s)}], fs[Max(s)])
    <3>1. CASE l \in s
      <4>1. it[s] = TakeMessage(old[s \ {l}], fs[l]) /\ s # {}
        BY <3>1
      <4> HIDE DEF it
      <4> QED
        BY <2>2, <2>5, <3>1, <4>1
    <3>2. CASE l \notin s
      <4>1. it[s] = old[s] /\ s \in SUBSET (1..m)
        BY <2>3, <3>2
      <4> HIDE DEF it
      <4> QED
        BY <2>4, <2>5, <4>1
    <3> QED
      BY <3>1, <3>2
  <2>7. it = MessagesDef(it, b, fs, l)
    <3>1. it = [s \in SUBSET (1..l) |-> it[s]]
      OBVIOUS
    <3> HIDE DEF it
    <3> QED
      BY <2>6, <3>1 DEF MessagesDef
  <2> HIDE DEF it
  <2> QED
    BY <2>7 DEF l
<1> HIDE DEF S
<1>3. Nat \subseteq S
  BY <1>1, <1>2, AllNumbers
<1> QED
  BY <1>3 DEF S

MessagesTaken(b, fs) == FoldLeft(TakeMessage, b, fs)
MessageByMessage(g, b, fs, n) ==
    /\ g[0] = b
    /\ \A k \in 1..n : g[k] = TakeMessage(g[k - 1], fs[k])
    /\ MessagesTaken(b, fs) = g[n]

\* The fold over the messages takes them one by one.
LEMMA MessagesStepByStep ==
  ASSUME NEW b, NEW fs, NEW n \in Nat, DOMAIN fs = 1..n
  PROVE  \E g : MessageByMessage(g, b, fs, n)
<1> DEFINE it == CHOOSE i : i = MessagesDef(i, b, fs, n)
           g == [k \in 0..n |-> it[1..k]]
<1>1. MessagesTaken(b, fs) = it[1..n]
  BY DEF MessagesTaken, FoldLeft, MapThenFoldSet, MessagesDef
<1>2. it = MessagesDef(it, b, fs, n)
  BY MessagesExist
<1> HIDE DEF it
<1>3. \A s \in SUBSET (1..n) : it[s] = IF s = {} THEN b ELSE TakeMessage(it[s \ {Max(s)}], fs[Max(s)])
  <2> TAKE s \in SUBSET (1..n)
  <2>1. it[s] = MessagesDef(it, b, fs, n)[s]
    BY <1>2
  <2> QED
    BY <2>1 DEF MessagesDef
<1>4. g[0] = b
  <2>1. 1..0 = {} /\ {} \in SUBSET (1..n)
    OBVIOUS
  <2>2. it[1..0] = b
    BY <1>3, <2>1
  <2> QED
    BY <2>2
<1>5. ASSUME NEW k \in 1..n PROVE g[k] = TakeMessage(g[k - 1], fs[k])
  <2>1. /\ 1..k \in SUBSET (1..n) /\ 1..k # {} /\ k \in 1..k
        /\ (1..k) \ {k} = 1..(k - 1) /\ k \in 0..n /\ k - 1 \in 0..n
    <3>1. \A i \in 1..k : i \in 1..n
      OBVIOUS
    <3>2. k \in 1..k /\ k \in 0..n /\ k - 1 \in 0..n
      OBVIOUS
    <3>3. ASSUME NEW i PROVE i \in (1..k) \ {k} <=> i \in 1..(k - 1)
      OBVIOUS
    <3>4. (1..k) \ {k} = 1..(k - 1)
      BY <3>3
    <3> QED
      BY <3>1, <3>2, <3>4
  <2>2. Max(1..k) = k
    <3>1. \A x \in 1..k : (\A y \in 1..k : x >= y) => x = k
      BY <2>1
    <3>2. \A y \in 1..k : k >= y
      OBVIOUS
    <3> QED
      BY <2>1, <3>1, <3>2 DEF Max
  <2>3. it[1..k] = TakeMessage(it[1..(k - 1)], fs[k])
    BY <1>3, <2>1, <2>2
  <2> QED
    BY <2>1, <2>3
<1>6. MessagesTaken(b, fs) = g[n]
  BY <1>1
<1> HIDE DEF g
<1> QED
  BY <1>4, <1>5, <1>6 DEF MessageByMessage

-----------------------------------------------------------------------------
(* What is on the wire: cells, and the frames that they complete.          *)

Messages == [kind: {"stdout", "disconnect"}, data: Seq(Bytes)]
HalvesOfMessages == [msg: Messages, half: {1, 2}]
Frames == [op: {"text", "cont", "ping", "close"}, fin: BOOLEAN, payload: Seq(HalvesOfMessages)]
Cells == [frame: Frames, part: Int]

\* The frames sent are cells on the wire, two for each.
LEMMA CellsOf ==
  ASSUME NEW G \in Seq(Frames)
  PROVE  /\ OnWire(G) \in Seq(Cells) /\ Len(G) \in Nat /\ Len(OnWire(G)) = 2 * Len(G)
         /\ \A j \in 1..Len(G) : OnWire(G)[2 * j].frame = G[j]
<1> DEFINE n == Len(G)
           w == 2 * n
           cell(i) == [frame |-> G[(i + 1) \div 2], part |-> ((i + 1) % 2) + 1]
           c == [i \in 1..w |-> cell(i)]
<1>1. n \in Nat
  BY LenProperties
<1>2. \A i \in 1..w : cell(i) \in Cells
  <2> TAKE i \in 1..w
  <2> DEFINE k == (i + 1) \div 2
             part == ((i + 1) % 2) + 1
  <2>1. k \in 1..n /\ part \in Int
    BY <1>1
  <2> HIDE DEF k, part
  <2>2. G[k] \in Frames
    BY <2>1, ElementOfSeq
  <2>3. [frame |-> G[k], part |-> part] \in Cells
    BY <2>1, <2>2 DEF Cells
  <2> QED
    BY <2>3 DEF k, part
<1>3. w \in Nat
  BY <1>1
<1> HIDE DEF cell, w
<1>4. c \in Seq(Cells)
  BY <1>2, <1>3, IsASeq
<1>5. Len(c) = w
  BY <1>3, <1>4, LenProperties
<1>6. c = OnWire(G)
  BY DEF OnWire, c, cell, w
<1>7. \A j \in 1..n : c[2 * j].frame = G[j]
  <2> TAKE j \in 1..n
  <2> DEFINE i == 2 * j
  <2>1. i \in 1..w /\ (i + 1) \div 2 = j
    BY <1>1 DEF w
  <2> HIDE DEF i
  <2>2. c[i] = cell(i)
    BY <2>1
  <2>3. c[i].frame = G[j]
    BY <2>1, <2>2 DEF cell
  <2> QED
    BY <2>3 DEF i
<1> HIDE DEF c
<1> QED
  BY <1>1, <1>4, <1>5, <1>6, <1>7 DEF w

\* The complete frames among the cells.
LEMMA FramesOf ==
  ASSUME NEW c \in Seq(Cells)
  PROVE  /\ CompleteFrames(c) \in Seq(Frames) /\ Len(CompleteFrames(c)) = Len(c) \div 2
         /\ Len(c) \in Nat
         /\ \A i \in 1..(Len(c) \div 2) : CompleteFrames(c)[i] = c[2 * i].frame
<1> DEFINE n == Len(c) \div 2
           frame(i) == c[2 * i].frame
           fs == [i \in 1..n |-> frame(i)]
<1>1. Len(c) \in Nat
  BY LenProperties
<1>2. n \in Nat
  BY <1>1
<1>3. \A i \in 1..n : frame(i) \in Frames
  <2> TAKE i \in 1..n
  <2> DEFINE k == 2 * i
  <2>1. k \in 1..Len(c)
    BY <1>1
  <2> HIDE DEF k
  <2>2. c[k] \in Cells
    BY <2>1, ElementOfSeq
  <2>3. c[k].frame \in Frames
    BY <2>2 DEF Cells
  <2> QED
    BY <2>3 DEF k
<1>4. fs = CompleteFrames(c)
  BY DEF CompleteFrames
<1> HIDE DEF n, frame
<1>5. fs \in Seq(Frames)
  BY <1>2, <1>3, IsASeq
<1>6. Len(fs) = n
  BY <1>2, <1>5, LenProperties
<1>7. \A i \in 1..n : fs[i] = frame(i)
  OBVIOUS
<1> HIDE DEF fs
<1> QED
  BY <1>1, <1>4, <1>5, <1>6, <1>7 DEF n, frame

\* Frames that are sent come after those on the wire.
LEMMA FramesAfterSend ==
  ASSUME NEW c \in Seq(Cells), NEW G \in Seq(Frames), Len(c) = 2 * (Len(c) \div 2)
  PROVE  CompleteFrames(c \o OnWire(G)) = CompleteFrames(c) \o G
<1> DEFINE w == OnWire(G)
           all == c \o w
           x == CompleteFrames(all)
           old == CompleteFrames(c)
           y == old \o G
           n == Len(c)
           k == n \div 2
           l == Len(G)
<1>1. w \in Seq(Cells) /\ l \in Nat /\ Len(w) = 2 * l /\ \A j \in 1..l : w[2 * j].frame = G[j]
  BY CellsOf
<1>2. old \in Seq(Frames) /\ Len(old) = k /\ n \in Nat
      /\ \A i \in 1..k : old[i] = c[2 * i].frame
  BY FramesOf
<1> HIDE DEF w, old
<1>3. all \in Seq(Cells) /\ Len(all) = Len(c) + Len(w)
      /\ \A i \in 1..(Len(c) + Len(w)) : all[i] = IF i <= Len(c) THEN c[i] ELSE w[i - Len(c)]
  BY <1>1, ConcatProperties
<1> HIDE DEF all
<1>4. x \in Seq(Frames) /\ Len(x) = Len(all) \div 2
      /\ \A i \in 1..(Len(all) \div 2) : x[i] = all[2 * i].frame
  BY <1>3, FramesOf
<1>5. y \in Seq(Frames) /\ Len(y) = Len(old) + Len(G)
      /\ \A i \in 1..(Len(old) + Len(G)) : y[i] = IF i <= Len(old) THEN old[i] ELSE G[i - Len(old)]
  BY <1>2, ConcatProperties
<1> HIDE DEF x, y
<1>6. n = 2 * k /\ k \in Nat
  BY <1>2
<1> HIDE DEF k
<1>7. Len(all) = n + 2 * l
  BY <1>1, <1>3
<1> HIDE DEF n, l
<1>8. Len(all) \div 2 = k + l
  BY <1>1, <1>6, <1>7
<1>9. Len(x) = k + l
  BY <1>4, <1>8
<1>10. Len(y) = k + l
  BY <1>2, <1>5 DEF l
<1>11. \A i \in 1..Len(x) : x[i] = y[i]
  <2> TAKE i \in 1..Len(x)
  <2> DEFINE e == 2 * i
  <2>1. i \in 1..(k + l)
    BY <1>9
  <2>2. e \in 1..(n + 2 * l) /\ (i =< k => e =< n) /\ (i > k => ~(e =< n) /\ i - k \in 1..l)
    BY <1>1, <1>6, <2>1
  <2>3. x[i] = all[e].frame
    BY <1>4, <1>8, <2>1
  <2> HIDE DEF e
  <2>4. all[e] = IF e =< n THEN c[e] ELSE w[e - n]
    BY <1>1, <1>3, <2>2 DEF n, l
  <2>5. y[i] = IF i =< k THEN old[i] ELSE G[i - k]
    BY <1>2, <1>5, <2>1 DEF l
  <2>6. CASE i =< k
    <3>1. old[i] = c[2 * i].frame
      BY <1>2, <2>1, <2>6
    <3> QED
      BY <2>2, <2>3, <2>4, <2>5, <2>6, <3>1 DEF e
  <2>7. CASE i > k
    <3> DEFINE j == i - k
    <3>1. j \in 1..l /\ e - n = 2 * j /\ ~(i =< k)
      BY <1>1, <1>6, <2>1, <2>2, <2>7 DEF e
    <3> HIDE DEF j
    <3>2. w[2 * j].frame = G[j]
      BY <1>1, <3>1
    <3> QED
      BY <2>2, <2>3, <2>4, <2>5, <2>7, <3>1, <3>2 DEF j
  <2> QED
    BY <1>6, <2>1, <2>6, <2>7
<1>12. x = y
  BY <1>4, <1>5, <1>9, <1>10, <1>11, SeqEqual
<1> QED
  BY <1>12 DEF x, y, all, w, old

\* The frames of a piece of the wire are a piece of its frames.
LEMMA FramesOfPiece ==
  ASSUME NEW c \in Seq(Cells), NEW j \in Nat, NEW m \in (2 * j)..Len(c)
  PROVE  CompleteFrames(SubSeq(c, 2 * j + 1, m)) = SubSeq(CompleteFrames(c), j + 1, m \div 2)
<1> DEFINE a == 2 * j + 1
           p == SubSeq(c, a, m)
           x == CompleteFrames(p)
           all == CompleteFrames(c)
           l == m \div 2
           b == j + 1
           y == SubSeq(all, b, l)
<1>1. /\ all \in Seq(Frames) /\ Len(all) = Len(c) \div 2 /\ Len(c) \in Nat
      /\ \A i \in 1..(Len(c) \div 2) : all[i] = c[2 * i].frame
  BY FramesOf
<1>2. a \in Int /\ 1 =< a /\ m \in Int /\ m =< Len(c)
  BY <1>1
<1>3. b \in Int /\ 1 =< b /\ l \in Int /\ l =< Len(c) \div 2
  BY <1>1
<1>4. a = 2 * j + 1 /\ m \in Nat /\ b = j + 1 /\ j =< l
  BY <1>1
<1>5. 2 * l =< m /\ m < 2 * l + 2
  BY <1>1
<1> HIDE DEF a, b, l, all
<1>6. /\ p \in Seq(Cells) /\ Len(p) = IF a =< m THEN m - a + 1 ELSE 0
      /\ \A i \in 1..(m - a + 1) : p[i] = c[a + i - 1]
  BY <1>2, Piece
<1> HIDE DEF p
<1>7. /\ x \in Seq(Frames) /\ Len(x) = Len(p) \div 2
      /\ \A i \in 1..(Len(p) \div 2) : x[i] = p[2 * i].frame
  BY <1>6, FramesOf
<1>8. l =< Len(all)
  BY <1>1, <1>3
<1>9. /\ y \in Seq(Frames) /\ Len(y) = IF b =< l THEN l - b + 1 ELSE 0
      /\ \A i \in 1..(l - b + 1) : y[i] = all[b + i - 1]
  BY <1>1, <1>3, <1>8, Piece
<1> HIDE DEF x, y
<1>10. Len(p) = m - 2 * j
  BY <1>4, <1>6
<1>11. Len(p) \div 2 = l - j
  <2> DEFINE q == l - j
  <2>1. q \in Nat /\ 2 * q =< m - 2 * j /\ m - 2 * j < 2 * q + 2
    BY <1>3, <1>4, <1>5
  <2> HIDE DEF q
  <2>2. \A e \in Nat : 2 * q =< e /\ e < 2 * q + 2 => e \div 2 = q
    BY <2>1
  <2>3. m - 2 * j \in Nat
    BY <1>4
  <2>4. (m - 2 * j) \div 2 = q
    BY <2>1, <2>2, <2>3
  <2> QED
    BY <1>10, <2>4 DEF q
<1>12. Len(x) = l - j
  BY <1>7, <1>11
<1>13. Len(y) = l - j
  BY <1>3, <1>4, <1>9
<1>14. \A i \in 1..Len(x) : x[i] = y[i]
  <2> TAKE i \in 1..Len(x)
  <2> DEFINE e == 2 * i
             f == j + i
             g == 2 * f
  <2>1. i \in 1..(l - j) /\ i \in Int
    BY <1>12
  <2>2. e \in 1..(m - a + 1) /\ a + e - 1 = g /\ b + i - 1 = f /\ f \in 1..(Len(c) \div 2) /\ i \in 1..(l - b + 1)
    BY <1>3, <1>4, <1>5, <2>1
  <2>3. x[i] = p[e].frame
    BY <1>7, <1>11, <2>1
  <2>4. all[f] = c[g].frame
    BY <1>1, <2>2
  <2> HIDE DEF e, f, g
  <2>5. p[e] = c[g]
    BY <1>6, <2>2
  <2>6. y[i] = all[f]
    BY <1>9, <2>2
  <2> QED
    BY <2>3, <2>4, <2>5, <2>6
<1>15. x = y
  BY <1>7, <1>9, <1>12, <1>13, <1>14, SeqEqual
<1> QED
  BY <1>15 DEF x, y, p, all, a, b, l

-----------------------------------------------------------------------------
(* What the frames carry: the text from one place in it to another.        *)

\* The message msg takes the reader of the text from a to b.
Moves(text, a, msg, b) ==
    /\ a \in 0..Len(text) /\ b \in a..Len(text)
    /\ \/ msg = Message("stdout", SubSeq(text, a + 1, b))
       \/ msg = Message("disconnect", <<>>) /\ a = Len(text)

\* A frame takes a reader that has come to a with the fragments f to b and h.
Carries(text, a, f, frame, b, h) ==
    \/ frame.op = "ping" /\ b = a /\ h = f
    \/ frame.op = "close" /\ a = Len(text) /\ b = a /\ h = f
    \/ frame.op = "text" /\ frame.fin = FALSE /\ b = a /\ h = frame.payload
    \/ /\ frame.op = "text" /\ frame.fin = TRUE /\ h = f
       /\ \E msg \in Messages : frame.payload = Halves(msg) /\ Moves(text, a, msg, b)
    \/ /\ frame.op = "cont" /\ frame.fin = TRUE /\ h = <<>>
       /\ \E msg \in Messages : f \o frame.payload = Halves(msg) /\ Moves(text, a, msg, b)

Path(text, G, at, frag) ==
    \A k \in 1..Len(G) : Carries(text, at[k - 1], frag[k - 1], G[k], at[k], frag[k])
Carried(text, G, a, f, b, h) ==
    \E at, frag : /\ Path(text, G, at, frag)
                  /\ at[0] = a /\ frag[0] = f /\ at[Len(G)] = b /\ frag[Len(G)] = h

\* Frames after frames carry the reader on.
LEMMA CarriedOn ==
  ASSUME NEW text, NEW G \in Seq(Frames), NEW H \in Seq(Frames),
         NEW a, NEW f, NEW b, NEW h, NEW c, NEW i,
         Carried(text, G, a, f, b, h), Carried(text, H, b, h, c, i)
  PROVE  Carried(text, G \o H, a, f, c, i)
<1> DEFINE n == Len(G)
           l == Len(H)
           all == G \o H
<1>1. PICK at, frag : /\ Path(text, G, at, frag)
                      /\ at[0] = a /\ frag[0] = f /\ at[n] = b /\ frag[n] = h
  BY DEF Carried
<1>2. PICK at2, frag2 : /\ Path(text, H, at2, frag2)
                        /\ at2[0] = b /\ frag2[0] = h /\ at2[l] = c /\ frag2[l] = i
  BY DEF Carried
<1>3. n \in Nat /\ l \in Nat
  BY LenProperties
<1>4. all \in Seq(Frames) /\ Len(all) = Len(G) + Len(H)
      /\ \A k \in 1..(Len(G) + Len(H)) : all[k] = IF k <= Len(G) THEN G[k] ELSE H[k - Len(G)]
  BY ConcatProperties
<1> HIDE DEF all
<1> DEFINE at3 == [k \in 0..(n + l) |-> IF k =< n THEN at[k] ELSE at2[k - n]]
           frag3 == [k \in 0..(n + l) |-> IF k =< n THEN frag[k] ELSE frag2[k - n]]
<1>5. Len(all) = n + l
  BY <1>4
<1>6. \A k \in 1..n : Carries(text, at[k - 1], frag[k - 1], G[k], at[k], frag[k])
  BY <1>1 DEF Path
<1>7. \A k \in 1..l : Carries(text, at2[k - 1], frag2[k - 1], H[k], at2[k], frag2[k])
  BY <1>2 DEF Path
<1>8. \A k \in 1..(n + l) : all[k] = IF k =< n THEN G[k] ELSE H[k - n]
  BY <1>4
<1> HIDE DEF n, l
<1>9. ASSUME NEW k \in 1..(n + l)
      PROVE  Carries(text, at3[k - 1], frag3[k - 1], all[k], at3[k], frag3[k])
  <2>1. k \in 0..(n + l) /\ k - 1 \in 0..(n + l)
    BY <1>3
  <2>2. CASE k =< n
    <3>1. k \in 1..n /\ k - 1 =< n
      BY <1>3, <2>2
    <3>2. /\ at3[k] = at[k] /\ frag3[k] = frag[k] /\ at3[k - 1] = at[k - 1] /\ frag3[k - 1] = frag[k - 1]
          /\ all[k] = G[k]
      BY <1>8, <2>1, <2>2, <3>1
    <3> QED
      BY <1>6, <3>1, <3>2
  <2>3. CASE k > n
    <3> DEFINE e == k - n
    <3>1. e \in 1..l /\ ~(k =< n) /\ e - 1 = (k - 1) - n
      BY <1>3, <2>3
    <3>2. at3[k] = at2[e] /\ frag3[k] = frag2[e] /\ all[k] = H[e]
      BY <1>8, <2>1, <3>1
    <3>3. at3[k - 1] = at2[e - 1] /\ frag3[k - 1] = frag2[e - 1]
      <4>1. CASE k = n + 1
        <5>1. k - 1 = n /\ e - 1 = 0
          BY <1>3, <4>1
        <5> QED
          BY <1>1, <1>2, <2>1, <5>1
      <4>2. CASE k # n + 1
        <5>1. ~(k - 1 =< n)
          BY <1>3, <2>3, <4>2
        <5> QED
          BY <2>1, <3>1, <5>1
      <4> QED
        BY <4>1, <4>2
    <3> HIDE DEF e, at3, frag3
    <3> QED
      BY <1>7, <3>1, <3>2, <3>3
  <2> QED
    BY <1>3, <2>2, <2>3
<1>10. at3[0] = a /\ frag3[0] = f
  <2>1. 0 \in 0..(n + l) /\ 0 =< n
    BY <1>3
  <2> QED
    BY <1>1, <2>1
<1>11. at3[n + l] = c /\ frag3[n + l] = i
  <2>1. n + l \in 0..(n + l) /\ (n + l) - n = l
    BY <1>3
  <2>2. CASE l = 0
    <3>1. n + l = n /\ n =< n
      BY <1>3, <2>2
    <3> QED
      BY <1>1, <1>2, <2>1, <2>2, <3>1
  <2>3. CASE l # 0
    <3>1. ~(n + l =< n)
      BY <1>3, <2>3
    <3> QED
      BY <1>2, <2>1, <3>1
  <2> QED
    BY <2>2, <2>3
<1> HIDE DEF at3, frag3
<1>12. Path(text, all, at3, frag3)
  BY <1>5, <1>9 DEF Path
<1>13. Carried(text, all, a, f, c, i)
  BY <1>5, <1>10, <1>11, <1>12 DEF Carried
<1> QED
  BY <1>13 DEF all

\* The first frames carry the reader to where the others go on.
LEMMA CarriedInParts ==
  ASSUME NEW text, NEW G \in Seq(Frames), NEW a, NEW f, NEW b, NEW h,
         Carried(text, G, a, f, b, h), NEW n \in 0..Len(G)
  PROVE  \E c, i : /\ Carried(text, SubSeq(G, 1, n), a, f, c, i)
                   /\ Carried(text, SubSeq(G, n + 1, Len(G)), c, i, b, h)
<1> DEFINE l == Len(G)
           m == n + 1
           x == SubSeq(G, 1, n)
           y == SubSeq(G, m, l)
<1>1. PICK at, frag : /\ Path(text, G, at, frag)
                      /\ at[0] = a /\ frag[0] = f /\ at[l] = b /\ frag[l] = h
  BY DEF Carried
<1>2. l \in Nat /\ n \in Nat /\ n =< l
  BY LenProperties
<1>3. m \in Int /\ 1 =< m /\ n \in Int /\ l \in Int /\ l =< Len(G) /\ n =< Len(G) /\ m = n + 1
  BY <1>2
<1>4. \A k \in 1..l : Carries(text, at[k - 1], frag[k - 1], G[k], at[k], frag[k])
  BY <1>1 DEF Path
<1> HIDE DEF l, m
<1>5. /\ x \in Seq(Frames) /\ Len(x) = IF 1 =< n THEN n - 1 + 1 ELSE 0
      /\ \A k \in 1..(n - 1 + 1) : x[k] = G[1 + k - 1]
  BY <1>3, Piece
<1>6. /\ y \in Seq(Frames) /\ Len(y) = IF m =< l THEN l - m + 1 ELSE 0
      /\ \A k \in 1..(l - m + 1) : y[k] = G[m + k - 1]
  BY <1>3, Piece
<1> HIDE DEF x, y
<1>7. Len(x) = n /\ Len(y) = l - n
  BY <1>2, <1>3, <1>5, <1>6
<1>8. Carried(text, x, a, f, at[n], frag[n])
  <2>1. ASSUME NEW k \in 1..Len(x)
        PROVE  Carries(text, at[k - 1], frag[k - 1], x[k], at[k], frag[k])
    <3>1. k \in 1..(n - 1 + 1) /\ k \in 1..l /\ 1 + k - 1 = k
      BY <1>2, <1>7
    <3>2. x[k] = G[k]
      BY <1>5, <3>1
    <3> QED
      BY <1>4, <3>1, <3>2
  <2>2. Path(text, x, at, frag)
    BY <2>1 DEF Path
  <2> QED
    BY <1>1, <1>7, <2>2 DEF Carried
<1>9. Carried(text, y, at[n], frag[n], b, h)
  <2> DEFINE at2 == [k \in 0..(l - n) |-> at[n + k]]
             frag2 == [k \in 0..(l - n) |-> frag[n + k]]
  <2>1. ASSUME NEW k \in 1..Len(y)
        PROVE  Carries(text, at2[k - 1], frag2[k - 1], y[k], at2[k], frag2[k])
    <3> DEFINE e == n + k
    <3>1. /\ k \in 1..(l - m + 1) /\ e \in 1..l /\ m + k - 1 = e
          /\ k \in 0..(l - n) /\ k - 1 \in 0..(l - n) /\ n + (k - 1) = e - 1
      BY <1>2, <1>3, <1>7
    <3>2. at2[k] = at[e] /\ frag2[k] = frag[e] /\ at2[k - 1] = at[e - 1] /\ frag2[k - 1] = frag[e - 1]
      BY <3>1
    <3> HIDE DEF e, at2, frag2
    <3>3. y[k] = G[e]
      BY <1>6, <3>1
    <3> QED
      BY <1>4, <3>1, <3>2, <3>3
  <2>2. Path(text, y, at2, frag2)
    BY <2>1 DEF Path
  <2>3. /\ 0 \in 0..(l - n) /\ l - n \in 0..(l - n) /\ n + 0 = n /\ n + (l - n) = l
    BY <1>2
  <2>4. /\ at2[0] = at[n] /\ frag2[0] = frag[n] /\ at2[l - n] = at[l] /\ frag2[l - n] = frag[l]
    BY <2>3
  <2> HIDE DEF at2, frag2
  <2> QED
    BY <1>1, <1>7, <2>2, <2>4 DEF Carried, l
<1> QED
  BY <1>8, <1>9 DEF x, y, m, l

\* One frame carries the reader as far as it says.
LEMMA OneFrame ==
  ASSUME NEW text, NEW frame \in Frames, NEW a, NEW f, NEW b, NEW h,
         Carries(text, a, f, frame, b, h)
  PROVE  <<frame>> \in Seq(Frames) /\ Carried(text, <<frame>>, a, f, b, h)
<1> DEFINE at == [k \in 0..1 |-> IF k = 0 THEN a ELSE b]
           frag == [k \in 0..1 |-> IF k = 0 THEN f ELSE h]
           G == <<frame>>
<1>1. G \in Seq(Frames) /\ Len(G) = 1 /\ G[1] = frame
  OBVIOUS
<1>2. at[0] = a /\ frag[0] = f /\ at[1] = b /\ frag[1] = h
  OBVIOUS
<1> HIDE DEF at, frag, G
<1>3. Path(text, G, at, frag)
  <2>1. \A k \in 1..Len(G) : k = 1 /\ k - 1 = 0
    BY <1>1
  <2> QED
    BY <1>1, <1>2, <2>1 DEF Path
<1>4. Carried(text, G, a, f, b, h)
  BY <1>1, <1>2, <1>3 DEF Carried
<1> QED
  BY <1>1, <1>4 DEF G

\* No frames carry the reader nowhere.
LEMMA NoFrames ==
  ASSUME NEW text, NEW a, NEW f
  PROVE  Carried(text, <<>>, a, f, a, f)
<1> DEFINE at == [k \in 0..0 |-> a]
           frag == [k \in 0..0 |-> f]
<1>1. at[0] = a /\ frag[0] = f /\ Len(<<>>) = 0
  OBVIOUS
<1> HIDE DEF at, frag
<1>2. Path(text, <<>>, at, frag)
  BY DEF Path
<1> QED
  BY <1>1, <1>2 DEF Carried

\* Two sequences of one element.
LEMMA TwoTogether ==
  ASSUME NEW S, NEW a \in S, NEW b \in S
  PROVE  <<a>> \o <<b>> = <<a, b>> /\ <<a, b>> \in Seq(S)
<1> DEFINE x == <<a>> \o <<b>>
           y == <<a, b>>
<1>1. <<a>> \in Seq(S) /\ <<b>> \in Seq(S) /\ y \in Seq(S) /\ Len(y) = 2
  OBVIOUS
<1>2. x \in Seq(S) /\ Len(x) = 2
  BY <1>1, ConcatProperties
<1>3. ASSUME NEW i \in 1..2 PROVE x[i] = y[i]
  BY <1>1, ConcatProperties
<1> HIDE DEF x, y
<1>4. x = y
  BY <1>1, <1>2, <1>3, SeqEqual
<1> QED
  BY <1>1, <1>4 DEF x, y

\* Two sequences of two elements and one.
LEMMA ThreeTogether ==
  ASSUME NEW S, NEW a \in S, NEW b \in S, NEW c \in S
  PROVE  <<a, b>> \o <<c>> = <<a, b, c>> /\ <<a, b, c>> \in Seq(S)
<1> DEFINE x == <<a, b>> \o <<c>>
           y == <<a, b, c>>
<1>1. <<a, b>> \in Seq(S) /\ <<c>> \in Seq(S) /\ y \in Seq(S) /\ Len(y) = 3
  OBVIOUS
<1>2. x \in Seq(S) /\ Len(x) = 3
  BY <1>1, ConcatProperties
<1>3. ASSUME NEW i \in 1..3 PROVE x[i] = y[i]
  BY <1>1, ConcatProperties
<1> HIDE DEF x, y
<1>4. x = y
  BY <1>1, <1>2, <1>3, SeqEqual
<1> QED
  BY <1>1, <1>4 DEF x, y

\* The halves of a message make the message.
LEMMA HalvesAre ==
  ASSUME NEW msg \in Messages
  PROVE  /\ Halves(msg) \in Seq(HalvesOfMessages)
         /\ <<Halves(msg)[1]>> \in Seq(HalvesOfMessages) /\ <<Halves(msg)[2]>> \in Seq(HalvesOfMessages)
         /\ <<Halves(msg)[1]>> \o <<Halves(msg)[2]>> = Halves(msg)
<1> DEFINE one == [msg |-> msg, half |-> 1]
           two == [msg |-> msg, half |-> 2]
<1>1. one \in HalvesOfMessages /\ two \in HalvesOfMessages
  BY DEF HalvesOfMessages
<1> HIDE DEF one, two
<1>2. <<one, two>> \in Seq(HalvesOfMessages) /\ <<one>> \in Seq(HalvesOfMessages) /\ <<two>> \in Seq(HalvesOfMessages)
  BY <1>1
<1>3. <<one>> \o <<two>> = <<one, two>>
  BY <1>1, TwoTogether
<1>4. Halves(msg) = <<one, two>>
  BY DEF Halves, one, two
<1>5. <<one, two>>[1] = one /\ <<one, two>>[2] = two
  OBVIOUS
<1> QED
  BY <1>2, <1>3, <1>4, <1>5

\* However a message is framed, it takes its reader as far.
LEMMA FramingsCarry ==
  ASSUME NEW text, NEW msg \in Messages, NEW a, NEW b, Moves(text, a, msg, b),
         NEW f, NEW G \in Framings(msg)
  PROVE  G \in Seq(Frames) /\ \E h : Carried(text, G, a, f, b, h)
<1> DEFINE first == <<Halves(msg)[1]>>
           whole == Frame("text", TRUE, Halves(msg))
           begin == Frame("text", FALSE, first)
           rest == Frame("cont", TRUE, <<Halves(msg)[2]>>)
           ping == Frame("ping", TRUE, <<>>)
<1>1. G \in {<<whole>>, <<begin, rest>>, <<begin, ping, rest>>}
  BY DEF Framings
<1>2. whole \in Frames /\ begin \in Frames /\ rest \in Frames /\ ping \in Frames
  <2> DEFINE all == Halves(msg)
             second == <<Halves(msg)[2]>>
  <2>1. all \in Seq(HalvesOfMessages) /\ first \in Seq(HalvesOfMessages)
        /\ second \in Seq(HalvesOfMessages) /\ <<>> \in Seq(HalvesOfMessages)
    BY HalvesAre, EmptySeq, Zenon
  <2> HIDE DEF all, first, second
  <2> QED
    BY <2>1 DEF Frames, Frame, all, second
<1>3. /\ Carries(text, a, f, whole, b, f)
      /\ Carries(text, a, f, begin, a, first)
      /\ Carries(text, a, first, ping, a, first)
  BY DEF Carries, Frame
<1>4. Carries(text, a, first, rest, b, <<>>)
  BY HalvesAre DEF Carries, Frame
<1> HIDE DEF first, whole, begin, rest, ping
<1>5. /\ <<whole>> \in Seq(Frames) /\ Carried(text, <<whole>>, a, f, b, f)
      /\ <<begin>> \in Seq(Frames) /\ Carried(text, <<begin>>, a, f, a, first)
      /\ <<ping>> \in Seq(Frames) /\ Carried(text, <<ping>>, a, first, a, first)
      /\ <<rest>> \in Seq(Frames) /\ Carried(text, <<rest>>, a, first, b, <<>>)
  BY <1>2, <1>3, <1>4, OneFrame
<1>6. CASE G = <<whole>>
  BY <1>5, <1>6
<1>7. CASE G = <<begin, rest>>
  <2>1. Carried(text, <<begin>> \o <<rest>>, a, f, b, <<>>)
    BY <1>5, CarriedOn
  <2>2. <<begin>> \o <<rest>> = <<begin, rest>> /\ <<begin, rest>> \in Seq(Frames)
    BY <1>2, TwoTogether
  <2> QED
    BY <1>7, <2>1, <2>2
<1>8. CASE G = <<begin, ping, rest>>
  <2>1. Carried(text, <<begin>> \o <<ping>>, a, f, a, first)
    BY <1>5, CarriedOn
  <2>2. <<begin>> \o <<ping>> = <<begin, ping>> /\ <<begin, ping>> \in Seq(Frames)
    BY <1>2, TwoTogether
  <2>3. Carried(text, <<begin, ping>>, a, f, a, first)
    BY <2>1, <2>2
  <2>4. Carried(text, <<begin, ping>> \o <<rest>>, a, f, b, <<>>)
    BY <1>5, <2>2, <2>3, CarriedOn
  <2>5. <<begin, ping>> \o <<rest>> = <<begin, ping, rest>> /\ <<begin, ping, rest>> \in Seq(Frames)
    BY <1>2, ThreeTogether
  <2> QED
    BY <1>8, <2>4, <2>5
<1> QED
  BY <1>1, <1>6, <1>7, <1>8

-----------------------------------------------------------------------------
(* What read_messages hands on.                                            *)

Payloads == {Halves(msg) : msg \in Messages}
ToldBy(text, ms, at) ==
    \A k \in 1..Len(ms) : \E msg \in Messages : ms[k] = Halves(msg) /\ Moves(text, at[k - 1], msg, at[k])
\* The messages ms take the reader of the text from a to b.
Told(text, ms, a, b) == \E at : ToldBy(text, ms, at) /\ at[0] = a /\ at[Len(ms)] = b

\* No messages tell nothing.
LEMMA NothingTold ==
  ASSUME NEW text, NEW a
  PROVE  <<>> \in Seq(Payloads) /\ Told(text, <<>>, a, a)
<1> DEFINE at == [k \in 0..0 |-> a]
<1>1. at[0] = a /\ Len(<<>>) = 0 /\ <<>> \in Seq(Payloads)
  OBVIOUS
<1> HIDE DEF at
<1>2. ToldBy(text, <<>>, at)
  BY DEF ToldBy
<1> QED
  BY <1>1, <1>2 DEF Told

\* One more message tells what it says.
LEMMA OneMoreTold ==
  ASSUME NEW text, NEW ms \in Seq(Payloads), NEW a, NEW b, Told(text, ms, a, b),
         NEW msg \in Messages, NEW c, Moves(text, b, msg, c)
  PROVE  Append(ms, Halves(msg)) \in Seq(Payloads) /\ Told(text, Append(ms, Halves(msg)), a, c)
<1> DEFINE n == Len(ms)
           l == n + 1
           x == Append(ms, Halves(msg))
<1>1. PICK at : ToldBy(text, ms, at) /\ at[0] = a /\ at[n] = b
  BY DEF Told
<1>2. n \in Nat
  BY LenProperties
<1>3. Halves(msg) \in Payloads
  BY DEF Payloads
<1>4. /\ x \in Seq(Payloads) /\ Len(x) = Len(ms) + 1
      /\ \A i \in 1..Len(ms) : x[i] = ms[i]
      /\ x[Len(ms) + 1] = Halves(msg)
  BY <1>3, AppendProperties
<1> HIDE DEF x
<1>5. \A k \in 1..n : \E m \in Messages : ms[k] = Halves(m) /\ Moves(text, at[k - 1], m, at[k])
  BY <1>1 DEF ToldBy
<1>6. Len(x) = l /\ x[l] = Halves(msg)
  BY <1>4
<1> DEFINE at2 == [k \in 0..l |-> IF k = l THEN c ELSE at[k]]
<1>7. at2[0] = a /\ at2[l] = c /\ at2[n] = b /\ l - 1 = n
  BY <1>1, <1>2
<1>8. \A k \in 1..n : at2[k] = at[k] /\ at2[k - 1] = at[k - 1]
  BY <1>2
<1>9. \A k \in 1..n : x[k] = ms[k]
  BY <1>4
<1> HIDE DEF at2
<1>10. ASSUME NEW k \in 1..l
       PROVE  \E m \in Messages : x[k] = Halves(m) /\ Moves(text, at2[k - 1], m, at2[k])
  <2>1. CASE k = l
    <3>1. x[k] = Halves(msg) /\ at2[k - 1] = b /\ at2[k] = c
      BY <1>6, <1>7, <2>1
    <3> QED
      BY <3>1
  <2>2. CASE k # l
    <3>1. k \in 1..n
      BY <1>2, <2>2
    <3>2. x[k] = ms[k] /\ at2[k] = at[k] /\ at2[k - 1] = at[k - 1]
      BY <1>8, <1>9, <3>1
    <3> QED
      BY <1>5, <3>1, <3>2
  <2> QED
    BY <2>1, <2>2
<1>11. ToldBy(text, x, at2)
  BY <1>6, <1>10 DEF ToldBy
<1>12. Told(text, x, a, c)
  BY <1>6, <1>7, <1>11 DEF Told
<1> QED
  BY <1>4, <1>12 DEF x

\* read_messages' loop, with the reader of the text at a and the fragments f.
Got(text, r, g, a, f) ==
    /\ g = [messages |-> g.messages, frag |-> g.frag, closed |-> g.closed, pings |-> g.pings]
    /\ g.closed \in BOOLEAN
    /\ g.messages \in Seq(Payloads)
    /\ \E b : Told(text, g.messages, r, b)
              /\ IF g.closed THEN b = Len(text) ELSE b = a /\ g.frag = f

\* A frame in read_messages' loop takes the reader on as it carries it.
LEMMA TakeFrameReads ==
  ASSUME NEW text, NEW r, NEW g, NEW a, NEW f, Got(text, r, g, a, f),
         NEW frame \in Frames, NEW b, NEW h, Carries(text, a, f, frame, b, h)
  PROVE  Got(text, r, TakeFrame(g, frame), b, h)
<1> DEFINE new == TakeFrame(g, frame)
<1>1. PICK e : Told(text, g.messages, r, e)
               /\ IF g.closed THEN e = Len(text) ELSE e = a /\ g.frag = f
  BY DEF Got
<1>2. /\ g = [messages |-> g.messages, frag |-> g.frag, closed |-> g.closed, pings |-> g.pings]
      /\ g.closed \in BOOLEAN
      /\ g.messages \in Seq(Payloads)
  BY DEF Got
<1>3. CASE g.closed
  <2>1. new = g
    BY <1>3 DEF TakeFrame
  <2> HIDE DEF new
  <2> QED
    BY <1>1, <1>2, <1>3, <2>1 DEF Got, new
<1>4. CASE ~g.closed
  <2>1. e = a /\ g.frag = f
    BY <1>1, <1>4
  <2>2. CASE frame.op = "ping" /\ b = a /\ h = f
    <3> DEFINE p == g.pings + (IF frame.op = "ping" THEN 1 ELSE 0)
    <3>1. new = [g EXCEPT !.pings = p]
      BY <1>4, <2>2 DEF TakeFrame
    <3> HIDE DEF new, p
    <3>2. new = [messages |-> g.messages, frag |-> g.frag, closed |-> g.closed, pings |-> p]
      BY <1>2, <3>1
    <3> QED
      BY <1>1, <1>2, <1>4, <2>1, <2>2, <3>2 DEF Got, new
  <2>3. CASE frame.op = "close" /\ a = Len(text) /\ b = a /\ h = f
    <3>1. new = [g EXCEPT !.closed = TRUE]
      BY <1>4, <2>3 DEF TakeFrame
    <3> HIDE DEF new
    <3>2. new = [messages |-> g.messages, frag |-> g.frag, closed |-> TRUE, pings |-> g.pings]
      BY <1>2, <3>1
    <3> QED
      BY <1>1, <1>2, <1>4, <2>1, <2>3, <3>2 DEF Got, new
  <2>4. CASE frame.op = "text" /\ frame.fin = FALSE /\ b = a /\ h = frame.payload
    <3>1. new = [g EXCEPT !.frag = frame.payload]
      BY <1>4, <2>4 DEF TakeFrame
    <3> HIDE DEF new
    <3>2. new = [messages |-> g.messages, frag |-> frame.payload, closed |-> g.closed, pings |-> g.pings]
      BY <1>2, <3>1
    <3> QED
      BY <1>1, <1>2, <1>4, <2>1, <2>4, <3>2 DEF Got, new
  <2>5. CASE /\ frame.op = "text" /\ frame.fin = TRUE /\ h = f
             /\ \E msg \in Messages : frame.payload = Halves(msg) /\ Moves(text, a, msg, b)
    <3>1. PICK msg \in Messages : frame.payload = Halves(msg) /\ Moves(text, a, msg, b)
      BY <2>5
    <3> DEFINE ms == Append(g.messages, Halves(msg))
    <3>2. new = [g EXCEPT !.messages = ms]
      BY <1>4, <2>5, <3>1 DEF TakeFrame
    <3>3. ms \in Seq(Payloads) /\ Told(text, ms, r, b)
      BY <1>1, <1>2, <2>1, <3>1, OneMoreTold
    <3> HIDE DEF new, ms
    <3>4. new = [messages |-> ms, frag |-> g.frag, closed |-> g.closed, pings |-> g.pings]
      BY <1>2, <3>2
    <3> QED
      BY <1>2, <1>4, <2>1, <2>5, <3>3, <3>4 DEF Got, new
  <2>6. CASE /\ frame.op = "cont" /\ frame.fin = TRUE /\ h = <<>>
             /\ \E msg \in Messages : f \o frame.payload = Halves(msg) /\ Moves(text, a, msg, b)
    <3>1. PICK msg \in Messages : f \o frame.payload = Halves(msg) /\ Moves(text, a, msg, b)
      BY <2>6
    <3> DEFINE ms == Append(g.messages, Halves(msg))
    <3>2. new = [g EXCEPT !.messages = ms, !.frag = <<>>]
      <4>1. g.frag \o frame.payload = Halves(msg)
        BY <2>1, <3>1
      <4>2. new = [g EXCEPT !.messages = Append(g.messages, g.frag \o frame.payload), !.frag = <<>>]
        BY <1>4, <2>6 DEF TakeFrame
      <4> QED
        BY <4>1, <4>2
    <3>3. ms \in Seq(Payloads) /\ Told(text, ms, r, b)
      BY <1>1, <1>2, <2>1, <3>1, OneMoreTold
    <3> HIDE DEF new, ms
    <3>4. new = [messages |-> ms, frag |-> <<>>, closed |-> g.closed, pings |-> g.pings]
      BY <1>2, <3>2
    <3> QED
      BY <1>2, <1>4, <2>6, <3>3, <3>4 DEF Got, new
  <2> QED
    BY <2>2, <2>3, <2>4, <2>5, <2>6 DEF Carries
<1> QED
  BY <1>2, <1>3, <1>4

\* The messages that read_messages hands on take the reader as far as the
\* frames do, or to the end if a CLOSE was among them.
LEMMA ReadingTells ==
  ASSUME NEW text, NEW G \in Seq(Frames), NEW r, NEW f, NEW b, NEW h, Carried(text, G, r, f, b, h)
  PROVE  LET start == [messages |-> <<>>, frag |-> f, closed |-> FALSE, pings |-> 0]
         IN  Got(text, r, FramesTaken(start, G), b, h)
<1> DEFINE n == Len(G)
           start == [messages |-> <<>>, frag |-> f, closed |-> FALSE, pings |-> 0]
<1>1. PICK at, frag : Path(text, G, at, frag) /\ at[0] = r /\ frag[0] = f /\ at[n] = b /\ frag[n] = h
  BY DEF Carried
<1>2. n \in Nat /\ DOMAIN G = 1..n
  BY LenProperties
<1>3. \A k \in 1..n : Carries(text, at[k - 1], frag[k - 1], G[k], at[k], frag[k])
  BY <1>1 DEF Path
<1>4. \A k \in 1..n : G[k] \in Frames
  BY ElementOfSeq
<1>5. Got(text, r, start, r, f)
  <2>1. /\ start = [messages |-> start.messages, frag |-> start.frag, closed |-> start.closed, pings |-> start.pings]
        /\ start.closed = FALSE /\ start.messages = <<>> /\ start.frag = f
    OBVIOUS
  <2> HIDE DEF start
  <2> QED
    BY <2>1, NothingTold DEF Got
<1> HIDE DEF n, start
<1>11. PICK g : FrameByFrame(g, start, G, n)
  BY <1>2, FramesStepByStep
<1>6. /\ g[0] = start
      /\ \A k \in 1..n : g[k] = TakeFrame(g[k - 1], G[k])
      /\ FramesTaken(start, G) = g[n]
  BY <1>11 DEF FrameByFrame
<1> DEFINE Reads(k) == Got(text, r, g[k], at[k], frag[k])
           S == {k \in Nat : k =< n => Reads(k)}
<1>7. 0 \in S
  BY <1>1, <1>5, <1>6
<1>8. ASSUME NEW k \in Nat, k \in S PROVE k + 1 \in S
  <2> SUFFICES ASSUME k + 1 =< n PROVE Reads(k + 1)
    BY <1>2
  <2> DEFINE l == k + 1
  <2>1. Reads(k)
    BY <1>2, <1>8
  <2>2. l \in 1..n /\ l - 1 = k
    BY <1>2
  <2> HIDE DEF l
  <2>3. /\ Carries(text, at[k], frag[k], G[l], at[l], frag[l])
        /\ g[l] = TakeFrame(g[k], G[l]) /\ G[l] \in Frames
    BY <1>3, <1>4, <1>6, <2>2
  <2>4. Reads(l)
    BY <2>1, <2>3, TakeFrameReads
  <2> QED
    BY <2>4 DEF l
<1> HIDE DEF S
<1>9. Nat \subseteq S
  BY <1>7, <1>8, AllNumbers
<1>10. Reads(n)
  BY <1>2, <1>9 DEF S
<1> QED
  BY <1>1, <1>6, <1>10 DEF n, start

-----------------------------------------------------------------------------
(* What the pump shows.                                                    *)

\* What is on the screen once the first r symbols of the stream are read.
ShownAt(cmd, p, text, sc, shown, r) ==
    /\ r \in 0..Len(text)
    /\ IF cmd = "run" THEN ScannerAt(p, sc, shown, r)
       ELSE sc = NewScanner /\ shown = SubSeq(text, 1, r)
Position(sc, shown, r) == ShownAt(command, prog, Stream, sc, shown, r)

\* The terminal writes a text of symbols; for jp run it has the markers.
LEMMA StreamIs ==
  ASSUME prog \in Programs
  PROVE  /\ Stream \in Seq(Bytes) /\ Len(Stream) \in Nat
         /\ command = "run" => Stream = Text(prog)
<1>1. CASE command = "run"
  <2>1. Stream = Text(prog)
    BY <1>1 DEF Stream, Text
  <2> QED
    BY <2>1, TextIs
<1>2. CASE command # "run"
  <2>1. Stream = prog.before \o prog.out
    BY <1>2 DEF Stream
  <2>2. prog.before \in Seq(Bytes) /\ prog.out \in Seq(Bytes)
    BY ProgramsAssumption
  <2>3. prog.before \o prog.out \in Seq(Bytes)
    BY <2>2, ConcatProperties
  <2>4. Stream \in Seq(Bytes)
    BY <2>1, <2>3
  <2>5. Len(Stream) \in Nat
    BY <2>4, LenProperties
  <2> QED
    BY <1>2, <2>4, <2>5
<1> QED
  BY <1>1, <1>2

\* A message that is whole is understood.
LEMMA ParsedIs ==
  ASSUME NEW msg
  PROVE  ParseServerMessage(Halves(msg)) = msg
<1> DEFINE one == [msg |-> msg, half |-> 1]
           two == [msg |-> msg, half |-> 2]
           p == <<one, two>>
<1>1. p # <<>> /\ p[1] = one /\ one.msg = msg
  OBVIOUS
<1>2. p = Halves(msg)
  BY DEF Halves
<1> HIDE DEF p, one, two
<1>3. ParseServerMessage(p) = msg
  BY <1>1, <1>2 DEF ParseServerMessage
<1> QED
  BY <1>2, <1>3

\* _pump's loop, with the reader of the stream at a.
Pumped(p, a) ==
    /\ p = [scan |-> p.scan, screen |-> p.screen, ends |-> p.ends]
    /\ p.ends \in BOOLEAN
    /\ \E x : Position(p.scan, p.screen, x)
              /\ IF p.ends THEN x = Len(Stream) ELSE x = a /\ ~p.scan.done

\* A message in _pump's loop leaves the screen at the place it comes to.
LEMMA TakeMessagePumps ==
  ASSUME prog \in Programs, command \in Commands,
         NEW p, NEW a, Pumped(p, a),
         NEW msg, NEW b, Moves(Stream, a, msg, b)
  PROVE  Pumped(TakeMessage(p, Halves(msg)), b)
<1> DEFINE new == TakeMessage(p, Halves(msg))
           n == Len(Stream)
<1>1. PICK x : Position(p.scan, p.screen, x)
               /\ IF p.ends THEN x = Len(Stream) ELSE x = a /\ ~p.scan.done
  BY DEF Pumped
<1>2. /\ p = [scan |-> p.scan, screen |-> p.screen, ends |-> p.ends]
      /\ p.ends \in BOOLEAN
  BY DEF Pumped
<1>3. Stream \in Seq(Bytes) /\ Len(Stream) \in Nat /\ (command = "run" => Stream = Text(prog))
  BY StreamIs
<1>4. a \in 0..Len(Stream) /\ b \in a..Len(Stream)
  BY DEF Moves
<1>5. CASE p.ends
  <2>1. new = p
    BY <1>5, ParsedIs DEF TakeMessage
  <2> HIDE DEF new
  <2> QED
    BY <1>1, <1>2, <1>5, <2>1 DEF Pumped, new
<1>6. CASE ~p.ends /\ msg = Message("stdout", SubSeq(Stream, a + 1, b))
  <2> DEFINE data == SubSeq(Stream, a + 1, b)
  <2>1. msg.kind = "stdout" /\ msg.data = data
    BY <1>6 DEF Message
  <2>2. x = a /\ ~p.scan.done
    BY <1>1, <1>6
  <2> HIDE DEF data
  <2>3. CASE command = "run"
    <3> DEFINE fed == Feed(p.scan, data, ClearSeq)
               sc == fed.scan
               shown == p.screen \o fed.out
    <3>1. new = [scan |-> sc, screen |-> shown, ends |-> sc.done]
      BY <1>6, <2>1, <2>3, ParsedIs DEF TakeMessage, RunTakes
    <3>2. Stream = Text(prog) /\ ScannerAt(prog, p.scan, p.screen, a)
      BY <1>1, <1>3, <2>2, <2>3 DEF Position, ShownAt
    <3>3. ScannerAt(prog, sc, shown, b)
      <4>1. a \in 0..Len(Text(prog)) /\ b \in a..Len(Text(prog)) /\ data = SubSeq(Text(prog), a + 1, b)
        BY <1>4, <3>2 DEF data
      <4> QED
        BY <2>2, <3>2, <4>1, FeedKeeps
    <3> HIDE DEF new, sc, shown
    <3>4. sc.done \in BOOLEAN /\ (sc.done => b = Len(Text(prog)))
      <4>1. CASE Waiting(prog, sc, shown, b)
        <5>1. PICK q : sc = [streaming |-> FALSE, buf |-> SubSeq(Text(prog), q, b), done |-> FALSE, code |-> <<>>]
          BY <4>1 DEF Waiting
        <5> QED
          BY <5>1
      <4>2. CASE Streaming(prog, sc, shown, b)
        <5>1. PICK q : sc = [streaming |-> TRUE, buf |-> SubSeq(Text(prog), q, b), done |-> FALSE, code |-> <<>>]
          BY <4>2 DEF Streaming
        <5> QED
          BY <5>1
      <4>3. CASE Finished(prog, sc, shown, b)
        BY <4>3 DEF Finished
      <4> QED
        BY <3>3, <4>1, <4>2, <4>3 DEF ScannerAt
    <3>5. Position(sc, shown, b)
      BY <1>3, <1>4, <2>3, <3>3 DEF Position, ShownAt
    <3> QED
      BY <3>1, <3>2, <3>4, <3>5 DEF Pumped, new
  <2>4. CASE command # "run"
    <3> DEFINE shown == p.screen \o data
    <3>1. new = [p EXCEPT !.screen = shown]
      BY <1>6, <2>1, <2>4, ParsedIs DEF TakeMessage, TerminalTakes
    <3>2. p.scan = NewScanner /\ p.screen = SubSeq(Stream, 1, a)
      BY <1>1, <2>2, <2>4 DEF Position, ShownAt
    <3>3. shown = SubSeq(Stream, 1, b)
      <4>1. /\ 1 \in Int /\ a \in Int /\ b \in Int /\ 1 =< 1 /\ 1 =< a + 1 /\ a =< b /\ b =< Len(Stream)
        BY <1>3, <1>4
      <4>2. SubSeq(Stream, 1, a) \o SubSeq(Stream, a + 1, b) = SubSeq(Stream, 1, b)
        BY <1>3, <4>1, PiecesMeet
      <4> QED
        BY <3>2, <4>2 DEF data
    <3> HIDE DEF new, shown
    <3>4. new = [scan |-> p.scan, screen |-> shown, ends |-> p.ends]
      BY <1>2, <3>1
    <3>5. Position(p.scan, shown, b)
      BY <1>3, <1>4, <2>4, <3>2, <3>3 DEF Position, ShownAt
    <3> QED
      BY <1>2, <1>6, <2>2, <3>4, <3>5 DEF Pumped, new
  <2> QED
    BY <2>3, <2>4
<1>7. CASE ~p.ends /\ msg = Message("disconnect", <<>>) /\ a = Len(Stream)
  <2>1. msg.kind = "disconnect"
    BY <1>7 DEF Message
  <2>2. new = [p EXCEPT !.ends = TRUE]
    BY <1>7, <2>1, ParsedIs DEF TakeMessage
  <2> HIDE DEF new
  <2>3. new = [scan |-> p.scan, screen |-> p.screen, ends |-> TRUE]
    BY <1>2, <2>2
  <2>4. Position(new.scan, new.screen, x) /\ x = Len(Stream)
    BY <1>1, <1>7, <2>3
  <2>5. new = [scan |-> new.scan, screen |-> new.screen, ends |-> new.ends] /\ new.ends = TRUE
    BY <2>3
  <2>6. Pumped(new, b)
    BY <2>4, <2>5 DEF Pumped
  <2> QED
    BY <2>6 DEF new
<1> QED
  BY <1>2, <1>5, <1>6, <1>7 DEF Moves

\* So do all the messages that were handed on.
LEMMA PumpingShows ==
  ASSUME prog \in Programs, command \in Commands,
         NEW ms \in Seq(Payloads), NEW r, NEW b, Told(Stream, ms, r, b),
         NEW p, Pumped(p, r)
  PROVE  Pumped(MessagesTaken(p, ms), b)
<1> DEFINE n == Len(ms)
<1>1. PICK at : ToldBy(Stream, ms, at) /\ at[0] = r /\ at[n] = b
  BY DEF Told
<1>2. n \in Nat /\ DOMAIN ms = 1..n
  BY LenProperties
<1>3. \A k \in 1..n : \E msg \in Messages : ms[k] = Halves(msg) /\ Moves(Stream, at[k - 1], msg, at[k])
  BY <1>1 DEF ToldBy
<1> HIDE DEF n
<1>9. PICK g : MessageByMessage(g, p, ms, n)
  BY <1>2, MessagesStepByStep
<1>4. /\ g[0] = p
      /\ \A k \in 1..n : g[k] = TakeMessage(g[k - 1], ms[k])
      /\ MessagesTaken(p, ms) = g[n]
  BY <1>9 DEF MessageByMessage
<1> DEFINE PumpedAt(k) == Pumped(g[k], at[k])
           S == {k \in Nat : k =< n => PumpedAt(k)}
<1>5. 0 \in S
  BY <1>1, <1>4
<1>6. ASSUME NEW k \in Nat, k \in S PROVE k + 1 \in S
  <2> SUFFICES ASSUME k + 1 =< n PROVE PumpedAt(k + 1)
    BY <1>2
  <2> DEFINE l == k + 1
  <2>1. PumpedAt(k)
    BY <1>2, <1>6
  <2>2. l \in 1..n /\ l - 1 = k
    BY <1>2
  <2> HIDE DEF l
  <2>3. PICK msg \in Messages : ms[l] = Halves(msg) /\ Moves(Stream, at[k], msg, at[l])
    BY <1>3, <2>2
  <2>4. g[l] = TakeMessage(g[k], Halves(msg))
    BY <1>4, <2>2, <2>3
  <2>5. PumpedAt(l)
    BY <2>1, <2>3, <2>4, TakeMessagePumps
  <2> QED
    BY <2>5 DEF l
<1> HIDE DEF S
<1>7. Nat \subseteq S
  BY <1>5, <1>6, AllNumbers
<1>8. PumpedAt(n)
  BY <1>2, <1>7 DEF S
<1> QED
  BY <1>1, <1>4, <1>8 DEF n

-----------------------------------------------------------------------------
(* The wire and the buffer when something is sent, lost or received.       *)

Whole(cells) == Len(cells) = 2 * (Len(cells) \div 2)

\* What is sent carries the reader to what has been sent now.
LEMMA SendCarries ==
  ASSUME NEW text, NEW buf \in Seq(Cells), NEW w \in Seq(Cells), Whole(buf \o w),
         NEW r, NEW f, NEW b, NEW h, Carried(text, CompleteFrames(buf \o w), r, f, b, h),
         NEW G \in Seq(Frames), NEW c, NEW i, Carried(text, G, b, h, c, i)
  PROVE  LET new == w \o OnWire(G) IN
         /\ new \in Seq(Cells) /\ Whole(buf \o new)
         /\ Carried(text, CompleteFrames(buf \o new), r, f, c, i)
<1> DEFINE g == OnWire(G)
           all == buf \o w
           new == w \o g
<1>1. g \in Seq(Cells) /\ Len(G) \in Nat /\ Len(g) = 2 * Len(G)
  BY CellsOf
<1> HIDE DEF g
<1>2. all \in Seq(Cells) /\ new \in Seq(Cells) /\ buf \o new = all \o g
      /\ Len(all \o g) = Len(all) + Len(g)
  <2>1. all \in Seq(Cells) /\ new \in Seq(Cells)
    BY <1>1, ConcatProperties
  <2>2. buf \o new = all \o g
    BY <1>1, ConcatAssociative
  <2> HIDE DEF all, new
  <2>3. Len(all \o g) = Len(all) + Len(g)
    BY <1>1, <2>1, ConcatProperties
  <2> QED
    BY <2>1, <2>2, <2>3
<1>3. Whole(all) /\ Carried(text, CompleteFrames(all), r, f, b, h)
  OBVIOUS
<1> HIDE DEF all, new
<1>4. CompleteFrames(all) \in Seq(Frames) /\ Len(all) \in Nat
  BY <1>2, FramesOf
<1>5. CompleteFrames(all \o g) = CompleteFrames(all) \o G
  <2>1. Len(all) = 2 * (Len(all) \div 2)
    BY <1>3 DEF Whole
  <2> QED
    BY <1>2, <2>1, FramesAfterSend DEF g
<1>6. Carried(text, CompleteFrames(all) \o G, r, f, c, i)
  BY <1>3, <1>4, CarriedOn
<1>7. Whole(all \o g)
  <2> DEFINE n == Len(all)
             k == n \div 2
             l == Len(G)
  <2>1. n = 2 * k /\ k \in Nat /\ l \in Nat /\ Len(all \o g) = n + 2 * l
    BY <1>1, <1>2, <1>3, <1>4 DEF Whole
  <2> HIDE DEF n, k, l
  <2>2. (n + 2 * l) \div 2 = k + l /\ n + 2 * l = 2 * (k + l)
    BY <2>1
  <2> QED
    BY <2>1, <2>2 DEF Whole
<1> QED
  BY <1>2, <1>5, <1>6, <1>7 DEF new, g

\* The cells of buf and the first n of w are cells of both together.
LEMMA Arrived ==
  ASSUME NEW buf \in Seq(Cells), NEW w \in Seq(Cells), NEW n \in 0..Len(w)
  PROVE  LET all == buf \o w
             m == Len(buf) + n
         IN  /\ all \in Seq(Cells) /\ Len(all) = Len(buf) + Len(w) /\ m \in 0..Len(all)
             /\ Len(buf) \in Nat /\ Len(w) \in Nat
             /\ SubSeq(w, 1, n) \in Seq(Cells) /\ SubSeq(w, n + 1, Len(w)) \in Seq(Cells)
             /\ Len(SubSeq(w, 1, n)) = n /\ Len(SubSeq(w, n + 1, Len(w))) = Len(w) - n
             /\ buf \o SubSeq(w, 1, n) = SubSeq(all, 1, m)
             /\ SubSeq(w, n + 1, Len(w)) = SubSeq(all, m + 1, Len(all))
<1> DEFINE all == buf \o w
           l == Len(buf)
           k == Len(w)
           m == l + n
           s == n + 1
           first == SubSeq(w, 1, n)
           rest == SubSeq(w, s, k)
           x == buf \o first
           u == m + 1
           v == l + k
           y == SubSeq(all, 1, m)
           z == SubSeq(all, u, v)
<1>1. l \in Nat /\ k \in Nat /\ n \in Nat /\ n =< k
  BY LenProperties
<1>2. /\ all \in Seq(Cells) /\ Len(all) = Len(buf) + Len(w)
      /\ \A i \in 1..(Len(buf) + Len(w)) : all[i] = IF i <= Len(buf) THEN buf[i] ELSE w[i - Len(buf)]
  BY ConcatProperties
<1>3. /\ s \in Int /\ 1 =< s /\ s = n + 1 /\ m \in Nat /\ m = l + n /\ u \in Int /\ 1 =< u /\ u = m + 1
      /\ v \in Int /\ v = l + k /\ 1 \in Int /\ 1 =< 1 /\ n \in Int /\ n =< Len(w) /\ k \in Int /\ k =< Len(w)
  BY <1>1
<1>4. Len(all) = v /\ m \in Int /\ m =< Len(all) /\ v =< Len(all)
  BY <1>1, <1>2
<1>19. all \in Seq(Cells) /\ m \in Int /\ v \in Int /\ u \in Int /\ m =< Len(all) /\ v =< Len(all)
       /\ 1 =< u /\ 1 =< 1 /\ 1 \in Int
  BY <1>2, <1>3, <1>4
<1>5. \A i \in 1..v : all[i] = IF i =< l THEN buf[i] ELSE w[i - l]
  BY <1>2
<1> HIDE DEF all, l, k, m, s, u, v
<1>6. /\ first \in Seq(Cells) /\ Len(first) = IF 1 =< n THEN n - 1 + 1 ELSE 0
      /\ \A i \in 1..(n - 1 + 1) : first[i] = w[1 + i - 1]
  BY <1>3, Piece
<1>7. /\ rest \in Seq(Cells) /\ Len(rest) = IF s =< k THEN k - s + 1 ELSE 0
      /\ \A i \in 1..(k - s + 1) : rest[i] = w[s + i - 1]
  BY <1>3, Piece
<1>8. /\ y \in Seq(Cells) /\ Len(y) = IF 1 =< m THEN m - 1 + 1 ELSE 0
      /\ \A i \in 1..(m - 1 + 1) : y[i] = all[1 + i - 1]
  BY <1>19, Piece
<1>9. /\ z \in Seq(Cells) /\ Len(z) = IF u =< v THEN v - u + 1 ELSE 0
      /\ \A i \in 1..(v - u + 1) : z[i] = all[u + i - 1]
  BY <1>19, Piece
<1> HIDE DEF first, rest, y, z
<1>10. /\ x \in Seq(Cells) /\ Len(x) = Len(buf) + Len(first)
       /\ \A i \in 1..(Len(buf) + Len(first)) : x[i] = IF i <= Len(buf) THEN buf[i] ELSE first[i - Len(buf)]
  BY <1>6, ConcatProperties
<1> HIDE DEF x
<1>11. Len(first) = n /\ Len(rest) = k - n /\ Len(y) = m /\ Len(z) = k - n
  BY <1>1, <1>3, <1>6, <1>7, <1>8, <1>9
<1>12. Len(x) = m /\ \A i \in 1..m : x[i] = IF i =< l THEN buf[i] ELSE first[i - l]
  BY <1>1, <1>3, <1>10, <1>11 DEF l
<1>13. \A i \in 1..n : first[i] = w[i]
  <2> TAKE i \in 1..n
  <2>1. i \in 1..(n - 1 + 1) /\ 1 + i - 1 = i
    BY <1>1
  <2> QED
    BY <1>6, <2>1
<1>14. \A i \in 1..Len(x) : x[i] = y[i]
  <2> TAKE i \in 1..Len(x)
  <2>1. i \in 1..m /\ i \in 1..(m - 1 + 1) /\ 1 + i - 1 = i /\ i \in 1..v
    BY <1>1, <1>3, <1>12
  <2>2. y[i] = all[i] /\ all[i] = IF i =< l THEN buf[i] ELSE w[i - l]
    BY <1>5, <1>8, <2>1
  <2>3. CASE i =< l
    BY <1>12, <2>1, <2>2, <2>3
  <2>4. CASE ~(i =< l)
    <3> DEFINE e == i - l
    <3>1. e \in 1..n
      BY <1>1, <1>3, <2>1, <2>4
    <3>2. x[i] = first[e] /\ y[i] = w[e]
      BY <1>12, <2>1, <2>2, <2>4
    <3> HIDE DEF e
    <3> QED
      BY <1>13, <3>1, <3>2
  <2> QED
    BY <2>3, <2>4
<1>15. x = y
  BY <1>8, <1>10, <1>11, <1>12, <1>14, SeqEqual
<1>16. \A i \in 1..Len(rest) : rest[i] = z[i]
  <2> TAKE i \in 1..Len(rest)
  <2> DEFINE e == n + i
             g == m + i
  <2>1. i \in 1..(k - s + 1) /\ s + i - 1 = e /\ i \in 1..(v - u + 1) /\ u + i - 1 = g
        /\ g \in 1..v /\ ~(g =< l) /\ g - l = e
    BY <1>1, <1>3, <1>11
  <2> HIDE DEF e, g
  <2>2. rest[i] = w[e]
    BY <1>7, <2>1
  <2>3. z[i] = all[g]
    BY <1>9, <2>1
  <2>4. all[g] = w[e]
    BY <1>5, <2>1
  <2> QED
    BY <2>2, <2>3, <2>4
<1>17. rest = z
  BY <1>7, <1>9, <1>11, <1>16, SeqEqual
<1>18. m \in 0..Len(all)
  BY <1>1, <1>3, <1>4
<1> QED
  BY <1>1, <1>2, <1>4, <1>6, <1>7, <1>11, <1>15, <1>17, <1>18 DEF all, l, k, m, s, first, rest, x, u, v, y, z

\* What is left after a cut still carries the reader on from where it is.
LEMMA LossCarries ==
  ASSUME NEW text, NEW buf \in Seq(Cells), NEW w \in Seq(Cells),
         NEW r, NEW f, NEW b, NEW h, Carried(text, CompleteFrames(buf \o w), r, f, b, h),
         NEW n \in 0..Len(w)
  PROVE  LET new == SubSeq(w, 1, n) IN
         /\ new \in Seq(Cells)
         /\ \E c, i : Carried(text, CompleteFrames(buf \o new), r, f, c, i)
<1> DEFINE all == buf \o w
           new == SubSeq(w, 1, n)
           x == buf \o new
           m == Len(buf) + n
           F == CompleteFrames(all)
           k == m \div 2
<1>1. /\ all \in Seq(Cells) /\ m \in 0..Len(all) /\ new \in Seq(Cells) /\ x = SubSeq(all, 1, m)
      /\ Len(buf) \in Nat
  BY Arrived
<1>2. Carried(text, F, r, f, b, h)
  OBVIOUS
<1>3. F \in Seq(Frames) /\ Len(F) = Len(all) \div 2 /\ Len(all) \in Nat
  BY <1>1, FramesOf
<1> HIDE DEF all, new, x, m, F
<1>4. CompleteFrames(SubSeq(all, 2 * 0 + 1, m)) = SubSeq(CompleteFrames(all), 0 + 1, m \div 2)
  <2>1. 0 \in Nat /\ m \in (2 * 0)..Len(all)
    BY <1>1
  <2> QED
    BY <1>1, <2>1, FramesOfPiece
<1>5. CompleteFrames(x) = SubSeq(F, 1, k)
  <2>1. 2 * 0 + 1 = 1 /\ 0 + 1 = 1
    OBVIOUS
  <2> QED
    BY <1>1, <1>4, <2>1 DEF F
<1>6. k \in 0..Len(F)
  BY <1>1, <1>3
<1> HIDE DEF k
<1>7. PICK c, i : Carried(text, SubSeq(F, 1, k), r, f, c, i)
  BY <1>2, <1>3, <1>6, CarriedInParts
<1> QED
  BY <1>1, <1>5, <1>7 DEF new, x

\* Reading has carried the reader of the text from r on to where the rest of
\* what was sent carries it to b.
CarriesOn(text, read, rest, r, b, h) ==
    \E c, i, got :
        /\ Got(text, r, got, c, i)
        /\ read.messages = got.messages
        /\ read.reader = [buf |-> read.reader.buf, frag |-> got.frag, closed |-> got.closed]
        /\ Carried(text, CompleteFrames(read.reader.buf \o rest), c, i, b, h)
        /\ rest = <<>> => c = b

\* What has arrived is read as far as it has complete frames; the rest of it
\* and what comes later carry the reader on.
LEMMA ReadCarries ==
  ASSUME NEW text, NEW rdr, rdr.buf \in Seq(Cells), NEW w \in Seq(Cells),
         NEW r, NEW b, NEW h, Carried(text, CompleteFrames(rdr.buf \o w), r, rdr.frag, b, h),
         NEW n \in 0..Len(w)
  PROVE  LET read == ReadMessages(rdr, SubSeq(w, 1, n))
             new == SubSeq(w, n + 1, Len(w))
         IN  /\ new \in Seq(Cells) /\ Len(new) = Len(w) - n /\ Len(w) \in Nat
             /\ read.reader.buf \in Seq(Cells)
             /\ Whole(rdr.buf \o w) => Whole(read.reader.buf \o new)
             /\ CarriesOn(text, read, new, r, b, h)
<1> DEFINE buf == rdr.buf
           f == rdr.frag
           all == buf \o w
           part == SubSeq(w, 1, n)
           new == SubSeq(w, n + 1, Len(w))
           come == buf \o part
           m == Len(buf) + n
           F == CompleteFrames(all)
           j == m \div 2
           J == 2 * j
           G == CompleteFrames(come)
           start == [messages |-> <<>>, frag |-> f, closed |-> FALSE, pings |-> 0]
           got == FoldLeft(TakeFrame, start, G)
           left == SubSeq(come, 2 * Len(G) + 1, Len(come))
           read == ReadMessages(rdr, part)
<1>1. /\ all \in Seq(Cells) /\ Len(all) = Len(buf) + Len(w) /\ m \in 0..Len(all)
      /\ Len(buf) \in Nat /\ Len(w) \in Nat
      /\ part \in Seq(Cells) /\ new \in Seq(Cells)
      /\ Len(part) = n /\ Len(new) = Len(w) - n
      /\ come = SubSeq(all, 1, m)
      /\ new = SubSeq(all, m + 1, Len(all))
  BY Arrived
<1>2. Carried(text, F, r, f, b, h)
  OBVIOUS
<1>3. F \in Seq(Frames) /\ Len(F) = Len(all) \div 2 /\ Len(all) \in Nat
  BY <1>1, FramesOf
<1>4. /\ read.reader = [buf |-> left, frag |-> got.frag, closed |-> got.closed]
      /\ read.messages = got.messages
  BY DEF ReadMessages
<1>5. got = FramesTaken(start, G)
  BY DEF FramesTaken
<1> HIDE DEF all, part, new, read, F, m
<1>6. /\ come \in Seq(Cells) /\ Len(come) = m
  <2>1. m \in Nat /\ 1 \in Int /\ m \in Int /\ 1 =< 1 /\ m =< Len(all)
    BY <1>1, <1>3
  <2>2. SubSeq(all, 1, m) \in Seq(Cells) /\ Len(SubSeq(all, 1, m)) = IF 1 =< m THEN m - 1 + 1 ELSE 0
    BY <1>1, <2>1, Piece
  <2> QED
    BY <1>1, <2>1, <2>2
<1> HIDE DEF come
<1>7. Len(G) = j /\ G \in Seq(Frames)
  BY <1>6, FramesOf
<1>8. /\ j \in Nat /\ J \in Nat /\ m \in Nat /\ J =< m /\ m < J + 2 /\ j =< Len(F) /\ j \in 0..Len(F)
      /\ J = 2 * j /\ m =< Len(all)
  <2>1. m \in Nat
    BY <1>1
  <2>2. j \in Nat /\ 2 * j =< m /\ m < 2 * j + 2
    BY <2>1
  <2> DEFINE p == Len(all) \div 2
  <2>3. p \in Nat /\ Len(all) < 2 * p + 2
    BY <1>3
  <2>4. m =< Len(all) /\ Len(all) \in Nat /\ p = Len(F)
    BY <1>1, <1>3
  <2> HIDE DEF j, p
  <2>5. j =< p
    BY <2>1, <2>2, <2>3, <2>4
  <2> QED
    BY <2>1, <2>2, <2>3, <2>4, <2>5
<1> HIDE DEF G, got, left, start
<1>9. G = SubSeq(F, 1, j)
  <2>1. CompleteFrames(SubSeq(all, 2 * 0 + 1, m)) = SubSeq(CompleteFrames(all), 0 + 1, m \div 2)
    <3>1. 0 \in Nat /\ m \in (2 * 0)..Len(all)
      BY <1>1
    <3> QED
      BY <1>1, <3>1, FramesOfPiece
  <2>2. 2 * 0 + 1 = 1 /\ 0 + 1 = 1
    OBVIOUS
  <2> QED
    BY <1>1, <2>1, <2>2 DEF F, G
<1> DEFINE k == j + 1
           l == Len(all)
           u == J + 1
           v == m + 1
<1>10. left = SubSeq(all, u, m)
  <2>1. left = SubSeq(come, u, m)
    BY <1>6, <1>7 DEF left
  <2>2. /\ 1 \in Int /\ m \in Int /\ 1 =< 1 /\ m =< Len(all) /\ u \in Int /\ 1 =< u /\ m =< m - 1 + 1
        /\ 1 + u - 1 = u /\ 1 + m - 1 = m
    BY <1>8
  <2> HIDE DEF u
  <2>3. SubSeq(SubSeq(all, 1, m), u, m) = SubSeq(all, 1 + u - 1, 1 + m - 1)
    BY <1>1, <2>2, PieceOfPiece
  <2> QED
    BY <1>1, <2>1, <2>2, <2>3
<1>11. left \o new = SubSeq(all, u, l)
  <2>1. u \in Int /\ m \in Int /\ l \in Int /\ 1 =< u /\ u =< m + 1 /\ m =< l /\ l =< Len(all)
    BY <1>1, <1>3, <1>8
  <2> HIDE DEF u, l
  <2>2. SubSeq(all, u, m) \o SubSeq(all, m + 1, l) = SubSeq(all, u, l)
    BY <1>1, <2>1, PiecesMeet
  <2> QED
    BY <1>1, <1>10, <2>2 DEF l
<1>12. left \in Seq(Cells) /\ left \o new \in Seq(Cells) /\ Len(left \o new) = l - J
  <2>1. /\ u \in Int /\ m \in Int /\ l \in Int /\ 1 =< u /\ m =< Len(all) /\ l =< Len(all)
        /\ u = J + 1 /\ J =< l
    BY <1>1, <1>3, <1>8
  <2> HIDE DEF u, l
  <2>2. SubSeq(all, u, m) \in Seq(Cells)
    BY <1>1, <2>1, Piece
  <2>3. SubSeq(all, u, l) \in Seq(Cells) /\ Len(SubSeq(all, u, l)) = IF u =< l THEN l - u + 1 ELSE 0
    BY <1>1, <2>1, Piece
  <2>4. (IF u =< l THEN l - u + 1 ELSE 0) = l - J
    BY <1>8, <2>1
  <2> QED
    BY <1>10, <1>11, <2>2, <2>3, <2>4
<1>13. CompleteFrames(left \o new) = SubSeq(F, k, Len(F))
  <2>1. l \in J..Len(all) /\ j \in Nat
    BY <1>3, <1>8
  <2>2. CompleteFrames(SubSeq(all, 2 * j + 1, l)) = SubSeq(CompleteFrames(all), j + 1, l \div 2)
    BY <1>1, <2>1, FramesOfPiece
  <2> QED
    BY <1>3, <1>11, <2>2 DEF F
<1>14. Whole(all) => Whole(left \o new)
  <2> SUFFICES ASSUME Whole(all) PROVE Whole(left \o new)
    OBVIOUS
  <2> DEFINE q == l \div 2
  <2>1. l = 2 * q /\ q \in Nat /\ Len(left \o new) = l - 2 * j /\ j =< q
    BY <1>3, <1>8, <1>12 DEF Whole
  <2> HIDE DEF q, l, j
  <2>2. l - 2 * j = 2 * (q - j) /\ (2 * (q - j)) \div 2 = q - j
    BY <1>8, <2>1
  <2> QED
    BY <2>1, <2>2 DEF Whole
<1>15. PICK c, i : /\ Carried(text, SubSeq(F, 1, j), r, f, c, i)
                   /\ Carried(text, SubSeq(F, j + 1, Len(F)), c, i, b, h)
  BY <1>2, <1>3, <1>8, CarriedInParts
<1>16. Got(text, r, got, c, i)
  <2>1. Carried(text, G, r, f, c, i)
    BY <1>9, <1>15
  <2> QED
    BY <1>5, <1>7, <2>1, ReadingTells DEF start
<1>17. ASSUME new = <<>> PROVE c = b
  <2>6. Len(<<>>) = 0
    BY EmptySeq
  <2>7. Len(new) = 0
    BY <1>17, <2>6
  <2>8. n = Len(w)
    BY <1>1, <2>7
  <2>1. m = Len(all)
    BY <1>1, <2>8 DEF m
  <2>2. j = Len(F)
    BY <1>3, <2>1
  <2>3. j + 1 \in Int /\ Len(F) \in Int /\ Len(F) < j + 1
    BY <1>8, <2>2
  <2>4. SubSeq(F, j + 1, Len(F)) = <<>>
    BY <2>3, SubSeqEmpty
  <2>5. Carried(text, <<>>, c, i, b, h)
    BY <1>15, <2>4
  <2> QED
    BY <2>5 DEF Carried
<1>19. read.reader.buf = left /\ read.reader = [buf |-> read.reader.buf, frag |-> got.frag, closed |-> got.closed]
  BY <1>4
<1>20. CompleteFrames(read.reader.buf \o new) = SubSeq(F, j + 1, Len(F))
  BY <1>13, <1>19
<1>21. Carried(text, CompleteFrames(read.reader.buf \o new), c, i, b, h)
  BY <1>15, <1>20
<1>18. /\ Got(text, r, got, c, i)
       /\ read.messages = got.messages
       /\ read.reader = [buf |-> read.reader.buf, frag |-> got.frag, closed |-> got.closed]
       /\ Carried(text, CompleteFrames(read.reader.buf \o new), c, i, b, h)
       /\ new = <<>> => c = b
  BY <1>4, <1>16, <1>17, <1>19, <1>21
<1>22. CarriesOn(text, read, new, r, b, h)
  BY <1>18 DEF CarriesOn
<1> QED
  BY <1>1, <1>12, <1>14, <1>19, <1>22 DEF all, new, read, part

-----------------------------------------------------------------------------
(* What is on the screen at a position of the reader.                      *)

\* A sequence begins the longer one.
LEMMA Beginning ==
  ASSUME NEW S, NEW s \in Seq(S), NEW t \in Seq(S)
  PROVE  IsPrefix(s, s \o t)
<1> DEFINE x == s \o t
           n == Len(s)
<1>1. /\ x \in Seq(S) /\ Len(x) = Len(s) + Len(t)
      /\ \A i \in 1..(Len(s) + Len(t)) : x[i] = IF i <= Len(s) THEN s[i] ELSE t[i - Len(s)]
  BY ConcatProperties
<1>2. n \in Nat /\ Len(t) \in Nat
  BY LenProperties
<1> HIDE DEF x, n
<1>3. n =< Len(x) /\ n \in Int /\ 1 \in Int /\ 1 =< 1
  BY <1>1, <1>2 DEF n
<1> DEFINE y == SubSeq(x, 1, n)
<1>4. /\ y \in Seq(S) /\ Len(y) = IF 1 =< n THEN n - 1 + 1 ELSE 0
      /\ \A i \in 1..(n - 1 + 1) : y[i] = x[1 + i - 1]
  BY <1>1, <1>3, Piece
<1> HIDE DEF y
<1>5. Len(y) = n
  BY <1>2, <1>4
<1>6. \A i \in 1..Len(s) : s[i] = y[i]
  <2> TAKE i \in 1..Len(s)
  <2>1. i \in 1..(n - 1 + 1) /\ 1 + i - 1 = i /\ i \in 1..(Len(s) + Len(t)) /\ i =< Len(s)
    BY <1>2 DEF n
  <2>2. y[i] = x[i]
    BY <1>4, <2>1
  <2> QED
    BY <1>1, <2>1, <2>2
<1>7. s = y
  BY <1>4, <1>5, <1>6, SeqEqual DEF n
<1>8. SubSeq(s, 1, n) = s
  BY SubSeqFull DEF n
<1> QED
  BY <1>3, <1>7, <1>8 DEF IsPrefix, n, x, y

\* The empty sequence begins every other.
LEMMA EmptyBeginning ==
  ASSUME NEW S, NEW t \in Seq(S)
  PROVE  IsPrefix(<<>>, t)
<1>1. <<>> \in Seq(S) /\ <<>> \o t = t
  BY EmptySeq, ConcatEmptySeq
<1>2. IsPrefix(<<>>, <<>> \o t)
  BY <1>1, Beginning
<1> QED
  BY <1>1, <1>2

\* At its place in the stream, what the screen shows is right.
LEMMA PositionShows ==
  ASSUME prog \in Programs, NEW sc, NEW shown, NEW r, Position(sc, shown, r)
  PROVE  /\ sc \in Scanner /\ shown \in Seq(Bytes)
         /\ IsPrefix(shown, Shown)
         /\ sc.done => shown = Shown /\ sc.code = prog.code
         /\ r = Len(Stream) => shown = Shown /\ (command = "run" => sc.done)
<1>1. Stream \in Seq(Bytes) /\ Len(Stream) \in Nat /\ (command = "run" => Stream = Text(prog))
  BY StreamIs
<1>2. r \in 0..Len(Stream)
  BY DEF Position, ShownAt
<1>3. CASE command = "run"
  <2> DEFINE t == Text(prog)
             n == Len(t)
  <2>1. ScannerAt(prog, sc, shown, r) /\ Stream = t /\ Shown = ClearSeq \o prog.out
    BY <1>1, <1>3 DEF Position, ShownAt, Shown
  <2>2. /\ n \in Nat /\ t \in Seq(Bytes) /\ StartAt(prog) \in Nat \ {0} /\ OutputAt(prog) \in Nat \ {0}
        /\ EndAt(prog) \in Nat \ {0} /\ OutputAt(prog) = StartAt(prog) + 5
        /\ StartAt(prog) + 5 =< EndAt(prog) /\ EndAt(prog) + 5 =< n
    BY Places, TextIs
  <2>3. prog.out \in Seq(Bytes) /\ ClearSeq \in Seq(Bytes)
    BY ProgramsAssumption, RunAssumption
  <2>4. ClearSeq \o prog.out \in Seq(Bytes)
    BY <2>3, ConcatProperties
  <2>5. SubSeq(t, OutputAt(prog), EndAt(prog) - 1) = prog.out
    BY OutputIs
  <2>6. r \in Nat /\ r =< n
    BY <1>2, <2>1, <2>2
  <2> HIDE DEF t, n
  <2>7. CASE Waiting(prog, sc, shown, r)
    <3>1. PICK q \in 1..(r + 1) :
             sc = [streaming |-> FALSE, buf |-> SubSeq(t, q, r), done |-> FALSE, code |-> <<>>]
      BY <2>7 DEF Waiting, t
    <3>2. q \in Int /\ r \in Int /\ 1 =< q /\ r =< Len(t)
      BY <2>6, <3>1 DEF n
    <3>3. SubSeq(t, q, r) \in Seq(Bytes)
      BY <2>2, <3>2, Piece
    <3>4. sc \in Scanner /\ ~sc.done
      BY <3>1, <3>3 DEF Scanner
    <3>5. shown = <<>> /\ r # n
      BY <2>2, <2>6, <2>7 DEF Waiting
    <3>6. IsPrefix(shown, Shown) /\ shown \in Seq(Bytes)
      <4>1. IsPrefix(<<>>, ClearSeq \o prog.out)
        BY <2>4, EmptyBeginning
      <4> QED
        BY <2>1, <3>5, <4>1, EmptySeq
    <3> QED
      BY <2>1, <3>4, <3>5, <3>6 DEF n
  <2>8. CASE Streaming(prog, sc, shown, r)
    <3>1. PICK q \in OutputAt(prog)..EndAt(prog) :
             /\ q =< r + 1
             /\ sc = [streaming |-> TRUE, buf |-> SubSeq(t, q, r), done |-> FALSE, code |-> <<>>]
             /\ shown = ClearSeq \o SubSeq(t, OutputAt(prog), q - 1)
      BY <2>8 DEF Streaming, t
    <3> DEFINE o == OutputAt(prog)
               e == EndAt(prog) - 1
               u == q - 1
    <3>2. /\ q \in Int /\ r \in Int /\ 1 =< q /\ r =< Len(t)
          /\ o \in Int /\ e \in Int /\ u \in Int /\ 1 =< o /\ o =< u + 1 /\ u =< e /\ e =< Len(t) /\ u =< Len(t)
          /\ u + 1 = q
      BY <2>2, <2>6, <3>1 DEF n
    <3>3. SubSeq(t, q, r) \in Seq(Bytes)
      BY <2>2, <3>2, Piece
    <3>4. sc \in Scanner /\ ~sc.done
      BY <3>1, <3>3 DEF Scanner
    <3>5. r # n
      BY <2>8 DEF Streaming, n, t
    <3> HIDE DEF o, e, u
    <3>6. SubSeq(t, o, u) \in Seq(Bytes) /\ SubSeq(t, q, e) \in Seq(Bytes)
      BY <2>2, <3>2, Piece
    <3>7. SubSeq(t, o, u) \o SubSeq(t, u + 1, e) = SubSeq(t, o, e)
      BY <2>2, <3>2, PiecesMeet
    <3>8. SubSeq(t, o, u) \o SubSeq(t, q, e) = prog.out
      BY <2>5, <3>2, <3>7 DEF o, e
    <3>9. shown = ClearSeq \o SubSeq(t, o, u)
      BY <3>1 DEF o, u
    <3>10. shown \in Seq(Bytes)
      BY <2>3, <3>6, <3>9, ConcatProperties
    <3>11. shown \o SubSeq(t, q, e) = ClearSeq \o (SubSeq(t, o, u) \o SubSeq(t, q, e))
      <4> DEFINE x == SubSeq(t, o, u)
                 y == SubSeq(t, q, e)
      <4>1. x \in Seq(Bytes) /\ y \in Seq(Bytes) /\ ClearSeq \in Seq(Bytes)
        BY <2>3, <3>6
      <4> HIDE DEF x, y
      <4>2. (ClearSeq \o x) \o y = ClearSeq \o (x \o y)
        BY <4>1, ConcatAssociative
      <4> QED
        BY <3>9, <4>2 DEF x, y
    <3>12. shown \o SubSeq(t, q, e) = Shown
      BY <2>1, <3>8, <3>11
    <3>13. IsPrefix(shown, shown \o SubSeq(t, q, e))
      BY <3>6, <3>10, Beginning
    <3> QED
      BY <2>1, <3>4, <3>5, <3>10, <3>12, <3>13 DEF n
  <2>9. CASE Finished(prog, sc, shown, r)
    <3>1. sc = [streaming |-> TRUE, buf |-> <<>>, done |-> TRUE, code |-> prog.code] /\ shown = Shown
      BY <2>1, <2>9 DEF Finished
    <3>2. prog.code \in Seq(Digits \cup {"-"})
      BY StatusIn
    <3>3. <<>> \in Seq(Bytes)
      BY EmptySeq
    <3>4. sc \in Scanner /\ sc.done /\ sc.code = prog.code
      BY <3>1, <3>2, <3>3 DEF Scanner
    <3>5. shown \in Seq(Bytes)
      BY <2>1, <2>4, <3>1
    <3>6. IsPrefix(shown, Shown)
      <4>1. <<>> \in Seq(Bytes) /\ shown \o <<>> = shown
        BY <3>5, EmptySeq, ConcatEmptySeq
      <4>2. IsPrefix(shown, shown \o <<>>)
        BY <3>5, <4>1, Beginning
      <4> QED
        BY <3>1, <4>1, <4>2
    <3> QED
      BY <3>1, <3>4, <3>5, <3>6
  <2> QED
    BY <2>1, <2>7, <2>8, <2>9 DEF ScannerAt
<1>4. CASE command # "run"
  <2> DEFINE n == Len(Stream)
             k == r + 1
  <2>1. sc = NewScanner /\ shown = SubSeq(Stream, 1, r) /\ Shown = Stream
    BY <1>4 DEF Position, ShownAt, Shown
  <2>2. sc \in Scanner /\ ~sc.done
    <3>1. <<>> \in Seq(Bytes) /\ <<>> \in Seq(Digits \cup {"-"})
      BY EmptySeq
    <3> QED
      BY <2>1, <3>1 DEF NewScanner, Scanner
  <2>3. /\ 1 \in Int /\ r \in Int /\ n \in Int /\ k \in Int /\ 1 =< 1 /\ 1 =< k /\ k = r + 1 /\ 1 =< r + 1 /\ r =< n
        /\ n =< Len(Stream) /\ r =< Len(Stream)
    BY <1>1, <1>2
  <2> HIDE DEF n, k
  <2>4. shown \in Seq(Bytes)
    BY <1>1, <2>1, <2>3, Piece
  <2>5. SubSeq(Stream, k, n) \in Seq(Bytes)
    BY <1>1, <2>3, Piece
  <2>6. SubSeq(Stream, 1, r) \o SubSeq(Stream, r + 1, n) = SubSeq(Stream, 1, n)
    BY <1>1, <2>3, PiecesMeet
  <2>7. SubSeq(Stream, 1, n) = Stream
    BY <1>1, SubSeqFull DEF n
  <2>8. IsPrefix(shown, shown \o SubSeq(Stream, k, n))
    BY <2>4, <2>5, Beginning
  <2>9. IsPrefix(shown, Shown)
    BY <2>1, <2>3, <2>6, <2>7, <2>8
  <2>10. r = n => shown = Shown
    BY <2>1, <2>7
  <2> QED
    BY <1>4, <2>2, <2>4, <2>9, <2>10 DEF n
<1> QED
  BY <1>3, <1>4

\* Before the first symbol nothing is shown.
LEMMA PositionZero ==
  ASSUME prog \in Programs
  PROVE  Position(NewScanner, <<>>, 0)
<1>1. Stream \in Seq(Bytes) /\ Len(Stream) \in Nat /\ (command = "run" => Stream = Text(prog))
  BY StreamIs
<1>2. \A s : SubSeq(s, 1, 0) = <<>>
  BY SubSeqEmpty
<1>3. CASE command = "run"
  <2>1. StartAt(prog) \in Nat \ {0}
    BY Places
  <2>2. 1 \in 1..(0 + 1) /\ 1 =< StartAt(prog) /\ 0 < StartAt(prog) + 4
    BY <2>1
  <2>3. NewScanner = [streaming |-> FALSE, buf |-> SubSeq(Text(prog), 1, 0), done |-> FALSE, code |-> <<>>]
    BY <1>2 DEF NewScanner
  <2>4. Waiting(prog, NewScanner, <<>>, 0)
    BY <2>2, <2>3 DEF Waiting
  <2> QED
    BY <1>1, <1>3, <2>4 DEF Position, ShownAt, ScannerAt
<1>4. CASE command # "run"
  BY <1>1, <1>2, <1>4 DEF Position, ShownAt
<1> QED
  BY <1>3, <1>4

-----------------------------------------------------------------------------
(* The inductive invariant.                                                *)

RunTypes ==
    /\ command \in Commands /\ prog \in Programs
    /\ temp \in {"none", "there", "gone"}
    /\ shell \in {"none", "idle", "running", "exited", "gone"}
    /\ sent \in 0..Len(Stream)
    /\ link \in Links
    /\ wire \in Seq(Cells) /\ Len(wire) <= MaxWire
    /\ step \in ClientSteps /\ tries \in 0..MaxTries
    /\ reader.buf \in Seq(Cells) /\ reader.closed \in BOOLEAN
    /\ raised \in BOOLEAN /\ slipped \subseteq {"temp", "terminal"}

\* Nothing has been sent before the connection.
Fresh ==
    step \in {"name", "put", "terminal", "again", "connect"} =>
        /\ sent = 0 /\ shell \in {"none", "idle"} /\ link = "none" /\ wire = <<>>
        /\ reader = NewReader /\ scan = NewScanner /\ screen = <<>>

\* The server closes the connection when it has sent everything.
EndedIsAll == link = "ended" => sent = Len(Stream)

\* The screen shows what has been read, and what has arrived or is on its way
\* carries on from there: to all that has been sent, if nothing was lost.
Reads ==
    step = "pump" =>
        /\ scan.done = FALSE /\ reader.closed = FALSE
        /\ \E r, b, h :
              /\ Position(scan, screen, r)
              /\ Carried(Stream, CompleteFrames(reader.buf \o wire), r, reader.frag, b, h)
              /\ link \in {"up", "ended"} => b = sent
              /\ link = "up" => Whole(reader.buf \o wire)

\* A connection that has come to its own end has been read to the end.
Stopped ==
    step # "pump" =>
        \E r : /\ Position(scan, screen, r)
               /\ (step = "close" /\ reader.closed /\ link \in {"up", "ended"}) => r = Len(Stream)

RunInv == RunTypes /\ Fresh /\ EndedIsAll /\ Reads /\ Stopped

\* The invariant holds before the first step.
LEMMA RunInit == Init => RunInv
<1> SUFFICES ASSUME Init PROVE RunInv
  OBVIOUS
<1>1. /\ command \in Commands /\ prog \in Programs
      /\ temp = "none" /\ shell = "none" /\ sent = 0 /\ link = "none" /\ wire = <<>>
      /\ step \in {"name", "terminal"} /\ tries = 0 /\ reader = NewReader /\ scan = NewScanner
      /\ screen = <<>> /\ raised = FALSE /\ slipped = {}
  BY DEF Init
<1>2. Len(Stream) \in Nat /\ Position(NewScanner, <<>>, 0)
  BY <1>1, StreamIs, PositionZero
<1>3. <<>> \in Seq(Cells) /\ Len(<<>>) = 0 /\ NewReader.buf = <<>> /\ NewReader.closed = FALSE
  BY EmptySeq DEF NewReader
<1>5. 0 \in 0..MaxTries /\ 0 <= MaxWire /\ 0 \in 0..Len(Stream)
  BY <1>2, RunAssumption
<1>6. step \in ClientSteps
  BY <1>1 DEF ClientSteps
<1>4. RunTypes
  BY <1>1, <1>3, <1>5, <1>6 DEF RunTypes, Links
<1> QED
  BY <1>1, <1>2, <1>3, <1>4 DEF RunInv, Fresh, EndedIsAll, Reads, Stopped

\* The invariant implies the properties.
LEMMA RunSafe == RunInv => TypeOK /\ ScreenIsOutput /\ AllShownWhenHeld
<1> SUFFICES ASSUME RunInv PROVE TypeOK /\ ScreenIsOutput /\ AllShownWhenHeld
  OBVIOUS
<1>1. prog \in Programs
  BY DEF RunInv, RunTypes
<1>2. PICK r : /\ Position(scan, screen, r)
               /\ (step = "close" /\ reader.closed /\ link \in {"up", "ended"}) => r = Len(Stream)
  BY DEF RunInv, Reads, Stopped
<1>3. /\ scan \in Scanner /\ screen \in Seq(Bytes)
      /\ IsPrefix(screen, Shown)
      /\ scan.done => screen = Shown /\ scan.code = prog.code
      /\ r = Len(Stream) => screen = Shown /\ (command = "run" => scan.done)
  BY <1>1, <1>2, PositionShows
<1>4. TypeOK
  BY <1>3 DEF RunInv, RunTypes, TypeOK
<1>5. ScreenIsOutput
  BY <1>3 DEF ScreenIsOutput
<1>6. AllShownWhenHeld
  BY <1>2, <1>3 DEF AllShownWhenHeld, ExitCode
<1> QED
  BY <1>4, <1>5, <1>6

\* The stream is the same as long as the command and the program are.
LEMMA SameStream == UNCHANGED <<command, prog>> => Stream' = Stream
  BY DEF Stream

\* Whatever the server does with what it has to send.
LEMMA SendingKeeps ==
  ASSUME RunInv, UNCHANGED <<command, prog, client, slipped>>,
         temp' \in {"none", "there", "gone"}, shell' \in {"running", "exited"}, shell = "running",
         sent' \in sent..Len(Stream),
         \/ link' = link
         \/ link = "up" /\ link' = "ended" /\ sent' = Len(Stream),
         \/ /\ link # "up" /\ wire' = wire
            /\ link = "ended" => sent' = sent
         \/ /\ link = "up" /\ Len(wire') <= MaxWire
            /\ \E G \in Seq(Frames) :
                  /\ wire' = wire \o OnWire(G)
                  /\ \A f : \E h : Carried(Stream, G, sent, f, sent', h)
  PROVE  RunInv'
<1>1. UNCHANGED <<command, prog, step, tries, reader, scan, screen, raised, slipped>>
  BY DEF client
<1>2. Stream' = Stream
  BY <1>1, SameStream
<1>3. RunTypes /\ Fresh /\ EndedIsAll /\ Reads /\ Stopped
  BY DEF RunInv
<1>4. Len(Stream) \in Nat /\ sent' \in 0..Len(Stream) /\ sent \in 0..Len(Stream)
  <2>1. Len(Stream) \in Nat /\ sent \in 0..Len(Stream)
    BY <1>3, StreamIs DEF RunTypes
  <2> QED
    BY <2>1
<1>5. wire' \in Seq(Cells) /\ Len(wire') <= MaxWire
  <2>1. CASE wire' = wire
    BY <1>3, <2>1 DEF RunTypes
  <2>2. CASE link = "up"
    <3>1. PICK G \in Seq(Frames) : wire' = wire \o OnWire(G)
      BY <2>2
    <3>2. wire \in Seq(Cells) /\ OnWire(G) \in Seq(Cells)
      BY <1>3, CellsOf DEF RunTypes
    <3>3. wire \o OnWire(G) \in Seq(Cells)
      BY <3>2, ConcatProperties
    <3> QED
      BY <2>2, <3>1, <3>3
  <2> QED
    BY <2>1, <2>2
<1>6. link' \in Links /\ (link' = "up" => link = "up")
      /\ (link' \in {"up", "ended"} => link \in {"up", "ended"})
  BY <1>3 DEF RunTypes, Links
<1>7. RunTypes'
  BY <1>1, <1>2, <1>3, <1>4, <1>5, <1>6 DEF RunTypes
<1>8. Fresh'
  BY <1>1, <1>3 DEF Fresh
<1>9. EndedIsAll'
  <2>1. CASE link' = link
    BY <1>2, <1>3, <2>1 DEF EndedIsAll
  <2>2. CASE link = "up" /\ link' = "ended" /\ sent' = Len(Stream)
    BY <1>2, <2>2 DEF EndedIsAll
  <2> QED
    BY <2>1, <2>2
<1>10. Reads'
  <2> SUFFICES ASSUME step = "pump" PROVE Reads'
    BY <1>1 DEF Reads
  <2>1. PICK r, b, h : /\ Position(scan, screen, r)
                       /\ Carried(Stream, CompleteFrames(reader.buf \o wire), r, reader.frag, b, h)
                       /\ link \in {"up", "ended"} => b = sent
                       /\ link = "up" => Whole(reader.buf \o wire)
    BY <1>3 DEF Reads
  <2>2. scan.done = FALSE /\ reader.closed = FALSE
    BY <1>3 DEF Reads
  <2>3. Position(scan, screen, r)'
    BY <1>1, <1>2, <2>1 DEF Position
  <2>4. CASE wire' = wire /\ link # "up"
    <3>1. link' \in {"up", "ended"} => b = sent'
      BY <2>1, <2>4
    <3> QED
      BY <1>1, <1>2, <1>6, <2>1, <2>2, <2>3, <2>4, <3>1 DEF Reads
  <2>5. CASE link = "up"
    <3>1. PICK G \in Seq(Frames) : /\ wire' = wire \o OnWire(G)
                                   /\ \A f : \E i : Carried(Stream, G, sent, f, sent', i)
      BY <2>5
    <3>2. PICK i : Carried(Stream, G, b, h, sent', i)
      BY <2>1, <2>5, <3>1
    <3>3. reader.buf \in Seq(Cells) /\ wire \in Seq(Cells) /\ Whole(reader.buf \o wire)
      BY <1>3, <2>1, <2>5 DEF RunTypes
    <3>4. Whole(reader.buf \o wire') /\ Carried(Stream, CompleteFrames(reader.buf \o wire'), r, reader.frag, sent', i)
      BY <2>1, <3>1, <3>2, <3>3, SendCarries
    <3> QED
      BY <1>1, <1>2, <2>2, <2>3, <3>4 DEF Reads
  <2> QED
    BY <2>4, <2>5
<1>11. Stopped'
  <2> SUFFICES ASSUME step # "pump" PROVE Stopped'
    BY <1>1 DEF Stopped
  <2>1. PICK r : /\ Position(scan, screen, r)
                 /\ (step = "close" /\ reader.closed /\ link \in {"up", "ended"}) => r = Len(Stream)
    BY <1>3 DEF Stopped
  <2>2. Position(scan, screen, r)'
    BY <1>1, <1>2, <2>1 DEF Position
  <2> QED
    BY <1>1, <1>2, <1>6, <2>1, <2>2 DEF Stopped
<1> QED
  BY <1>7, <1>8, <1>9, <1>10, <1>11 DEF RunInv

\* The terminal writes.
LEMMA EmitKeeps ==
  ASSUME RunInv, NEW n \in Chunks, Emit(n)
  PROVE  RunInv'
<1>1. Len(Stream) \in Nat /\ Stream \in Seq(Bytes) /\ sent \in 0..Len(Stream) /\ n \in Nat \ {0}
  BY StreamIs, RunAssumption DEF RunInv, RunTypes
<1>2. /\ shell = "running" /\ sent < Len(Stream)
      /\ sent' = IF link # "up" \/ sent + n > Len(Stream) THEN Len(Stream) ELSE sent + n
      /\ temp' = IF temp = "there" /\ sent' >= RemovedAt THEN "gone" ELSE temp
      /\ UNCHANGED <<command, prog, shell, link, client, slipped>>
  BY DEF Emit
<1>3. sent' \in sent..Len(Stream)
  BY <1>1, <1>2
<1>4. temp' \in {"none", "there", "gone"}
  BY <1>2 DEF RunInv, RunTypes
<1>5. Send(Framings(Message("stdout", SubSeq(Stream, sent + 1, sent'))))
  BY DEF Emit
<1>6. CASE link # "up"
  <2>1. wire' = wire
    BY <1>5, <1>6 DEF Send
  <2>2. link # "ended"
    BY <1>1, <1>2 DEF RunInv, EndedIsAll
  <2> QED
    BY <1>2, <1>3, <1>4, <1>6, <2>1, <2>2, SendingKeeps
<1>7. CASE link = "up"
  <2> DEFINE data == SubSeq(Stream, sent + 1, sent')
             msg == Message("stdout", data)
  <2>1. data \in Seq(Bytes)
    <3> DEFINE k == sent + 1
               e == sent'
    <3>1. k \in Int /\ e \in Int /\ 1 =< k /\ e =< Len(Stream)
      BY <1>1, <1>3
    <3> HIDE DEF k, e
    <3>2. SubSeq(Stream, k, e) \in Seq(Bytes)
      BY <1>1, <3>1, Piece
    <3> QED
      BY <3>2 DEF k, e
  <2>2. msg = Message("stdout", SubSeq(Stream, sent + 1, sent'))
    OBVIOUS
  <2> HIDE DEF data
  <2>3. msg \in Messages
    BY <2>1 DEF Message, Messages
  <2> HIDE DEF msg
  <2>4. Moves(Stream, sent, msg, sent')
    BY <1>1, <1>3, <2>2 DEF Moves
  <2>5. PICK G \in Framings(msg) : wire' = wire \o OnWire(G)
    BY <1>5, <1>7, <2>2 DEF Send
  <2>6. Len(wire') <= MaxWire
    BY <1>5, <1>7 DEF Send
  <2>7. G \in Seq(Frames) /\ \A f : \E h : Carried(Stream, G, sent, f, sent', h)
    BY <2>3, <2>4, FramingsCarry
  <2>8. \E F \in Seq(Frames) : /\ wire' = wire \o OnWire(F)
                               /\ \A f : \E h : Carried(Stream, F, sent, f, sent', h)
    BY <2>5, <2>7
  <2> QED
    BY <1>2, <1>3, <1>4, <1>7, <2>6, <2>8, SendingKeeps
<1> QED
  BY <1>6, <1>7

\* The shell exits.
LEMMA ShellExitsKeeps ==
  ASSUME RunInv, ShellExits
  PROVE  RunInv'
<1> DEFINE msg == Message("disconnect", <<>>)
<1>1. Len(Stream) \in Nat /\ sent \in 0..Len(Stream)
  BY StreamIs DEF RunInv, RunTypes
<1>2. /\ shell = "running" /\ sent = Len(Stream) /\ sent' = sent
      /\ shell' = "exited" /\ temp' = temp
      /\ link' = IF link = "up" THEN "ended" ELSE link
      /\ UNCHANGED <<command, prog, client, slipped>>
  BY DEF ShellExits
<1>3. sent' \in sent..Len(Stream)
  BY <1>1, <1>2
<1>4. temp' \in {"none", "there", "gone"}
  BY <1>2 DEF RunInv, RunTypes
<1>5. Send({Append(frames, CloseFrame) : frames \in Framings(msg)})
  BY DEF ShellExits
<1> HIDE DEF msg
<1>6. CASE link # "up"
  <2>1. wire' = wire
    BY <1>5, <1>6 DEF Send
  <2> QED
    BY <1>2, <1>3, <1>4, <1>6, <2>1, SendingKeeps
<1>7. CASE link = "up"
  <2>1. msg \in Messages
    <3>1. <<>> \in Seq(Bytes)
      BY EmptySeq
    <3> QED
      BY <3>1 DEF msg, Message, Messages
  <2>2. Moves(Stream, sent, msg, sent')
    BY <1>1, <1>2, <1>3 DEF Moves, msg
  <2>3. PICK H \in {Append(frames, CloseFrame) : frames \in Framings(msg)} : wire' = wire \o OnWire(H)
    BY <1>5, <1>7 DEF Send
  <2>4. PICK G \in Framings(msg) : H = Append(G, CloseFrame)
    BY <2>3
  <2>5. Len(wire') <= MaxWire
    BY <1>5, <1>7 DEF Send
  <2>6. G \in Seq(Frames) /\ \A f : \E h : Carried(Stream, G, sent, f, sent', h)
    BY <2>1, <2>2, <2>4, FramingsCarry
  <2>7. CloseFrame \in Frames
    <3>1. <<>> \in Seq(HalvesOfMessages)
      BY EmptySeq
    <3> QED
      BY <3>1 DEF CloseFrame, Frame, Frames
  <2>8. \A h : Carries(Stream, sent', h, CloseFrame, sent', h)
    BY <1>2 DEF Carries, CloseFrame, Frame
  <2>9. H = G \o <<CloseFrame>>
    BY <2>4, <2>6, <2>7, AppendIsConcat
  <2>10. <<CloseFrame>> \in Seq(Frames) /\ \A h : Carried(Stream, <<CloseFrame>>, sent', h, sent', h)
    BY <2>7, <2>8, OneFrame
  <2> DEFINE C == <<CloseFrame>>
  <2> HIDE DEF C
  <2>11. C \in Seq(Frames) /\ \A h : Carried(Stream, C, sent', h, sent', h)
    BY <2>10 DEF C
  <2>12. G \o C \in Seq(Frames)
    BY <2>6, <2>11, ConcatProperties
  <2>13. \A f : \E h : Carried(Stream, G \o C, sent, f, sent', h)
    BY <2>6, <2>11, CarriedOn
  <2>14. \E F \in Seq(Frames) : /\ wire' = wire \o OnWire(F)
                                /\ \A f : \E h : Carried(Stream, F, sent, f, sent', h)
    BY <2>3, <2>9, <2>12, <2>13 DEF C
  <2> QED
    BY <1>2, <1>3, <1>4, <1>7, <2>5, <2>14, SendingKeeps
<1> QED
  BY <1>6, <1>7

\* The connection breaks.
LEMMA CutKeeps ==
  ASSUME RunInv, Cut
  PROVE  RunInv'
<1>1. /\ link \in {"up", "silent"} /\ link' \in {"cut", "failing", "silent"}
      /\ UNCHANGED <<command, prog, temp, shell, sent, step, tries, reader, scan, screen, raised, slipped>>
  BY DEF Cut, server, client
<1>2. PICK n \in 0..Len(wire) : wire' = SubSeq(wire, 1, n)
  BY DEF Cut
<1>3. RunTypes /\ Fresh /\ EndedIsAll /\ Reads /\ Stopped
  BY DEF RunInv
<1>4. Stream' = Stream
  BY <1>1, SameStream
<1>5. wire \in Seq(Cells) /\ reader.buf \in Seq(Cells) /\ Len(wire) <= MaxWire
  BY <1>3 DEF RunTypes
<1>6. wire' \in Seq(Cells) /\ Len(wire') <= MaxWire
  <2>1. SubSeq(wire, 1, n) \in Seq(Cells) /\ Len(SubSeq(wire, 1, n)) = n /\ Len(wire) \in Nat
    BY <1>5, Arrived
  <2> QED
    BY <1>2, <1>5, <2>1, RunAssumption
<1>7. RunTypes'
  BY <1>1, <1>3, <1>4, <1>6 DEF RunTypes, Links
<1>8. Fresh'
  BY <1>1, <1>3 DEF Fresh
<1>9. EndedIsAll'
  BY <1>1 DEF EndedIsAll
<1>10. Reads'
  <2> SUFFICES ASSUME step = "pump" PROVE Reads'
    BY <1>1 DEF Reads
  <2>1. PICK r, b, h : /\ Position(scan, screen, r)
                       /\ Carried(Stream, CompleteFrames(reader.buf \o wire), r, reader.frag, b, h)
    BY <1>3 DEF Reads
  <2>2. scan.done = FALSE /\ reader.closed = FALSE
    BY <1>3 DEF Reads
  <2>3. Position(scan, screen, r)'
    BY <1>1, <1>4, <2>1 DEF Position
  <2>4. PICK c, i : Carried(Stream, CompleteFrames(reader.buf \o wire'), r, reader.frag, c, i)
    BY <1>2, <1>5, <2>1, LossCarries
  <2> QED
    BY <1>1, <1>4, <2>2, <2>3, <2>4 DEF Reads
<1>11. Stopped'
  <2> SUFFICES ASSUME step # "pump" PROVE Stopped'
    BY <1>1 DEF Stopped
  <2>1. PICK r : Position(scan, screen, r)
    BY <1>3 DEF Stopped
  <2>2. Position(scan, screen, r)'
    BY <1>1, <1>4, <2>1 DEF Position
  <2> QED
    BY <1>1, <2>2 DEF Stopped
<1> QED
  BY <1>7, <1>8, <1>9, <1>10, <1>11 DEF RunInv

\* What the client does without reading, connecting or closing.
LEMMA QuietKeeps ==
  ASSUME RunInv, UNCHANGED <<command, prog, sent, link, wire, reader, scan, screen>>,
         temp' \in {"none", "there", "gone"},
         shell' \in {"none", "idle", "running", "exited", "gone"},
         step' \in ClientSteps \ {"pump"}, tries' \in 0..MaxTries,
         raised' \in BOOLEAN, slipped' \subseteq {"temp", "terminal"},
         step' \in {"name", "put", "terminal", "again", "connect"} =>
             /\ step \in {"name", "put", "terminal", "again", "connect"}
             /\ shell' \in {"none", "idle"},
         step' = "close" => step = "pump"
  PROVE  RunInv'
<1>1. Stream' = Stream
  BY SameStream
<1>2. RunTypes /\ Fresh /\ EndedIsAll /\ Reads /\ Stopped
  BY DEF RunInv
<1>3. RunTypes'
  BY <1>1, <1>2 DEF RunTypes
<1>4. Fresh'
  BY <1>2 DEF Fresh
<1>5. EndedIsAll'
  BY <1>1, <1>2 DEF EndedIsAll
<1>6. Reads'
  BY DEF Reads
<1>7. Stopped'
  <2>1. PICK r : Position(scan, screen, r)
    BY <1>2 DEF Reads, Stopped
  <2>2. Position(scan, screen, r)'
    BY <1>1, <2>1 DEF Position
  <2>3. step' = "close" => ~reader'.closed
    BY <1>2 DEF Reads
  <2> QED
    BY <2>2, <2>3 DEF Stopped
<1> QED
  BY <1>3, <1>4, <1>5, <1>6, <1>7 DEF RunInv

\* The client connects, or fails to.
LEMMA ConnectKeeps ==
  ASSUME RunInv, Connect
  PROVE  RunInv'
<1>1. PICK ok \in BOOLEAN :
         /\ link' = IF ok THEN "up" ELSE link
         /\ step' = IF ok THEN "pump" ELSE "endTerminal"
         /\ shell' = IF ok THEN "running" ELSE shell
         /\ raised' = ~ok
  BY DEF Connect, Handshake
<1>2. step = "connect" /\ UNCHANGED <<command, prog, temp, sent, wire, tries, reader, scan, screen, slipped>>
  BY DEF Connect
<1>3. RunTypes /\ Fresh /\ EndedIsAll /\ Reads /\ Stopped
  BY DEF RunInv
<1>4. CASE ok = FALSE
  <2>1. link' = link /\ step' = "endTerminal" /\ shell' = shell /\ raised' = TRUE
    BY <1>1, <1>4
  <2>2. "endTerminal" \in ClientSteps \ {"pump"}
    BY DEF ClientSteps
  <2> QED
    BY <1>2, <1>3, <2>1, <2>2, QuietKeeps DEF RunTypes
<1>5. CASE ok = TRUE
  <2>1. link' = "up" /\ step' = "pump" /\ shell' = "running" /\ raised' = FALSE
    BY <1>1, <1>5
  <2>2. Stream' = Stream
    BY <1>2, SameStream
  <2>3. /\ sent = 0 /\ wire = <<>> /\ reader = NewReader /\ scan = NewScanner /\ screen = <<>>
    BY <1>2, <1>3 DEF Fresh
  <2>4. "pump" \in ClientSteps
    BY DEF ClientSteps
  <2>5. RunTypes'
    BY <1>2, <1>3, <2>1, <2>2, <2>4 DEF RunTypes, Links
  <2>6. Fresh' /\ EndedIsAll' /\ Stopped'
    BY <2>1 DEF Fresh, EndedIsAll, Stopped
  <2>7. Position(scan, screen, 0)'
    <3>1. Position(scan, screen, 0)
      BY <1>3, <2>3, PositionZero DEF RunTypes
    <3> QED
      BY <1>2, <2>2, <3>1 DEF Position
  <2>8. reader'.buf \o wire' = <<>> /\ reader'.frag = <<>> /\ reader'.closed = FALSE
    <3>1. <<>> \o <<>> = <<>>
      BY EmptySeq, ConcatEmptySeq
    <3> QED
      BY <1>2, <2>3, <3>1 DEF NewReader
  <2>9. CompleteFrames(<<>>) = <<>> /\ Whole(<<>>)
    <3>1. <<>> \in Seq(Cells) /\ Len(<<>>) = 0
      BY EmptySeq
    <3>2. 0 \div 2 = 0
      OBVIOUS
    <3>3. CompleteFrames(<<>>) \in Seq(Frames) /\ Len(CompleteFrames(<<>>)) = 0
      BY <3>1, <3>2, FramesOf
    <3>4. CompleteFrames(<<>>) = <<>>
      BY <3>3, EmptySeq
    <3> QED
      BY <3>1, <3>2, <3>4 DEF Whole
  <2>10. Carried(Stream, <<>>, 0, <<>>, 0, <<>>)
    BY NoFrames
  <2>11. scan'.done = FALSE
    BY <1>2, <2>3 DEF NewScanner
  <2>12. Carried(Stream', CompleteFrames(reader'.buf \o wire'), 0, reader'.frag, 0, <<>>)
         /\ Whole(reader'.buf \o wire') /\ sent' = 0
    BY <1>2, <2>2, <2>3, <2>8, <2>9, <2>10
  <2>13. Reads'
    BY <2>7, <2>8, <2>11, <2>12 DEF Reads
  <2> QED
    BY <2>5, <2>6, <2>13 DEF RunInv
<1> QED
  BY <1>4, <1>5

\* The client closes the connection.
LEMMA CloseLinkKeeps ==
  ASSUME RunInv, CloseLink
  PROVE  RunInv'
<1>1. /\ step = "close" /\ step' = "endTerminal" /\ wire' = <<>>
      /\ link' = IF link = "up" THEN "closed" ELSE link
      /\ reader' = [NewReader EXCEPT !.closed = TRUE]
      /\ UNCHANGED <<command, prog, temp, shell, sent, tries, scan, screen, raised, slipped>>
  BY DEF CloseLink, server
<1>2. RunTypes /\ Fresh /\ EndedIsAll /\ Reads /\ Stopped
  BY DEF RunInv
<1>3. Stream' = Stream
  BY <1>1, SameStream
<1>4. RunTypes'
  <2>1. "endTerminal" \in ClientSteps
    BY DEF ClientSteps
  <2>2. <<>> \in Seq(Cells) /\ Len(<<>>) = 0 /\ 0 <= MaxWire
    BY EmptySeq, RunAssumption
  <2>3. reader'.buf = <<>> /\ reader'.closed = TRUE
    BY <1>1 DEF NewReader
  <2>4. link' \in Links
    BY <1>1, <1>2 DEF RunTypes, Links
  <2> QED
    BY <1>1, <1>2, <1>3, <2>1, <2>2, <2>3, <2>4 DEF RunTypes
<1>5. Fresh' /\ Reads'
  BY <1>1 DEF Fresh, Reads
<1>6. EndedIsAll'
  BY <1>1, <1>2, <1>3 DEF EndedIsAll
<1>7. Stopped'
  <2>1. PICK r : Position(scan, screen, r)
    BY <1>1, <1>2 DEF Stopped
  <2>2. Position(scan, screen, r)'
    BY <1>1, <1>3, <2>1 DEF Position
  <2> QED
    BY <1>1, <2>2 DEF Stopped
<1> QED
  BY <1>4, <1>5, <1>6, <1>7 DEF RunInv

\* The client reads.
LEMMA PumpKeeps ==
  ASSUME RunInv, NEW n \in 0..Len(wire), NEW eof \in BOOLEAN, Pump(n, eof)
  PROVE  RunInv'
<1> DEFINE read == ReadMessages(reader, SubSeq(wire, 1, n))
           start == [scan |-> scan, screen |-> screen, ends |-> FALSE]
           pumped == FoldLeft(TakeMessage, start, read.messages)
           new == SubSeq(wire, n + 1, Len(wire))
<1>1. PICK nothing \in {eof, eof /\ link # "failing"},
           pongFails \in {FALSE} \cup {read.pings > 0 /\ link \in {"cut", "failing"}} :
         /\ reader' = ReaderAfter(read.reader, nothing, pongFails)
         /\ scan' = pumped.scan /\ screen' = pumped.screen
         /\ step' = IF pumped.ends \/ reader'.closed THEN "close" ELSE "pump"
  BY DEF Pump
<1>2. /\ step = "pump" /\ (eof => link \notin {"up", "silent"} /\ n = Len(wire)) /\ wire' = new
      /\ UNCHANGED <<command, prog, temp, shell, sent, link, tries, raised, slipped>>
  BY DEF Pump, server
<1>3. RunTypes /\ Fresh /\ EndedIsAll /\ Reads /\ Stopped
  BY DEF RunInv
<1>4. Stream' = Stream
  BY <1>2, SameStream
<1>5. PICK r, b, h : /\ Position(scan, screen, r)
                     /\ Carried(Stream, CompleteFrames(reader.buf \o wire), r, reader.frag, b, h)
                     /\ link \in {"up", "ended"} => b = sent
                     /\ link = "up" => Whole(reader.buf \o wire)
  BY <1>2, <1>3 DEF Reads
<1>6. scan.done = FALSE /\ reader.closed = FALSE
  BY <1>2, <1>3 DEF Reads
<1>7. /\ reader.buf \in Seq(Cells) /\ wire \in Seq(Cells) /\ Len(wire) <= MaxWire
      /\ prog \in Programs /\ command \in Commands
  BY <1>3 DEF RunTypes
<1>8. /\ new \in Seq(Cells) /\ Len(new) = Len(wire) - n /\ Len(wire) \in Nat
      /\ read.reader.buf \in Seq(Cells)
      /\ Whole(reader.buf \o wire) => Whole(read.reader.buf \o new)
      /\ CarriesOn(Stream, read, new, r, b, h)
  BY <1>5, <1>7, ReadCarries
<1> HIDE DEF read, new
<1>9. PICK c, i, got :
         /\ Got(Stream, r, got, c, i)
         /\ read.messages = got.messages
         /\ read.reader = [buf |-> read.reader.buf, frag |-> got.frag, closed |-> got.closed]
         /\ Carried(Stream, CompleteFrames(read.reader.buf \o new), c, i, b, h)
         /\ new = <<>> => c = b
  BY <1>8 DEF CarriesOn
<1>10. PICK e : /\ Told(Stream, got.messages, r, e)
                /\ IF got.closed THEN e = Len(Stream) ELSE e = c /\ got.frag = i
  BY <1>9 DEF Got
<1>11. got.messages \in Seq(Payloads) /\ got.closed \in BOOLEAN
  BY <1>9 DEF Got
<1>12. Pumped(start, r)
  <2>1. start = [scan |-> start.scan, screen |-> start.screen, ends |-> start.ends]
        /\ start.scan = scan /\ start.screen = screen /\ start.ends = FALSE
    OBVIOUS
  <2> HIDE DEF start
  <2> QED
    BY <1>5, <1>6, <2>1 DEF Pumped
<1>13. pumped = MessagesTaken(start, got.messages)
  BY <1>9 DEF MessagesTaken
<1> HIDE DEF start, pumped
<1>14. Pumped(pumped, e)
  BY <1>7, <1>10, <1>11, <1>12, <1>13, PumpingShows
<1>15. PICK x : /\ Position(pumped.scan, pumped.screen, x)
                /\ IF pumped.ends THEN x = Len(Stream) ELSE x = e /\ ~pumped.scan.done
  BY <1>14 DEF Pumped
<1>16. pumped.ends \in BOOLEAN
  BY <1>14 DEF Pumped
<1>17. (pongFails => link \in {"cut", "failing"}) /\ (nothing => eof)
  BY <1>1
<1>18. /\ reader' = [buf |-> read.reader.buf, frag |-> got.frag, closed |-> (got.closed \/ nothing \/ pongFails)]
  BY <1>1, <1>9 DEF ReaderAfter
<1>19. /\ reader'.buf = read.reader.buf /\ reader'.frag = got.frag /\ reader'.closed \in BOOLEAN
       /\ reader'.closed <=> (got.closed \/ nothing \/ pongFails)
  BY <1>18
<1>20. Position(scan, screen, x)'
  <2>1. Position(scan', screen', x)
    BY <1>1, <1>15
  <2> QED
    BY <1>2, <1>4, <2>1 DEF Position
<1>21. RunTypes'
  <2>1. "close" \in ClientSteps /\ "pump" \in ClientSteps
    BY DEF ClientSteps
  <2>2. Len(wire') <= MaxWire
    BY <1>2, <1>7, <1>8, RunAssumption
  <2>3. step' \in ClientSteps
    BY <1>1, <2>1
  <2> QED
    BY <1>2, <1>3, <1>4, <1>8, <1>19, <2>2, <2>3 DEF RunTypes
<1>22. Fresh' /\ EndedIsAll'
  BY <1>1, <1>2, <1>3, <1>4 DEF Fresh, EndedIsAll
<1>23. CASE pumped.ends \/ reader'.closed
  <2>1. step' = "close"
    BY <1>1, <1>23
  <2>2. ASSUME reader'.closed, link \in {"up", "ended"} PROVE x = Len(Stream)
    <3>1. CASE pumped.ends
      BY <1>15, <3>1
    <3>2. CASE ~pumped.ends /\ got.closed
      BY <1>10, <1>15, <3>2
    <3>3. CASE ~pumped.ends /\ ~got.closed
      <4>1. eof
        BY <1>17, <1>19, <2>2, <3>3
      <4>2. n = Len(wire) /\ link = "ended"
        BY <1>2, <2>2, <4>1
      <4>4. n + 1 \in Int /\ Len(wire) \in Int /\ Len(wire) < n + 1
        BY <1>8, <4>2
      <4>5. new = <<>>
        BY <4>4, SubSeqEmpty DEF new
      <4>3. x = c /\ c = b /\ b = sent
        BY <1>5, <1>9, <1>10, <1>15, <3>3, <4>2, <4>5
      <4> QED
        BY <1>3, <4>2, <4>3 DEF EndedIsAll
    <3> QED
      BY <1>11, <1>16, <3>1, <3>2, <3>3
  <2>3. Stopped'
    BY <1>2, <1>4, <1>20, <2>1, <2>2 DEF Stopped
  <2>4. Reads'
    BY <2>1 DEF Reads
  <2> QED
    BY <1>21, <1>22, <2>3, <2>4 DEF RunInv
<1>24. CASE ~(pumped.ends \/ reader'.closed)
  <2>1. step' = "pump" /\ ~pumped.ends /\ reader'.closed = FALSE /\ ~got.closed
    BY <1>1, <1>19, <1>24
  <2>2. x = c /\ ~scan'.done /\ reader'.frag = i
    BY <1>1, <1>10, <1>15, <1>19, <2>1
  <2>3. scan'.done = FALSE
    <3>1. scan' \in Scanner
      BY <1>7, <1>15, <1>1, PositionShows
    <3> QED
      BY <2>2, <3>1 DEF Scanner
  <2>4. Carried(Stream', CompleteFrames(reader'.buf \o wire'), x, reader'.frag, b, h)
    BY <1>2, <1>4, <1>9, <1>19, <2>2
  <2>5. link' = "up" => Whole(reader'.buf \o wire')
    BY <1>2, <1>5, <1>8, <1>19
  <2>6. link' \in {"up", "ended"} => b = sent'
    BY <1>2, <1>5
  <2>7. Reads'
    BY <1>20, <2>1, <2>3, <2>4, <2>5, <2>6 DEF Reads
  <2>8. Stopped'
    BY <2>1 DEF Stopped
  <2> QED
    BY <1>21, <1>22, <2>7, <2>8 DEF RunInv
<1> QED
  BY <1>23, <1>24

\* Every step keeps the invariant.
LEMMA RunStep == RunInv /\ [Next]_vars => RunInv'
<1> SUFFICES ASSUME RunInv, [Next]_vars PROVE RunInv'
  OBVIOUS
<1> USE DEF server, network, client
<1> DEFINE Early == {"name", "put", "terminal", "again", "connect"}
<1>1. RunTypes /\ Fresh
  BY DEF RunInv
<1>2. /\ temp \in {"none", "there", "gone"}
      /\ shell \in {"none", "idle", "running", "exited", "gone"}
      /\ tries \in 0..MaxTries /\ raised \in BOOLEAN /\ slipped \subseteq {"temp", "terminal"}
      /\ MaxTries \in Nat \ {0}
      /\ step \in Early => shell \in {"none", "idle"}
  BY <1>1, RunAssumption DEF RunTypes, Fresh
<1>3. {"put", "name", "done", "terminal", "removeTemp", "connect", "again", "close"} \subseteq ClientSteps \ {"pump"}
  BY DEF ClientSteps
<1>4. CASE PickName
  <2>1. tries' \in 0..MaxTries
    BY <1>2, <1>4 DEF PickName
  <2>2. step = "name" /\ step' \in {"put", "name", "done"} /\ raised' \in BOOLEAN
        /\ UNCHANGED <<command, prog, temp, shell, sent, link, wire, reader, scan, screen, slipped>>
    BY <1>2, <1>4 DEF PickName
  <2> QED
    BY <1>2, <1>3, <2>1, <2>2, QuietKeeps
<1>5. CASE PutTemp
  <2>1. /\ step = "put" /\ step' \in {"terminal", "removeTemp"} /\ raised' \in BOOLEAN
        /\ temp' \in {"none", "there"}
        /\ UNCHANGED <<command, prog, shell, sent, link, wire, tries, reader, scan, screen, slipped>>
    BY <1>2, <1>5 DEF PutTemp
  <2> QED
    BY <1>2, <1>3, <2>1, QuietKeeps
<1>6. CASE CreateTerminal
  <2>1. /\ step \in {"terminal", "again"} /\ step' \in {"connect", "again", "removeTemp", "done"}
        /\ raised' \in BOOLEAN /\ slipped' \subseteq {"temp", "terminal"}
        /\ shell' \in {"none", "idle"}
        /\ UNCHANGED <<command, prog, temp, sent, link, wire, tries, reader, scan, screen>>
    BY <1>2, <1>6 DEF CreateTerminal, NoTerminal
  <2> QED
    BY <1>2, <1>3, <2>1, QuietKeeps
<1>7. CASE Connect
  BY <1>7, ConnectKeeps
<1>8. ASSUME NEW n \in 0..Len(wire), NEW eof \in BOOLEAN, Pump(n, eof) PROVE RunInv'
  BY <1>8, PumpKeeps
<1>9. CASE Interrupt
  <2>1. /\ step = "pump" /\ step' = "close" /\ raised' = TRUE
        /\ UNCHANGED <<command, prog, temp, shell, sent, link, wire, tries, reader, scan, screen, slipped>>
    BY <1>9 DEF Interrupt
  <2> QED
    BY <1>2, <1>3, <2>1, QuietKeeps
<1>10. CASE InputEnds \/ Escape
  <2>1. /\ step = "pump" /\ step' = "close"
        /\ UNCHANGED <<command, prog, temp, shell, sent, link, wire, tries, reader, scan, screen, raised, slipped>>
    BY <1>10 DEF InputEnds, Escape, StopsPumping
  <2> QED
    BY <1>2, <1>3, <2>1, QuietKeeps
<1>11. CASE CloseLink
  BY <1>11, CloseLinkKeeps
<1>12. CASE EndTerminal
  <2>1. /\ step = "endTerminal" /\ step' \in {"removeTemp", "done"}
        /\ raised' \in BOOLEAN /\ slipped' \subseteq {"temp", "terminal"}
        /\ shell' \in {shell, "gone"}
        /\ UNCHANGED <<command, prog, temp, sent, link, wire, tries, reader, scan, screen>>
    BY <1>2, <1>12 DEF EndTerminal
  <2> QED
    BY <1>2, <1>3, <2>1, QuietKeeps
<1>13. CASE RemoveTemp
  <2>1. /\ step = "removeTemp" /\ step' = "done"
        /\ temp' \in {temp, "gone"} /\ slipped' \subseteq {"temp", "terminal"}
        /\ UNCHANGED <<command, prog, shell, sent, link, wire, tries, reader, scan, screen, raised>>
    BY <1>2, <1>13 DEF RemoveTemp
  <2> QED
    BY <1>2, <1>3, <2>1, QuietKeeps
<1>14. ASSUME NEW n \in Chunks, Emit(n) PROVE RunInv'
  BY <1>14, EmitKeeps
<1>15. CASE ShellExits
  BY <1>15, ShellExitsKeeps
<1>16. CASE Cut
  BY <1>16, CutKeeps
<1>17. CASE UNCHANGED vars
  <2>1. UNCHANGED <<command, prog, temp, shell, sent, link, wire, step, tries, reader, scan, screen, raised, slipped>>
    BY <1>17 DEF vars
  <2>2. Stream' = Stream
    BY <2>1, SameStream
  <2> QED
    BY <2>1, <2>2 DEF RunInv, RunTypes, Fresh, EndedIsAll, Reads, Stopped, Position
<1> QED
  BY <1>4, <1>5, <1>6, <1>7, <1>8, <1>9, <1>10, <1>11, <1>12, <1>13, <1>14, <1>15, <1>16, <1>17
     DEF Next, Shell, Client

\* The invariant always holds.
LEMMA RunAlways == Spec => []RunInv
  BY RunInit, RunStep, PTL DEF Spec

\* Every variable stays in its type (JpRun's state).
THEOREM RunTypeOK == Spec => []TypeOK
  BY RunAlways, RunSafe, PTL

\* However the terminal's output is cut into messages, frames and arrivals,
\* jp run shows a beginning of the program's output and nothing of the prompt
\* or the markers, all of it with the right status once the end marker is
\* found; jp terminal shows a beginning of all the output (RunScanner.feed,
\* read_messages, _pump).
THEOREM ScreenShowsOutput == Spec => []ScreenIsOutput
  BY RunAlways, RunSafe, PTL

\* If the connection was closed by the server and nobody interfered, the whole
\* output has been shown and jp run has the program's exit status.
THEOREM HeldShowsAll == Spec => []AllShownWhenHeld
  BY RunAlways, RunSafe, PTL
=============================================================================
