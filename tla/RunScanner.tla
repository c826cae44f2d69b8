----------------------------- MODULE RunScanner -----------------------------
(***************************************************************************)
(* RunScanner (src/jp/pty.py): what jp run shows of the terminal's output. *)
(* Everything before the start marker is dropped, everything from there to *)
(* the end marker is shown, and the end marker carries the exit status.    *)
(* The output comes in pieces cut anywhere.                                *)
(*                                                                         *)
(* A byte is a symbol: "e" is ESC, "j" stands for "_jp" and the token of   *)
(* the run, "b" for the backslash that ends a marker, and the rest is text.*)
(***************************************************************************)
EXTENDS Integers, Sequences, FiniteSets, SequencesExt

CONSTANT Bytes   \* the symbols: those of the markers, and the text

Digits == {"0", "1"}
ASSUME BytesAssumption == Digits \cup {"-", "e", "j", "b", "C", "D"} \subseteq Bytes

StartMarker == <<"e", "j", "C", "e", "b">>
EndPrefix == <<"e", "j", "D">>
EndMarker(code) == EndPrefix \o code \o <<"e", "b">>

\* The least of these is what find() returns.
Occurrences(marker, buf) ==
    {i \in 1..(Len(buf) - Len(marker) + 1) : SubSeq(buf, i, i + Len(marker) - 1) = marker}

From(buf, i) == SubSeq(buf, i, Len(buf))

\* The longest suffix that a marker could begin with.
SuffixPrefixOf(buf, marker) ==
    LET lengths == {k \in 0..(Len(marker) - 1) :
                        k <= Len(buf) /\ From(buf, Len(buf) - k + 1) = SubSeq(marker, 1, k)}
    IN  SubSeq(marker, 1, Max(lengths))

MinusDigits(s) == \A d \in DOMAIN s : s[d] \in Digits \/ (d = 1 /\ s[d] = "-")
ExitStatus(s) == MinusDigits(s) /\ s \notin {<<>>, <<"-">>}

\* The complete end markers: where each begins, and its exit status.
EndMarkers(buf) ==
    {m \in [at: Occurrences(EndPrefix, buf), last: 1..(Len(buf) - 2)] :
        /\ ExitStatus(SubSeq(buf, m.at + Len(EndPrefix), m.last))
        /\ SubSeq(buf, m.last + 1, m.last + 2) = <<"e", "b">>}

\* An exit status that may go on, and perhaps the ESC of the terminator.
EndTail(rest) ==
    \/ MinusDigits(rest)
    \/ rest # <<>> /\ MinusDigits(Front(rest)) /\ rest[Len(rest)] = "e"

\* Mutant: a marker is held back only until its prefix is complete.
HoldbackPrefixOnly(buf) == Len(SuffixPrefixOf(buf, EndPrefix))
\* How many bytes at the end may belong to an end marker that is not complete.
EndHoldback(buf) ==
    LET begun == Occurrences(EndPrefix, buf)
        partial == Len(SuffixPrefixOf(buf, EndPrefix))
    IN  IF begun # {} /\ EndTail(From(buf, Max(begun) + Len(EndPrefix)))
        THEN Len(buf) - Max(begun) + 1
        ELSE partial

NewScanner == [streaming |-> FALSE, buf |-> <<>>, done |-> FALSE, code |-> <<>>]
Scanner == [streaming: BOOLEAN, buf: Seq(Bytes), done: BOOLEAN, code: Seq(Digits \cup {"-"})]

\* feed: the scanner after one more piece, and what of it is shown.
Feed(scan, data, clearSeq) ==
    LET all == scan.buf \o data
        starts == Occurrences(StartMarker, all)
        shown == IF scan.streaming THEN all ELSE From(all, Min(starts) + Len(StartMarker))
        clear == IF scan.streaming THEN <<>> ELSE clearSeq
        ends == EndMarkers(shown)
        end == CHOOSE m \in ends : \A n \in ends : m.at <= n.at
        hold == EndHoldback(shown)
    IN  IF ~scan.streaming /\ starts = {}
        THEN [scan |-> [scan EXCEPT !.buf = SuffixPrefixOf(all, StartMarker)], out |-> <<>>]
        ELSE IF ends # {}
        THEN [scan |-> [streaming |-> TRUE, buf |-> <<>>, done |-> TRUE,
                        code |-> SubSeq(shown, end.at + Len(EndPrefix), end.last)],
              out |-> clear \o SubSeq(shown, 1, end.at - 1)]
        ELSE [scan |-> [scan EXCEPT !.streaming = TRUE, !.buf = From(shown, Len(shown) - hold + 1)],
              out |-> clear \o SubSeq(shown, 1, Len(shown) - hold)]
=============================================================================
