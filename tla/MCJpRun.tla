------------------------------- MODULE MCJpRun -------------------------------
(* JpRun for TLC. *)
EXTENDS JpRun

\* What may look like a marker: a lone ESC, an echoed marker, digits, a
\* backslash; the token never follows an ESC but in a real marker.
Before == {<<"j", "C", "e">>}
Outputs == {<<"x", "e">>, <<"e", "b", "e">>}
Codes == {<<"1", "0">>}
SmallPrograms == [before: Before, out: Outputs, code: Codes]
ClearLine == <<"K">>
=============================================================================
