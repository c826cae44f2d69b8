------------------------------- MODULE MCPaths -------------------------------
(* Paths for TLC.                                                           *)
EXTENDS Paths

S(name) == Segment(0, name, {})
SomeSegments ==
    {Empty, Dot, DotDot, Blank, S("me"), S("shared"), S("con"), S("c:"), S("l"),
     Segment(0, "me", {"before"}), Segment(0, "me", {"after"}), Segment(0, "me", {"nfd"}),
     Segment(2, "", {"before"}), Segment(1, "me", {"before", "after"}),
     Segment(1, "me", {}), Segment(2, "me", {}), Segment(3, "", {}),
     Alias(1, 0, "me", {}), Alias(2, 0, "", {}), Alias(1, 0, "shared", {}), Alias(1, 0, "me", {"before"})}
SomePrefixes ==
    {<<S("me")>>, <<Empty, S("me"), Dot, S("con"), Empty>>, <<S("l"), DotDot, S("me")>>,
     <<DotDot, S("me")>>, <<S("me"), S("shared")>>, <<S("me"), DotDot>>, <<Segment(1, "me", {})>>,
     <<Empty>>, <<Alias(1, 0, "shared", {})>>, <<Segment(0, "me", {"before"}), S("con"), Blank>>,
     <<Segment(0, "me", {"nfd"})>>}
=============================================================================
