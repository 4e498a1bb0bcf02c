-------------------------- MODULE MCSpeedTestMain --------------------------
(* Instances of SpeedTestMain for TLC: plain text, a second blank line at   *)
(* the end of the body, a NUL right behind the header, and both, the blank  *)
(* line sharing a byte with the header's.                                   *)
EXTENDS SpeedTestMain

MCContents ==
  {[blanks |-> {}, nuls |-> {}], [blanks |-> {6}, nuls |-> {}],
   [blanks |-> {}, nuls |-> {4}], [blanks |-> {4}, nuls |-> {6}]}
=============================================================================
