----------------------------- MODULE MCFraming -----------------------------
(* An instance of Framing for TLC.  The texts hold whole boundaries, parts *)
(* of one and underscores; the files hold 0, 255 and a boundary.  The      *)
(* longest text without a boundary fills the receiver's buffer to the last *)
(* byte, the longest file exceeds it.  The last two texts bring the        *)
(* receiver out of step and then fill its boundary with an underscore, and *)
(* with the byte after one.                                                *)
EXTENDS Framing

SomeTexts ==
  {<< >>, <<95>>, <<45, 49, 95>>, <<45, 49, 95, 95>>, <<95, 45, 50, 95, 95, 49>>,
   <<49, 49, 49, 49, 49, 49, 49>>, <<49, 49, 49, 49, 49, 49, 49, 49>>,
   <<125, 45, 49, 95, 95, 49, 49, 49, 95>>, <<125, 45, 49, 95, 95, 49, 49, 49, 49, 95>>}
SomeFiles == {<< >>, <<0, 7>>, <<45, 49>>, <<255>>, <<45, 49, 95, 95>>}
SomeReplies == {<<49>>, <<48, 48, 55>>, <<45, 50, 95, 95>>}
SomeLeftovers == {<< >>, <<49>>}
TwoMarks == {49, 50}
=============================================================================
