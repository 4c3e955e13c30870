----------------------------- MODULE MCHistory -----------------------------
(* Two evaluation ids, the first with two contents, for TLC.                 *)
EXTENDS History

CONSTANTS a, b

TwoIds == {1, 2}
SecondId == {2}
ThreeBundles == {[id |-> 1, content |-> a], [id |-> 1, content |-> b], [id |-> 2, content |-> a]}
=============================================================================
