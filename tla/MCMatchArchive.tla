---------------------------- MODULE MCMatchArchive ----------------------------
(* One fixture that may move to another day once, and one sync beside the      *)
(* ingestions and the operator.                                                *)
EXTENDS MatchArchive

CONSTANTS f1, s1

SmallFixtures == {f1}
SmallSyncs == {s1}
=============================================================================
