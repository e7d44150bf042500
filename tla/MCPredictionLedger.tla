------------------------- MODULE MCPredictionLedger ------------------------
(* Small instances of PredictionLedger. *)
EXTENDS PredictionLedger, TLC

CONSTANTS M1, M2

\* An away handicap on a negative quarter line, an over on a quarter line and a
\* BTTS bet on the first match: the rows the file came with.
OldFile == << [match |-> M1, market |-> "AH", side |-> "away", line |-> -3],
              [match |-> M1, market |-> "OU", side |-> "over", line |-> 9],
              [match |-> M1, market |-> "BTTS", side |-> "yes", line |-> 0] >>

OneLine == { [match |-> M2, market |-> "AH", side |-> "home", line |-> -2] }

\* Away wins by one (spelled as in the selection or not), by none and by two.
SomeResults ==
    { [match |-> M1, home |-> 1, away |-> 2, spelled |-> TRUE],
      [match |-> M1, home |-> 1, away |-> 2, spelled |-> FALSE],
      [match |-> M1, home |-> 1, away |-> 1, spelled |-> TRUE],
      [match |-> M1, home |-> 0, away |-> 2, spelled |-> TRUE],
      [match |-> M2, home |-> 2, away |-> 0, spelled |-> TRUE] }

OneResultEach ==
    { [match |-> M1, home |-> 1, away |-> 2, spelled |-> TRUE],
      [match |-> M2, home |-> 2, away |-> 0, spelled |-> TRUE] }

CycleSymmetry == Permutations(Cycles)
=============================================================================
