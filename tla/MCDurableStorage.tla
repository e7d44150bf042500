-------------------------- MODULE MCDurableStorage --------------------------
(***************************************************************************)
(* One match with two handicap lines, which share a slot of daily_picks,   *)
(* a total and the BTTS position; two runs that overlap on an instance,    *)
(* which may restart once.                                                 *)
(***************************************************************************)
EXTENDS DurableStorage, TLC

CONSTANTS r1, r2, i1

MCRuns == {r1, r2}
MCInstances == {i1}
MCKeys == {[match |-> "m", market |-> "AH", line |-> l] : l \in {1, 2}}
          \cup {[match |-> "m", market |-> "OU", line |-> 10],
                [match |-> "m", market |-> "BTTS", line |-> 0]}

Symmetric == Permutations(MCRuns)
=============================================================================
