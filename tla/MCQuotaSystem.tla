--------------------------- MODULE MCQuotaSystem ---------------------------
(***************************************************************************)
(* Small instances of QuotaSystem: an odds job (one unit), a fixtures job  *)
(* (two units) and two instances, on a plan whose ceiling of 5 units the   *)
(* jobs cannot both stay below when 3 units are used up at the start.      *)
(***************************************************************************)
EXTENDS QuotaSystem, TLC

\* Instances are interchangeable in every safety property; so are the cycles,
\* which are only compared for equality, and jobs that are all of one kind.
InstanceSymmetry == Permutations(Instances)
JobSymmetry      == Permutations(Keys)
FullSymmetry     == Permutations(Instances) \cup Permutations(Cycles)
=============================================================================
