---------------------------- MODULE MCActivation ----------------------------
(***************************************************************************)
(* A cron run and a manual one on an instance that may restart once; a     *)
(* league with two proven markets, the English one that needs no proof,    *)
(* and one without a baseline; the lock lasts two ticks of a minute, a     *)
(* cron run one.                                                           *)
(***************************************************************************)
EXTENDS Activation

CONSTANTS c1, m1

MCCrons == {c1}
MCManuals == {m1}
MCLeagues == {"ESP", "ENG-PL", "IDN-L1"}
MCPaused == {"IDN-L1"}
MCProven == {<<"ESP", "AH">>, <<"ESP", "OU">>}
MCBatch == [l \in MCLeagues |-> 1]
=============================================================================
