--------------------------- MODULE MCQuotaLedger ---------------------------
(***************************************************************************)
(* Small instances of QuotaLedger, scaled down from a 250-request plan     *)
(* with a reserve of 50 and a floor of 25: a limit of 10 and a reserve of  *)
(* 5 leave a ceiling of 5 units, which three reservations of 2 overrun.    *)
(***************************************************************************)
EXTENDS QuotaLedger
=============================================================================
