---------------------------- MODULE QuotaBudget ----------------------------
(***************************************************************************)
(* What the quota ledger promises its callers within one subscription      *)
(* cycle, without rows, keys, statuses or counters: a budget of units.     *)
(* Units are held before a request is sent and later either spent or given *)
(* back; units are only ever handed out while everything spent and held    *)
(* stays below the cap; what was spent is never forgotten.                 *)
(***************************************************************************)
EXTENDS Naturals

VARIABLES
    held,    \* units handed out and not settled yet
    spent,   \* units known to be charged to the account
    cap      \* what spent and held together may reach by handing out units

budgetVars == <<held, spent, cap>>

BudgetInit ==
    /\ held = 0
    /\ spent \in Nat
    /\ cap \in Nat

\* Hand out units; the caller may at most tighten the cap.
Hold ==
    /\ held' > held
    /\ cap' <= cap
    /\ spent + held' <= cap'
    /\ UNCHANGED spent

\* Units handed out are spent or given back; nothing else is spent.
Settle ==
    /\ held' < held
    /\ spent' >= spent
    /\ spent' - spent <= held - held'
    /\ UNCHANGED cap

\* The provider reports usage or another plan; spending is only ever raised.
Learn ==
    /\ spent' >= spent
    /\ cap' \in Nat
    /\ UNCHANGED held

BudgetNext == Hold \/ Settle \/ Learn

BudgetSpec == BudgetInit /\ [][BudgetNext]_budgetVars
=============================================================================
