------------------------------ MODULE MCBudgets ------------------------------
(* Budgets for TLC, in four deployments: an organisation that pays in        *)
(* advance and has credit for one request; one without credit that tops up   *)
(* twice; and, over two days, one with a daily limit of one request and one  *)
(* with a budget of one.                                                     *)
EXTENDS Budgets

CONSTANTS r1, r2

TwoRequests == {r1, r2}

PaysAhead ==
  [prepaid |-> TRUE, invoiced |-> FALSE, budget |-> 0, quota |-> 0, credit |-> 1, maxHold |-> 1,
   maxHook |-> 1, maxCost |-> 2, topUp |-> 1, maxTopUps |-> 0, maxPeriod |-> 1, maxServed |-> 2]
TopsUp == [PaysAhead EXCEPT !.credit = 0, !.maxCost = 1, !.maxTopUps = 2, !.maxServed = 1]
Limited ==
  [prepaid |-> FALSE, invoiced |-> FALSE, budget |-> 0, quota |-> 1, credit |-> 1, maxHold |-> 0,
   maxHook |-> 0, maxCost |-> 0, topUp |-> 1, maxTopUps |-> 0, maxPeriod |-> 2, maxServed |-> 2]
Budgeted == [Limited EXCEPT !.budget = 1, !.quota = 0, !.maxHook = 1, !.maxCost = 1, !.maxServed = 1]

MCDeployments == {PaysAhead, TopsUp, Limited, Budgeted}
=============================================================================
