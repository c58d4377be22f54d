------------------------------- MODULE Budgets -------------------------------
(***************************************************************************)
(* The gateway's in-memory view of spend and credit, and the requests that *)
(* use it: internal/registry/budget.go, the accounting steps of            *)
(* internal/gateway/serve.go, refuse.go and credit.go, and the reconcile   *)
(* loop of internal/registry/registry.go.                                  *)
(*                                                                         *)
(* One replica serves concurrent requests of one organisation.  Its key    *)
(* has one budget, in money, and one daily limit, in requests; its models  *)
(* are billed to its credit.  Each call into Budgets takes the lock for    *)
(* itself, so requests, the usage writer and the reconcilers interleave    *)
(* between any two of them.                                                *)
(***************************************************************************)
EXTENDS Integers, FiniteSets, FiniteSetsExt

CONSTANTS
  Requests,
  Deployments  \* the deployments looked at, see deploy

VARIABLES
  deploy,     \* the deployment and its bounds, which no step changes
  period,     \* Period.Start(time.Now())
  w,          \* Budgets.w: the windows of the money and of the request scope
  running,    \* Budgets.running, of the request scope
  balance,    \* Budgets.credit: the local view of the balance
  held,       \* Budgets.held
  pc,         \* where each request is
  ts,         \* trace.start: the period it arrived in
  now,        \* call.now: the period its limits were checked in
  hold,       \* call.held
  hook,       \* what its filters and routers spent
  cost,       \* what its usage row costs in all
  scoped,     \* the requests whose scopes include the request scope
  buffer,     \* the rows in the usage recorder
  landed,     \* the rows written
  spend,      \* the spend table, by scope and period
  account,    \* credit_accounts.balance_micros
  topUps,     \* the payments that came in
  turn,       \* what keepSpend refreshes next
  spendSnap,  \* what LoadSpend read, on its way to reconcile
  creditSnap, \* what LoadCredit read, for each of the two that call it
  gap,        \* the most any one reconcile of the credit forgot (history)
  beyond      \* what requests cost beyond their holds, since the last hold (history)

local == <<w, running, balance, held>>
calls == <<pc, ts, now, hold, hook, cost, scoped>>
db    == <<buffer, landed, spend, account, topUps>>
snaps == <<turn, spendSnap, creditSnap, gap>>
vars  == <<period, local, calls, db, snaps, beyond>>

Prepaid   == deploy.prepaid    \* organisations pay in advance (Options.Prepaid)
Invoiced  == deploy.invoiced   \* this one is billed by invoice
Budget    == deploy.budget     \* BudgetMicros of the money scope, 0 for none
Quota     == deploy.quota      \* Quota of the request scope, 0 for none
Credit    == deploy.credit     \* the organisation's balance at the start
MaxHold   == deploy.maxHold    \* creditHold: what one request holds, which it may exceed
MaxHook   == deploy.maxHook    \* bound: the most the hooks of one request spend
MaxCost   == deploy.maxCost    \* bound: the most one request costs in all
TopUp     == deploy.topUp      \* what one payment adds
MaxTopUps == deploy.maxTopUps  \* bound: how many payments come in
MaxServed == deploy.maxServed  \* bound: how many requests come in
MaxPeriod == deploy.maxPeriod  \* bound: the last period (day) the run sees

ASSUME BudgetsAssumption ==
  /\ IsFiniteSet(Requests)
  /\ \A d \in Deployments :
       /\ d.prepaid \in BOOLEAN /\ d.invoiced \in BOOLEAN
       /\ d.budget \in Nat /\ d.quota \in Nat /\ d.credit \in Int
       /\ d.maxHold \in Nat /\ d.maxHook \in Nat /\ d.maxCost \in Nat /\ d.maxHook <= d.maxCost
       /\ d.topUp \in Nat /\ d.maxTopUps \in Nat /\ d.maxServed \in Nat
       /\ d.maxPeriod \in Nat \ {0}

Periods     == 1..MaxPeriod
Scopes      == {"money", "requests"}
NoWindow    == [start |-> 0, n |-> 0]
None        == [none |-> TRUE]
Reconcilers == {"keepSpend", "payment"}

Init ==
  /\ deploy \in Deployments
  /\ period = 1
  /\ w = [s \in Scopes |-> NoWindow]
  /\ running = NoWindow
  /\ balance = Credit
  /\ held = 0
  /\ pc = [r \in Requests |-> "idle"]
  /\ ts = [r \in Requests |-> 0]
  /\ now = [r \in Requests |-> 0]
  /\ hold = [r \in Requests |-> 0]
  /\ hook = [r \in Requests |-> 0]
  /\ cost = [r \in Requests |-> 0]
  /\ scoped = {}
  /\ buffer = {}
  /\ landed = {}
  /\ spend = [s \in Scopes |-> [p \in Periods |-> 0]]
  /\ account = Credit
  /\ topUps = 0
  /\ turn = "spend"
  /\ spendSnap = None
  /\ creditSnap = [c \in Reconcilers |-> None]
  /\ gap = 0
  /\ beyond = 0

-----------------------------------------------------------------------------
(* The windows.                                                            *)

\* add: a later window is left alone, an older one replaced.
AddWindow(win, start, n) ==
  CASE win.start > start -> win
    [] win.start < start -> [start |-> start, n |-> n]
    [] OTHER -> [win EXCEPT !.n = @ + n]

\* spent: the open window's figure and the requests running in it.
InWindow(win, start) == IF win.start = start THEN win.n ELSE 0
Spent(s, start) ==
  InWindow(w[s], start) + IF s = "requests" THEN InWindow(running, start) ELSE 0

\* Charge: the money scope only.
Charge(r, micros) == w' = [w EXCEPT !["money"] = AddWindow(@, now[r], micros)]

-----------------------------------------------------------------------------
(* A request.  Each action is what it does between two locks.              *)

Go(r, to) == pc' = [pc EXCEPT ![r] = to]

\* The request arrives, and its trace starts.
Arrive(r) ==
  /\ pc[r] = "idle"
  /\ Cardinality({q \in Requests : pc[q] # "idle"}) < MaxServed
  /\ ts' = [ts EXCEPT ![r] = period]
  /\ Go(r, "receive")
  /\ UNCHANGED <<period, local, now, hold, hook, cost, scoped, db, snaps, beyond>>

\* The body is read and decoded; admit starts the clock of the limits.
Receive(r) ==
  /\ pc[r] = "receive"
  /\ now' = [now EXCEPT ![r] = period]
  /\ Go(r, "quotas")
  /\ UNCHANGED <<period, local, ts, hold, hook, cost, scoped, db, snaps, beyond>>

\* The client leaves during the upload: there is no row.
Abandon(r) ==
  /\ pc[r] = "receive"
  /\ Go(r, "done")
  /\ UNCHANGED <<period, local, ts, now, hold, hook, cost, scoped, db, snaps, beyond>>

\* Refused for the body, the model, a charge due, a filter's location, the
\* rates, or by a router or filter later on; or the client hung up.  The row
\* carries what routers and filters spent.
Refuse(r) ==
  /\ pc[r] \in {"receive", "quotas", "hold", "budgets", "started"}
  /\ cost' = [cost EXCEPT ![r] = hook[r]]
  /\ Go(r, "record")
  /\ UNCHANGED <<period, local, ts, now, hold, hook, scoped, db, snaps, beyond>>

\* checkQuotas.
CheckQuotas(r) ==
  /\ pc[r] = "quotas"
  /\ Quota = 0 \/ Spent("requests", now[r]) < Quota
  /\ Go(r, "hold")
  /\ UNCHANGED <<period, local, ts, now, hold, hook, cost, scoped, db, snaps, beyond>>

QuotaExceeded(r) ==
  /\ pc[r] = "quotas"
  /\ Quota > 0 /\ Spent("requests", now[r]) >= Quota
  /\ Go(r, "record")
  /\ UNCHANGED <<period, local, ts, now, hold, hook, cost, scoped, db, snaps, beyond>>

\* A bug: what other running requests hold is not looked at.
HoldCreditBlind(r) ==
  /\ pc[r] = "hold"
  /\ Prepaid /\ ~Invoiced
  /\ balance > 0
  /\ held' = held + MaxHold
  /\ hold' = [hold EXCEPT ![r] = MaxHold]
  /\ beyond' = 0
  /\ Go(r, "budgets")
  /\ UNCHANGED <<period, w, running, balance, ts, now, hook, cost, scoped, db, snaps>>

\* HoldCredit, for a request on a billed model.
HoldCredit(r) ==
  /\ pc[r] = "hold"
  /\ Prepaid /\ ~Invoiced
  /\ balance - held > 0
  /\ held' = held + MaxHold
  /\ hold' = [hold EXCEPT ![r] = MaxHold]
  /\ beyond' = 0
  /\ Go(r, "budgets")
  /\ UNCHANGED <<period, w, running, balance, ts, now, hook, cost, scoped, db, snaps>>

NoCredit(r) ==
  /\ pc[r] = "hold"
  /\ Prepaid /\ ~Invoiced
  /\ balance - held <= 0
  /\ Go(r, "record")
  /\ UNCHANGED <<period, local, ts, now, hold, hook, cost, scoped, db, snaps, beyond>>

\* Without payments, or on an invoice, nothing is held.
HoldNothing(r) ==
  /\ pc[r] = "hold"
  /\ ~Prepaid \/ Invoiced
  /\ Go(r, "budgets")
  /\ UNCHANGED <<period, local, ts, now, hold, hook, cost, scoped, db, snaps, beyond>>

\* checkBudgets.  The last check before the request starts.
CheckBudgets(r) ==
  /\ pc[r] = "budgets"
  /\ IF Budget > 0 /\ Spent("money", now[r]) >= Budget
     THEN Go(r, "record")
     ELSE Go(r, "start")
  /\ UNCHANGED <<period, local, ts, now, hold, hook, cost, scoped, db, snaps, beyond>>

\* StartRequest.  From here on the row names the request scope.
StartRequest(r) ==
  /\ pc[r] = "start"
  /\ running' = AddWindow(running, now[r], 1)
  /\ scoped' = scoped \cup {r}
  /\ Go(r, "started")
  /\ UNCHANGED <<period, w, balance, held, ts, now, hold, hook, cost, db, snaps, beyond>>

\* useRoute and runFilters charge what they spend at once.
HookSpends(r) ==
  /\ pc[r] = "started"
  /\ hook[r] < MaxHook
  /\ hook' = [hook EXCEPT ![r] = @ + 1]
  /\ Charge(r, 1)
  /\ UNCHANGED <<period, running, balance, held, pc, ts, now, hold, cost, scoped, db, snaps, beyond>>

\* finish: the answer's cost is charged, and joins the hooks' on the row.  A
\* request without an output ceiling may cost more than it holds.
Finish(r) ==
  /\ pc[r] = "started"
  /\ \E c \in 0..(MaxCost - hook[r]) :
       /\ Charge(r, c)
       /\ cost' = [cost EXCEPT ![r] = hook[r] + c]
  /\ Go(r, "record")
  /\ UNCHANGED <<period, running, balance, held, ts, now, hold, hook, scoped, db, snaps, beyond>>

\* record: ChargeCredit ...
ChargeCredit(r) ==
  /\ pc[r] = "record"
  /\ balance' = IF Prepaid THEN balance - cost[r] ELSE balance
  /\ beyond' = beyond + (IF cost[r] > hold[r] THEN cost[r] - hold[r] ELSE 0)
  /\ Go(r, "sink")
  /\ UNCHANGED <<period, w, running, held, ts, now, hold, hook, cost, scoped, db, snaps>>

\* ... and then the row goes to the recorder, or is dropped there.
Record(r) ==
  /\ pc[r] = "sink"
  /\ \/ buffer' = buffer \cup {r}
     \/ UNCHANGED buffer
  /\ Go(r, "end")
  /\ UNCHANGED <<period, local, ts, now, hold, hook, cost, scoped, landed, spend, account,
                 topUps, snaps, beyond>>

\* A bug: a request that ends in a window that was replaced takes one off the
\* new window's count.
EndRequestAnyWindow(r) ==
  /\ pc[r] = "end"
  /\ IF r \in scoped
     THEN /\ running' = IF running.n > 1 THEN [running EXCEPT !.n = @ - 1] ELSE NoWindow
          /\ w' = [w EXCEPT !["requests"] = AddWindow(@, now[r], 1)]
     ELSE UNCHANGED <<running, w>>
  /\ Go(r, "release")
  /\ UNCHANGED <<period, balance, held, ts, now, hold, hook, cost, scoped, db, snaps, beyond>>

\* EndRequest, deferred: from running into the windows, while running still
\* counts the window the request started in.
EndRequest(r) ==
  /\ pc[r] = "end"
  /\ IF r \in scoped
     THEN /\ running' = IF running.start # now[r] THEN running
                        ELSE IF running.n > 1 THEN [running EXCEPT !.n = @ - 1]
                        ELSE NoWindow
          /\ w' = [w EXCEPT !["requests"] = AddWindow(@, now[r], 1)]
     ELSE UNCHANGED <<running, w>>
  /\ Go(r, "release")
  /\ UNCHANGED <<period, balance, held, ts, now, hold, hook, cost, scoped, db, snaps, beyond>>

\* ReleaseCredit, deferred: the last thing a request does.
ReleaseCredit(r) ==
  /\ pc[r] = "release"
  /\ held' = IF held > hold[r] THEN held - hold[r] ELSE 0
  /\ Go(r, "done")
  /\ UNCHANGED <<period, w, running, balance, ts, now, hold, hook, cost, scoped, db, snaps, beyond>>

Serve(r) ==
  \/ Receive(r) \/ Abandon(r) \/ Refuse(r)
  \/ CheckQuotas(r) \/ QuotaExceeded(r)
  \/ HoldCredit(r) \/ NoCredit(r) \/ HoldNothing(r)
  \/ CheckBudgets(r) \/ StartRequest(r) \/ HookSpends(r) \/ Finish(r)
  \/ ChargeCredit(r) \/ Record(r) \/ EndRequest(r) \/ ReleaseCredit(r)

-----------------------------------------------------------------------------
(* The usage writer, payments and time.                                    *)

\* What writeBatch adds for one row: its cost, and one request for a row that
\* names the request scope, in the window of the row's timestamp.
AddSpend(r) ==
  spend' = [spend EXCEPT
              !["money"][ts[r]] = @ + cost[r],
              !["requests"][ts[r]] = @ + IF r \in scoped THEN 1 ELSE 0]

\* The recorder writes a row, in one transaction with the credit ...
Write(r) ==
  /\ r \in buffer
  /\ buffer' = buffer \ {r}
  /\ landed' = landed \cup {r}
  /\ AddSpend(r)
  /\ account' = account - cost[r]
  /\ UNCHANGED <<period, local, calls, topUps, snaps, beyond>>

\* ... or loses it.
Lose(r) ==
  /\ r \in buffer
  /\ buffer' = buffer \ {r}
  /\ UNCHANGED <<period, local, calls, landed, spend, account, topUps, snaps, beyond>>

\* A payment is settled.
Pay ==
  /\ topUps < MaxTopUps
  /\ topUps' = topUps + 1
  /\ account' = account + TopUp
  /\ UNCHANGED <<period, local, calls, buffer, landed, spend, snaps, beyond>>

NextPeriod ==
  /\ period < MaxPeriod
  /\ period' = period + 1
  /\ UNCHANGED <<local, calls, db, snaps, beyond>>

-----------------------------------------------------------------------------
(* The reconcilers: keepSpend every few seconds, and the control plane as  *)
(* a payment comes in.                                                     *)

\* refreshSpend reads the open windows ...
LoadSpend ==
  /\ turn = "spend" /\ spendSnap = None
  /\ spendSnap' = [s \in Scopes |-> [start |-> period, n |-> spend[s][period]]]
  /\ UNCHANGED <<period, local, calls, db, turn, creditSnap, gap, beyond>>

AfterSpend == turn' = IF Prepaid THEN "credit" ELSE "spend"

\* A bug: the database's figure is added to the charges made since the last.
ReconcileAdding ==
  /\ spendSnap # None
  /\ w' = [s \in Scopes |-> AddWindow(w[s], spendSnap[s].start, spendSnap[s].n)]
  /\ spendSnap' = None
  /\ AfterSpend
  /\ UNCHANGED <<period, running, balance, held, calls, db, creditSnap, gap, beyond>>

\* ... replaces every window with them, and goes on to the credit.
Reconcile ==
  /\ spendSnap # None
  /\ w' = spendSnap
  /\ spendSnap' = None
  /\ AfterSpend
  /\ UNCHANGED <<period, running, balance, held, calls, db, creditSnap, gap, beyond>>

\* What the rows of these requests cost together.
CostOf(rs) == SumFunction([r \in Requests |-> IF r \in rs THEN cost[r] ELSE 0])

\* The charges made here that are on their way to the database.
OnWay == {r \in Requests : pc[r] = "sink"} \cup buffer

\* RefreshCredit reads the balance ...
LoadCredit(c) ==
  /\ Prepaid
  /\ c = "keepSpend" => turn = "credit"
  /\ creditSnap[c] = None
  /\ creditSnap' = [creditSnap EXCEPT ![c] = [balance |-> account, landed |-> landed]]
  /\ UNCHANGED <<period, local, calls, db, turn, spendSnap, gap, beyond>>

\* ... and replaces the local one, with the charges made to it since.
ReconcileCredit(c) ==
  /\ creditSnap[c] # None
  /\ balance' = creditSnap[c].balance
  /\ creditSnap' = [creditSnap EXCEPT ![c] = None]
  /\ turn' = IF c = "keepSpend" THEN "spend" ELSE turn
  /\ gap' = LET n == CostOf((OnWay \cup landed) \ creditSnap[c].landed)
            IN  IF n > gap THEN n ELSE gap
  /\ UNCHANGED <<period, w, running, held, calls, db, spendSnap, beyond>>

\* A load that fails is left to the next tick, which starts with the spend.
LoadCreditFails ==
  /\ turn = "credit" /\ creditSnap["keepSpend"] = None
  /\ turn' = "spend"
  /\ UNCHANGED <<period, local, calls, db, spendSnap, creditSnap, gap, beyond>>

Refresh == LoadSpend \/ Reconcile \/ LoadCreditFails
             \/ \E c \in Reconcilers : LoadCredit(c) \/ ReconcileCredit(c)

Next == \/ \E r \in Requests : Arrive(r) \/ Serve(r) \/ Write(r) \/ Lose(r)
        \/ Pay \/ NextPeriod \/ Refresh

Spec == Init /\ [][Next /\ UNCHANGED deploy]_<<deploy, vars>>

(* A request that arrived is served to its end, the recorder flushes its   *)
(* buffer on a ticker, and keepSpend reconciles on a ticker.  Requests may *)
(* never come, a day need not end, and nobody need pay.  A database that   *)
(* is asked again and again answers in the end: SF of LoadCredit.          *)
FairSpec ==
  /\ Spec
  /\ \A r \in Requests : WF_vars(Serve(r)) /\ WF_vars(Write(r) \/ Lose(r))
  /\ WF_vars(LoadSpend) /\ WF_vars(Reconcile)
  /\ SF_vars(LoadCredit("keepSpend"))
  /\ \A c \in Reconcilers : WF_vars(ReconcileCredit(c))

-----------------------------------------------------------------------------
(* Properties.                                                             *)

Window == [start : 0..MaxPeriod, n : Nat]

TypeOK ==
  /\ deploy \in Deployments
  /\ period \in Periods
  /\ w \in [Scopes -> Window]
  /\ running \in Window
  /\ balance \in Int
  /\ held \in Nat
  /\ pc \in [Requests -> {"idle", "receive", "quotas", "hold", "budgets", "start", "started",
                          "record", "sink", "end", "release", "done"}]
  /\ ts \in [Requests -> 0..MaxPeriod]
  /\ now \in [Requests -> 0..MaxPeriod]
  /\ hold \in [Requests -> Nat]
  /\ hook \in [Requests -> Nat]
  /\ cost \in [Requests -> Nat]
  /\ scoped \subseteq Requests
  /\ buffer \subseteq Requests
  /\ landed \subseteq Requests
  /\ spend \in [Scopes -> [Periods -> Nat]]
  /\ account \in Int
  /\ topUps \in 0..MaxTopUps
  /\ turn \in {"spend", "credit"}
  /\ spendSnap \in {None} \cup [Scopes -> Window]
  /\ creditSnap \in [Reconcilers -> {None} \cup [balance : Int, landed : SUBSET Requests]]
  /\ gap \in Nat
  /\ beyond \in Nat

\* The requests credit is held for.
Holding == {r \in Requests : hold[r] > 0 /\ pc[r] # "done"}

(* What is counted of running requests is what runs.  Credit is held       *)
(* exactly for the requests that have not ended: none leaks when one is    *)
(* refused, and none is given back before it is charged.  And running      *)
(* counts every request started in the open window that has not ended,     *)
(* through any change of the period and any reconcile: a request that ends *)
(* in an older window neither stays counted nor takes one off.             *)
CountsMatch ==
  /\ held = MaxHold * Cardinality(Holding)
  /\ InWindow(running, period) =
       Cardinality({r \in scoped : now[r] = period /\ pc[r] \notin {"release", "done"}})

\* What the credit comes to once the charges on their way have landed.
Left == account - CostOf(OnWay)

(* However many requests start together, the credit is overdrawn by less   *)
(* than one request's hold, and beyond that by no more than two amounts    *)
(* the code accepts.  One is what was on its way to the database when a    *)
(* reconcile brought an older balance back: the most of any one reconcile, *)
(* and not the sum of what they forgot.  The other is what the requests    *)
(* charged since the last hold was given cost beyond their own holds,      *)
(* which a request without an output ceiling may (credit.go: the hold is   *)
(* "not a bound").                                                         *)
Overdraft ==
  Prepaid /\ ~Invoiced /\ Credit >= 0 =>
    Left + gap + beyond >= 0 \/ Left + gap + beyond > -MaxHold

(* Once the requests have ended and their rows are written, the local view *)
(* settles on the database's figures, whatever reconciles raced them.      *)
Converges ==
  <>[](/\ \A s \in Scopes : Spent(s, period) = spend[s][period]
       /\ Prepaid => balance = account
       /\ held = 0)
=============================================================================
