------------------------------ MODULE Payments ------------------------------
(***************************************************************************)
(* How one organisation pays: internal/control/payments.go and charges.go  *)
(* over internal/store/credit.go and charges.go, with PostFinance Checkout *)
(* (internal/payment/postfinance.go) as an external party.                 *)
(*                                                                         *)
(* A payment is recorded, gets a transaction, is tied to it, and is then   *)
(* paid on the payment page or charged to the saved card.  Its end is      *)
(* learned from the answer, from a webhook, from a visit of the billing    *)
(* page or from the rounds of any replica, in any order and more than      *)
(* once.  Every step may be the last one of its process.                   *)
(***************************************************************************)
EXTENDS Integers, FiniteSets, FiniteSetsExt

CONSTANTS
  Payments,    \* the payments the organisation makes
  Kinds,       \* which kinds of payment are made
  NoCard,      \* no card is saved
  FirstCard,   \* a card saved before; payment p saves the card p
  Below,       \* topup_below_micros while the automatic top-up is on
  TopUp,       \* topup_micros then
  MaxPeriods,  \* bound: how many periods of the recurring charge start
  MaxSpend,    \* bound: how often credit is used or granted
  MaxAdmin,    \* bound: how often an administrator or operator acts
  MaxReads     \* bound: how many settlements are under way at once

AllKinds == {"topup", "auto", "page", "card"}

ASSUME PaymentsAssumption ==
  /\ IsFiniteSet(Payments) /\ Kinds \subseteq AllKinds
  /\ NoCard \notin Payments /\ FirstCard \notin Payments /\ NoCard # FirstCard
  /\ Below \in Nat /\ TopUp \in Nat /\ TopUp >= Below
  /\ MaxPeriods \in Nat /\ MaxSpend \in Nat /\ MaxAdmin \in Nat /\ MaxReads \in Nat

VARIABLES
  pay,        \* the payments table
  tx,         \* PostFinance: each payment's transaction
  start,      \* where the process that starts a payment is
  account,    \* the row in credit_accounts, and orgs.limited
  charge,     \* the recurring charge
  started,    \* how many of its periods have started
  listed,     \* what was found due, or asked for, and not yet recorded
  reads,      \* ends of transactions read and not yet recorded
  forgetting, \* an administrator's forgetCard is between its two queries
  forgotten,  \* cards the account no longer has
  deleted,    \* the ones PostFinance has forgotten too
  twice,      \* payments logged as paying a period a second time
  used,       \* credit used and not granted, in all
  spends,     \* how often that changed
  acts        \* how often an administrator has acted

money   == <<account, charge, twice, forgotten, deleted>>
bounds  == <<used, spends, acts>>
vars    == <<pay, tx, start, money, started, listed, reads, forgetting, bounds>>

(* How old a payment is: less than a minute, then more than settleAfter,   *)
(* more than unstarted (ten minutes), an hour, and lookUpFor (a day).      *)
Minute == 1
TenMinutes == 2
Hour == 3
Day == 4

Unmade == [kind |-> "none", state |-> "none", tied |-> FALSE, age |-> 0, period |-> 0,
           save |-> FALSE, token |-> NoCard]

\* Whether p charges the saved card, and whether it pays a period.
ByCard(p)     == pay[p].kind \in {"auto", "card"}
PaysPeriod(p) == pay[p].kind \in {"page", "card"}
Credit(kind)  == IF kind = "auto" THEN TopUp ELSE IF kind = "topup" THEN 1 ELSE 0

Init ==
  /\ pay = [p \in Payments |-> Unmade]
  /\ tx = [p \in Payments |-> "none"]
  /\ start = [p \in Payments |-> "none"]
  /\ \E card \in {NoCard, FirstCard}, on \in BOOLEAN :
       account = [balance |-> 0, card |-> card, on |-> on, error |-> FALSE, invoiced |-> FALSE,
                  limited |-> TRUE]
  /\ charge \in [exists : IF Kinds \cap {"page", "card"} = {} THEN {FALSE} ELSE BOOLEAN,
                 paid : {0}, error : {FALSE}]
  /\ started = 0
  /\ listed = {} /\ reads = {}
  /\ forgetting = FALSE
  /\ forgotten = {} /\ deleted = {} /\ twice = {}
  /\ used = 0 /\ spends = 0 /\ acts = 0

-----------------------------------------------------------------------------
(* Settle, one database transaction.                                       *)

\* A bug: a payment that has ended is ended again.
EndsAgain(p, paid) == pay[p].state # "none"

\* Pending, or failed and paid after all.
Ends(p, paid) == pay[p].state = "pending" \/ (pay[p].state = "failed" /\ paid)

\* A bug: any paid charge counts the next period as paid.
IsFirstUnpaidAny(p) == charge.exists

\* payPeriod: p pays the first period not paid.
IsFirstUnpaid(p) == charge.exists /\ charge.paid = pay[p].period

\* A paid one adds its credit or pays its period, lifts the limit, clears what
\* failed, and saves its card; settleWith then has PostFinance forget the old
\* one.
SettlePaid(p, saved) ==
  LET old == IF saved THEN {account.card} \ {NoCard, p} ELSE {}
  IN  /\ account' = [account EXCEPT !.balance = @ + Credit(pay[p].kind), !.error = FALSE,
                                    !.limited = FALSE, !.card = IF saved THEN p ELSE @]
      /\ charge' = [charge EXCEPT !.error = FALSE,
                      !.paid = IF PaysPeriod(p) /\ IsFirstUnpaid(p) THEN @ + 1 ELSE @]
      /\ twice' = IF PaysPeriod(p) /\ charge.exists /\ ~IsFirstUnpaid(p)
                  THEN twice \cup {p} ELSE twice
      /\ forgotten' = forgotten \cup old
      /\ \E gone \in SUBSET old : deleted' = deleted \cup gone

\* A failed charge of the saved card stops the next, unless it may be retried.
SettleFailed(p, retry) ==
  /\ account' = [account EXCEPT !.error = @ \/ (pay[p].kind = "auto" /\ ~retry)]
  /\ charge' = [charge EXCEPT !.error = @ \/ (charge.exists /\ pay[p].kind = "card" /\ ~retry)]
  /\ UNCHANGED <<twice, forgotten, deleted>>

Settle(p, how) ==
  IF Ends(p, how.paid)
  THEN /\ pay' = [pay EXCEPT ![p].state = IF how.paid THEN "paid" ELSE "failed"]
       /\ IF how.paid THEN SettlePaid(p, how.saved) ELSE SettleFailed(p, how.retry)
  ELSE UNCHANGED <<pay, money>>

Paid(saved)   == [paid |-> TRUE, saved |-> saved, retry |-> FALSE]
Failed(retry) == [paid |-> FALSE, saved |-> FALSE, retry |-> retry]

\* settleWith: how p's transaction ends it, if it has ended.  The card of a
\* paid one may be one that cannot be saved.
Settlements(p) ==
  CASE tx[p] = "paid" -> {Paid(s) : s \in {FALSE, pay[p].save}}
    [] tx[p] \in {"failed", "otherAmount"} -> {Failed(FALSE)}
    [] OTHER -> {}

-----------------------------------------------------------------------------
(* What is due, and recording a payment.                                   *)

Made(kinds) == {p \in Payments : pay[p].kind \in kinds}

\* A bug: only the ten minutes hold the next top-up back.
TopUpIsDuePaced ==
  /\ account.card # NoCard /\ account.on /\ account.balance < Below
  /\ ~account.error /\ ~account.invoiced
  /\ \A p \in Made({"auto"}) : pay[p].age >= TenMinutes

\* topUpIsDue.
TopUpIsDue ==
  /\ account.card # NoCard /\ account.on /\ account.balance < Below
  /\ ~account.error /\ ~account.invoiced
  /\ \A p \in Made({"auto"}) : pay[p].state # "pending" /\ pay[p].age >= TenMinutes

\* chargeIsDue.
ChargeIsDue ==
  /\ charge.exists /\ account.card # NoCard /\ ~charge.error /\ charge.paid < started
  /\ \A p \in Made({"card"}) : pay[p].state # "pending" /\ pay[p].age >= TenMinutes
  /\ \A p \in Made({"page"}) : pay[p].state # "pending" \/ pay[p].age >= Hour

\* topUpDue and chargesDue list what is due, with the card to charge.
ListDue(kind) ==
  /\ kind \in Kinds
  /\ IF kind = "auto" THEN TopUpIsDue ELSE ChargeIsDue
  /\ listed' = listed \cup {[kind |-> kind, token |-> account.card, save |-> FALSE,
                             period |-> IF kind = "card" THEN charge.paid ELSE 0]}
  /\ UNCHANGED <<pay, tx, start, money, started, reads, forgetting, bounds>>

\* createTopUp.
AskTopUp(save) ==
  /\ "topup" \in Kinds /\ acts < MaxAdmin
  /\ acts' = acts + 1
  /\ listed' = listed \cup {[kind |-> "topup", token |-> NoCard, period |-> 0, save |-> save]}
  /\ UNCHANGED <<pay, tx, start, money, started, reads, forgetting, used, spends>>

\* payCharge: the first unpaid period, unless the card will pay it.
PayCharge ==
  /\ "page" \in Kinds /\ acts < MaxAdmin
  /\ charge.exists /\ charge.paid <= MaxPeriods
  /\ account.card = NoCard \/ charge.error \/ charge.paid < started
  /\ acts' = acts + 1
  /\ listed' = listed \cup {[kind |-> "page", token |-> NoCard, period |-> charge.paid,
                             save |-> TRUE]}
  /\ UNCHANGED <<pay, tx, start, money, started, reads, forgetting, used, spends>>

\* CreatePayment checks again what the list may no longer say.
StillDue(l) ==
  CASE l.kind = "auto" -> TopUpIsDue
    [] l.kind = "card" -> ChargeIsDue /\ charge.paid = l.period
    [] l.kind = "page" -> \A p \in Made({"card"}) : pay[p].state # "pending"
    [] OTHER -> TRUE

\* CreatePayment, or ErrTopUpUnderway.
CreatePayment(l) ==
  /\ l \in listed
  /\ listed' = listed \ {l}
  /\ \/ /\ StillDue(l)
        /\ \E p \in Payments :
             /\ pay[p] = Unmade
             /\ pay' = [pay EXCEPT ![p] = [Unmade EXCEPT !.kind = l.kind, !.state = "pending",
                                             !.period = l.period, !.save = l.save,
                                             !.token = l.token]]
             /\ start' = [start EXCEPT ![p] = "create"]
     \/ ~StillDue(l) /\ UNCHANGED <<pay, start>>
  /\ UNCHANGED <<tx, money, started, reads, forgetting, bounds>>

-----------------------------------------------------------------------------
(* payOnPage and chargeCard go on.                                         *)

Go(p, to) == start' = [start EXCEPT ![p] = to]

\* startTransaction: PostFinance makes the transaction ...
CreateTransaction(p) ==
  /\ start[p] = "create"
  /\ tx' = [tx EXCEPT ![p] = "created"]
  /\ Go(p, "tie")
  /\ UNCHANGED <<pay, money, started, listed, reads, forgetting, bounds>>

\* ... and SetTransaction ties the payment to it, if it is still pending.
SetTransaction(p) ==
  /\ start[p] = "tie" /\ pay[p].state = "pending"
  /\ pay' = [pay EXCEPT ![p].tied = TRUE]
  /\ Go(p, IF ByCard(p) THEN "charge" ELSE "page")
  /\ UNCHANGED <<tx, money, started, listed, reads, forgetting, bounds>>

\* One of the calls fails, or the payment is no longer pending.
StartFails(p) ==
  /\ start[p] \in {"create", "tie", "page"}
  /\ Settle(p, Failed(ByCard(p)))
  /\ Go(p, "done")
  /\ UNCHANGED <<tx, started, listed, reads, forgetting, bounds>>

\* The person is sent to the payment page.
ShowPage(p) ==
  /\ start[p] = "page"
  /\ tx' = [tx EXCEPT ![p] = "open"]
  /\ Go(p, "done")
  /\ UNCHANGED <<pay, money, started, listed, reads, forgetting, bounds>>

\* Charge reaches PostFinance, whose answer may be lost or be read at once.
Charge(p) ==
  /\ start[p] = "charge" /\ pay[p].token \notin deleted
  /\ tx' = [tx EXCEPT ![p] = "open"]
  /\ \E answered \in BOOLEAN : Go(p, IF answered THEN "answer" ELSE "done")
  /\ UNCHANGED <<pay, money, started, listed, reads, forgetting, bounds>>

\* The answer settles the payment if the transaction has ended.
Answered(p) ==
  /\ start[p] = "answer"
  /\ Go(p, "done")
  /\ \/ \E how \in Settlements(p) : Settle(p, how)
     \/ Settlements(p) = {} /\ UNCHANGED <<pay, money>>
  /\ UNCHANGED <<tx, started, listed, reads, forgetting, bounds>>

\* PostFinance turns the charge away, or refuses it, as for a card it forgot.
ChargeRefused(p) ==
  /\ start[p] = "charge"
  /\ \E retry \in IF pay[p].token \in deleted THEN {FALSE} ELSE BOOLEAN : Settle(p, Failed(retry))
  /\ Go(p, "done")
  /\ UNCHANGED <<tx, started, listed, reads, forgetting, bounds>>

\* The process stops, or a settlement it made cannot be recorded.
Crash(p) ==
  /\ start[p] \notin {"none", "done"}
  /\ Go(p, "done")
  /\ UNCHANGED <<pay, tx, money, started, listed, reads, forgetting, bounds>>

-----------------------------------------------------------------------------
(* Learning how a payment ended.                                           *)

\* What a look at p reads is recorded later, or never.
Learn(p, hows) ==
  /\ Cardinality(reads) < MaxReads
  /\ \E how \in hows : reads' = reads \cup {[p |-> p, how |-> how]}
  /\ UNCHANGED <<pay, tx, start, money, started, listed, forgetting, bounds>>

\* postFinanceWebhook: any payment that is tied and not paid.
Webhook(p) ==
  /\ pay[p].tied /\ pay[p].state \in {"pending", "failed"}
  /\ Learn(p, Settlements(p))

\* settleRecent, when the billing page is opened.
VisitBilling(p) ==
  /\ pay[p].tied /\ pay[p].state = "pending" /\ pay[p].age < Hour
  /\ Learn(p, Settlements(p))

\* settlePending: one interrupted before it was tied has failed after ten
\* minutes, and a charge of a card that has not ended after a day as well.
Poll(p) ==
  /\ pay[p].state = "pending" /\ pay[p].age >= Minute
  /\ pay[p].age < Day \/ ByCard(p)
  /\ Learn(p, CASE ~pay[p].tied /\ pay[p].age < TenMinutes -> {}
                [] ~pay[p].tied /\ pay[p].age >= TenMinutes -> {Failed(TRUE)}
                [] pay[p].tied /\ Settlements(p) = {} /\ pay[p].age >= Day -> {Failed(FALSE)}
                [] OTHER -> Settlements(p))

\* What was read is recorded.
Record(r) ==
  /\ r \in reads
  /\ reads' = reads \ {r}
  /\ Settle(r.p, r.how)
  /\ UNCHANGED <<tx, start, started, listed, forgetting, bounds>>

\* ... or lost with its process.
RecordLost(r) ==
  /\ r \in reads
  /\ reads' = reads \ {r}
  /\ UNCHANGED <<pay, tx, start, money, started, listed, forgetting, bounds>>

-----------------------------------------------------------------------------
(* PostFinance, time, and the people.                                      *)

\* A transaction ends; one for another amount than asked should never be.
Ended(p) ==
  /\ tx[p] = "open"
  /\ \E how \in {"paid", "failed", "otherAmount"} : tx' = [tx EXCEPT ![p] = how]
  /\ UNCHANGED <<pay, start, money, started, listed, reads, forgetting, bounds>>

\* Each call to PostFinance ends within 30 seconds, so a payment that is
\* still being started, or whose end was just read, is younger than ten
\* minutes.
Grow(p) ==
  /\ pay[p].kind # "none" /\ pay[p].age < Day
  /\ pay[p].age < Minute \/ (start[p] = "done" /\ \A r \in reads : r.p # p)
  /\ pay' = [pay EXCEPT ![p].age = @ + 1]
  /\ UNCHANGED <<tx, start, money, started, listed, reads, forgetting, bounds>>

NextPeriod ==
  /\ charge.exists /\ started < MaxPeriods
  /\ started' = started + 1
  /\ UNCHANGED <<pay, tx, start, money, listed, reads, forgetting, bounds>>

\* Credit is used, or granted (grantCredit may take some away).
Use(micros) ==
  /\ spends < MaxSpend
  /\ spends' = spends + 1
  /\ used' = used + micros
  /\ account' = [account EXCEPT !.balance = @ - micros]
  /\ UNCHANGED <<pay, tx, start, charge, twice, forgotten, deleted, started, listed, reads,
                 forgetting, acts>>

\* updateCreditAccount: the top-up, which clears its error, or the invoice.
UpdateCredit ==
  /\ acts < MaxAdmin
  /\ acts' = acts + 1
  /\ \/ \E on \in BOOLEAN : account' = [account EXCEPT !.on = on, !.error = FALSE]
     \/ account' = [account EXCEPT !.invoiced = ~@]
  /\ UNCHANGED <<pay, tx, start, charge, twice, forgotten, deleted, started, listed, reads,
                 forgetting, used, spends>>

\* forgetCard asks for the charges ...
AskForget ==
  /\ acts < MaxAdmin /\ ~forgetting /\ ~charge.exists
  /\ acts' = acts + 1
  /\ forgetting' = TRUE
  /\ UNCHANGED <<pay, tx, start, money, started, listed, reads, used, spends>>

\* ... and if there are none forgets the card, here and at PostFinance.
ForgetCard ==
  /\ forgetting
  /\ forgetting' = FALSE
  /\ account' = [account EXCEPT !.card = NoCard, !.on = FALSE]
  /\ forgotten' = forgotten \cup ({account.card} \ {NoCard})
  /\ \E gone \in SUBSET ({account.card} \ {NoCard}) : deleted' = deleted \cup gone
  /\ UNCHANGED <<pay, tx, start, charge, twice, started, listed, reads, bounds>>

\* createCharge and deleteCharge, by an operator; one charge is followed.
CreateCharge ==
  /\ Kinds \cap {"page", "card"} # {}
  /\ acts < MaxAdmin /\ ~charge.exists /\ Made({"page", "card"}) = {} /\ started = 0
  /\ acts' = acts + 1
  /\ charge' = [charge EXCEPT !.exists = TRUE]
  /\ UNCHANGED <<pay, tx, start, account, twice, forgotten, deleted, started, listed, reads,
                 forgetting, used, spends>>

DeleteCharge ==
  /\ acts < MaxAdmin /\ charge.exists
  /\ acts' = acts + 1
  /\ charge' = [charge EXCEPT !.exists = FALSE, !.error = FALSE]
  /\ UNCHANGED <<pay, tx, start, account, twice, forgotten, deleted, started, listed, reads,
                 forgetting, used, spends>>

-----------------------------------------------------------------------------
Starting(p) == \/ CreateTransaction(p) \/ SetTransaction(p) \/ StartFails(p)
               \/ ShowPage(p) \/ Charge(p) \/ Answered(p) \/ ChargeRefused(p)

Looking(p) == Webhook(p) \/ VisitBilling(p) \/ Poll(p)

People == \/ \E save \in BOOLEAN : AskTopUp(save)
          \/ PayCharge \/ UpdateCredit \/ AskForget \/ ForgetCard
          \/ CreateCharge \/ DeleteCharge

Next ==
  \/ \E p \in Payments : Starting(p) \/ Crash(p) \/ Looking(p) \/ Ended(p) \/ Grow(p)
  \/ \E kind \in {"auto", "card"} : ListDue(kind)
  \/ \E l \in listed : CreatePayment(l)
  \/ \E r \in reads : Record(r) \/ RecordLost(r)
  \/ NextPeriod
  \/ \E micros \in {1, -1} : Use(micros)
  \/ People

Spec == Init /\ [][Next]_vars

-----------------------------------------------------------------------------
(* Properties.                                                             *)

Cards == Payments \cup {NoCard, FirstCard}

TypeOK ==
  /\ pay \in [Payments ->
       [kind : AllKinds \cup {"none"}, state : {"none", "pending", "paid", "failed"},
        tied : BOOLEAN, age : 0..Day, period : 0..MaxPeriods, save : BOOLEAN, token : Cards]]
  /\ tx \in [Payments -> {"none", "created", "open", "paid", "failed", "otherAmount"}]
  /\ start \in [Payments -> {"none", "create", "tie", "page", "charge", "answer", "done"}]
  /\ account \in [balance : Int, card : Cards, on : BOOLEAN, error : BOOLEAN,
                  invoiced : BOOLEAN, limited : BOOLEAN]
  /\ charge \in [exists : BOOLEAN, paid : 0..MaxPeriods + 1, error : BOOLEAN]
  /\ started \in 0..MaxPeriods
  /\ listed \subseteq [kind : AllKinds, token : Cards, period : 0..MaxPeriods, save : BOOLEAN]
  /\ reads \subseteq [p : Payments, how : [paid : BOOLEAN, saved : BOOLEAN, retry : BOOLEAN]]
  /\ forgetting \in BOOLEAN
  /\ forgotten \subseteq Cards /\ deleted \subseteq forgotten
  /\ twice \subseteq Payments
  /\ used \in Int /\ spends \in 0..MaxSpend /\ acts \in 0..MaxAdmin

PaidOnes == {p \in Payments : pay[p].state = "paid"}

\* What each payment has brought.
Credited == [p \in Payments |-> IF p \in PaidOnes THEN Credit(pay[p].kind) ELSE 0]

(* The balance is what was paid for credit less what was used, however     *)
(* often and in whatever order webhook, visit, poll and answer report the  *)
(* end of a payment, and whoever crashes: each is credited exactly once,   *)
(* and credit and periods are given only for money that came in, in full.  *)
CreditedOnce ==
  /\ account.balance = SumFunction(Credited) - used
  /\ \A p \in PaidOnes : tx[p] = "paid"

(* Each period counted as paid is paid by one payment, and each further    *)
(* payment of it was logged to be refunded: a card charged in a race with  *)
(* the payment page never buys a later period.                             *)
PeriodsPaidOnce ==
  charge.exists =>
    /\ \A k \in 0..(charge.paid - 1) :
         Cardinality({p \in PaidOnes \ twice : PaysPeriod(p) /\ pay[p].period = k}) = 1
    /\ \A p \in PaidOnes : PaysPeriod(p) => pay[p].period < charge.paid

(* Of each kind, the saved card is charged for one payment at a time: while *)
(* a top-up's transaction may still take money from the card, no other     *)
(* top-up is charged, unless a day's wait has ended the first; the same    *)
(* holds of the recurring charge.  A top-up and a recurring charge look    *)
(* each at its own kind (topUpIsDue, chargeIsDue), and may be open         *)
(* together.                                                               *)
OneChargePerKind ==
  \A p, q \in Payments :
    (/\ p # q /\ ByCard(p) /\ pay[p].kind = pay[q].kind
     /\ tx[p] = "open" /\ tx[q] = "open")
       => pay[p].age = Day \/ pay[q].age = Day

(* "if this fails, the token is never charged again": no charge of a card *)
(* is begun once Keera has forgotten the card.  The code does not keep it: *)
(* a round charges the card it listed (README).                            *)
ForgottenNotCharged ==
  [][\A p \in Payments : pay'[p].token # pay[p].token => pay'[p].token \notin forgotten]_vars
=============================================================================
