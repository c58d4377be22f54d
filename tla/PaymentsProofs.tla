--------------------------- MODULE PaymentsProofs ---------------------------
(* Payments, proved for any number of payments, periods and readings of    *)
(* how they ended: money is credited once and for money that came in, a    *)
(* period is paid once, and the saved card is charged for one payment at a *)
(* time.                                                                   *)
EXTENDS Payments, FiniteSetTheorems, WellFoundedInduction, TLAPS

\* Where a payment is started from tells where its transaction is: nobody can
\* have learned of an end before the process that starts it is through.
StartOK ==
  \A p \in Payments :
    /\ start[p] = "none" <=> pay[p].kind = "none"
    /\ start[p] = "none" => tx[p] = "none" /\ pay[p] = Unmade
    /\ start[p] = "create" => tx[p] = "none" /\ ~pay[p].tied /\ pay[p].state = "pending"
    /\ start[p] = "tie" => tx[p] = "created" /\ ~pay[p].tied /\ pay[p].state = "pending"
    /\ start[p] = "page" => tx[p] = "created" /\ pay[p].tied /\ pay[p].state = "pending"
    /\ start[p] = "charge" => tx[p] = "created" /\ pay[p].tied /\ pay[p].state = "pending"
    /\ start[p] = "answer" => tx[p] \in {"open", "paid", "failed", "otherAmount"} /\ pay[p].tied
    /\ tx[p] \in {"open", "paid", "failed", "otherAmount"} => start[p] \in {"answer", "done"}
    /\ ~pay[p].tied => tx[p] \in {"none", "created"}
    /\ start[p] # "done" => pay[p].age <= Minute

\* Why a payment may be recorded as failed: its transaction has, or can never
\* be paid any more, or it is a day old.
Over(p) ==
  \/ tx[p] \in {"failed", "otherAmount"}
  \/ start[p] = "done" /\ tx[p] \in {"none", "created"}
  \/ start[p] = "done" /\ pay[p].age = Day

\* What was read of a transaction is still so when it is recorded.
ReadsOK ==
  \A r \in reads : IF r.how.paid THEN tx[r.p] = "paid" ELSE Over(r.p)

\* The ends recorded are ends.
EndsOK ==
  \A p \in Payments : /\ pay[p].state = "paid" => tx[p] = "paid"
                      /\ tx[p] = "open" => pay[p].state = "pending" \/ pay[p].age = Day
                      /\ pay[p].state = "none" <=> pay[p].kind = "none"

\* One charge of the saved card of a kind is pending at a time.
Alone ==
  \A p, q \in Payments :
    p # q /\ ByCard(p) /\ pay[p].kind = pay[q].kind
      => pay[p].state # "pending" \/ pay[q].state # "pending"

\* The payments that paid for period k.
PaidFor(k) == {p \in PaidOnes \ twice : PaysPeriod(p) /\ pay[p].period = k}

\* Nobody pays for a period before all earlier ones are paid.
Due ==
  /\ \A p \in Payments : PaysPeriod(p) => pay[p].period <= charge.paid
  /\ \A l \in listed : l.kind \in {"page", "card"} => l.period <= charge.paid
  /\ charge.paid > 0 => Made({"page", "card"}) # {}
  /\ twice \subseteq PaidOnes

\* The inductive invariant.
Inv == TypeOK /\ StartOK /\ ReadsOK /\ EndsOK /\ Alone /\ Due /\ PeriodsPaidOnce

-----------------------------------------------------------------------------
(* Types, and the effect of Settle.                                        *)

Rows == [kind : AllKinds \cup {"none"}, state : {"none", "pending", "paid", "failed"},
         tied : BOOLEAN, age : 0..Day, period : 0..MaxPeriods, save : BOOLEAN, token : Cards]
Accounts == [balance : Int, card : Cards, on : BOOLEAN, error : BOOLEAN, invoiced : BOOLEAN,
             limited : BOOLEAN]
Charges  == [exists : BOOLEAN, paid : 0..MaxPeriods + 1, error : BOOLEAN]
Lists    == [kind : AllKinds, token : Cards, period : 0..MaxPeriods, save : BOOLEAN]
Hows     == [paid : BOOLEAN, saved : BOOLEAN, retry : BOOLEAN]
Readings == [p : Payments, how : Hows]

LEMMA ConstantTypes ==
  /\ MaxPeriods \in Nat /\ MaxSpend \in Nat /\ MaxAdmin \in Nat
  /\ Day = 4 /\ Hour = 3 /\ TenMinutes = 2 /\ Minute = 1
  /\ NoCard \in Cards /\ Payments \subseteq Cards /\ Unmade \in Rows
  /\ \A kind : Credit(kind) \in Nat
  BY PaymentsAssumption DEF PaymentsAssumption, Day, Hour, TenMinutes, Minute, Cards, Unmade, Rows,
     Credit

LEMMA Typed ==
  TypeOK <=>
    /\ pay \in [Payments -> Rows]
    /\ tx \in [Payments -> {"none", "created", "open", "paid", "failed", "otherAmount"}]
    /\ start \in [Payments -> {"none", "create", "tie", "page", "charge", "answer", "done"}]
    /\ account \in Accounts /\ charge \in Charges
    /\ started \in 0..MaxPeriods
    /\ listed \subseteq Lists /\ reads \subseteq Readings
    /\ forgetting \in BOOLEAN
    /\ forgotten \subseteq Cards /\ deleted \subseteq forgotten
    /\ twice \subseteq Payments
    /\ used \in Int /\ spends \in 0..MaxSpend /\ acts \in 0..MaxAdmin
  BY DEF TypeOK, Rows, Accounts, Charges, Lists, Readings, Hows

\* Settle moves one payment to its end, and the money with it.
LEMMA SettleSteps ==
  ASSUME TypeOK, NEW p \in Payments, NEW how \in Hows, Settle(p, how)
  PROVE  /\ pay' \in [Payments -> Rows]
         /\ \A q \in Payments \ {p} : pay'[q] = pay[q]
         /\ pay'[p].kind = pay[p].kind /\ pay'[p].period = pay[p].period
         /\ pay'[p].tied = pay[p].tied /\ pay'[p].age = pay[p].age
         /\ pay'[p].save = pay[p].save /\ pay'[p].token = pay[p].token
         /\ pay'[p].state = IF Ends(p, how.paid) THEN IF how.paid THEN "paid" ELSE "failed"
                            ELSE pay[p].state
         /\ account' \in Accounts /\ forgotten' \subseteq Cards /\ deleted' \subseteq forgotten'
         /\ charge'.exists = charge.exists
         /\ charge'.paid = IF Ends(p, how.paid) /\ how.paid /\ PaysPeriod(p) /\ IsFirstUnpaid(p)
                           THEN charge.paid + 1 ELSE charge.paid
         /\ charge' \in Charges
         /\ twice' = IF Ends(p, how.paid) /\ how.paid /\ PaysPeriod(p) /\ charge.exists
                          /\ ~IsFirstUnpaid(p)
                     THEN twice \cup {p} ELSE twice
         /\ account'.balance = IF Ends(p, how.paid) /\ how.paid
                               THEN account.balance + Credit(pay[p].kind) ELSE account.balance
  <1>0. pay \in [Payments -> Rows] /\ account \in Accounts /\ charge \in Charges
        /\ forgotten \subseteq Cards /\ deleted \subseteq forgotten
    BY Typed
  <1>1. CASE ~Ends(p, how.paid)
    <2>1. UNCHANGED <<pay, account, charge, twice, forgotten, deleted>>
      BY <1>1 DEF Settle, money
    <2> QED
      BY <1>0, <1>1, <2>1
  <1>2. CASE Ends(p, how.paid)
    <2>0. pay' = [pay EXCEPT ![p].state = IF how.paid THEN "paid" ELSE "failed"]
      BY <1>2 DEF Settle
    <2>1. /\ pay' \in [Payments -> Rows]
          /\ \A q \in Payments \ {p} : pay'[q] = pay[q]
          /\ pay'[p].kind = pay[p].kind /\ pay'[p].period = pay[p].period
          /\ pay'[p].tied = pay[p].tied /\ pay'[p].age = pay[p].age
          /\ pay'[p].save = pay[p].save /\ pay'[p].token = pay[p].token
          /\ pay'[p].state = IF how.paid THEN "paid" ELSE "failed"
      BY <1>0, <2>0 DEF Rows
    <2>2. CASE how.paid
      <3>1. SettlePaid(p, how.saved)
        BY <1>2, <2>2 DEF Settle
      <3>2. account' \in Accounts /\ account'.balance = account.balance + Credit(pay[p].kind)
        <4>1. account' = [account EXCEPT !.balance = @ + Credit(pay[p].kind), !.error = FALSE,
                                         !.limited = FALSE, !.card = IF how.saved THEN p ELSE @]
          BY <3>1 DEF SettlePaid
        <4>2. Credit(pay[p].kind) \in Nat /\ (IF how.saved THEN p ELSE account.card) \in Cards
          BY <1>0, ConstantTypes DEF Accounts
        <4> DEFINE bal  == account.balance + Credit(pay[p].kind)
                   card == IF how.saved THEN p ELSE account.card
        <4>3. bal \in Int /\ card \in Cards
          BY <1>0, <4>2 DEF Accounts
        <4>4. account' = [account EXCEPT !.balance = bal, !.error = FALSE, !.limited = FALSE,
                                         !.card = card]
          BY <4>1
        <4> HIDE DEF bal, card
        <4>5. account' \in Accounts /\ account'.balance = bal
          BY <1>0, <4>3, <4>4 DEF Accounts
        <4> QED
          BY <4>5 DEF bal
      <3>3. /\ charge'.exists = charge.exists
            /\ charge'.paid = IF PaysPeriod(p) /\ IsFirstUnpaid(p) THEN charge.paid + 1
                              ELSE charge.paid
            /\ charge' \in Charges
        <4>1. charge' = [charge EXCEPT !.error = FALSE,
                           !.paid = IF PaysPeriod(p) /\ IsFirstUnpaid(p) THEN @ + 1 ELSE @]
          BY <3>1 DEF SettlePaid
        <4>2. IsFirstUnpaid(p) => charge.paid \in 0..MaxPeriods
          BY <1>0 DEF IsFirstUnpaid, Rows
        <4>3. (IF PaysPeriod(p) /\ IsFirstUnpaid(p) THEN charge.paid + 1 ELSE charge.paid)
                \in 0..MaxPeriods + 1
          BY <1>0, <4>2, ConstantTypes DEF Charges
        <4> QED
          BY <1>0, <4>1, <4>3 DEF Charges
      <3>4. /\ twice' = IF PaysPeriod(p) /\ charge.exists /\ ~IsFirstUnpaid(p)
                        THEN twice \cup {p} ELSE twice
            /\ forgotten' \subseteq Cards /\ deleted' \subseteq forgotten'
        BY <1>0, <3>1 DEF SettlePaid, Accounts
      <3> QED
        BY <1>2, <2>1, <2>2, <3>2, <3>3, <3>4
    <2>3. CASE ~how.paid
      <3>1. SettleFailed(p, how.retry)
        BY <1>2, <2>3 DEF Settle
      <3>2. account' \in Accounts /\ account'.balance = account.balance
        BY <1>0, <3>1 DEF SettleFailed, Accounts
      <3>3. charge' \in Charges /\ charge'.exists = charge.exists /\ charge'.paid = charge.paid
        BY <1>0, <3>1 DEF SettleFailed, Charges
      <3>4. UNCHANGED <<twice, forgotten, deleted>>
        BY <3>1 DEF SettleFailed
      <3> QED
        BY <1>0, <1>2, <2>1, <2>3, <3>2, <3>3, <3>4
    <2> QED
      BY <2>2, <2>3
  <1> QED
    BY <1>1, <1>2

\* What an end can be.
LEMMA SettlementsType ==
  ASSUME TypeOK, NEW p \in Payments, NEW how \in Settlements(p)
  PROVE  /\ how \in Hows
         /\ (how.paid => tx[p] = "paid") /\ (~how.paid => tx[p] \in {"failed", "otherAmount"})
  <1>0. pay[p].save \in BOOLEAN
    BY Typed DEF Rows
  <1>1. CASE tx[p] = "paid"
    <2>1. Settlements(p) = {Paid(s) : s \in {FALSE, pay[p].save}}
      BY <1>1 DEF Settlements
    <2>2. PICK s \in BOOLEAN : how = Paid(s)
      BY <1>0, <2>1
    <2> QED
      BY <1>1, <2>2 DEF Paid, Hows
  <1>2. CASE tx[p] \in {"failed", "otherAmount"}
    <2>1. how = Failed(FALSE)
      BY <1>2 DEF Settlements
    <2> QED
      BY <1>2, <2>1 DEF Failed, Hows
  <1>3. CASE tx[p] \notin {"paid", "failed", "otherAmount"}
    BY <1>3 DEF Settlements
  <1> QED
    BY <1>1, <1>2, <1>3

LEMMA FailedType ==
  ASSUME NEW b \in BOOLEAN
  PROVE  Failed(b) \in Hows /\ Failed(b).paid = FALSE
  BY DEF Failed, Hows

\* The steps that settle a payment, and what justifies the end they record.
Settling(p, how) ==
  /\ Settle(p, how)
  /\ \/ start[p] \notin {"none", "answer", "done"} /\ ~how.paid /\ start' = [start EXCEPT ![p] = "done"]
        /\ tx[p] \in {"none", "created"} /\ reads' = reads
     \/ start[p] \in {"answer", "done"} /\ (IF how.paid THEN tx[p] = "paid" ELSE Over(p))
        /\ (start' = start \/ start' = [start EXCEPT ![p] = "done"]) /\ reads' \subseteq reads
  /\ UNCHANGED <<tx, started, listed, forgetting, bounds>>

LEMMA SettlingSteps ==
  ASSUME TypeOK, StartOK, ReadsOK
  PROVE  /\ \A p \in Payments : StartFails(p) \/ Answered(p) \/ ChargeRefused(p) =>
              \/ \E how \in Hows : Settling(p, how)
              \/ /\ start' = [start EXCEPT ![p] = "done"]
                 /\ UNCHANGED <<pay, tx, money, started, listed, reads, forgetting, bounds>>
         /\ \A r \in reads : Record(r) => r.p \in Payments /\ r.how \in Hows /\ Settling(r.p, r.how)
  <1>1. ASSUME NEW p \in Payments, StartFails(p) PROVE \E how \in Hows : Settling(p, how)
    <2>1. ByCard(p) \in BOOLEAN
      BY DEF ByCard
    <2>2. Failed(ByCard(p)) \in Hows /\ ~Failed(ByCard(p)).paid
      BY <2>1, FailedType
    <2>3. Settling(p, Failed(ByCard(p)))
      BY <1>1, <2>2 DEF StartFails, Settling, Go, StartOK
    <2> QED
      BY <2>2, <2>3
  <1>2. ASSUME NEW p \in Payments, ChargeRefused(p) PROVE \E how \in Hows : Settling(p, how)
    <2>1. PICK b \in BOOLEAN : Settle(p, Failed(b))
      BY <1>2 DEF ChargeRefused
    <2>2. Failed(b) \in Hows /\ ~Failed(b).paid
      BY FailedType
    <2>3. Settling(p, Failed(b))
      BY <1>2, <2>1, <2>2 DEF ChargeRefused, Settling, Go, StartOK
    <2> QED
      BY <2>2, <2>3
  <1>3. ASSUME NEW p \in Payments, Answered(p)
        PROVE  \/ \E how \in Hows : Settling(p, how)
               \/ /\ start' = [start EXCEPT ![p] = "done"]
                  /\ UNCHANGED <<pay, tx, money, started, listed, reads, forgetting, bounds>>
    <2>1. CASE UNCHANGED <<pay, money>>
      BY <1>3, <2>1 DEF Answered, Go
    <2>2. CASE \E how \in Settlements(p) : Settle(p, how)
      <3>1. PICK how \in Settlements(p) : Settle(p, how)
        BY <2>2
      <3>2. how \in Hows /\ (how.paid => tx[p] = "paid") /\ (~how.paid => Over(p))
        <4>1. /\ how \in Hows
              /\ (how.paid => tx[p] = "paid")
              /\ (~how.paid => tx[p] \in {"failed", "otherAmount"})
          BY SettlementsType
        <4> QED
          BY <4>1 DEF Over
      <3>3. Settling(p, how)
        BY <1>3, <3>1, <3>2 DEF Answered, Settling, Go
      <3> QED
        BY <3>2, <3>3
    <2> QED
      BY <1>3, <2>1, <2>2 DEF Answered
  <1>4. ASSUME NEW r \in reads, Record(r)
        PROVE  r.p \in Payments /\ r.how \in Hows /\ Settling(r.p, r.how)
    <2>1. r.p \in Payments /\ r.how \in Hows
      BY Typed DEF Readings
    <2>2. IF r.how.paid THEN tx[r.p] = "paid" ELSE Over(r.p)
      BY DEF ReadsOK
    <2>3. start[r.p] \in {"answer", "done"}
      BY <2>1, <2>2 DEF StartOK, Over, Hows
    <2> QED
      BY <1>4, <2>1, <2>2, <2>3 DEF Record, Settling
  <1> QED
    BY <1>1, <1>2, <1>3, <1>4

-----------------------------------------------------------------------------
LEMMA InitInv == Init => Inv
  <1> SUFFICES ASSUME Init PROVE Inv
    OBVIOUS
  <1>1. TypeOK
    <2>1. account \in Accounts
      BY DEF Init, Accounts, Cards
    <2>2. charge \in Charges
      <3> DEFINE E == IF Kinds \cap {"page", "card"} = {} THEN {FALSE} ELSE BOOLEAN
      <3>1. E \subseteq BOOLEAN
        OBVIOUS
      <3>0. 0 \in 0..MaxPeriods + 1
        BY ConstantTypes
      <3>2. charge \in [exists : E, paid : {0}, error : {FALSE}]
        BY DEF Init
      <3> HIDE DEF E
      <3> QED
        BY <3>0, <3>1, <3>2 DEF Charges
    <2>3. pay \in [Payments -> Rows]
      BY ConstantTypes DEF Init
    <2>4. /\ tx \in [Payments -> {"none", "created", "open", "paid", "failed", "otherAmount"}]
          /\ start \in [Payments -> {"none", "create", "tie", "page", "charge", "answer", "done"}]
      BY DEF Init
    <2>5. /\ started \in 0..MaxPeriods /\ used \in Int /\ spends \in 0..MaxSpend
          /\ acts \in 0..MaxAdmin
      BY ConstantTypes DEF Init
    <2>6. /\ listed \subseteq Lists /\ reads \subseteq Readings /\ forgetting \in BOOLEAN
          /\ forgotten \subseteq Cards /\ deleted \subseteq forgotten /\ twice \subseteq Payments
      BY DEF Init
    <2> QED
      BY <2>1, <2>2, <2>3, <2>4, <2>5, <2>6, Typed
  <1>2. StartOK /\ ReadsOK /\ EndsOK /\ Alone
    BY ConstantTypes DEF Init, StartOK, ReadsOK, EndsOK, Alone, ByCard, Unmade
  <1>3. Due /\ PeriodsPaidOnce
    BY DEF Init, Due, PeriodsPaidOnce, PaysPeriod, PaidOnes, Unmade
  <1> QED
    BY <1>1, <1>2, <1>3 DEF Inv

(* The steps that settle a payment.                                        *)

LEMMA SettlingType ==
  ASSUME TypeOK, NEW p \in Payments, NEW how \in Hows, Settling(p, how)
  PROVE  TypeOK'
  <1>1. /\ pay' \in [Payments -> Rows]
        /\ account' \in Accounts /\ forgotten' \subseteq Cards /\ deleted' \subseteq forgotten'
        /\ charge' \in Charges /\ twice' \subseteq Payments
    <2>1. Settle(p, how) /\ twice \subseteq Payments
      BY Typed DEF Settling
    <2> QED
      BY <2>1, SettleSteps
  <1>2. /\ start' \in [Payments -> {"none", "create", "tie", "page", "charge", "answer", "done"}]
        /\ reads' \subseteq Readings
    BY Typed DEF Settling
  <1>3. UNCHANGED <<tx, started, listed, forgetting, used, spends, acts>>
    BY DEF Settling, bounds
  <1> QED
    BY <1>1, <1>2, <1>3, Typed DEF TypeOK, Rows, Accounts, Charges, Readings, Hows

LEMMA SettlingEnds ==
  ASSUME TypeOK, StartOK, ReadsOK, EndsOK, Alone, NEW p \in Payments, NEW how \in Hows,
         Settling(p, how)
  PROVE  StartOK' /\ ReadsOK' /\ EndsOK' /\ Alone'
  <1>0. /\ start \in [Payments -> {"none", "create", "tie", "page", "charge", "answer", "done"}]
        /\ reads \subseteq Readings /\ how.paid \in BOOLEAN
    BY Typed DEF Hows
  <1>1. /\ \A q \in Payments \ {p} : pay'[q] = pay[q]
        /\ pay'[p].kind = pay[p].kind /\ pay'[p].tied = pay[p].tied /\ pay'[p].age = pay[p].age
        /\ pay'[p].state \in {pay[p].state, IF how.paid THEN "paid" ELSE "failed"}
        /\ pay'[p].state # pay[p].state => pay[p].state \in {"pending", "failed"}
    BY SettleSteps DEF Settling, Ends
  <1>2. /\ tx' = tx /\ reads' \subseteq reads
        /\ \A q \in Payments \ {p} : start'[q] = start[q]
        /\ start'[p] \in {"answer", "done"}
        /\ start'[p] = "answer" => start[p] = "answer"
        /\ IF how.paid THEN tx[p] = "paid" ELSE Over(p)'
    <2>1. CASE start[p] \notin {"none", "answer", "done"}
      BY <1>0, <1>1, <2>1 DEF Settling, Over
    <2>2. CASE start[p] \in {"answer", "done"}
      BY <1>0, <1>1, <2>2 DEF Settling, Over
    <2> QED
      BY <2>1, <2>2 DEF Settling
  <1>3. StartOK'
    <2>1. \A q \in Payments \ {p} : pay'[q] = pay[q] /\ tx'[q] = tx[q] /\ start'[q] = start[q]
      BY <1>1, <1>2
    <2>2. start[p] # "none"
      BY DEF Settling
    <2> QED
      BY <1>0, <1>1, <1>2, <2>1, <2>2 DEF StartOK
  <1>4. ReadsOK'
    <2>1. ASSUME NEW q \in Payments, Over(q) PROVE Over(q)'
      <3>1. start[q] = "done" => start'[q] = "done"
        BY <1>0, <1>2
      <3>2. pay'[q].age = pay[q].age /\ tx'[q] = tx[q]
        BY <1>1, <1>2
      <3> QED
        BY <2>1, <3>1, <3>2 DEF Over
    <2> QED
      BY <1>0, <1>2, <2>1 DEF ReadsOK, Readings
  <1>5. EndsOK'
    <2>1. pay'[p].state = "paid" => tx'[p] = "paid"
      BY <1>0, <1>1, <1>2 DEF EndsOK
    <2>2. tx'[p] = "open" => pay'[p].state = "pending" \/ pay'[p].age = Day
      BY <1>0, <1>1, <1>2 DEF EndsOK, Over
    <2>3. pay'[p].state = "none" <=> pay'[p].kind = "none"
      BY <1>1 DEF EndsOK
    <2> QED
      BY <1>1, <1>2, <2>1, <2>2, <2>3 DEF EndsOK
  <1>6. Alone'
    <2>1. \A q \in Payments : /\ pay'[q].kind = pay[q].kind
                              /\ pay'[q].state = "pending" => pay[q].state = "pending"
      BY <1>1
    <2> QED
      BY <2>1 DEF Alone, ByCard
  <1> QED
    BY <1>3, <1>4, <1>5, <1>6

\* A payment of a period that is paid pays it if it is the first unpaid one;
\* otherwise the period was paid before, and the payment is logged.
LEMMA SettlingPeriods ==
  ASSUME TypeOK, Due, PeriodsPaidOnce, NEW p \in Payments, NEW how \in Hows, Settling(p, how)
  PROVE  Due' /\ PeriodsPaidOnce'
  <1>0. /\ pay \in [Payments -> Rows] /\ charge \in Charges /\ twice \subseteq Payments
        /\ listed \subseteq Lists
        /\ charge.paid \in Nat /\ \A q \in Payments : pay[q].period \in Nat
    BY Typed, ConstantTypes DEF Charges, Rows
  <1>1. /\ \A q \in Payments \ {p} : pay'[q] = pay[q]
        /\ pay'[p].kind = pay[p].kind /\ pay'[p].period = pay[p].period
        /\ pay'[p].state = IF Ends(p, how.paid) THEN IF how.paid THEN "paid" ELSE "failed"
                           ELSE pay[p].state
        /\ charge'.exists = charge.exists
        /\ charge'.paid = IF Ends(p, how.paid) /\ how.paid /\ PaysPeriod(p) /\ IsFirstUnpaid(p)
                          THEN charge.paid + 1 ELSE charge.paid
        /\ twice' = IF Ends(p, how.paid) /\ how.paid /\ PaysPeriod(p) /\ charge.exists
                         /\ ~IsFirstUnpaid(p)
                    THEN twice \cup {p} ELSE twice
        /\ listed' = listed
    <2>1. Settle(p, how) /\ listed' = listed
      BY DEF Settling
    <2> QED
      BY <2>1, SettleSteps
  <1>2. \A q \in Payments : (PaysPeriod(q)' <=> PaysPeriod(q)) /\ pay'[q].period = pay[q].period
                            /\ pay'[q].kind = pay[q].kind
    BY <1>1 DEF PaysPeriod
  <1>3. Made({"page", "card"})' = Made({"page", "card"})
    BY <1>2 DEF Made
  <1>4. CASE Ends(p, how.paid) /\ how.paid
    <2>0. p \notin PaidOnes /\ PaidOnes' = PaidOnes \cup {p}
      <3>1. pay'[p].state = "paid"
        BY <1>1, <1>4
      <3>2. pay[p].state # "paid"
        BY <1>4 DEF Ends
      <3> QED
        BY <1>1, <3>1, <3>2 DEF PaidOnes
    <2>t. p \notin twice
      BY <2>0 DEF Due
    <2>1. CASE PaysPeriod(p) /\ IsFirstUnpaid(p)
      <3>0. charge.paid = pay[p].period /\ charge.exists /\ charge'.paid = charge.paid + 1
            /\ twice' = twice
        BY <1>1, <1>4, <2>1 DEF IsFirstUnpaid
      <3>1. Due'
        <4>1. \A q \in Payments : PaysPeriod(q)' => pay'[q].period <= charge'.paid
          BY <1>0, <1>2, <3>0 DEF Due
        <4>2. \A l \in listed' : l.kind \in {"page", "card"} => l.period <= charge'.paid
          BY <1>0, <1>1, <3>0, ConstantTypes DEF Due, Lists
        <4>3. Made({"page", "card"})' # {}
          BY <1>3, <2>1 DEF Made, PaysPeriod
        <4> QED
          BY <2>0, <3>0, <4>1, <4>2, <4>3 DEF Due
      <3>2. \A k \in 0..(charge.paid - 1) : PaidFor(k)' = PaidFor(k)
        <4> SUFFICES ASSUME NEW k \in 0..(charge.paid - 1) PROVE PaidFor(k)' = PaidFor(k)
          OBVIOUS
        <4>1. pay'[p].period # k
          BY <1>0, <1>2, <3>0
        <4>2. \A q \in PaidOnes' : q # p => (q \in PaidOnes /\ q \in Payments)
          BY <2>0 DEF PaidOnes
        <4> QED
          BY <1>2, <2>0, <3>0, <4>1, <4>2 DEF PaidFor
      <3>3. ASSUME NEW k, k = charge.paid PROVE PaidFor(k)' = {p}
        <4>1. \A q \in PaidOnes : PaysPeriod(q) => pay[q].period # k
          BY <1>0, <3>0, <3>3 DEF PeriodsPaidOnce, PaidOnes
        <4>2. p \in PaidFor(k)'
          BY <1>2, <2>0, <2>1, <2>t, <3>0, <3>3 DEF PaidFor
        <4>3. ASSUME NEW q \in PaidFor(k)' PROVE q = p
          <5>1. q \in PaidOnes' /\ PaysPeriod(q)' /\ pay'[q].period = k
            BY <4>3 DEF PaidFor
          <5>2. q \in Payments
            BY <5>1 DEF PaidOnes
          <5> QED
            BY <1>2, <2>0, <4>1, <5>1, <5>2
        <4> QED
          BY <4>2, <4>3
      <3>4. \A k \in 0..(charge'.paid - 1) : Cardinality(PaidFor(k)') = 1
        <4>1. ASSUME NEW k \in 0..(charge'.paid - 1) PROVE Cardinality(PaidFor(k)') = 1
          <5>1. CASE k = charge.paid
            <6>1. PaidFor(k)' = {p}
              BY <3>3, <5>1
            <6> QED
              BY <6>1, FS_Singleton
          <5>2. CASE k # charge.paid
            <6>1. k \in 0..(charge.paid - 1)
              BY <1>0, <3>0, <4>1, <5>2
            <6>2. Cardinality(PaidFor(k)) = 1
              BY <3>0, <6>1 DEF PeriodsPaidOnce, PaidFor
            <6> QED
              BY <3>2, <6>1, <6>2
          <5> QED
            BY <5>1, <5>2
        <4> QED
          BY <4>1
      <3>5. \A q \in PaidOnes' : PaysPeriod(q)' => pay'[q].period < charge'.paid
        BY <1>0, <1>2, <2>0, <3>0 DEF PeriodsPaidOnce, PaidOnes
      <3> QED
        BY <3>1, <3>4, <3>5 DEF PeriodsPaidOnce, PaidFor
    <2>2. CASE ~(PaysPeriod(p) /\ IsFirstUnpaid(p))
      <3>0. charge'.paid = charge.paid
        BY <1>1, <2>2
      <3>1. Due'
        BY <1>1, <1>2, <1>3, <2>0, <3>0 DEF Due
      <3>2. ASSUME charge.exists PROVE p \in twice' \/ ~PaysPeriod(p)
        BY <1>1, <1>4, <2>2, <3>2
      <3>3. ASSUME charge.exists, NEW k PROVE PaidFor(k)' = PaidFor(k)
        <4>1. \A q \in Payments \ {p} : q \in twice' <=> q \in twice
          BY <1>1
        <4> QED
          BY <1>2, <2>0, <3>2, <3>3, <4>1 DEF PaidFor, PaidOnes
      <3>4. ASSUME charge.exists, PaysPeriod(p) PROVE pay[p].period < charge.paid
        <4>1. pay[p].period <= charge.paid
          BY <3>4 DEF Due
        <4>2. pay[p].period # charge.paid
          BY <2>2, <3>4 DEF IsFirstUnpaid
        <4> QED
          BY <1>0, <4>1, <4>2
      <3>5. ASSUME charge.exists
            PROVE  /\ \A k \in 0..(charge'.paid - 1) : Cardinality(PaidFor(k)') = 1
                   /\ \A q \in PaidOnes' : PaysPeriod(q)' => pay'[q].period < charge'.paid
        <4>1. \A k \in 0..(charge.paid - 1) : Cardinality(PaidFor(k)) = 1
          BY <3>5 DEF PeriodsPaidOnce, PaidFor
        <4>2. \A q \in PaidOnes : PaysPeriod(q) => pay[q].period < charge.paid
          BY <3>5 DEF PeriodsPaidOnce
        <4>3. \A q \in PaidOnes' : PaysPeriod(q)' => pay'[q].period < charge'.paid
          BY <1>2, <2>0, <3>0, <3>4, <3>5, <4>2 DEF PaidOnes
        <4> QED
          BY <3>0, <3>3, <3>5, <4>1, <4>3
      <3> QED
        BY <1>1, <3>1, <3>5 DEF PeriodsPaidOnce, PaidFor
    <2> QED
      BY <2>1, <2>2
  <1>5. CASE ~(Ends(p, how.paid) /\ how.paid)
    <2>1. PaidOnes' = PaidOnes /\ UNCHANGED twice /\ charge'.paid = charge.paid
      <3>1. UNCHANGED twice /\ charge'.paid = charge.paid
        BY <1>1, <1>5
      <3>2. pay'[p].state = "paid" <=> pay[p].state = "paid"
        BY <1>1, <1>5 DEF Ends, Hows
      <3> QED
        BY <1>1, <3>1, <3>2 DEF PaidOnes
    <2>2. Due'
      BY <1>1, <1>2, <1>3, <2>1 DEF Due
    <2>3. \A k : PaidFor(k)' = PaidFor(k)
      BY <1>2, <2>1 DEF PaidFor, PaidOnes
    <2>4. PeriodsPaidOnce'
      BY <1>1, <1>2, <2>1, <2>3 DEF PeriodsPaidOnce, PaidFor, PaidOnes
    <2> QED
      BY <2>2, <2>4
  <1> QED
    BY <1>4, <1>5

(* The steps that start a payment, look at it or let it age, and settle    *)
(* nothing.                                                                *)

\* What no step undoes that settles nothing: the payments that have begun
\* keep what they pay, and how they ended.
Untouched ==
  \A q \in Payments : /\ pay'[q].kind = pay[q].kind /\ pay'[q].state = pay[q].state
                      /\ pay'[q].period = pay[q].period

\* A step of payment p's own, or of its transaction.
LEMMA OwnStep ==
  ASSUME TypeOK, StartOK, ReadsOK, EndsOK, Alone, NEW p \in Payments,
         CreateTransaction(p) \/ SetTransaction(p) \/ ShowPage(p) \/ Charge(p) \/ Crash(p)
           \/ Ended(p) \/ Grow(p)
  PROVE  /\ TypeOK' /\ StartOK' /\ ReadsOK' /\ EndsOK' /\ Alone'
         /\ Untouched /\ UNCHANGED <<charge, twice, listed, account, used>>
  <1>0. /\ pay \in [Payments -> Rows]
        /\ tx \in [Payments -> {"none", "created", "open", "paid", "failed", "otherAmount"}]
        /\ start \in [Payments -> {"none", "create", "tie", "page", "charge", "answer", "done"}]
        /\ reads \subseteq Readings
    BY Typed
  <1>1. /\ pay' \in [Payments -> Rows]
        /\ \A q \in Payments \ {p} : pay'[q] = pay[q]
        /\ pay'[p].kind = pay[p].kind /\ pay'[p].state = pay[p].state
        /\ pay'[p].period = pay[p].period
        /\ (~SetTransaction(p) => pay'[p].tied = pay[p].tied)
        /\ (~Grow(p) => pay'[p].age = pay[p].age)
        /\ (SetTransaction(p) => pay'[p].tied)
        /\ (Grow(p) => pay'[p].age = pay[p].age + 1 /\ pay[p].age < Day)
        /\ pay[p].age \in Nat
    <2>0. pay[p] \in Rows /\ pay[p].age \in 0..4
      BY <1>0, ConstantTypes DEF Rows
    <2>1. CASE SetTransaction(p)
      <3>1. pay' = [pay EXCEPT ![p].tied = TRUE] /\ ~Grow(p)
        <4>1. pay' = [pay EXCEPT ![p].tied = TRUE]
          BY <2>1 DEF SetTransaction
        <4>2. start' # start
          BY <1>0, <2>1 DEF SetTransaction, Go
        <4> QED
          BY <4>1, <4>2 DEF Grow
      <3>2. pay'[p] = [pay[p] EXCEPT !.tied = TRUE]
        BY <1>0, <3>1
      <3>3. /\ pay'[p] \in Rows /\ pay'[p].kind = pay[p].kind /\ pay'[p].state = pay[p].state
            /\ pay'[p].period = pay[p].period /\ pay'[p].age = pay[p].age /\ pay'[p].tied
        BY <2>0, <3>2 DEF Rows
      <3>4. pay' \in [Payments -> Rows] /\ \A q \in Payments \ {p} : pay'[q] = pay[q]
        BY <1>0, <3>1, <3>2, <3>3
      <3> QED
        BY <2>0, <2>1, <3>1, <3>3, <3>4
    <2>2. CASE Grow(p)
      <3>1. pay' = [pay EXCEPT ![p].age = @ + 1] /\ start' = start /\ pay[p].age < Day
        BY <2>2 DEF Grow
      <3>2. ~SetTransaction(p)
        BY <1>0, <3>1 DEF SetTransaction, Go
      <3>3. pay[p].age + 1 \in 0..4
        BY <2>0, <3>1, ConstantTypes
      <3> QED
        BY <1>0, <2>0, <2>2, <3>1, <3>2, <3>3, ConstantTypes DEF Rows
    <2>3. CASE ~SetTransaction(p) /\ ~Grow(p)
      <3>1. pay' = pay
        BY <2>3 DEF CreateTransaction, ShowPage, Charge, Crash, Ended
      <3> QED
        BY <1>0, <2>0, <2>3, <3>1
    <2> QED
      BY <2>1, <2>2, <2>3
  <1>2. UNCHANGED <<account, charge, twice, forgotten, deleted, started, listed, reads, forgetting,
                    used, spends, acts>>
    BY DEF CreateTransaction, SetTransaction, ShowPage, Charge, Crash, Ended, Grow, money, bounds
  <1>3. \A q \in Payments \ {p} : tx'[q] = tx[q] /\ start'[q] = start[q]
    BY <1>0 DEF CreateTransaction, SetTransaction, ShowPage, Charge, Crash, Ended, Grow, Go
  <1>4. /\ tx' \in [Payments -> {"none", "created", "open", "paid", "failed", "otherAmount"}]
        /\ start' \in [Payments -> {"none", "create", "tie", "page", "charge", "answer", "done"}]
    BY <1>0 DEF CreateTransaction, SetTransaction, ShowPage, Charge, Crash, Ended, Grow, Go
  <1>5. TypeOK'
    <2>1. pay' \in [Payments -> Rows]
      BY <1>1
    <2> QED
      BY <2>1, <1>2, <1>4, Typed DEF TypeOK, Rows
  \* Where p's own steps take it.
  <1>6. \/ start[p] = "create" /\ start'[p] = "tie" /\ tx'[p] = "created" /\ pay' = pay
        \/ /\ start[p] = "tie" /\ start'[p] \in {"charge", "page"} /\ tx' = tx
           /\ pay'[p].tied /\ pay'[p].age = pay[p].age
        \/ /\ start[p] \in {"page", "charge"} /\ start'[p] \in {"answer", "done"}
           /\ tx'[p] = "open" /\ pay' = pay
        \/ /\ start[p] \notin {"none", "done"} /\ start'[p] = "done" /\ tx' = tx /\ pay' = pay
        \/ /\ tx[p] = "open" /\ tx'[p] \in {"paid", "failed", "otherAmount"}
           /\ start' = start /\ pay' = pay
        \/ /\ pay[p].kind # "none" /\ tx' = tx /\ start' = start /\ pay'[p].tied = pay[p].tied
           /\ pay'[p].age = pay[p].age + 1 /\ pay[p].age < Day
           /\ (pay[p].age < Minute \/ (start[p] = "done" /\ \A r \in reads : r.p # p))
    <2>1. CASE CreateTransaction(p)
      BY <1>0, <2>1 DEF CreateTransaction, Go
    <2>2. CASE SetTransaction(p)
      <3>1. pay'[p].tied /\ pay'[p].age = pay[p].age
        BY <1>0, <2>2 DEF SetTransaction, Rows
      <3> QED
        BY <1>0, <2>2, <3>1 DEF SetTransaction, Go
    <2>3. CASE ShowPage(p)
      BY <1>0, <2>3 DEF ShowPage, Go
    <2>4. CASE Charge(p)
      BY <1>0, <2>4 DEF Charge, Go
    <2>5. CASE Crash(p)
      BY <1>0, <2>5 DEF Crash, Go
    <2>6. CASE Ended(p)
      BY <1>0, <2>6 DEF Ended
    <2>7. CASE Grow(p)
      <3>1. pay'[p].tied = pay[p].tied /\ pay'[p].age = pay[p].age + 1
        BY <1>0, <2>7 DEF Grow, Rows
      <3> QED
        BY <2>7, <3>1 DEF Grow
    <2> QED
      BY <2>1, <2>2, <2>3, <2>4, <2>5, <2>6, <2>7
  <1>7. StartOK'
    <2>1. \A q \in Payments \ {p} : pay'[q] = pay[q] /\ tx'[q] = tx[q] /\ start'[q] = start[q]
      BY <1>1, <1>3
    <2>2. ~(start'[p] = "none") /\ pay'[p].kind # "none"
      BY <1>1, <1>6 DEF StartOK
    <2>3. /\ start'[p] = "create" => tx'[p] = "none" /\ ~pay'[p].tied /\ pay'[p].state = "pending"
          /\ start'[p] = "tie" => tx'[p] = "created" /\ ~pay'[p].tied /\ pay'[p].state = "pending"
          /\ start'[p] = "page" => tx'[p] = "created" /\ pay'[p].tied /\ pay'[p].state = "pending"
          /\ start'[p] = "charge" => tx'[p] = "created" /\ pay'[p].tied /\ pay'[p].state = "pending"
          /\ start'[p] = "answer" => tx'[p] \in {"open", "paid", "failed", "otherAmount"}
                                     /\ pay'[p].tied
      BY <1>1, <1>6 DEF StartOK
    <2>4. /\ tx'[p] \in {"open", "paid", "failed", "otherAmount"} => start'[p] \in {"answer", "done"}
          /\ ~pay'[p].tied => tx'[p] \in {"none", "created"}
          /\ start'[p] # "done" => pay'[p].age <= Minute
      BY <1>1, <1>6, ConstantTypes DEF StartOK
    <2> QED
      BY <2>1, <2>2, <2>3, <2>4 DEF StartOK
  <1>8. ReadsOK'
    <2>1. ASSUME NEW q \in Payments, tx[q] = "paid" PROVE tx'[q] = "paid"
      BY <1>3, <1>6, <2>1 DEF StartOK
    <2>2. ASSUME NEW q \in Payments, Over(q), \E r \in reads : r.p = q PROVE Over(q)'
      <3>1. CASE q # p
        BY <1>1, <1>3, <2>2, <3>1 DEF Over
      <3>2. CASE q = p
        BY <1>1, <1>6, <2>2, <3>2, ConstantTypes DEF Over, StartOK
      <3> QED
        BY <3>1, <3>2
    <2>3. ASSUME NEW r \in reads'
          PROVE  IF r.how.paid THEN tx'[r.p] = "paid" ELSE Over(r.p)'
      <3>1. r \in reads /\ r.p \in Payments /\ r.how.paid \in BOOLEAN
        BY <1>0, <1>2 DEF Readings, Hows
      <3>2. IF r.how.paid THEN tx[r.p] = "paid" ELSE Over(r.p)
        BY <3>1 DEF ReadsOK
      <3> QED
        BY <2>1, <2>2, <3>1, <3>2
    <2> QED
      BY <2>3 DEF ReadsOK
  <1>9. EndsOK'
    <2>1. /\ pay'[p].state = "paid" => tx'[p] = "paid"
          /\ pay'[p].state = "none" <=> pay'[p].kind = "none"
      BY <1>1, <1>6 DEF EndsOK, StartOK
    <2>2. tx'[p] = "open" => pay'[p].state = "pending" \/ pay'[p].age = Day
      BY <1>1, <1>6, ConstantTypes DEF EndsOK, StartOK
    <2> QED
      BY <1>1, <1>3, <2>1, <2>2 DEF EndsOK
  <1>10. Untouched
    BY <1>1 DEF Untouched
  <1>11. Alone'
    BY <1>10 DEF Alone, Untouched, ByCard
  <1> QED
    BY <1>2, <1>5, <1>7, <1>8, <1>9, <1>10, <1>11

\* What a look at a payment finds stays so.
LEMMA LookStep ==
  ASSUME TypeOK, StartOK, ReadsOK, EndsOK, Alone, NEW p \in Payments, Looking(p)
  PROVE  /\ TypeOK' /\ StartOK' /\ ReadsOK' /\ EndsOK' /\ Alone'
         /\ Untouched /\ UNCHANGED <<charge, twice, listed, account, used>>
  <1>1. PICK hows : /\ Learn(p, hows)
                    /\ \A how \in hows : /\ how \in Hows
                                         /\ IF how.paid THEN tx[p] = "paid" ELSE Over(p)
    <2>1. \A how \in Settlements(p) : how \in Hows /\ IF how.paid THEN tx[p] = "paid" ELSE Over(p)
      BY SettlementsType DEF Over
    <2>2. CASE Webhook(p) \/ VisitBilling(p)
      BY <2>1, <2>2 DEF Webhook, VisitBilling
    <2>3. CASE Poll(p)
      <3> DEFINE hows == CASE ~pay[p].tied /\ pay[p].age < TenMinutes -> {}
                           [] ~pay[p].tied /\ pay[p].age >= TenMinutes -> {Failed(TRUE)}
                           [] pay[p].tied /\ Settlements(p) = {} /\ pay[p].age >= Day -> {Failed(FALSE)}
                           [] OTHER -> Settlements(p)
      <3>0. /\ pay[p].age \in 0..4 /\ pay[p].tied \in BOOLEAN
            /\ Failed(TRUE) \in Hows /\ ~Failed(TRUE).paid
            /\ Failed(FALSE) \in Hows /\ ~Failed(FALSE).paid
        BY Typed, ConstantTypes, FailedType DEF Rows
      <3>1. Learn(p, hows)
        BY <2>3 DEF Poll
      <3>2. \A how \in hows : how \in Hows /\ IF how.paid THEN tx[p] = "paid" ELSE Over(p)
        <4>0. pay[p].age < TenMinutes <=> ~(pay[p].age >= TenMinutes)
          BY <3>0, ConstantTypes
        <4>1. CASE ~pay[p].tied /\ pay[p].age < TenMinutes
          <5>1. hows = {}
            BY <4>0, <4>1, Zenon
          <5> QED
            BY <5>1
        <4>2. CASE ~pay[p].tied /\ pay[p].age >= TenMinutes
          <5>1. hows = {Failed(TRUE)}
            BY <4>0, <4>2, Zenon
          <5>2. start[p] = "done" /\ tx[p] \in {"none", "created"}
            BY <3>0, <4>2, ConstantTypes DEF StartOK
          <5> QED
            BY <3>0, <5>1, <5>2 DEF Over
        <4>3. CASE pay[p].tied /\ Settlements(p) = {} /\ pay[p].age >= Day
          <5>1. hows = {Failed(FALSE)}
            BY <3>0, <4>3, ConstantTypes
          <5>2. start[p] = "done" /\ pay[p].age = Day
            BY <3>0, <4>3, ConstantTypes DEF StartOK
          <5> QED
            BY <3>0, <5>1, <5>2 DEF Over
        <4>4. CASE pay[p].tied /\ ~(Settlements(p) = {} /\ pay[p].age >= Day)
          <5>1. hows = Settlements(p)
            BY <3>0, <4>4, ConstantTypes
          <5> QED
            BY <2>1, <5>1
        <4> QED
          BY <4>0, <4>1, <4>2, <4>3, <4>4, Zenon
      <3> QED
        BY <3>1, <3>2
    <2> QED
      BY <2>2, <2>3 DEF Looking
  <1>2. PICK how \in hows : reads' = reads \cup {[p |-> p, how |-> how]}
    BY <1>1 DEF Learn
  <1>3. UNCHANGED <<pay, tx, start, account, charge, twice, forgotten, deleted, started, listed,
                    forgetting, used, spends, acts>>
    BY <1>1 DEF Learn, money, bounds
  <1>4. TypeOK'
    <2>1. [p |-> p, how |-> how] \in Readings /\ reads \subseteq Readings
      BY <1>1, Typed DEF Readings
    <2>2. reads' \subseteq Readings
      BY <1>2, <2>1
    <2> QED
      BY <1>3, <2>2 DEF TypeOK, Readings, Hows
  <1>5. ReadsOK'
    <2>1. \A q : Over(q)' <=> Over(q)
      BY <1>3 DEF Over
    <2>2. ASSUME NEW r \in reads' PROVE IF r.how.paid THEN tx'[r.p] = "paid" ELSE Over(r.p)'
      <3>1. CASE r \in reads
        BY <1>3, <2>1, <3>1 DEF ReadsOK
      <3>2. CASE r = [p |-> p, how |-> how]
        <4>1. r.p = p /\ r.how = how
          BY <3>2
        <4>2. IF how.paid THEN tx[p] = "paid" ELSE Over(p)
          BY <1>1
        <4> QED
          BY <1>3, <2>1, <4>1, <4>2
      <3> QED
        BY <1>2, <2>2, <3>1, <3>2
    <2> QED
      BY <2>2 DEF ReadsOK
  <1>6. StartOK' /\ EndsOK' /\ Alone' /\ Untouched
    BY <1>3 DEF StartOK, EndsOK, Alone, ByCard, Untouched
  <1> QED
    BY <1>3, <1>4, <1>5, <1>6

\* A payment is recorded only while no other charge of the card is pending.
LEMMA CreateStep ==
  ASSUME Inv, NEW l \in listed, CreatePayment(l)
  PROVE  Inv' /\ UNCHANGED <<charge, twice, account, used>>
  <1>0. /\ pay \in [Payments -> Rows]
        /\ tx \in [Payments -> {"none", "created", "open", "paid", "failed", "otherAmount"}]
        /\ start \in [Payments -> {"none", "create", "tie", "page", "charge", "answer", "done"}]
        /\ reads \subseteq Readings /\ listed \subseteq Lists /\ l \in Lists
        /\ StartOK /\ ReadsOK /\ EndsOK /\ Alone /\ Due /\ PeriodsPaidOnce
    BY Typed DEF Inv
  <1>1. UNCHANGED <<tx, account, charge, twice, forgotten, deleted, started, reads, forgetting,
                    used, spends, acts>>
        /\ listed' = listed \ {l}
    BY DEF CreatePayment, money, bounds
  <1>2. CASE UNCHANGED <<pay, start>>
    <2>1. TypeOK'
      BY <1>0, <1>1, <1>2 DEF Inv, TypeOK
    <2>2. StartOK' /\ EndsOK' /\ Alone'
      BY <1>0, <1>1, <1>2 DEF StartOK, EndsOK, Alone, ByCard
    <2>3. ReadsOK'
      BY <1>0, <1>1, <1>2 DEF ReadsOK, Over
    <2>4. Due' /\ PeriodsPaidOnce'
      BY <1>0, <1>1, <1>2 DEF Due, PeriodsPaidOnce, PaidOnes, PaysPeriod, Made
    <2> QED
      BY <1>1, <2>1, <2>2, <2>3, <2>4 DEF Inv
  <1>3. CASE ~UNCHANGED <<pay, start>>
    <2> DEFINE new == [Unmade EXCEPT !.kind = l.kind, !.state = "pending", !.period = l.period,
                                     !.save = l.save, !.token = l.token]
    <2>1. PICK p \in Payments : /\ StillDue(l) /\ pay[p] = Unmade
                                /\ pay' = [pay EXCEPT ![p] = new]
                                /\ start' = [start EXCEPT ![p] = "create"]
      BY <1>3 DEF CreatePayment
    <2>2. /\ l.kind \in AllKinds /\ l.kind # "none" /\ l.period \in 0..MaxPeriods
          /\ l.save \in BOOLEAN /\ l.token \in Cards
      BY <1>0 DEF Lists, AllKinds
    <2>3. /\ new \in Rows /\ new.kind = l.kind /\ new.state = "pending" /\ new.period = l.period
          /\ ~new.tied /\ new.age = 0
      BY <2>2, ConstantTypes DEF Unmade, Rows
    <2> HIDE DEF new
    <2>4. /\ pay' \in [Payments -> Rows] /\ pay'[p] = new
          /\ \A q \in Payments \ {p} : pay'[q] = pay[q]
          /\ start' \in [Payments -> {"none", "create", "tie", "page", "charge", "answer", "done"}]
          /\ start'[p] = "create" /\ \A q \in Payments \ {p} : start'[q] = start[q]
      BY <1>0, <2>1, <2>3
    <2>5. start[p] = "none" /\ tx[p] = "none" /\ pay[p].kind = "none" /\ pay[p].state = "none"
      BY <1>0, <2>1 DEF StartOK, Unmade
    <2>6. TypeOK'
      <3>1. listed' \subseteq Lists
        BY <1>0, <1>1
      <3> QED
        BY <1>1, <2>4, <3>1, Typed DEF Inv, TypeOK, Rows, Lists
    <2>7. StartOK'
      BY <1>0, <1>1, <2>2, <2>3, <2>4, <2>5, ConstantTypes DEF StartOK
    <2>8. ReadsOK'
      <3>1. \A r \in reads : r.p \in Payments /\ r.p # p /\ r.how.paid \in BOOLEAN
        <4>1. \A r \in reads : r.p \in Payments /\ r.how.paid \in BOOLEAN
          BY <1>0 DEF Readings, Hows
        <4>2. \A r \in reads : r.how.paid => r.p # p
          BY <1>0, <2>5 DEF ReadsOK
        <4>3. ~Over(p)
          BY <2>5 DEF Over
        <4> QED
          BY <1>0, <4>1, <4>2, <4>3 DEF ReadsOK
      <3>2. \A q \in Payments \ {p} : Over(q) => Over(q)'
        BY <1>1, <2>4 DEF Over
      <3> QED
        BY <1>0, <1>1, <3>1, <3>2 DEF ReadsOK
    <2>9. EndsOK'
      BY <1>0, <1>1, <2>2, <2>3, <2>4, <2>5 DEF EndsOK
    <2>10. Alone'
      <3>1. ASSUME NEW q \in Payments \ {p}, pay[q].kind = l.kind, l.kind \in {"auto", "card"}
            PROVE  pay[q].state # "pending"
        <4>1. CASE l.kind = "auto"
          <5>1. TopUpIsDue
            BY <2>1, <4>1 DEF StillDue
          <5> QED
            BY <3>1, <4>1, <5>1 DEF TopUpIsDue, Made
        <4>2. CASE l.kind = "card"
          <5>1. ChargeIsDue
            BY <2>1, <4>2 DEF StillDue
          <5> QED
            BY <3>1, <4>2, <5>1 DEF ChargeIsDue, Made
        <4> QED
          BY <3>1, <4>1, <4>2
      <3>2. ASSUME NEW q \in Payments, NEW r \in Payments, q # r, ByCard(q)',
                   pay'[q].kind = pay'[r].kind
            PROVE  pay'[q].state # "pending" \/ pay'[r].state # "pending"
        <4>1. CASE q = p
          BY <2>3, <2>4, <3>1, <3>2, <4>1 DEF ByCard
        <4>2. CASE r = p
          BY <2>3, <2>4, <3>1, <3>2, <4>2 DEF ByCard
        <4>3. CASE q # p /\ r # p
          BY <1>0, <2>4, <3>2, <4>3 DEF Alone, ByCard
        <4> QED
          BY <4>1, <4>2, <4>3
      <3> QED
        BY <3>2 DEF Alone
    <2>11. PaidOnes' = PaidOnes
      BY <2>3, <2>4, <2>5 DEF PaidOnes
    <2>12. Due'
      <3>1. \A q \in Payments : PaysPeriod(q)' => pay'[q].period <= charge'.paid
        BY <1>0, <1>1, <2>3, <2>4 DEF Due, PaysPeriod
      <3>2. Made({"page", "card"}) \subseteq Made({"page", "card"})'
        BY <2>4, <2>5 DEF Made
      <3> QED
        BY <1>0, <1>1, <2>11, <3>1, <3>2 DEF Due
    <2>13. PeriodsPaidOnce'
      <3>1. \A q \in PaidOnes : pay'[q] = pay[q] /\ (PaysPeriod(q)' <=> PaysPeriod(q))
        BY <2>4, <2>5 DEF PaidOnes, PaysPeriod
      <3>2. \A k : PaidFor(k)' = PaidFor(k)
        BY <1>1, <2>11, <3>1 DEF PaidFor
      <3> QED
        BY <1>0, <1>1, <2>11, <3>1, <3>2 DEF PeriodsPaidOnce, PaidFor
    <2> QED
      BY <1>1, <2>6, <2>7, <2>8, <2>9, <2>10, <2>12, <2>13 DEF Inv
  <1> QED
    BY <1>2, <1>3

(* The other steps.                                                        *)

\* A step that leaves the payments and their transactions alone.
LEMMA QuietStep ==
  ASSUME StartOK, ReadsOK, EndsOK, Alone, UNCHANGED <<pay, tx, start>>, reads' \subseteq reads
  PROVE  StartOK' /\ ReadsOK' /\ EndsOK' /\ Alone' /\ Untouched
  <1>1. StartOK' /\ EndsOK' /\ Alone' /\ Untouched
    BY DEF StartOK, EndsOK, Alone, ByCard, Untouched
  <1>2. ReadsOK'
    BY DEF ReadsOK, Over
  <1> QED
    BY <1>1, <1>2

\* A step that moves no payment to its end leaves the periods as they are.
LEMMA PeriodsStay ==
  ASSUME Due, PeriodsPaidOnce, Untouched, charge'.paid = charge.paid, twice' = twice,
         charge'.exists => charge.exists,
         \A l \in listed' : l \in listed \/ (l.kind \in {"page", "card"} => l.period <= charge.paid)
  PROVE  Due' /\ PeriodsPaidOnce'
  <1>1. PaidOnes' = PaidOnes /\ Made({"page", "card"})' = Made({"page", "card"})
    BY DEF Untouched, PaidOnes, Made
  <1>2. \A q \in Payments : (PaysPeriod(q)' <=> PaysPeriod(q)) /\ pay'[q].period = pay[q].period
    BY DEF Untouched, PaysPeriod
  <1>3. Due'
    BY <1>1, <1>2 DEF Due
  <1>4. ASSUME NEW k PROVE PaidFor(k)' = PaidFor(k)
    BY <1>1, <1>2 DEF PaidFor, PaidOnes
  <1>5. \A q \in PaidOnes' : q \in PaidOnes /\ q \in Payments
    BY <1>1 DEF PaidOnes
  <1>6. ASSUME charge'.exists
        PROVE  /\ \A k \in 0..(charge'.paid - 1) : Cardinality(PaidFor(k)') = 1
               /\ \A q \in PaidOnes' : PaysPeriod(q)' => pay'[q].period < charge'.paid
    <2>1. \A k \in 0..(charge.paid - 1) : Cardinality(PaidFor(k)) = 1
      BY <1>6 DEF PeriodsPaidOnce, PaidFor
    <2>2. \A q \in PaidOnes : PaysPeriod(q) => pay[q].period < charge.paid
      BY <1>6 DEF PeriodsPaidOnce
    <2> QED
      BY <1>2, <1>4, <1>5, <2>1, <2>2
  <1> QED
    BY <1>3, <1>6 DEF PeriodsPaidOnce, PaidFor

\* What is asked for or found due is a payment of the first unpaid period.
LEMMA ListStep ==
  ASSUME Inv,
         (\E kind \in {"auto", "card"} : ListDue(kind)) \/ (\E save \in BOOLEAN : AskTopUp(save))
           \/ PayCharge
  PROVE  Inv' /\ UNCHANGED <<pay, account, used>>
  <1>0. /\ account \in Accounts /\ charge \in Charges /\ started \in 0..MaxPeriods
        /\ listed \subseteq Lists /\ acts \in 0..MaxAdmin
        /\ StartOK /\ ReadsOK /\ EndsOK /\ Alone /\ Due /\ PeriodsPaidOnce
    BY Typed DEF Inv
  <1>1. UNCHANGED <<pay, tx, start, account, charge, twice, forgotten, deleted, started, reads,
                    forgetting, used, spends>>
    BY DEF ListDue, AskTopUp, PayCharge, money, bounds
  <1>2. acts' \in 0..MaxAdmin
    BY <1>0, ConstantTypes DEF ListDue, AskTopUp, PayCharge, bounds
  <1>3. PICK l \in Lists : /\ listed' = listed \cup {l}
                           /\ l.kind \in {"page", "card"} => l.period = charge.paid
    <2>1. ASSUME NEW kind \in {"auto", "card"}, ListDue(kind)
          PROVE  \E l \in Lists : /\ listed' = listed \cup {l}
                                  /\ l.kind \in {"page", "card"} => l.period = charge.paid
      <3> DEFINE k == IF kind = "card" THEN charge.paid ELSE 0
                 l == [kind |-> kind, token |-> account.card, save |-> FALSE, period |-> k]
      <3>1. k \in 0..MaxPeriods
        <4>1. kind = "card" => charge.paid < started
          BY <2>1 DEF ListDue, ChargeIsDue
        <4> QED
          BY <1>0, <4>1, ConstantTypes DEF Charges
      <3>2. l \in Lists
        BY <1>0, <3>1 DEF Lists, AllKinds, Accounts
      <3>3. listed' = listed \cup {l}
        BY <2>1 DEF ListDue
      <3>4. l.kind \in {"page", "card"} => l.period = charge.paid
        OBVIOUS
      <3> QED
        BY <3>2, <3>3, <3>4
    <2>2. ASSUME NEW save \in BOOLEAN, AskTopUp(save)
          PROVE  \E l \in Lists : /\ listed' = listed \cup {l}
                                  /\ l.kind \in {"page", "card"} => l.period = charge.paid
      <3> DEFINE l == [kind |-> "topup", token |-> NoCard, period |-> 0, save |-> save]
      <3>1. l \in Lists /\ l.kind = "topup"
        BY ConstantTypes DEF Lists, AllKinds
      <3>2. listed' = listed \cup {l}
        BY <2>2 DEF AskTopUp
      <3> QED
        BY <3>1, <3>2
    <2>3. ASSUME PayCharge
          PROVE  \E l \in Lists : /\ listed' = listed \cup {l}
                                  /\ l.kind \in {"page", "card"} => l.period = charge.paid
      <3> DEFINE l == [kind |-> "page", token |-> NoCard, period |-> charge.paid, save |-> TRUE]
      <3>1. charge.paid \in 0..MaxPeriods
        BY <1>0, <2>3, ConstantTypes DEF PayCharge, Charges
      <3>2. l \in Lists /\ l.period = charge.paid
        BY <3>1, ConstantTypes DEF Lists, AllKinds
      <3>3. listed' = listed \cup {l}
        BY <2>3 DEF PayCharge
      <3> QED
        BY <3>2, <3>3
    <2> QED
      BY <2>1, <2>2, <2>3
  <1>4. TypeOK'
    <2>1. listed' \subseteq Lists
      BY <1>0, <1>3
    <2> QED
      BY <1>1, <1>2, <2>1 DEF Inv, TypeOK, Lists
  <1>5. StartOK' /\ ReadsOK' /\ EndsOK' /\ Alone' /\ Untouched
    BY <1>0, <1>1, QuietStep
  <1>6. Due' /\ PeriodsPaidOnce'
    <2>1. charge.paid <= charge.paid
      BY <1>0, ConstantTypes DEF Charges
    <2>2. \A m \in listed' : m \in listed \/ (m.kind \in {"page", "card"} => m.period <= charge.paid)
      BY <1>3, <2>1
    <2> QED
      BY <1>0, <1>1, <1>5, <2>2, PeriodsStay
  <1> QED
    BY <1>1, <1>4, <1>5, <1>6 DEF Inv

\* What the people, the users of credit and time change.
LEMMA AdminStep ==
  ASSUME Inv,
         UpdateCredit \/ AskForget \/ ForgetCard \/ DeleteCharge \/ NextPeriod
           \/ (\E micros \in {1, -1} : Use(micros)) \/ (\E r \in reads : RecordLost(r))
  PROVE  /\ Inv' /\ UNCHANGED pay
         /\ account'.balance + used' = account.balance + used
  <1>0. /\ account \in Accounts /\ charge \in Charges /\ started \in 0..MaxPeriods
        /\ acts \in 0..MaxAdmin /\ spends \in 0..MaxSpend /\ used \in Int
        /\ forgotten \subseteq Cards /\ deleted \subseteq forgotten /\ reads \subseteq Readings
        /\ StartOK /\ ReadsOK /\ EndsOK /\ Alone /\ Due /\ PeriodsPaidOnce
    BY Typed DEF Inv
  <1>1. UNCHANGED <<pay, tx, start, twice, listed>> /\ reads' \subseteq reads
    BY DEF UpdateCredit, AskForget, ForgetCard, DeleteCharge, NextPeriod, Use, RecordLost, money,
           bounds
  <1>2. /\ acts' \in 0..MaxAdmin /\ spends' \in 0..MaxSpend /\ used' \in Int
        /\ started' \in 0..MaxPeriods /\ forgetting' \in BOOLEAN
    <2>a. acts' = acts \/ (acts < MaxAdmin /\ acts' = acts + 1)
      BY DEF UpdateCredit, AskForget, ForgetCard, DeleteCharge, NextPeriod, Use, RecordLost, bounds
    <2>1. acts' \in 0..MaxAdmin
      BY <1>0, <2>a, ConstantTypes
    <2>b. \/ spends' = spends /\ used' = used
          \/ spends < MaxSpend /\ spends' = spends + 1 /\ used' \in {used + 1, used + -1}
      BY DEF UpdateCredit, AskForget, ForgetCard, DeleteCharge, NextPeriod, Use, RecordLost, bounds
    <2>2. spends' \in 0..MaxSpend /\ used' \in Int
      BY <1>0, <2>b, ConstantTypes
    <2>c. started' = started \/ (started < MaxPeriods /\ started' = started + 1)
      BY DEF UpdateCredit, AskForget, ForgetCard, DeleteCharge, NextPeriod, Use, RecordLost
    <2>3. started' \in 0..MaxPeriods
      BY <1>0, <2>c, ConstantTypes
    <2>4. forgetting' \in BOOLEAN
      BY Typed DEF Inv, UpdateCredit, AskForget, ForgetCard, DeleteCharge, NextPeriod, Use,
         RecordLost
    <2> QED
      BY <2>1, <2>2, <2>3, <2>4
  <1>3. /\ account' \in Accounts /\ account'.balance + used' = account.balance + used
    <2>1. CASE \E micros \in {1, -1} : Use(micros)
      <3>1. PICK micros \in {1, -1} : Use(micros)
        BY <2>1
      <3>2. /\ account' = [account EXCEPT !.balance = account.balance - micros]
            /\ used' = used + micros
        BY <3>1 DEF Use
      <3>3. account.balance \in Int /\ micros \in Int
        BY <1>0 DEF Accounts
      <3> QED
        BY <1>0, <3>2, <3>3 DEF Accounts
    <2>2. CASE UpdateCredit
      <3>1. used' = used
        BY <2>2 DEF UpdateCredit
      <3>2. account' \in Accounts /\ account'.balance = account.balance
        <4>1. CASE \E on \in BOOLEAN : account' = [account EXCEPT !.on = on, !.error = FALSE]
          BY <1>0, <4>1 DEF Accounts
        <4>2. CASE account' = [account EXCEPT !.invoiced = ~@]
          BY <1>0, <4>2 DEF Accounts
        <4> QED
          BY <2>2, <4>1, <4>2 DEF UpdateCredit
      <3> QED
        BY <3>1, <3>2
    <2>3. CASE ForgetCard
      <3>1. used' = used /\ account' = [account EXCEPT !.card = NoCard, !.on = FALSE]
        BY <2>3 DEF ForgetCard, bounds
      <3> QED
        BY <1>0, <3>1, ConstantTypes DEF Accounts
    <2>4. CASE account' = account /\ used' = used
      BY <1>0, <2>4
    <2> QED
      BY <2>1, <2>2, <2>3, <2>4 DEF AskForget, DeleteCharge, NextPeriod, RecordLost, money, bounds
  <1>4. charge' \in Charges /\ charge'.paid = charge.paid /\ (charge'.exists => charge.exists)
    <2>1. CASE DeleteCharge
      BY <1>0, <2>1 DEF DeleteCharge, Charges
    <2>2. CASE ~DeleteCharge
      BY <1>0, <2>2 DEF UpdateCredit, AskForget, ForgetCard, NextPeriod, Use, RecordLost, money
    <2> QED
      BY <2>1, <2>2
  <1>5. forgotten' \subseteq Cards /\ deleted' \subseteq forgotten'
    <2>1. CASE ForgetCard
      BY <1>0, <2>1 DEF ForgetCard, Accounts
    <2>2. CASE ~ForgetCard
      BY <1>0, <2>2 DEF UpdateCredit, AskForget, DeleteCharge, NextPeriod, Use, RecordLost, money
    <2> QED
      BY <2>1, <2>2
  <1>6. TypeOK'
    <2>1. reads' \subseteq Readings
      BY <1>0, <1>1
    <2> QED
      BY <1>1, <1>2, <1>3, <1>4, <1>5, <2>1 DEF Inv, TypeOK, Accounts, Charges, Readings, Hows
  <1>7. StartOK' /\ ReadsOK' /\ EndsOK' /\ Alone' /\ Untouched
    BY <1>0, <1>1, QuietStep
  <1>8. Due' /\ PeriodsPaidOnce'
    BY <1>0, <1>1, <1>4, <1>7, PeriodsStay
  <1> QED
    BY <1>1, <1>3, <1>6, <1>7, <1>8 DEF Inv

\* A charge begins with its first period, and with nothing paid.
LEMMA CreateChargeStep ==
  ASSUME Inv, CreateCharge
  PROVE  Inv' /\ UNCHANGED <<pay, account, used>>
  <1>0. /\ charge \in Charges /\ acts \in 0..MaxAdmin
        /\ StartOK /\ ReadsOK /\ EndsOK /\ Alone /\ Due
    BY Typed DEF Inv
  <1>1. /\ UNCHANGED <<pay, tx, start, account, twice, forgotten, deleted, started, listed, reads,
                       forgetting, used, spends>>
        /\ charge' = [charge EXCEPT !.exists = TRUE]
        /\ Made({"page", "card"}) = {} /\ acts < MaxAdmin /\ acts' = acts + 1
    BY DEF CreateCharge
  <1>2. charge' \in Charges /\ charge'.paid = charge.paid
    BY <1>0, <1>1 DEF Charges
  <1>3. acts' \in 0..MaxAdmin
    BY <1>0, <1>1, ConstantTypes
  <1>4. TypeOK'
    BY <1>1, <1>2, <1>3 DEF Inv, TypeOK, Charges
  <1>5. StartOK' /\ ReadsOK' /\ EndsOK' /\ Alone'
    BY <1>0, <1>1, QuietStep
  <1>6. Due'
    BY <1>0, <1>1, <1>2 DEF Due, PaysPeriod, Made, PaidOnes
  <1>7. PeriodsPaidOnce'
    <2>1. charge'.paid = 0
      BY <1>0, <1>1, <1>2, ConstantTypes DEF Due, Charges
    <2>2. \A q \in Payments : ~PaysPeriod(q)'
      BY <1>1 DEF Made, PaysPeriod
    <2> QED
      BY <2>1, <2>2 DEF PeriodsPaidOnce, PaidOnes
  <1> QED
    BY <1>1, <1>4, <1>5, <1>6, <1>7 DEF Inv

-----------------------------------------------------------------------------
(* Every step.                                                             *)

\* What a step does to the money: one payment that was not paid is, and the
\* balance grows by its credit; or none is, and the balance and what was used
\* change together.  What is paid stays what it was made for.
MoneyMoves ==
  /\ \A q \in PaidOnes' : pay'[q].kind = pay[q].kind
  /\ \/ \E p \in Payments : /\ PaidOnes' = PaidOnes \cup {p} /\ p \notin PaidOnes
                            /\ tx[p] = "paid" /\ used' = used
                            /\ account'.balance = account.balance + Credit(pay[p].kind)
     \/ /\ PaidOnes' = PaidOnes
        /\ account'.balance + used' = account.balance + used

LEMMA SettlingKeeps ==
  ASSUME Inv, NEW p \in Payments, NEW how \in Hows, Settling(p, how)
  PROVE  Inv' /\ MoneyMoves
  <1>0. TypeOK /\ StartOK /\ ReadsOK /\ EndsOK /\ Alone /\ Due /\ PeriodsPaidOnce
    BY DEF Inv
  <1>1. TypeOK'
    BY <1>0, SettlingType
  <1>2. StartOK' /\ ReadsOK' /\ EndsOK' /\ Alone'
    BY <1>0, SettlingEnds
  <1>3. Due' /\ PeriodsPaidOnce'
    BY <1>0, SettlingPeriods
  <1>4. MoneyMoves
    <2>1. /\ \A q \in Payments \ {p} : pay'[q] = pay[q]
          /\ pay'[p].state = IF Ends(p, how.paid) THEN IF how.paid THEN "paid" ELSE "failed"
                             ELSE pay[p].state
          /\ account'.balance = IF Ends(p, how.paid) /\ how.paid
                                THEN account.balance + Credit(pay[p].kind) ELSE account.balance
          /\ used' = used /\ pay'[p].kind = pay[p].kind
      <3>1. Settle(p, how) /\ used' = used
        BY DEF Settling, bounds
      <3> QED
        BY <1>0, <3>1, SettleSteps
    <2>k. \A q \in PaidOnes' : pay'[q].kind = pay[q].kind
      BY <2>1 DEF PaidOnes
    <2>2. CASE Ends(p, how.paid) /\ how.paid
      <3>1. p \notin PaidOnes /\ PaidOnes' = PaidOnes \cup {p}
        <4>1. pay[p].state # "paid" /\ pay'[p].state = "paid"
          BY <2>1, <2>2 DEF Ends
        <4> QED
          BY <2>1, <4>1 DEF PaidOnes
      <3>2. tx[p] = "paid"
        BY <2>2 DEF Settling
      <3> QED
        BY <2>1, <2>2, <2>k, <3>1, <3>2 DEF MoneyMoves
    <2>3. CASE ~(Ends(p, how.paid) /\ how.paid)
      <3>1. pay'[p].state = "paid" <=> pay[p].state = "paid"
        BY <2>1, <2>3 DEF Ends, Hows
      <3>2. PaidOnes' = PaidOnes
        BY <2>1, <3>1 DEF PaidOnes
      <3> QED
        BY <2>1, <2>3, <2>k, <3>2 DEF MoneyMoves
    <2> QED
      BY <2>2, <2>3
  <1> QED
    BY <1>1, <1>2, <1>3, <1>4 DEF Inv

LEMMA StepKeeps ==
  ASSUME Inv, [Next]_vars
  PROVE  Inv' /\ (MoneyMoves \/ UNCHANGED vars)
  <1>0. TypeOK /\ StartOK /\ ReadsOK /\ EndsOK /\ Alone /\ Due /\ PeriodsPaidOnce
    BY DEF Inv
  <1>u. UNCHANGED <<account, used>> => account'.balance + used' = account.balance + used
    OBVIOUS
  <1>s. Untouched => /\ PaidOnes' = PaidOnes
                     /\ \A q \in PaidOnes' : pay'[q].kind = pay[q].kind
    BY DEF Untouched, PaidOnes
  <1>p. UNCHANGED pay => /\ PaidOnes' = PaidOnes
                         /\ \A q \in PaidOnes' : pay'[q].kind = pay[q].kind
    BY DEF PaidOnes
  <1>1. ASSUME NEW p \in Payments,
               CreateTransaction(p) \/ SetTransaction(p) \/ ShowPage(p) \/ Charge(p) \/ Crash(p)
                 \/ Ended(p) \/ Grow(p) \/ Looking(p)
        PROVE  Inv' /\ MoneyMoves
    <2>1. /\ TypeOK' /\ StartOK' /\ ReadsOK' /\ EndsOK' /\ Alone'
          /\ Untouched /\ UNCHANGED <<charge, twice, listed, account, used>>
      <3>1. CASE Looking(p)
        BY <1>0, <3>1, LookStep
      <3>2. CASE ~Looking(p)
        BY <1>0, <1>1, <3>2, OwnStep
      <3> QED
        BY <3>1, <3>2
    <2>2. Due' /\ PeriodsPaidOnce'
      BY <1>0, <2>1, PeriodsStay
    <2> QED
      BY <1>u, <1>s, <2>1, <2>2 DEF Inv, MoneyMoves
  <1>2. ASSUME NEW p \in Payments, StartFails(p) \/ Answered(p) \/ ChargeRefused(p)
        PROVE  Inv' /\ MoneyMoves
    <2>1. \/ \E how \in Hows : Settling(p, how)
          \/ /\ start' = [start EXCEPT ![p] = "done"]
             /\ UNCHANGED <<pay, tx, money, started, listed, reads, forgetting, bounds>>
      BY <1>0, <1>2, SettlingSteps
    <2>2. CASE \E how \in Hows : Settling(p, how)
      BY <2>2, SettlingKeeps
    <2>3. CASE /\ start' = [start EXCEPT ![p] = "done"]
               /\ UNCHANGED <<pay, tx, money, started, listed, reads, forgetting, bounds>>
      <3>1. start[p] \notin {"none", "done"}
        BY <1>2, <2>3 DEF StartFails, Answered, ChargeRefused
      <3>2. Crash(p)
        BY <2>3, <3>1 DEF Crash, Go
      <3> QED
        BY <1>1, <3>2
    <2> QED
      BY <2>1, <2>2, <2>3
  <1>3. ASSUME NEW r \in reads, Record(r) PROVE Inv' /\ MoneyMoves
    <2>1. r.p \in Payments /\ r.how \in Hows /\ Settling(r.p, r.how)
      BY <1>0, <1>3, SettlingSteps
    <2> QED
      BY <2>1, SettlingKeeps
  <1>4. ASSUME NEW l \in listed, CreatePayment(l) PROVE Inv' /\ MoneyMoves
    <2>1. Inv' /\ UNCHANGED <<charge, twice, account, used>>
      BY <1>4, CreateStep
    <2>2. PaidOnes' = PaidOnes /\ \A q \in PaidOnes' : pay'[q].kind = pay[q].kind
      <3>1. CASE UNCHANGED pay
        BY <1>p, <3>1
      <3>2. CASE ~UNCHANGED pay
        <4>1. PICK p \in Payments : /\ pay[p] = Unmade
                                    /\ pay' = [pay EXCEPT ![p] = [Unmade EXCEPT !.kind = l.kind,
                                                  !.state = "pending", !.period = l.period,
                                                  !.save = l.save, !.token = l.token]]
          BY <1>4, <3>2 DEF CreatePayment
        <4>2. pay \in [Payments -> Rows]
          BY <1>0, Typed
        <4>3. /\ pay[p].state = "none" /\ pay'[p].state = "pending"
              /\ \A q \in Payments \ {p} : pay'[q] = pay[q]
          BY <4>1, <4>2 DEF Unmade
        <4> QED
          BY <4>3 DEF PaidOnes
      <3> QED
        BY <3>1, <3>2
    <2> QED
      BY <1>u, <2>1, <2>2 DEF MoneyMoves
  <1>5. ASSUME (\E kind \in {"auto", "card"} : ListDue(kind))
                 \/ (\E save \in BOOLEAN : AskTopUp(save)) \/ PayCharge
        PROVE  Inv' /\ MoneyMoves
    <2>1. Inv' /\ UNCHANGED <<pay, account, used>>
      BY <1>5, ListStep
    <2> QED
      BY <1>u, <1>p, <2>1 DEF MoneyMoves
  <1>6. ASSUME CreateCharge PROVE Inv' /\ MoneyMoves
    <2>1. Inv' /\ UNCHANGED <<pay, account, used>>
      BY <1>6, CreateChargeStep
    <2> QED
      BY <1>u, <1>p, <2>1 DEF MoneyMoves
  <1>7. ASSUME UpdateCredit \/ AskForget \/ ForgetCard \/ DeleteCharge \/ NextPeriod
                 \/ (\E micros \in {1, -1} : Use(micros)) \/ (\E r \in reads : RecordLost(r))
        PROVE  Inv' /\ MoneyMoves
    <2>1. /\ Inv' /\ UNCHANGED pay
          /\ account'.balance + used' = account.balance + used
      BY <1>7, AdminStep
    <2> QED
      BY <1>p, <2>1 DEF MoneyMoves
  <1>8. CASE UNCHANGED vars
    <2>1. UNCHANGED <<pay, tx, start, account, charge, twice, forgotten, deleted, started, listed,
                      reads, forgetting, used, spends, acts>>
      BY <1>8 DEF vars, money, bounds
    <2>2. TypeOK'
      BY <1>0, <2>1 DEF TypeOK
    <2>3. StartOK' /\ ReadsOK' /\ EndsOK' /\ Alone' /\ Untouched
      BY <1>0, <2>1, QuietStep
    <2>4. Due' /\ PeriodsPaidOnce'
      BY <1>0, <2>1, <2>3, PeriodsStay
    <2> QED
      BY <1>8, <2>2, <2>3, <2>4 DEF Inv
  <1> QED
    BY <1>1, <1>2, <1>3, <1>4, <1>5, <1>6, <1>7, <1>8 DEF Next, Starting, People

-----------------------------------------------------------------------------
(* Sums.  SumFunction is a recursive function on the sets of indices; it   *)
(* is there because the index set is finite, by a least counterexample on  *)
(* the size of the set.                                                    *)

LEMMA Least ==
  ASSUME NEW T, T \subseteq Nat, T # {}
  PROVE  \E i \in T : \A j \in T : i <= j
  <1> DEFINE R == {ss \in Nat \X Nat : ss[1] < ss[2]}
  <1>1. OpToRel(<, Nat) = R
    BY Zenon DEF OpToRel
  <1>2. IsWellFoundedOn(R, Nat)
    BY <1>1, NatLessThanWellFounded, Zenon
  <1>3. T \subseteq Nat /\ T # {}
    OBVIOUS
  <1> HIDE DEF R
  <1>4. \E x \in T : \A y \in T : ~(<<y, x>> \in R)
    BY <1>2, <1>3, WFMin, Zenon
  <1>5. PICK x \in T : \A y \in T : ~(<<y, x>> \in R)
    BY <1>4
  <1>6. ASSUME NEW y \in T PROVE x <= y
    <2>1. x \in Nat /\ y \in Nat
      BY <1>3
    <2>2. <<y, x>> \in R <=> y < x
      BY <2>1 DEF R
    <2> QED
      BY <1>5, <2>1, <2>2
  <1> QED
    BY <1>5, <1>6

\* The index a sum takes first, and the ones that are left.
First(s) == CHOOSE x \in s : TRUE
Rest(s) == s \ {First(s)}

\* g sums f over each of the sets in D.
Sums(g, f, D) == g = [s \in D |-> IF s = {} THEN 0 ELSE f[First(s)] + g[Rest(s)]]

\* The subsets of a finite set S lose one member at a time.
LEMMA RestSmaller ==
  ASSUME NEW S, IsFiniteSet(S), NEW s \in SUBSET S
  PROVE  /\ Cardinality(s) \in Nat
         /\ Cardinality(s) <= Cardinality(S) /\ Cardinality(S) \in Nat
         /\ s # {} => /\ First(s) \in s /\ Rest(s) \in SUBSET S
                      /\ Cardinality(Rest(s)) = Cardinality(s) - 1
                      /\ Cardinality(s) # 0
  <1>1. IsFiniteSet(s) /\ Cardinality(s) <= Cardinality(S) /\ Cardinality(S) \in Nat
    BY FS_Subset, FS_CardinalityType
  <1>2. Cardinality(s) \in Nat
    BY <1>1, FS_CardinalityType
  <1>3. ASSUME s # {} PROVE /\ First(s) \in s /\ Rest(s) \in SUBSET S
                            /\ Cardinality(Rest(s)) = Cardinality(s) - 1
                            /\ Cardinality(s) # 0
    <2>1. First(s) \in s
      BY <1>3 DEF First
    <2>2. Cardinality(s \ {First(s)}) = Cardinality(s) - 1
      BY <1>1, <2>1, FS_RemoveElement
    <2>3. Cardinality(s) # 0
      BY <1>1, <1>3, FS_EmptySet
    <2> QED
      BY <2>1, <2>2, <2>3 DEF Rest
  <1> QED
    BY <1>1, <1>2, <1>3

\* What holds of the empty set, and of a set when it holds of what is left of
\* it, holds of every subset: Good is the set of those it holds of.
LEMMA SubsetInduction ==
  ASSUME NEW S, IsFiniteSet(S), NEW Good,
         {} \in Good,
         \A s \in SUBSET S : s # {} /\ Rest(s) \in Good => s \in Good
  PROVE  \A s \in SUBSET S : s \in Good
  <1> DEFINE Bad == {s \in SUBSET S : s \notin Good}
             Sizes == {Cardinality(s) : s \in Bad}
  <1>1. ASSUME Bad # {} PROVE FALSE
    <2>1. Sizes \subseteq Nat /\ Sizes # {}
      BY <1>1, RestSmaller
    <2>2. PICK n \in Sizes : \A m \in Sizes : n <= m
      <3> HIDE DEF Sizes
      <3> QED
        BY <2>1, Least
    <2>3. PICK s \in SUBSET S : s \notin Good /\ n = Cardinality(s)
      BY <2>2
    <2>4. s # {}
      BY <2>3
    <2>5. Rest(s) \in SUBSET S /\ Cardinality(Rest(s)) = n - 1 /\ n \in Nat
      BY <2>3, <2>4, RestSmaller
    <2>6. Rest(s) \notin Bad
      <3>1. Rest(s) \in Bad => Cardinality(Rest(s)) \in Sizes
        OBVIOUS
      <3> HIDE DEF Bad, Sizes
      <3> QED
        BY <3>1, <2>2, <2>5
    <2> QED
      BY <2>3, <2>4, <2>5, <2>6
  <1> QED
    BY <1>1

\* The sums over all subsets of a finite set are there.
LEMMA SumsThere ==
  ASSUME NEW S, IsFiniteSet(S), NEW f
  PROVE  \E g : Sums(g, f, SUBSET S)
  <1> DEFINE D(k) == {s \in SUBSET S : Cardinality(s) <= k}
             Bad == {k \in Nat : ~ \E g : Sums(g, f, D(k))}
  <1>1. ASSUME Bad # {} PROVE FALSE
    <2>1. PICK k \in Bad : \A j \in Bad : k <= j
      <3>1. Bad \subseteq Nat
        OBVIOUS
      <3> HIDE DEF Bad
      <3> QED
        BY <1>1, <3>1, Least
    <2>2. k \in Nat /\ ~ \E g : Sums(g, f, D(k))
      BY <2>1
    <2>3. k # 0
      <3>1. ASSUME k = 0 PROVE FALSE
        <4> DEFINE g == [s \in D(0) |-> 0]
        <4>1. \A s \in D(0) : s = {}
          BY RestSmaller
        <4>2. Sums(g, f, D(0))
          BY <4>1 DEF Sums
        <4> QED
          BY <4>2, <2>2, <3>1
      <3> QED
        BY <3>1
    <2>4. k - 1 \in Nat /\ \E g : Sums(g, f, D(k - 1))
      <3>1. k - 1 \in Nat /\ ~(k <= k - 1)
        BY <2>2, <2>3
      <3>2. k - 1 \notin Bad
        <4> HIDE DEF Bad
        <4> QED
          BY <3>1, <2>1
      <3> QED
        BY <3>1, <3>2
    <2>5. PICK g : Sums(g, f, D(k - 1))
      BY <2>4
    <2> DEFINE h == [s \in D(k) |-> IF s = {} THEN 0 ELSE f[First(s)] + g[Rest(s)]]
    <2>6. ASSUME NEW s \in D(k - 1) PROVE s \in D(k) /\ h[s] = g[s]
      <3>1. s \in D(k)
        BY <2>2, <2>4, RestSmaller
      <3> HIDE DEF D
      <3>2. g[s] = IF s = {} THEN 0 ELSE f[First(s)] + g[Rest(s)]
        BY <2>5 DEF Sums
      <3> QED
        BY <3>1, <3>2
    <2>7. ASSUME NEW s \in D(k), s # {} PROVE Rest(s) \in D(k - 1)
      BY <2>7, <2>2, <2>4, RestSmaller
    <2>8. Sums(h, f, D(k))
      <3> HIDE DEF D
      <3>1. ASSUME NEW s \in D(k)
            PROVE  h[s] = IF s = {} THEN 0 ELSE f[First(s)] + h[Rest(s)]
        <4>1. CASE s = {}
          BY <4>1
        <4>2. CASE s # {}
          <5>1. h[Rest(s)] = g[Rest(s)]
            BY <4>2, <2>6, <2>7
          <5> QED
            BY <4>2, <5>1
        <4> QED
          BY <4>1, <4>2
      <3>2. h = [s \in D(k) |-> h[s]]
        OBVIOUS
      <3> HIDE DEF h
      <3> QED
        BY <3>1, <3>2 DEF Sums
    <2> QED
      BY <2>8, <2>2
  <1>2. Cardinality(S) \in Nat /\ D(Cardinality(S)) = SUBSET S
    BY RestSmaller
  <1> QED
    BY <1>1, <1>2

LEMMA SumIs ==
  ASSUME NEW S, IsFiniteSet(S), NEW f \in [S -> Int]
  PROVE  \E g : /\ SumFunction(f) = g[S]
                /\ g[{}] = 0
                /\ \A s \in SUBSET S : s # {} => g[s] = f[First(s)] + g[Rest(s)]
  <1> DEFINE g == CHOOSE g : Sums(g, f, SUBSET S)
  <1>1. Sums(g, f, SUBSET S)
    BY SumsThere
  <1>2. SumFunction(f) = g[S]
    <2>1. DOMAIN f = S
      OBVIOUS
    <2> QED
      BY <2>1 DEF Sums, First, Rest, SumFunction, SumFunctionOnSet, FoldFunctionOnSet,
         MapThenFoldSet
  <1> HIDE DEF g
  <1>3. \A s \in SUBSET S : g[s] = IF s = {} THEN 0 ELSE f[First(s)] + g[Rest(s)]
    BY <1>1 DEF Sums
  <1> QED
    BY <1>2, <1>3

\* A sum of integers is one.
LEMMA SumInt ==
  ASSUME NEW S, IsFiniteSet(S), NEW f \in [S -> Int]
  PROVE  SumFunction(f) \in Int
  <1>1. PICK g : /\ SumFunction(f) = g[S]
                 /\ g[{}] = 0
                 /\ \A s \in SUBSET S : s # {} => g[s] = f[First(s)] + g[Rest(s)]
    BY SumIs
  <1> DEFINE Good == {s \in SUBSET S : g[s] \in Int}
  <1>2. {} \in Good
    BY <1>1
  <1>3. \A s \in SUBSET S : s # {} /\ Rest(s) \in Good => s \in Good
    <2> TAKE s \in SUBSET S
    <2> HAVE s # {} /\ Rest(s) \in Good
    <2>1. First(s) \in S
      BY RestSmaller
    <2> QED
      BY <1>1, <2>1
  <1>4. S \in Good
    <2> HIDE DEF Good
    <2> QED
      BY <1>2, <1>3, SubsetInduction
  <1> QED
    BY <1>1, <1>4

\* A sum that gains at one index gains as much.
LEMMA SumMoves ==
  ASSUME NEW S, IsFiniteSet(S), NEW f \in [S -> Int], NEW h \in [S -> Int], NEW x \in S,
         \A y \in S \ {x} : h[y] = f[y]
  PROVE  SumFunction(h) = SumFunction(f) + (h[x] - f[x])
  <1> DEFINE d == h[x] - f[x]
  <1>1. PICK a : /\ SumFunction(f) = a[S]
                 /\ a[{}] = 0
                 /\ \A s \in SUBSET S : s # {} => a[s] = f[First(s)] + a[Rest(s)]
    BY SumIs
  <1>2. PICK b : /\ SumFunction(h) = b[S]
                 /\ b[{}] = 0
                 /\ \A s \in SUBSET S : s # {} => b[s] = h[First(s)] + b[Rest(s)]
    BY SumIs
  <1> DEFINE Good == {s \in SUBSET S : /\ a[s] \in Int /\ b[s] \in Int
                                       /\ b[s] = IF x \in s THEN a[s] + d ELSE a[s]}
  <1>3. {} \in Good
    BY <1>1, <1>2
  <1>4. \A s \in SUBSET S : s # {} /\ Rest(s) \in Good => s \in Good
    <2> TAKE s \in SUBSET S
    <2> HAVE s # {} /\ Rest(s) \in Good
    <2>1. First(s) \in s
      BY RestSmaller
    <2>2. a[s] = f[First(s)] + a[Rest(s)] /\ b[s] = h[First(s)] + b[Rest(s)]
      BY <1>1, <1>2
    <2>3. CASE x = First(s)
      <3>1. x \in s /\ x \notin Rest(s)
        BY <2>1, <2>3 DEF Rest
      <3> QED
        BY <2>2, <2>3, <3>1
    <2>4. CASE x # First(s)
      <3>1. (x \in s <=> x \in Rest(s)) /\ h[First(s)] = f[First(s)]
        BY <2>1, <2>4 DEF Rest
      <3>2. f[First(s)] \in Int
        BY <2>1
      <3> QED
        BY <2>2, <3>1, <3>2
    <2> QED
      BY <2>3, <2>4
  <1>5. S \in Good
    <2> HIDE DEF Good
    <2> QED
      BY <1>3, <1>4, SubsetInduction
  <1> QED
    BY <1>1, <1>2, <1>5

LEMMA SumZero ==
  ASSUME NEW S, IsFiniteSet(S), NEW f, f = [x \in S |-> 0]
  PROVE  SumFunction(f) = 0
  <1>0. f \in [S -> Int]
    OBVIOUS
  <1>1. PICK g : /\ SumFunction(f) = g[S]
                 /\ g[{}] = 0
                 /\ \A s \in SUBSET S : s # {} => g[s] = f[First(s)] + g[Rest(s)]
    BY <1>0, SumIs
  <1> DEFINE Good == {s \in SUBSET S : g[s] = 0}
  <1>2. {} \in Good
    BY <1>1
  <1>3. \A s \in SUBSET S : s # {} /\ Rest(s) \in Good => s \in Good
    <2> TAKE s \in SUBSET S
    <2> HAVE s # {} /\ Rest(s) \in Good
    <2>1. First(s) \in S
      BY RestSmaller
    <2> QED
      BY <1>1, <2>1
  <1>4. S \in Good
    <2> HIDE DEF Good
    <2> QED
      BY <1>2, <1>3, SubsetInduction
  <1> QED
    BY <1>1, <1>4

-----------------------------------------------------------------------------
(* What was credited, added up.                                            *)

Balanced == account.balance = SumFunction(Credited) - used

LEMMA CreditNumber == \A kind : Credit(kind) \in Int
  BY PaymentsAssumption DEF PaymentsAssumption, Credit

LEMMA BalancedAtFirst == Init => Balanced
  <1> SUFFICES ASSUME Init PROVE Balanced
    OBVIOUS
  <1>1. PICK f : f = [p \in Payments |-> 0]
    OBVIOUS
  <1>2. Credited = f
    BY <1>1 DEF Init, Unmade, PaidOnes, Credited
  <1>3. SumFunction(f) = 0
    BY <1>1, SumZero, PaymentsAssumption DEF PaymentsAssumption
  <1> QED
    BY <1>2, <1>3 DEF Init, Balanced

LEMMA BalancedKept ==
  ASSUME TypeOK, TypeOK', Balanced, MoneyMoves \/ UNCHANGED vars
  PROVE  Balanced'
  <1>0. IsFiniteSet(Payments)
    BY PaymentsAssumption DEF PaymentsAssumption
  <1>1. /\ Credited \in [Payments -> Int] /\ Credited' \in [Payments -> Int]
        /\ account.balance \in Int /\ account'.balance \in Int /\ used \in Int /\ used' \in Int
    <2>1. Credited \in [Payments -> Int] /\ Credited' \in [Payments -> Int]
      BY CreditNumber DEF Credited
    <2>2. account.balance \in Int /\ used \in Int
      BY DEF TypeOK
    <2>3. account'.balance \in Int /\ used' \in Int
      BY DEF TypeOK
    <2> QED
      BY <2>1, <2>2, <2>3
  <1>2. PICK f \in [Payments -> Int], h \in [Payments -> Int] : f = Credited /\ h = Credited'
    BY <1>1
  <1>3. SumFunction(f) \in Int
    BY <1>0, SumInt
  <1>4. account.balance = SumFunction(f) - used
    BY <1>2 DEF Balanced
  <1>5. account'.balance = SumFunction(h) - used' => Balanced'
    BY <1>2 DEF Balanced
  <1>6. CASE UNCHANGED vars
    <2>1. UNCHANGED <<pay, account, used>>
      BY <1>6 DEF vars, money, bounds
    <2>2. Credited' = Credited
      BY <2>1 DEF Credited, PaidOnes
    <2> QED
      BY <1>2, <1>4, <1>5, <2>1, <2>2
  <1>7. ASSUME \A q \in PaidOnes' : pay'[q].kind = pay[q].kind, NEW p \in Payments,
               PaidOnes' = PaidOnes \cup {p}, p \notin PaidOnes, used' = used,
               account'.balance = account.balance + Credit(pay[p].kind)
        PROVE  Balanced'
    <2>1. /\ f[p] = 0 /\ h[p] = Credit(pay[p].kind)
          /\ \A q \in Payments \ {p} : h[q] = f[q]
      BY <1>2, <1>7 DEF Credited
    <2>2. SumFunction(h) = SumFunction(f) + (h[p] - f[p])
      BY <1>0, <2>1, SumMoves
    <2>3. SumFunction(h) = SumFunction(f) + Credit(pay[p].kind) /\ h[p] \in Int
      BY <1>2, <1>3, <2>1, <2>2
    <2> QED
      BY <1>1, <1>3, <1>4, <1>5, <1>7, <2>1, <2>3
  <1>8. ASSUME \A q \in PaidOnes' : pay'[q].kind = pay[q].kind, PaidOnes' = PaidOnes,
               account'.balance + used' = account.balance + used
        PROVE  Balanced'
    <2>1. Credited' = Credited
      BY <1>8 DEF Credited
    <2> QED
      BY <1>1, <1>2, <1>3, <1>4, <1>5, <1>8, <2>1
  <1> QED
    BY <1>6, <1>7, <1>8 DEF MoneyMoves

-----------------------------------------------------------------------------
LEMMA InvHolds == Spec => []Inv
  <1>1. Inv /\ [Next]_vars => Inv'
    BY StepKeeps
  <1> QED
    BY <1>1, InitInv, PTL DEF Spec

(* Every variable of the payments keeps its type: a charge never counts    *)
(* more periods as paid than there are, and only cards the account has     *)
(* given up are deleted at PostFinance.                                    *)
THEOREM PaymentsTypeOK == Spec => []TypeOK
  BY InvHolds, PTL DEF Inv

(* Of each kind, the saved card is charged for one payment at a time,      *)
(* however many replicas run their rounds and read, record and lose the    *)
(* ends of the payments: topUpDue, chargesDue and CreatePayment in         *)
(* internal/store.  A top-up and a recurring charge may be open together.  *)
THEOREM PaymentsOneChargePerKind == Spec => []OneChargePerKind
  <1>1. Inv => OneChargePerKind
    BY DEF Inv, EndsOK, Alone, OneChargePerKind
  <1> QED
    BY <1>1, InvHolds, PTL

(* Each period counted as paid is paid by one payment, and each further    *)
(* payment of it was logged: payPeriod in internal/store/charges.go.       *)
THEOREM PaymentsPeriodsPaidOnce == Spec => []PeriodsPaidOnce
  BY InvHolds, PTL DEF Inv

(* However often and in whatever order webhook, visit, poll and answer     *)
(* report the end of a payment, and whoever crashes, the balance is what   *)
(* the paid payments bring less what was used, and what is paid is money   *)
(* that came in, in full: Settle in internal/store/credit.go.              *)
THEOREM PaymentsCreditedOnce == Spec => []CreditedOnce
  <1>1. Inv /\ Balanced => CreditedOnce
    BY DEF Inv, EndsOK, PaidOnes, Balanced, CreditedOnce
  <1>2. Inv /\ Balanced /\ [Next]_vars => Inv' /\ Balanced'
    BY StepKeeps, BalancedKept DEF Inv
  <1> QED
    BY <1>1, <1>2, InitInv, BalancedAtFirst, PTL DEF Spec

(* CreditedOnce, step by step: the balance grows exactly when a payment    *)
(* whose money came in moves to paid, once for each payment and by its     *)
(* credit, and otherwise only credit used or granted changes it: Settle in *)
(* internal/store/credit.go.                                               *)
THEOREM PaymentsMoneyMoves == Spec => [][MoneyMoves]_vars
  <1>1. Inv /\ [Next]_vars => [MoneyMoves]_vars
    BY StepKeeps
  <1> QED
    BY <1>1, InvHolds, PTL DEF Spec
=============================================================================
