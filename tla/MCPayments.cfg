SPECIFICATION Spec
CONSTANTS
  p1 = p1
  p2 = p2
  Payments = {p1, p2}
  Kinds = {"topup", "auto", "page", "card"}
  NoCard = NoCard
  FirstCard = FirstCard
  Below = 2
  TopUp = 2
  MaxPeriods = 1
  MaxSpend = 1
  MaxAdmin = 1
  MaxReads = 2
SYMMETRY PaymentSymmetry
INVARIANTS CreditedOnce OneChargePerKind PeriodsPaidOnce
CHECK_DEADLOCK FALSE
