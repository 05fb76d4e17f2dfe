SPECIFICATION Spec
CONSTANTS
  Admins = {a1, a2}
  MaxMonth = 3
  MaxData = 1
  Repriced = {"data_points"}
  Prices = {1}
  DefaultPrice = 3
  Rates = {1, 2}
  Thresholds = {1}
  None = None
  MaxEvents = 3
INVARIANTS ItemsAddUp TotalsAgree ProvisionableFromThen OneMailPerMonth
PROPERTIES FinalRowsStay PastMonthsGetFinal
CHECK_DEADLOCK FALSE
