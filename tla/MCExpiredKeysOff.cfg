SPECIFICATION Spec
CONSTANTS
  basic = basic
  pro = pro
  Nobody = Nobody
  Plans = {basic, pro}
  Days <- MCDays
  Quota <- MCQuota
  FirstPlan = basic
  FirstQuantity = 1
  Quantities = {1}
  Lead = 1
  Orders = {o1}
  Workers = {w1}
  Jobs = {j1}
  Fortune = 1
  Daily = FALSE
  LastDay = 5
  MaxFailures = 0
INVARIANTS ExpiredKeysOff
CHECK_DEADLOCK FALSE
