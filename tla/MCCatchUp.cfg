SPECIFICATION FairSpec
CONSTANTS
  basic = basic
  pro = pro
  Nobody = Nobody
  Plans = {basic, pro}
  Days <- MCDays
  Quota <- MCQuota
  FirstPlan = basic
  FirstQuantity = 1
  Quantities = {1}
  Lead = 1
  Orders = {o1}
  Workers = {w1}
  Jobs = {j1, j2}
  Fortune = 2
  Daily = FALSE
  LastDay = 6
  MaxFailures = 1
PROPERTIES CatchesUp ChargedOncePerPeriod
CHECK_DEADLOCK FALSE
