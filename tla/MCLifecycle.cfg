SPECIFICATION Spec
CONSTANTS
  basic = basic
  pro = pro
  Nobody = Nobody
  Plans = {basic, pro}
  Days <- MCDays
  Quota <- MCQuota
  FirstPlan = basic
  FirstQuantity = 1
  Quantities = {1}
  Lead = 1
  Orders = {o1, o2}
  Workers = {w1, w2}
  Jobs = {j1}
  Fortune = 1
  Daily = FALSE
  LastDay = 6
  MaxFailures = 1
INVARIANTS LifecycleInv
PROPERTIES ExpiresOnlyWhenOver PeriodsContiguous
SYMMETRY MCSymmetry
CHECK_DEADLOCK FALSE
