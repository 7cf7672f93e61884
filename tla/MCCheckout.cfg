SPECIFICATION Spec
CONSTANTS
  w1 = w1  w2 = w2  o1 = o1  o2 = o2  o3 = o3
  ann = ann  bob = bob  dan = dan  eve = eve  s1 = s1  s2 = s2  c1 = c1  p1 = p1  p2 = p2
  Workers = {w1, w2}
  Nobody = Nobody
  Parent <- MCParent
  SubOwner <- MCSubOwner
  CouponOwner <- MCCouponOwner
  Plans = {p1, p2}
  FirstPlan <- MCFirstPlan
  Price <- MCPrice
  Terms <- MCTerms
  InitWallet <- MCPoor
  Orders = {o1, o2}
  Users = {ann, bob}
  Subs = {s1}
  Coupons = {c1}
  Checkouts <- MCKinds
  Rates = {0, 5000}
  MaxFailures = 1
INVARIANTS SettlementInv GrantedOnce RecordsAgree CouponUsedByItsOrder
PROPERTIES FinalOrders SettlesAtomically
SYMMETRY IdSymmetry
CHECK_DEADLOCK FALSE
