SPECIFICATION MCSpec
CONSTANTS
  ann = ann  boss = boss  dan = dan
  Users = {ann, boss, dan}
  Nobody = Nobody
  Parent <- MCParent
  Owner = ann
  MaxKeys = 2
  NoKey = NoKey
  Workers = {w1, w2, w3}
  Reserve = {w3}
  Pool = 3
  Quota = {1}
  Addon = 1
  Limits = {1}
  MaxOrders = 1
INVARIANTS TeamInv OneTeam KeysInFamily
PROPERTIES UndisturbedRequestsKeepLimits RequestsAnswered
CHECK_DEADLOCK FALSE
