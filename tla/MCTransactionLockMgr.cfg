SPECIFICATION Spec
CONSTANTS
  t1 = t1
  t2 = t2
  t3 = t3
  k1 = k1
  k2 = k2
  k3 = k3
  None = None
  Txns = {t1, t2, t3}
  Keys = {k1, k2, k3}
  StripeOf <- MCStripeOf
  Options <- MCOptions
  MaxCalls = 2
INVARIANTS
  NoConflict
  LocksAgree
  StolenWhenExpired
  NoDeadlock
  
CHECK_DEADLOCK FALSE
