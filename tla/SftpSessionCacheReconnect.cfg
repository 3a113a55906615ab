\* docs/adr/0004 on failed cached operations, against the code.
CONSTANTS
  k1 = k1
  k2 = k2
  k3 = k3
  a1 = a1
  a2 = a2
  None = None
  Threads = {t1, t2}
  Keys <- MCKeys
  Accounts <- MCAccounts
  AccountOf <- MCAccountOf
  Runtimes = {r1, r2}
SPECIFICATION FairSpec
PROPERTY FailedRuntimeIsDropped
CHECK_DEADLOCK FALSE
