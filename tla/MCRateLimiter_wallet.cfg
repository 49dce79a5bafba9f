SPECIFICATION Spec
CONSTANTS
  wallet = wallet
  health = health
  brisk = brisk
  r1 = r1
  r2 = r2
  r3 = r3
  r4 = r4
  r5 = r5
  Keys <- WalletKeys
  Requests <- FiveRequests
  Config <- WalletConfig
  Timeout = 1
  Hold = 1
  TicksPerSecond = 3
  MaxTime = 11
SYMMETRY RequestSymmetry
INVARIANTS
  TypeOK
  TwoWindowBound
  LockoutIsBounded
  RetryAfterIsNearlyEnough
PROPERTIES
  BlockIsNotExtended
  PacingLosesTheRace
  ImplementsPromise
