SPECIFICATION Spec
CONSTANTS
  wallet = wallet
  health = health
  brisk = brisk
  r1 = r1
  r2 = r2
  r3 = r3
  r4 = r4
  r5 = r5
  Keys <- WalletKeys
  Requests <- FiveRequests
  Config <- WalletConfig
  Timeout = 2
  Hold = 0
  TicksPerSecond = 3
  MaxTime = 12
SYMMETRY RequestSymmetry
INVARIANT
  RetryAfterIsEnough
