SPECIFICATION FairSpec
CONSTANTS
  wallet = wallet
  health = health
  brisk = brisk
  r1 = r1
  r2 = r2
  r3 = r3
  r4 = r4
  r5 = r5
  Keys <- OtherKeys
  Requests <- ThreeRequests
  Config <- OtherConfig
  Timeout = 2
  Hold = 1
  TicksPerSecond = 3
  MaxTime = 10
INVARIANTS
  TwoWindowBound
  RefusalIsRecent
PROPERTIES
  ImplementsPromise
  EveryRequestIsDecided
