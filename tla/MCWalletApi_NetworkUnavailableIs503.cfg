SPECIFICATION Spec
CONSTANTS
  r1 = r1
  r2 = r2
  k1 = k1
  k2 = k2
  NoKey = NoKey
  NoWallet = NoWallet
  Requests <- MCRequests
  ApiKeys <- OneKey
  ScopeChoices <- MCScopeChoices
  MaxCrashes = 1
INVARIANT
  NetworkUnavailableIs503
