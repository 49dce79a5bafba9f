SPECIFICATION Spec
CONSTANTS
  r1 = r1
  r2 = r2
  k1 = k1
  k2 = k2
  NoKey = NoKey
  NoWallet = NoWallet
  Requests <- MCRequests
  ApiKeys <- TwoKeys
  ScopeChoices <- MCScopeChoices
  MaxCrashes = 1
SYMMETRY RequestSymmetry
INVARIANTS
  TypeOK
  SuccessIsDurable
  NoOrphanWithoutFault
  OnlyAuthorisedWork
  AuditBeforeAnswer
  AuditAgreesWithAnswer
  AttributedToKey
  CreatedWalletIsUsable
  UndocumentedAnswers
