\* "100 requests per minute per user", where two texts are sanitized to one key.
SPECIFICATION Spec
CONSTANTS
  r1 = r1
  r2 = r2
  r3 = r3
  k1 = k1
  k1Text = k1Text
  k1Alias = k1Alias
  wrong = wrong
  a1 = a1
  a2 = a2
  proxy = proxy
  Requests = {r1, r2, r3}
  ApiKeys = {k1}
  NoKey = NoKey
  Texts <- MCTexts
  NoHeader = NoHeader
  KeyText <- MCKeyText
  Sanitized <- MCSanitized
  Addresses = {a1, a2, proxy}
  NoAddress = NoAddress
  Empty = Empty
  Inputs <- MCInputs
  Points <- MCPoints
SYMMETRY RequestSymmetry
INVARIANT
  OneBudgetPerUser
