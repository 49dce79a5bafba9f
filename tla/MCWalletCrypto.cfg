\* Three creations that interleave, and one decryption of damaged or mixed texts.
SPECIFICATION Spec
CONSTANTS
  c1 = c1
  c2 = c2
  c3 = c3
  Creates = {c1, c2, c3}
  Passwords <- MCPasswords
  MaxAltered = 2
  Refused = Refused
  Garbage = Garbage
  Zeroes = Zeroes
  NoPassword = NoPassword
  NoKeypair = NoKeypair
  NoCall = NoCall
SYMMETRY CreateSymmetry
INVARIANTS
  TypeOK
  OnlyTheSeed
  WalletHoldsItsKey
  ChecksAgree
  SecretsCleared
PROPERTY
  ImplementsKeystore
