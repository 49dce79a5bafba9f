\* All addresses of up to five characters of four, at 16 bits.
SPECIFICATION Spec
CONSTANTS
  Half = 32768
  Addresses <- MCAddresses
INVARIANTS
  TypeOK
  BalanceInRange
  HashIsPolynomial
