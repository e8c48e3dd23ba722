CONSTANTS
  Signup = signup
  Buyers = {b1, b2}
  Deliveries = {d1, d2}
  Workers = {w1, w2}
  Wanted <- MCWanted
  b1 = b1
  b2 = b2
  MaxFaults = 1
  MaxOld = 1
  Null = null
SPECIFICATION Spec
INVARIANTS
  TypeOK
  OneGrantPerPayment
  UncontendedPaymentIsFinal
  PaidIsWhatIsEnjoyed
  AlertsAreBounded
SYMMETRY MCSymmetry
CHECK_DEADLOCK FALSE
