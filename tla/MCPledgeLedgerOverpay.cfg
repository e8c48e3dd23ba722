SPECIFICATION Spec
CONSTANTS
  Requests = {r1, r2}
  Seeds = {p0}
  SeedCommitted = 2
  Values = {1, 2}
  Commitments = {2}
  Keys = {k1}
  TargetStatuses = {"ACTIVE", "CLOSED"}
  None = None
SYMMETRY RequestSymmetry
CHECK_DEADLOCK FALSE
PROPERTY NoPaymentBeyondCommitted
