SPECIFICATION Spec
CONSTANTS
  Requests = {r1, r2, r3}
  Seeds = {p0}
  SeedCommitted = 2
  Values = {1, 2}
  Commitments = {1}
  Keys = {k1}
  TargetStatuses = {"ACTIVE", "CLOSED"}
  None = None
SYMMETRY RequestSymmetry
CHECK_DEADLOCK FALSE
INVARIANTS
  TypeOK
  IdempotentBooking
  EveryAmountIsAudited
  NoCircularWait
PROPERTIES
  StatusHealsAfterSoloWrite
  SoloPaymentStaysWithinCommitted
  SoloWriteKeepsCancelled
  SoloPaymentIsNoSilentDuplicate
  ImplementsJournal
