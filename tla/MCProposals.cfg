SPECIFICATION Spec
CONSTANTS
  john = john
  johnDoe = johnDoe
  c1 = c1
  c2 = c2
  w1 = w1
  w2 = w2
  Callers = {c1, c2}
  Drains = {w1, w2}
  Names = {john, johnDoe}
  Within <- MCWithin
  Amounts = {0, 1, 2}
  Standing = {"CO_OWNER", "VIEWER"}
  MaxEntries = 2
  Starts <- MCStarts
SYMMETRY Symmetry
INVARIANTS ProposalsRunAsApproved NewcomersAreNotForked DocumentsAreReadOnce
CHECK_DEADLOCK FALSE
