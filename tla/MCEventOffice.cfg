SPECIFICATION OfficeSpec
CONSTANTS
  c1 = c1
  c2 = c2
  Clerks = {c1, c2}
  Standing = {"CO_OWNER", "VIEWER"}
  Phones = {1, 2}
  Users = {11, 12}
  Amounts = {0, 1, 2}
  maxContributors = 3
  MaxVersion = 4
  Target = 3
  Asks <- MCAsks
  Starts <- MCStarts
SYMMETRY Symmetry
INVARIANTS PageIsAsAsked BooksAddUp ChecksHoldUnlessCrossed
CHECK_DEADLOCK FALSE
