SPECIFICATION Spec
CONSTANTS
  ann = ann
  bob = bob
  cleo = cleo
  dan = dan
  e1 = e1
  Null = Null
  Nothing = Null
  Phones = {ann, bob, cleo}
  Emails = {dan}
  People = {ann, bob, cleo, dan}
  Challenges = {h1, h2}
  AuthCalls = {a1, a2}
  OTP_MAX_ATTEMPTS = 2
  Events = {e1, e2}
  Invitations = {i1, i2, i3}
  TeamCalls = {c1, c2}
  EventPlan = "STARTER"
  Subscription = Null
  Uses = {1, 2}
  Workloads <- MCWorkloads
INVARIANTS TypeOK CodesAreSpent OneTrialPerUser InvitationsKeepTheirWord CapsHold
SYMMETRY Symmetry
CHECK_DEADLOCK FALSE
