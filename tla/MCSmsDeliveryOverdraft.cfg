SPECIFICATION Spec
CONSTANTS
  Campaigns <- MCCampaigns
  People <- MCPeople
  Audiences <- MCAudiences
  Events <- MCEvents
  EventOf <- MCOneEventOf
  OwnerOf <- MCOwnerOf
  AccountGrant <- MCAccountGrant
  PackGrant <- MCNoPack
  Workers = {w1}
  BatchSize = 1
  MaxAttempts = 1
  MaxFaults = 0
CHECK_DEADLOCK FALSE
INVARIANT NeverBeyondCredits
