SPECIFICATION FairSpec
CONSTANTS
  Campaigns <- MCCampaigns
  People <- MCPeople
  Audiences <- MCAudiences
  Events <- MCEvents
  EventOf <- MCEventOf
  OwnerOf <- MCOwnerOf
  AccountGrant <- MCAccountGrant
  PackGrant <- MCPackGrant
  Workers = {w1, w2}
  BatchSize = 1
  MaxAttempts = 1
  MaxFaults = 1
CHECK_DEADLOCK FALSE
INVARIANTS
  TypeOK
  CreditsFollowDelivery
  NoCreditOutOfRetries
  CampaignMatchesItsMessages
PROPERTIES
  OnlyUnsettledIsSent
  SoloReservationStopsAtZero
  EveryCampaignSettles
