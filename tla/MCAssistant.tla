---------------------------- MODULE MCAssistant -----------------------------
EXTENDS Assistant, TLC

CONSTANTS me, host, party, feast, trip

\* The user owns party and may create trip; feast is somebody else's, and its
\* owner pays for what is asked in it.
MCOwner == party :> me @@ trip :> me @@ feast :> host
MCAccountGrant == me :> 1 @@ host :> 0
MCEventGrant == party :> 1 @@ trip :> 0 @@ feast :> 1

=============================================================================
