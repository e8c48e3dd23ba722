---------------------------- MODULE MCSmsDelivery ---------------------------
(* Small instances of SmsDelivery for TLC: two events of one owner, each with *)
(* a campaign.                                                                *)
EXTENDS SmsDelivery

MCCampaigns == 1 .. 2
MCPeople == 1 .. 2
MCAudiences == {{}, MCPeople}
MCEvents == {"wedding", "funeral"}
MCEventOf == [c \in MCCampaigns |-> IF c = 1 THEN "wedding" ELSE "funeral"]
MCOwnerOf == [e \in MCEvents |-> "owner"]
MCAccountGrant == [a \in {"owner"} |-> 1]
MCPackGrant == [e \in MCEvents |-> IF e = "wedding" THEN 1 ELSE 0]

\* Both campaigns from one event, which has the account's one credit.
MCOneEventOf == [c \in MCCampaigns |-> "wedding"]
MCNoPack == [e \in MCEvents |-> 0]
=============================================================================
