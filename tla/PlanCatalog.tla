----------------------------- MODULE PlanCatalog ----------------------------
(***************************************************************************)
(* The price list and the entitlement rules that read it: which plan a     *)
(* scope enjoys, and whether a plan still admits one more of something.    *)
(* Numbers are the ones of PLAN_CATALOG; names, currencies and the         *)
(* features that no code reads are left out.                               *)
(***************************************************************************)
EXTENDS Integers, FiniteSetsExt

\* null in maxContributors, and the feature unlimited_seats.
Unlimited == -1

\* One entry of the catalog.  seats is what seatsFromFeatures makes of the
\* feature list: a number, Unlimited, or 1 when no feature speaks of seats.
PlanConfig(scope, price, contributors, sms, ai, seats) ==
  [scope |-> scope, priceMinor |-> price, maxContributors |-> contributors,
   includedSmsCredits |-> sms, includedAiCredits |-> ai, maxSeats |-> seats]

PLAN_CATALOG ==
  [FREE           |-> PlanConfig("EVENT",        0,        15,   10,    15, 1),
   STARTER        |-> PlanConfig("EVENT",    10000,       100,  100,   500, 3),
   STANDARD       |-> PlanConfig("EVENT",    30000,       300,  300,  1500, 10),
   PREMIUM        |-> PlanConfig("EVENT",    60000,      1000,  600,  5000, Unlimited),
   ORGANIZER_PRO  |-> PlanConfig("ACCOUNT",  30000,       500,  300,  3000, 5),
   BUSINESS       |-> PlanConfig("ACCOUNT", 120000, Unlimited, 1000, 10000, Unlimited),
   SMS_TOP_UP_100 |-> PlanConfig("EVENT",     6000, Unlimited,  100,     0, 1),
   SMS_TOP_UP_300 |-> PlanConfig("EVENT",    16000, Unlimited,  300,     0, 1)]

PlanCodes == DOMAIN PLAN_CATALOG

\* Variant: the order of prices is turned round.
cheapestGrant(grants) ==
  IF grants = {} THEN "FREE"
  ELSE CHOOSE p \in grants :
         \A q \in grants : PLAN_CATALOG[q].priceMinor >= PLAN_CATALOG[p].priceMinor

\* EntitlementService.activeGrant: of the grants a scope can see, the one with
\* the highest price; FREE when there is none.  grants is a set of plan codes.
activeGrant(grants) ==
  IF grants = {} THEN "FREE"
  ELSE CHOOSE p \in grants :
         \A q \in grants : PLAN_CATALOG[q].priceMinor <= PLAN_CATALOG[p].priceMinor

\* EntitlementService.check for the two counted limits: may the scope go from
\* current to current + quantity?
withinLimit(limit, current, quantity) ==
  limit = Unlimited \/ current + quantity <= limit

=============================================================================
