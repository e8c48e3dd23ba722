------------------------------ MODULE MCBilling -----------------------------
(* A subscription and an event pack, two deliveries, two workers. *)
EXTENDS Billing, TLC

CONSTANTS b1, b2

MCWanted == (b1 :> {"ORGANIZER_PRO"}) @@ (b2 :> {"STARTER"})

MCSymmetry == Permutations(Deliveries) \union Permutations(Workers)

=============================================================================
