---------------------------- MODULE MCOnboarding ----------------------------
EXTENDS Onboarding, TLC

CONSTANTS ann, bob, cleo, dan, e1

\* Sign-ins by phone and by e-mail; a link, its acceptances and its
\* revocation; the seats of a plan; a member added directly; the events of one
\* owner; somebody who signs up in order to accept.
MCWorkloads ==
  {[calls |-> [startOtp |-> 2, verifyOtp |-> 4], registered |-> {}, owned |-> <<>>],
   [calls |-> [createInvitation |-> 1, acceptInvitation |-> 3, revokeInvitation |-> 1],
    registered |-> {ann, bob, cleo, dan}, owned |-> e1 :> ann],
   [calls |-> [createInvitation |-> 3, acceptInvitation |-> 1], registered |-> {ann, bob}, owned |-> e1 :> ann],
   [calls |-> [createInvitation |-> 1, acceptInvitation |-> 1, addMember |-> 1],
    registered |-> {ann, bob}, owned |-> e1 :> ann],
   [calls |-> [createEvent |-> 2, setStatus |-> 2], registered |-> {ann}, owned |-> <<>>],
   [calls |-> [startOtp |-> 1, verifyOtp |-> 1, createInvitation |-> 1, acceptInvitation |-> 1],
    registered |-> {ann}, owned |-> e1 :> ann]}

Symmetry ==
  Permutations(AuthCalls) \union Permutations(TeamCalls) \union Permutations(Challenges)
  \union Permutations(Invitations)

=============================================================================
