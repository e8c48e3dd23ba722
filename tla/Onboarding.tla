----------------------------- MODULE Onboarding -----------------------------
(***************************************************************************)
(* SignIn and Team together: a user who holds a token may create events,   *)
(* invite, and accept what others shared.                                  *)
(***************************************************************************)
EXTENDS SignIn, Team

CONSTANT Workloads  \* records: calls, users registered already, events owned already

\* Whoever signs in is a user of the rest of the API; nobody starts out with
\* more active events than the ceiling allows.
ASSUME OnboardingAssumption ==
  /\ Users \subseteq People
  /\ \A w \in Workloads :
       /\ w.registered \subseteq Users
       /\ \A e \in DOMAIN w.owned : e \in Events /\ w.owned[e] \in People
       /\ \A u \in People : withinLimit(maxActiveEvents,
            Cardinality({e \in Events : e \in DOMAIN w.owned /\ w.owned[e] = u}), 0)

vars == <<left, signInVars, teamVars>>

Init ==
  \E w \in Workloads : left = w.calls /\ SignInInit(w.registered) /\ TeamInit(w.owned)

Next ==
  \/ SignInNext /\ UNCHANGED teamVars
  \/ (\E h \in Challenges : Grow(h)) /\ UNCHANGED teamVars
  \/ TeamNext(SignedIn) /\ UNCHANGED signInVars
  \/ (\E i \in Invitations : ExpireInvitation(i)) /\ UNCHANGED signInVars

Spec == Init /\ [][Next]_vars

TypeOK == SignInTypeOK /\ TeamTypeOK

=============================================================================
