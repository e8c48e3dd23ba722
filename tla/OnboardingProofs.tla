-------------------------- MODULE OnboardingProofs --------------------------
(***************************************************************************)
(* Theorems about Onboarding, that is about SignIn and Team, for any       *)
(* number of users, challenges, events, invitations and calls.             *)
(***************************************************************************)
EXTENDS Onboarding, FiniteSetTheorems, TLAPS

-----------------------------------------------------------------------------
(* Signing in: what is kept besides the types.                             *)

\* What a call of the given progress has in hand.
AuthShape ==
  \A c \in AuthCalls :
    /\ auth[c].pc # "idle" => auth[c].who \in Users
    /\ auth[c].pc \in {"miss", "consume", "user", "mark", "issue"} => auth[c].challenge \in Challenges
    /\ auth[c].pc \in {"idle", "insert"} => auth[c].challenge = Null
    /\ auth[c].pc \in {"idle", "insert", "miss", "consume", "user"} => ~auth[c].isNew
    /\ auth[c].pc \in {"user", "mark", "issue"} => challenges[auth[c].challenge].consumed
    /\ auth[c].pc \in {"mark", "issue"} => users[auth[c].who] # "none"

\* Calls about to count a miss, and calls about to win a session.
Missing(h) == {c \in AuthCalls : auth[c].pc = "miss" /\ auth[c].challenge = h}
Winning(h) ==
  {c \in AuthCalls : auth[c].pc \in {"consume", "user", "mark", "issue"} /\ auth[c].challenge = h}

\* The misses counted and to be counted.
MissesInv ==
  \A h \in Challenges :
    challenges[h].attempts + Cardinality(Missing(h)) <= OTP_MAX_ATTEMPTS + Cardinality(AuthCalls) - 1

\* The sessions won and to be won.  Nothing is won before the challenge is
\* consumed, and after that nobody starts; without a race one call is all.
SessionsInv ==
  \A h \in Challenges :
    /\ won[h] + Cardinality(Winning(h)) <= Cardinality(AuthCalls)
    /\ ~challenges[h].consumed => won[h] = 0
    /\ h \notin raced =>
         /\ \A c, d \in AuthCalls : auth[c].challenge = h /\ auth[d].challenge = h => c = d
         /\ won[h] \in {0, 1}
         /\ won[h] = 1 => \A c \in AuthCalls : auth[c].challenge # h

SignInInv == SignInTypeOK /\ AuthShape /\ MissesInv /\ SessionsInv /\ OneTrialPerUser

-----------------------------------------------------------------------------
(* The team: what is kept besides the types.                               *)

Accepting == {"token", "expire", "standing", "admit"}

\* The record of a call.
CallOps == {Nothing, "createEvent", "createInvitation", "acceptInvitation", "revokeInvitation",
            "setStatus", "addMember"}
CallSteps == {"idle", "count", "insertEvent", "status", "role", "act", "seats", "invite"}
             \union Accepting
CallArgs == {Nothing, "ACTIVE", "PAUSED", "CLOSED"} \union Uses \union Invitations
            \union (People \X {"COORDINATOR"})
EventStates == {"none", "ACTIVE", "PAUSED", "CLOSED"}
ReadInvitations ==
  [event : Events, role : Roles, status : {"PENDING", "ACCEPTED"}, maxUses : Nat, uses : Nat,
   live : BOOLEAN]

CallType ==
  [op : CallOps, pc : CallSteps, who : People \union {Nothing}, event : Events \union {Nothing},
   arg : CallArgs, status : EventStates \union {Nothing}, seats : Nat,
   inv : {NoInvitation} \union ReadInvitations]

CallTypes == team \in [TeamCalls -> CallType]

\* What a call of the given progress has in hand.
CallShape(call) ==
  /\ call.pc = "idle" => call = Idle
  /\ call.pc # "idle" => call.who \in People
  /\ call.pc \in {"count", "insertEvent"} => call.op = "createEvent"
  /\ call.pc \in {"seats", "invite"} => call.op = "createInvitation"
  /\ call.pc \in Accepting => call.op = "acceptInvitation"
  /\ call.pc \in {"status", "role", "act"} =>
       call.op \in {"setStatus", "createInvitation", "revokeInvitation", "addMember"}
  /\ call.pc \notin {"idle", "count", "insertEvent"} =>
       call.event \in Events /\ events[call.event].status # "none"
  /\ call.op \in {"acceptInvitation", "revokeInvitation"} =>
       /\ call.arg \in Invitations /\ invitations[call.arg].status # "none"
       /\ call.event = invitations[call.arg].event
  /\ call.op = "createInvitation" => call.arg \in Uses
  /\ call.pc # "idle" /\ call.op = "setStatus" => call.arg \in {"ACTIVE", "PAUSED", "CLOSED"}
  /\ call.pc # "idle" /\ call.op = "addMember" => call.arg \in People \X {"COORDINATOR"}

TeamShape == \A c \in TeamCalls : CallShape(team[c])

\* An event that does not exist has no members and no invitations; an
\* invitation that exists is complete.
TeamRows ==
  /\ \A e \in Events : events[e].status = "none" =>
       events[e] = NoEvent /\ \A u \in People : members[e][u] = Nothing
  /\ \A i \in Invitations :
       IF invitations[i].status = "none" THEN invitations[i] = NoInvitation
       ELSE /\ invitations[i].event \in Events /\ events[invitations[i].event].status # "none"
            /\ invitations[i].role \in Roles
            /\ invitations[i].status = "ACCEPTED" => invitations[i].uses >= invitations[i].maxUses

\* What two calls in progress both touch is on record.
Overlaps ==
  \A c, d \in TeamCalls : c # d => Touches(team[c]) \intersect Touches(team[d]) \subseteq excuses

\* What an acceptance has read of its invitation still holds, unless another
\* call was at that invitation at the same time.
Fresh(call) ==
  /\ call.pc \in {"expire", "standing", "admit"} =>
       /\ call.inv \in ReadInvitations
       /\ call.inv.maxUses = invitations[call.arg].maxUses
       /\ call.inv.status = "ACCEPTED" => call.inv.uses >= call.inv.maxUses
       /\ call.arg \notin excuses =>
            call.inv.uses = invitations[call.arg].uses /\ call.arg \notin revoked
  /\ call.pc = "admit" => call.inv.uses < call.inv.maxUses

AcceptanceIsFresh == \A c \in TeamCalls : Fresh(team[c])

InvitationInv ==
  /\ TeamTypeOK /\ CallTypes /\ TeamShape /\ TeamRows
  /\ Overlaps /\ AcceptanceIsFresh /\ InvitationsKeepTheirWord

\* Seats are counted one call at a time, and every link admits one.
SeatsGated ==
  /\ PLAN_CATALOG[EventPlan].maxSeats # Unlimited /\ {"seats", "added"} \intersect excuses = {}
  /\ \A i \in Invitations : invitations[i].maxUses <= 1

\* The seat that a call at work on the seats of its event has counted on.
SeatKept(call) ==
  LET taken == Cardinality(Members(call.event))
      limit == PLAN_CATALOG[EventPlan].maxSeats
  IN /\ call.pc = "seats" => taken <= call.seats
     /\ call.pc = "invite" => taken + Cardinality(Pending(call.event)) + 1 <= limit
     /\ call.pc \in {"standing", "admit"} /\ call.inv.uses < call.inv.maxUses =>
          taken + Cardinality(Pending(call.event) \ {call.arg}) + 1 <= limit

SeatsInv ==
  SeatsGated =>
    /\ \A e \in Events :
         Cardinality(Members(e)) + Cardinality(Pending(e)) <= PLAN_CATALOG[EventPlan].maxSeats
    /\ \A c \in TeamCalls : SeatKept(team[c])

\* The active events, with the one that is about to be created.
CeilingInv ==
  \A u \in People :
    maxActiveEvents # Unlimited /\ {u, "reopened"} \intersect excuses = {} =>
      /\ Cardinality(ActiveEvents(u)) <= maxActiveEvents
      /\ \A c \in TeamCalls : team[c].pc = "insertEvent" /\ team[c].who = u =>
           Cardinality(ActiveEvents(u)) + 1 <= maxActiveEvents

-----------------------------------------------------------------------------
(* Signing in: the proofs.                                                 *)

AuthCall ==
  [pc : {"idle", "insert", "miss", "consume", "user", "mark", "issue"},
   who : Users \union {Null}, challenge : Challenges \union {Null}, isNew : BOOLEAN]

\* Calls that have created a user and not yet started its trial.
Creators(u) == {c \in AuthCalls : auth[c].who = u /\ auth[c].isNew}

\* The three sets of calls are finite.
LEMMA AuthSetsFinite ==
  ASSUME NEW x
  PROVE  /\ IsFiniteSet(Missing(x)) /\ Cardinality(Missing(x)) \in 0 .. Cardinality(AuthCalls)
         /\ IsFiniteSet(Winning(x)) /\ Cardinality(Winning(x)) \in 0 .. Cardinality(AuthCalls)
         /\ IsFiniteSet(Creators(x)) /\ Cardinality(Creators(x)) \in Nat
         /\ Cardinality(AuthCalls) \in Nat
<1>1. IsFiniteSet(AuthCalls) /\ Cardinality(AuthCalls) \in Nat
  BY SignInAssumption, FS_CardinalityType
<1>2. \A T \in SUBSET AuthCalls : /\ IsFiniteSet(T) /\ Cardinality(T) \in Nat
                                  /\ Cardinality(T) <= Cardinality(AuthCalls)
  BY <1>1, FS_Subset, FS_CardinalityType
<1>3. Missing(x) \in SUBSET AuthCalls /\ Winning(x) \in SUBSET AuthCalls
      /\ Creators(x) \in SUBSET AuthCalls
  BY DEF Missing, Winning, Creators
<1> HIDE DEF Missing, Winning, Creators
<1> QED BY <1>1, <1>2, <1>3

\* Adding to and removing from a finite set.
LEMMA CardStep ==
  ASSUME NEW S, IsFiniteSet(S), NEW x
  PROVE  /\ x \notin S => Cardinality(S \cup {x}) = Cardinality(S) + 1
         /\ x \in S => Cardinality(S \ {x}) = Cardinality(S) - 1
         /\ x \in S => S \cup {x} = S
         /\ x \notin S => S \ {x} = S
BY FS_AddElement, FS_RemoveElement

\* What a call's step changes of the three sets.
LEMMA AuthSets ==
  ASSUME SignInTypeOK, NEW c \in AuthCalls, NEW call \in AuthCall,
         auth' = [auth EXCEPT ![c] = call], NEW x
  PROVE  /\ Missing(x)' = (IF call.pc = "miss" /\ call.challenge = x
                           THEN Missing(x) \cup {c} ELSE Missing(x) \ {c})
         /\ Winning(x)' = (IF call.pc \in {"consume", "user", "mark", "issue"} /\ call.challenge = x
                           THEN Winning(x) \cup {c} ELSE Winning(x) \ {c})
         /\ Creators(x)' = (IF call.who = x /\ call.isNew
                            THEN Creators(x) \cup {c} ELSE Creators(x) \ {c})
<1>1. auth'[c] = call /\ \A d \in AuthCalls \ {c} : auth'[d] = auth[d]
  BY DEF SignInTypeOK
<1> QED BY <1>1 DEF Missing, Winning, Creators

\* The invariant holds initially.
LEMMA SignInInitOK ==
  ASSUME NEW registered \in SUBSET Users, SignInInit(registered)
  PROVE  SignInInv
<1> USE SignInAssumption
<1>1. SignInTypeOK
  BY DEF SignInInit, SignInTypeOK, NoChallenge, NoCall, Users
<1>2. AuthShape
  BY DEF SignInInit, AuthShape, NoCall
<1>3. \A x : Missing(x) = {} /\ Winning(x) = {} /\ Creators(x) = {}
  BY DEF SignInInit, NoCall, Missing, Winning, Creators
<1>4. \A x : Cardinality(Missing(x)) = 0 /\ Cardinality(Winning(x)) = 0 /\ Cardinality(Creators(x)) = 0
  BY <1>3, FS_EmptySet
<1>5. Cardinality(AuthCalls) \in Nat
  BY FS_CardinalityType
<1>6. MissesInv
  BY <1>4, <1>5 DEF MissesInv, SignInInit, NoChallenge
<1>7. SessionsInv
  <2>1. \A c \in AuthCalls : auth[c].challenge = Null
    BY DEF SignInInit, NoCall
  <2> QED BY <1>4, <1>5, <2>1 DEF SessionsInv, SignInInit
<1>8. OneTrialPerUser
  <2>1. \A u \in Users : trials[u] = IF users[u] = "none" THEN 0 ELSE 1
    BY DEF SignInInit
  <2> QED BY <1>4, <2>1 DEF OneTrialPerUser, Creators
<1> QED BY <1>1, <1>2, <1>6, <1>7, <1>8 DEF SignInInv


\* A call that touches neither challenges nor counters, and stays out of the
\* three sets or within them.
LEMMA AuthFrame ==
  ASSUME SignInInv, NEW c \in AuthCalls, NEW call \in AuthCall, auth' = [auth EXCEPT ![c] = call],
         UNCHANGED <<won, raced, trials>>,
         \A h \in Challenges : challenges'[h].attempts = challenges[h].attempts,
         \A h \in Challenges : challenges[h].consumed => challenges'[h].consumed,
         call.challenge = auth[c].challenge \/ call.challenge = Null,
         \A h \in Challenges : Missing(h)' \subseteq Missing(h) /\ Winning(h)' \subseteq Winning(h)
  PROVE  MissesInv' /\ SessionsInv'
<1> USE DEF SignInInv
<1>0. \A h \in Challenges : /\ IsFiniteSet(Missing(h)) /\ IsFiniteSet(Winning(h))
                            /\ Cardinality(Missing(h)) \in Nat /\ Cardinality(Winning(h)) \in Nat
                            /\ Cardinality(AuthCalls) \in Nat
  BY AuthSetsFinite
<1>1. \A h \in Challenges : /\ Cardinality(Missing(h)') <= Cardinality(Missing(h))
                            /\ Cardinality(Winning(h)') <= Cardinality(Winning(h))
                            /\ Cardinality(Missing(h)') \in Nat /\ Cardinality(Winning(h)') \in Nat
  <2> TAKE h \in Challenges
  <2>1. IsFiniteSet(Missing(h)) /\ IsFiniteSet(Winning(h))
    BY <1>0
  <2>2. Missing(h)' \in SUBSET Missing(h) /\ Winning(h)' \in SUBSET Winning(h)
    OBVIOUS
  <2> QED BY <2>1, <2>2, FS_Subset, FS_CardinalityType
<1>2. \A h \in Challenges : challenges[h].attempts \in Nat /\ won[h] \in Nat
  BY DEF SignInTypeOK
<1>3. MissesInv'
  <2> SUFFICES ASSUME NEW h \in Challenges
               PROVE  challenges'[h].attempts + Cardinality(Missing(h)') <=
                        OTP_MAX_ATTEMPTS + Cardinality(AuthCalls) - 1
    BY DEF MissesInv
  <2>1. challenges[h].attempts + Cardinality(Missing(h)) <= OTP_MAX_ATTEMPTS + Cardinality(AuthCalls) - 1
    BY DEF MissesInv
  <2> QED BY <1>0, <1>1, <1>2, <2>1, SignInAssumption
<1>4. \A d \in AuthCalls : auth'[d].challenge = auth[d].challenge \/ auth'[d].challenge = Null
  BY DEF SignInTypeOK
<1>5. SessionsInv'
  <2> SUFFICES ASSUME NEW h \in Challenges
               PROVE  /\ won[h] + Cardinality(Winning(h)') <= Cardinality(AuthCalls)
                      /\ ~challenges'[h].consumed => won[h] = 0
                      /\ h \notin raced =>
                           /\ \A b, d \in AuthCalls :
                                auth'[b].challenge = h /\ auth'[d].challenge = h => b = d
                           /\ won[h] \in {0, 1}
                           /\ won[h] = 1 => \A d \in AuthCalls : auth'[d].challenge # h
    BY DEF SessionsInv
  <2>1. won[h] + Cardinality(Winning(h)) <= Cardinality(AuthCalls)
    BY DEF SessionsInv
  <2>2. won[h] + Cardinality(Winning(h)') <= Cardinality(AuthCalls)
    BY <1>0, <1>1, <1>2, <2>1
  <2>3. ~challenges'[h].consumed => won[h] = 0
    BY DEF SessionsInv
  <2>4. h # Null
    BY SignInAssumption
  <2>5. \A d \in AuthCalls : auth'[d].challenge = h => auth[d].challenge = h
    BY <1>4, <2>4
  <2> QED BY <2>2, <2>3, <2>5 DEF SessionsInv
<1> QED BY <1>3, <1>5

\* The sets of creators do not change, nor do the users' rows and trials.
LEMMA TrialFrame ==
  ASSUME SignInInv, UNCHANGED trials, \A u \in Users : Creators(u)' = Creators(u),
         \A u \in Users : users'[u] = "none" <=> users[u] = "none"
  PROVE  OneTrialPerUser'
BY DEF SignInInv, OneTrialPerUser, Creators

\* A code is asked for.
LEMMA StartStep ==
  ASSUME SignInInv, NEW c \in AuthCalls, NEW who \in Users, startOtp(c, who) PROVE SignInInv'
<1> USE DEF SignInInv
<1> DEFINE call == [NoCall EXCEPT !.pc = "insert", !.who = who]
<1>1. /\ auth[c].pc = "idle" /\ auth' = [auth EXCEPT ![c] = call]
      /\ UNCHANGED <<challenges, users, tokens, trials, won, raced>>
  BY DEF startOtp, resume
<1>2. /\ call \in AuthCall /\ call.pc = "insert" /\ call.who = who /\ call.challenge = Null
      /\ call.isNew = FALSE
  BY DEF NoCall, AuthCall
<1> HIDE DEF call
<1>3. SignInTypeOK'
  BY <1>1, <1>2 DEF SignInTypeOK, AuthCall
<1>4. AuthShape'
  BY <1>1, <1>2 DEF AuthShape, SignInTypeOK
<1>5. \A x : /\ Missing(x)' = Missing(x) \ {c} /\ Winning(x)' = Winning(x) \ {c}
             /\ Creators(x)' = Creators(x) \ {c}
  BY <1>1, <1>2, AuthSets
<1>6. MissesInv' /\ SessionsInv'
  BY <1>1, <1>2, <1>5, AuthFrame
<1>7. \A u \in Users : c \notin Creators(u)
  BY <1>1 DEF Creators, AuthShape
<1>8. OneTrialPerUser'
  BY <1>1, <1>5, <1>7, TrialFrame
<1> QED BY <1>3, <1>4, <1>6, <1>8

\* The challenge is stored.
LEMMA InsertStep ==
  ASSUME SignInInv, NEW c \in AuthCalls, InsertChallenge(c) PROVE SignInInv'
<1> USE DEF SignInInv
<1>0. PICK h \in Challenges :
        /\ challenges[h] = NoChallenge
        /\ challenges' = [challenges EXCEPT ![h] =
             [who |-> auth[c].who, attempts |-> 0, consumed |-> FALSE, age |-> "fresh"]]
  BY DEF InsertChallenge
<1>1. /\ auth[c].pc = "insert" /\ auth' = [auth EXCEPT ![c] = NoCall]
      /\ UNCHANGED <<users, tokens, trials, won, raced>>
  BY DEF InsertChallenge, resume
<1>2. /\ NoCall \in AuthCall /\ NoCall.pc = "idle" /\ NoCall.who = Null /\ NoCall.challenge = Null
      /\ NoCall.isNew = FALSE
  BY DEF NoCall, AuthCall
<1>3. SignInTypeOK'
  <2>1. auth[c].who \in Users
    BY <1>1 DEF AuthShape
  <2>2. [who |-> auth[c].who, attempts |-> 0, consumed |-> FALSE, age |-> "fresh"] \in
          [who : Users \union {Null}, attempts : Nat, consumed : BOOLEAN,
           age : {"none", "fresh", "cool", "expired"}]
    BY <2>1
  <2> QED BY <1>0, <1>1, <1>2, <2>2 DEF SignInTypeOK, AuthCall
<1>4. /\ challenges'[h].attempts = challenges[h].attempts
      /\ challenges'[h].consumed = challenges[h].consumed
      /\ \A g \in Challenges \ {h} : challenges'[g] = challenges[g]
  BY <1>0 DEF NoChallenge, SignInTypeOK
<1>5. AuthShape'
  BY <1>1, <1>2, <1>4 DEF AuthShape, SignInTypeOK
<1>6. \A x : /\ Missing(x)' = Missing(x) \ {c} /\ Winning(x)' = Winning(x) \ {c}
             /\ Creators(x)' = Creators(x) \ {c}
  BY <1>1, <1>2, AuthSets
<1>7. MissesInv' /\ SessionsInv'
  <2>1. \A g \in Challenges : /\ challenges'[g].attempts = challenges[g].attempts
                              /\ challenges[g].consumed => challenges'[g].consumed
    BY <1>4
  <2> QED BY <1>1, <1>2, <1>6, <2>1, AuthFrame
<1>8. \A u \in Users : c \notin Creators(u)
  BY <1>1 DEF Creators, AuthShape
<1>9. OneTrialPerUser'
  BY <1>1, <1>6, <1>8, TrialFrame
<1> QED BY <1>3, <1>5, <1>7, <1>9

\* Time passes for a challenge.
LEMMA GrowStep == ASSUME SignInInv, NEW h \in Challenges, Grow(h) PROVE SignInInv'
<1> USE DEF SignInInv
<1>1. /\ UNCHANGED <<users, tokens, auth, trials, won, raced>>
      /\ \E age \in {"cool", "expired"} : challenges' = [challenges EXCEPT ![h].age = age]
  BY DEF Grow
<1>2. PICK age \in {"cool", "expired"} : challenges' = [challenges EXCEPT ![h].age = age]
  BY <1>1
<1>3. challenges' = [challenges EXCEPT ![h] = [challenges[h] EXCEPT !.age = age]]
  BY <1>2 DEF SignInTypeOK
<1>4. [challenges[h] EXCEPT !.age = age] \in
        [who : Users \union {Null}, attempts : Nat, consumed : BOOLEAN,
         age : {"none", "fresh", "cool", "expired"}]
  BY DEF SignInTypeOK
<1>5. \A g \in Challenges : challenges'[g].attempts = challenges[g].attempts
                            /\ challenges'[g].consumed = challenges[g].consumed
  BY <1>3 DEF SignInTypeOK
<1>6. SignInTypeOK'
  BY <1>1, <1>3, <1>4 DEF SignInTypeOK
<1>7. AuthShape'
  BY <1>1, <1>5 DEF AuthShape
<1>8. \A x : Missing(x)' = Missing(x) /\ Winning(x)' = Winning(x) /\ Creators(x)' = Creators(x)
  BY <1>1 DEF Missing, Winning, Creators
<1>9. MissesInv' /\ SessionsInv'
  BY <1>1, <1>5, <1>8 DEF MissesInv, SessionsInv
<1>10. OneTrialPerUser'
  BY <1>1, <1>8, TrialFrame
<1> QED BY <1>6, <1>7, <1>9, <1>10

\* A code is compared: the call is past the check from here on.
LEMMA VerifyStep ==
  ASSUME SignInInv, NEW c \in AuthCalls, NEW h \in Challenges, NEW right \in BOOLEAN,
         verifyOtp(c, h, right)
  PROVE  SignInInv'
<1> USE SignInAssumption DEF SignInInv
<1> DEFINE call == [NoCall EXCEPT !.pc = IF right THEN "consume" ELSE "miss", !.challenge = h,
                                  !.who = challenges[h].who]
<1>1. /\ auth[c].pc = "idle" /\ auth' = [auth EXCEPT ![c] = call]
      /\ raced' = raced \union {g \in {h} : \E d \in AuthCalls : auth[d].challenge = g}
      /\ UNCHANGED <<challenges, users, tokens, trials, won>>
  BY DEF verifyOtp, resume
<1>2. /\ challenges[h].who \in Users /\ ~challenges[h].consumed
      /\ challenges[h].attempts < OTP_MAX_ATTEMPTS /\ challenges[h].attempts \in Nat
  BY DEF verifyOtp, Redeemable, SignInTypeOK
<1>3. /\ call \in AuthCall /\ call.pc \in {"consume", "miss"} /\ call.who = challenges[h].who
      /\ call.challenge = h /\ call.isNew = FALSE
  BY <1>2 DEF NoCall, AuthCall
<1> HIDE DEF call
<1>4. SignInTypeOK'
  BY <1>1, <1>3 DEF SignInTypeOK, AuthCall
<1>5. AuthShape'
  BY <1>1, <1>2, <1>3 DEF AuthShape, SignInTypeOK
<1>6. /\ \A g \in Challenges : g # h => Missing(g)' = Missing(g) \ {c} /\ Winning(g)' = Winning(g) \ {c}
      /\ \A u \in Users : Creators(u)' = Creators(u) \ {c}
  <2>1. \A x : /\ Missing(x)' = (IF call.pc = "miss" /\ call.challenge = x
                                 THEN Missing(x) \cup {c} ELSE Missing(x) \ {c})
               /\ Winning(x)' = (IF call.pc \in {"consume", "user", "mark", "issue"}
                                    /\ call.challenge = x
                                 THEN Winning(x) \cup {c} ELSE Winning(x) \ {c})
               /\ Creators(x)' = (IF call.who = x /\ call.isNew
                                  THEN Creators(x) \cup {c} ELSE Creators(x) \ {c})
    BY <1>1, <1>3, AuthSets
  <2>2. \A g \in Challenges : g # h => Missing(g)' = Missing(g) \ {c} /\ Winning(g)' = Winning(g) \ {c}
    BY <1>3, <2>1
  <2>3. \A u \in Users : Creators(u)' = Creators(u) \ {c}
    BY <1>3, <2>1
  <2> QED BY <2>2, <2>3
<1>7. /\ \A g \in Challenges : c \notin Missing(g) /\ c \notin Winning(g)
      /\ \A u \in Users : c \notin Creators(u)
  BY <1>1 DEF Missing, Winning, Creators, AuthShape
<1>8. Missing(h)' \in SUBSET AuthCalls /\ Winning(h)' \in SUBSET AuthCalls
  BY DEF Missing, Winning
<1>9. /\ Cardinality(Missing(h)') <= Cardinality(AuthCalls) /\ Cardinality(Missing(h)') \in Nat
      /\ Cardinality(Winning(h)') <= Cardinality(AuthCalls) /\ Cardinality(Winning(h)') \in Nat
      /\ Cardinality(AuthCalls) \in Nat
  BY <1>8, FS_Subset, FS_CardinalityType
<1>10. \A g \in Challenges : g # h => Missing(g)' = Missing(g) /\ Winning(g)' = Winning(g)
  BY <1>6, <1>7
<1>11. MissesInv'
  <2> SUFFICES ASSUME NEW g \in Challenges
               PROVE  challenges[g].attempts + Cardinality(Missing(g)') <=
                        OTP_MAX_ATTEMPTS + Cardinality(AuthCalls) - 1
    BY <1>1 DEF MissesInv
  <2>1. CASE g = h
    BY <1>2, <1>9, <2>1
  <2>2. CASE g # h
    BY <1>10, <2>2 DEF MissesInv
  <2> QED BY <2>1, <2>2
<1>12. SessionsInv'
  <2> SUFFICES ASSUME NEW g \in Challenges
               PROVE  /\ won[g] + Cardinality(Winning(g)') <= Cardinality(AuthCalls)
                      /\ ~challenges[g].consumed => won[g] = 0
                      /\ g \notin raced' =>
                           /\ \A b, d \in AuthCalls :
                                auth'[b].challenge = g /\ auth'[d].challenge = g => b = d
                           /\ won[g] \in {0, 1}
                           /\ won[g] = 1 => \A d \in AuthCalls : auth'[d].challenge # g
    BY <1>1 DEF SessionsInv
  <2>0. ~challenges[g].consumed => won[g] = 0
    BY DEF SessionsInv
  <2>1. CASE g = h
    <3>1. won[h] = 0
      BY <1>2, <2>0, <2>1
    <3>2. h \notin raced' => \A d \in AuthCalls : auth[d].challenge # h
      BY <1>1
    <3>3. h \notin raced' => \A d \in AuthCalls : auth'[d].challenge = h => d = c
      BY <1>1, <3>2 DEF SignInTypeOK
    <3> QED BY <1>9, <2>0, <2>1, <3>1, <3>3
  <2>2. CASE g # h
    <3>1. \A d \in AuthCalls : auth'[d].challenge = g => auth[d].challenge = g
      BY <1>1, <1>3, <2>2 DEF SignInTypeOK
    <3>2. g \notin raced' => g \notin raced
      BY <1>1
    <3>3. Winning(g)' = Winning(g)
      BY <1>10, <2>2
    <3> QED BY <2>0, <3>1, <3>2, <3>3 DEF SessionsInv
  <2> QED BY <2>1, <2>2
<1>13. OneTrialPerUser'
  BY <1>1, <1>6, <1>7, TrialFrame
<1> QED BY <1>4, <1>5, <1>11, <1>12, <1>13

\* A miss is counted.
LEMMA MissStep == ASSUME SignInInv, NEW c \in AuthCalls, Miss(c) PROVE SignInInv'
<1> USE SignInAssumption DEF SignInInv
<1> DEFINE h == auth[c].challenge
           row == [challenges[h] EXCEPT !.attempts = challenges[h].attempts + 1]
<1>1. /\ auth[c].pc = "miss" /\ auth' = [auth EXCEPT ![c] = NoCall]
      /\ challenges' = [challenges EXCEPT ![h].attempts = challenges[h].attempts + 1]
      /\ UNCHANGED <<users, tokens, trials, won, raced>>
  BY DEF Miss, resume
<1>2. /\ NoCall \in AuthCall /\ NoCall.pc = "idle" /\ NoCall.who = Null /\ NoCall.challenge = Null
      /\ NoCall.isNew = FALSE
  BY DEF NoCall, AuthCall
<1>3. h \in Challenges
  BY <1>1 DEF AuthShape
<1>4. /\ challenges' = [challenges EXCEPT ![h] = row]
      /\ row \in [who : Users \union {Null}, attempts : Nat, consumed : BOOLEAN,
                  age : {"none", "fresh", "cool", "expired"}]
      /\ row.attempts = challenges[h].attempts + 1 /\ row.consumed = challenges[h].consumed
  BY <1>1, <1>3 DEF SignInTypeOK
<1>5. \A x : /\ Missing(x)' = Missing(x) \ {c} /\ Winning(x)' = Winning(x) \ {c}
             /\ Creators(x)' = Creators(x) \ {c}
  BY <1>1, <1>2, AuthSets
<1>6. /\ c \in Missing(h) /\ \A g \in Challenges : g # h => c \notin Missing(g)
      /\ \A g \in Challenges : c \notin Winning(g)
      /\ \A u \in Users : c \notin Creators(u)
  BY <1>1 DEF Missing, Winning, Creators, AuthShape
<1> HIDE DEF h, row
<1>7. SignInTypeOK'
  BY <1>1, <1>2, <1>3, <1>4 DEF SignInTypeOK, AuthCall
<1>8. \A g \in Challenges : /\ challenges'[g].consumed = challenges[g].consumed
                            /\ g # h => challenges'[g] = challenges[g]
  BY <1>3, <1>4 DEF SignInTypeOK
<1>9. AuthShape'
  BY <1>1, <1>2, <1>8 DEF AuthShape, SignInTypeOK
<1>10. MissesInv'
  <2> SUFFICES ASSUME NEW g \in Challenges
               PROVE  challenges'[g].attempts + Cardinality(Missing(g)') <=
                        OTP_MAX_ATTEMPTS + Cardinality(AuthCalls) - 1
    BY DEF MissesInv
  <2>0. IsFiniteSet(Missing(g)) /\ Cardinality(Missing(g)) \in Nat /\ Cardinality(AuthCalls) \in Nat
    BY AuthSetsFinite
  <2>1. challenges[g].attempts + Cardinality(Missing(g)) <= OTP_MAX_ATTEMPTS + Cardinality(AuthCalls) - 1
    BY DEF MissesInv
  <2>2. CASE g = h
    <3>1. challenges'[g].attempts = challenges[g].attempts + 1 /\ challenges[g].attempts \in Nat
      BY <1>3, <1>4, <2>2 DEF SignInTypeOK
    <3>2. Cardinality(Missing(g) \ {c}) = Cardinality(Missing(g)) - 1
      BY <1>6, <2>0, <2>2, CardStep
    <3>3. Cardinality(Missing(g)') = Cardinality(Missing(g)) - 1
      BY <1>5, <3>2
    <3> QED BY <2>0, <2>1, <3>1, <3>3
  <2>3. CASE g # h
    <3>1. Missing(g)' = Missing(g)
      BY <1>5, <1>6, <2>3
    <3> QED BY <1>8, <2>1, <2>3, <3>1
  <2> QED BY <2>2, <2>3
<1>11. SessionsInv'
  <2>1. \A g \in Challenges : Winning(g)' = Winning(g)
    BY <1>5, <1>6
  <2>2. \A d \in AuthCalls, g \in Challenges : auth'[d].challenge = g => auth[d].challenge = g
    BY <1>1, <1>2 DEF SignInTypeOK
  <2> QED BY <1>1, <1>8, <2>1, <2>2 DEF SessionsInv
<1>12. OneTrialPerUser'
  BY <1>1, <1>5, <1>6, TrialFrame
<1> QED BY <1>7, <1>9, <1>10, <1>11, <1>12

ChallengeRow ==
  [who : Users \union {Null}, attempts : Nat, consumed : BOOLEAN,
   age : {"none", "fresh", "cool", "expired"}]

\* A consumed challenge is otherwise what it was.
LEMMA ConsumedRow ==
  ASSUME NEW W, NEW N, NEW A, NEW before \in [who : W, attempts : N, consumed : BOOLEAN, age : A],
         NEW row, row = [before EXCEPT !.consumed = TRUE]
  PROVE  /\ row \in [who : W, attempts : N, consumed : BOOLEAN, age : A]
         /\ row.attempts = before.attempts /\ row.consumed = TRUE
OBVIOUS

\* The challenge is consumed.
LEMMA ConsumeStep == ASSUME SignInInv, NEW c \in AuthCalls, Consume(c) PROVE SignInInv'
<1> USE SignInAssumption DEF SignInInv
<1> DEFINE h == auth[c].challenge
           row == [challenges[h] EXCEPT !.consumed = TRUE]
           call == [auth[c] EXCEPT !.pc = "user"]
<1>1. /\ auth[c].pc = "consume" /\ auth' = [auth EXCEPT ![c] = call]
      /\ challenges' = [challenges EXCEPT ![h].consumed = TRUE]
      /\ UNCHANGED <<users, tokens, trials, won, raced>>
  BY DEF Consume, resume
<1>2. /\ call \in AuthCall /\ call.pc = "user" /\ call.who = auth[c].who
      /\ call.challenge = auth[c].challenge /\ call.isNew = auth[c].isNew
  BY DEF SignInTypeOK, AuthCall
<1>3. h \in Challenges
  BY <1>1 DEF AuthShape
<1>4. /\ challenges' = [challenges EXCEPT ![h] = row] /\ row \in ChallengeRow
      /\ row.attempts = challenges[h].attempts /\ row.consumed = TRUE
  <2>1. challenges[h] \in ChallengeRow
    BY <1>3 DEF SignInTypeOK, ChallengeRow
  <2>2. challenges' = [challenges EXCEPT ![h] = row]
    BY <1>1
  <2> QED BY <2>1, <2>2, ConsumedRow DEF ChallengeRow
<1>5. \A x : /\ Missing(x)' = Missing(x) \ {c}
             /\ Winning(x)' = (IF x = h THEN Winning(x) \cup {c} ELSE Winning(x) \ {c})
             /\ Creators(x)' = (IF auth[c].who = x /\ auth[c].isNew
                                THEN Creators(x) \cup {c} ELSE Creators(x) \ {c})
  <2>1. \A x : /\ Missing(x)' = (IF call.pc = "miss" /\ call.challenge = x
                                 THEN Missing(x) \cup {c} ELSE Missing(x) \ {c})
               /\ Winning(x)' = (IF call.pc \in {"consume", "user", "mark", "issue"}
                                    /\ call.challenge = x
                                 THEN Winning(x) \cup {c} ELSE Winning(x) \ {c})
               /\ Creators(x)' = (IF call.who = x /\ call.isNew
                                  THEN Creators(x) \cup {c} ELSE Creators(x) \ {c})
    <3> HIDE DEF call, h
    <3> QED BY <1>1, <1>2, AuthSets
  <2> HIDE DEF call
  <2> QED BY <1>2, <2>1
<1>6. c \in Winning(h) /\ \A u \in Users : c \notin Creators(u) /\ ~auth[c].isNew
  BY <1>1 DEF Winning, Creators, AuthShape
<1> HIDE DEF row, call
<1>7. SignInTypeOK'
  BY <1>1, <1>2, <1>3, <1>4 DEF SignInTypeOK, AuthCall, ChallengeRow
<1>8. \A g \in Challenges : /\ challenges'[g].attempts = challenges[g].attempts
                            /\ challenges[g].consumed => challenges'[g].consumed
                            /\ challenges'[h].consumed
  BY <1>3, <1>4 DEF SignInTypeOK
<1>9. AuthShape'
  BY <1>1, <1>2, <1>8 DEF AuthShape, SignInTypeOK
<1>10. MissesInv' /\ SessionsInv'
  <2>1. \A g \in Challenges : Missing(g)' \subseteq Missing(g) /\ Winning(g)' \subseteq Winning(g)
    BY <1>5, <1>6
  <2> QED BY <1>1, <1>2, <1>8, <2>1, AuthFrame
<1>11. OneTrialPerUser'
  <2>1. \A u \in Users : Creators(u)' = Creators(u)
    BY <1>5, <1>6
  <2> QED BY <1>1, <2>1, TrialFrame
<1> QED BY <1>7, <1>9, <1>10, <1>11


\* The user is found or created: the call that finds none creates it, and the
\* user exists from here on.
LEMMA FindStep == ASSUME SignInInv, NEW c \in AuthCalls, findOrCreate(c) PROVE SignInInv'
<1> USE SignInAssumption DEF SignInInv
<1> DEFINE u == auth[c].who
           call == [auth[c] EXCEPT !.isNew = users[u] = "none",
                                   !.pc = IF users[u] = "verified" THEN "issue" ELSE "mark"]
           row == IF users[u] = "none" THEN "unverified" ELSE users[u]
<1>1. /\ auth[c].pc = "user" /\ auth' = [auth EXCEPT ![c] = call]
      /\ users' = [users EXCEPT ![u] = row]
      /\ UNCHANGED <<challenges, tokens, trials, won, raced>>
  BY DEF findOrCreate, resume
<1>2. /\ u \in Users /\ auth[c].challenge \in Challenges /\ auth[c].isNew = FALSE
      /\ challenges[auth[c].challenge].consumed
  BY <1>1 DEF AuthShape, SignInTypeOK
<1>3. /\ call \in AuthCall /\ call.pc \in {"mark", "issue"} /\ call.who = u
      /\ call.challenge = auth[c].challenge /\ call.isNew = (users[u] = "none")
  <2>1. auth[c] \in AuthCall
    BY DEF SignInTypeOK, AuthCall
  <2>2. CASE users[u] = "none"
    <3>1. call = [auth[c] EXCEPT !.isNew = TRUE, !.pc = "mark"]
      BY <2>2
    <3> HIDE DEF call
    <3>2. /\ call \in AuthCall /\ call.pc = "mark" /\ call.who = u
          /\ call.challenge = auth[c].challenge /\ call.isNew = TRUE
      BY <2>1, <3>1 DEF AuthCall
    <3> QED BY <2>2, <3>2
  <2>3. CASE users[u] # "none"
    <3> DEFINE pc == IF users[u] = "verified" THEN "issue" ELSE "mark"
    <3>1. call = [auth[c] EXCEPT !.isNew = FALSE, !.pc = pc] /\ pc \in {"mark", "issue"}
      BY <2>3
    <3> HIDE DEF call, pc
    <3>2. /\ call \in AuthCall /\ call.pc = pc /\ call.who = u
          /\ call.challenge = auth[c].challenge /\ call.isNew = FALSE
      BY <2>1, <3>1 DEF AuthCall
    <3> QED BY <2>3, <3>1, <3>2
  <2> QED BY <2>2, <2>3
<1>4. row \in {"unverified", "verified"} /\ (users[u] # "none" => row = users[u])
  BY <1>2 DEF SignInTypeOK
<1>5. c \in Winning(auth[c].challenge) /\ \A v \in Users : c \notin Creators(v)
  BY <1>1, <1>2 DEF Winning, Creators
<1> HIDE DEF row, call, u
<1>6. \A x : /\ Missing(x)' = (IF call.pc = "miss" /\ call.challenge = x
                               THEN Missing(x) \cup {c} ELSE Missing(x) \ {c})
             /\ Winning(x)' = (IF call.pc \in {"consume", "user", "mark", "issue"}
                                  /\ call.challenge = x
                               THEN Winning(x) \cup {c} ELSE Winning(x) \ {c})
             /\ Creators(x)' = (IF call.who = x /\ call.isNew
                                THEN Creators(x) \cup {c} ELSE Creators(x) \ {c})
  BY <1>1, <1>3, AuthSets
<1>7. SignInTypeOK'
  BY <1>1, <1>2, <1>3, <1>4 DEF SignInTypeOK, AuthCall
<1>8. \A v \in Users : users[v] # "none" => users'[v] # "none"
  BY <1>1, <1>2, <1>4 DEF SignInTypeOK
<1>9. AuthShape'
  <2>1. \A d \in AuthCalls \ {c} : auth'[d] = auth[d]
    BY <1>1
  <2>2. auth'[c] = call /\ users'[u] # "none"
    BY <1>1, <1>2, <1>4 DEF SignInTypeOK
  <2> QED BY <1>1, <1>2, <1>3, <1>8, <2>1, <2>2 DEF AuthShape
<1>10. MissesInv' /\ SessionsInv'
  <2>1. \A h \in Challenges : Missing(h)' \subseteq Missing(h) /\ Winning(h)' \subseteq Winning(h)
    BY <1>3, <1>5, <1>6
  <2> QED BY <1>1, <1>3, <2>1, AuthFrame
<1>11. OneTrialPerUser'
  <2> SUFFICES ASSUME NEW v \in Users
               PROVE  trials[v] + Cardinality(Creators(v)') = IF users'[v] = "none" THEN 0 ELSE 1
    BY <1>1 DEF OneTrialPerUser, Creators
  <2>1. trials[v] + Cardinality(Creators(v)) = IF users[v] = "none" THEN 0 ELSE 1
    BY DEF OneTrialPerUser, Creators
  <2>2. IsFiniteSet(Creators(v)) /\ Cardinality(Creators(v)) \in Nat /\ trials[v] \in Nat
    BY AuthSetsFinite DEF SignInTypeOK
  <2>3. CASE v = u /\ users[u] = "none"
    <3>1. Creators(v)' = Creators(v) \cup {c}
      BY <1>3, <1>6, <2>3
    <3>2. Cardinality(Creators(v) \cup {c}) = Cardinality(Creators(v)) + 1
      BY <1>5, <2>2, CardStep
    <3>3. users'[v] # "none"
      BY <1>1, <1>2, <1>4, <2>3 DEF SignInTypeOK
    <3> QED BY <2>1, <2>2, <2>3, <3>1, <3>2, <3>3
  <2>4. CASE ~(v = u /\ users[u] = "none")
    <3>1. Creators(v)' = Creators(v)
      BY <1>3, <1>5, <1>6, <2>4
    <3>2. users'[v] = users[v]
      BY <1>1, <1>2, <1>4, <2>4 DEF SignInTypeOK
    <3> QED BY <2>1, <3>1, <3>2
  <2> QED BY <2>3, <2>4
<1> QED BY <1>7, <1>9, <1>10, <1>11

\* The user is marked as verified.
LEMMA MarkStep == ASSUME SignInInv, NEW c \in AuthCalls, markVerified(c) PROVE SignInInv'
<1> USE SignInAssumption DEF SignInInv
<1> DEFINE call == [auth[c] EXCEPT !.pc = "issue"]
<1>1. /\ auth[c].pc = "mark" /\ auth' = [auth EXCEPT ![c] = call]
      /\ users' = [users EXCEPT ![auth[c].who] = "verified"]
      /\ UNCHANGED <<challenges, tokens, trials, won, raced>>
  BY DEF markVerified, resume
<1>2. /\ auth[c].who \in Users /\ auth[c].challenge \in Challenges
      /\ challenges[auth[c].challenge].consumed /\ users[auth[c].who] # "none"
  BY <1>1 DEF AuthShape, SignInTypeOK
<1>3. /\ call \in AuthCall /\ call.pc = "issue" /\ call.who = auth[c].who
      /\ call.challenge = auth[c].challenge /\ call.isNew = auth[c].isNew
  BY DEF SignInTypeOK, AuthCall
<1>4. c \in Winning(auth[c].challenge)
  BY <1>1 DEF Winning
<1> HIDE DEF call
<1>5. \A x : /\ Missing(x)' = (IF call.pc = "miss" /\ call.challenge = x
                               THEN Missing(x) \cup {c} ELSE Missing(x) \ {c})
             /\ Winning(x)' = (IF call.pc \in {"consume", "user", "mark", "issue"}
                                  /\ call.challenge = x
                               THEN Winning(x) \cup {c} ELSE Winning(x) \ {c})
             /\ Creators(x)' = (IF call.who = x /\ call.isNew
                                THEN Creators(x) \cup {c} ELSE Creators(x) \ {c})
  BY <1>1, <1>3, AuthSets
<1>6. SignInTypeOK'
  BY <1>1, <1>2, <1>3 DEF SignInTypeOK, AuthCall
<1>7. \A v \in Users : users'[v] = "none" <=> users[v] = "none"
  BY <1>1, <1>2 DEF SignInTypeOK
<1>8. AuthShape'
  <2>1. \A d \in AuthCalls \ {c} : auth'[d] = auth[d]
    BY <1>1
  <2>2. auth'[c] = call
    BY <1>1 DEF SignInTypeOK
  <2> QED BY <1>1, <1>2, <1>3, <1>7, <2>1, <2>2 DEF AuthShape
<1>9. MissesInv' /\ SessionsInv'
  <2>1. \A h \in Challenges : Missing(h)' \subseteq Missing(h) /\ Winning(h)' \subseteq Winning(h)
    BY <1>3, <1>4, <1>5
  <2> QED BY <1>1, <1>3, <2>1, AuthFrame
<1>10. OneTrialPerUser'
  <2>1. \A v \in Users : c \in Creators(v) <=> (auth[c].who = v /\ auth[c].isNew)
    BY DEF Creators
  <2>2. \A v \in Users : Creators(v)' = Creators(v)
    BY <1>3, <1>5, <2>1
  <2> QED BY <1>1, <1>7, <2>2, TrialFrame
<1> QED BY <1>6, <1>8, <1>9, <1>10

\* The session is issued, and the trial of a new user started.
LEMMA IssueStep == ASSUME SignInInv, NEW c \in AuthCalls, issueSession(c) PROVE SignInInv'
<1> USE SignInAssumption DEF SignInInv
<1> DEFINE u == auth[c].who
           h == auth[c].challenge
           more == IF auth[c].isNew THEN 1 ELSE 0
<1>1. /\ auth[c].pc = "issue" /\ auth' = [auth EXCEPT ![c] = NoCall]
      /\ tokens' = tokens \union {[user |-> u, pv |-> u \in Phones]}
      /\ trials' = [trials EXCEPT ![u] = trials[u] + more]
      /\ won' = [won EXCEPT ![h] = won[h] + 1]
      /\ UNCHANGED <<challenges, users, raced>>
  BY DEF issueSession, resume
<1>2. /\ NoCall \in AuthCall /\ NoCall.pc = "idle" /\ NoCall.who = Null /\ NoCall.challenge = Null
      /\ NoCall.isNew = FALSE
  BY DEF NoCall, AuthCall
<1>3. u \in Users /\ h \in Challenges /\ challenges[h].consumed /\ users[u] # "none"
  BY <1>1 DEF AuthShape
<1>4. /\ c \in Winning(h) /\ \A g \in Challenges : c \notin Missing(g) /\ (g # h => c \notin Winning(g))
      /\ \A v \in Users : c \in Creators(v) <=> (v = u /\ auth[c].isNew)
  BY <1>1 DEF Winning, Missing, Creators
<1>5. \A x : /\ Missing(x)' = Missing(x) \ {c} /\ Winning(x)' = Winning(x) \ {c}
             /\ Creators(x)' = Creators(x) \ {c}
  BY <1>1, <1>2, AuthSets
<1>6. more \in {0, 1} /\ (auth[c].isNew => more = 1) /\ (~auth[c].isNew => more = 0)
  OBVIOUS
<1>7. [user |-> u, pv |-> u \in Phones] \in [user : Users, pv : BOOLEAN]
  BY <1>3
<1> HIDE DEF u, h, more
<1>8. SignInTypeOK'
  <2>1. trials' \in [Users -> Nat]
    BY <1>1, <1>3, <1>6 DEF SignInTypeOK
  <2>2. won' \in [Challenges -> Nat]
    BY <1>1, <1>3 DEF SignInTypeOK
  <2>3. tokens' \subseteq [user : Users, pv : BOOLEAN]
    BY <1>1, <1>7 DEF SignInTypeOK
  <2>4. auth' \in [AuthCalls -> AuthCall]
    BY <1>1, <1>2 DEF SignInTypeOK, AuthCall
  <2> QED BY <1>1, <2>1, <2>2, <2>3, <2>4 DEF SignInTypeOK, AuthCall
<1>9. AuthShape'
  BY <1>1, <1>2 DEF AuthShape, SignInTypeOK
<1>10. MissesInv'
  <2>1. \A g \in Challenges : Missing(g)' = Missing(g)
    BY <1>4, <1>5
  <2> QED BY <1>1, <2>1 DEF MissesInv
<1>11. SessionsInv'
  <2> SUFFICES ASSUME NEW g \in Challenges
               PROVE  /\ won'[g] + Cardinality(Winning(g)') <= Cardinality(AuthCalls)
                      /\ ~challenges[g].consumed => won'[g] = 0
                      /\ g \notin raced =>
                           /\ \A b, d \in AuthCalls :
                                auth'[b].challenge = g /\ auth'[d].challenge = g => b = d
                           /\ won'[g] \in {0, 1}
                           /\ won'[g] = 1 => \A d \in AuthCalls : auth'[d].challenge # g
    BY <1>1 DEF SessionsInv
  <2>0. \A d \in AuthCalls : auth'[d].challenge = g => d # c /\ auth[d].challenge = g
    BY <1>1, <1>2 DEF SignInTypeOK
  <2>1. CASE g = h
    <3>1. won'[g] = won[g] + 1 /\ won[g] \in Nat
      BY <1>1, <2>1 DEF SignInTypeOK
    <3>2. IsFiniteSet(Winning(g)) /\ Cardinality(Winning(g)) \in Nat /\ Cardinality(AuthCalls) \in Nat
      BY AuthSetsFinite
    <3>3. Cardinality(Winning(g) \ {c}) = Cardinality(Winning(g)) - 1
      BY <1>4, <2>1, <3>2, CardStep
    <3>4. Cardinality(Winning(g)') = Cardinality(Winning(g)) - 1
      BY <1>5, <3>3
    <3>5. won[g] + Cardinality(Winning(g)) <= Cardinality(AuthCalls)
      BY DEF SessionsInv
    <3>6. auth[c].challenge = g
      BY <2>1 DEF h
    <3>7. g \notin raced => won[g] = 0 /\ \A d \in AuthCalls : auth'[d].challenge # g
      BY <2>0, <3>6 DEF SessionsInv
    <3> QED BY <1>3, <2>1, <3>1, <3>2, <3>4, <3>5, <3>7
  <2>2. CASE g # h
    <3>1. Winning(g)' = Winning(g) /\ won'[g] = won[g]
      BY <1>1, <1>4, <1>5, <2>2 DEF SignInTypeOK
    <3> QED BY <2>0, <3>1 DEF SessionsInv
  <2> QED BY <2>1, <2>2
<1>12. OneTrialPerUser'
  <2> SUFFICES ASSUME NEW v \in Users
               PROVE  trials'[v] + Cardinality(Creators(v)') = IF users[v] = "none" THEN 0 ELSE 1
    BY <1>1 DEF OneTrialPerUser, Creators
  <2>1. trials[v] + Cardinality(Creators(v)) = IF users[v] = "none" THEN 0 ELSE 1
    BY DEF OneTrialPerUser, Creators
  <2>2. IsFiniteSet(Creators(v)) /\ Cardinality(Creators(v)) \in Nat /\ trials[v] \in Nat
    BY AuthSetsFinite DEF SignInTypeOK
  <2>3. CASE v = u /\ auth[c].isNew
    <3>1. Cardinality(Creators(v) \ {c}) = Cardinality(Creators(v)) - 1
      BY <1>4, <2>2, <2>3, CardStep
    <3>2. Cardinality(Creators(v)') = Cardinality(Creators(v)) - 1
      BY <1>5, <3>1
    <3>3. trials'[v] = trials[v] + 1
      BY <1>1, <1>6, <2>3 DEF SignInTypeOK
    <3> QED BY <2>1, <2>2, <3>2, <3>3
  <2>4. CASE ~(v = u /\ auth[c].isNew)
    <3>1. Creators(v)' = Creators(v)
      BY <1>4, <1>5, <2>4
    <3>2. trials'[v] = trials[v]
      BY <1>1, <1>6, <2>2, <2>4 DEF SignInTypeOK
    <3> QED BY <2>1, <3>1, <3>2
  <2> QED BY <2>3, <2>4
<1> QED BY <1>8, <1>9, <1>10, <1>11, <1>12

\* Every step of Onboarding keeps the invariant of signing in.
LEMMA SignInNextOK == ASSUME SignInInv, [Next]_vars PROVE SignInInv'
<1>1. CASE SignInNext
  <2>1. PICK c \in AuthCalls :
          \/ \E who \in Users : startOtp(c, who)
          \/ InsertChallenge(c)
          \/ \E h \in Challenges, right \in BOOLEAN : verifyOtp(c, h, right)
          \/ Miss(c) \/ Consume(c) \/ findOrCreate(c) \/ markVerified(c) \/ issueSession(c)
    BY <1>1 DEF SignInNext
  <2>2. CASE \E who \in Users : startOtp(c, who)
    BY <2>2, StartStep
  <2>3. CASE InsertChallenge(c)
    BY <2>3, InsertStep
  <2>4. CASE \E h \in Challenges, right \in BOOLEAN : verifyOtp(c, h, right)
    BY <2>4, VerifyStep
  <2>5. CASE Miss(c)
    BY <2>5, MissStep
  <2>6. CASE Consume(c)
    BY <2>6, ConsumeStep
  <2>7. CASE findOrCreate(c)
    BY <2>7, FindStep
  <2>8. CASE markVerified(c)
    BY <2>8, MarkStep
  <2>9. CASE issueSession(c)
    BY <2>9, IssueStep
  <2> QED BY <2>1, <2>2, <2>3, <2>4, <2>5, <2>6, <2>7, <2>8, <2>9
<1>2. CASE \E h \in Challenges : Grow(h)
  BY <1>2, GrowStep
<1>3. CASE UNCHANGED signInVars
  <2>1. UNCHANGED <<challenges, users, tokens, auth, trials, won, raced>>
    BY <1>3 DEF signInVars
  <2>2. \A x : Missing(x)' = Missing(x) /\ Winning(x)' = Winning(x) /\ Creators(x)' = Creators(x)
    BY <2>1 DEF Missing, Winning, Creators
  <2>3. SignInTypeOK'
    BY <2>1 DEF SignInInv, SignInTypeOK
  <2>4. AuthShape'
    BY <2>1 DEF SignInInv, AuthShape
  <2>5. MissesInv' /\ SessionsInv'
    BY <2>1, <2>2 DEF SignInInv, MissesInv, SessionsInv
  <2>6. OneTrialPerUser'
    BY <2>1, <2>2, TrialFrame
  <2> QED BY <2>3, <2>4, <2>5, <2>6 DEF SignInInv
<1> QED BY <1>1, <1>2, <1>3 DEF Next, vars

\* Onboarding keeps the types, the shape of calls, the counts of misses and of
\* sessions, and the trials.
THEOREM SignInInvariance == Spec => []SignInInv
<1>1. Init => SignInInv
  BY SignInInitOK, OnboardingAssumption DEF Init
<1>2. SignInInv /\ [Next]_vars => SignInInv'
  BY SignInNextOK
<1> QED BY <1>1, <1>2, PTL DEF Spec

\* CodesAreSpent, for any number of calls and attempts: verifyOtp stops
\* comparing codes once the attempts are used up, but for the calls that were
\* past the check, and a challenge is redeemed once, or once per call in a race.
THEOREM CodesAreSpentAlways == Spec => []CodesAreSpent
<1>1. SignInInv => CodesAreSpent
  <2> SUFFICES ASSUME SignInInv, NEW h \in Challenges
               PROVE  /\ challenges[h].attempts <= OTP_MAX_ATTEMPTS + Cardinality(AuthCalls) - 1
                      /\ won[h] <= IF h \in raced THEN Cardinality(AuthCalls) ELSE 1
    BY DEF CodesAreSpent
  <2>1. /\ Cardinality(Missing(h)) \in Nat /\ Cardinality(Winning(h)) \in Nat
        /\ Cardinality(AuthCalls) \in Nat
    BY AuthSetsFinite
  <2>2. challenges[h].attempts \in Nat /\ won[h] \in Nat
    BY DEF SignInInv, SignInTypeOK
  <2>3. challenges[h].attempts + Cardinality(Missing(h)) <= OTP_MAX_ATTEMPTS + Cardinality(AuthCalls) - 1
    BY DEF SignInInv, MissesInv
  <2>4. won[h] + Cardinality(Winning(h)) <= Cardinality(AuthCalls) /\ (h \notin raced => won[h] \in {0, 1})
    BY DEF SignInInv, SessionsInv
  <2> QED BY <2>1, <2>2, <2>3, <2>4, SignInAssumption
<1> QED BY <1>1, SignInInvariance, PTL

\* OneTrialPerUser, for any number of users and of calls creating them at once:
\* the unique column lets one call find the user new, and only that call starts
\* the trial.
THEOREM TrialsAreSingle == Spec => []OneTrialPerUser
<1>1. SignInInv => OneTrialPerUser
  BY DEF SignInInv
<1> QED BY <1>1, SignInInvariance, PTL


-----------------------------------------------------------------------------
(* The team: the proofs.                                                   *)

\* What Touches says, operation by operation.
LEMMA TouchesOf ==
  ASSUME NEW call
  PROVE  /\ call.op \in {Nothing, "setStatus", "addMember"} => Touches(call) = {}
         /\ call.op = "createEvent" => Touches(call) = {call.who}
         /\ call.op = "createInvitation" => Touches(call) = {"seats"}
         /\ call.op = "acceptInvitation" => Touches(call) = {"seats", call.arg}
         /\ call.op = "revokeInvitation" => Touches(call) = {call.arg}
BY TeamAssumption DEF Touches

\* A call that stands still: its type, and that it holds nothing.
LEMMA IdleCall ==
  /\ Idle \in CallType /\ Idle.op = Nothing /\ Idle.pc = "idle" /\ Idle.who = Nothing
  /\ Idle.event = Nothing /\ Idle.seats = 0 /\ Touches(Idle) = {}
<1>1. /\ Idle \in CallType /\ Idle.op = Nothing /\ Idle.pc = "idle" /\ Idle.who = Nothing
      /\ Idle.event = Nothing /\ Idle.seats = 0
  BY DEF Idle, CallType, CallOps, CallSteps, CallArgs, Accepting
<1> QED BY <1>1, TouchesOf

\* What is kept when one call moves on and no invitation changes.
LEMMA TeamFrame ==
  ASSUME InvitationInv, NEW c \in TeamCalls, NEW call \in CallType,
         team' = [team EXCEPT ![c] = call], CallShape(team[c])', Fresh(team[c])',
         Touches(call) \subseteq Touches(team[c]),
         UNCHANGED <<invitations, admitted, revoked>>, excuses \subseteq excuses',
         \A e \in Events : events[e].status # "none" => events'[e].status # "none"
  PROVE  CallTypes' /\ TeamShape' /\ Overlaps' /\ AcceptanceIsFresh' /\ InvitationsKeepTheirWord'
<1> USE DEF InvitationInv
<1>1. team'[c] = call /\ \A d \in TeamCalls \ {c} : team'[d] = team[d]
  BY DEF CallTypes
<1>2. CallTypes'
  BY DEF CallTypes
<1>3. TeamShape'
  <2> SUFFICES ASSUME NEW d \in TeamCalls PROVE CallShape(team[d])'
    BY DEF TeamShape
  <2>1. CASE d = c
    BY <2>1
  <2>2. CASE d # c
    <3>1. CallShape(team[d]) /\ team'[d] = team[d]
      BY <1>1, <2>2 DEF TeamShape
    <3> QED BY <3>1 DEF CallShape
  <2> QED BY <2>1, <2>2
<1>4. Overlaps'
  <2> SUFFICES ASSUME NEW b \in TeamCalls, NEW d \in TeamCalls, b # d
               PROVE  Touches(team'[b]) \intersect Touches(team'[d]) \subseteq excuses'
    BY DEF Overlaps, Touches
  <2>1. Touches(team[b]) \intersect Touches(team[d]) \subseteq excuses
    BY DEF Overlaps
  <2>2. \A a \in TeamCalls : Touches(team'[a]) \subseteq Touches(team[a])
    BY <1>1
  <2> QED BY <2>1, <2>2
<1>5. AcceptanceIsFresh'
  <2> SUFFICES ASSUME NEW d \in TeamCalls PROVE Fresh(team[d])'
    BY DEF AcceptanceIsFresh
  <2>1. CASE d = c
    BY <2>1
  <2>2. CASE d # c
    <3>1. Fresh(team[d]) /\ team'[d] = team[d]
      BY <1>1, <2>2 DEF AcceptanceIsFresh
    <3> QED BY <3>1 DEF Fresh
  <2> QED BY <2>1, <2>2
<1>6. InvitationsKeepTheirWord'
  BY DEF InvitationsKeepTheirWord
<1> QED BY <1>2, <1>3, <1>4, <1>5, <1>6

\* A step that changes no row keeps everything, if it keeps what a call is.
LEMMA QuietStep ==
  ASSUME InvitationInv, NEW c \in TeamCalls, NEW call \in CallType,
         team' = [team EXCEPT ![c] = call], CallShape(team[c])', Fresh(team[c])',
         Touches(call) \subseteq Touches(team[c]),
         UNCHANGED <<events, members, invitations, admitted, revoked>>, excuses' = excuses
  PROVE  InvitationInv'
<1> USE DEF InvitationInv
<1>1. CallTypes' /\ TeamShape' /\ Overlaps' /\ AcceptanceIsFresh' /\ InvitationsKeepTheirWord'
  BY TeamFrame
<1>2. TeamTypeOK'
  <2>1. \A d \in TeamCalls : team'[d].inv \in {NoInvitation} \union [event : Events, role : Roles,
           status : {"PENDING", "ACCEPTED"}, maxUses : Nat, uses : Nat, live : BOOLEAN]
    BY <1>1 DEF CallTypes, CallType, ReadInvitations
  <2> QED BY <2>1 DEF TeamTypeOK, NoInvitation
<1>3. TeamRows'
  BY DEF TeamRows
<1> QED BY <1>1, <1>2, <1>3


\* The record of call c moves on to step pc: it remains the same call.
Moved(c, call, pc) ==
  /\ team' = [team EXCEPT ![c] = call] /\ team'[c] = call
  /\ call.op = team[c].op /\ call.pc = pc /\ call.who = team[c].who
  /\ call.event = team[c].event /\ call.arg = team[c].arg
  /\ Touches(call) = Touches(team[c])

\* A step that keeps what was read.
LEMMA AdvancePc ==
  ASSUME InvitationInv, NEW c \in TeamCalls, NEW pc \in CallSteps,
         team' = [team EXCEPT ![c].pc = pc]
  PROVE  \E call \in CallType : Moved(c, call, pc) /\ call.inv = team[c].inv /\ call.seats = team[c].seats
<1> DEFINE before == team[c]
           call == [before EXCEPT !.pc = pc]
<1>1. before \in CallType
  BY DEF InvitationInv, CallTypes
<1>2. team' = [team EXCEPT ![c] = call] /\ team'[c] = call
  BY DEF InvitationInv, CallTypes
<1>3. call = [before EXCEPT !.pc = pc]
  OBVIOUS
<1> HIDE DEF before, call
<1>4. /\ call \in CallType /\ call.op = before.op /\ call.pc = pc /\ call.who = before.who
      /\ call.event = before.event /\ call.arg = before.arg /\ call.inv = before.inv /\ call.seats = before.seats
  BY <1>1, <1>3 DEF CallType
<1>5. Touches(call) = Touches(before)
  BY <1>4 DEF Touches
<1> QED BY <1>2, <1>4, <1>5 DEF Moved, before

\* A step that reads the status of the event.
LEMMA AdvanceStatus ==
  ASSUME InvitationInv, NEW c \in TeamCalls, NEW pc \in CallSteps, NEW status \in EventStates,
         team' = [team EXCEPT ![c].pc = pc, ![c].status = status]
  PROVE  \E call \in CallType : Moved(c, call, pc) /\ call.inv = team[c].inv
<1> DEFINE before == team[c]
           call == [before EXCEPT !.pc = pc, !.status = status]
<1>1. before \in CallType
  BY DEF InvitationInv, CallTypes
<1>2. team' = [team EXCEPT ![c] = call] /\ team'[c] = call
  BY DEF InvitationInv, CallTypes
<1>3. call = [before EXCEPT !.pc = pc, !.status = status]
  OBVIOUS
<1> HIDE DEF before, call
<1>4. /\ call \in CallType /\ call.op = before.op /\ call.pc = pc /\ call.who = before.who
      /\ call.event = before.event /\ call.arg = before.arg /\ call.inv = before.inv
  BY <1>1, <1>3 DEF CallType
<1>5. Touches(call) = Touches(before)
  BY <1>4 DEF Touches
<1> QED BY <1>2, <1>4, <1>5 DEF Moved, before

\* A step that counts members.
LEMMA AdvanceSeats ==
  ASSUME InvitationInv, NEW c \in TeamCalls, NEW pc \in CallSteps, NEW seats \in Nat,
         team' = [team EXCEPT ![c].pc = pc, ![c].seats = seats]
  PROVE  \E call \in CallType : Moved(c, call, pc) /\ call.inv = team[c].inv /\ call.seats = seats
<1> DEFINE before == team[c]
           call == [before EXCEPT !.pc = pc, !.seats = seats]
<1>1. before \in CallType
  BY DEF InvitationInv, CallTypes
<1>2. team' = [team EXCEPT ![c] = call] /\ team'[c] = call
  BY DEF InvitationInv, CallTypes
<1>3. call = [before EXCEPT !.pc = pc, !.seats = seats]
  OBVIOUS
<1> HIDE DEF before, call
<1>4. /\ call \in CallType /\ call.op = before.op /\ call.pc = pc /\ call.who = before.who
      /\ call.event = before.event /\ call.arg = before.arg /\ call.inv = before.inv /\ call.seats = seats
  BY <1>1, <1>3 DEF CallType
<1>5. Touches(call) = Touches(before)
  BY <1>4 DEF Touches
<1> QED BY <1>2, <1>4, <1>5 DEF Moved, before

\* A step that reads the invitation.
LEMMA AdvanceInv ==
  ASSUME InvitationInv, NEW c \in TeamCalls, NEW pc \in CallSteps, NEW inv \in ReadInvitations,
         team' = [team EXCEPT ![c].pc = pc, ![c].inv = inv]
  PROVE  \E call \in CallType : Moved(c, call, pc) /\ call.inv = inv
<1> DEFINE before == team[c]
           call == [before EXCEPT !.pc = pc, !.inv = inv]
<1>1. before \in CallType
  BY DEF InvitationInv, CallTypes
<1>2. team' = [team EXCEPT ![c] = call] /\ team'[c] = call
  BY DEF InvitationInv, CallTypes
<1>3. call = [before EXCEPT !.pc = pc, !.inv = inv]
  OBVIOUS
<1> HIDE DEF before, call
<1>4. /\ call \in CallType /\ call.op = before.op /\ call.pc = pc /\ call.who = before.who
      /\ call.event = before.event /\ call.arg = before.arg /\ call.inv = inv
  BY <1>1, <1>3 DEF CallType
<1>5. Touches(call) = Touches(before)
  BY <1>4 DEF Touches
<1> QED BY <1>2, <1>4, <1>5 DEF Moved, before

\* A call that is refused, or has done its work without changing a row.
LEMMA FinishStep ==
  ASSUME InvitationInv, NEW c \in TeamCalls, finish(c),
         UNCHANGED <<events, members, invitations, admitted, revoked, excuses>>
  PROVE  InvitationInv'
<1>1. team' = [team EXCEPT ![c] = Idle] /\ team'[c] = Idle
  BY DEF finish, InvitationInv, CallTypes
<1>2. CallShape(team[c])'
  BY <1>1, IdleCall, TeamAssumption DEF CallShape, Accepting, Idle, NoInvitation
<1>3. Fresh(team[c])'
  BY <1>1, IdleCall DEF Fresh
<1> QED BY <1>1, <1>2, <1>3, IdleCall, QuietStep

\* resolveContext reads the status, then the role.
LEMMA ContextStep ==
  ASSUME InvitationInv, NEW c \in TeamCalls, ReadStatus(c) \/ ReadRole(c)
  PROVE  InvitationInv'
<1>0. CallShape(team[c])
  BY DEF InvitationInv, TeamShape
<1>1. CASE ReadStatus(c)
  <2>1. /\ team[c].pc = "status"
        /\ team' = [team EXCEPT ![c].pc = "role", ![c].status = events[team[c].event].status]
        /\ UNCHANGED <<events, members, invitations, admitted, revoked, excuses>>
    BY <1>1 DEF ReadStatus
  <2>2. events[team[c].event].status \in EventStates
    BY <1>0, <2>1 DEF InvitationInv, CallShape, TeamTypeOK, EventStates
  <2>3. PICK call \in CallType : Moved(c, call, "role")
    <3>1. "role" \in CallSteps
      BY DEF CallSteps
    <3> QED BY <2>1, <2>2, <3>1, AdvanceStatus
  <2>4. CallShape(team[c])' /\ Fresh(team[c])'
    BY <1>0, <2>1, <2>3 DEF CallShape, Fresh, Accepting, Moved
  <2> QED BY <2>1, <2>3, <2>4, QuietStep DEF Moved
<1>2. CASE ReadRole(c)
  <2>1. /\ team[c].pc = "role" /\ (finish(c) \/ team' = [team EXCEPT ![c].pc = "act"])
        /\ UNCHANGED <<events, members, invitations, admitted, revoked, excuses>>
    BY <1>2 DEF ReadRole, advance
  <2>2. CASE team' = [team EXCEPT ![c].pc = "act"]
    <3>1. PICK call \in CallType : Moved(c, call, "act")
      <4>1. "act" \in CallSteps
        BY DEF CallSteps
      <4> QED BY <2>2, <4>1, AdvancePc
    <3>2. CallShape(team[c])' /\ Fresh(team[c])'
      BY <1>0, <2>1, <3>1 DEF CallShape, Fresh, Accepting, Moved
    <3> QED BY <2>1, <3>1, <3>2, QuietStep DEF Moved
  <2> QED BY <2>1, <2>2, FinishStep
<1> QED BY <1>1, <1>2


\* Members and pending invitations can be counted.
LEMMA SeatsFinite ==
  ASSUME NEW e
  PROVE  /\ IsFiniteSet(Members(e)) /\ Cardinality(Members(e)) \in Nat
         /\ IsFiniteSet(Pending(e)) /\ Cardinality(Pending(e)) \in Nat
<1>1. Members(e) \in SUBSET People /\ Pending(e) \in SUBSET Invitations
  BY DEF Members, Pending
<1>2. IsFiniteSet(People) /\ IsFiniteSet(Invitations)
  BY TeamAssumption
<1>3. IsFiniteSet(Members(e)) /\ IsFiniteSet(Pending(e))
  BY <1>1, <1>2, FS_Subset
<1> QED BY <1>3, FS_CardinalityType

\* The gates and reads of the operations.
LEMMA GateStep ==
  ASSUME InvitationInv, NEW c \in TeamCalls,
         assertCanCreateEvent(c) \/ CountMembers(c) \/ CountPending(c)
  PROVE  InvitationInv'
<1>0. CallShape(team[c])
  BY DEF InvitationInv, TeamShape
<1>1. CASE assertCanCreateEvent(c)
  <2>1. /\ team[c].pc = "count" /\ (finish(c) \/ team' = [team EXCEPT ![c].pc = "insertEvent"])
        /\ UNCHANGED <<events, members, invitations, admitted, revoked, excuses>>
    BY <1>1 DEF assertCanCreateEvent, advance
  <2>2. CASE team' = [team EXCEPT ![c].pc = "insertEvent"]
    <3>1. PICK call \in CallType : Moved(c, call, "insertEvent")
      <4>1. "insertEvent" \in CallSteps
        BY DEF CallSteps
      <4> QED BY <2>2, <4>1, AdvancePc
    <3>2. CallShape(team[c])' /\ Fresh(team[c])'
      BY <1>0, <2>1, <3>1 DEF CallShape, Fresh, Accepting, Moved
    <3> QED BY <2>1, <3>1, <3>2, QuietStep DEF Moved
  <2> QED BY <2>1, <2>2, FinishStep
<1>2. CASE CountMembers(c)
  <2>1. /\ team[c].pc = "act" /\ team[c].op = "createInvitation"
        /\ team' = [team EXCEPT ![c].pc = "seats", ![c].seats = Cardinality(Members(team[c].event))]
        /\ UNCHANGED <<events, members, invitations, admitted, revoked, excuses>>
    BY <1>2 DEF CountMembers
  <2>2. Cardinality(Members(team[c].event)) \in Nat
    BY SeatsFinite
  <2>3. PICK call \in CallType : Moved(c, call, "seats")
    <3>1. "seats" \in CallSteps
      BY DEF CallSteps
    <3> QED BY <2>1, <2>2, <3>1, AdvanceSeats
  <2>4. CallShape(team[c])' /\ Fresh(team[c])'
    BY <1>0, <2>1, <2>3 DEF CallShape, Fresh, Accepting, Moved
  <2> QED BY <2>1, <2>3, <2>4, QuietStep DEF Moved
<1>3. CASE CountPending(c)
  <2>1. /\ team[c].pc = "seats" /\ (finish(c) \/ team' = [team EXCEPT ![c].pc = "invite"])
        /\ UNCHANGED <<events, members, invitations, admitted, revoked, excuses>>
    BY <1>3 DEF CountPending, advance
  <2>2. CASE team' = [team EXCEPT ![c].pc = "invite"]
    <3>1. PICK call \in CallType : Moved(c, call, "invite")
      <4>1. "invite" \in CallSteps
        BY DEF CallSteps
      <4> QED BY <2>2, <4>1, AdvancePc
    <3>2. CallShape(team[c])' /\ Fresh(team[c])'
      BY <1>0, <2>1, <3>1 DEF CallShape, Fresh, Accepting, Moved
    <3> QED BY <2>1, <3>1, <3>2, QuietStep DEF Moved
  <2> QED BY <2>1, <2>2, FinishStep
<1> QED BY <1>1, <1>2, <1>3

\* An acceptance reads the invitation, and the caller's membership.
LEMMA AcceptReadStep ==
  ASSUME InvitationInv, NEW c \in TeamCalls, ReadToken(c) \/ ReadStanding(c)
  PROVE  InvitationInv'
<1>0. CallShape(team[c]) /\ Fresh(team[c])
  BY DEF InvitationInv, TeamShape, AcceptanceIsFresh
<1>1. CASE ReadToken(c)
  <2> DEFINE i == team[c].arg
             inv == invitations[i]
             pc == IF inv.live THEN "standing" ELSE "expire"
  <2>1. /\ team[c].pc = "token"
        /\ \/ finish(c)
           \/ /\ inv.status \notin {"REVOKED", "EXPIRED"}
              /\ team' = [team EXCEPT ![c].pc = pc, ![c].inv = inv]
        /\ UNCHANGED <<events, members, invitations, admitted, revoked, excuses>>
    BY <1>1 DEF ReadToken
  <2>2. CASE /\ inv.status \notin {"REVOKED", "EXPIRED"}
             /\ team' = [team EXCEPT ![c].pc = pc, ![c].inv = inv]
    <3>1. i \in Invitations /\ inv.status # "none" /\ team[c].event = inv.event
      BY <1>0, <2>1 DEF CallShape, Accepting
    <3>2. inv \in ReadInvitations /\ (inv.status = "ACCEPTED" => inv.uses >= inv.maxUses)
      BY <2>2, <3>1 DEF InvitationInv, TeamTypeOK, TeamRows, ReadInvitations
    <3>3. i \notin excuses => i \notin revoked
      BY <2>2, <3>1 DEF InvitationInv, InvitationsKeepTheirWord
    <3>4. pc \in CallSteps /\ pc \in {"standing", "expire"}
      BY DEF CallSteps, Accepting
    <3> HIDE DEF inv, pc, i
    <3>5. PICK call \in CallType : Moved(c, call, pc) /\ call.inv = inv
      <4>1. PICK next \in CallSteps : next = pc
        BY <3>4
      <4>2. PICK seen \in ReadInvitations : seen = inv
        BY <3>2
      <4>3. team' = [team EXCEPT ![c].pc = next, ![c].inv = seen]
        BY <2>2, <4>1, <4>2
      <4>4. \E call \in CallType : Moved(c, call, next) /\ call.inv = seen
        BY <4>3, AdvanceInv
      <4> QED BY <4>1, <4>2, <4>4
    <3>6. CallShape(team[c])'
      BY <1>0, <2>1, <3>4, <3>5 DEF CallShape, Accepting, Moved
    <3>7. Fresh(team[c])'
      BY <2>1, <3>2, <3>3, <3>4, <3>5 DEF Fresh, Moved, i, inv
    <3> QED BY <2>1, <3>5, <3>6, <3>7, QuietStep DEF Moved
  <2> QED BY <2>1, <2>2, FinishStep
<1>2. CASE ReadStanding(c)
  <2>1. /\ team[c].pc = "standing"
        /\ finish(c) \/ (/\ team' = [team EXCEPT ![c].pc = "admit"]
                         /\ ~(team[c].inv.uses >= team[c].inv.maxUses))
        /\ UNCHANGED <<events, members, invitations, admitted, revoked, excuses>>
    BY <1>2 DEF ReadStanding, advance
  <2>2. CASE /\ team' = [team EXCEPT ![c].pc = "admit"]
             /\ ~(team[c].inv.uses >= team[c].inv.maxUses)
    <3>1. PICK call \in CallType : Moved(c, call, "admit") /\ call.inv = team[c].inv
      <4>1. "admit" \in CallSteps
        BY DEF CallSteps, Accepting
      <4> QED BY <2>2, <4>1, AdvancePc
    <3>2. CallShape(team[c])'
      BY <1>0, <2>1, <3>1 DEF CallShape, Accepting, Moved
    <3>3. team[c].inv \in ReadInvitations /\ team[c].inv.uses \in Nat /\ team[c].inv.maxUses \in Nat
      BY <1>0, <2>1 DEF Fresh, ReadInvitations
    <3>4. team[c].inv.uses < team[c].inv.maxUses
      BY <2>2, <3>3
    <3>5. Fresh(team[c])'
      BY <1>0, <2>1, <3>1, <3>4 DEF Fresh, Moved
    <3> QED BY <2>1, <3>1, <3>2, <3>5, QuietStep DEF Moved
  <2> QED BY <2>1, <2>2, FinishStep
<1> QED BY <1>1, <1>2


\* A call begins: what it shares with the calls in progress is put on record.
LEMMA BeginStep ==
  ASSUME InvitationInv, NEW c \in TeamCalls, NEW call \in CallType, begin(c, call),
         CallShape(call), call.pc \in {"count", "token", "status"}
  PROVE  InvitationInv'
<1> USE DEF InvitationInv
<1>1. /\ team' = [team EXCEPT ![c] = call]
      /\ excuses' = excuses \union
           UNION {Touches(call) \intersect Touches(team[d]) : d \in TeamCalls \ {c}}
      /\ UNCHANGED <<events, members, invitations, admitted, revoked>>
  BY DEF begin
<1>2. team'[c] = call /\ \A d \in TeamCalls \ {c} : team'[d] = team[d]
  BY <1>1 DEF CallTypes
<1>3. CallTypes'
  BY <1>1 DEF CallTypes
<1>4. TeamTypeOK'
  <2>1. \A d \in TeamCalls : team'[d].inv \in {NoInvitation} \union [event : Events, role : Roles,
           status : {"PENDING", "ACCEPTED"}, maxUses : Nat, uses : Nat, live : BOOLEAN]
    BY <1>3 DEF CallTypes, CallType, ReadInvitations
  <2> QED BY <1>1, <2>1 DEF TeamTypeOK, NoInvitation
<1>5. TeamRows'
  BY <1>1 DEF TeamRows
<1>6. TeamShape'
  <2> SUFFICES ASSUME NEW d \in TeamCalls PROVE CallShape(team[d])'
    BY DEF TeamShape
  <2>1. CallShape(team'[d])
    BY <1>2 DEF TeamShape
  <2> QED BY <1>1, <2>1 DEF CallShape
<1>7. Overlaps'
  <2> SUFFICES ASSUME NEW b \in TeamCalls, NEW d \in TeamCalls, b # d
               PROVE  Touches(team'[b]) \intersect Touches(team'[d]) \subseteq excuses'
    BY DEF Overlaps, Touches
  <2>1. CASE b = c
    BY <1>1, <1>2, <2>1
  <2>2. CASE d = c
    BY <1>1, <1>2, <2>2
  <2>3. CASE b # c /\ d # c
    BY <1>1, <1>2, <2>3 DEF Overlaps
  <2> QED BY <2>1, <2>2, <2>3
<1>8. AcceptanceIsFresh'
  <2> SUFFICES ASSUME NEW d \in TeamCalls PROVE Fresh(team[d])'
    BY DEF AcceptanceIsFresh
  <2>1. CASE d = c
    BY <1>2, <2>1 DEF Fresh
  <2>2. CASE d # c
    <3>1. Fresh(team[d]) /\ team'[d] = team[d] /\ excuses \subseteq excuses'
      BY <1>1, <1>2, <2>2 DEF AcceptanceIsFresh
    <3> QED BY <1>1, <3>1 DEF Fresh
  <2> QED BY <2>1, <2>2
<1>9. InvitationsKeepTheirWord'
  BY <1>1 DEF InvitationsKeepTheirWord
<1> QED BY <1>3, <1>4, <1>5, <1>6, <1>7, <1>8, <1>9

\* The routes begin calls of the right shape.
LEMMA RequestStep ==
  ASSUME InvitationInv, NEW c \in TeamCalls, NEW who \in People, Request(c, who)
  PROVE  InvitationInv'
<1> USE DEF InvitationInv
<1>1. CASE begin(c, [Idle EXCEPT !.op = "createEvent", !.pc = "count", !.who = who])
  <2> DEFINE call == [Idle EXCEPT !.op = "createEvent", !.pc = "count", !.who = who]
  <2>1. Idle \in CallType /\ Idle.event = Nothing
    BY IdleCall
  <2>2. "createEvent" \in CallOps /\ "count" \in CallSteps /\ Nothing \in CallArgs
    BY DEF CallOps, CallSteps, CallArgs
  <2>7. call = [Idle EXCEPT !.op = "createEvent", !.pc = "count", !.who = who]
    OBVIOUS
  <2> HIDE DEF call
  <2>3. call \in CallType /\ call.op = "createEvent" /\ call.pc = "count" /\ call.who = who
    BY <2>1, <2>2, <2>7 DEF CallType
  <2>4. CallShape(call)
    BY <2>3 DEF CallShape, Accepting
  <2>5. begin(c, call)
    BY <1>1 DEF call
  <2> QED BY <2>3, <2>4, <2>5, BeginStep
<1>2. ASSUME NEW i \in Invitations, invitations[i].status # "none",
             begin(c, [Idle EXCEPT !.op = "acceptInvitation", !.pc = "token", !.who = who, !.arg = i,
                                   !.event = invitations[i].event])
      PROVE  InvitationInv'
  <2> DEFINE e == invitations[i].event
             call == [Idle EXCEPT !.op = "acceptInvitation", !.pc = "token", !.who = who, !.arg = i,
                                  !.event = e]
  <2>0. e \in Events /\ events[e].status # "none"
    BY <1>2 DEF TeamRows
  <2>1. Idle \in CallType /\ Idle.event = Nothing
    BY IdleCall
  <2>2. "acceptInvitation" \in CallOps /\ "token" \in CallSteps /\ i \in CallArgs
    BY DEF CallOps, CallSteps, CallArgs, Accepting
  <2>5. begin(c, call)
    BY <1>2
  <2>7. call = [Idle EXCEPT !.op = "acceptInvitation", !.pc = "token", !.who = who, !.arg = i, !.event = e]
    OBVIOUS
  <2> HIDE DEF call
  <2>3. /\ call \in CallType /\ call.op = "acceptInvitation" /\ call.pc = "token" /\ call.who = who
        /\ call.event = e /\ call.arg = i
    BY <2>0, <2>1, <2>2, <2>7 DEF CallType
  <2>4. CallShape(call)
    BY <1>2, <2>0, <2>3 DEF CallShape, Accepting
  <2> QED BY <2>3, <2>4, <2>5, BeginStep
<1>3. ASSUME NEW e \in Events, events[e].status # "none",
             NEW op \in {"setStatus", "createInvitation", "revokeInvitation", "addMember"}, NEW arg,
             op = "setStatus" => arg \in {"ACTIVE", "PAUSED", "CLOSED"},
             op = "createInvitation" => arg \in Uses,
             op = "revokeInvitation" => arg \in Invitations /\ invitations[arg].event = e,
             op = "addMember" => arg \in People \X {"COORDINATOR"},
             begin(c, [Idle EXCEPT !.op = op, !.pc = "status", !.who = who, !.event = e, !.arg = arg])
      PROVE  InvitationInv'
  <2> DEFINE call == [Idle EXCEPT !.op = op, !.pc = "status", !.who = who, !.event = e, !.arg = arg]
  <2>1. Idle \in CallType /\ Idle.event = Nothing
    BY IdleCall
  <2>2. op \in CallOps /\ "status" \in CallSteps /\ arg \in CallArgs
    BY <1>3 DEF CallOps, CallSteps, CallArgs
  <2>5. begin(c, call)
    BY <1>3
  <2>7. call = [Idle EXCEPT !.op = op, !.pc = "status", !.who = who, !.event = e, !.arg = arg]
    OBVIOUS
  <2> HIDE DEF call
  <2>3. /\ call \in CallType /\ call.op = op /\ call.pc = "status" /\ call.who = who
        /\ call.event = e /\ call.arg = arg
    BY <2>1, <2>2, <2>7 DEF CallType
  <2>4. op = "revokeInvitation" => invitations[arg].status # "none"
    BY <1>3, TeamAssumption DEF TeamRows, NoInvitation
  <2>6. CallShape(call)
    BY <1>3, <2>3, <2>4 DEF CallShape, Accepting
  <2> QED BY <2>3, <2>5, <2>6, BeginStep
<1>4. CASE \E e \in {f \in Events : events[f].status # "none"} :
             LET asks(op, arg) ==
                   begin(c, [Idle EXCEPT !.op = op, !.pc = "status", !.who = who, !.event = e, !.arg = arg])
             IN \/ \E s \in {"ACTIVE", "PAUSED", "CLOSED"} : asks("setStatus", s)
                \/ \E n \in Uses : asks("createInvitation", n)
                \/ \E i \in Invitations : invitations[i].event = e /\ asks("revokeInvitation", i)
                \/ \E u \in People, r \in {"COORDINATOR"} : asks("addMember", <<u, r>>)
  <2>1. PICK e \in Events : /\ events[e].status # "none"
             /\ LET asks(op, arg) ==
                   begin(c, [Idle EXCEPT !.op = op, !.pc = "status", !.who = who, !.event = e, !.arg = arg])
             IN \/ \E s \in {"ACTIVE", "PAUSED", "CLOSED"} : asks("setStatus", s)
                \/ \E n \in Uses : asks("createInvitation", n)
                \/ \E i \in Invitations : invitations[i].event = e /\ asks("revokeInvitation", i)
                \/ \E u \in People, r \in {"COORDINATOR"} : asks("addMember", <<u, r>>)
    BY <1>4
  <2> DEFINE asks(op, arg) ==
               begin(c, [Idle EXCEPT !.op = op, !.pc = "status", !.who = who, !.event = e, !.arg = arg])
  <2>2. CASE \E s \in {"ACTIVE", "PAUSED", "CLOSED"} : asks("setStatus", s)
    BY <1>3, <2>1, <2>2
  <2>3. CASE \E n \in Uses : asks("createInvitation", n)
    BY <1>3, <2>1, <2>3
  <2>4. CASE \E i \in Invitations : invitations[i].event = e /\ asks("revokeInvitation", i)
    BY <1>3, <2>1, <2>4
  <2>5. CASE \E u \in People, r \in {"COORDINATOR"} : asks("addMember", <<u, r>>)
    <3>1. PICK u \in People : asks("addMember", <<u, "COORDINATOR">>)
      BY <2>5
    <3>2. <<u, "COORDINATOR">> \in People \X {"COORDINATOR"}
      OBVIOUS
    <3> DEFINE arg == <<u, "COORDINATOR">>
    <3>3. arg \in People \X {"COORDINATOR"} /\ asks("addMember", arg)
      BY <3>1, <3>2
    <3> HIDE DEF arg
    <3> QED BY <1>3, <2>1, <3>3
  <2> QED BY <2>1, <2>2, <2>3, <2>4, <2>5
<1> QED BY <1>1, <1>2, <1>4 DEF Request


\* A call that ends is idle.
LEMMA Finished ==
  ASSUME InvitationInv, NEW c \in TeamCalls, finish(c)
  PROVE  /\ team' = [team EXCEPT ![c] = Idle] /\ CallShape(team[c])' /\ Fresh(team[c])'
         /\ Touches(Idle) \subseteq Touches(team[c]) /\ Idle \in CallType
<1>1. team' = [team EXCEPT ![c] = Idle] /\ team'[c] = Idle
  BY DEF finish, InvitationInv, CallTypes
<1>2. CallShape(team[c])'
  BY <1>1, IdleCall, TeamAssumption DEF CallShape, Accepting, Idle, NoInvitation
<1>3. Fresh(team[c])'
  BY <1>1, IdleCall DEF Fresh
<1> QED BY <1>1, <1>2, <1>3, IdleCall

\* What an operation on an event or its members must keep.
LEMMA EventWrite ==
  ASSUME InvitationInv, NEW c \in TeamCalls, finish(c), UNCHANGED <<invitations, admitted, revoked>>,
         excuses \subseteq excuses',
         events' \in [Events -> [owner : People \union {Nothing},
                                 status : {"none", "ACTIVE", "PAUSED", "CLOSED"}]],
         members' \in [Events -> [People -> Roles \union {Nothing}]],
         \A e \in Events : events[e].status # "none" => events'[e].status # "none",
         \A e \in Events : events'[e].status = "none" =>
           events'[e] = events[e] /\ members'[e] = members[e]
  PROVE  InvitationInv'
<1> USE DEF InvitationInv
<1>1. CallTypes' /\ TeamShape' /\ Overlaps' /\ AcceptanceIsFresh' /\ InvitationsKeepTheirWord'
  BY Finished, TeamFrame
<1>2. TeamTypeOK'
  <2>1. \A d \in TeamCalls : team'[d].inv \in {NoInvitation} \union [event : Events, role : Roles,
           status : {"PENDING", "ACCEPTED"}, maxUses : Nat, uses : Nat, live : BOOLEAN]
    BY <1>1 DEF CallTypes, CallType, ReadInvitations
  <2> QED BY <2>1 DEF TeamTypeOK, NoInvitation
<1>3. TeamRows'
  <2>1. \A e \in Events : events'[e].status = "none" =>
          events'[e] = NoEvent /\ \A u \in People : members'[e][u] = Nothing
    BY DEF TeamRows
  <2>2. \A i \in Invitations :
          IF invitations[i].status = "none" THEN invitations[i] = NoInvitation
          ELSE /\ invitations[i].event \in Events /\ events'[invitations[i].event].status # "none"
               /\ invitations[i].role \in Roles
               /\ invitations[i].status = "ACCEPTED" => invitations[i].uses >= invitations[i].maxUses
    BY DEF TeamRows
  <2> QED BY <2>1, <2>2 DEF TeamRows, NoEvent, NoInvitation
<1> QED BY <1>1, <1>2, <1>3

\* Events are created, and opened and closed; members are added.
LEMMA EventStep ==
  ASSUME InvitationInv, NEW c \in TeamCalls, createEvent(c) \/ setStatus(c) \/ addMember(c)
  PROVE  InvitationInv'
<1> USE DEF InvitationInv
<1>0. CallShape(team[c])
  BY DEF TeamShape
<1>1. CASE createEvent(c)
  <2> DEFINE u == team[c].who
  <2>1. PICK e \in Events :
          /\ events[e] = NoEvent
          /\ events' = [events EXCEPT ![e] = [owner |-> u, status |-> "ACTIVE"]]
          /\ members' = [members EXCEPT ![e][u] = "OWNER"]
    BY <1>1 DEF createEvent
  <2>2. /\ team[c].pc = "insertEvent" /\ finish(c)
        /\ UNCHANGED <<invitations, admitted, revoked, excuses>>
    BY <1>1 DEF createEvent
  <2>3. u \in People
    BY <1>0, <2>2 DEF CallShape
  <2> HIDE DEF u
  <2>4. events' \in [Events -> [owner : People \union {Nothing},
                                status : {"none", "ACTIVE", "PAUSED", "CLOSED"}]]
    BY <2>1, <2>3 DEF TeamTypeOK
  <2>5. members' \in [Events -> [People -> Roles \union {Nothing}]]
    BY <2>1, <2>3 DEF TeamTypeOK, Roles
  <2>6. /\ events'[e].status = "ACTIVE"
        /\ \A f \in Events \ {e} : events'[f] = events[f] /\ members'[f] = members[f]
    BY <2>1 DEF TeamTypeOK
  <2> QED BY <2>2, <2>4, <2>5, <2>6, EventWrite
<1>2. CASE setStatus(c)
  <2> DEFINE e == team[c].event
             s == team[c].arg
  <2>1. /\ team[c].pc = "act" /\ team[c].op = "setStatus"
        /\ events' = [events EXCEPT ![e].status = s]
        /\ excuses \subseteq excuses' /\ finish(c) /\ UNCHANGED <<members, invitations, admitted, revoked>>
    BY <1>2 DEF setStatus
  <2>2. e \in Events /\ s \in {"ACTIVE", "PAUSED", "CLOSED"}
    BY <1>0, <2>1 DEF CallShape
  <2> HIDE DEF e, s
  <2> DEFINE row == [events[e] EXCEPT !.status = s]
  <2>3. events' = [events EXCEPT ![e] = row] /\ row.status = s
        /\ row \in [owner : People \union {Nothing}, status : {"none", "ACTIVE", "PAUSED", "CLOSED"}]
    BY <2>1, <2>2 DEF TeamTypeOK
  <2> HIDE DEF row
  <2>4. events' \in [Events -> [owner : People \union {Nothing},
                                status : {"none", "ACTIVE", "PAUSED", "CLOSED"}]]
    BY <2>2, <2>3 DEF TeamTypeOK
  <2>5. /\ events'[e].status = s
        /\ \A f \in Events \ {e} : events'[f] = events[f]
    BY <2>2, <2>3 DEF TeamTypeOK
  <2>6. members' \in [Events -> [People -> Roles \union {Nothing}]]
    BY <2>1 DEF TeamTypeOK
  <2> QED BY <2>1, <2>2, <2>4, <2>5, <2>6, EventWrite
<1>3. CASE addMember(c)
  <2> DEFINE e == team[c].event
             target == team[c].arg[1]
             role == team[c].arg[2]
  <2>1. /\ team[c].pc = "act" /\ team[c].op = "addMember"
        /\ members' = [members EXCEPT ![e][target] = role]
        /\ excuses \subseteq excuses' /\ finish(c) /\ UNCHANGED <<events, invitations, admitted, revoked>>
    BY <1>3 DEF addMember
  <2>2. e \in Events /\ events[e].status # "none" /\ target \in People /\ role \in Roles
    <3>1. team[c].arg \in People \X {"COORDINATOR"}
      BY <1>0, <2>1 DEF CallShape
    <3>2. target \in People /\ role = "COORDINATOR"
      BY <3>1
    <3> QED BY <1>0, <2>1, <3>2 DEF CallShape, Accepting, Roles
  <2> HIDE DEF e, target, role
  <2>3. members' \in [Events -> [People -> Roles \union {Nothing}]]
    BY <2>1, <2>2 DEF TeamTypeOK
  <2>4. \A f \in Events \ {e} : members'[f] = members[f]
    BY <2>1 DEF TeamTypeOK
  <2>5. events' \in [Events -> [owner : People \union {Nothing},
                                status : {"none", "ACTIVE", "PAUSED", "CLOSED"}]]
    BY <2>1 DEF TeamTypeOK
  <2> QED BY <2>1, <2>2, <2>3, <2>4, <2>5, EventWrite
<1> QED BY <1>1, <1>2, <1>3


InvitationRow ==
  [event : Events \union {Nothing}, role : Roles \union {Nothing},
   status : {"none", "PENDING", "ACCEPTED", "EXPIRED", "REVOKED"},
   maxUses : Nat, uses : Nat, live : BOOLEAN]

\* What a write to one invitation must keep, given that the calls at work on
\* that invitation do not notice.
RowWritten(c, i, row) ==
  /\ finish(c) /\ invitations' = [invitations EXCEPT ![i] = row] /\ UNCHANGED <<events, excuses>>
  /\ members' \in [Events -> [People -> Roles \union {Nothing}]]
  /\ \A e \in Events : events[e].status = "none" => members'[e] = members[e]
  /\ admitted' \in [Invitations -> Nat]
  /\ \A j \in Invitations \ {i} : admitted'[j] = admitted[j]
  /\ revoked \subseteq revoked' /\ revoked' \subseteq revoked \union {i}
  /\ row.event \in Events /\ events[row.event].status # "none" /\ row.role \in Roles
  /\ row.status # "none" /\ (row.status = "ACCEPTED" => row.uses >= row.maxUses)
  /\ invitations[i].status # "none" =>
       row.event = invitations[i].event /\ row.maxUses = invitations[i].maxUses
  /\ \A d \in TeamCalls \ {c} :
       team[d].op = "acceptInvitation" /\ team[d].arg = i => i \in excuses
  /\ i \notin excuses =>
       /\ admitted'[i] <= row.maxUses /\ admitted'[i] = row.uses
       /\ i \in revoked' => row.status = "REVOKED"

\* A write to one invitation keeps the invariant.
LEMMA RowWrite ==
  ASSUME InvitationInv, NEW c \in TeamCalls, NEW i \in Invitations, NEW row \in InvitationRow,
         RowWritten(c, i, row)
  PROVE  InvitationInv'
<1> USE DEF RowWritten
<1> USE DEF InvitationInv
<1>0. /\ team' = [team EXCEPT ![c] = Idle] /\ CallShape(team[c])' /\ Fresh(team[c])'
      /\ Touches(Idle) = {} /\ Idle \in CallType
  BY Finished, IdleCall
<1>1. team'[c] = Idle /\ \A d \in TeamCalls \ {c} : team'[d] = team[d]
  BY <1>0 DEF CallTypes
<1>2. invitations'[i] = row /\ \A j \in Invitations \ {i} : invitations'[j] = invitations[j]
  BY DEF TeamTypeOK
<1>3. CallTypes'
  BY <1>0 DEF CallTypes
<1>4. TeamTypeOK'
  <2>1. \A d \in TeamCalls : team'[d].inv \in {NoInvitation} \union [event : Events, role : Roles,
           status : {"PENDING", "ACCEPTED"}, maxUses : Nat, uses : Nat, live : BOOLEAN]
    BY <1>3 DEF CallTypes, CallType, ReadInvitations
  <2>2. invitations' \in [Invitations -> InvitationRow]
    BY DEF TeamTypeOK, InvitationRow
  <2> QED BY <2>1, <2>2 DEF TeamTypeOK, NoInvitation, InvitationRow
<1>5. TeamRows'
  <2>1. \A e \in Events : events'[e].status = "none" =>
          events'[e] = NoEvent /\ \A u \in People : members'[e][u] = Nothing
    BY DEF TeamRows
  <2>2. \A j \in Invitations :
          IF invitations'[j].status = "none" THEN invitations'[j] = NoInvitation
          ELSE /\ invitations'[j].event \in Events /\ events'[invitations'[j].event].status # "none"
               /\ invitations'[j].role \in Roles
               /\ invitations'[j].status = "ACCEPTED" => invitations'[j].uses >= invitations'[j].maxUses
    BY <1>2 DEF TeamRows
  <2> QED BY <2>1, <2>2 DEF TeamRows, NoEvent, NoInvitation
<1>6. TeamShape'
  <2> SUFFICES ASSUME NEW d \in TeamCalls PROVE CallShape(team[d])'
    BY DEF TeamShape
  <2>1. CASE d = c
    BY <1>0, <2>1
  <2>2. CASE d # c
    <3>1. CallShape(team[d]) /\ team'[d] = team[d]
      BY <1>1, <2>2 DEF TeamShape
    <3>2. \A j \in Invitations : invitations[j].status # "none" =>
            invitations'[j].status # "none" /\ invitations'[j].event = invitations[j].event
      BY <1>2
    <3> QED BY <3>1, <3>2 DEF CallShape
  <2> QED BY <2>1, <2>2
<1>7. Overlaps'
  <2> SUFFICES ASSUME NEW b \in TeamCalls, NEW d \in TeamCalls, b # d
               PROVE  Touches(team'[b]) \intersect Touches(team'[d]) \subseteq excuses
    BY DEF Overlaps, Touches
  <2>1. Touches(team[b]) \intersect Touches(team[d]) \subseteq excuses
    BY DEF Overlaps
  <2>2. \A a \in TeamCalls : Touches(team'[a]) \subseteq Touches(team[a])
    BY <1>0, <1>1
  <2> QED BY <2>1, <2>2
<1>8. AcceptanceIsFresh'
  <2> SUFFICES ASSUME NEW d \in TeamCalls PROVE Fresh(team[d])'
    BY DEF AcceptanceIsFresh
  <2>1. CASE d = c
    BY <1>0, <2>1
  <2>2. CASE d # c
    <3>1. Fresh(team[d]) /\ team'[d] = team[d] /\ CallShape(team[d])
      BY <1>1, <2>2 DEF AcceptanceIsFresh, TeamShape
    <3>2. CASE team[d].pc \notin {"expire", "standing", "admit"}
      BY <3>1, <3>2 DEF Fresh
    <3>3. CASE team[d].pc \in {"expire", "standing", "admit"}
      <4> DEFINE j == team[d].arg
      <4>1. /\ j \in Invitations /\ invitations[j].status # "none"
            /\ team[d].op = "acceptInvitation"
        BY <3>1, <3>3 DEF CallShape, Accepting
      <4>2. invitations'[j].maxUses = invitations[j].maxUses
        BY <1>2, <4>1
      <4>3. j \notin excuses => invitations'[j].uses = invitations[j].uses /\ (j \in revoked' => j \in revoked)
        BY <1>2, <2>2, <4>1
      <4> HIDE DEF j
      <4>4. team'[d].arg = j /\ team[d].arg = j
        BY <3>1 DEF j
      <4> QED BY <3>1, <3>3, <4>2, <4>3, <4>4 DEF Fresh
    <3> QED BY <3>2, <3>3
  <2> QED BY <2>1, <2>2
<1>9. InvitationsKeepTheirWord'
  <2> SUFFICES ASSUME NEW j \in Invitations, j \notin excuses
               PROVE  /\ admitted'[j] <= invitations'[j].maxUses
                      /\ admitted'[j] = invitations'[j].uses
                      /\ j \in revoked' => invitations'[j].status = "REVOKED"
    BY DEF InvitationsKeepTheirWord
  <2>1. CASE j = i
    BY <1>2, <2>1
  <2>2. CASE j # i
    BY <1>2, <2>2 DEF InvitationsKeepTheirWord
  <2> QED BY <2>1, <2>2
<1> QED BY <1>3, <1>4, <1>5, <1>6, <1>7, <1>8, <1>9

\* Two calls that are at the same invitation are on record.
LEMMA SharedInvitation ==
  ASSUME InvitationInv, NEW c \in TeamCalls, NEW d \in TeamCalls, c # d,
         team[c].op \in {"acceptInvitation", "revokeInvitation"}, team[d].op = "acceptInvitation",
         team[c].arg = team[d].arg
  PROVE  team[c].arg \in excuses
<1>1. team[c].arg \in Touches(team[c]) /\ team[d].arg \in Touches(team[d])
  BY TouchesOf
<1> QED BY <1>1 DEF InvitationInv, Overlaps

\* The insert of a new invitation.
LEMMA InviteStep == ASSUME InvitationInv, NEW c \in TeamCalls, createInvitation(c) PROVE InvitationInv'
<1>1. /\ team[c].pc = "invite" /\ finish(c) /\ UNCHANGED <<events, members, admitted, revoked, excuses>>
  BY DEF createInvitation
<1> DEFINE row == [event |-> team[c].event, role |-> "VIEWER", status |-> "PENDING",
                   maxUses |-> team[c].arg, uses |-> 0, live |-> TRUE]
<1>2. PICK i \in Invitations : /\ invitations[i] = NoInvitation
                               /\ invitations' = [invitations EXCEPT ![i] = row]
  BY DEF createInvitation
<1>3. /\ team[c].event \in Events /\ events[team[c].event].status # "none"
      /\ team[c].arg \in Nat
  BY <1>1, TeamAssumption DEF InvitationInv, TeamShape, CallShape, Accepting
<1>4. /\ row \in InvitationRow /\ row.event \in Events /\ events[row.event].status # "none"
      /\ row.role \in Roles /\ row.status = "PENDING" /\ row.maxUses \in Nat /\ row.uses = 0
  BY <1>3 DEF InvitationRow, Roles
<1> HIDE DEF row
<1>5. invitations[i].status = "none" /\ invitations[i].uses = 0
  BY <1>2 DEF NoInvitation
<1>6. i \notin excuses => admitted[i] = 0 /\ i \notin revoked
  BY <1>5 DEF InvitationInv, InvitationsKeepTheirWord
<1>7. \A d \in TeamCalls : ~(team[d].op = "acceptInvitation" /\ team[d].arg = i)
  BY <1>5 DEF InvitationInv, TeamShape, CallShape
<1>8. /\ members' \in [Events -> [People -> Roles \union {Nothing}]]
      /\ admitted' \in [Invitations -> Nat]
  BY <1>1 DEF InvitationInv, TeamTypeOK
<1>9. /\ row.status # "none" /\ (row.status = "ACCEPTED" => row.uses >= row.maxUses)
      /\ i \notin excuses => /\ admitted'[i] <= row.maxUses /\ admitted'[i] = row.uses
                             /\ i \in revoked' => row.status = "REVOKED"
  BY <1>1, <1>4, <1>6
<1>10. /\ \A e \in Events : events[e].status = "none" => members'[e] = members[e]
       /\ \A j \in Invitations \ {i} : admitted'[j] = admitted[j]
       /\ revoked \subseteq revoked' /\ revoked' \subseteq revoked \union {i}
  BY <1>1
<1>11. RowWritten(c, i, row)
  BY <1>1, <1>2, <1>4, <1>5, <1>7, <1>8, <1>9, <1>10 DEF RowWritten
<1> QED BY <1>4, <1>11, RowWrite

\* An update of the status of an invitation.
LEMMA StatusRow ==
  ASSUME NEW before \in InvitationRow, NEW status \in {"PENDING", "ACCEPTED", "EXPIRED", "REVOKED"},
         NEW row, row = [before EXCEPT !.status = status]
  PROVE  /\ row \in InvitationRow /\ row.status = status /\ row.uses = before.uses
         /\ row.event = before.event /\ row.maxUses = before.maxUses /\ row.role = before.role
         /\ row.live = before.live
BY DEF InvitationRow

\* An invitation found out of time is marked, whatever became of it since.
LEMMA MarkExpiredStep == ASSUME InvitationInv, NEW c \in TeamCalls, MarkExpired(c) PROVE InvitationInv'
<1> DEFINE i == team[c].arg
           before == invitations[i]
           row == [before EXCEPT !.status = "EXPIRED"]
<1>1. /\ team[c].pc = "expire" /\ finish(c) /\ UNCHANGED <<events, members, admitted, revoked, excuses>>
      /\ invitations' = [invitations EXCEPT ![i].status = "EXPIRED"]
  BY DEF MarkExpired
<1>2. CallShape(team[c]) /\ Fresh(team[c])
  BY DEF InvitationInv, TeamShape, AcceptanceIsFresh
<1>3. i \in Invitations /\ before.status # "none" /\ team[c].op = "acceptInvitation"
  BY <1>1, <1>2 DEF CallShape, Accepting
<1>4. before \in InvitationRow /\ before.uses \in Nat /\ before.event \in Events
      /\ events[before.event].status # "none" /\ before.role \in Roles
  BY <1>3 DEF InvitationInv, TeamTypeOK, TeamRows, InvitationRow
<1>5. invitations' = [invitations EXCEPT ![i] = row]
  BY <1>1, <1>3 DEF InvitationInv, TeamTypeOK
<1>6. i \notin excuses => /\ admitted[i] <= before.maxUses /\ admitted[i] = before.uses
                          /\ i \notin revoked
  BY <1>1, <1>2, <1>3 DEF Fresh, InvitationInv, InvitationsKeepTheirWord
<1>7. \A d \in TeamCalls \ {c} : team[d].op = "acceptInvitation" /\ team[d].arg = i => i \in excuses
  BY <1>3, SharedInvitation
<1>8. row = [before EXCEPT !.status = "EXPIRED"]
  OBVIOUS
<1> HIDE DEF row, before
<1>9. /\ row \in InvitationRow /\ row.status = "EXPIRED" /\ row.uses = before.uses
      /\ row.event = before.event /\ row.maxUses = before.maxUses /\ row.role = before.role
  BY <1>4, <1>8, StatusRow
<1>10. /\ members' \in [Events -> [People -> Roles \union {Nothing}]]
       /\ admitted' \in [Invitations -> Nat]
       /\ \A e \in Events : events[e].status = "none" => members'[e] = members[e]
       /\ \A j \in Invitations \ {i} : admitted'[j] = admitted[j]
       /\ revoked \subseteq revoked' /\ revoked' \subseteq revoked \union {i}
  BY <1>1 DEF InvitationInv, TeamTypeOK
<1>11. i \notin excuses => /\ admitted'[i] <= row.maxUses /\ admitted'[i] = row.uses
                           /\ i \in revoked' => row.status = "REVOKED"
  BY <1>1, <1>6, <1>9
<1>12. row.event = invitations[i].event /\ row.maxUses = invitations[i].maxUses
  BY <1>9 DEF before
<1>13. /\ row.event \in Events /\ events[row.event].status # "none" /\ row.role \in Roles
       /\ row.status # "none" /\ (row.status = "ACCEPTED" => row.uses >= row.maxUses)
  BY <1>4, <1>9
<1> HIDE DEF i
<1>14. RowWritten(c, i, row)
  BY <1>1, <1>5, <1>7, <1>10, <1>11, <1>12, <1>13 DEF RowWritten
<1> QED BY <1>3, <1>9, <1>14, RowWrite

\* A revocation.
LEMMA RevokeStep == ASSUME InvitationInv, NEW c \in TeamCalls, revokeInvitation(c) PROVE InvitationInv'
<1> DEFINE i == team[c].arg
           before == invitations[i]
           row == [before EXCEPT !.status = "REVOKED"]
<1>1. /\ team[c].pc = "act" /\ team[c].op = "revokeInvitation" /\ finish(c)
      /\ UNCHANGED <<events, members, admitted, excuses>>
      /\ invitations' = [invitations EXCEPT ![i].status = "REVOKED"]
      /\ revoked' = revoked \union {i}
  BY DEF revokeInvitation
<1>2. CallShape(team[c])
  BY DEF InvitationInv, TeamShape
<1>3. i \in Invitations /\ before.status # "none"
  BY <1>1, <1>2 DEF CallShape
<1>4. before \in InvitationRow /\ before.uses \in Nat /\ before.event \in Events
      /\ events[before.event].status # "none" /\ before.role \in Roles
  BY <1>3 DEF InvitationInv, TeamTypeOK, TeamRows, InvitationRow
<1>5. invitations' = [invitations EXCEPT ![i] = row]
  BY <1>1, <1>3 DEF InvitationInv, TeamTypeOK
<1>6. i \notin excuses => admitted[i] <= before.maxUses /\ admitted[i] = before.uses
  BY <1>3 DEF InvitationInv, InvitationsKeepTheirWord
<1>7. \A d \in TeamCalls \ {c} : team[d].op = "acceptInvitation" /\ team[d].arg = i => i \in excuses
  BY <1>1, SharedInvitation
<1>8. row = [before EXCEPT !.status = "REVOKED"]
  OBVIOUS
<1> HIDE DEF row, before
<1>9. /\ row \in InvitationRow /\ row.status = "REVOKED" /\ row.uses = before.uses
      /\ row.event = before.event /\ row.maxUses = before.maxUses /\ row.role = before.role
  BY <1>4, <1>8, StatusRow
<1>10. /\ members' \in [Events -> [People -> Roles \union {Nothing}]]
       /\ admitted' \in [Invitations -> Nat]
       /\ \A e \in Events : events[e].status = "none" => members'[e] = members[e]
       /\ \A j \in Invitations \ {i} : admitted'[j] = admitted[j]
       /\ revoked \subseteq revoked' /\ revoked' \subseteq revoked \union {i}
  BY <1>1 DEF InvitationInv, TeamTypeOK
<1>11. i \notin excuses => /\ admitted'[i] <= row.maxUses /\ admitted'[i] = row.uses
                           /\ i \in revoked' => row.status = "REVOKED"
  BY <1>1, <1>6, <1>9
<1>12. row.event = invitations[i].event /\ row.maxUses = invitations[i].maxUses
  BY <1>9 DEF before
<1>13. /\ row.event \in Events /\ events[row.event].status # "none" /\ row.role \in Roles
       /\ row.status # "none" /\ (row.status = "ACCEPTED" => row.uses >= row.maxUses)
  BY <1>4, <1>9
<1> HIDE DEF i
<1>14. RowWritten(c, i, row)
  BY <1>1, <1>5, <1>7, <1>10, <1>11, <1>12, <1>13 DEF RowWritten
<1> QED BY <1>3, <1>9, <1>14, RowWrite

\* A member is admitted: what the call had read is what is written back.
LEMMA AdmitStep == ASSUME InvitationInv, NEW c \in TeamCalls, Admit(c) PROVE InvitationInv'
<1> DEFINE i == team[c].arg
           before == invitations[i]
           inv == team[c].inv
           uses == inv.uses + 1
           status == IF uses >= inv.maxUses THEN "ACCEPTED" ELSE "PENDING"
           row == [before EXCEPT !.uses = uses, !.status = status]
           e == team[c].event
           who == team[c].who
<1>1. /\ team[c].pc = "admit" /\ finish(c) /\ UNCHANGED <<events, revoked, excuses>>
      /\ invitations' = [invitations EXCEPT ![i].uses = uses, ![i].status = status]
      /\ members' = [members EXCEPT ![e][who] = inv.role]
      /\ admitted' = [admitted EXCEPT ![i] = admitted[i] + 1]
  BY DEF Admit
<1>2. CallShape(team[c]) /\ Fresh(team[c])
  BY DEF InvitationInv, TeamShape, AcceptanceIsFresh
<1>3. /\ i \in Invitations /\ before.status # "none" /\ team[c].op = "acceptInvitation"
      /\ e \in Events /\ events[e].status # "none" /\ who \in People
  BY <1>1, <1>2 DEF CallShape, Accepting
<1>4. before \in InvitationRow /\ before.event \in Events
      /\ events[before.event].status # "none" /\ before.role \in Roles
  BY <1>3 DEF InvitationInv, TeamTypeOK, TeamRows, InvitationRow
<1>5. invitations' = [invitations EXCEPT ![i] = row]
  BY <1>1, <1>3 DEF InvitationInv, TeamTypeOK
<1>6. /\ inv.uses \in Nat /\ inv.maxUses \in Nat /\ inv.role \in Roles /\ inv.uses < inv.maxUses
      /\ inv.maxUses = before.maxUses
  BY <1>1, <1>2 DEF Fresh, ReadInvitations
<1>7. i \notin excuses => admitted[i] = inv.uses /\ i \notin revoked
  BY <1>1, <1>2, <1>3 DEF Fresh, InvitationInv, InvitationsKeepTheirWord
<1>8. \A d \in TeamCalls \ {c} : team[d].op = "acceptInvitation" /\ team[d].arg = i => i \in excuses
  BY <1>3, SharedInvitation
<1>9. /\ row = [before EXCEPT !.uses = uses, !.status = status]
      /\ status \in {"PENDING", "ACCEPTED"} /\ (status = "ACCEPTED" => uses >= inv.maxUses)
      /\ uses = inv.uses + 1
  OBVIOUS
<1>10. uses \in Nat
  BY <1>6
<1> HIDE DEF row, before, inv, uses, status, e, who, i
<1>11. /\ row \in InvitationRow /\ row.status = status /\ row.uses = uses
       /\ row.event = before.event /\ row.maxUses = before.maxUses /\ row.role = before.role
  <2>1. status \in {"PENDING", "ACCEPTED", "EXPIRED", "REVOKED"}
    BY <1>9
  <2>2. row = [before EXCEPT !.uses = uses, !.status = status]
    BY <1>9
  <2> QED BY <1>4, <1>10, <2>1, <2>2 DEF InvitationRow
<1>12. members' \in [Events -> [People -> Roles \union {Nothing}]]
  BY <1>1, <1>3, <1>6 DEF InvitationInv, TeamTypeOK
<1>13. admitted' \in [Invitations -> Nat]
  BY <1>1, <1>3 DEF InvitationInv, TeamTypeOK
<1>14. /\ \A f \in Events : events[f].status = "none" => members'[f] = members[f]
       /\ \A j \in Invitations \ {i} : admitted'[j] = admitted[j]
       /\ revoked \subseteq revoked' /\ revoked' \subseteq revoked \union {i}
  BY <1>1, <1>3 DEF InvitationInv, TeamTypeOK
<1>15. i \notin excuses => /\ admitted'[i] <= row.maxUses /\ admitted'[i] = row.uses
                           /\ i \in revoked' => row.status = "REVOKED"
  <2>1. admitted'[i] = admitted[i] + 1
    BY <1>1, <1>3 DEF InvitationInv, TeamTypeOK
  <2> QED BY <1>1, <1>6, <1>7, <1>9, <1>11, <2>1
<1>16. row.event = invitations[i].event /\ row.maxUses = invitations[i].maxUses
  BY <1>11 DEF before
<1>17. /\ row.event \in Events /\ events[row.event].status # "none" /\ row.role \in Roles
       /\ row.status # "none" /\ (row.status = "ACCEPTED" => row.uses >= row.maxUses)
  BY <1>4, <1>6, <1>9, <1>11
<1>18. RowWritten(c, i, row)
  BY <1>1, <1>5, <1>8, <1>12, <1>13, <1>14, <1>15, <1>16, <1>17 DEF RowWritten
<1> QED BY <1>3, <1>11, <1>18, RowWrite

\* The time to live of an invitation passes.
LEMMA ExpireStep ==
  ASSUME InvitationInv, NEW i \in Invitations, ExpireInvitation(i) PROVE InvitationInv'
<1> USE DEF InvitationInv
<1> DEFINE row == [invitations[i] EXCEPT !.live = FALSE]
<1>1. /\ invitations' = [invitations EXCEPT ![i].live = FALSE] /\ invitations[i].live
      /\ UNCHANGED <<events, members, team, admitted, revoked, excuses>>
  BY DEF ExpireInvitation
<1>2. invitations' = [invitations EXCEPT ![i] = row]
  BY <1>1 DEF TeamTypeOK
<1>3. /\ row \in InvitationRow /\ row.event = invitations[i].event /\ row.role = invitations[i].role
      /\ row.status = invitations[i].status /\ row.maxUses = invitations[i].maxUses
      /\ row.uses = invitations[i].uses
  BY DEF TeamTypeOK, InvitationRow
<1> HIDE DEF row
<1>4. invitations' \in [Invitations -> InvitationRow]
  BY <1>2, <1>3 DEF TeamTypeOK, InvitationRow
<1>5. \A j \in Invitations :
        /\ invitations'[j].event = invitations[j].event /\ invitations'[j].role = invitations[j].role
        /\ invitations'[j].status = invitations[j].status
        /\ invitations'[j].maxUses = invitations[j].maxUses /\ invitations'[j].uses = invitations[j].uses
        /\ j # i => invitations'[j] = invitations[j]
  BY <1>2, <1>3 DEF TeamTypeOK
<1>6. invitations[i].status # "none"
  BY <1>1 DEF TeamRows, NoInvitation
<1>7. TeamTypeOK'
  BY <1>1, <1>4 DEF TeamTypeOK, InvitationRow, NoInvitation
<1>8. CallTypes' /\ Overlaps'
  BY <1>1 DEF CallTypes, Overlaps
<1>9. TeamRows'
  <2>1. \A e \in Events : events'[e].status = "none" =>
          events'[e] = NoEvent /\ \A u \in People : members'[e][u] = Nothing
    BY <1>1 DEF TeamRows
  <2>2. \A j \in Invitations :
          IF invitations'[j].status = "none" THEN invitations'[j] = NoInvitation
          ELSE /\ invitations'[j].event \in Events /\ events'[invitations'[j].event].status # "none"
               /\ invitations'[j].role \in Roles
               /\ invitations'[j].status = "ACCEPTED" => invitations'[j].uses >= invitations'[j].maxUses
    BY <1>1, <1>5, <1>6 DEF TeamRows
  <2> QED BY <2>1, <2>2 DEF TeamRows, NoEvent, NoInvitation
<1>10. TeamShape'
  <2> SUFFICES ASSUME NEW d \in TeamCalls PROVE CallShape(team[d])'
    BY DEF TeamShape
  <2>1. CallShape(team[d]) /\ team'[d] = team[d]
    BY <1>1 DEF TeamShape
  <2> QED BY <1>1, <1>5, <2>1 DEF CallShape
<1>11. AcceptanceIsFresh'
  <2> SUFFICES ASSUME NEW d \in TeamCalls PROVE Fresh(team[d])'
    BY DEF AcceptanceIsFresh
  <2>1. Fresh(team[d]) /\ team'[d] = team[d] /\ CallShape(team[d])
    BY <1>1 DEF AcceptanceIsFresh, TeamShape
  <2>2. team[d].pc \in {"expire", "standing", "admit"} => team[d].arg \in Invitations
    BY <2>1 DEF CallShape, Accepting
  <2> QED BY <1>1, <1>5, <2>1, <2>2 DEF Fresh
<1>12. InvitationsKeepTheirWord'
  BY <1>1, <1>5 DEF InvitationsKeepTheirWord
<1> QED BY <1>7, <1>8, <1>9, <1>10, <1>11, <1>12


\* The invariant holds initially.
LEMMA TeamInitOK ==
  ASSUME NEW owned, TeamInit(owned), \A e \in DOMAIN owned : e \in Events /\ owned[e] \in People
  PROVE  InvitationInv
<1>1. \A c \in TeamCalls : team[c] = Idle
  BY DEF TeamInit
<1>2. CallTypes
  BY IdleCall DEF TeamInit, CallTypes
<1>3. /\ \A i \in Invitations : invitations[i] = NoInvitation /\ admitted[i] = 0
      /\ revoked = {}
  BY DEF TeamInit
<1>4. TeamTypeOK
  <2>1. events \in [Events -> [owner : People \union {Nothing},
                               status : {"none", "ACTIVE", "PAUSED", "CLOSED"}]]
    BY DEF TeamInit, NoEvent
  <2>2. members \in [Events -> [People -> Roles \union {Nothing}]]
    BY DEF TeamInit, Roles
  <2>3. invitations \in [Invitations -> InvitationRow]
    BY DEF TeamInit, InvitationRow, NoInvitation
  <2>4. \A c \in TeamCalls : team[c].inv = NoInvitation
    BY <1>1 DEF Idle
  <2> QED BY <1>3, <2>1, <2>2, <2>3, <2>4 DEF TeamTypeOK, InvitationRow, TeamInit
<1>5. TeamShape
  BY <1>1, IdleCall, TeamAssumption DEF TeamShape, CallShape, Accepting
<1>6. TeamRows
  <2>1. \A e \in Events : events[e].status = "none" =>
          events[e] = NoEvent /\ \A u \in People : members[e][u] = Nothing
    BY DEF TeamInit, NoEvent
  <2>2. \A i \in Invitations : invitations[i].status = "none"
    BY <1>3 DEF NoInvitation
  <2> QED BY <1>3, <2>1, <2>2 DEF TeamRows
<1>7. Overlaps
  BY <1>1, IdleCall DEF Overlaps
<1>8. AcceptanceIsFresh
  BY <1>1, IdleCall DEF AcceptanceIsFresh, Fresh
<1>9. InvitationsKeepTheirWord
  BY <1>3 DEF InvitationsKeepTheirWord, NoInvitation
<1> QED BY <1>2, <1>4, <1>5, <1>6, <1>7, <1>8, <1>9 DEF InvitationInv

\* Whoever holds a token is one of the people.
LEMMA CallersArePeople == ASSUME SignInInv PROVE SignedIn \subseteq People
BY OnboardingAssumption DEF SignInInv, SignInTypeOK, SignedIn

\* Every step of Onboarding keeps the invariant of the team.
LEMMA TeamNextOK == ASSUME SignInInv, InvitationInv, [Next]_vars PROVE InvitationInv'
<1>1. CASE TeamNext(SignedIn)
  <2>1. PICK c \in TeamCalls :
          \/ \E who \in SignedIn : Request(c, who)
          \/ ReadStatus(c) \/ ReadRole(c)
          \/ assertCanCreateEvent(c) \/ createEvent(c) \/ setStatus(c) \/ addMember(c)
          \/ CountMembers(c) \/ CountPending(c) \/ createInvitation(c) \/ revokeInvitation(c)
          \/ ReadToken(c) \/ MarkExpired(c) \/ ReadStanding(c) \/ Admit(c)
    BY <1>1 DEF TeamNext
  <2>2. CASE \E who \in SignedIn : Request(c, who)
    BY <2>2, CallersArePeople, RequestStep
  <2>3. CASE ReadStatus(c) \/ ReadRole(c)
    BY <2>3, ContextStep
  <2>4. CASE assertCanCreateEvent(c) \/ CountMembers(c) \/ CountPending(c)
    BY <2>4, GateStep
  <2>5. CASE createEvent(c) \/ setStatus(c) \/ addMember(c)
    BY <2>5, EventStep
  <2>6. CASE createInvitation(c)
    BY <2>6, InviteStep
  <2>7. CASE revokeInvitation(c)
    BY <2>7, RevokeStep
  <2>8. CASE ReadToken(c) \/ ReadStanding(c)
    BY <2>8, AcceptReadStep
  <2>9. CASE MarkExpired(c)
    BY <2>9, MarkExpiredStep
  <2>10. CASE Admit(c)
    BY <2>10, AdmitStep
  <2> QED BY <2>1, <2>2, <2>3, <2>4, <2>5, <2>6, <2>7, <2>8, <2>9, <2>10
<1>2. CASE \E i \in Invitations : ExpireInvitation(i)
  BY <1>2, ExpireStep
<1>3. CASE UNCHANGED teamVars
  <2>1. UNCHANGED <<events, members, invitations, team, admitted, revoked, excuses>>
    BY <1>3 DEF teamVars
  <2>2. TeamTypeOK' /\ CallTypes'
    BY <2>1 DEF InvitationInv, TeamTypeOK, CallTypes, NoInvitation
  <2>3. TeamShape'
    BY <2>1 DEF InvitationInv, TeamShape, CallShape
  <2>4. TeamRows'
    BY <2>1 DEF InvitationInv, TeamRows
  <2>5. Overlaps'
    BY <2>1 DEF InvitationInv, Overlaps
  <2>6. AcceptanceIsFresh'
    BY <2>1 DEF InvitationInv, AcceptanceIsFresh, Fresh
  <2>7. InvitationsKeepTheirWord'
    BY <2>1 DEF InvitationInv, InvitationsKeepTheirWord
  <2> QED BY <2>2, <2>3, <2>4, <2>5, <2>6, <2>7 DEF InvitationInv
<1> QED BY <1>1, <1>2, <1>3 DEF Next, vars

\* Onboarding keeps what calls of the team are, what they share, and what an
\* acceptance has read.
THEOREM InvitationInvariance == Spec => []InvitationInv
<1>1. Init => InvitationInv
  BY TeamInitOK, OnboardingAssumption DEF Init
<1>2. SignInInv /\ InvitationInv /\ [Next]_vars => InvitationInv'
  BY TeamNextOK
<1> QED BY <1>1, <1>2, SignInInvariance, PTL DEF Spec

\* Onboarding stays within its types.
THEOREM OnboardingTypes == Spec => []TypeOK
<1>1. SignInInv /\ InvitationInv => TypeOK
  BY DEF SignInInv, InvitationInv, TypeOK
<1> QED BY <1>1, SignInInvariance, InvitationInvariance, PTL

\* InvitationsKeepTheirWord, for any number of people, invitations and calls:
\* acceptInvitation writes back what it read, and yet a link admits as many as
\* it says and none after a revocation, unless two calls were at it at once.
THEOREM LinksKeepTheirWord == Spec => []InvitationsKeepTheirWord
<1>1. InvitationInv => InvitationsKeepTheirWord
  BY DEF InvitationInv
<1> QED BY <1>1, InvitationInvariance, PTL


-----------------------------------------------------------------------------
(* The caps.                                                               *)

SeatLimit == PLAN_CATALOG[EventPlan].maxSeats

\* A plan that limits seats has at least one.
LEMMA SeatLimitPositive == SeatLimit \in Int /\ (SeatLimit # Unlimited => SeatLimit >= 1)
<1>1. EventPlan \in {"FREE", "STARTER", "STANDARD", "PREMIUM", "ORGANIZER_PRO", "BUSINESS",
                     "SMS_TOP_UP_100", "SMS_TOP_UP_300"}
  BY TeamAssumption DEF PlanCodes, PLAN_CATALOG
<1>2. \A p \in {"FREE", "STARTER", "STANDARD", "PREMIUM", "ORGANIZER_PRO", "BUSINESS",
                "SMS_TOP_UP_100", "SMS_TOP_UP_300"} :
        PLAN_CATALOG[p].maxSeats \in {-1, 1, 3, 5, 10}
  BY SMT DEF PLAN_CATALOG, PlanConfig, Unlimited
<1>3. SeatLimit \in {-1, 1, 3, 5, 10}
  BY <1>1, <1>2 DEF SeatLimit
<1> QED BY <1>3 DEF Unlimited

\* Steps at which a call relies on seats it has counted.
Seating == {"seats", "invite", "standing", "admit"}

\* Fewer members and fewer pending invitations keep what was counted on.
LEMMA FewerSeats ==
  ASSUME NEW e, Members(e)' \subseteq Members(e), Pending(e)' \subseteq Pending(e)
  PROVE  /\ Cardinality(Members(e)') \in Nat /\ Cardinality(Members(e)') <= Cardinality(Members(e))
         /\ Cardinality(Pending(e)') \in Nat /\ Cardinality(Pending(e)') <= Cardinality(Pending(e))
         /\ \A i : /\ Cardinality(Pending(e) \ {i}) \in Nat /\ Cardinality(Pending(e)' \ {i}) \in Nat
                   /\ Cardinality(Pending(e)' \ {i}) <= Cardinality(Pending(e) \ {i})
<1>1. \A S, T : IsFiniteSet(T) /\ S \subseteq T =>
                  /\ IsFiniteSet(S) /\ Cardinality(S) \in Nat /\ Cardinality(T) \in Nat
                  /\ Cardinality(S) <= Cardinality(T)
  BY FS_Subset, FS_CardinalityType
<1>2. IsFiniteSet(Members(e)) /\ IsFiniteSet(Pending(e))
  BY SeatsFinite
<1>3. \A i : /\ Pending(e)' \ {i} \subseteq Pending(e) \ {i}
             /\ Pending(e) \ {i} \subseteq Pending(e)
  OBVIOUS
<1>4. \A i : IsFiniteSet(Pending(e) \ {i})
  BY <1>1, <1>2, <1>3
<1> QED BY <1>1, <1>2, <1>3, <1>4

\* The gate was there before the step.
LEMMA GatedBefore ==
  ASSUME SeatsGated', excuses \subseteq excuses',
         \A i \in Invitations : invitations[i].maxUses \in {0, invitations'[i].maxUses}
  PROVE  SeatsGated
BY DEF SeatsGated

\* A call at work on seats has an event.
LEMMA SeatingHasEvent ==
  ASSUME InvitationInv, NEW c \in TeamCalls, team[c].pc \in Seating
  PROVE  /\ team[c].event \in Events /\ events[team[c].event].status # "none"
         /\ team[c].op \in {"createInvitation", "acceptInvitation"}
         /\ "seats" \in Touches(team[c])
<1>1. /\ team[c].event \in Events /\ events[team[c].event].status # "none"
      /\ team[c].op \in {"createInvitation", "acceptInvitation"}
  BY DEF InvitationInv, TeamShape, CallShape, Seating, Accepting
<1> QED BY <1>1, TouchesOf

\* While seats are gated, a call at work on them is alone.
LEMMA SeatingAlone ==
  ASSUME InvitationInv, SeatsGated, NEW c \in TeamCalls, NEW d \in TeamCalls, c # d,
         team[c].pc \in Seating
  PROVE  team[d].pc \notin Seating
<1> SUFFICES ASSUME team[d].pc \in Seating PROVE FALSE
  OBVIOUS
<1>1. "seats" \in Touches(team[c]) /\ "seats" \in Touches(team[d])
  BY SeatingHasEvent
<1>2. "seats" \in excuses
  BY <1>1 DEF InvitationInv, Overlaps
<1> QED BY <1>2 DEF SeatsGated

\* A call that does not move keeps its seat when seats become free.
LEMMA SeatStaysKept ==
  ASSUME InvitationInv, SeatsInv, SeatsGated, NEW d \in TeamCalls, team'[d] = team[d],
         \A e \in Events : Members(e)' \subseteq Members(e) /\ Pending(e)' \subseteq Pending(e)
  PROVE  SeatKept(team[d])'
<1>1. team'[d] = team[d] /\ SeatKept(team[d])
  BY DEF SeatsInv
<1>2. CASE team[d].pc \notin Seating
  BY <1>1, <1>2 DEF SeatKept, Seating
<1>3. CASE team[d].pc \in Seating
  <2>1. team[d].event \in Events /\ team[d].seats \in Nat
    BY <1>3, SeatingHasEvent DEF InvitationInv, CallTypes, CallType
  <2>2. PICK e \in Events : e = team[d].event
    BY <2>1
  <2>3. PICK i : i = team[d].arg
    OBVIOUS
  <2>4. /\ Cardinality(Members(e)') \in Nat /\ Cardinality(Members(e)') <= Cardinality(Members(e))
        /\ Cardinality(Pending(e)') \in Nat /\ Cardinality(Pending(e)') <= Cardinality(Pending(e))
        /\ Cardinality(Pending(e) \ {i}) \in Nat /\ Cardinality(Pending(e)' \ {i}) \in Nat
        /\ Cardinality(Pending(e)' \ {i}) <= Cardinality(Pending(e) \ {i})
    BY FewerSeats
  <2>5. Cardinality(Members(e)) \in Nat /\ Cardinality(Pending(e)) \in Nat
    BY SeatsFinite
  <2> QED BY <1>1, <1>3, <2>1, <2>2, <2>3, <2>4, <2>5, SeatLimitPositive DEF SeatKept, SeatLimit
<1> QED BY <1>2, <1>3

\* A step after which no event has more members or pending invitations.
LEMMA SeatsFrame ==
  ASSUME InvitationInv, SeatsInv, excuses \subseteq excuses',
         \A i \in Invitations : invitations[i].maxUses \in {0, invitations'[i].maxUses},
         \A e \in Events : Members(e)' \subseteq Members(e) /\ Pending(e)' \subseteq Pending(e),
         SeatsGated /\ SeatsGated' => \A d \in TeamCalls : team'[d] = team[d] \/ SeatKept(team[d])'
  PROVE  SeatsInv'
<1> SUFFICES ASSUME SeatsGated'
             PROVE  /\ \A e \in Events : Cardinality(Members(e)') + Cardinality(Pending(e)') <= SeatLimit
                    /\ \A d \in TeamCalls : SeatKept(team[d])'
  BY DEF SeatsInv, SeatLimit
<1>1. SeatsGated
  BY GatedBefore
<1>2. ASSUME NEW e \in Events
      PROVE  Cardinality(Members(e)') + Cardinality(Pending(e)') <= SeatLimit
  <2>1. Cardinality(Members(e)) + Cardinality(Pending(e)) <= SeatLimit
    BY <1>1 DEF SeatsInv, SeatLimit
  <2>2. /\ Cardinality(Members(e)') \in Nat /\ Cardinality(Members(e)') <= Cardinality(Members(e))
        /\ Cardinality(Pending(e)') \in Nat /\ Cardinality(Pending(e)') <= Cardinality(Pending(e))
    BY FewerSeats
  <2>3. Cardinality(Members(e)) \in Nat /\ Cardinality(Pending(e)) \in Nat
    BY SeatsFinite
  <2> QED BY <2>1, <2>2, <2>3, SeatLimitPositive
<1>3. \A d \in TeamCalls : SeatKept(team[d])'
  BY <1>1, SeatStaysKept
<1> QED BY <1>2, <1>3

\* A step that changes no row keeps the seats, if it keeps those of its call.
LEMMA QuietSeats ==
  ASSUME InvitationInv, SeatsInv, NEW c \in TeamCalls, \A d \in TeamCalls \ {c} : team'[d] = team[d],
         excuses \subseteq excuses', UNCHANGED <<members, invitations>>,
         SeatsGated => SeatKept(team[c])'
  PROVE  SeatsInv'
<1>1. \A e \in Events : Members(e)' \subseteq Members(e) /\ Pending(e)' \subseteq Pending(e)
  BY DEF Members, Pending
<1>2. \A i \in Invitations : invitations[i].maxUses \in {0, invitations'[i].maxUses}
  OBVIOUS
<1> QED BY <1>1, <1>2, SeatsFrame

\* A request begins a call at its first step.
LEMMA RequestBegins ==
  ASSUME NEW c \in TeamCalls, NEW who \in People, Request(c, who)
  PROVE  \E call : begin(c, call) /\ call.pc \in {"count", "token", "status"}
<1>1. CASE begin(c, [Idle EXCEPT !.op = "createEvent", !.pc = "count", !.who = who])
  <2> DEFINE call == [Idle EXCEPT !.op = "createEvent", !.pc = "count", !.who = who]
  <2>1. call.pc = "count"
    BY DEF Idle
  <2> QED BY <1>1, <2>1
<1>2. ASSUME NEW i \in Invitations,
             begin(c, [Idle EXCEPT !.op = "acceptInvitation", !.pc = "token", !.who = who,
                                   !.arg = i, !.event = invitations[i].event])
      PROVE  \E call : begin(c, call) /\ call.pc \in {"count", "token", "status"}
  <2> DEFINE call == [Idle EXCEPT !.op = "acceptInvitation", !.pc = "token", !.who = who,
                                  !.arg = i, !.event = invitations[i].event]
  <2>1. call.pc = "token"
    BY DEF Idle
  <2> QED BY <1>2, <2>1
<1>3. ASSUME NEW e, NEW op, NEW arg,
             begin(c, [Idle EXCEPT !.op = op, !.pc = "status", !.who = who, !.event = e, !.arg = arg])
      PROVE  \E call : begin(c, call) /\ call.pc \in {"count", "token", "status"}
  <2> DEFINE call == [Idle EXCEPT !.op = op, !.pc = "status", !.who = who, !.event = e, !.arg = arg]
  <2>1. call.pc = "status"
    BY DEF Idle
  <2> QED BY <1>3, <2>1
<1> QED BY <1>1, <1>2, <1>3 DEF Request

\* The steps that are not about seats, and the ends of calls.
LEMMA OtherSeats ==
  ASSUME InvitationInv, SeatsInv, NEW c \in TeamCalls,
         \/ \E who \in People : Request(c, who)
         \/ ReadStatus(c) \/ ReadRole(c) \/ assertCanCreateEvent(c) \/ setStatus(c)
  PROVE  SeatsInv'
<1>1. /\ \A d \in TeamCalls \ {c} : team'[d] = team[d]
      /\ team'[c].pc \notin Seating
      /\ excuses \subseteq excuses' /\ UNCHANGED <<members, invitations>>
  <2>0. team \in [TeamCalls -> CallType]
    BY DEF InvitationInv, CallTypes
  <2>1. ASSUME NEW call, begin(c, call), call.pc \in {"count", "token", "status"}
        PROVE  /\ \A d \in TeamCalls \ {c} : team'[d] = team[d]
               /\ team'[c].pc \notin Seating
               /\ excuses \subseteq excuses' /\ UNCHANGED <<members, invitations>>
    BY <2>0, <2>1 DEF begin, Seating
  <2>2. CASE \E who \in People : Request(c, who)
    <3>1. PICK who \in People : Request(c, who)
      BY <2>2
    <3>2. \E call : begin(c, call) /\ call.pc \in {"count", "token", "status"}
      BY <3>1, RequestBegins
    <3> QED BY <2>1, <3>2
  <2>3. ASSUME finish(c) PROVE (\A d \in TeamCalls \ {c} : team'[d] = team[d]) /\ team'[c].pc = "idle"
    BY <2>0, <2>3, IdleCall DEF finish
  <2>4. CASE ReadStatus(c)
    BY <2>0, <2>4 DEF ReadStatus, Seating, CallType
  <2>5. CASE ReadRole(c)
    BY <2>0, <2>3, <2>5 DEF ReadRole, advance, Seating, CallType
  <2>6. CASE assertCanCreateEvent(c)
    BY <2>0, <2>3, <2>6 DEF assertCanCreateEvent, advance, Seating, CallType
  <2>7. CASE setStatus(c)
    BY <2>3, <2>7 DEF setStatus, Seating
  <2> QED BY <2>2, <2>4, <2>5, <2>6, <2>7
<1>2. SeatKept(team[c])'
  BY <1>1 DEF SeatKept, Seating
<1> QED BY <1>1, <1>2, QuietSeats

\* Counting seats.
LEMMA CountSeats ==
  ASSUME InvitationInv, SeatsInv, NEW c \in TeamCalls, CountMembers(c) \/ CountPending(c)
  PROVE  SeatsInv'
<1>0. team \in [TeamCalls -> CallType] /\ CallShape(team[c])
  BY DEF InvitationInv, CallTypes, TeamShape
<1>1. CASE CountMembers(c)
  <2>1. /\ team' = [team EXCEPT ![c].pc = "seats", ![c].seats = Cardinality(Members(team[c].event))]
        /\ UNCHANGED <<members, invitations, excuses>>
    BY <1>1 DEF CountMembers
  <2>2. \A d \in TeamCalls \ {c} : team'[d] = team[d]
    BY <1>0, <2>1
  <2>3. /\ team'[c].pc = "seats" /\ team'[c].event = team[c].event
        /\ team'[c].seats = Cardinality(Members(team[c].event))
    <3> DEFINE n == Cardinality(Members(team[c].event))
    <3> HIDE DEF n
    <3>1. team' = [team EXCEPT ![c].pc = "seats", ![c].seats = n]
      BY <2>1 DEF n
    <3>2. team'[c].pc = "seats" /\ team'[c].event = team[c].event /\ team'[c].seats = n
      BY <1>0, <3>1 DEF CallType
    <3> QED BY <3>2 DEF n
  <2>4. PICK e : e = team[c].event
    OBVIOUS
  <2>5. Cardinality(Members(e)) \in Nat /\ Members(e)' = Members(e)
    BY <2>1, SeatsFinite DEF Members
  <2>6. SeatKept(team[c])'
    BY <2>3, <2>4, <2>5 DEF SeatKept
  <2> QED BY <2>1, <2>2, <2>6, QuietSeats
<1>2. CASE CountPending(c)
  <2>1. /\ team[c].pc = "seats"
        /\ \/ finish(c)
           \/ /\ withinLimit(SeatLimit, team[c].seats + Cardinality(Pending(team[c].event)), 1)
              /\ team' = [team EXCEPT ![c].pc = "invite"]
        /\ UNCHANGED <<members, invitations, excuses>>
    BY <1>2 DEF CountPending, SeatLimit, advance
  <2>2. \A d \in TeamCalls \ {c} : team'[d] = team[d]
    BY <1>0, <2>1 DEF finish
  <2>3. CASE finish(c)
    <3>1. team'[c].pc = "idle"
      BY <1>0, <2>3, IdleCall DEF finish
    <3>2. SeatKept(team[c])'
      BY <3>1 DEF SeatKept
    <3> QED BY <2>1, <2>2, <3>2, QuietSeats
  <2>4. CASE /\ withinLimit(SeatLimit, team[c].seats + Cardinality(Pending(team[c].event)), 1)
             /\ team' = [team EXCEPT ![c].pc = "invite"]
    <3>1. team'[c].pc = "invite" /\ team'[c].event = team[c].event /\ team[c].seats \in Nat
      BY <1>0, <2>4 DEF CallType
    <3>2. PICK e : e = team[c].event
      OBVIOUS
    <3>3. /\ Cardinality(Members(e)) \in Nat /\ Members(e)' = Members(e)
          /\ Cardinality(Pending(e)) \in Nat /\ Pending(e)' = Pending(e)
      BY <2>1, SeatsFinite DEF Members, Pending
    <3>4. ASSUME SeatsGated PROVE SeatKept(team[c])'
      <4>1. Cardinality(Members(e)) <= team[c].seats
        BY <2>1, <3>2, <3>4 DEF SeatsInv, SeatKept
      <4>2. team[c].seats + Cardinality(Pending(e)) + 1 <= SeatLimit
        BY <2>4, <3>2, <3>4 DEF withinLimit, SeatsGated, SeatLimit
      <4>3. Cardinality(Members(e)) + Cardinality(Pending(e)) + 1 <= SeatLimit
        BY <3>1, <3>3, <4>1, <4>2, SeatLimitPositive
      <4> QED BY <3>1, <3>2, <3>3, <4>3 DEF SeatKept, SeatLimit
    <3> QED BY <2>1, <2>2, <3>4, QuietSeats
  <2> QED BY <2>1, <2>3, <2>4
<1> QED BY <1>1, <1>2


\* Reading the invitation: a link that is pending and live holds a seat already.
LEMMA AcceptSeats ==
  ASSUME InvitationInv, SeatsInv, NEW c \in TeamCalls, ReadToken(c) \/ ReadStanding(c)
  PROVE  SeatsInv'
<1>0. team \in [TeamCalls -> CallType] /\ CallShape(team[c]) /\ Fresh(team[c])
  BY DEF InvitationInv, CallTypes, TeamShape, AcceptanceIsFresh
<1>1. ASSUME finish(c), UNCHANGED <<members, invitations, excuses>> PROVE SeatsInv'
  <2>1. team'[c].pc = "idle" /\ \A d \in TeamCalls \ {c} : team'[d] = team[d]
    BY <1>0, <1>1, IdleCall DEF finish
  <2>2. SeatKept(team[c])'
    BY <2>1 DEF SeatKept
  <2> QED BY <1>1, <2>1, <2>2, QuietSeats
<1>2. CASE ReadToken(c)
  <2> DEFINE inv == invitations[team[c].arg]
             pc == IF inv.live THEN "standing" ELSE "expire"
  <2>1. /\ team[c].pc = "token"
        /\ \/ finish(c)
           \/ /\ inv.status \notin {"REVOKED", "EXPIRED"}
              /\ team' = [team EXCEPT ![c].pc = pc, ![c].inv = inv]
        /\ UNCHANGED <<members, invitations, excuses>>
    BY <1>2 DEF ReadToken
  <2>2. CASE /\ inv.status \notin {"REVOKED", "EXPIRED"}
             /\ team' = [team EXCEPT ![c].pc = pc, ![c].inv = inv]
    <3>1. /\ team[c].arg \in Invitations /\ inv.status # "none" /\ team[c].event = inv.event
          /\ team[c].event \in Events
      BY <1>0, <2>1 DEF CallShape, Accepting
    <3>2. /\ inv.status \in {"PENDING", "ACCEPTED"} /\ inv.uses \in Nat /\ inv.maxUses \in Nat
          /\ (inv.status = "ACCEPTED" => inv.uses >= inv.maxUses)
      BY <2>2, <3>1 DEF InvitationInv, TeamTypeOK, TeamRows
    <3>3. pc = "standing" => inv.live
      OBVIOUS
    <3>4. PICK e \in Events : e = team[c].event
      BY <3>1
    <3>5. PICK i \in Invitations : i = team[c].arg
      BY <3>1
    <3>6. pc = "standing" /\ inv.uses < inv.maxUses => i \in Pending(e)
      BY <3>1, <3>2, <3>3, <3>4, <3>5 DEF Pending
    <3>7. pc \in {"standing", "expire"}
      OBVIOUS
    <3> HIDE DEF inv, pc
    <3>8. /\ team'[c].pc = pc /\ team'[c].event = e /\ team'[c].arg = i /\ team'[c].inv = inv
          /\ \A d \in TeamCalls \ {c} : team'[d] = team[d]
      BY <1>0, <2>2, <3>4, <3>5 DEF CallType
    <3>9. /\ Cardinality(Members(e)) \in Nat /\ Members(e)' = Members(e)
          /\ IsFiniteSet(Pending(e)) /\ Cardinality(Pending(e)) \in Nat /\ Pending(e)' = Pending(e)
      BY <2>1, SeatsFinite DEF Members, Pending
    <3>10. ASSUME SeatsGated PROVE SeatKept(team[c])'
      <4>1. Cardinality(Members(e)) + Cardinality(Pending(e)) <= SeatLimit
        BY <3>10 DEF SeatsInv, SeatLimit
      <4>2. i \in Pending(e) => Cardinality(Pending(e) \ {i}) = Cardinality(Pending(e)) - 1
        BY <3>9, CardStep
      <4>3. pc = "standing" /\ inv.uses < inv.maxUses =>
              Cardinality(Members(e)) + Cardinality(Pending(e) \ {i}) + 1 <= SeatLimit
        BY <3>6, <3>9, <4>1, <4>2, SeatLimitPositive
      <4> QED BY <3>7, <3>8, <3>9, <4>3 DEF SeatKept, SeatLimit
    <3> QED BY <2>1, <3>8, <3>10, QuietSeats
  <2> QED BY <1>1, <2>1, <2>2
<1>3. CASE ReadStanding(c)
  <2>1. /\ team[c].pc = "standing" /\ (finish(c) \/ team' = [team EXCEPT ![c].pc = "admit"])
        /\ UNCHANGED <<members, invitations, excuses>>
    BY <1>3 DEF ReadStanding, advance
  <2>2. CASE team' = [team EXCEPT ![c].pc = "admit"]
    <3>1. /\ team'[c].pc = "admit" /\ team'[c].event = team[c].event /\ team'[c].arg = team[c].arg
          /\ team'[c].inv = team[c].inv
          /\ \A d \in TeamCalls \ {c} : team'[d] = team[d]
      BY <1>0, <2>2 DEF CallType
    <3>2. PICK e : e = team[c].event
      OBVIOUS
    <3>3. Members(e)' = Members(e) /\ Pending(e)' = Pending(e)
      BY <2>1 DEF Members, Pending
    <3>4. ASSUME SeatsGated PROVE SeatKept(team[c])'
      <4>1. SeatKept(team[c])
        BY <3>4 DEF SeatsInv
      <4> QED BY <2>1, <3>1, <3>2, <3>3, <4>1 DEF SeatKept
    <3> QED BY <2>1, <3>1, <3>4, QuietSeats
  <2> QED BY <1>1, <2>1, <2>2
<1> QED BY <1>2, <1>3

\* Marking, revoking and updating a member free seats or leave them.
LEMMA FreeSeats ==
  ASSUME InvitationInv, SeatsInv, NEW c \in TeamCalls,
         MarkExpired(c) \/ revokeInvitation(c) \/ addMember(c)
  PROVE  SeatsInv'
<1>0. team \in [TeamCalls -> CallType] /\ CallShape(team[c])
  BY DEF InvitationInv, CallTypes, TeamShape
<1>1. finish(c)
  BY DEF MarkExpired, revokeInvitation, addMember
<1>2. team'[c].pc = "idle" /\ \A d \in TeamCalls \ {c} : team'[d] = team[d]
  BY <1>0, <1>1, IdleCall DEF finish
<1>3. SeatKept(team[c])'
  BY <1>2 DEF SeatKept
<1>4. CASE MarkExpired(c) \/ revokeInvitation(c)
  <2>1. PICK status \in {"EXPIRED", "REVOKED"} :
          /\ invitations' = [invitations EXCEPT ![team[c].arg].status = status]
          /\ UNCHANGED <<members, excuses>>
    BY <1>4 DEF MarkExpired, revokeInvitation
  <2>2. \A i \in Invitations :
          /\ invitations'[i].event = invitations[i].event
          /\ invitations'[i].status \in {status, invitations[i].status}
          /\ invitations'[i].live = invitations[i].live
          /\ invitations'[i].maxUses = invitations[i].maxUses
    BY <2>1 DEF InvitationInv, TeamTypeOK
  <2>3. \A e \in Events : Members(e)' \subseteq Members(e) /\ Pending(e)' \subseteq Pending(e)
    BY <2>1, <2>2 DEF Members, Pending
  <2> QED BY <1>2, <1>3, <2>1, <2>2, <2>3, SeatsFrame
<1>5. CASE addMember(c)
  <2> DEFINE f == team[c].event
             target == team[c].arg[1]
             role == team[c].arg[2]
  <2>1. /\ members' = [members EXCEPT ![f][target] = role]
        /\ excuses' = excuses \union (IF members[f][target] = Nothing THEN {"added"} ELSE {})
        /\ UNCHANGED invitations
    BY <1>5 DEF addMember
  <2>2. CASE members[f][target] = Nothing
    <3>1. ~SeatsGated'
      BY <2>1, <2>2 DEF SeatsGated
    <3> QED BY <3>1 DEF SeatsInv
  <2>3. CASE members[f][target] # Nothing
    <3> HIDE DEF f, target, role
    <3>1. \A e \in Events : \A u \in People : members'[e][u] # Nothing => members[e][u] # Nothing
      BY <2>1, <2>3 DEF InvitationInv, TeamTypeOK
    <3>2. \A e \in Events : Members(e)' \subseteq Members(e) /\ Pending(e)' \subseteq Pending(e)
      BY <2>1, <3>1 DEF Members, Pending
    <3>3. \A i \in Invitations : invitations[i].maxUses \in {0, invitations'[i].maxUses}
      BY <2>1
    <3> QED BY <1>2, <1>3, <2>1, <3>2, <3>3, SeatsFrame
  <2> QED BY <2>2, <2>3
<1> QED BY <1>4, <1>5

\* An invitation that runs out of time frees a seat.
LEMMA ExpireSeats ==
  ASSUME InvitationInv, SeatsInv, NEW i \in Invitations, ExpireInvitation(i)
  PROVE  SeatsInv'
<1>1. /\ invitations' = [invitations EXCEPT ![i].live = FALSE]
      /\ UNCHANGED <<events, members, team, excuses>>
  BY DEF ExpireInvitation
<1>2. \A j \in Invitations :
        /\ invitations'[j].event = invitations[j].event
        /\ invitations'[j].status = invitations[j].status
        /\ invitations'[j].maxUses = invitations[j].maxUses
        /\ j # i => invitations'[j] = invitations[j]
  BY <1>1 DEF InvitationInv, TeamTypeOK
<1>3. invitations[i].live
  BY DEF ExpireInvitation
<1>4. \A e \in Events : Members(e)' \subseteq Members(e) /\ Pending(e)' \subseteq Pending(e)
  BY <1>1, <1>2, <1>3 DEF Members, Pending
<1> QED BY <1>1, <1>2, <1>4, SeatsFrame


\* One more in a set.
LEMMA OneMore ==
  ASSUME NEW S, IsFiniteSet(S), NEW T, NEW x, T \subseteq S \union {x}
  PROVE  IsFiniteSet(T) /\ Cardinality(T) \in Nat /\ Cardinality(T) <= Cardinality(S) + 1
<1>1. /\ IsFiniteSet(S \union {x}) /\ Cardinality(S) \in Nat
      /\ Cardinality(S \union {x}) \in {Cardinality(S), Cardinality(S) + 1}
  BY FS_AddElement, FS_CardinalityType, CardStep
<1>2. IsFiniteSet(T) /\ Cardinality(T) <= Cardinality(S \union {x}) /\ Cardinality(T) \in Nat
  BY <1>1, FS_Subset, FS_CardinalityType
<1> QED BY <1>1, <1>2

\* The invitation that is stored takes the seat its call had counted on.
LEMMA InviteSeats ==
  ASSUME InvitationInv, SeatsInv, NEW c \in TeamCalls, createInvitation(c) PROVE SeatsInv'
<1>0. team \in [TeamCalls -> CallType] /\ CallShape(team[c])
  BY DEF InvitationInv, CallTypes, TeamShape
<1>1. /\ team[c].pc = "invite" /\ finish(c) /\ UNCHANGED <<events, members, excuses>>
  BY DEF createInvitation
<1>2. PICK i \in Invitations :
        /\ invitations[i] = NoInvitation
        /\ invitations' = [invitations EXCEPT ![i] =
             [event |-> team[c].event, role |-> "VIEWER", status |-> "PENDING",
              maxUses |-> team[c].arg, uses |-> 0, live |-> TRUE]]
  BY DEF createInvitation
<1>3. /\ invitations'[i].event = team[c].event /\ invitations[i].maxUses = 0
      /\ \A j \in Invitations \ {i} : invitations'[j] = invitations[j]
  BY <1>2 DEF InvitationInv, TeamTypeOK, NoInvitation
<1>4. team'[c].pc = "idle" /\ \A d \in TeamCalls \ {c} : team'[d] = team[d]
  BY <1>0, <1>1, IdleCall DEF finish
<1> SUFFICES ASSUME SeatsGated'
             PROVE  /\ \A e \in Events : Cardinality(Members(e)') + Cardinality(Pending(e)') <= SeatLimit
                    /\ \A d \in TeamCalls : SeatKept(team[d])'
  BY DEF SeatsInv, SeatLimit
<1>5. \A j \in Invitations : invitations[j].maxUses \in {0, invitations'[j].maxUses}
  BY <1>3
<1>6. SeatsGated
  BY <1>1, <1>5, GatedBefore
<1>7. ASSUME NEW d \in TeamCalls PROVE SeatKept(team[d])'
  <2>1. team[c].pc \in Seating
    BY <1>1 DEF Seating
  <2>2. team'[d].pc \notin Seating
    BY <1>4, <1>6, <2>1, SeatingAlone DEF Seating
  <2> QED BY <2>2 DEF SeatKept, Seating
<1>8. ASSUME NEW e \in Events
      PROVE  Cardinality(Members(e)') + Cardinality(Pending(e)') <= SeatLimit
  <2>1. Members(e)' = Members(e)
    BY <1>1 DEF Members
  <2>2. /\ Cardinality(Members(e)) \in Nat /\ IsFiniteSet(Pending(e)) /\ Cardinality(Pending(e)) \in Nat
    BY SeatsFinite
  <2>3. CASE e = team[c].event
    <3>1. Cardinality(Members(e)) + Cardinality(Pending(e)) + 1 <= SeatLimit
      BY <1>1, <1>6, <2>3 DEF SeatsInv, SeatKept, SeatLimit
    <3>2. Pending(e)' \subseteq Pending(e) \union {i}
      BY <1>3 DEF Pending
    <3>3. Cardinality(Pending(e)') \in Nat /\ Cardinality(Pending(e)') <= Cardinality(Pending(e)) + 1
      BY <2>2, <3>2, OneMore
    <3> QED BY <2>1, <2>2, <3>1, <3>3, SeatLimitPositive
  <2>4. CASE e # team[c].event
    <3>1. Pending(e)' \subseteq Pending(e)
      BY <1>3, <2>4 DEF Pending
    <3>2. Cardinality(Pending(e)') \in Nat /\ Cardinality(Pending(e)') <= Cardinality(Pending(e))
      BY <2>1, <3>1, FewerSeats
    <3>3. Cardinality(Members(e)) + Cardinality(Pending(e)) <= SeatLimit
      BY <1>6 DEF SeatsInv, SeatLimit
    <3> QED BY <2>1, <2>2, <3>2, <3>3, SeatLimitPositive
  <2> QED BY <2>3, <2>4
<1> QED BY <1>7, <1>8

\* The member who is admitted takes the seat the link had.
LEMMA AdmitSeats ==
  ASSUME InvitationInv, SeatsInv, NEW c \in TeamCalls, Admit(c) PROVE SeatsInv'
<1>0. team \in [TeamCalls -> CallType] /\ CallShape(team[c]) /\ Fresh(team[c])
  BY DEF InvitationInv, CallTypes, TeamShape, AcceptanceIsFresh
<1> DEFINE uses == team[c].inv.uses + 1
           status == IF uses >= team[c].inv.maxUses THEN "ACCEPTED" ELSE "PENDING"
<1>1. /\ team[c].pc = "admit" /\ finish(c) /\ UNCHANGED <<events, excuses>>
      /\ members' = [members EXCEPT ![team[c].event][team[c].who] = team[c].inv.role]
      /\ invitations' = [invitations EXCEPT ![team[c].arg].uses = uses, ![team[c].arg].status = status]
  BY DEF Admit
<1>2. /\ team[c].event \in Events /\ team[c].who \in People /\ team[c].arg \in Invitations
      /\ team[c].inv.uses \in Nat /\ team[c].inv.maxUses \in Nat
      /\ team[c].inv.uses < team[c].inv.maxUses
      /\ team[c].inv.maxUses = invitations[team[c].arg].maxUses
  BY <1>0, <1>1 DEF CallShape, Fresh, Accepting, ReadInvitations
<1>3. team'[c].pc = "idle" /\ \A d \in TeamCalls \ {c} : team'[d] = team[d]
  BY <1>0, <1>1, IdleCall DEF finish
<1>4. PICK f \in Events : f = team[c].event
  BY <1>2
<1>5. PICK who \in People : who = team[c].who
  BY <1>2
<1>6. PICK i \in Invitations : i = team[c].arg
  BY <1>2
<1>7. /\ invitations'[i].status = status /\ \A j \in Invitations \ {i} : invitations'[j] = invitations[j]
      /\ \A j \in Invitations : invitations'[j].maxUses = invitations[j].maxUses
      /\ \A j \in Invitations : invitations'[j].event = invitations[j].event
  <2> HIDE DEF uses, status
  <2> QED BY <1>1, <1>6 DEF InvitationInv, TeamTypeOK
<1> SUFFICES ASSUME SeatsGated'
             PROVE  /\ \A e \in Events : Cardinality(Members(e)') + Cardinality(Pending(e)') <= SeatLimit
                    /\ \A d \in TeamCalls : SeatKept(team[d])'
  BY DEF SeatsInv, SeatLimit
<1>8. SeatsGated
  BY <1>1, <1>7, GatedBefore
<1>9. status = "ACCEPTED"
  <2>1. team[c].inv.maxUses <= 1
    BY <1>2, <1>8 DEF SeatsGated
  <2> QED BY <1>2, <2>1
<1>10. ASSUME NEW d \in TeamCalls PROVE SeatKept(team[d])'
  <2>1. team[c].pc \in Seating
    BY <1>1 DEF Seating
  <2>2. team'[d].pc \notin Seating
    BY <1>3, <1>8, <2>1, SeatingAlone DEF Seating
  <2> QED BY <2>2 DEF SeatKept, Seating
<1> HIDE DEF uses, status
<1>11. ASSUME NEW e \in Events
       PROVE  Cardinality(Members(e)') + Cardinality(Pending(e)') <= SeatLimit
  <2>1. Pending(e)' \subseteq Pending(e) \ {i}
    BY <1>7, <1>9 DEF Pending
  <2>2. /\ IsFiniteSet(Members(e)) /\ Cardinality(Members(e)) \in Nat
        /\ IsFiniteSet(Pending(e)) /\ Cardinality(Pending(e)) \in Nat
    BY SeatsFinite
  <2>3. CASE e = f
    <3>1. Cardinality(Members(e)) + Cardinality(Pending(e) \ {i}) + 1 <= SeatLimit
      BY <1>1, <1>2, <1>4, <1>6, <1>8, <2>3 DEF SeatsInv, SeatKept, SeatLimit
    <3>2. Members(e)' \subseteq Members(e) \union {who}
      BY <1>1, <1>4, <1>5, <2>3 DEF Members, InvitationInv, TeamTypeOK
    <3>3. Cardinality(Members(e)') \in Nat /\ Cardinality(Members(e)') <= Cardinality(Members(e)) + 1
      BY <2>2, <3>2, OneMore
    <3>4. IsFiniteSet(Pending(e) \ {i})
      BY <2>2, FS_RemoveElement
    <3>5. /\ Cardinality(Pending(e)') \in Nat /\ Cardinality(Pending(e) \ {i}) \in Nat
          /\ Cardinality(Pending(e)') <= Cardinality(Pending(e) \ {i})
      BY <2>1, <3>4, FS_Subset, FS_CardinalityType
    <3> QED BY <2>2, <3>1, <3>3, <3>5, SeatLimitPositive
  <2>4. CASE e # f
    <3>1. Members(e)' \subseteq Members(e)
      BY <1>1, <1>4, <2>4 DEF Members, InvitationInv, TeamTypeOK
    <3>2. Pending(e)' \subseteq Pending(e)
      BY <2>1
    <3>3. /\ Cardinality(Members(e)') \in Nat /\ Cardinality(Members(e)') <= Cardinality(Members(e))
          /\ Cardinality(Pending(e)') \in Nat /\ Cardinality(Pending(e)') <= Cardinality(Pending(e))
      BY <3>1, <3>2, FewerSeats
    <3>4. Cardinality(Members(e)) + Cardinality(Pending(e)) <= SeatLimit
      BY <1>8 DEF SeatsInv, SeatLimit
    <3> QED BY <2>2, <3>3, <3>4, SeatLimitPositive
  <2> QED BY <2>3, <2>4
<1> QED BY <1>10, <1>11


\* A new event has its owner and nobody else.
LEMMA CreateSeats ==
  ASSUME InvitationInv, SeatsInv, NEW c \in TeamCalls, createEvent(c) PROVE SeatsInv'
<1>0. team \in [TeamCalls -> CallType] /\ CallShape(team[c])
  BY DEF InvitationInv, CallTypes, TeamShape
<1>1. finish(c) /\ UNCHANGED <<invitations, excuses>>
  BY DEF createEvent
<1>2. PICK f \in Events : /\ events[f] = NoEvent
                          /\ members' = [members EXCEPT ![f][team[c].who] = "OWNER"]
  BY DEF createEvent
<1>3. team'[c].pc = "idle" /\ \A d \in TeamCalls \ {c} : team'[d] = team[d]
  BY <1>0, <1>1, IdleCall DEF finish
<1>4. PICK who : who = team[c].who
  OBVIOUS
<1>5. events[f].status = "none" /\ \A u \in People : members[f][u] = Nothing
  BY <1>2 DEF NoEvent, InvitationInv, TeamRows
<1>6. \A e \in Events : Pending(e)' = Pending(e) /\ (e # f => Members(e)' = Members(e))
  BY <1>1, <1>2 DEF Pending, Members, InvitationInv, TeamTypeOK
<1>7. Pending(f) = {} /\ Members(f)' \subseteq {who}
  <2>1. \A i \in Invitations : invitations[i].event # f
    BY <1>5, TeamAssumption DEF InvitationInv, TeamRows, NoInvitation
  <2>2. Pending(f) = {}
    BY <2>1 DEF Pending
  <2>3. \A u \in People : u # who => members'[f][u] = members[f][u]
    BY <1>2, <1>4 DEF InvitationInv, TeamTypeOK
  <2> QED BY <1>5, <2>2, <2>3 DEF Members
<1> SUFFICES ASSUME SeatsGated'
             PROVE  /\ \A e \in Events : Cardinality(Members(e)') + Cardinality(Pending(e)') <= SeatLimit
                    /\ \A d \in TeamCalls : SeatKept(team[d])'
  BY DEF SeatsInv, SeatLimit
<1>8. SeatsGated
  BY <1>1, GatedBefore
<1>9. ASSUME NEW e \in Events
      PROVE  Cardinality(Members(e)') + Cardinality(Pending(e)') <= SeatLimit
  <2>1. CASE e = f
    <3>1. IsFiniteSet({}) /\ Cardinality({}) = 0 /\ Members(f)' \subseteq {} \union {who}
      BY <1>7, FS_EmptySet
    <3>2. Cardinality(Members(f)') \in Nat /\ Cardinality(Members(f)') <= 0 + 1
      BY <3>1, OneMore
    <3>3. SeatLimit >= 1 /\ SeatLimit \in Int
      BY <1>8, SeatLimitPositive DEF SeatsGated, SeatLimit
    <3>4. Cardinality(Pending(e)') = 0
      BY <1>6, <1>7, <2>1, <3>1
    <3> QED BY <2>1, <3>2, <3>3, <3>4
  <2>2. CASE e # f
    BY <1>6, <1>8, <2>2 DEF SeatsInv, SeatLimit
  <2> QED BY <2>1, <2>2
<1>10. ASSUME NEW d \in TeamCalls PROVE SeatKept(team[d])'
  <2>1. CASE d = c
    BY <1>3, <2>1 DEF SeatKept
  <2>2. CASE d # c
    <3>1. team'[d] = team[d] /\ SeatKept(team[d])
      BY <1>3, <1>8, <2>2 DEF SeatsInv
    <3>2. CASE team[d].pc \notin Seating
      BY <3>1, <3>2 DEF SeatKept, Seating
    <3>3. CASE team[d].pc \in Seating
      <4>1. PICK e \in Events : e = team[d].event /\ events[e].status # "none"
        BY <3>3, SeatingHasEvent
      <4>2. Members(e)' = Members(e) /\ Pending(e)' = Pending(e)
        BY <1>5, <1>6, <4>1
      <4> QED BY <3>1, <4>1, <4>2 DEF SeatKept
    <3> QED BY <3>2, <3>3
  <2> QED BY <2>1, <2>2
<1> QED BY <1>9, <1>10

\* Every step of Onboarding keeps the seats.
LEMMA SeatsNextOK ==
  ASSUME SignInInv, InvitationInv, SeatsInv, [Next]_vars PROVE SeatsInv'
<1>1. CASE TeamNext(SignedIn)
  <2>1. PICK c \in TeamCalls :
          \/ \E who \in SignedIn : Request(c, who)
          \/ ReadStatus(c) \/ ReadRole(c)
          \/ assertCanCreateEvent(c) \/ createEvent(c) \/ setStatus(c) \/ addMember(c)
          \/ CountMembers(c) \/ CountPending(c) \/ createInvitation(c) \/ revokeInvitation(c)
          \/ ReadToken(c) \/ MarkExpired(c) \/ ReadStanding(c) \/ Admit(c)
    BY <1>1 DEF TeamNext
  <2>2. CASE \/ \E who \in SignedIn : Request(c, who)
             \/ ReadStatus(c) \/ ReadRole(c) \/ assertCanCreateEvent(c) \/ setStatus(c)
    <3>1. (\E who \in SignedIn : Request(c, who)) => \E who \in People : Request(c, who)
      BY CallersArePeople
    <3> QED BY <2>2, <3>1, OtherSeats
  <2>3. CASE createEvent(c)
    BY <2>3, CreateSeats
  <2>4. CASE CountMembers(c) \/ CountPending(c)
    BY <2>4, CountSeats
  <2>5. CASE MarkExpired(c) \/ revokeInvitation(c) \/ addMember(c)
    BY <2>5, FreeSeats
  <2>6. CASE createInvitation(c)
    BY <2>6, InviteSeats
  <2>7. CASE ReadToken(c) \/ ReadStanding(c)
    BY <2>7, AcceptSeats
  <2>8. CASE Admit(c)
    BY <2>8, AdmitSeats
  <2> QED BY <2>1, <2>2, <2>3, <2>4, <2>5, <2>6, <2>7, <2>8
<1>2. CASE \E i \in Invitations : ExpireInvitation(i)
  BY <1>2, ExpireSeats
<1>3. CASE UNCHANGED teamVars
  <2>1. UNCHANGED <<events, members, invitations, team, admitted, revoked, excuses>>
    BY <1>3 DEF teamVars
  <2>2. \A e \in Events : Members(e)' \subseteq Members(e) /\ Pending(e)' \subseteq Pending(e)
    BY <2>1 DEF Members, Pending
  <2> QED BY <2>1, <2>2, SeatsFrame
<1> QED BY <1>1, <1>2, <1>3 DEF Next, vars

\* The seats initially: an event has its owner, or nobody.
LEMMA SeatsInitOK == ASSUME NEW owned, TeamInit(owned) PROVE SeatsInv
<1> SUFFICES ASSUME SeatsGated
             PROVE  /\ \A e \in Events : Cardinality(Members(e)) + Cardinality(Pending(e)) <= SeatLimit
                    /\ \A c \in TeamCalls : SeatKept(team[c])
  BY DEF SeatsInv, SeatLimit
<1>1. \A c \in TeamCalls : SeatKept(team[c])
  BY IdleCall DEF TeamInit, SeatKept
<1>2. ASSUME NEW e \in Events PROVE Cardinality(Members(e)) + Cardinality(Pending(e)) <= SeatLimit
  <2>1. Pending(e) = {}
    BY DEF Pending, TeamInit, NoInvitation
  <2>2. Members(e) \subseteq {} \union {owned[e]}
    BY DEF Members, TeamInit
  <2>3. IsFiniteSet({}) /\ Cardinality({}) = 0
    BY FS_EmptySet
  <2>4. Cardinality(Members(e)) \in Nat /\ Cardinality(Members(e)) <= 0 + 1
    BY <2>2, <2>3, OneMore
  <2>5. SeatLimit >= 1 /\ SeatLimit \in Int
    BY SeatLimitPositive DEF SeatsGated, SeatLimit
  <2> QED BY <2>1, <2>3, <2>4, <2>5
<1> QED BY <1>1, <1>2

-----------------------------------------------------------------------------
(* The ceiling of active events.                                           *)

\* Events can be counted.
LEMMA EventsFinite ==
  ASSUME NEW u PROVE IsFiniteSet(ActiveEvents(u)) /\ Cardinality(ActiveEvents(u)) \in Nat
<1>1. ActiveEvents(u) \in SUBSET Events /\ IsFiniteSet(Events)
  BY TeamAssumption DEF ActiveEvents
<1> QED BY <1>1, FS_Subset, FS_CardinalityType

\* The ceiling on active events is a number.
LEMMA CeilingType == maxActiveEvents \in Int
BY DEF maxActiveEvents, Unlimited

\* A step after which nobody has more active events and nobody new is about
\* to create one.
LEMMA CeilingFrame ==
  ASSUME CeilingInv, excuses \subseteq excuses',
         \A u \in People : {u, "reopened"} \intersect excuses' = {} =>
           ActiveEvents(u)' \subseteq ActiveEvents(u),
         \A c \in TeamCalls : team'[c].pc = "insertEvent" =>
           \/ team[c].pc = "insertEvent" /\ team'[c].who = team[c].who
           \/ withinLimit(maxActiveEvents, Cardinality(ActiveEvents(team'[c].who)), 1)
  PROVE  CeilingInv'
<1> SUFFICES ASSUME NEW u \in People, maxActiveEvents # Unlimited, {u, "reopened"} \intersect excuses' = {}
             PROVE  /\ Cardinality(ActiveEvents(u)') <= maxActiveEvents
                    /\ \A c \in TeamCalls : team'[c].pc = "insertEvent" /\ team'[c].who = u =>
                         Cardinality(ActiveEvents(u)') + 1 <= maxActiveEvents
  BY DEF CeilingInv, maxActiveEvents
<1>1. {u, "reopened"} \intersect excuses = {}
  OBVIOUS
<1>2. /\ Cardinality(ActiveEvents(u)) <= maxActiveEvents
      /\ \A c \in TeamCalls : team[c].pc = "insertEvent" /\ team[c].who = u =>
           Cardinality(ActiveEvents(u)) + 1 <= maxActiveEvents
  BY <1>1 DEF CeilingInv
<1>3. /\ Cardinality(ActiveEvents(u)') \in Nat /\ Cardinality(ActiveEvents(u)) \in Nat
      /\ Cardinality(ActiveEvents(u)') <= Cardinality(ActiveEvents(u))
  BY EventsFinite, FS_Subset, FS_CardinalityType
<1>4. \A c \in TeamCalls : team'[c].pc = "insertEvent" /\ team'[c].who = u =>
        Cardinality(ActiveEvents(u)) + 1 <= maxActiveEvents
  BY <1>2 DEF withinLimit
<1> QED BY <1>2, <1>3, <1>4, CeilingType


\* The steps that neither create an event nor decide on one.
LEMMA OtherCeiling ==
  ASSUME InvitationInv, CeilingInv, NEW c \in TeamCalls,
         \/ \E who \in People : Request(c, who)
         \/ ReadStatus(c) \/ ReadRole(c) \/ addMember(c) \/ CountMembers(c) \/ CountPending(c)
         \/ createInvitation(c) \/ revokeInvitation(c) \/ ReadToken(c) \/ MarkExpired(c)
         \/ ReadStanding(c) \/ Admit(c)
  PROVE  CeilingInv'
<1>0. team \in [TeamCalls -> CallType]
  BY DEF InvitationInv, CallTypes
<1>1. /\ \A d \in TeamCalls \ {c} : team'[d] = team[d]
      /\ team'[c].pc # "insertEvent" /\ UNCHANGED events /\ excuses \subseteq excuses'
  <2>1. ASSUME finish(c) PROVE (\A d \in TeamCalls \ {c} : team'[d] = team[d]) /\ team'[c].pc = "idle"
    BY <1>0, <2>1, IdleCall DEF finish
  <2>2. CASE \E who \in People : Request(c, who)
    <3>1. PICK call : begin(c, call) /\ call.pc \in {"count", "token", "status"}
      BY <2>2, RequestBegins
    <3> QED BY <1>0, <3>1 DEF begin
  <2>3. CASE ReadStatus(c)
    BY <1>0, <2>3 DEF ReadStatus, CallType
  <2>4. CASE ReadRole(c)
    BY <1>0, <2>1, <2>4 DEF ReadRole, advance, CallType
  <2>5. CASE addMember(c) \/ createInvitation(c) \/ revokeInvitation(c) \/ MarkExpired(c) \/ Admit(c)
    <3>1. finish(c) /\ UNCHANGED events /\ excuses \subseteq excuses'
      BY <2>5 DEF addMember, createInvitation, revokeInvitation, MarkExpired, Admit
    <3> QED BY <2>1, <3>1
  <2>6. CASE CountMembers(c)
    BY <1>0, <2>6 DEF CountMembers, CallType
  <2>7. CASE CountPending(c)
    BY <1>0, <2>1, <2>7 DEF CountPending, advance, CallType
  <2>8. CASE ReadToken(c)
    <3> DEFINE inv == invitations[team[c].arg]
               pc == IF inv.live THEN "standing" ELSE "expire"
    <3>1. /\ finish(c) \/ team' = [team EXCEPT ![c].pc = pc, ![c].inv = inv]
          /\ UNCHANGED <<events, excuses>> /\ pc \in {"standing", "expire"}
      BY <2>8 DEF ReadToken
    <3> HIDE DEF inv, pc
    <3> QED BY <1>0, <2>1, <3>1 DEF CallType
  <2>9. CASE ReadStanding(c)
    BY <1>0, <2>1, <2>9 DEF ReadStanding, advance, CallType
  <2> QED BY <2>2, <2>3, <2>4, <2>5, <2>6, <2>7, <2>8, <2>9
<1>2. \A u \in People : ActiveEvents(u)' \subseteq ActiveEvents(u)
  BY <1>1 DEF ActiveEvents
<1> QED BY <1>1, <1>2, CeilingFrame

\* The gate of a creation.
LEMMA AssertCeiling ==
  ASSUME InvitationInv, CeilingInv, NEW c \in TeamCalls, assertCanCreateEvent(c) PROVE CeilingInv'
<1>0. team \in [TeamCalls -> CallType]
  BY DEF InvitationInv, CallTypes
<1>1. /\ \/ finish(c)
         \/ /\ withinLimit(maxActiveEvents, Cardinality(ActiveEvents(team[c].who)), 1)
            /\ team' = [team EXCEPT ![c].pc = "insertEvent"]
      /\ UNCHANGED <<events, excuses>>
  BY DEF assertCanCreateEvent, advance
<1>2. \A u \in People : ActiveEvents(u)' \subseteq ActiveEvents(u)
  BY <1>1 DEF ActiveEvents
<1>3. CASE finish(c)
  <2>1. (\A d \in TeamCalls \ {c} : team'[d] = team[d]) /\ team'[c].pc = "idle"
    BY <1>0, <1>3, IdleCall DEF finish
  <2> QED BY <1>1, <1>2, <2>1, CeilingFrame
<1>4. CASE /\ withinLimit(maxActiveEvents, Cardinality(ActiveEvents(team[c].who)), 1)
           /\ team' = [team EXCEPT ![c].pc = "insertEvent"]
  <2>1. (\A d \in TeamCalls \ {c} : team'[d] = team[d]) /\ team'[c].who = team[c].who
    BY <1>0, <1>4 DEF CallType
  <2>2. withinLimit(maxActiveEvents, Cardinality(ActiveEvents(team'[c].who)), 1)
    BY <1>4, <2>1
  <2> QED BY <1>1, <1>2, <2>1, <2>2, CeilingFrame
<1> QED BY <1>1, <1>3, <1>4

\* Opening an event again is on record; everything else keeps events within.
LEMMA StatusCeiling ==
  ASSUME InvitationInv, CeilingInv, NEW c \in TeamCalls, setStatus(c) PROVE CeilingInv'
<1>0. team \in [TeamCalls -> CallType] /\ CallShape(team[c])
  BY DEF InvitationInv, CallTypes, TeamShape
<1> DEFINE f == team[c].event
           s == team[c].arg
<1>1. /\ finish(c) /\ events' = [events EXCEPT ![f].status = s] /\ excuses \subseteq excuses'
      /\ "reopened" \notin excuses' => Writable(events[f].status) \/ ~Writable(s)
  BY DEF setStatus
<1>2. (\A d \in TeamCalls \ {c} : team'[d] = team[d]) /\ team'[c].pc = "idle"
  BY <1>0, <1>1, IdleCall DEF finish
<1> HIDE DEF f, s
<1>3. \A e \in Events : /\ events'[e].owner = events[e].owner
                        /\ e # f => events'[e].status = events[e].status
                        /\ e = f => events'[e].status = s
  BY <1>1 DEF InvitationInv, TeamTypeOK
<1>4. \A u \in People : {u, "reopened"} \intersect excuses' = {} =>
        ActiveEvents(u)' \subseteq ActiveEvents(u)
  BY <1>1, <1>3 DEF ActiveEvents, Writable
<1> QED BY <1>1, <1>2, <1>4, CeilingFrame

\* The event that is created was counted before, by a call that was alone.
LEMMA CreateCeiling ==
  ASSUME InvitationInv, CeilingInv, NEW c \in TeamCalls, createEvent(c) PROVE CeilingInv'
<1>0. team \in [TeamCalls -> CallType] /\ CallShape(team[c])
  BY DEF InvitationInv, CallTypes, TeamShape
<1>1. team[c].pc = "insertEvent" /\ finish(c) /\ UNCHANGED excuses
  BY DEF createEvent
<1>2. PICK f \in Events :
        events' = [events EXCEPT ![f] = [owner |-> team[c].who, status |-> "ACTIVE"]]
  BY DEF createEvent
<1>3. (\A d \in TeamCalls \ {c} : team'[d] = team[d]) /\ team'[c].pc = "idle"
  BY <1>0, <1>1, IdleCall DEF finish
<1>4. /\ events'[f].owner = team[c].who
      /\ \A e \in Events \ {f} : events'[e] = events[e]
  BY <1>2 DEF InvitationInv, TeamTypeOK
<1> SUFFICES ASSUME NEW u \in People, maxActiveEvents # Unlimited, {u, "reopened"} \intersect excuses = {}
             PROVE  /\ Cardinality(ActiveEvents(u)') <= maxActiveEvents
                    /\ \A d \in TeamCalls : team'[d].pc = "insertEvent" /\ team'[d].who = u =>
                         Cardinality(ActiveEvents(u)') + 1 <= maxActiveEvents
  BY <1>1 DEF CeilingInv, maxActiveEvents
<1>5. /\ Cardinality(ActiveEvents(u)) <= maxActiveEvents
      /\ \A d \in TeamCalls : team[d].pc = "insertEvent" /\ team[d].who = u =>
           Cardinality(ActiveEvents(u)) + 1 <= maxActiveEvents
  BY DEF CeilingInv
<1>6. IsFiniteSet(ActiveEvents(u)) /\ Cardinality(ActiveEvents(u)) \in Nat
  BY EventsFinite
<1>7. CASE team[c].who = u
  <2>1. ActiveEvents(u)' \subseteq ActiveEvents(u) \union {f}
    BY <1>4 DEF ActiveEvents
  <2>2. Cardinality(ActiveEvents(u)') \in Nat
        /\ Cardinality(ActiveEvents(u)') <= Cardinality(ActiveEvents(u)) + 1
    BY <1>6, <2>1, OneMore
  <2>3. \A d \in TeamCalls \ {c} : ~(team[d].pc = "insertEvent" /\ team[d].who = u)
    <3> SUFFICES ASSUME NEW d \in TeamCalls, d # c, team[d].pc = "insertEvent", team[d].who = u
                 PROVE  FALSE
      OBVIOUS
    <3>1. team[c].op = "createEvent" /\ team[d].op = "createEvent"
      BY <1>1 DEF InvitationInv, TeamShape, CallShape
    <3>2. u \in Touches(team[c]) /\ u \in Touches(team[d])
      BY <1>7, <3>1, TouchesOf
    <3>3. u \in excuses
      BY <3>2 DEF InvitationInv, Overlaps
    <3> QED BY <3>3
  <2> QED BY <1>1, <1>3, <1>5, <1>6, <1>7, <2>2, <2>3, CeilingType
<1>8. CASE team[c].who # u
  <2>1. ActiveEvents(u)' \subseteq ActiveEvents(u)
    BY <1>4, <1>8 DEF ActiveEvents
  <2>2. Cardinality(ActiveEvents(u)') \in Nat
        /\ Cardinality(ActiveEvents(u)') <= Cardinality(ActiveEvents(u))
    BY <1>6, <2>1, FS_Subset, FS_CardinalityType
  <2>3. \A d \in TeamCalls : team'[d].pc = "insertEvent" /\ team'[d].who = u =>
          Cardinality(ActiveEvents(u)) + 1 <= maxActiveEvents
    BY <1>3, <1>5
  <2> QED BY <1>5, <1>6, <2>2, <2>3, CeilingType
<1> QED BY <1>7, <1>8

\* Every step of Onboarding keeps the ceiling.
LEMMA CeilingNextOK ==
  ASSUME SignInInv, InvitationInv, CeilingInv, [Next]_vars PROVE CeilingInv'
<1>1. CASE TeamNext(SignedIn)
  <2>1. PICK c \in TeamCalls :
          \/ \E who \in SignedIn : Request(c, who)
          \/ ReadStatus(c) \/ ReadRole(c)
          \/ assertCanCreateEvent(c) \/ createEvent(c) \/ setStatus(c) \/ addMember(c)
          \/ CountMembers(c) \/ CountPending(c) \/ createInvitation(c) \/ revokeInvitation(c)
          \/ ReadToken(c) \/ MarkExpired(c) \/ ReadStanding(c) \/ Admit(c)
    BY <1>1 DEF TeamNext
  <2>2. (\E who \in SignedIn : Request(c, who)) => \E who \in People : Request(c, who)
    BY CallersArePeople
  <2>3. CASE assertCanCreateEvent(c)
    BY <2>3, AssertCeiling
  <2>4. CASE createEvent(c)
    BY <2>4, CreateCeiling
  <2>5. CASE setStatus(c)
    BY <2>5, StatusCeiling
  <2> QED BY <2>1, <2>2, <2>3, <2>4, <2>5, OtherCeiling
<1>2. CASE \E i \in Invitations : ExpireInvitation(i)
  <2>1. UNCHANGED <<events, team, excuses>>
    BY <1>2 DEF ExpireInvitation
  <2>2. \A u \in People : ActiveEvents(u)' \subseteq ActiveEvents(u)
    BY <2>1 DEF ActiveEvents
  <2> QED BY <2>1, <2>2, CeilingFrame
<1>3. CASE UNCHANGED teamVars
  <2>1. UNCHANGED <<events, team, excuses>>
    BY <1>3 DEF teamVars
  <2>2. \A u \in People : ActiveEvents(u)' \subseteq ActiveEvents(u)
    BY <2>1 DEF ActiveEvents
  <2> QED BY <2>1, <2>2, CeilingFrame
<1> QED BY <1>1, <1>2, <1>3 DEF Next, vars

\* Nobody starts out above the ceiling.
LEMMA CeilingInitOK ==
  ASSUME NEW owned, TeamInit(owned),
         \A u \in People : withinLimit(maxActiveEvents,
           Cardinality({e \in Events : e \in DOMAIN owned /\ owned[e] = u}), 0)
  PROVE  CeilingInv
<1>1. \A c \in TeamCalls : team[c].pc = "idle"
  BY IdleCall DEF TeamInit
<1>2. ASSUME NEW u \in People, maxActiveEvents # Unlimited
      PROVE  Cardinality(ActiveEvents(u)) <= maxActiveEvents
  <2>1. ActiveEvents(u) = {e \in Events : e \in DOMAIN owned /\ owned[e] = u}
    BY TeamAssumption DEF ActiveEvents, TeamInit, NoEvent
  <2>2. Cardinality(ActiveEvents(u)) + 0 <= maxActiveEvents
    BY <1>2, <2>1 DEF withinLimit
  <2> QED BY <2>2, EventsFinite, CeilingType
<1> QED BY <1>1, <1>2 DEF CeilingInv

\* Onboarding keeps the seats and the ceiling, with what calls have counted on.
THEOREM CapsInvariance == Spec => [](SeatsInv /\ CeilingInv)
<1>1. Init => SeatsInv /\ CeilingInv
  BY SeatsInitOK, CeilingInitOK, OnboardingAssumption DEF Init
<1>2. SignInInv /\ InvitationInv /\ (SeatsInv /\ CeilingInv) /\ [Next]_vars => (SeatsInv /\ CeilingInv)'
  BY SeatsNextOK, CeilingNextOK
<1> QED BY <1>1, <1>2, SignInInvariance, InvitationInvariance, PTL DEF Spec

\* CapsHold, for every plan and subscription and any number of people, events,
\* invitations and calls: countSeats and assertCanCreateEvent count and decide
\* in separate statements, and the caps hold of whatever no two calls counted at
\* once, no member bypassed and nobody reopened.
THEOREM CapsHoldAlways == Spec => []CapsHold
<1>1. SeatsInv /\ CeilingInv => CapsHold
  <2> SUFFICES ASSUME SeatsInv, CeilingInv PROVE CapsHold
    OBVIOUS
  <2>1. \A u \in People :
          {e \in Events : events[e].owner = u /\ Writable(events[e].status)} = ActiveEvents(u)
    BY DEF ActiveEvents, Writable
  <2>2. ASSUME NEW e \in Events, PLAN_CATALOG[EventPlan].maxSeats # Unlimited,
               {"seats", "added"} \intersect excuses = {},
               \A i \in Invitations : invitations[i].maxUses <= 1
        PROVE  Cardinality(Members(e)) + Cardinality(Pending(e)) <= PLAN_CATALOG[EventPlan].maxSeats
    BY <2>2 DEF SeatsInv, SeatsGated
  <2>3. \A u \in People :
          maxActiveEvents # Unlimited /\ {u, "reopened"} \intersect excuses = {} =>
            Cardinality(ActiveEvents(u)) <= maxActiveEvents
    BY DEF CeilingInv
  <2> QED BY <2>1, <2>2, <2>3 DEF CapsHold
<1> QED BY <1>1, CapsInvariance, PTL
=============================================================================
