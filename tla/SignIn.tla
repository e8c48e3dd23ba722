------------------------------- MODULE SignIn -------------------------------
(***************************************************************************)
(* Signing in with a one-time code: LocalAuthProvider, UserService and     *)
(* the AuthController that starts a new user's trial.                      *)
(*                                                                         *)
(* A user is named by the phone number or e-mail address it signed up      *)
(* with; the two channels run the same code on their own column.  A call   *)
(* is a process that takes one step per database statement.  A refused     *)
(* call changes nothing and is not a step; a call that dies takes no       *)
(* further step.  A code is only ever right or wrong.                      *)
(***************************************************************************)
EXTENDS Workload, Integers, FiniteSets

CONSTANTS
  Phones, Emails,    \* identifiers, and the users who own them
  Challenges,        \* auth_otp_challenge ids
  AuthCalls,         \* calls that can run at the same time
  OTP_MAX_ATTEMPTS,
  Null

Users == Phones \union Emails

ASSUME SignInAssumption ==
  /\ OTP_MAX_ATTEMPTS \in Nat \ {0} /\ IsFiniteSet(AuthCalls)
  /\ Phones \intersect Emails = {} /\ Null \notin Users \union Challenges

VARIABLES
  challenges,  \* auth_otp_challenge rows
  users,       \* user rows, and the verified flag of their own channel
  tokens,      \* access and refresh tokens handed out
  auth,        \* where each call is
  trials,      \* history: free trials started, per user
  won,         \* history: sessions issued, per challenge
  raced        \* history: challenges with two verifications under way at once

signInVars == <<challenges, users, tokens, auth, trials, won, raced>>

NoChallenge == [who |-> Null, attempts |-> 0, consumed |-> FALSE, age |-> "none"]

NoCall == [pc |-> "idle", who |-> Null, challenge |-> Null, isNew |-> FALSE]

\* registered are users of long ago: verified, with their trial behind them.
SignInInit(registered) ==
  /\ challenges = [h \in Challenges |-> NoChallenge]
  /\ users = [u \in Users |-> IF u \in registered THEN "verified" ELSE "none"]
  /\ tokens = [user : registered \intersect Phones, pv : {TRUE}]
              \union [user : registered \intersect Emails, pv : {FALSE}]
  /\ auth = [c \in AuthCalls |-> NoCall]
  /\ trials = [u \in Users |-> IF u \in registered THEN 1 ELSE 0]
  /\ won = [h \in Challenges |-> 0]
  /\ raced = {}

resume(c, call) == auth' = [auth EXCEPT ![c] = call]

-----------------------------------------------------------------------------
\* assertCooldownElapsed: no unconsumed challenge of this identifier is young.
CooldownElapsed(who) ==
  \A h \in Challenges :
    ~(challenges[h].who = who /\ ~challenges[h].consumed /\ challenges[h].age = "fresh")

\* startOtp and startEmailOtp, up to the insert.
startOtp(c, who) ==
  /\ take("startOtp")
  /\ auth[c].pc = "idle" /\ CooldownElapsed(who)
  /\ resume(c, [NoCall EXCEPT !.pc = "insert", !.who = who])
  /\ UNCHANGED <<challenges, users, tokens, trials, won, raced>>

\* The challenge is stored; whether the message arrives is nobody's concern.
InsertChallenge(c) ==
  /\ auth[c].pc = "insert"
  /\ \E h \in Challenges :
       /\ challenges[h] = NoChallenge
       /\ challenges' = [challenges EXCEPT ![h] =
            [who |-> auth[c].who, attempts |-> 0, consumed |-> FALSE, age |-> "fresh"]]
  /\ resume(c, NoCall)
  /\ UNCHANGED <<users, tokens, trials, won, raced, left>>

\* The cooldown of a challenge elapses, then its time to live.
Grow(h) ==
  /\ challenges[h].age \in {"fresh", "cool"}
  /\ challenges' = [challenges EXCEPT ![h].age = IF @ = "fresh" THEN "cool" ELSE "expired"]
  /\ UNCHANGED <<users, tokens, auth, trials, won, raced, left>>

\* Variant: the number of attempts is not looked at.
RedeemableForEver(h) ==
  challenges[h].who # Null /\ ~challenges[h].consumed /\ challenges[h].age # "expired"

\* The checks verifyOtp makes on the row it has read.
Redeemable(h) ==
  /\ challenges[h].who # Null /\ ~challenges[h].consumed /\ challenges[h].age # "expired"
  /\ challenges[h].attempts < OTP_MAX_ATTEMPTS

\* verifyOtp and verifyEmailOtp: the row is read and the code compared.
verifyOtp(c, h, right) ==
  /\ take("verifyOtp")
  /\ auth[c].pc = "idle" /\ Redeemable(h)
  /\ resume(c, [NoCall EXCEPT !.pc = IF right THEN "consume" ELSE "miss", !.challenge = h,
                              !.who = challenges[h].who])
  /\ raced' = raced \union {g \in {h} : \E d \in AuthCalls : auth[d].challenge = g}
  /\ UNCHANGED <<challenges, users, tokens, trials, won>>

\* Variant: the attempts count down.
MissCountsDown(c) ==
  /\ auth[c].pc = "miss"
  /\ challenges' = [challenges EXCEPT ![auth[c].challenge].attempts = @ - 1]
  /\ resume(c, NoCall)
  /\ UNCHANGED <<users, tokens, trials, won, raced, left>>

\* An incorrect code: the increment is the database's own.
Miss(c) ==
  /\ auth[c].pc = "miss"
  /\ challenges' = [challenges EXCEPT ![auth[c].challenge].attempts = @ + 1]
  /\ resume(c, NoCall)
  /\ UNCHANGED <<users, tokens, trials, won, raced, left>>

\* The right code: consumed, whether or not somebody else consumed it first.
Consume(c) ==
  /\ auth[c].pc = "consume"
  /\ challenges' = [challenges EXCEPT ![auth[c].challenge].consumed = TRUE]
  /\ resume(c, [auth[c] EXCEPT !.pc = "user"])
  /\ UNCHANGED <<users, tokens, trials, won, raced, left>>

\* Variant: every sign-in looks like the first.
findOrCreateAsNew(c) ==
  /\ auth[c].pc = "user"
  /\ users' = [users EXCEPT ![auth[c].who] = IF @ = "none" THEN "unverified" ELSE @]
  /\ resume(c, [auth[c] EXCEPT !.isNew = TRUE,
                  !.pc = IF users[auth[c].who] = "verified" THEN "issue" ELSE "mark"])
  /\ UNCHANGED <<challenges, tokens, trials, won, raced, left>>

\* findOrCreateByPhone and findOrCreateByEmail: the unique column decides who
\* of several is the one that creates the user.
findOrCreate(c) ==
  /\ auth[c].pc = "user"
  /\ users' = [users EXCEPT ![auth[c].who] = IF @ = "none" THEN "unverified" ELSE @]
  /\ resume(c, [auth[c] EXCEPT !.isNew = users[auth[c].who] = "none",
                  !.pc = IF users[auth[c].who] = "verified" THEN "issue" ELSE "mark"])
  /\ UNCHANGED <<challenges, tokens, trials, won, raced, left>>

\* markPhoneVerified and markEmailVerified
markVerified(c) ==
  /\ auth[c].pc = "mark"
  /\ users' = [users EXCEPT ![auth[c].who] = "verified"]
  /\ resume(c, [auth[c] EXCEPT !.pc = "issue"])
  /\ UNCHANGED <<challenges, tokens, trials, won, raced, left>>

\* issueSession, then maybeStartTrial before the response is sent.  A phone
\* session says the phone is verified, an e-mail one what the user row says of
\* a phone it does not have.
issueSession(c) ==
  /\ auth[c].pc = "issue"
  /\ tokens' = tokens \union {[user |-> auth[c].who, pv |-> auth[c].who \in Phones]}
  /\ trials' = [trials EXCEPT ![auth[c].who] = @ + IF auth[c].isNew THEN 1 ELSE 0]
  /\ won' = [won EXCEPT ![auth[c].challenge] = @ + 1]
  /\ resume(c, NoCall)
  /\ UNCHANGED <<challenges, users, raced, left>>

\* verifyAccessToken: who may call the rest of the API.
SignedIn == {t.user : t \in tokens}

SignInNext ==
  \E c \in AuthCalls :
    \/ \E who \in Users : startOtp(c, who)
    \/ InsertChallenge(c)
    \/ \E h \in Challenges, right \in BOOLEAN : verifyOtp(c, h, right)
    \/ Miss(c) \/ Consume(c) \/ findOrCreate(c) \/ markVerified(c) \/ issueSession(c)

-----------------------------------------------------------------------------
SignInTypeOK ==
  /\ challenges \in [Challenges ->
       [who : Users \union {Null}, attempts : Nat, consumed : BOOLEAN,
        age : {"none", "fresh", "cool", "expired"}]]
  /\ users \in [Users -> {"none", "unverified", "verified"}]
  /\ tokens \subseteq [user : Users, pv : BOOLEAN]
  /\ auth \in [AuthCalls ->
       [pc : {"idle", "insert", "miss", "consume", "user", "mark", "issue"},
        who : Users \union {Null}, challenge : Challenges \union {Null}, isNew : BOOLEAN]]
  /\ trials \in [Users -> Nat] /\ won \in [Challenges -> Nat] /\ raced \subseteq Challenges

\* A code cannot be guessed at for ever, nor used again: the attempts on a
\* challenge exceed the limit by at most the calls that were already past the
\* check, and a challenge yields one session, or one for each of the calls that
\* verified it at the same time.
CodesAreSpent ==
  \A h \in Challenges :
    /\ challenges[h].attempts <= OTP_MAX_ATTEMPTS + Cardinality(AuthCalls) - 1
    /\ won[h] <= IF h \in raced THEN Cardinality(AuthCalls) ELSE 1

\* A user has one trial.  It is started by the call that created the user: as
\* long as it is missing, that call is still on its way, and if the call dies
\* no later sign-in makes up for it.
OneTrialPerUser ==
  \A u \in Users :
    LET creators == {c \in AuthCalls : auth[c].who = u /\ auth[c].isNew}
    IN trials[u] + Cardinality(creators) = IF users[u] = "none" THEN 0 ELSE 1

=============================================================================
