-------------------------------- MODULE Team --------------------------------
(***************************************************************************)
(* Events and who may work on them: EventService, MembershipService,       *)
(* InvitationService, and the plan's caps on seats and active events.      *)
(*                                                                         *)
(* A call is a process.  It resolves its caller's standing in the event    *)
(* first, from two reads, keeps it as its context and never reads it       *)
(* again; then it takes one step per statement or transaction.  A refused  *)
(* call goes back to idle.                                                 *)
(***************************************************************************)
EXTENDS Workload, PlanCatalog, Permissions, FiniteSets

CONSTANTS
  People,        \* users, by id
  Events,        \* event ids
  Invitations,   \* invitation ids
  TeamCalls,     \* calls that can run at the same time
  EventPlan,     \* plan the events of this instance enjoy
  Subscription,  \* subscription of their owners, or Nothing
  Uses,          \* values of maxUses
  Nothing

ASSUME TeamAssumption ==
  /\ EventPlan \in PlanCodes /\ Uses \subseteq Nat \ {0}
  /\ Subscription \in {"ORGANIZER_PRO", "BUSINESS", Nothing}
  /\ Nothing \notin People \union Events \union Invitations
  /\ Nothing \notin {"createEvent", "createInvitation", "acceptInvitation", "revokeInvitation"}
  /\ IsFiniteSet(People) /\ IsFiniteSet(Events) /\ IsFiniteSet(Invitations)

VARIABLES
  events,       \* event rows
  members,      \* ACTIVE event_member rows: role, or Nothing
  invitations,  \* invitation rows
  team,         \* where each call is, its context and what it has read
  admitted,     \* history: members an invitation admitted
  revoked,      \* history: invitations that were revoked
  excuses       \* history: rows two calls used at once, and gates not asked

teamVars == <<events, members, invitations, team, admitted, revoked, excuses>>

NoEvent == [owner |-> Nothing, status |-> "none"]

NoInvitation ==
  [event |-> Nothing, role |-> Nothing, status |-> "none", maxUses |-> 0, uses |-> 0, live |-> FALSE]

Idle ==
  [op |-> Nothing, pc |-> "idle", who |-> Nothing, event |-> Nothing, arg |-> Nothing,
   status |-> Nothing, seats |-> 0, inv |-> NoInvitation]

\* owned gives the events that exist already their owner.
TeamInit(owned) ==
  /\ events = [e \in Events |-> IF e \in DOMAIN owned THEN [owner |-> owned[e], status |-> "ACTIVE"]
                                ELSE NoEvent]
  /\ members = [e \in Events |-> [u \in People |->
       IF e \in DOMAIN owned /\ owned[e] = u THEN "OWNER" ELSE Nothing]]
  /\ invitations = [i \in Invitations |-> NoInvitation]
  /\ team = [c \in TeamCalls |-> Idle]
  /\ admitted = [i \in Invitations |-> 0]
  /\ revoked = {}
  /\ excuses = {}

advance(c, pc) == team' = [team EXCEPT ![c].pc = pc]
finish(c) == team' = [team EXCEPT ![c] = Idle]

-----------------------------------------------------------------------------
(* Calls and their context.                                                *)

\* What a call counts or overwrites.
Touches(call) ==
  CASE call.op = "createEvent"      -> {call.who}
    [] call.op = "createInvitation" -> {"seats"}
    [] call.op = "acceptInvitation" -> {"seats", call.arg}
    [] call.op = "revokeInvitation" -> {call.arg}
    [] OTHER                        -> {}

begin(c, call) ==
  /\ take(call.op)
  /\ team[c].pc = "idle"
  /\ team' = [team EXCEPT ![c] = call]
  /\ excuses' = excuses \union
       UNION {Touches(call) \intersect Touches(team[d]) : d \in TeamCalls \ {c}}
  /\ UNCHANGED <<events, members, invitations, admitted, revoked>>

\* The controllers' routes: who calls what, on which event, with what.
Request(c, who) ==
  \/ begin(c, [Idle EXCEPT !.op = "createEvent", !.pc = "count", !.who = who])
  \/ \E i \in Invitations : invitations[i].status # "none" /\
       begin(c, [Idle EXCEPT !.op = "acceptInvitation", !.pc = "token", !.who = who, !.arg = i,
                             !.event = invitations[i].event])
  \/ \E e \in {f \in Events : events[f].status # "none"} :
       LET asks(op, arg) ==
             begin(c, [Idle EXCEPT !.op = op, !.pc = "status", !.who = who, !.event = e, !.arg = arg])
       IN \/ \E s \in {"ACTIVE", "PAUSED", "CLOSED"} : asks("setStatus", s)
          \/ \E n \in Uses : asks("createInvitation", n)
          \/ \E i \in Invitations : invitations[i].event = e /\ asks("revokeInvitation", i)
          \/ \E u \in People, r \in {"COORDINATOR"} : asks("addMember", <<u, r>>)

\* What each operation asserts of the role, and whether it needs the event to
\* be writable.
Needs ==
  [setStatus        |-> [action |-> "event:update",  writable |-> FALSE],
   createInvitation |-> [action |-> "member:manage", writable |-> TRUE],
   revokeInvitation |-> [action |-> "member:manage", writable |-> FALSE],
   addMember        |-> [action |-> "member:manage", writable |-> TRUE]]

\* resolveContext, the event's status.
ReadStatus(c) ==
  /\ team[c].pc = "status"
  /\ team' = [team EXCEPT ![c].pc = "role", ![c].status = events[team[c].event].status]
  /\ UNCHANGED <<events, members, invitations, admitted, revoked, excuses, left>>

\* resolveContext, the member's role, and the asserts made on the two.
ReadRole(c) ==
  LET need == Needs[team[c].op] IN
  /\ team[c].pc = "role"
  /\ IF /\ can(members[team[c].event][team[c].who], need.action)
        /\ need.writable => Writable(team[c].status)
     THEN advance(c, "act") ELSE finish(c)
  /\ UNCHANGED <<events, members, invitations, admitted, revoked, excuses, left>>

-----------------------------------------------------------------------------
(* Events.                                                                 *)

\* maxActiveEvents
maxActiveEvents ==
  IF Subscription = Nothing THEN 1 ELSE IF Subscription = "BUSINESS" THEN Unlimited ELSE 5

\* Variant: a paused event does not count.
ActiveEventsButPaused(who) ==
  {e \in Events : events[e].owner = who /\ events[e].status \in {"DRAFT", "ACTIVE"}}

\* The events assertCanCreateEvent counts.
ActiveEvents(who) ==
  {e \in Events : events[e].owner = who /\ events[e].status \in {"DRAFT", "ACTIVE", "PAUSED"}}

\* assertCanCreateEvent
assertCanCreateEvent(c) ==
  /\ team[c].pc = "count"
  /\ IF withinLimit(maxActiveEvents, Cardinality(ActiveEvents(team[c].who)), 1)
     THEN advance(c, "insertEvent") ELSE finish(c)
  /\ UNCHANGED <<events, members, invitations, admitted, revoked, excuses, left>>

\* createEvent: the event (ACTIVE by the schema's default) and its owner's
\* membership, in one transaction.
createEvent(c) ==
  /\ team[c].pc = "insertEvent"
  /\ \E e \in Events :
       /\ events[e] = NoEvent
       /\ events' = [events EXCEPT ![e] = [owner |-> team[c].who, status |-> "ACTIVE"]]
       /\ members' = [members EXCEPT ![e][team[c].who] = "OWNER"]
  /\ finish(c)
  /\ UNCHANGED <<invitations, admitted, revoked, excuses, left>>

\* setStatus.  No cap is asked when an event is opened again.
setStatus(c) ==
  LET e == team[c].event IN
  /\ team[c].pc = "act" /\ team[c].op = "setStatus"
  /\ events' = [events EXCEPT ![e].status = team[c].arg]
  /\ excuses' = excuses \union
       (IF ~Writable(events[e].status) /\ Writable(team[c].arg) THEN {"reopened"} ELSE {})
  /\ finish(c)
  /\ UNCHANGED <<members, invitations, admitted, revoked, left>>

-----------------------------------------------------------------------------
(* Members.                                                                *)

\* addMember and updateRole: one upsert, without the seat gate.
addMember(c) ==
  LET e == team[c].event  target == team[c].arg[1] IN
  /\ team[c].pc = "act" /\ team[c].op = "addMember"
  /\ members' = [members EXCEPT ![e][target] = team[c].arg[2]]
  /\ excuses' = excuses \union (IF members[e][target] = Nothing THEN {"added"} ELSE {})
  /\ finish(c)
  /\ UNCHANGED <<events, invitations, admitted, revoked, left>>

Members(e) == {u \in People : members[e][u] # Nothing}

Pending(e) ==
  {i \in Invitations : invitations[i].event = e /\ invitations[i].status = "PENDING" /\ invitations[i].live}

\* createInvitation, the seat gate: countSeats counts the members first ...
CountMembers(c) ==
  /\ team[c].pc = "act" /\ team[c].op = "createInvitation"
  /\ team' = [team EXCEPT ![c].pc = "seats", ![c].seats = Cardinality(Members(team[c].event))]
  /\ UNCHANGED <<events, members, invitations, admitted, revoked, excuses, left>>

\* ... and then the invitations that are pending.
CountPending(c) ==
  /\ team[c].pc = "seats"
  /\ IF withinLimit(PLAN_CATALOG[EventPlan].maxSeats,
                    team[c].seats + Cardinality(Pending(team[c].event)), 1)
     THEN advance(c, "invite") ELSE finish(c)
  /\ UNCHANGED <<events, members, invitations, admitted, revoked, excuses, left>>

\* createInvitation, the insert.
createInvitation(c) ==
  /\ team[c].pc = "invite"
  /\ \E i \in Invitations :
       /\ invitations[i] = NoInvitation
       /\ invitations' = [invitations EXCEPT ![i] =
            [event |-> team[c].event, role |-> "VIEWER", status |-> "PENDING",
             maxUses |-> team[c].arg, uses |-> 0, live |-> TRUE]]
  /\ finish(c)
  /\ UNCHANGED <<events, members, admitted, revoked, excuses, left>>

\* The time to live of an invitation passes.
ExpireInvitation(i) ==
  /\ invitations[i].live
  /\ invitations' = [invitations EXCEPT ![i].live = FALSE]
  /\ UNCHANGED <<events, members, team, admitted, revoked, excuses, left>>

\* acceptInvitation, the invitation is read.  It need not be pending: one that
\* was ACCEPTED still answers a member who accepts again.
ReadToken(c) ==
  LET inv == invitations[team[c].arg] IN
  /\ team[c].pc = "token"
  /\ IF inv.status \in {"REVOKED", "EXPIRED"} THEN finish(c)
     ELSE team' = [team EXCEPT ![c].pc = IF inv.live THEN "standing" ELSE "expire", ![c].inv = inv]
  /\ UNCHANGED <<events, members, invitations, admitted, revoked, excuses, left>>

\* acceptInvitation, an invitation found out of time is marked.
MarkExpired(c) ==
  /\ team[c].pc = "expire"
  /\ invitations' = [invitations EXCEPT ![team[c].arg].status = "EXPIRED"]
  /\ finish(c)
  /\ UNCHANGED <<events, members, admitted, revoked, excuses, left>>

\* acceptInvitation, the lookup of the caller's own membership.
ReadStanding(c) ==
  /\ team[c].pc = "standing"
  /\ IF members[team[c].event][team[c].who] # Nothing \/ team[c].inv.uses >= team[c].inv.maxUses
     THEN finish(c) ELSE advance(c, "admit")
  /\ UNCHANGED <<events, members, invitations, admitted, revoked, excuses, left>>

\* Variant: the use is not written back.
AdmitWithoutUse(c) ==
  /\ team[c].pc = "admit"
  /\ members' = [members EXCEPT ![team[c].event][team[c].who] = team[c].inv.role]
  /\ admitted' = [admitted EXCEPT ![team[c].arg] = @ + 1]
  /\ finish(c)
  /\ UNCHANGED <<events, invitations, revoked, excuses, left>>

\* acceptInvitation, the writes: uses and status come from the row as it was
\* read before the transaction.
Admit(c) ==
  LET uses == team[c].inv.uses + 1 IN
  /\ team[c].pc = "admit"
  /\ members' = [members EXCEPT ![team[c].event][team[c].who] = team[c].inv.role]
  /\ invitations' = [invitations EXCEPT
       ![team[c].arg].uses = uses,
       ![team[c].arg].status = IF uses >= team[c].inv.maxUses THEN "ACCEPTED" ELSE "PENDING"]
  /\ admitted' = [admitted EXCEPT ![team[c].arg] = @ + 1]
  /\ finish(c)
  /\ UNCHANGED <<events, revoked, excuses, left>>

\* revokeInvitation: whatever the status was.
revokeInvitation(c) ==
  /\ team[c].pc = "act" /\ team[c].op = "revokeInvitation"
  /\ invitations' = [invitations EXCEPT ![team[c].arg].status = "REVOKED"]
  /\ revoked' = revoked \union {team[c].arg}
  /\ finish(c)
  /\ UNCHANGED <<events, members, admitted, excuses, left>>

\* callers are the users whose token the guard accepts.
TeamNext(callers) ==
  \E c \in TeamCalls :
    \/ \E who \in callers : Request(c, who)
    \/ ReadStatus(c) \/ ReadRole(c)
    \/ assertCanCreateEvent(c) \/ createEvent(c) \/ setStatus(c) \/ addMember(c)
    \/ CountMembers(c) \/ CountPending(c) \/ createInvitation(c) \/ revokeInvitation(c)
    \/ ReadToken(c) \/ MarkExpired(c) \/ ReadStanding(c) \/ Admit(c)

-----------------------------------------------------------------------------
TeamTypeOK ==
  /\ events \in [Events -> [owner : People \union {Nothing},
                            status : {"none", "ACTIVE", "PAUSED", "CLOSED"}]]
  /\ members \in [Events -> [People -> Roles \union {Nothing}]]
  /\ invitations \in [Invitations ->
       [event : Events \union {Nothing}, role : Roles \union {Nothing},
        status : {"none", "PENDING", "ACCEPTED", "EXPIRED", "REVOKED"},
        maxUses : Nat, uses : Nat, live : BOOLEAN]]
  /\ \A c \in TeamCalls : team[c].inv \in {NoInvitation} \union [event : Events, role : Roles,
        status : {"PENDING", "ACCEPTED"}, maxUses : Nat, uses : Nat, live : BOOLEAN]
  /\ admitted \in [Invitations -> Nat] /\ revoked \subseteq Invitations

\* A link admits as many as it says, and none once it was revoked: this holds
\* of every invitation that no two calls (two acceptances, or an acceptance and
\* a revocation) were working on at the same time.
InvitationsKeepTheirWord ==
  \A i \in Invitations \ excuses :
    /\ admitted[i] <= invitations[i].maxUses
    /\ admitted[i] = invitations[i].uses
    /\ i \in revoked => invitations[i].status = "REVOKED"

\* The caps of the plan.  Members and pending invitations of an event stay
\* within its seats, unless calls that count seats overlapped, a member was
\* added directly, or a link admits several; an owner's active events stay
\* within the ceiling, unless creations overlapped or one was reopened.
CapsHold ==
  /\ \A e \in Events :
       LET limit == PLAN_CATALOG[EventPlan].maxSeats
           gated == /\ {"seats", "added"} \intersect excuses = {}
                    /\ \A i \in Invitations : invitations[i].maxUses <= 1
       IN limit # Unlimited /\ gated => Cardinality(Members(e)) + Cardinality(Pending(e)) <= limit
  /\ \A u \in People :
       maxActiveEvents # Unlimited /\ {u, "reopened"} \intersect excuses = {} =>
         Cardinality({e \in Events : events[e].owner = u /\ Writable(events[e].status)}) <= maxActiveEvents

=============================================================================
