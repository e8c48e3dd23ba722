------------------------------ MODULE Proposals -----------------------------
(***************************************************************************)
(* What the AI layer writes: an utterance or a tool call is resolved       *)
(* against the books (EntityResolver), becomes a fully resolved action     *)
(* (CaptureService, AiMutationService), and is either run at once or       *)
(* staged as a proposal (ConfirmationService) that a human edits,          *)
(* confirms or rejects.  ToolExecutor runs an action through the domain    *)
(* services, one transaction after another.                                *)
(*                                                                         *)
(* A call is a process with one step per transaction.  A confirmation      *)
(* reads the proposal and writes its status in one transaction, but READ   *)
(* COMMITTED lets two of them read before either writes; what it runs is   *)
(* the payload it read.                                                    *)
(***************************************************************************)
EXTENDS EventBooks, Workload, Permissions, AgentTools

CONSTANTS
  Callers,   \* calls that can be in flight at the same time
  Names,     \* names of people and of budget lines
  Within,    \* pairs <<n, m>>: the text n occurs in the name m
  Amounts,   \* money values
  Standing   \* roles the callers have

ASSUME ProposalsAssumption ==
  /\ Amounts \subseteq Nat /\ Standing \subseteq Roles
  /\ Within \subseteq Names \X Names /\ \A n \in Names : <<n, n>> \in Within

VARIABLES
  books,      \* the event's rows
  proposals,  \* pending_confirmation rows
  calls,      \* where each call is, and what it has read
  done,       \* history: actions that took effect, in order
  contested,  \* history: proposals two calls resolved or edited at once
  doubtful    \* history: names two people had to begin with, two executions looked
              \* up at once, or an edit swapped for another, and those these could mean

proposalVars == <<books, proposals, calls, done, contested, doubtful>>

NoName == "nobody"

NoAction ==
  [tool |-> "none", name |-> NoName, person |-> 0, other |-> 0, amount |-> 0, received |-> 0,
   pledge |-> 0, payment |-> 0, item |-> 0]

\* sure: a human typed it and the parse was confident.
NoCall ==
  [pc |-> "idle", role |-> "none", action |-> NoAction, payload |-> NoAction, sure |-> FALSE,
   proposal |-> 0]

ProposalsInit ==
  /\ proposals = <<>>
  /\ calls = [c \in Callers |-> NoCall]
  /\ done = <<>> /\ contested = {}
  /\ doubtful = {n \in Names : \E p, q \in Persons(books) :
                    p # q /\ books.people[p].name = n /\ books.people[q].name = n}

at(c, pc) == calls[c].pc = pc
goto(c, pc) == calls' = [calls EXCEPT ![c].pc = pc]
hangUp(c) == calls' = [calls EXCEPT ![c] = NoCall]

-----------------------------------------------------------------------------
(* EntityResolver.                                                         *)

\* resolvePerson: one name that contains the text, or several of which one is
\* the text itself; 0 when there is none or it stays ambiguous.
Matching(name) == {p \in Persons(books) : <<name, books.people[p].name>> \in Within}
Exactly(name) == {p \in Persons(books) : books.people[p].name = name}
TheOnly(S) == IF \E x \in S : S = {x} THEN CHOOSE x \in S : TRUE ELSE 0
resolvePerson(name) ==
  IF TheOnly(Matching(name)) # 0 THEN TheOnly(Matching(name)) ELSE TheOnly(Exactly(name))
Ambiguous(name) == Matching(name) # {} /\ resolvePerson(name) = 0

\* resolvePledgeForPerson: the single pledge that is not cancelled.
resolvePledgeForPerson(p) == TheOnly(LivePledgesOf(books, p))

PaymentsOf(p) == UNION {PaymentsOn(books, l) : l \in LivePledgesOf(books, p)}

\* resolveUnallocatedFulfillmentForPerson: the latest payment with money left.
Unallocated(f) ==
  LET used == Earmarked(books, EarmarksFrom(books, f)) IN
  IF used < books.payments[f].value THEN books.payments[f].value - used ELSE 0
resolveUnallocated(p) ==
  LET open == {f \in PaymentsOf(p) : Unallocated(f) > 0} IN IF open = {} THEN 0 ELSE Max(open)

\* resolveBudgetItem
resolveBudgetItem(name) ==
  TheOnly({i \in DOMAIN books.items : Item(books, i) /\ books.items[i].name = name})

-----------------------------------------------------------------------------
(* ConfirmationService.create and who may propose what.                    *)

\* writeAction, and the permission each staging method of AiMutationService asserts.
writeAction ==
  [add_person |-> "person:write", record_pledge |-> "pledge:write",
   record_payment |-> "fulfillment:write", create_budget_item |-> "budget:write",
   update_budget_item |-> "budget:write", remove_budget_item |-> "budget:write",
   allocate_to_budget |-> "budget:write", correct_pledge |-> "fulfillment:correct",
   correct_payment |-> "fulfillment:correct", merge_people |-> "person:merge",
   send_sms_reminders |-> "sms:read", invite_member |-> "member:manage"]

\* create.  origin is the document it was read from, 0 when it was said.
Proposal(action, origin) == [status |-> "PENDING", action |-> action, origin |-> origin]
create(action, origin) == proposals' = Append(proposals, Proposal(action, origin))

-----------------------------------------------------------------------------
(* CaptureService.                                                         *)

\* capture and routeToolCall up to the permission check of route.  An agent's
\* call is never sure.
capture(c) ==
  \E tool \in CaptureTools, name \in Names, amount \in Amounts, received \in {0} \union Amounts,
     role \in Standing, sure \in BOOLEAN :
    /\ at(c, "idle") /\ take(tool)
    /\ received > 0 => tool = "record_pledge" /\ received <= amount
    /\ can(role, writeAction[tool])
    /\ calls' = [calls EXCEPT ![c] =
         [NoCall EXCEPT !.pc = "resolve", !.role = role, !.sure = sure,
            !.action = [NoAction EXCEPT !.tool = tool, !.name = name, !.amount = amount,
                                        !.received = received]]]
    /\ UNCHANGED <<books, proposals, done, contested, doubtful>>

\* resolveWrite, from the person p it found (0: nobody) and that person's
\* pledge l (0: no pledge), both as they were read.
resolveWrite(said, p, l) ==
  CASE said.tool = "add_person" -> said
    [] said.tool = "record_pledge" /\ said.received > 0 ->
         [said EXCEPT !.tool = "record_pledge_with_payment", !.person = p]
    [] said.tool = "record_pledge" -> [said EXCEPT !.person = p]
    [] said.tool = "record_payment" /\ l = 0 ->
         [said EXCEPT !.tool = "record_direct_contribution", !.person = p]
    [] OTHER -> [said EXCEPT !.pledge = l]

\* Several names, or several pledges, match: the caller is asked.
NeedsClarification(said) ==
  /\ said.tool # "add_person"
  /\ \/ Ambiguous(said.name)
     \/ /\ said.tool = "record_payment" /\ resolvePerson(said.name) # 0
        /\ Cardinality(LivePledgesOf(books, resolvePerson(said.name))) > 1

Resolved(said) ==
  resolveWrite(said, resolvePerson(said.name), resolvePledgeForPerson(resolvePerson(said.name)))

Resolve(c) ==
  /\ at(c, "resolve")
  /\ IF NeedsClarification(calls[c].action) THEN hangUp(c)
     ELSE LET action == Resolved(calls[c].action) IN
          calls' = [calls EXCEPT ![c].pc = "decide", ![c].action = action, ![c].payload = action]
  /\ UNCHANGED <<books, proposals, done, contested, doubtful, left>>

\* route: run now when staging is not forced and the confidence reaches the
\* threshold, stage otherwise.
Decide(c) ==
  /\ at(c, "decide")
  /\ IF calls[c].sure THEN goto(c, "run") /\ UNCHANGED proposals
     ELSE create(calls[c].action, 0) /\ hangUp(c)
  /\ UNCHANGED <<books, done, contested, doubtful, left>>

-----------------------------------------------------------------------------
(* AiMutationService: what it resolves and stages.                         *)

\* The actions a tool can be about, as the books stand.
Stageable(tool) ==
  {a \in [tool : {tool}, name : Names, person : {0}, other : {0}, amount : Amounts,
          received : {0}, pledge : {0}, payment : {0}, item : {0}] :
     /\ tool \in {"remove_budget_item", "merge_people", "send_sms_reminders", "invite_member"}
          => a.amount = Min(Amounts)
     /\ tool \in {"send_sms_reminders", "invite_member"} => a.name = CHOOSE n \in Names : TRUE}

\* What stage stores for it: the ids its name stands for.
Prepared(a, otherName) ==
  LET p == resolvePerson(a.name)
      i == resolveBudgetItem(a.name)
  IN CASE a.tool \in {"update_budget_item", "remove_budget_item"} -> [a EXCEPT !.item = i]
       [] a.tool = "allocate_to_budget" ->
            [a EXCEPT !.payment = resolveUnallocated(p), !.item = resolveBudgetItem(otherName)]
       [] a.tool = "correct_pledge" -> [a EXCEPT !.pledge = resolvePledgeForPerson(p)]
       [] a.tool = "correct_payment" ->
            [a EXCEPT !.payment = IF PaymentsOf(p) = {} THEN 0 ELSE Max(PaymentsOf(p))]
       [] a.tool = "merge_people" -> [a EXCEPT !.person = p, !.other = resolvePerson(otherName)]
       [] OTHER -> a

\* The clarifications: what must have been found.
Found(a) ==
  CASE a.tool \in {"update_budget_item", "remove_budget_item"} -> a.item # 0
    [] a.tool = "allocate_to_budget" ->
         a.item # 0 /\ a.payment # 0 /\ a.amount <= Unallocated(a.payment)
    [] a.tool = "correct_pledge" -> a.pledge # 0
    [] a.tool = "correct_payment" -> a.payment # 0
    [] a.tool = "merge_people" -> 0 \notin {a.person, a.other} /\ a.person # a.other
    [] OTHER -> TRUE

stage(c) ==
  \E tool \in DOMAIN writeAction \ CaptureTools, otherName \in Names, role \in Standing :
    /\ at(c, "idle") /\ take(tool)
    /\ can(role, writeAction[tool])
    /\ \E a \in Stageable(tool) :
         LET action == Prepared(a, otherName) IN Found(action) /\ create(action, 0)
    /\ UNCHANGED <<books, calls, done, contested, doubtful>>

-----------------------------------------------------------------------------
(* ConfirmationService: edit, confirm, reject.  None of them asserts a     *)
(* permission; the services an action runs through do.                     *)

EDITABLE_INTENTS ==
  {"record_pledge", "record_pledge_with_payment", "record_direct_contribution", "record_payment"}

\* update, confirm and reject: the row is read, and must still be PENDING.
Review(c, op) ==
  \E p \in DOMAIN proposals, role \in Standing :
    /\ at(c, "idle") /\ take(op)
    /\ proposals[p].status = "PENDING"
    /\ op = "update" => proposals[p].action.tool \in EDITABLE_INTENTS
    /\ calls' = [calls EXCEPT ![c] =
         [NoCall EXCEPT !.pc = op, !.role = role, !.proposal = p,
                        !.action = proposals[p].action, !.payload = proposals[p].action]]
    /\ contested' = contested \union
         {q \in {p} : \E d \in Callers \ {c} : calls[d].proposal = p /\ calls[d].pc # "idle"}
    /\ UNCHANGED <<books, proposals, done, doubtful>>

\* update: the edited fields of the action that was read; the ids stay.
update(c) ==
  \E name \in Names, amount \in Amounts :
    /\ at(c, "update")
    /\ proposals' = [proposals EXCEPT ![calls[c].proposal].action =
         [calls[c].action EXCEPT !.name = name, !.amount = amount]]
    /\ doubtful' = doubtful \union
         {n \in Names : name # calls[c].action.name /\
                        \E m \in {name, calls[c].action.name} : <<m, n>> \in Within}
    /\ hangUp(c)
    /\ UNCHANGED <<books, done, contested, left>>

\* Variant: the proposal is resolved only once its action has run.
confirmLater(c) ==
  /\ at(c, "confirm") /\ goto(c, "run")
  /\ UNCHANGED <<books, proposals, done, contested, doubtful, left>>

\* confirm: the proposal is resolved, then its action runs.
confirm(c) ==
  /\ at(c, "confirm")
  /\ proposals' = [proposals EXCEPT ![calls[c].proposal].status = "CONFIRMED"]
  /\ goto(c, "run")
  /\ UNCHANGED <<books, done, contested, doubtful, left>>

\* reject
reject(c) ==
  /\ at(c, "reject")
  /\ proposals' = [proposals EXCEPT ![calls[c].proposal].status = "REJECTED"]
  /\ hangUp(c)
  /\ UNCHANGED <<books, done, contested, doubtful, left>>

-----------------------------------------------------------------------------
(* ToolExecutor.run.                                                       *)

Newcomer(action) ==
  /\ action.person = 0
  /\ action.tool \in {"record_pledge", "record_pledge_with_payment", "record_direct_contribution"}

Executing(d) == calls[d].pc \in {"lookup", "person", "attach", "write"}

\* Where an action starts: with its person, unless that is known.
run(c) ==
  LET action == calls[c].action IN
  /\ at(c, "run")
  /\ goto(c, IF action.tool = "add_person" THEN "person"
             ELSE IF Newcomer(action) THEN "lookup" ELSE "write")
  /\ doubtful' = doubtful \union
       {n \in {action.name} : Newcomer(action) /\ \E d \in Callers \ {c} :
                                Executing(d) /\ calls[d].action.name = n}
  /\ UNCHANGED <<books, proposals, done, contested, left>>

\* What follows once an action has its person.
Onwards(action) == IF action.tool = "record_direct_contribution" THEN "attach" ELSE "write"

\* Variant: whoever had no id when the action was staged is created.
lookupNothing(c) ==
  /\ at(c, "lookup") /\ goto(c, "person")
  /\ UNCHANGED <<books, proposals, done, contested, doubtful, left>>

\* resolveOrCreatePerson: the name is looked up again; only one match counts.
lookup(c) ==
  LET p == resolvePerson(calls[c].action.name) IN
  /\ at(c, "lookup")
  /\ calls' = [calls EXCEPT ![c].pc = IF p = 0 THEN "person" ELSE Onwards(calls[c].action),
                            ![c].action.person = p]
  /\ UNCHANGED <<books, proposals, done, contested, doubtful, left>>

\* An action took effect: a proposal's, or one that ran at once.
record(c) ==
  done' = Append(done, [proposal |-> calls[c].proposal, action |-> calls[c].payload,
                        sure |-> calls[c].sure])

\* createPerson, for add_person and for a newcomer.
addPerson(c) ==
  LET action == calls[c].action IN
  /\ at(c, "person")
  /\ can(calls[c].role, "person:write")
  /\ books' = createPerson(books, action.name, 0)
  /\ IF action.tool = "add_person" THEN hangUp(c) /\ record(c)
     ELSE /\ calls' = [calls EXCEPT ![c].pc = Onwards(action),
                                    ![c].action.person = Len(books.people) + 1]
          /\ UNCHANGED done
  /\ UNCHANGED <<proposals, contested, doubtful, left>>

\* recordDirectContribution of someone who was unknown: if a single pledge of
\* theirs has landed meanwhile, this is a payment of it.
attach(c) ==
  LET l == resolvePledgeForPerson(calls[c].action.person) IN
  /\ at(c, "attach")
  /\ calls' = [calls EXCEPT ![c].pc = "write", ![c].action.pledge = l,
                            ![c].action.tool = IF l = 0 THEN @ ELSE "record_payment"]
  /\ UNCHANGED <<books, proposals, done, contested, doubtful, left>>

\* What each tool's service asserts of the role and of the rows it is about,
\* and what it makes of the books.
Gate(a) ==
  CASE a.tool \in {"record_pledge", "record_pledge_with_payment"} ->
         [action |-> "pledge:write", ok |-> Person(books, a.person)]
    [] a.tool = "record_direct_contribution" ->
         [action |-> "fulfillment:write", ok |-> Person(books, a.person)]
    [] a.tool = "record_payment" ->
         [action |-> "fulfillment:write", ok |-> PaymentAllowed(books, a.pledge, a.amount)]
    [] a.tool = "create_budget_item" -> [action |-> "budget:write", ok |-> TRUE]
    [] a.tool = "update_budget_item" -> [action |-> "budget:write", ok |-> Item(books, a.item)]
    [] a.tool = "remove_budget_item" ->
         [action |-> "budget:write", ok |-> RemovalAllowed(books, a.item)]
    [] a.tool = "allocate_to_budget" ->
         [action |-> "budget:write", ok |-> AllocationAllowed(books, a.payment, a.item)]
    [] a.tool = "correct_pledge" ->
         [action |-> "fulfillment:correct", ok |-> a.pledge \in DOMAIN books.pledges]
    [] a.tool = "correct_payment" ->
         [action |-> "fulfillment:correct", ok |-> CorrectionAllowed(books, a.payment, a.amount)]
    [] a.tool = "merge_people" ->
         [action |-> "person:merge", ok |-> MergeAllowed(books, a.person, a.other)]
    [] a.tool = "send_sms_reminders" -> [action |-> "sms:send", ok |-> TRUE]
    [] a.tool = "invite_member" -> [action |-> "member:manage", ok |-> TRUE]

Written(a) ==
  CASE a.tool = "record_pledge" -> createPledge(books, a.person, a.amount)
    [] a.tool = "record_pledge_with_payment" ->
         recordPledgeWithPayment(books, a.person, a.amount, a.received)
    [] a.tool = "record_direct_contribution" ->
         recordPledgeWithPayment(books, a.person, a.amount, a.amount)
    [] a.tool = "record_payment" -> recordFulfillment(books, a.pledge, a.amount)
    [] a.tool = "create_budget_item" -> addItem(books, a.name, a.amount)
    [] a.tool = "update_budget_item" -> updateItem(books, a.item, a.amount, books.items[a.item].public)
    [] a.tool = "remove_budget_item" -> removeItem(books, a.item)
    [] a.tool = "allocate_to_budget" -> allocate(books, a.payment, a.item, a.amount)
    [] a.tool = "correct_pledge" -> correctCommittedValue(books, a.pledge, a.amount)
    [] a.tool = "correct_payment" -> correctValue(books, a.payment, a.amount)
    [] a.tool = "merge_people" -> mergePeople(books, a.person, a.other)
    [] OTHER -> books

write(c) ==
  LET action == calls[c].action IN
  /\ at(c, "write")
  /\ can(calls[c].role, Gate(action).action) /\ Gate(action).ok
  /\ books' = Written(action)
  /\ record(c) /\ hangUp(c)
  /\ UNCHANGED <<proposals, contested, doubtful, left>>

\* A service refuses, a statement fails or the process dies: what was
\* committed stays, and nothing takes the call up again.
Refused(c) ==
  \/ at(c, "person") /\ ~can(calls[c].role, "person:write")
  \/ at(c, "write") /\ ~(/\ can(calls[c].role, Gate(calls[c].action).action)
                         /\ Gate(calls[c].action).ok)
callFails(c) ==
  /\ \/ Refused(c) /\ UNCHANGED left
     \/ ~at(c, "idle") /\ take("fault")
  /\ hangUp(c)
  /\ UNCHANGED <<books, proposals, done, contested, doubtful>>

ProposalStep(c) ==
  \/ capture(c) \/ Resolve(c) \/ Decide(c) \/ stage(c)
  \/ Review(c, "update") \/ Review(c, "confirm") \/ Review(c, "reject")
  \/ update(c) \/ confirm(c) \/ reject(c)
  \/ run(c) \/ lookup(c) \/ addPerson(c) \/ attach(c) \/ write(c) \/ callFails(c)

-----------------------------------------------------------------------------
(* Properties.                                                             *)

RunsOf(p) == {i \in DOMAIN done : done[i].proposal = p}

\* Only what a human said and the parser was sure of takes effect without a
\* proposal.  Unless two calls resolved or edited it at the same time, a
\* proposal takes effect at most once, only after it was confirmed and never
\* after it was rejected, and what takes effect is what its row still says:
\* the status is written before the action runs, and a resolved proposal can
\* neither be resolved nor edited again.
ProposalsRunAsApproved ==
  /\ \A i \in DOMAIN done : done[i].proposal = 0 => done[i].sure
  /\ \A p \in DOMAIN proposals \ contested :
       /\ Cardinality(RunsOf(p)) <= 1
       /\ \A i \in RunsOf(p) :
            proposals[p].status = "CONFIRMED" /\ done[i].action = proposals[p].action

\* The actions that took effect for a name, or for one that could be meant.
Concerning(n) ==
  {i \in DOMAIN done : \E m \in {done[i].action.name} : <<m, n>> \in Within \/ <<n, m>> \in Within}
Pledging(n) ==
  {i \in Concerning(n) :
     done[i].action.tool \in {"record_pledge", "record_pledge_with_payment"}}

\* Somebody was added by that name without it being looked up.
AddedBlindly(n) ==
  \E i \in DOMAIN done : done[i].action.tool = "add_person" /\ done[i].action.name = n

\* Somebody was merged into a person of that name, pledges and all.
MergedInto(n) ==
  \E i \in DOMAIN done : /\ done[i].action.tool = "merge_people"
                         /\ books.people[done[i].action.other].name = n

\* All that ran for a name ran for a newcomer of exactly that name, and the
\* first of it was the only pledge.
PledgeCameFirst(n) ==
  /\ \A i \in Concerning(n) : done[i].action.name = n /\ done[i].action.person = 0
  /\ \E i \in Pledging(n) : Pledging(n) = {i} /\ \A j \in Concerning(n) : i <= j

\* Actions staged for somebody who was not in the books yet do not fork them
\* into several people, nor split their payment from their pledge, however
\* long they waited and in whatever order they run: one by one, they leave
\* one person of that name, and a payment that runs after the only pledge is
\* a payment of that pledge.  Two people must not have had the name already,
\* nor may two executions have looked it up at once, or an edit have brought
\* it into doubt.  add_person is
\* excepted, since it does not look the name up, and for the pledges so is
\* a merge into that person, and another name that contains this one or is
\* contained in it.  (An action staged for somebody who is in the books
\* without a pledge is not looked up again.)
NewcomersAreNotForked ==
  \A n \in Names \ doubtful :
    ~AddedBlindly(n) =>
      /\ Cardinality(Exactly(n)) <= 1
      /\ PledgeCameFirst(n) /\ ~MergedInto(n) =>
           \A p \in Exactly(n) : Cardinality(PledgesOf(books, p)) <= 1

=============================================================================
