----------------------------- MODULE EventBooks -----------------------------
(***************************************************************************)
(* The rows of one event that its people, pledges, payments, budget lines, *)
(* earmarks and groups are, and what each service transaction makes of     *)
(* them.  PledgeLedger opens the pledge and payment transactions up into   *)
(* their statements; here each one is its effect on the books.             *)
(*                                                                         *)
(* A table is a sequence and a row's id its place in it.  A removed row    *)
(* stays, marked gone: no id is used twice.                                *)
(***************************************************************************)
EXTENDS Naturals, Sequences, FiniteSetsExt

EmptyBooks ==
  [people |-> <<>>, pledges |-> <<>>, payments |-> <<>>, items |-> <<>>,
   allocations |-> <<>>, groups |-> <<>>]

\* The books that people and budget lines of these names can fill.
BooksWith(names) ==
  [people : Seq([name : names, phone : Nat, user : Nat, gone : BOOLEAN]),
   pledges : Seq([person : Nat, committed : Nat, cancelled : BOOLEAN]),
   payments : Seq([pledge : Nat, value : Nat]),
   items : Seq([name : names, target : Nat, version : Nat, public : BOOLEAN, gone : BOOLEAN]),
   allocations : Seq([payment : Nat, item : Nat, value : Nat]),
   groups : Seq(SUBSET Nat)]

Person(b, p) == p \in DOMAIN b.people /\ ~b.people[p].gone
Item(b, i) == i \in DOMAIN b.items /\ ~b.items[i].gone
LivePledge(b, l) == l \in DOMAIN b.pledges /\ ~b.pledges[l].cancelled

Persons(b) == {p \in DOMAIN b.people : Person(b, p)}
PledgesOf(b, p) == {l \in DOMAIN b.pledges : b.pledges[l].person = p}
LivePledgesOf(b, p) == {l \in PledgesOf(b, p) : LivePledge(b, l)}
PaymentsOn(b, l) == {f \in DOMAIN b.payments : b.payments[f].pledge = l}

\* What the foreign keys of the schema keep, on rows that are not gone: a row
\* refers to rows that are there.  A removed person holds no account.
KeysHold(b) ==
  /\ \A l \in DOMAIN b.pledges : Person(b, b.pledges[l].person)
  /\ \A f \in DOMAIN b.payments : b.payments[f].pledge \in DOMAIN b.pledges
  /\ \A a \in DOMAIN b.allocations : /\ b.allocations[a].payment \in DOMAIN b.payments
                                     /\ Item(b, b.allocations[a].item)
  /\ \A g \in DOMAIN b.groups : b.groups[g] \subseteq Persons(b)
  /\ \A p \in DOMAIN b.people : b.people[p].gone => b.people[p].user = 0

Paid(b, fs) == MapThenSumSet(LAMBDA f : b.payments[f].value, fs)
Earmarked(b, as) == MapThenSumSet(LAMBDA a : b.allocations[a].value, as)

-----------------------------------------------------------------------------
(* People.                                                                 *)

\* createPerson, its insert.
createPerson(b, name, phone) ==
  [b EXCEPT !.people = Append(@, [name |-> name, phone |-> phone, user |-> 0, gone |-> FALSE])]

\* updateContact
updateContact(b, p, phone) == [b EXCEPT !.people[p].phone = phone]

\* assertPhoneNotAttachedElsewhere; 0 is no phone and no exclusion.
PhoneIsFree(b, phone, except) ==
  phone = 0 \/ \A q \in Persons(b) \ {except} : b.people[q].phone # phone

\* linkPersonToUser: refused for a person linked to another account, and by
\* the unique key (event, user) for an account linked to another person.
LinkAllowed(b, p, user) ==
  /\ Person(b, p) /\ b.people[p].user \in {0, user}
  /\ \A q \in Persons(b) \ {p} : b.people[q].user # user
linkPersonToUser(b, p, user) == [b EXCEPT !.people[p].user = user]

\* mergePeople: the pledges follow the target, which inherits the account;
\* the source's row goes, and its group memberships with it.
MergeAllowed(b, source, target) ==
  /\ source # target /\ Person(b, source) /\ Person(b, target)
  /\ \/ 0 \in {b.people[source].user, b.people[target].user}
     \/ b.people[source].user = b.people[target].user
mergePeople(b, source, target) ==
  [b EXCEPT
     !.people[source].gone = TRUE,
     !.people[source].user = 0,
     !.people[target].user = IF @ = 0 THEN b.people[source].user ELSE @,
     !.pledges = [l \in DOMAIN @ |->
        IF @[l].person = source THEN [@[l] EXCEPT !.person = target] ELSE @[l]],
     !.groups = [g \in DOMAIN @ |-> @[g] \ {source}]]

-----------------------------------------------------------------------------
(* Pledges and payments.                                                   *)

\* createPledge
createPledge(b, p, committed) ==
  [b EXCEPT !.pledges = Append(@, [person |-> p, committed |-> committed, cancelled |-> FALSE])]

\* cancelPledge: its payments stay.
cancelPledge(b, l) == [b EXCEPT !.pledges[l].cancelled = TRUE]

\* assertWithinCommitted, of a payment that replaces the payments in but.
WithinCommitted(b, l, value, but) ==
  Paid(b, PaymentsOn(b, l) \ but) + value <= b.pledges[l].committed

\* recordFulfillment
PaymentAllowed(b, l, value) == LivePledge(b, l) /\ WithinCommitted(b, l, value, {})
recordFulfillment(b, l, value) ==
  [b EXCEPT !.payments = Append(@, [pledge |-> l, value |-> value])]

\* recordPledgeWithPayment, and recordDirectContribution with committed = value:
\* a pledge and its first payment in one transaction.
recordPledgeWithPayment(b, p, committed, value) ==
  recordFulfillment(createPledge(b, p, committed), Len(b.pledges) + 1, value)

\* correctCommittedValue: the value is not compared with what was paid, and may
\* be 0.
correctCommittedValue(b, l, value) == [b EXCEPT !.pledges[l].committed = value]

\* correctValue
CorrectionAllowed(b, f, value) ==
  f \in DOMAIN b.payments /\ WithinCommitted(b, b.payments[f].pledge, value, {f})
correctValue(b, f, value) == [b EXCEPT !.payments[f].value = value]

-----------------------------------------------------------------------------
(* Budget lines and earmarks.                                              *)

\* addItem
addItem(b, name, target) ==
  [b EXCEPT !.items = Append(@, [name |-> name, target |-> target, version |-> 1,
                                 public |-> TRUE, gone |-> FALSE])]

\* updateItem, its write: the target asked for or read, the visibility asked for.
updateItem(b, i, target, public) ==
  [b EXCEPT !.items[i].target = target, !.items[i].public = public, !.items[i].version = @ + 1]

EarmarksOf(b, i) == {a \in DOMAIN b.allocations : b.allocations[a].item = i}
EarmarksFrom(b, f) == {a \in DOMAIN b.allocations : b.allocations[a].payment = f}

\* removeItem: refused while money is earmarked for the line.
RemovalAllowed(b, i) == Item(b, i) /\ EarmarksOf(b, i) = {}
removeItem(b, i) == [b EXCEPT !.items[i].gone = TRUE]

\* allocate: both rows must exist; the value is not compared with anything.
AllocationAllowed(b, f, i) == f \in DOMAIN b.payments /\ Item(b, i)
allocate(b, f, i, value) ==
  [b EXCEPT !.allocations = Append(@, [payment |-> f, item |-> i, value |-> value])]

-----------------------------------------------------------------------------
(* Groups.                                                                 *)

\* createGroup
createGroup(b) == [b EXCEPT !.groups = Append(@, {})]

\* assignPerson: the unique key (person, group) aborts the transaction of a
\* second assignment.
AssignmentAllowed(b, p, g) == Person(b, p) /\ g \in DOMAIN b.groups /\ p \notin b.groups[g]
assignPerson(b, p, g) == [b EXCEPT !.groups[g] = @ \union {p}]

=============================================================================
