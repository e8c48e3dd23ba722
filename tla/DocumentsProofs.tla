-------------------------- MODULE DocumentsProofs ---------------------------
(***************************************************************************)
(* Proposals run as they were approved and documents are read once, for    *)
(* any number of calls, workers, names and amounts and from any books.     *)
(***************************************************************************)
EXTENDS Documents, SumTheorems, SequenceTheorems

-----------------------------------------------------------------------------
(* Types.                                                                  *)

People == [name : Names, phone : Nat, user : Nat, gone : BOOLEAN]
Pledges == [person : Nat, committed : Nat, cancelled : BOOLEAN]
Payments == [pledge : Nat, value : Nat]
Items == [name : Names, target : Nat, version : Nat, public : BOOLEAN, gone : BOOLEAN]
Allocations == [payment : Nat, item : Nat, value : Nat]
Groups == SUBSET Nat

Books ==
  [people : Seq(People), pledges : Seq(Pledges), payments : Seq(Payments), items : Seq(Items),
   allocations : Seq(Allocations), groups : Seq(Groups)]

\* What an action can be once somebody has said it.
Tools == DOMAIN writeAction \cup {"record_pledge_with_payment", "record_direct_contribution"}
ActionRows ==
  [tool : Tools, name : Names, person : Nat, other : Nat, amount : Nat, received : Nat,
   pledge : Nat, payment : Nat, item : Nat]

ReviewPcs == {"update", "confirm", "reject"}
RunPcs == {"run", "lookup", "person", "attach", "write"}
CallPcs == {"idle", "resolve", "decide"} \cup ReviewPcs \cup RunPcs

CallRows ==
  [pc : CallPcs, role : Standing \cup {"none"}, action : ActionRows \cup {NoAction},
   payload : ActionRows \cup {NoAction}, sure : BOOLEAN, proposal : Nat]

ProposalRows == [status : {"PENDING", "CONFIRMED", "REJECTED"}, action : ActionRows, origin : Nat]
DoneRows == [proposal : Nat, action : ActionRows, sure : BOOLEAN]

DrainPcs == {"idle", "claim", "extract", "budget", "list", "entries", "fail"}
DrainRows == [pc : DrainPcs, doc : Nat, entries : Nat, staged : Nat, clarifications : Nat]
DocumentRows ==
  [kind : {"BUDGET", "CONTRIBUTION_LIST"}, extractions : Nat, read : Nat,
   status : {"UPLOADED", "PROCESSING", "REQUIRES_REVIEW", "FAILED"}]

ProposalTypes ==
  /\ books \in Books
  /\ proposals \in Seq(ProposalRows)
  /\ calls \in [Callers -> CallRows]
  /\ \A c \in Callers : calls[c].pc \notin {"idle"} => calls[c].action \in ActionRows
  /\ \A c \in Callers : calls[c].pc \notin {"idle", "resolve"} => calls[c].payload \in ActionRows
  /\ \A c \in Callers : calls[c].proposal \in 0 .. Len(proposals)
  /\ \A c \in Callers : calls[c].pc \in ReviewPcs => calls[c].proposal # 0
  /\ done \in Seq(DoneRows)

DocumentTypes ==
  /\ documents \in Seq(DocumentRows)
  /\ drains \in [Drains -> DrainRows]
  /\ \A w \in Drains : drains[w].pc # "idle" => drains[w].doc \in 1 .. Len(documents)
  /\ \A w \in Drains : drains[w].pc = "idle" => drains[w].doc = 0

\* Elements of a finite set of numbers have a largest.
LEMMA MaxIsIn ==
  ASSUME NEW S \in SUBSET Nat, IsFiniteSet(S), S # {}
  PROVE  Max(S) \in S
<1> DEFINE g == [x \in S |-> x]
<1>1. \A x \in S : g[x] = x
  OBVIOUS
<1> HIDE DEF g
<1>2. \A x \in S : g[x] \in Int
  BY <1>1
<1>3. \E x \in S : \A y \in S : g[x] >= g[y]
  BY <1>2, LargestExists
<1>4. \E x \in S : \A y \in S : x >= y
  BY <1>1, <1>3
<1> QED BY <1>4 DEF Max

\* What the resolver finds has an id, or is 0.
LEMMA TheOnlyIsId ==
  ASSUME NEW S \in SUBSET Nat
  PROVE  /\ TheOnly(S) \in Nat
         /\ TheOnly(S) # 0 => S = {TheOnly(S)}
BY DEF TheOnly

\* The resolver's answers are ids.
LEMMA ResolvedIds ==
  ASSUME books \in Books, NEW name
  PROVE  /\ resolvePerson(name) \in Nat
         /\ \A p : resolvePledgeForPerson(p) \in Nat
         /\ resolveBudgetItem(name) \in Nat
         /\ \A p : resolveUnallocated(p) \in Nat
         /\ \A p : PaymentsOf(p) # {} => Max(PaymentsOf(p)) \in Nat
<1>1. /\ DOMAIN books.people \subseteq Nat /\ DOMAIN books.pledges \subseteq Nat
      /\ DOMAIN books.items \subseteq Nat /\ DOMAIN books.payments = 1 .. Len(books.payments)
      /\ Len(books.payments) \in Nat
  BY DEF Books
<1>2. resolvePerson(name) \in Nat
  <2>1. Matching(name) \in SUBSET Nat /\ Exactly(name) \in SUBSET Nat
    BY <1>1 DEF Matching, Exactly, Persons
  <2> QED BY <2>1, TheOnlyIsId DEF resolvePerson
<1>3. ASSUME NEW p PROVE resolvePledgeForPerson(p) \in Nat
  <2>1. LivePledgesOf(books, p) \in SUBSET Nat
    BY <1>1 DEF LivePledgesOf, PledgesOf
  <2> QED BY <2>1, TheOnlyIsId DEF resolvePledgeForPerson
<1>4. resolveBudgetItem(name) \in Nat
  <2>1. {i \in DOMAIN books.items : Item(books, i) /\ books.items[i].name = name} \in SUBSET Nat
    BY <1>1
  <2> QED BY <2>1, TheOnlyIsId DEF resolveBudgetItem
<1>5. ASSUME NEW p, NEW S \in SUBSET PaymentsOf(p), S # {} PROVE Max(S) \in Nat
  <2>1. PaymentsOf(p) \subseteq 1 .. Len(books.payments)
    BY <1>1 DEF PaymentsOf, PaymentsOn
  <2>2. IsFiniteSet(S) /\ S \in SUBSET Nat
    <3>1. IsFiniteSet(1 .. Len(books.payments))
      BY <1>1, FS_Interval
    <3>2. S \subseteq 1 .. Len(books.payments)
      BY <2>1
    <3> QED BY <1>1, <3>1, <3>2, FS_Subset
  <2> QED BY <1>5, <2>2, MaxIsIn
<1>6. ASSUME NEW p PROVE resolveUnallocated(p) \in Nat
  <2> DEFINE open == {f \in PaymentsOf(p) : Unallocated(f) > 0}
  <2>1. open = {} \/ Max(open) \in Nat
    BY <1>5
  <2>2. resolveUnallocated(p) = IF open = {} THEN 0 ELSE Max(open)
    BY DEF resolveUnallocated
  <2> HIDE DEF open
  <2> QED BY <2>1, <2>2
<1> QED BY <1>2, <1>3, <1>4, <1>5, <1>6

\* A captured action, once resolved.
LEMMA ResolvedIsAction ==
  ASSUME books \in Books, NEW said \in ActionRows
  PROVE  Resolved(said) \in ActionRows
<1>1. PICK p : p = resolvePerson(said.name)
  OBVIOUS
<1>2. PICK l : l = resolvePledgeForPerson(p)
  OBVIOUS
<1>3. p \in Nat /\ l \in Nat
  BY <1>1, <1>2, ResolvedIds
<1>4. Resolved(said) = resolveWrite(said, p, l)
  BY <1>1, <1>2 DEF Resolved
<1>5. {"record_pledge_with_payment", "record_direct_contribution"} \subseteq Tools
  BY DEF Tools
<1>6. CASE said.tool = "add_person"
  BY <1>4, <1>6 DEF resolveWrite
<1>7. CASE said.tool = "record_pledge"
  BY <1>3, <1>4, <1>5, <1>7 DEF resolveWrite, ActionRows
<1>8. CASE said.tool = "record_payment"
  BY <1>3, <1>4, <1>5, <1>8 DEF resolveWrite, ActionRows
<1>9. CASE said.tool \notin {"add_person", "record_pledge", "record_payment"}
  BY <1>3, <1>4, <1>9 DEF resolveWrite, ActionRows
<1> QED BY <1>6, <1>7, <1>8, <1>9

\* A staged action.
LEMMA PreparedIsAction ==
  ASSUME books \in Books, NEW tool \in DOMAIN writeAction, NEW a \in Stageable(tool),
         NEW otherName
  PROVE  Prepared(a, otherName) \in ActionRows
<1>1. a \in ActionRows
  <2>1. tool \in Tools /\ Amounts \subseteq Nat
    BY ProposalsAssumption DEF Tools
  <2>2. a \in [tool : {tool}, name : Names, person : {0}, other : {0}, amount : Amounts,
               received : {0}, pledge : {0}, payment : {0}, item : {0}]
    BY DEF Stageable
  <2>3. DOMAIN a = {"tool", "name", "person", "other", "amount", "received", "pledge", "payment", "item"}
    BY <2>2
  <2>4. /\ a.tool = tool /\ a.name \in Names /\ a.person = 0 /\ a.other = 0 /\ a.amount \in Amounts
        /\ a.received = 0 /\ a.pledge = 0 /\ a.payment = 0 /\ a.item = 0
    BY <2>2
  <2>5. a = [tool |-> a.tool, name |-> a.name, person |-> a.person, other |-> a.other,
             amount |-> a.amount, received |-> a.received, pledge |-> a.pledge,
             payment |-> a.payment, item |-> a.item]
    BY <2>2
  <2> QED BY <2>1, <2>4, <2>5 DEF ActionRows
<1>2. PICK p : p = resolvePerson(a.name)
  OBVIOUS
<1>3. /\ p \in Nat /\ resolveBudgetItem(a.name) \in Nat /\ resolveBudgetItem(otherName) \in Nat
      /\ resolvePerson(otherName) \in Nat /\ resolveUnallocated(p) \in Nat
      /\ resolvePledgeForPerson(p) \in Nat /\ (PaymentsOf(p) # {} => Max(PaymentsOf(p)) \in Nat)
  BY <1>2, ResolvedIds
<1>4. PICK last : last = IF PaymentsOf(p) = {} THEN 0 ELSE Max(PaymentsOf(p))
  OBVIOUS
<1>5. last \in Nat
  BY <1>3, <1>4
<1>6. CASE a.tool \in {"update_budget_item", "remove_budget_item"}
  BY <1>1, <1>3, <1>6 DEF Prepared, ActionRows
<1>7. CASE a.tool = "allocate_to_budget"
  BY <1>1, <1>2, <1>3, <1>7 DEF Prepared, ActionRows
<1>8. CASE a.tool = "correct_pledge"
  BY <1>1, <1>2, <1>3, <1>8 DEF Prepared, ActionRows
<1>9. CASE a.tool = "correct_payment"
  <2>1. Prepared(a, otherName) = [a EXCEPT !.payment = last]
    BY <1>2, <1>4, <1>9 DEF Prepared
  <2> QED BY <1>1, <1>5, <2>1 DEF ActionRows
<1>10. CASE a.tool = "merge_people"
  BY <1>1, <1>2, <1>3, <1>10 DEF Prepared, ActionRows
<1>11. CASE a.tool \notin {"update_budget_item", "remove_budget_item", "allocate_to_budget",
                           "correct_pledge", "correct_payment", "merge_people"}
  BY <1>1, <1>11 DEF Prepared
<1> QED BY <1>6, <1>7, <1>8, <1>9, <1>10, <1>11

\* The tables of the books, by the names of their rows.
LEMMA BooksNamed == BooksWith(Names) = Books
BY DEF BooksWith, Books, People, Pledges, Payments, Items, Allocations, Groups

\* A row of a table is replaced.
LEMMA RowReplaced ==
  ASSUME NEW S, NEW s \in Seq(S), NEW i \in DOMAIN s, NEW row \in S
  PROVE  [s EXCEPT ![i] = row] \in Seq(S)
OBVIOUS

\* A row is added to a table.
LEMMA RowAdded ==
  ASSUME NEW S, NEW s \in Seq(S), NEW row \in S
  PROVE  Append(s, row) \in Seq(S)
OBVIOUS

\* Every row of a table is rewritten.
LEMMA RowsRewritten ==
  ASSUME NEW S, NEW s \in Seq(S), NEW f, f = [i \in DOMAIN s |-> f[i]], \A i \in DOMAIN s : f[i] \in S
  PROVE  f \in Seq(S)
<1>1. PICK n \in Nat : DOMAIN s = 1 .. n
  BY Zenon, LenProperties
<1>2. f \in [1 .. n -> S]
  BY <1>1
<1> QED BY <1>2, SeqDef

\* What a service makes of the books are books: people,
LEMMA PeopleWritten ==
  ASSUME NEW b \in Books, NEW name \in Names, NEW source \in Nat, NEW target \in Nat
  PROVE  /\ createPerson(b, name, 0) \in Books
         /\ MergeAllowed(b, source, target) => mergePeople(b, source, target) \in Books
<1>1. createPerson(b, name, 0) \in Books
  <2> DEFINE row == [name |-> name, phone |-> 0, user |-> 0, gone |-> FALSE]
  <2>1. row \in People
    BY DEF People
  <2>2. createPerson(b, name, 0) = [b EXCEPT !.people = Append(@, row)]
    BY DEF createPerson
  <2> HIDE DEF row
  <2>3. PICK t : t = Append(b.people, row)
    OBVIOUS
  <2>4. b.people \in Seq(People)
    BY DEF Books
  <2>5. t \in Seq(People)
    BY <2>1, <2>3, <2>4, RowAdded
  <2>6. createPerson(b, name, 0) = [b EXCEPT !.people = t]
    BY <2>2, <2>3
  <2> QED BY <2>5, <2>6 DEF Books
<1>2. ASSUME MergeAllowed(b, source, target) PROVE mergePeople(b, source, target) \in Books
  <2> DEFINE moved == [l \in DOMAIN b.pledges |->
                         IF b.pledges[l].person = source THEN [b.pledges[l] EXCEPT !.person = target]
                         ELSE b.pledges[l]]
             members == [g \in DOMAIN b.groups |-> b.groups[g] \ {source}]
             people == [b.people EXCEPT ![source].gone = TRUE, ![source].user = 0,
                          ![target].user = IF @ = 0 THEN b.people[source].user ELSE @]
  <2>0. /\ b.pledges \in Seq(Pledges) /\ b.groups \in Seq(Groups) /\ b.people \in Seq(People)
    BY DEF Books
  <2>1. moved \in Seq(Pledges)
    <3>1. \A l \in DOMAIN b.pledges : b.pledges[l] \in Pledges
      BY <2>0
    <3>2. \A l \in DOMAIN b.pledges : moved[l] \in Pledges
      BY <3>1 DEF Pledges
    <3>3. moved = [l \in DOMAIN b.pledges |-> moved[l]]
      OBVIOUS
    <3> HIDE DEF moved
    <3> QED BY <2>0, <3>2, <3>3, RowsRewritten
  <2>2. members \in Seq(Groups)
    <3>1. \A g \in DOMAIN b.groups : members[g] \in Groups
      BY <2>0 DEF Groups
    <3>2. members = [g \in DOMAIN b.groups |-> members[g]]
      OBVIOUS
    <3> HIDE DEF members
    <3> QED BY <2>0, <3>1, <3>2, RowsRewritten
  <2>3. people \in Seq(People)
    <3>1. source \in DOMAIN b.people /\ target \in DOMAIN b.people /\ source # target
      BY <1>2 DEF MergeAllowed, Person
    <3>2. b.people[source] \in People /\ b.people[target] \in People
      BY <2>0, <3>1
    <3> DEFINE s1 == [b.people[source] EXCEPT !.gone = TRUE, !.user = 0]
               t1 == [b.people[target] EXCEPT !.user = IF @ = 0 THEN b.people[source].user ELSE @]
    <3>3. s1 \in People /\ t1 \in People
      BY <3>2 DEF People
    <3>4. people = [[b.people EXCEPT ![source] = s1] EXCEPT ![target] = t1]
      BY <3>1
    <3> HIDE DEF s1, t1, people
    <3>5. [b.people EXCEPT ![source] = s1] \in Seq(People)
      BY <2>0, <3>1, <3>3, RowReplaced
    <3>6. target \in DOMAIN [b.people EXCEPT ![source] = s1]
      BY <3>1
    <3> QED BY <3>3, <3>4, <3>5, <3>6, RowReplaced
  <2>4. mergePeople(b, source, target) = [b EXCEPT !.people = people, !.pledges = moved, !.groups = members]
    <3>1. mergePeople(b, source, target) =
            [b EXCEPT !.people[source].gone = TRUE, !.people[source].user = 0,
               !.people[target].user = IF @ = 0 THEN b.people[source].user ELSE @,
               !.pledges = moved, !.groups = members]
      BY DEF mergePeople
    <3> HIDE DEF moved, members
    <3> QED BY <3>1 DEF Books
  <2> HIDE DEF moved, members, people
  <2> QED BY <2>1, <2>2, <2>3, <2>4 DEF Books
<1> QED BY <1>1, <1>2

\* pledges and payments,
LEMMA MoneyWritten ==
  ASSUME NEW b \in Books, NEW p \in Nat, NEW committed \in Nat, NEW value \in Nat
  PROVE  /\ createPledge(b, p, committed) \in Books
         /\ recordFulfillment(b, p, value) \in Books
         /\ recordPledgeWithPayment(b, p, committed, value) \in Books
         /\ p \in DOMAIN b.pledges => correctCommittedValue(b, p, value) \in Books
         /\ p \in DOMAIN b.payments => correctValue(b, p, value) \in Books
<1>1. ASSUME NEW c \in Books, NEW q \in Nat, NEW v \in Nat
      PROVE  createPledge(c, q, v) \in Books
  <2> DEFINE row == [person |-> q, committed |-> v, cancelled |-> FALSE]
  <2>1. row \in Pledges
    BY DEF Pledges
  <2>2. createPledge(c, q, v) = [c EXCEPT !.pledges = Append(@, row)]
    BY DEF createPledge
  <2> HIDE DEF row
  <2>3. PICK t : t = Append(c.pledges, row)
    OBVIOUS
  <2>4. c.pledges \in Seq(Pledges)
    BY DEF Books
  <2>5. t \in Seq(Pledges)
    BY <2>1, <2>3, <2>4, RowAdded
  <2>6. createPledge(c, q, v) = [c EXCEPT !.pledges = t]
    BY <2>2, <2>3
  <2> QED BY <2>5, <2>6 DEF Books
<1>2. ASSUME NEW c \in Books, NEW q \in Nat, NEW v \in Nat
      PROVE  recordFulfillment(c, q, v) \in Books
  <2> DEFINE row == [pledge |-> q, value |-> v]
  <2>1. row \in Payments
    BY DEF Payments
  <2>2. recordFulfillment(c, q, v) = [c EXCEPT !.payments = Append(@, row)]
    BY DEF recordFulfillment
  <2> HIDE DEF row
  <2>3. PICK t : t = Append(c.payments, row)
    OBVIOUS
  <2>4. c.payments \in Seq(Payments)
    BY DEF Books
  <2>5. t \in Seq(Payments)
    BY <2>1, <2>3, <2>4, RowAdded
  <2>6. recordFulfillment(c, q, v) = [c EXCEPT !.payments = t]
    BY <2>2, <2>3
  <2> QED BY <2>5, <2>6 DEF Books
<1>3. recordPledgeWithPayment(b, p, committed, value) \in Books
  <2>1. Len(b.pledges) + 1 \in Nat
    BY DEF Books
  <2> QED BY <1>1, <1>2, <2>1 DEF recordPledgeWithPayment
<1>4. ASSUME p \in DOMAIN b.pledges PROVE correctCommittedValue(b, p, value) \in Books
  <2> DEFINE row == [b.pledges[p] EXCEPT !.committed = value]
  <2>1. b.pledges \in Seq(Pledges) /\ b.pledges[p] \in Pledges
    BY <1>4 DEF Books
  <2>2. row \in Pledges
    BY <2>1 DEF Pledges
  <2>3. correctCommittedValue(b, p, value) = [b EXCEPT !.pledges = [b.pledges EXCEPT ![p] = row]]
    BY DEF correctCommittedValue
  <2> HIDE DEF row
  <2>4. [b.pledges EXCEPT ![p] = row] \in Seq(Pledges)
    BY <1>4, <2>1, <2>2, RowReplaced
  <2> QED BY <2>3, <2>4 DEF Books
<1>5. ASSUME p \in DOMAIN b.payments PROVE correctValue(b, p, value) \in Books
  <2> DEFINE row == [b.payments[p] EXCEPT !.value = value]
  <2>1. b.payments \in Seq(Payments) /\ b.payments[p] \in Payments
    BY <1>5 DEF Books
  <2>2. row \in Payments
    BY <2>1 DEF Payments
  <2>3. correctValue(b, p, value) = [b EXCEPT !.payments = [b.payments EXCEPT ![p] = row]]
    BY DEF correctValue
  <2> HIDE DEF row
  <2>4. [b.payments EXCEPT ![p] = row] \in Seq(Payments)
    BY <1>5, <2>1, <2>2, RowReplaced
  <2> QED BY <2>3, <2>4 DEF Books
<1> QED BY <1>1, <1>2, <1>3, <1>4, <1>5

\* budget lines and earmarks.
LEMMA BudgetWritten ==
  ASSUME NEW b \in Books, NEW name \in Names, NEW i \in Nat, NEW f \in Nat, NEW value \in Nat
  PROVE  /\ addItem(b, name, value) \in Books
         /\ Item(b, i) => updateItem(b, i, value, b.items[i].public) \in Books
         /\ Item(b, i) => removeItem(b, i) \in Books
         /\ allocate(b, f, i, value) \in Books
<1>1. addItem(b, name, value) \in Books
  <2> DEFINE row == [name |-> name, target |-> value, version |-> 1, public |-> TRUE, gone |-> FALSE]
  <2>1. row \in Items
    BY DEF Items
  <2>2. addItem(b, name, value) = [b EXCEPT !.items = Append(@, row)]
    BY DEF addItem
  <2> HIDE DEF row
  <2>3. PICK t : t = Append(b.items, row)
    OBVIOUS
  <2>4. b.items \in Seq(Items)
    BY DEF Books
  <2>5. t \in Seq(Items)
    BY <2>1, <2>3, <2>4, RowAdded
  <2>6. addItem(b, name, value) = [b EXCEPT !.items = t]
    BY <2>2, <2>3
  <2> QED BY <2>5, <2>6 DEF Books
<1>2. ASSUME Item(b, i) PROVE b.items \in Seq(Items) /\ i \in DOMAIN b.items /\ b.items[i] \in Items
  BY <1>2 DEF Books, Item
<1>3. ASSUME Item(b, i) PROVE updateItem(b, i, value, b.items[i].public) \in Books
  <2>0. PICK old, public, version : old = b.items[i] /\ public = old.public /\ version = old.version + 1
    OBVIOUS
  <2> DEFINE row == [old EXCEPT !.target = value, !.public = public, !.version = version]
  <2>1. row \in Items
    <3>1. old \in Items /\ public \in BOOLEAN /\ version \in Nat
      BY <1>2, <1>3, <2>0 DEF Items
    <3> QED BY <3>1 DEF Items
  <2>2. updateItem(b, i, value, b.items[i].public) = [b EXCEPT !.items = [b.items EXCEPT ![i] = row]]
    <3>1. i \in DOMAIN b.items /\ b.items \in Seq(Items) /\ old \in Items
      BY <1>2, <1>3, <2>0
    <3> QED BY <2>0, <3>1 DEF updateItem, Items, Books
  <2> HIDE DEF row
  <2>3. [b.items EXCEPT ![i] = row] \in Seq(Items)
    BY <1>2, <1>3, <2>1, RowReplaced
  <2> QED BY <2>2, <2>3 DEF Books
<1>4. ASSUME Item(b, i) PROVE removeItem(b, i) \in Books
  <2> DEFINE row == [b.items[i] EXCEPT !.gone = TRUE]
  <2>1. row \in Items
    BY <1>2, <1>4 DEF Items
  <2>2. removeItem(b, i) = [b EXCEPT !.items = [b.items EXCEPT ![i] = row]]
    BY DEF removeItem
  <2> HIDE DEF row
  <2>3. [b.items EXCEPT ![i] = row] \in Seq(Items)
    BY <1>2, <1>4, <2>1, RowReplaced
  <2> QED BY <2>2, <2>3 DEF Books
<1>5. allocate(b, f, i, value) \in Books
  <2> DEFINE row == [payment |-> f, item |-> i, value |-> value]
  <2>1. row \in Allocations
    BY DEF Allocations
  <2>2. allocate(b, f, i, value) = [b EXCEPT !.allocations = Append(@, row)]
    BY DEF allocate
  <2> HIDE DEF row
  <2>3. PICK t : t = Append(b.allocations, row)
    OBVIOUS
  <2>4. b.allocations \in Seq(Allocations)
    BY DEF Books
  <2>5. t \in Seq(Allocations)
    BY <2>1, <2>3, <2>4, RowAdded
  <2>6. allocate(b, f, i, value) = [b EXCEPT !.allocations = t]
    BY <2>2, <2>3
  <2> QED BY <2>5, <2>6 DEF Books
<1> QED BY <1>1, <1>3, <1>4, <1>5

\* What the executor writes are books.
LEMMA WrittenBooks ==
  ASSUME books \in Books, NEW a \in ActionRows, Gate(a).ok
  PROVE  Written(a) \in Books
<1>0. /\ a.name \in Names /\ a.person \in Nat /\ a.other \in Nat /\ a.amount \in Nat
      /\ a.received \in Nat /\ a.pledge \in Nat /\ a.payment \in Nat /\ a.item \in Nat
  BY DEF ActionRows
<1>1. CASE a.tool = "record_pledge"
  BY <1>0, <1>1, MoneyWritten DEF Written
<1>2. CASE a.tool = "record_pledge_with_payment"
  BY <1>0, <1>2, MoneyWritten DEF Written
<1>3. CASE a.tool = "record_direct_contribution"
  BY <1>0, <1>3, MoneyWritten DEF Written
<1>4. CASE a.tool = "record_payment"
  BY <1>0, <1>4, MoneyWritten DEF Written
<1>5. CASE a.tool = "create_budget_item"
  BY <1>0, <1>5, BudgetWritten DEF Written
<1>6. CASE a.tool = "update_budget_item"
  BY <1>0, <1>6, BudgetWritten DEF Written, Gate
<1>7. CASE a.tool = "remove_budget_item"
  BY <1>0, <1>7, BudgetWritten DEF Written, Gate, RemovalAllowed
<1>8. CASE a.tool = "allocate_to_budget"
  BY <1>0, <1>8, BudgetWritten DEF Written
<1>9. CASE a.tool = "correct_pledge"
  BY <1>0, <1>9, MoneyWritten DEF Written, Gate
<1>10. CASE a.tool = "correct_payment"
  BY <1>0, <1>10, MoneyWritten DEF Written, Gate, CorrectionAllowed
<1>11. CASE a.tool = "merge_people"
  BY <1>0, <1>11, PeopleWritten DEF Written, Gate
<1>12. CASE a.tool \in {"send_sms_reminders", "invite_member", "add_person"}
  BY <1>12 DEF Written
<1>13. a.tool \in {"record_pledge", "record_pledge_with_payment", "record_direct_contribution",
                   "record_payment", "create_budget_item", "update_budget_item", "remove_budget_item",
                   "allocate_to_budget", "correct_pledge", "correct_payment", "merge_people",
                   "send_sms_reminders", "invite_member", "add_person"}
  BY DEF ActionRows, Tools, writeAction
<1> QED BY <1>1, <1>2, <1>3, <1>4, <1>5, <1>6, <1>7, <1>8, <1>9, <1>10, <1>11, <1>12, <1>13

-----------------------------------------------------------------------------
(* Proposals and the calls that resolve them.                              *)

\* A proposal no two calls held at once: at most one call holds it, having
\* read what it still says; nobody has run it before, and once it ran it is
\* resolved for good.
GoodProposal(p) ==
  /\ \A c, d \in Callers : calls[c].proposal = p /\ calls[d].proposal = p => c = d
  /\ \A c \in Callers : calls[c].proposal = p =>
       /\ calls[c].payload = proposals[p].action
       /\ calls[c].pc \in ReviewPcs => calls[c].action = proposals[p].action
       /\ \A i \in DOMAIN done : done[i].proposal # p
       /\ \/ calls[c].pc \in ReviewPcs /\ proposals[p].status = "PENDING"
          \/ calls[c].pc \in RunPcs /\ proposals[p].status = "CONFIRMED"
  /\ \A i \in DOMAIN done : done[i].proposal = p =>
       proposals[p].status = "CONFIRMED" /\ done[i].action = proposals[p].action
  /\ \A i, j \in DOMAIN done : done[i].proposal = p /\ done[j].proposal = p => i = j

Approved ==
  /\ \A c \in Callers : calls[c].pc \in {"idle", "resolve", "decide"} => calls[c].proposal = 0
  /\ \A c \in Callers : calls[c].pc \in RunPcs /\ calls[c].proposal = 0 => calls[c].sure
  /\ \A i \in DOMAIN done : /\ done[i].proposal \in 0 .. Len(proposals)
                            /\ done[i].proposal = 0 => done[i].sure
  /\ \A p \in 1 .. Len(proposals) : p \notin contested => GoodProposal(p)

ProposalInv == ProposalTypes /\ Approved

\* What a step may make of the process of a call.
GoodCall(row) ==
  /\ row \in CallRows
  /\ row.pc \notin {"idle"} => row.action \in ActionRows
  /\ row.pc \notin {"idle", "resolve"} => row.payload \in ActionRows
  /\ row.proposal \in 0 .. Len(proposals)
  /\ row.pc \in ReviewPcs => row.proposal # 0
  /\ row.pc \in {"idle", "resolve", "decide"} => row.proposal = 0
  /\ row.pc \in RunPcs /\ row.proposal = 0 => row.sure

\* Proposals may have been added, and none was changed.
ProposalsGrow ==
  /\ proposals' \in Seq(ProposalRows)
  /\ Len(proposals) <= Len(proposals')
  /\ \A p \in 1 .. Len(proposals) : proposals'[p] = proposals[p]

\* The types, after a step of one call.
LEMMA CallTyped ==
  ASSUME ProposalInv, NEW c \in Callers, NEW row, GoodCall(row), calls' = [calls EXCEPT ![c] = row],
         books' \in Books, proposals' \in Seq(ProposalRows), Len(proposals) <= Len(proposals'),
         done' \in Seq(DoneRows)
  PROVE  /\ ProposalTypes'
         /\ calls'[c] = row /\ \A d \in Callers \ {c} : calls'[d] = calls[d]
         /\ \A d \in Callers : calls'[d].pc \in {"idle", "resolve", "decide"} => calls'[d].proposal = 0
         /\ \A d \in Callers : calls'[d].pc \in RunPcs /\ calls'[d].proposal = 0 => calls'[d].sure
<1>1. calls \in [Callers -> CallRows] /\ row \in CallRows
  BY DEF ProposalInv, ProposalTypes, GoodCall
<1>2. calls'[c] = row /\ \A d \in Callers \ {c} : calls'[d] = calls[d]
  BY <1>1
<1>3. calls' \in [Callers -> CallRows]
  BY <1>1
<1>4. \A d \in Callers : /\ calls'[d].pc \notin {"idle"} => calls'[d].action \in ActionRows
                         /\ calls'[d].pc \notin {"idle", "resolve"} => calls'[d].payload \in ActionRows
                         /\ calls'[d].pc \in ReviewPcs => calls'[d].proposal # 0
  BY <1>2 DEF ProposalInv, ProposalTypes, GoodCall
<1>5. \A d \in Callers : calls'[d].proposal \in 0 .. Len(proposals')
  <2>1. \A d \in Callers : calls'[d].proposal \in 0 .. Len(proposals)
    BY <1>2 DEF ProposalInv, ProposalTypes, GoodCall
  <2>2. Len(proposals) \in Nat /\ Len(proposals') \in Nat
    BY DEF ProposalInv, ProposalTypes
  <2> QED BY <2>1, <2>2
<1>6. ProposalTypes'
  BY <1>3, <1>4, <1>5 DEF ProposalTypes
<1>7. \A d \in Callers :
        /\ calls'[d].pc \in {"idle", "resolve", "decide"} => calls'[d].proposal = 0
        /\ calls'[d].pc \in RunPcs /\ calls'[d].proposal = 0 => calls'[d].sure
  BY <1>2 DEF ProposalInv, Approved, GoodCall
<1> QED BY <1>2, <1>6, <1>7

\* A call goes on, or hangs up; proposals are at most added.
LEMMA CallGoesOn ==
  ASSUME ProposalInv, NEW c \in Callers, NEW row, GoodCall(row), calls' = [calls EXCEPT ![c] = row],
         books' \in Books, ProposalsGrow, done' = done, contested \subseteq contested',
         \/ row.proposal = 0
         \/ /\ row.proposal = calls[c].proposal /\ row.payload = calls[c].payload
            /\ row.pc \in RunPcs /\ calls[c].pc \in RunPcs
  PROVE  ProposalInv'
<1>1. /\ ProposalTypes'
      /\ calls'[c] = row /\ \A d \in Callers \ {c} : calls'[d] = calls[d]
      /\ \A d \in Callers : calls'[d].pc \in {"idle", "resolve", "decide"} => calls'[d].proposal = 0
      /\ \A d \in Callers : calls'[d].pc \in RunPcs /\ calls'[d].proposal = 0 => calls'[d].sure
  BY CallTyped DEF ProposalsGrow, ProposalInv, ProposalTypes
<1>2. Len(proposals) \in Nat /\ Len(proposals') \in Nat /\ Len(proposals) <= Len(proposals')
  BY DEF ProposalInv, ProposalTypes, ProposalsGrow
<1>3. \A i \in DOMAIN done' : /\ done'[i].proposal \in 0 .. Len(proposals')
                              /\ done'[i].proposal = 0 => done'[i].sure
  BY <1>2 DEF ProposalInv, Approved
<1>4. ASSUME NEW p \in 1 .. Len(proposals'), p \notin contested' PROVE GoodProposal(p)'
  <2>1. CASE p \in 1 .. Len(proposals)
    <3>1. GoodProposal(p) /\ proposals'[p] = proposals[p] /\ p # 0
      BY <1>2, <1>4, <2>1 DEF ProposalInv, Approved, ProposalsGrow
    <3>2. ASSUME NEW d \in Callers, calls'[d].proposal = p
          PROVE  /\ calls[d].proposal = p /\ calls'[d].payload = calls[d].payload
                 /\ \/ calls'[d].pc \in RunPcs /\ calls[d].pc \in RunPcs
                    \/ calls'[d] = calls[d]
      BY <1>1, <3>1, <3>2
    <3>3. \A a, d \in Callers : calls'[a].proposal = p /\ calls'[d].proposal = p => a = d
      BY <3>1, <3>2 DEF GoodProposal
    <3>4. \A d \in Callers : calls'[d].proposal = p =>
            /\ calls'[d].payload = proposals'[p].action
            /\ calls'[d].pc \in ReviewPcs => calls'[d].action = proposals'[p].action
            /\ \A i \in DOMAIN done' : done'[i].proposal # p
            /\ \/ calls'[d].pc \in ReviewPcs /\ proposals'[p].status = "PENDING"
               \/ calls'[d].pc \in RunPcs /\ proposals'[p].status = "CONFIRMED"
      BY <3>1, <3>2 DEF GoodProposal, ReviewPcs, RunPcs
    <3> QED BY <3>1, <3>3, <3>4 DEF GoodProposal
  <2>2. CASE p \notin 1 .. Len(proposals)
    <3>1. \A d \in Callers : calls'[d].proposal # p
      BY <1>1, <1>2, <1>4, <2>2 DEF ProposalInv, ProposalTypes, GoodCall
    <3>2. \A i \in DOMAIN done' : done'[i].proposal # p
      BY <1>2, <1>4, <2>2 DEF ProposalInv, Approved
    <3> QED BY <3>1, <3>2 DEF GoodProposal
  <2> QED BY <2>1, <2>2
<1> QED BY <1>1, <1>3, <1>4 DEF ProposalInv, Approved

\* The hung-up call.
LEMMA HungUp ==
  ASSUME proposals \in Seq(ProposalRows)
  PROVE  GoodCall(NoCall) /\ NoCall.proposal = 0 /\ NoCall.pc = "idle"
<1>1. NoCall \in CallRows /\ NoCall.proposal = 0 /\ NoCall.pc = "idle"
  BY DEF NoCall, CallRows, CallPcs
<1>2. 0 \in 0 .. Len(proposals)
  OBVIOUS
<1> HIDE DEF NoCall
<1> QED BY <1>1, <1>2 DEF GoodCall, ReviewPcs, RunPcs

\* What stays when no proposal is touched.
LEMMA NoneGrows ==
  ASSUME ProposalInv, proposals' = proposals
  PROVE  ProposalsGrow
BY DEF ProposalInv, ProposalTypes, ProposalsGrow

\* A proposal is staged.
LEMMA OneGrows ==
  ASSUME ProposalInv, NEW action \in ActionRows, NEW origin \in Nat, create(action, origin)
  PROVE  ProposalsGrow
<1>1. Proposal(action, origin) \in ProposalRows
  BY DEF Proposal, ProposalRows
<1>2. proposals \in Seq(ProposalRows)
  BY DEF ProposalInv, ProposalTypes
<1> QED BY <1>1, <1>2 DEF create, ProposalsGrow

\* A call from its capture to the decision.
LEMMA CaptureSteps ==
  ASSUME ProposalInv, NEW c \in Callers, capture(c) \/ Resolve(c) \/ Decide(c)
  PROVE  ProposalInv'
<1>0. /\ calls[c] \in CallRows /\ books \in Books /\ proposals \in Seq(ProposalRows)
      /\ calls \in [Callers -> CallRows]
      /\ calls[c].pc \notin {"idle"} => calls[c].action \in ActionRows
      /\ calls[c].pc \notin {"idle", "resolve"} => calls[c].payload \in ActionRows
  BY DEF ProposalInv, ProposalTypes
<1>1. CASE capture(c)
  <2>1. PICK tool \in CaptureTools, name \in Names, amount \in Amounts, received \in {0} \union Amounts,
             role \in Standing, sure \in BOOLEAN :
          /\ at(c, "idle") /\ take(tool)
          /\ received > 0 => tool = "record_pledge" /\ received <= amount
          /\ can(role, writeAction[tool])
          /\ calls' = [calls EXCEPT ![c] =
               [NoCall EXCEPT !.pc = "resolve", !.role = role, !.sure = sure,
                  !.action = [NoAction EXCEPT !.tool = tool, !.name = name, !.amount = amount,
                                              !.received = received]]]
          /\ UNCHANGED <<books, proposals, done, contested, doubtful>>
    BY <1>1, Zenon DEF capture
  <2> DEFINE said == [NoAction EXCEPT !.tool = tool, !.name = name, !.amount = amount,
                                      !.received = received]
             row == [NoCall EXCEPT !.pc = "resolve", !.role = role, !.sure = sure, !.action = said]
  <2>2. said \in ActionRows
    <3>1. tool \in Tools /\ amount \in Nat /\ received \in Nat
      BY ProposalsAssumption DEF Tools, CaptureTools, writeAction
    <3> QED BY <3>1 DEF NoAction, ActionRows
  <2> HIDE DEF said
  <2>3. GoodCall(row) /\ row.proposal = 0
    <3>1. row \in CallRows
      BY <2>2 DEF NoCall, CallRows, CallPcs
    <3>2. row.pc = "resolve" /\ row.action = said /\ row.proposal = 0
      BY DEF NoCall
    <3> HIDE DEF row
    <3> QED BY <1>0, <2>2, <3>1, <3>2 DEF GoodCall, ReviewPcs, RunPcs
  <2> HIDE DEF row
  <2>4. calls' = [calls EXCEPT ![c] = row]
    BY <2>1 DEF row, said
  <2> QED BY <1>0, <2>1, <2>3, <2>4, NoneGrows, CallGoesOn
<1>2. CASE Resolve(c) /\ NeedsClarification(calls[c].action)
  <2>1. calls' = [calls EXCEPT ![c] = NoCall] /\ UNCHANGED <<books, proposals, done, contested>>
    BY <1>2 DEF Resolve, hangUp
  <2> QED BY <1>0, <2>1, HungUp, NoneGrows, CallGoesOn
<1>3. CASE Resolve(c) /\ ~NeedsClarification(calls[c].action)
  <2>1. PICK action : action = Resolved(calls[c].action)
    OBVIOUS
  <2>2. /\ calls' = [calls EXCEPT ![c].pc = "decide", ![c].action = action, ![c].payload = action]
        /\ UNCHANGED <<books, proposals, done, contested>> /\ calls[c].pc = "resolve"
    BY <1>3, <2>1 DEF Resolve, at
  <2>3. action \in ActionRows
    BY <1>0, <2>1, <2>2, ResolvedIsAction
  <2> DEFINE row == [calls[c] EXCEPT !.pc = "decide", !.action = action, !.payload = action]
  <2>4. calls' = [calls EXCEPT ![c] = row]
    BY <1>0, <2>2
  <2>5. GoodCall(row) /\ row.proposal = 0
    <3>1. row \in CallRows /\ row.pc = "decide" /\ row.action = action /\ row.payload = action
          /\ row.proposal = calls[c].proposal
      BY <1>0, <2>3 DEF CallRows, CallPcs
    <3>2. calls[c].proposal = 0
      BY <2>2 DEF ProposalInv, Approved
    <3> HIDE DEF row
    <3> QED BY <1>0, <2>3, <3>1, <3>2 DEF GoodCall, ReviewPcs, RunPcs
  <2> HIDE DEF row
  <2> QED BY <1>0, <2>2, <2>4, <2>5, NoneGrows, CallGoesOn
<1>4. CASE Decide(c) /\ calls[c].sure
  <2> DEFINE row == [calls[c] EXCEPT !.pc = "run"]
  <2>1. /\ calls' = [calls EXCEPT ![c] = row] /\ UNCHANGED <<books, proposals, done, contested>>
        /\ calls[c].pc = "decide"
    BY <1>0, <1>4 DEF Decide, goto, at
  <2>2. GoodCall(row) /\ row.proposal = 0
    <3>1. row \in CallRows /\ row.pc = "run" /\ row.action = calls[c].action
          /\ row.payload = calls[c].payload /\ row.proposal = calls[c].proposal /\ row.sure = calls[c].sure
      BY <1>0 DEF CallRows, CallPcs, RunPcs
    <3>2. calls[c].proposal = 0
      BY <2>1 DEF ProposalInv, Approved
    <3> HIDE DEF row
    <3> QED BY <1>0, <1>4, <2>1, <3>1, <3>2 DEF GoodCall, ReviewPcs, RunPcs
  <2> HIDE DEF row
  <2> QED BY <1>0, <2>1, <2>2, NoneGrows, CallGoesOn
<1>5. CASE Decide(c) /\ ~calls[c].sure
  <2>1. /\ calls' = [calls EXCEPT ![c] = NoCall] /\ UNCHANGED <<books, done, contested>>
        /\ create(calls[c].action, 0) /\ calls[c].pc = "decide"
    BY <1>5 DEF Decide, hangUp, at
  <2> QED BY <1>0, <2>1, HungUp, OneGrows, CallGoesOn
<1> QED BY <1>1, <1>2, <1>3, <1>4, <1>5

\* A tool of AiMutationService stages its proposal.
LEMMA StageStep ==
  ASSUME ProposalInv, NEW c \in Callers, stage(c)
  PROVE  ProposalInv'
<1>1. PICK tool \in DOMAIN writeAction \ CaptureTools, otherName \in Names :
        /\ \E a \in Stageable(tool) :
             LET action == Prepared(a, otherName) IN Found(action) /\ create(action, 0)
        /\ UNCHANGED <<books, calls, done, contested, doubtful>> /\ at(c, "idle")
  BY DEF stage
<1>2. PICK a \in Stageable(tool) : create(Prepared(a, otherName), 0)
  BY <1>1
<1>3. books \in Books /\ proposals \in Seq(ProposalRows) /\ calls \in [Callers -> CallRows]
  BY DEF ProposalInv, ProposalTypes
<1>4. Prepared(a, otherName) \in ActionRows
  BY <1>3, PreparedIsAction
<1>5. ProposalsGrow
  BY <1>2, <1>4, OneGrows
<1>6. GoodCall(calls[c]) /\ calls[c].proposal = 0
  BY <1>1 DEF ProposalInv, ProposalTypes, Approved, GoodCall, at, ReviewPcs, RunPcs
<1>7. calls' = [calls EXCEPT ![c] = calls[c]]
  BY <1>1, <1>3
<1> QED BY <1>1, <1>3, <1>5, <1>6, <1>7, CallGoesOn

\* update, confirm and reject begin: a pending proposal is read.
LEMMA ReviewStep ==
  ASSUME ProposalInv, NEW c \in Callers, NEW op \in ReviewPcs, Review(c, op)
  PROVE  ProposalInv'
<1>0. /\ books \in Books /\ proposals \in Seq(ProposalRows) /\ calls \in [Callers -> CallRows]
      /\ done \in Seq(DoneRows)
  BY DEF ProposalInv, ProposalTypes
<1>1. PICK p \in DOMAIN proposals, role \in Standing :
        /\ at(c, "idle") /\ proposals[p].status = "PENDING"
        /\ calls' = [calls EXCEPT ![c] =
             [NoCall EXCEPT !.pc = op, !.role = role, !.proposal = p,
                            !.action = proposals[p].action, !.payload = proposals[p].action]]
        /\ contested' = contested \union
             {q \in {p} : \E d \in Callers \ {c} : calls[d].proposal = p /\ calls[d].pc # "idle"}
        /\ UNCHANGED <<books, proposals, done, doubtful>>
  BY DEF Review
<1>2. p \in 1 .. Len(proposals) /\ proposals[p].action \in ActionRows /\ p \in Nat \ {0}
  <2>1. p \in 1 .. Len(proposals) /\ p \in Nat \ {0}
    BY <1>0, <1>1
  <2>2. proposals[p] \in ProposalRows
    BY <1>0, <2>1
  <2> QED BY <2>1, <2>2 DEF ProposalRows
<1> DEFINE row == [NoCall EXCEPT !.pc = op, !.role = role, !.proposal = p,
                                 !.action = proposals[p].action, !.payload = proposals[p].action]
<1>3. row \in CallRows
  BY <1>2 DEF NoCall, CallRows, CallPcs
<1>4. row.pc = op /\ row.proposal = p /\ row.action = proposals[p].action /\ row.payload = proposals[p].action
  BY DEF NoCall
<1> HIDE DEF row
<1>5. GoodCall(row)
  BY <1>2, <1>3, <1>4 DEF GoodCall, ReviewPcs, RunPcs
<1>6. /\ ProposalTypes'
      /\ calls'[c] = row /\ \A d \in Callers \ {c} : calls'[d] = calls[d]
      /\ \A d \in Callers : calls'[d].pc \in {"idle", "resolve", "decide"} => calls'[d].proposal = 0
      /\ \A d \in Callers : calls'[d].pc \in RunPcs /\ calls'[d].proposal = 0 => calls'[d].sure
  <2>1. calls' = [calls EXCEPT ![c] = row]
    BY <1>1 DEF row
  <2>2. Len(proposals) <= Len(proposals')
    BY <1>0, <1>1
  <2> QED BY <1>0, <1>1, <1>5, <2>1, <2>2, CallTyped
<1>7. \A i \in DOMAIN done' : /\ done'[i].proposal \in 0 .. Len(proposals')
                              /\ done'[i].proposal = 0 => done'[i].sure
  BY <1>1 DEF ProposalInv, Approved
<1>8. ASSUME NEW q \in 1 .. Len(proposals'), q \notin contested' PROVE GoodProposal(q)'
  <2>1. GoodProposal(q) /\ q # 0
    BY <1>0, <1>1, <1>8 DEF ProposalInv, Approved
  <2>2. CASE q # p
    <3>1. \A d \in Callers : calls'[d].proposal = q => calls[d].proposal = q /\ calls'[d] = calls[d]
      BY <1>4, <1>6, <2>2
    <3> QED BY <1>1, <2>1, <3>1 DEF GoodProposal
  <2>3. CASE q = p
    <3>1. \A d \in Callers \ {c} : calls[d].proposal # p
      BY <1>1, <1>2, <1>8, <2>3 DEF ProposalInv, Approved
    <3>2. \A d \in Callers : calls'[d].proposal = p => d = c
      BY <1>6, <3>1
    <3>3. \A i \in DOMAIN done : done[i].proposal # p
      BY <1>1, <2>1, <2>3 DEF GoodProposal
    <3> QED BY <1>1, <1>4, <1>6, <2>3, <3>2, <3>3 DEF GoodProposal
  <2> QED BY <2>2, <2>3
<1> QED BY <1>6, <1>7, <1>8 DEF ProposalInv, Approved

\* update, confirm and reject end: the proposal is edited or resolved.
LEMMA ResolutionSteps ==
  ASSUME ProposalInv, NEW c \in Callers, update(c) \/ confirm(c) \/ reject(c)
  PROVE  ProposalInv'
<1>0. /\ books \in Books /\ proposals \in Seq(ProposalRows) /\ calls \in [Callers -> CallRows]
      /\ done \in Seq(DoneRows)
  BY DEF ProposalInv, ProposalTypes
<1>1. PICK p : p = calls[c].proposal
  OBVIOUS
<1>2. /\ p \in 1 .. Len(proposals) /\ p \in Nat \ {0} /\ calls[c].pc \in ReviewPcs
      /\ calls[c].action \in ActionRows /\ calls[c].payload \in ActionRows
      /\ proposals[p] \in ProposalRows
  <2>1. calls[c].pc \in ReviewPcs
    BY DEF update, confirm, reject, at, ReviewPcs
  <2>2. calls[c].proposal \in 0 .. Len(proposals) /\ calls[c].proposal # 0
    BY <2>1 DEF ProposalInv, ProposalTypes
  <2>3. calls[c].action \in ActionRows /\ calls[c].payload \in ActionRows
    BY <2>1 DEF ProposalInv, ProposalTypes, ReviewPcs
  <2> QED BY <1>0, <1>1, <2>1, <2>2, <2>3
<1>3. PICK row, said :
        /\ row \in ProposalRows
        /\ proposals' = [proposals EXCEPT ![p] = row]
        /\ calls' = [calls EXCEPT ![c] = said]
        /\ \/ said = NoCall
           \/ /\ said = [calls[c] EXCEPT !.pc = "run"]
              /\ row.status = "CONFIRMED" /\ row.action = proposals[p].action
  <2>1. CASE update(c)
    <3>1. PICK name \in Names, amount \in Amounts :
            /\ proposals' = [proposals EXCEPT ![p].action =
                               [calls[c].action EXCEPT !.name = name, !.amount = amount]]
            /\ calls' = [calls EXCEPT ![c] = NoCall]
      BY <1>1, <2>1 DEF update, hangUp
    <3>2. PICK action : action = [calls[c].action EXCEPT !.name = name, !.amount = amount]
      OBVIOUS
    <3>3. action \in ActionRows
      BY <1>2, <3>2, ProposalsAssumption DEF ActionRows
    <3> DEFINE new == [proposals[p] EXCEPT !.action = action]
    <3>4. new \in ProposalRows
      BY <1>2, <3>3 DEF ProposalRows
    <3>5. proposals' = [proposals EXCEPT ![p] = new]
      BY <1>2, <3>1, <3>2
    <3> HIDE DEF new
    <3> QED BY <3>1, <3>4, <3>5
  <2>2. CASE confirm(c)
    <3> DEFINE new == [proposals[p] EXCEPT !.status = "CONFIRMED"]
    <3>1. new \in ProposalRows /\ new.status = "CONFIRMED" /\ new.action = proposals[p].action
      BY <1>2 DEF ProposalRows
    <3>2. proposals' = [proposals EXCEPT ![p] = new]
      BY <1>1, <1>2, <2>2 DEF confirm
    <3>3. calls' = [calls EXCEPT ![c] = [calls[c] EXCEPT !.pc = "run"]]
      BY <1>0, <2>2 DEF confirm, goto
    <3> HIDE DEF new
    <3> QED BY <3>1, <3>2, <3>3
  <2>3. CASE reject(c)
    <3> DEFINE new == [proposals[p] EXCEPT !.status = "REJECTED"]
    <3>1. new \in ProposalRows
      BY <1>2 DEF ProposalRows
    <3>2. proposals' = [proposals EXCEPT ![p] = new]
      BY <1>1, <1>2, <2>3 DEF reject
    <3>3. calls' = [calls EXCEPT ![c] = NoCall]
      BY <2>3 DEF reject, hangUp
    <3> HIDE DEF new
    <3> QED BY <3>1, <3>2, <3>3
  <2> QED BY <2>1, <2>2, <2>3
<1>4. /\ GoodCall(said)
      /\ \/ said.proposal = 0
         \/ /\ said.proposal = p /\ said.pc \in RunPcs /\ said.payload = calls[c].payload
            /\ row.status = "CONFIRMED" /\ row.action = proposals[p].action
  <2>1. CASE said = NoCall
    BY <1>0, <2>1, HungUp
  <2>2. CASE /\ said = [calls[c] EXCEPT !.pc = "run"]
             /\ row.status = "CONFIRMED" /\ row.action = proposals[p].action
    <3>1. /\ said \in CallRows /\ said.pc = "run" /\ said.action = calls[c].action
          /\ said.payload = calls[c].payload /\ said.proposal = p
      BY <1>0, <1>1, <2>2 DEF CallRows, CallPcs, RunPcs
    <3> QED BY <1>2, <2>2, <3>1 DEF GoodCall, ReviewPcs, RunPcs
  <2> QED BY <1>3, <2>1, <2>2
<1>5. /\ UNCHANGED <<books, done, contested>>
      /\ proposals' \in Seq(ProposalRows) /\ Len(proposals') = Len(proposals)
      /\ proposals'[p] = row /\ \A q \in 1 .. Len(proposals) : q # p => proposals'[q] = proposals[q]
  <2>1. UNCHANGED <<books, done, contested>>
    BY DEF update, confirm, reject
  <2>2. DOMAIN proposals' = DOMAIN proposals /\ DOMAIN proposals = 1 .. Len(proposals)
    BY <1>0, <1>3
  <2>3. proposals' \in Seq(ProposalRows) /\ Len(proposals') = Len(proposals)
    BY <1>0, <1>2, <1>3, RowReplaced
  <2>4. proposals'[p] = row /\ \A q \in 1 .. Len(proposals) : q # p => proposals'[q] = proposals[q]
    BY <1>2, <1>3, <2>2
  <2> QED BY <2>1, <2>3, <2>4
<1>6. /\ ProposalTypes'
      /\ calls'[c] = said /\ \A d \in Callers \ {c} : calls'[d] = calls[d]
      /\ \A d \in Callers : calls'[d].pc \in {"idle", "resolve", "decide"} => calls'[d].proposal = 0
      /\ \A d \in Callers : calls'[d].pc \in RunPcs /\ calls'[d].proposal = 0 => calls'[d].sure
  <2>1. Len(proposals) <= Len(proposals')
    BY <1>0, <1>5
  <2> QED BY <1>0, <1>3, <1>4, <1>5, <2>1, CallTyped
<1>7. \A i \in DOMAIN done' : /\ done'[i].proposal \in 0 .. Len(proposals')
                              /\ done'[i].proposal = 0 => done'[i].sure
  BY <1>5 DEF ProposalInv, Approved
<1>8. ASSUME NEW q \in 1 .. Len(proposals'), q \notin contested' PROVE GoodProposal(q)'
  <2>1. GoodProposal(q) /\ q # 0
    BY <1>0, <1>5, <1>8 DEF ProposalInv, Approved
  <2>2. CASE q # p
    <3>1. \A d \in Callers : calls'[d].proposal = q => calls[d].proposal = q /\ calls'[d] = calls[d]
      BY <1>4, <1>6, <2>1, <2>2
    <3>2. proposals'[q] = proposals[q]
      BY <1>5, <1>8, <2>2
    <3> QED BY <1>5, <2>1, <3>1, <3>2 DEF GoodProposal
  <2>3. CASE q = p
    <3>1. \A d \in Callers \ {c} : calls[d].proposal # p
      BY <1>1, <2>1, <2>3 DEF GoodProposal
    <3>2. \A d \in Callers : calls'[d].proposal = p => d = c /\ calls'[d] = said
      BY <1>6, <3>1
    <3>3. /\ \A i \in DOMAIN done : done[i].proposal # p
          /\ calls[c].payload = proposals[p].action
      BY <1>1, <2>1, <2>3 DEF GoodProposal
    <3>4. \A d \in Callers : calls'[d].proposal = p =>
            /\ calls'[d].payload = proposals'[p].action
            /\ calls'[d].pc \in RunPcs /\ proposals'[p].status = "CONFIRMED"
      BY <1>2, <1>4, <1>5, <3>2, <3>3
    <3> QED BY <1>5, <2>3, <3>2, <3>3, <3>4 DEF GoodProposal, ReviewPcs, RunPcs
  <2> QED BY <2>2, <2>3
<1> QED BY <1>6, <1>7, <1>8 DEF ProposalInv, Approved

\* An action takes effect and its call ends.
LEMMA EffectStep ==
  ASSUME ProposalInv, NEW c \in Callers, calls[c].pc \in RunPcs, record(c), hangUp(c),
         books' \in Books, UNCHANGED <<proposals, contested>>
  PROVE  ProposalInv'
<1>0. /\ proposals \in Seq(ProposalRows) /\ calls \in [Callers -> CallRows] /\ done \in Seq(DoneRows)
  BY DEF ProposalInv, ProposalTypes
<1> DEFINE entry == [proposal |-> calls[c].proposal, action |-> calls[c].payload, sure |-> calls[c].sure]
           n == Len(done) + 1
<1>1. entry \in DoneRows
  <2>1. calls[c].payload \in ActionRows
    BY DEF ProposalInv, ProposalTypes, RunPcs
  <2> QED BY <1>0, <2>1 DEF DoneRows, CallRows
<1>2. entry.proposal = calls[c].proposal /\ entry.action = calls[c].payload /\ entry.sure = calls[c].sure
  OBVIOUS
<1>3. done' = Append(done, entry)
  BY DEF record
<1> HIDE DEF entry
<1>4. /\ done' \in Seq(DoneRows) /\ DOMAIN done' = DOMAIN done \cup {n} /\ n \notin DOMAIN done
      /\ done'[n] = entry /\ \A i \in DOMAIN done : done'[i] = done[i]
  BY <1>0, <1>1, <1>3
<1> HIDE DEF n
<1>5. /\ ProposalTypes'
      /\ calls'[c] = NoCall /\ \A d \in Callers \ {c} : calls'[d] = calls[d]
      /\ \A d \in Callers : calls'[d].pc \in {"idle", "resolve", "decide"} => calls'[d].proposal = 0
      /\ \A d \in Callers : calls'[d].pc \in RunPcs /\ calls'[d].proposal = 0 => calls'[d].sure
  <2>1. Len(proposals) <= Len(proposals')
    BY <1>0
  <2> QED BY <1>0, <1>4, <2>1, HungUp, CallTyped DEF hangUp
<1>6. NoCall.proposal = 0
  BY DEF NoCall
<1>7. \A i \in DOMAIN done' : /\ done'[i].proposal \in 0 .. Len(proposals')
                              /\ done'[i].proposal = 0 => done'[i].sure
  BY <1>2, <1>4 DEF ProposalInv, Approved, ProposalTypes
<1>8. ASSUME NEW q \in 1 .. Len(proposals'), q \notin contested' PROVE GoodProposal(q)'
  <2>1. GoodProposal(q) /\ q # 0
    BY <1>0, <1>8 DEF ProposalInv, Approved
  <2>2. \A d \in Callers : calls'[d].proposal = q => calls[d].proposal = q /\ calls'[d] = calls[d] /\ d # c
    BY <1>5, <1>6, <2>1
  <2>3. CASE q # calls[c].proposal
    <3>1. \A i \in DOMAIN done' : done'[i].proposal = q =>
            i \in DOMAIN done /\ done'[i] = done[i] /\ done[i].proposal = q
      BY <1>2, <1>4, <2>3
    <3> QED BY <2>1, <2>2, <3>1 DEF GoodProposal
  <2>4. CASE q = calls[c].proposal
    <3>1. \A d \in Callers : calls'[d].proposal # q
      BY <2>1, <2>2, <2>4 DEF GoodProposal
    <3>2. /\ \A i \in DOMAIN done : done[i].proposal # q
          /\ calls[c].payload = proposals[q].action /\ proposals[q].status = "CONFIRMED"
      BY <2>1, <2>4 DEF GoodProposal, ReviewPcs, RunPcs
    <3>3. \A i \in DOMAIN done' : done'[i].proposal = q => i = n
      BY <1>4, <3>2
    <3> QED BY <1>2, <1>4, <3>1, <3>2, <3>3 DEF GoodProposal
  <2> QED BY <2>3, <2>4
<1> QED BY <1>5, <1>7, <1>8 DEF ProposalInv, Approved

\* The executor, and a call that fails.
LEMMA ExecutorSteps ==
  ASSUME ProposalInv, NEW c \in Callers,
         run(c) \/ lookup(c) \/ addPerson(c) \/ attach(c) \/ write(c) \/ callFails(c)
  PROVE  ProposalInv'
<1>0. /\ calls[c] \in CallRows /\ books \in Books /\ proposals \in Seq(ProposalRows)
      /\ calls \in [Callers -> CallRows]
      /\ calls[c].pc \notin {"idle"} => calls[c].action \in ActionRows
      /\ calls[c].pc \notin {"idle", "resolve"} => calls[c].payload \in ActionRows
  BY DEF ProposalInv, ProposalTypes
<1> DEFINE Going(row) == /\ calls' = [calls EXCEPT ![c] = row] /\ row \in CallRows
                         /\ row.pc \in RunPcs /\ row.action \in ActionRows
                         /\ row.payload = calls[c].payload /\ row.proposal = calls[c].proposal
                         /\ row.sure = calls[c].sure
<1>1. ASSUME NEW row, Going(row), calls[c].pc \in RunPcs, books' \in Books,
             UNCHANGED <<proposals, done, contested>>
      PROVE  ProposalInv'
  <2>1. GoodCall(row)
    BY <1>0, <1>1 DEF GoodCall, ReviewPcs, RunPcs, ProposalInv, ProposalTypes, Approved
  <2> QED BY <1>1, <2>1, NoneGrows, CallGoesOn
<1>2. CASE run(c)
  <2>1. PICK pc : pc \in RunPcs /\ calls' = [calls EXCEPT ![c].pc = pc]
    BY <1>2 DEF run, goto, RunPcs
  <2> DEFINE row == [calls[c] EXCEPT !.pc = pc]
  <2>2. calls[c].pc \in RunPcs /\ calls[c].action \in ActionRows
    BY <1>0, <1>2 DEF run, at, RunPcs
  <2>3. Going(row)
    BY <1>0, <2>1, <2>2 DEF CallRows, CallPcs
  <2> HIDE DEF row, Going
  <2> QED BY <1>0, <1>1, <1>2, <2>2, <2>3 DEF run
<1>3. CASE lookup(c)
  <2>1. PICK p, pc : /\ p = resolvePerson(calls[c].action.name) /\ pc \in RunPcs
                     /\ calls' = [calls EXCEPT ![c].pc = pc, ![c].action.person = p]
    BY <1>3 DEF lookup, Onwards, RunPcs
  <2>2. p \in Nat /\ calls[c].pc \in RunPcs /\ calls[c].action \in ActionRows
    BY <1>0, <1>3, <2>1, ResolvedIds DEF lookup, at, RunPcs
  <2> DEFINE action == [calls[c].action EXCEPT !.person = p]
             row == [calls[c] EXCEPT !.pc = pc, !.action = action]
  <2>3. action \in ActionRows
    BY <2>2 DEF ActionRows
  <2>4. calls' = [calls EXCEPT ![c] = row]
    BY <1>0, <2>1
  <2> HIDE DEF action
  <2>5. Going(row)
    BY <1>0, <2>1, <2>3, <2>4 DEF CallRows, CallPcs
  <2> HIDE DEF row, Going
  <2> QED BY <1>0, <1>1, <1>3, <2>2, <2>5 DEF lookup
<1>4. CASE addPerson(c) /\ calls[c].action.tool = "add_person"
  <2>1. /\ calls[c].pc \in RunPcs /\ record(c) /\ hangUp(c) /\ UNCHANGED <<proposals, contested>>
        /\ books' = createPerson(books, calls[c].action.name, 0)
    BY <1>4 DEF addPerson, at, RunPcs
  <2>2. calls[c].action.name \in Names
    BY <1>0, <2>1 DEF RunPcs, ActionRows
  <2>3. books' \in Books
    BY <1>0, <2>1, <2>2, PeopleWritten
  <2> QED BY <2>1, <2>3, EffectStep
<1>5. CASE addPerson(c) /\ calls[c].action.tool # "add_person"
  <2>1. PICK p, pc : /\ p = Len(books.people) + 1 /\ pc \in RunPcs
                     /\ calls' = [calls EXCEPT ![c].pc = pc, ![c].action.person = p]
    BY <1>5 DEF addPerson, Onwards, RunPcs
  <2>2. /\ p \in Nat /\ calls[c].pc \in RunPcs /\ calls[c].action \in ActionRows
        /\ calls[c].action.name \in Names
    BY <1>0, <1>5, <2>1 DEF addPerson, at, RunPcs, Books, ActionRows
  <2> DEFINE action == [calls[c].action EXCEPT !.person = p]
             row == [calls[c] EXCEPT !.pc = pc, !.action = action]
  <2>3. action \in ActionRows
    BY <2>2 DEF ActionRows
  <2>4. calls' = [calls EXCEPT ![c] = row]
    BY <1>0, <2>1
  <2> HIDE DEF action
  <2>5. Going(row)
    BY <1>0, <2>1, <2>3, <2>4 DEF CallRows, CallPcs
  <2>6. books' \in Books /\ UNCHANGED <<proposals, done, contested>>
    BY <1>0, <1>5, <2>2, PeopleWritten DEF addPerson
  <2> HIDE DEF row, Going
  <2> QED BY <1>1, <2>2, <2>5, <2>6
<1>6. CASE attach(c)
  <2>1. PICK l : l = resolvePledgeForPerson(calls[c].action.person)
    OBVIOUS
  <2>2. PICK tool : tool = IF l = 0 THEN calls[c].action.tool ELSE "record_payment"
    OBVIOUS
  <2>3. calls' = [calls EXCEPT ![c].pc = "write", ![c].action.pledge = l, ![c].action.tool = tool]
    BY <1>6, <2>1, <2>2 DEF attach
  <2>4. l \in Nat /\ tool \in Tools /\ calls[c].pc \in RunPcs /\ calls[c].action \in ActionRows
    <3>1. calls[c].pc \in RunPcs /\ calls[c].action \in ActionRows
      BY <1>0, <1>6 DEF attach, at, RunPcs
    <3>2. l \in Nat
      BY <1>0, <2>1, ResolvedIds
    <3>3. tool \in Tools
      BY <2>2, <3>1 DEF ActionRows, Tools, writeAction
    <3> QED BY <3>1, <3>2, <3>3
  <2> DEFINE action == [calls[c].action EXCEPT !.pledge = l, !.tool = tool]
             row == [calls[c] EXCEPT !.pc = "write", !.action = action]
  <2>5. action \in ActionRows
    BY <2>4 DEF ActionRows
  <2>6. calls' = [calls EXCEPT ![c] = row]
    BY <1>0, <2>3
  <2> HIDE DEF action
  <2>7. Going(row)
    BY <1>0, <2>5, <2>6 DEF CallRows, CallPcs, RunPcs
  <2> HIDE DEF row, Going
  <2> QED BY <1>0, <1>1, <1>6, <2>4, <2>7 DEF attach
<1>7. CASE write(c)
  <2>1. /\ calls[c].pc = "write" /\ Gate(calls[c].action).ok /\ books' = Written(calls[c].action)
        /\ record(c) /\ hangUp(c) /\ UNCHANGED <<proposals, contested>>
    BY <1>7 DEF write, at
  <2>2. calls[c].pc \in RunPcs /\ calls[c].action \in ActionRows
    BY <1>0, <2>1 DEF RunPcs
  <2>3. books' \in Books
    BY <1>0, <2>1, <2>2, WrittenBooks
  <2> QED BY <2>1, <2>2, <2>3, EffectStep
<1>8. CASE callFails(c)
  <2>1. calls' = [calls EXCEPT ![c] = NoCall] /\ UNCHANGED <<books, proposals, done, contested>>
    BY <1>8 DEF callFails, hangUp
  <2> QED BY <1>0, <2>1, HungUp, NoneGrows, CallGoesOn
<1> QED BY <1>2, <1>3, <1>4, <1>5, <1>6, <1>7, <1>8

-----------------------------------------------------------------------------
(* Documents and the drains that read them.                                *)

\* Nothing of the document has been read.
Unread(d) == documents[d].extractions = 0 /\ documents[d].read = 0 /\ StagedFrom(d) = {}

\* What DocumentsAreReadOnce says of a document.
ReadOnce(d) ==
  /\ documents[d].extractions <= 1
  /\ Cardinality(StagedFrom(d)) <= documents[d].read
  /\ documents[d].status = "REQUIRES_REVIEW" => documents[d].extractions = 1
  /\ documents[d].kind = "BUDGET" =>
       Cardinality(StagedFrom(d)) =
         IF documents[d].status = "REQUIRES_REVIEW" THEN documents[d].read ELSE 0

\* How far the drain that holds a document has come with it.
Progress(d, drain) ==
  /\ drain.pc # "idle"
  /\ documents[d].status = IF drain.pc = "claim" THEN "UPLOADED" ELSE "PROCESSING"
  /\ drain.pc \in {"extract", "budget", "list"} => Unread(d)
  /\ drain.pc = "budget" => documents[d].kind = "BUDGET"
  /\ drain.pc \in {"list", "entries"} => documents[d].kind = "CONTRIBUTION_LIST"
  /\ drain.pc = "entries" => /\ documents[d].extractions = 1
                             /\ Cardinality(StagedFrom(d)) + drain.entries <= documents[d].read

\* A document no two drains took at once: at most one holds it.
GoodDocument(d) ==
  /\ ReadOnce(d)
  /\ documents[d].status = "UPLOADED" => Unread(d)
  /\ \A v, w \in Drains : drains[v].doc = d /\ drains[w].doc = d => v = w
  /\ \A w \in Drains : drains[w].doc = d => Progress(d, drains[w])

DocumentInv ==
  /\ DocumentTypes
  /\ \A p \in 1 .. Len(proposals) : proposals[p].origin \in 0 .. Len(documents)
  /\ \A d \in 1 .. Len(documents) : d \notin raced => GoodDocument(d)

\* What is staged from a document is finitely much.
LEMMA StagedIsFinite ==
  ASSUME proposals \in Seq(ProposalRows), NEW d
  PROVE  IsFiniteSet(StagedFrom(d)) /\ Cardinality(StagedFrom(d)) \in Nat
<1>1. StagedFrom(d) \subseteq 1 .. Len(proposals) /\ Len(proposals) \in Nat
  BY DEF StagedFrom
<1>2. IsFiniteSet(1 .. Len(proposals))
  BY <1>1, FS_Interval
<1>3. IsFiniteSet(StagedFrom(d))
  BY <1>1, <1>2, FS_Subset
<1> QED BY <1>3, FS_CardinalityType

\* A step of the proposals that stages from no document keeps the origins.
OriginsKept ==
  /\ Len(proposals) <= Len(proposals')
  /\ \A p \in 1 .. Len(proposals') :
       proposals'[p].origin = IF p \in 1 .. Len(proposals) THEN proposals[p].origin ELSE 0

\* No step of a call stages anything from a document or moves a proposal to one.
LEMMA StepsKeepOrigins ==
  ASSUME ProposalInv, ProposalInv', NEW c \in Callers, ProposalStep(c)
  PROVE  OriginsKept
<1>0. /\ proposals \in Seq(ProposalRows) /\ proposals' \in Seq(ProposalRows)
      /\ DOMAIN proposals = 1 .. Len(proposals) /\ Len(proposals) \in Nat
  BY DEF ProposalInv, ProposalTypes
<1>1. CASE UNCHANGED proposals
  BY <1>0, <1>1 DEF OriginsKept
<1>2. ASSUME NEW action, create(action, 0) PROVE OriginsKept
  <2>1. PICK row : row = Proposal(action, 0)
    OBVIOUS
  <2>2. row.origin = 0
    BY <2>1 DEF Proposal
  <2>3. proposals' = Append(proposals, row)
    BY <1>2, <2>1 DEF create
  <2>4. /\ Len(proposals') = Len(proposals) + 1 /\ proposals'[Len(proposals) + 1] = row
        /\ \A p \in 1 .. Len(proposals) : proposals'[p] = proposals[p]
    BY <1>0, <2>3
  <2>5. \A p \in 1 .. Len(proposals') : p \in 1 .. Len(proposals) \/ p = Len(proposals) + 1
    BY <1>0, <2>4
  <2> QED BY <1>0, <2>2, <2>4, <2>5 DEF OriginsKept
<1>3. ASSUME NEW row, NEW p \in DOMAIN proposals, proposals' = [proposals EXCEPT ![p] = row],
             row.origin = proposals[p].origin
      PROVE  OriginsKept
  <2>1. /\ DOMAIN proposals' = DOMAIN proposals /\ proposals'[p] = row
        /\ \A q \in 1 .. Len(proposals) : q # p => proposals'[q] = proposals[q]
    BY <1>0, <1>3
  <2>2. Len(proposals') = Len(proposals)
    BY <1>0, <2>1
  <2> QED BY <1>0, <1>3, <2>1, <2>2 DEF OriginsKept
<1>4. calls[c].pc \in ReviewPcs => calls[c].proposal \in DOMAIN proposals
  BY <1>0 DEF ProposalInv, ProposalTypes
<1>5. CASE stage(c)
  BY <1>2, <1>5 DEF stage
<1>6. CASE Decide(c)
  BY <1>1, <1>2, <1>6 DEF Decide
<1>7. CASE update(c) \/ confirm(c) \/ reject(c)
  <2>1. PICK p : p = calls[c].proposal
    OBVIOUS
  <2>2. p \in DOMAIN proposals
    BY <1>4, <1>7, <2>1 DEF update, confirm, reject, at, ReviewPcs
  <2>3. PICK row : row.origin = proposals[p].origin /\ proposals' = [proposals EXCEPT ![p] = row]
    <3>1. proposals[p] \in ProposalRows
      BY <1>0, <2>2
    <3>2. CASE update(c)
      <4>1. PICK action : proposals' = [proposals EXCEPT ![p].action = action]
        BY <2>1, <3>2 DEF update
      <4>2. PICK row : row = [proposals[p] EXCEPT !.action = action]
        OBVIOUS
      <4>3. row.origin = proposals[p].origin
        BY <3>1, <4>2 DEF ProposalRows
      <4> QED BY <4>1, <4>2, <4>3
    <3>3. CASE confirm(c) \/ reject(c)
      <4>1. PICK status : proposals' = [proposals EXCEPT ![p].status = status]
        BY <2>1, <3>3 DEF confirm, reject
      <4>2. PICK row : row = [proposals[p] EXCEPT !.status = status]
        OBVIOUS
      <4>3. row.origin = proposals[p].origin
        BY <3>1, <4>2 DEF ProposalRows
      <4> QED BY <4>1, <4>2, <4>3
    <3> QED BY <1>7, <3>2, <3>3
  <2> QED BY <1>3, <2>2, <2>3
<1> QED BY <1>1, <1>5, <1>6, <1>7
         DEF ProposalStep, capture, Resolve, Review, run, lookup, addPerson, attach, write, callFails

\* Documents are as they were when no drain and no document changes and
\* nothing is staged from them.
LEMMA DocumentsKept ==
  ASSUME ProposalTypes, ProposalTypes', DocumentInv, UNCHANGED <<documents, drains, raced>>, OriginsKept
  PROVE  DocumentInv'
<1>0. Len(proposals) \in Nat /\ Len(documents) \in Nat /\ Len(proposals') \in Nat
      /\ DOMAIN proposals = 1 .. Len(proposals) /\ DOMAIN proposals' = 1 .. Len(proposals')
  BY DEF ProposalTypes, DocumentInv, DocumentTypes
<1>1. DocumentTypes'
  BY DEF DocumentInv, DocumentTypes
<1>2. \A p \in 1 .. Len(proposals') : proposals'[p].origin \in 0 .. Len(documents')
  BY <1>0 DEF DocumentInv, OriginsKept
<1>3. ASSUME NEW d \in 1 .. Len(documents) PROVE StagedFrom(d)' = StagedFrom(d)
  <2>1. \A p : p \in 1 .. Len(proposals') /\ proposals'[p].origin = d
               <=> p \in 1 .. Len(proposals) /\ proposals[p].origin = d
    BY <1>0, <1>3 DEF OriginsKept
  <2> QED BY <1>0, <2>1 DEF StagedFrom
<1>4. ASSUME NEW d \in 1 .. Len(documents'), d \notin raced' PROVE GoodDocument(d)'
  <2>1. GoodDocument(d) /\ StagedFrom(d)' = StagedFrom(d)
    BY <1>3, <1>4 DEF DocumentInv
  <2> QED BY <2>1 DEF GoodDocument, ReadOnce, Unread, Progress
<1> QED BY <1>1, <1>2, <1>4 DEF DocumentInv

\* A drain goes on with its document, or leaves it.
LEMMA DrainStep ==
  ASSUME DocumentInv, NEW w \in Drains, NEW row \in DrainRows, NEW d \in 1 .. Len(documents),
         NEW doc \in DocumentRows, drains[w].doc = d,
         drains' = [drains EXCEPT ![w] = row],
         row = NoDrain \/ (row.pc # "idle" /\ row.doc = d),
         documents' = [documents EXCEPT ![d] = doc], UNCHANGED raced,
         \A e \in 1 .. Len(documents) : e # d => StagedFrom(e)' = StagedFrom(e),
         \A p \in 1 .. Len(proposals') : proposals'[p].origin \in 0 .. Len(documents),
         d \notin raced => /\ ReadOnce(d)' /\ (doc.status = "UPLOADED" => Unread(d)')
                           /\ row # NoDrain => Progress(d, row)'
  PROVE  DocumentInv'
<1>0. /\ documents \in Seq(DocumentRows) /\ drains \in [Drains -> DrainRows]
      /\ DOMAIN documents = 1 .. Len(documents) /\ NoDrain.pc = "idle" /\ NoDrain.doc = 0
      /\ Len(documents) \in Nat /\ d # 0
  BY DEF DocumentInv, DocumentTypes, NoDrain
<1>1. /\ documents' \in Seq(DocumentRows) /\ Len(documents') = Len(documents)
      /\ documents'[d] = doc
      /\ \A e \in 1 .. Len(documents) : e # d => documents'[e] = documents[e]
  BY <1>0, RowReplaced
<1>2. /\ drains' \in [Drains -> DrainRows] /\ drains'[w] = row
      /\ \A v \in Drains : v # w => drains'[v] = drains[v]
  BY <1>0
<1>3. DocumentTypes'
  BY <1>0, <1>1, <1>2 DEF DocumentInv, DocumentTypes
<1>4. ASSUME NEW e \in 1 .. Len(documents'), e \notin raced' PROVE GoodDocument(e)'
  <2>1. GoodDocument(e) /\ e # 0
    BY <1>0, <1>1, <1>4 DEF DocumentInv
  <2>2. CASE e # d
    <3>1. documents'[e] = documents[e] /\ StagedFrom(e)' = StagedFrom(e)
      BY <1>1, <1>4, <2>2
    <3>2. \A v \in Drains : drains'[v].doc = e => v # w /\ drains'[v] = drains[v]
      BY <1>0, <1>2, <2>1, <2>2
    <3> QED BY <2>1, <3>1, <3>2 DEF GoodDocument, ReadOnce, Unread, Progress
  <2>3. CASE e = d
    <3>1. \A v \in Drains : drains'[v].doc = d => v = w /\ row # NoDrain /\ drains'[v] = row
      BY <1>0, <1>2, <2>1, <2>3 DEF GoodDocument
    <3>2. d \notin raced
      BY <1>4, <2>3
    <3>3. \A v \in Drains : drains'[v].doc = d => Progress(d, drains[v])'
      BY <3>1, <3>2 DEF Progress
    <3>4. ReadOnce(d)' /\ (documents'[d].status = "UPLOADED" => Unread(d)')
      BY <1>1, <3>2
    <3> QED BY <2>3, <3>1, <3>3, <3>4 DEF GoodDocument
  <2> QED BY <2>2, <2>3
<1>5. \A p \in 1 .. Len(proposals') : proposals'[p].origin \in 0 .. Len(documents')
  BY <1>1
<1> QED BY <1>3, <1>4, <1>5 DEF DocumentInv

\* A drain that is not idle holds a document.
LEMMA Holding ==
  ASSUME ProposalTypes, DocumentInv, NEW w \in Drains, NEW d, d = drains[w].doc, drains[w].pc # "idle"
  PROVE  /\ d \in 1 .. Len(documents) /\ documents[d] \in DocumentRows /\ drains[w] \in DrainRows
         /\ documents \in Seq(DocumentRows) /\ drains \in [Drains -> DrainRows]
         /\ Cardinality(StagedFrom(d)) \in Nat
         /\ d \notin raced => /\ ReadOnce(d) /\ Progress(d, drains[w])
                              /\ documents[d].status = "UPLOADED" => Unread(d)
         /\ Unread(d) => Cardinality(StagedFrom(d)) = 0
<1>1. /\ d \in 1 .. Len(documents) /\ drains[w] \in DrainRows
      /\ documents \in Seq(DocumentRows) /\ drains \in [Drains -> DrainRows]
  BY DEF DocumentInv, DocumentTypes
<1>2. documents[d] \in DocumentRows
  BY <1>1
<1>3. Cardinality(StagedFrom(d)) \in Nat
  BY StagedIsFinite DEF ProposalTypes
<1>4. d \notin raced => /\ ReadOnce(d) /\ Progress(d, drains[w])
                        /\ documents[d].status = "UPLOADED" => Unread(d)
  BY <1>1 DEF DocumentInv, GoodDocument
<1>5. Unread(d) => Cardinality(StagedFrom(d)) = 0
  BY FS_EmptySet DEF Unread
<1> QED BY <1>1, <1>2, <1>3, <1>4, <1>5

\* A drain that only changes its own process and its document.
LEMMA QuietDrainStep ==
  ASSUME ProposalTypes, DocumentInv, NEW w \in Drains, NEW row \in DrainRows, NEW d, NEW doc \in DocumentRows,
         d = drains[w].doc, drains[w].pc # "idle",
         drains' = [drains EXCEPT ![w] = row],
         row = NoDrain \/ (row.pc # "idle" /\ row.doc = d),
         documents' = [documents EXCEPT ![d] = doc], UNCHANGED <<raced, proposals>>,
         d \notin raced => /\ ReadOnce(d)' /\ (doc.status = "UPLOADED" => Unread(d)')
                           /\ row # NoDrain => Progress(d, row)'
  PROVE  DocumentInv'
<1>1. d \in 1 .. Len(documents)
  BY Holding
<1>2. \A e \in 1 .. Len(documents) : StagedFrom(e)' = StagedFrom(e)
  BY DEF StagedFrom
<1>3. \A p \in 1 .. Len(proposals') : proposals'[p].origin \in 0 .. Len(documents)
  BY DEF DocumentInv
<1> QED BY <1>1, <1>2, <1>3, DrainStep

\* A drain is told about a document that nobody has taken, or passes over it.
LEMMA DeliverStep ==
  ASSUME ProposalTypes, ProposalTypes', DocumentInv, NEW w \in Drains, deliver(w)
  PROVE  DocumentInv'
<1>0. /\ proposals' = proposals /\ documents' = documents
      /\ documents \in Seq(DocumentRows) /\ drains \in [Drains -> DrainRows]
      /\ DOMAIN documents = 1 .. Len(documents) /\ Len(documents) \in Nat
      /\ DOMAIN proposals = 1 .. Len(proposals) /\ Len(proposals) \in Nat
      /\ drains[w].pc = "idle"
  BY DEF deliver, proposalVars, DocumentInv, DocumentTypes, ProposalTypes, here
<1>1. PICK d \in DOMAIN documents :
        IF ToProcess(d)
        THEN /\ drains' = [drains EXCEPT ![w] = [NoDrain EXCEPT !.pc = "claim", !.doc = d]]
             /\ raced' = raced \union
                  {x \in {d} : \E v \in Drains \ {w} : drains[v].doc = d /\ here(v, "claim")}
        ELSE UNCHANGED <<drains, raced>>
  BY DEF deliver
<1>2. CASE ~ToProcess(d)
  <2>1. UNCHANGED <<documents, drains, raced>>
    BY <1>0, <1>1, <1>2
  <2>2. OriginsKept
    BY <1>0 DEF OriginsKept
  <2> QED BY <2>1, <2>2, DocumentsKept
<1>3. CASE ToProcess(d)
  <2> DEFINE row == [NoDrain EXCEPT !.pc = "claim", !.doc = d]
  <2>1. d \in 1 .. Len(documents) /\ d \in Nat
    BY <1>0
  <2>2. row \in DrainRows /\ row.pc = "claim" /\ row.doc = d
    BY <2>1 DEF NoDrain, DrainRows, DrainPcs
  <2>3. drains' = [drains EXCEPT ![w] = row]
    BY <1>1, <1>3
  <2> HIDE DEF row
  <2>4. /\ drains' \in [Drains -> DrainRows] /\ drains'[w] = row
        /\ \A v \in Drains : v # w => drains'[v] = drains[v]
    BY <1>0, <2>2, <2>3
  <2>5. DocumentTypes'
    BY <1>0, <2>1, <2>2, <2>4 DEF DocumentInv, DocumentTypes
  <2>6. \A e : StagedFrom(e)' = StagedFrom(e)
    BY <1>0 DEF StagedFrom
  <2>7. ASSUME NEW e \in 1 .. Len(documents'), e \notin raced' PROVE GoodDocument(e)'
    <3>1. GoodDocument(e) /\ e # 0
      BY <1>0, <1>1, <1>3, <2>7 DEF DocumentInv
    <3>2. CASE e # d
      <4>1. \A v \in Drains : drains'[v].doc = e => v # w /\ drains'[v] = drains[v]
        BY <2>2, <2>4, <3>2
      <4> QED BY <1>0, <2>6, <3>1, <4>1 DEF GoodDocument, ReadOnce, Unread, Progress
    <3>3. CASE e = d
      <4>1. documents[d].status = "UPLOADED"
        BY <1>3 DEF ToProcess
      <4>2. \A v \in Drains \ {w} : ~(drains[v].doc = d /\ drains[v].pc = "claim")
        BY <1>1, <1>3, <2>7, <3>3 DEF here
      <4>3. \A v \in Drains \ {w} : drains[v].doc # d
        BY <3>1, <3>3, <4>1, <4>2 DEF GoodDocument, Progress
      <4>4. \A v \in Drains : drains'[v].doc = d => v = w
        BY <2>4, <4>3
      <4>5. Progress(d, row)'
        BY <1>0, <2>2, <4>1 DEF Progress
      <4>6. \A v \in Drains : drains'[v].doc = d => Progress(d, drains[v])'
        BY <2>4, <4>4, <4>5 DEF Progress
      <4>7. ReadOnce(d)' /\ (documents'[d].status = "UPLOADED" => Unread(d)')
        BY <1>0, <2>6, <3>1, <3>3 DEF GoodDocument, ReadOnce, Unread
      <4> QED BY <3>3, <4>4, <4>6, <4>7 DEF GoodDocument
    <3> QED BY <3>2, <3>3
  <2>8. \A p \in 1 .. Len(proposals') : proposals'[p].origin \in 0 .. Len(documents')
    BY <1>0 DEF DocumentInv
  <2> QED BY <2>5, <2>7, <2>8 DEF DocumentInv
<1> QED BY <1>2, <1>3

\* A document is submitted: nothing has been read of it.
LEMMA SubmitStep ==
  ASSUME ProposalTypes, DocumentInv, submitForExtraction
  PROVE  DocumentInv'
<1>0. /\ proposals' = proposals /\ drains' = drains /\ raced' = raced
      /\ documents \in Seq(DocumentRows) /\ drains \in [Drains -> DrainRows]
      /\ DOMAIN documents = 1 .. Len(documents) /\ Len(documents) \in Nat
      /\ DOMAIN proposals = 1 .. Len(proposals) /\ Len(proposals) \in Nat
  BY DEF submitForExtraction, proposalVars, DocumentInv, DocumentTypes, ProposalTypes
<1>1. PICK doc : /\ doc \in DocumentRows /\ doc.status = "UPLOADED" /\ doc.extractions = 0 /\ doc.read = 0
                 /\ documents' = Append(documents, doc)
  <2>1. PICK kind \in {"BUDGET", "CONTRIBUTION_LIST"} :
          documents' = Append(documents, [kind |-> kind, status |-> "UPLOADED",
                                          extractions |-> 0, read |-> 0])
    BY DEF submitForExtraction
  <2>2. PICK doc : doc = [kind |-> kind, status |-> "UPLOADED", extractions |-> 0, read |-> 0]
    OBVIOUS
  <2>3. doc \in DocumentRows /\ doc.status = "UPLOADED" /\ doc.extractions = 0 /\ doc.read = 0
    BY <2>2 DEF DocumentRows
  <2> QED BY <2>1, <2>2, <2>3
<1>2. /\ documents' \in Seq(DocumentRows) /\ Len(documents') = Len(documents) + 1
      /\ documents'[Len(documents) + 1] = doc
      /\ \A e \in 1 .. Len(documents) : documents'[e] = documents[e]
  BY <1>0, <1>1
<1>3. DocumentTypes'
  BY <1>0, <1>2 DEF DocumentInv, DocumentTypes
<1>4. \A e : StagedFrom(e)' = StagedFrom(e)
  BY <1>0 DEF StagedFrom
<1>5. ASSUME NEW e \in 1 .. Len(documents'), e \notin raced' PROVE GoodDocument(e)'
  <2>1. CASE e \in 1 .. Len(documents)
    <3>1. GoodDocument(e) /\ documents'[e] = documents[e] /\ StagedFrom(e)' = StagedFrom(e)
      BY <1>0, <1>2, <1>4, <1>5, <2>1 DEF DocumentInv
    <3> QED BY <1>0, <3>1 DEF GoodDocument, ReadOnce, Unread, Progress
  <2>2. CASE e \notin 1 .. Len(documents)
    <3>1. e = Len(documents) + 1 /\ documents'[e] = doc
      BY <1>0, <1>2, <1>5, <2>2
    <3>2. StagedFrom(e) = {}
      BY <1>0, <3>1 DEF StagedFrom, DocumentInv
    <3>3. \A w \in Drains : drains[w].doc # e
      BY <1>0, <3>1 DEF DocumentInv, DocumentTypes
    <3>4. StagedFrom(e)' = {} /\ Cardinality(StagedFrom(e)') = 0
      BY <1>4, <3>2, FS_EmptySet
    <3>5. Unread(e)' /\ ReadOnce(e)'
      BY <1>1, <3>1, <3>4 DEF Unread, ReadOnce
    <3> QED BY <1>0, <3>3, <3>5 DEF GoodDocument
  <2> QED BY <2>1, <2>2
<1>6. \A p \in 1 .. Len(proposals') : proposals'[p].origin \in 0 .. Len(documents')
  BY <1>0, <1>2 DEF DocumentInv
<1> QED BY <1>3, <1>5, <1>6 DEF DocumentInv

\* A drain takes its document, asks the model, or gives up.
LEMMA ReadingSteps ==
  ASSUME ProposalTypes, DocumentInv, NEW w \in Drains,
         claim(w) \/ extract(w) \/ fail(w) \/ drainFails(w)
  PROVE  DocumentInv'
<1>0. PICK d : d = drains[w].doc
  OBVIOUS
<1>1. drains[w].pc # "idle" /\ proposals' = proposals /\ raced' = raced
  BY DEF claim, extract, fail, drainFails, here, proposalVars
<1>2. /\ d \in 1 .. Len(documents) /\ documents[d] \in DocumentRows /\ drains[w] \in DrainRows
      /\ documents \in Seq(DocumentRows) /\ drains \in [Drains -> DrainRows]
      /\ Cardinality(StagedFrom(d)) \in Nat
      /\ d \notin raced => /\ ReadOnce(d) /\ Progress(d, drains[w])
                           /\ documents[d].status = "UPLOADED" => Unread(d)
      /\ Unread(d) => Cardinality(StagedFrom(d)) = 0
  BY <1>0, <1>1, Holding
<1>3. StagedFrom(d)' = StagedFrom(d)
  BY <1>1 DEF StagedFrom
<1>4. NoDrain \in DrainRows
  BY DEF NoDrain, DrainRows, DrainPcs
<1>5. documents[d].extractions \in Nat /\ documents[d].read \in Nat
  BY <1>2 DEF DocumentRows
<1>6. DOMAIN documents = 1 .. Len(documents)
  BY <1>2
<1>7. ASSUME NEW doc \in DocumentRows, documents' = [documents EXCEPT ![d] = doc]
      PROVE  documents'[d] = doc
  BY <1>2, <1>6, <1>7
<1>8. CASE claim(w)
  <2>1. /\ drains[w].pc = "claim" /\ drains' = [drains EXCEPT ![w].pc = "extract"]
        /\ documents' = [documents EXCEPT ![d].status = "PROCESSING"]
    BY <1>0, <1>8 DEF claim, here, become, goTo
  <2>2. PICK row, doc : row = [drains[w] EXCEPT !.pc = "extract"]
                        /\ doc = [documents[d] EXCEPT !.status = "PROCESSING"]
    OBVIOUS
  <2>3. row \in DrainRows /\ row.pc = "extract" /\ row.doc = d
    BY <1>0, <1>2, <2>2 DEF DrainRows, DrainPcs
  <2>4. /\ doc \in DocumentRows /\ doc.status = "PROCESSING" /\ doc.kind = documents[d].kind
        /\ doc.extractions = documents[d].extractions /\ doc.read = documents[d].read
    BY <1>2, <2>2 DEF DocumentRows
  <2>5. drains' = [drains EXCEPT ![w] = row] /\ documents' = [documents EXCEPT ![d] = doc]
    BY <2>1, <2>2
  <2>6. documents'[d] = doc
    BY <1>7, <2>4, <2>5
  <2>7. d \notin raced => Unread(d)
    BY <1>2, <2>1 DEF Progress
  <2>8. d \notin raced => Unread(d)' /\ ReadOnce(d)'
    BY <1>2, <1>3, <1>5, <2>4, <2>6, <2>7 DEF Unread, ReadOnce
  <2>9. d \notin raced => Progress(d, row)'
    BY <2>3, <2>4, <2>6, <2>8 DEF Progress
  <2> QED BY <1>0, <1>1, <2>3, <2>4, <2>5, <2>8, <2>9, QuietDrainStep
<1>9. ASSUME NEW row \in DrainRows, drains' = [drains EXCEPT ![w] = row], documents' = documents,
             row = NoDrain \/ (row.pc # "idle" /\ row.doc = d),
             d \notin raced /\ row # NoDrain => Progress(d, row)'
      PROVE  DocumentInv'
  <2>1. documents' = [documents EXCEPT ![d] = documents[d]]
    BY <1>2, <1>6, <1>9
  <2>2. PICK doc : doc = documents[d]
    OBVIOUS
  <2>3. d \notin raced => /\ ReadOnce(d)' /\ (doc.status = "UPLOADED" => Unread(d)')
    BY <1>2, <1>3, <1>9, <2>2 DEF ReadOnce, Unread
  <2>4. doc \in DocumentRows /\ documents' = [documents EXCEPT ![d] = doc]
    BY <1>2, <2>1, <2>2
  <2>5. d \notin raced => /\ ReadOnce(d)' /\ (doc.status = "UPLOADED" => Unread(d)')
                          /\ row # NoDrain => Progress(d, row)'
    BY <1>9, <2>3
  <2> QED BY <1>0, <1>1, <1>9, <2>4, <2>5, QuietDrainStep
<1>10. ASSUME drains' = [drains EXCEPT ![w].pc = "fail"], documents' = documents, drains[w].pc # "claim"
       PROVE  DocumentInv'
  <2>1. PICK row : row = [drains[w] EXCEPT !.pc = "fail"]
    OBVIOUS
  <2>2. row \in DrainRows /\ row.pc = "fail" /\ row.doc = d /\ drains' = [drains EXCEPT ![w] = row]
    BY <1>0, <1>2, <1>10, <2>1 DEF DrainRows, DrainPcs
  <2>3. d \notin raced => Progress(d, row)'
    BY <1>2, <1>10, <2>2 DEF Progress
  <2> QED BY <1>9, <1>10, <2>2, <2>3
<1>11. CASE extract(w)
  <2>1. drains[w].pc = "extract" /\ documents' = documents
    BY <1>11 DEF extract, here
  <2>2. CASE goTo(w, "fail")
    BY <1>10, <2>1, <2>2 DEF goTo
  <2>3. CASE \E n \in 0..MaxEntries :
          drains' = [drains EXCEPT ![w].entries = n,
             ![w].pc = IF documents[drains[w].doc].kind = "BUDGET" THEN "budget" ELSE "list"]
    <3>1. PICK n \in 0..MaxEntries, pc \in {"budget", "list"} :
            /\ drains' = [drains EXCEPT ![w].entries = n, ![w].pc = pc]
            /\ pc = IF documents[d].kind = "BUDGET" THEN "budget" ELSE "list"
      BY <1>0, <2>3
    <3>2. PICK row : row = [drains[w] EXCEPT !.entries = n, !.pc = pc]
      OBVIOUS
    <3>3. /\ row \in DrainRows /\ row.pc = pc /\ row.pc # "idle" /\ row.doc = d
          /\ drains' = [drains EXCEPT ![w] = row]
      <4>1. n \in Nat
        BY DocumentsAssumption
      <4>2. row \in DrainRows
        BY <1>2, <3>2, <4>1 DEF DrainRows, DrainPcs
      <4>3. row.pc = pc /\ row.doc = d
        BY <1>0, <1>2, <3>2 DEF DrainRows
      <4> QED BY <3>1, <3>2, <4>2, <4>3
    <3>4. d \notin raced => documents[d].status = "PROCESSING" /\ Unread(d)
      BY <1>2, <2>1 DEF Progress
    <3>5. Unread(d) => Unread(d)'
      BY <1>3, <2>1 DEF Unread
    <3>6. pc = "list" => documents[d].kind = "CONTRIBUTION_LIST"
      BY <1>2, <3>1 DEF DocumentRows
    <3>7. pc = "budget" => documents[d].kind = "BUDGET"
      BY <3>1
    <3>8. d \notin raced => Progress(d, row)'
      BY <2>1, <3>1, <3>3, <3>4, <3>5, <3>6, <3>7 DEF Progress
    <3> QED BY <1>9, <2>1, <3>3, <3>8
  <2> QED BY <1>11, <2>2, <2>3 DEF extract
<1>12. CASE fail(w)
  <2>1. /\ drains[w].pc = "fail" /\ drains' = [drains EXCEPT ![w] = NoDrain]
        /\ documents' = [documents EXCEPT ![d].status = "FAILED"]
    BY <1>0, <1>12 DEF fail, here, become, leave
  <2>2. PICK doc : doc = [documents[d] EXCEPT !.status = "FAILED"]
    OBVIOUS
  <2>3. /\ doc \in DocumentRows /\ doc.status = "FAILED" /\ doc.kind = documents[d].kind
        /\ doc.extractions = documents[d].extractions /\ doc.read = documents[d].read
    BY <1>2, <2>2 DEF DocumentRows
  <2>4. documents' = [documents EXCEPT ![d] = doc]
    BY <2>1, <2>2
  <2>5. documents'[d] = doc
    BY <1>7, <2>3, <2>4
  <2>6. d \notin raced => ReadOnce(d) /\ documents[d].status = "PROCESSING"
    BY <1>2, <2>1 DEF Progress
  <2>7. d \notin raced => ReadOnce(d)'
    BY <1>3, <2>3, <2>5, <2>6 DEF ReadOnce
  <2>8. d \notin raced => /\ ReadOnce(d)' /\ (doc.status = "UPLOADED" => Unread(d)')
                          /\ NoDrain # NoDrain => Progress(d, NoDrain)'
    BY <2>3, <2>7
  <2>9. PICK row : row = NoDrain
    OBVIOUS
  <2>10. row \in DrainRows /\ row = NoDrain /\ drains' = [drains EXCEPT ![w] = row]
    BY <1>4, <2>1, <2>9
  <2> QED BY <1>0, <1>1, <2>3, <2>4, <2>8, <2>10, QuietDrainStep
<1>13. CASE drainFails(w)
  <2>1. documents' = documents
    BY <1>13 DEF drainFails
  <2>2. CASE ~here(w, "claim") /\ goTo(w, "fail")
    BY <1>10, <2>1, <2>2 DEF here, goTo
  <2>3. CASE leave(w)
    BY <1>4, <1>9, <2>1, <2>3 DEF leave
  <2> QED BY <1>13, <2>2, <2>3 DEF drainFails
<1> QED BY <1>8, <1>11, <1>12, <1>13

\* The row of a contribution list's extraction, and its end.
LEMMA ListSteps ==
  ASSUME ProposalTypes, DocumentInv, NEW w \in Drains, processContributionList(w) \/ FinishList(w)
  PROVE  DocumentInv'
<1>0. PICK d : d = drains[w].doc
  OBVIOUS
<1>1. drains[w].pc # "idle" /\ proposals' = proposals /\ raced' = raced
  BY DEF processContributionList, FinishList, here, proposalVars
<1>2. /\ d \in 1 .. Len(documents) /\ documents[d] \in DocumentRows /\ drains[w] \in DrainRows
      /\ documents \in Seq(DocumentRows) /\ drains \in [Drains -> DrainRows]
      /\ Cardinality(StagedFrom(d)) \in Nat
      /\ d \notin raced => ReadOnce(d) /\ Progress(d, drains[w])
      /\ Unread(d) => Cardinality(StagedFrom(d)) = 0
  BY <1>0, <1>1, Holding
<1>3. StagedFrom(d)' = StagedFrom(d) /\ Cardinality(StagedFrom(d)') = Cardinality(StagedFrom(d))
  BY <1>1 DEF StagedFrom
<1>4. NoDrain \in DrainRows
  BY DEF NoDrain, DrainRows, DrainPcs
<1>5. /\ documents[d].extractions \in Nat /\ documents[d].read \in Nat /\ drains[w].entries \in Nat
      /\ DOMAIN documents = 1 .. Len(documents)
  BY <1>2 DEF DocumentRows, DrainRows
<1>6. CASE processContributionList(w)
  <2>1. PICK n : n = drains[w].entries
    OBVIOUS
  <2>2. /\ drains[w].pc = "list" /\ drains' = [drains EXCEPT ![w].pc = "entries"]
        /\ documents' = [documents EXCEPT ![d].extractions = @ + 1, ![d].read = @ + n,
                                          ![d].status = documents[d].status]
    BY <1>0, <1>6, <2>1 DEF processContributionList, here, ExtractionRow, goTo
  <2>3. PICK row, doc :
          /\ row = [drains[w] EXCEPT !.pc = "entries"]
          /\ doc = [documents[d] EXCEPT !.extractions = documents[d].extractions + 1,
                                        !.read = documents[d].read + n, !.status = documents[d].status]
    OBVIOUS
  <2>4. row \in DrainRows /\ row.pc = "entries" /\ row.doc = d /\ row.entries = n
    BY <1>0, <1>2, <2>1, <2>3 DEF DrainRows, DrainPcs
  <2>5. doc \in DocumentRows
    <3>1. PICK x, r : x = documents[d].extractions + 1 /\ r = documents[d].read + n
      OBVIOUS
    <3>2. x \in Nat /\ r \in Nat
      BY <1>5, <2>1, <3>1
    <3>3. doc = [documents[d] EXCEPT !.extractions = x, !.read = r, !.status = documents[d].status]
      BY <2>3, <3>1
    <3> QED BY <1>2, <3>2, <3>3 DEF DocumentRows
  <2>6. /\ doc.status = documents[d].status /\ doc.kind = documents[d].kind
        /\ doc.extractions = documents[d].extractions + 1 /\ doc.read = documents[d].read + n
    BY <1>2, <2>3 DEF DocumentRows
  <2>7. drains' = [drains EXCEPT ![w] = row]
    BY <2>2, <2>3
  <2>8. documents' = [documents EXCEPT ![d] = doc]
    BY <1>2, <1>5, <2>2, <2>3
  <2>9. documents'[d] = doc
    BY <1>2, <1>5, <2>8
  <2>10. d \notin raced =>
           /\ Unread(d) /\ documents[d].status = "PROCESSING" /\ documents[d].kind = "CONTRIBUTION_LIST"
    BY <1>2, <2>2 DEF Progress
  <2>11. d \notin raced =>
           /\ doc.status = "PROCESSING" /\ doc.kind = "CONTRIBUTION_LIST" /\ doc.extractions = 1
           /\ doc.read = n /\ n \in Nat /\ Cardinality(StagedFrom(d)') = 0
    BY <1>2, <1>3, <1>5, <2>1, <2>6, <2>10 DEF Unread
  <2>12. d \notin raced => ReadOnce(d)' /\ Progress(d, row)' /\ doc.status # "UPLOADED"
    BY <2>4, <2>9, <2>11 DEF ReadOnce, Progress
  <2> QED BY <1>0, <1>1, <2>4, <2>5, <2>7, <2>8, <2>12, QuietDrainStep
<1>7. CASE FinishList(w)
  <2>1. PICK status \in {"REQUIRES_REVIEW", "FAILED"} :
          /\ drains[w].pc = "entries" /\ drains' = [drains EXCEPT ![w] = NoDrain]
          /\ documents' = [documents EXCEPT ![d].status = status]
    BY <1>0, <1>7 DEF FinishList, here, become, leave
  <2>2. PICK row, doc : row = NoDrain /\ doc = [documents[d] EXCEPT !.status = status]
    OBVIOUS
  <2>3. /\ doc \in DocumentRows /\ doc.status = status /\ doc.kind = documents[d].kind
        /\ doc.extractions = documents[d].extractions /\ doc.read = documents[d].read
    BY <1>2, <2>2 DEF DocumentRows
  <2>4. /\ row \in DrainRows /\ drains' = [drains EXCEPT ![w] = row]
        /\ documents' = [documents EXCEPT ![d] = doc]
    BY <1>4, <2>1, <2>2
  <2>5. documents'[d] = doc
    BY <1>2, <1>5, <2>4
  <2>6. d \notin raced => /\ ReadOnce(d) /\ documents[d].kind = "CONTRIBUTION_LIST"
                          /\ documents[d].extractions = 1
    BY <1>2, <2>1 DEF Progress
  <2>7. d \notin raced => ReadOnce(d)' /\ doc.status # "UPLOADED"
    BY <1>3, <2>3, <2>5, <2>6 DEF ReadOnce
  <2> QED BY <1>0, <1>1, <2>2, <2>3, <2>4, <2>7, QuietDrainStep
<1> QED BY <1>6, <1>7

\* Proposals are added, and nothing else of them changes.
LEMMA GrowthKeeps ==
  ASSUME ProposalInv, UNCHANGED <<books, calls, done, contested>>, ProposalsGrow
  PROVE  ProposalInv'
<1>1. Len(proposals) \in Nat /\ Len(proposals') \in Nat /\ Len(proposals) <= Len(proposals')
  BY DEF ProposalInv, ProposalTypes, ProposalsGrow
<1>2. ProposalTypes'
  <2>1. books' \in Books /\ calls' \in [Callers -> CallRows] /\ done' \in Seq(DoneRows)
        /\ proposals' \in Seq(ProposalRows)
    BY DEF ProposalInv, ProposalTypes, ProposalsGrow
  <2>2. \A c \in Callers : calls[c].proposal \in 0 .. Len(proposals')
    BY <1>1 DEF ProposalInv, ProposalTypes
  <2>3. \A c \in Callers :
          /\ calls'[c].pc \notin {"idle"} => calls'[c].action \in ActionRows
          /\ calls'[c].pc \notin {"idle", "resolve"} => calls'[c].payload \in ActionRows
          /\ calls'[c].pc \in ReviewPcs => calls'[c].proposal # 0
    BY DEF ProposalInv, ProposalTypes
  <2> QED BY <2>1, <2>2, <2>3 DEF ProposalTypes
<1>3. \A i \in DOMAIN done' : /\ done'[i].proposal \in 0 .. Len(proposals')
                              /\ done'[i].proposal = 0 => done'[i].sure
  BY <1>1 DEF ProposalInv, Approved
<1>4. \A c \in Callers :
        /\ calls'[c].pc \in {"idle", "resolve", "decide"} => calls'[c].proposal = 0
        /\ calls'[c].pc \in RunPcs /\ calls'[c].proposal = 0 => calls'[c].sure
  BY DEF ProposalInv, Approved
<1>5. ASSUME NEW p \in 1 .. Len(proposals'), p \notin contested' PROVE GoodProposal(p)'
  <2>1. CASE p \in 1 .. Len(proposals)
    <3>1. GoodProposal(p) /\ proposals'[p] = proposals[p]
      BY <1>5, <2>1 DEF ProposalInv, Approved, ProposalsGrow
    <3> QED BY <3>1 DEF GoodProposal
  <2>2. CASE p \notin 1 .. Len(proposals)
    <3>1. /\ \A d \in Callers : calls'[d].proposal # p
          /\ \A i \in DOMAIN done' : done'[i].proposal # p
      BY <1>1, <1>5, <2>2 DEF ProposalInv, ProposalTypes, Approved
    <3> QED BY <3>1 DEF GoodProposal
  <2> QED BY <2>1, <2>2
<1> QED BY <1>2, <1>3, <1>4, <1>5 DEF ProposalInv, Approved

\* One entry of a contribution list: staged, asked about or skipped.
LEMMA EntryStep ==
  ASSUME ProposalInv, DocumentInv, NEW w \in Drains, StageEntry(w)
  PROVE  ProposalInv' /\ DocumentInv'
<1>0. PICK d : d = drains[w].doc
  OBVIOUS
<1>1. /\ drains[w].pc = "entries" /\ drains[w].entries > 0 /\ raced' = raced /\ documents' = documents
      /\ UNCHANGED <<books, calls, done, contested>>
  BY DEF StageEntry, here
<1>2. /\ d \in 1 .. Len(documents) /\ documents[d] \in DocumentRows /\ drains[w] \in DrainRows
      /\ documents \in Seq(DocumentRows) /\ drains \in [Drains -> DrainRows]
      /\ Cardinality(StagedFrom(d)) \in Nat
      /\ d \notin raced => ReadOnce(d) /\ Progress(d, drains[w])
  BY <1>0, <1>1, Holding DEF ProposalInv
<1>3. /\ documents[d].extractions \in Nat /\ documents[d].read \in Nat
      /\ drains[w].entries \in Nat /\ drains[w].staged \in Nat /\ drains[w].clarifications \in Nat
      /\ DOMAIN documents = 1 .. Len(documents)
      /\ proposals \in Seq(ProposalRows) /\ books \in Books
      /\ DOMAIN proposals = 1 .. Len(proposals) /\ Len(proposals) \in Nat
  BY <1>2 DEF DocumentRows, DrainRows, ProposalInv, ProposalTypes
<1>4. PICK n : n = drains[w].entries - 1
  OBVIOUS
<1>5. n \in Nat /\ n + 1 = drains[w].entries
  BY <1>1, <1>3, <1>4
<1>6. PICK doc : doc = documents[d]
  OBVIOUS
<1>7. /\ doc \in DocumentRows /\ documents' = [documents EXCEPT ![d] = doc] /\ documents'[d] = doc
  BY <1>1, <1>2, <1>3, <1>6
<1>8. d \notin raced =>
        /\ doc.status = "PROCESSING" /\ doc.kind = "CONTRIBUTION_LIST" /\ doc.extractions = 1
        /\ Cardinality(StagedFrom(d)) + (n + 1) <= doc.read
  BY <1>1, <1>2, <1>5, <1>6 DEF Progress
<1> DEFINE Left(row) == /\ row \in DrainRows /\ row.pc = "entries" /\ row.doc = d /\ row.entries = n
                        /\ drains' = [drains EXCEPT ![w] = row]
<1>9. ASSUME NEW row, Left(row), proposals' = proposals PROVE ProposalInv' /\ DocumentInv'
  <2>1. ProposalInv'
    BY <1>1, <1>9, NoneGrows, GrowthKeeps
  <2>2. Cardinality(StagedFrom(d)') = Cardinality(StagedFrom(d))
    BY <1>9 DEF StagedFrom
  <2>3. d \notin raced => ReadOnce(d)' /\ Progress(d, row)' /\ doc.status # "UPLOADED"
    BY <1>2, <1>3, <1>5, <1>6, <1>7, <1>8, <1>9, <2>2 DEF ReadOnce, Progress
  <2>4. DocumentInv'
    BY <1>0, <1>1, <1>7, <1>9, <2>3, QuietDrainStep DEF ProposalInv
  <2> QED BY <2>1, <2>4
<1>10. ASSUME NEW row, Left(row), NEW action \in ActionRows, create(action, d)
       PROVE  ProposalInv' /\ DocumentInv'
  <2>1. d \in Nat
    BY <1>2
  <2>2. ProposalInv'
    BY <1>1, <1>10, <2>1, OneGrows, GrowthKeeps
  <2>3. PICK new : new = Proposal(action, d)
    OBVIOUS
  <2>4. new.origin = d /\ proposals' = Append(proposals, new)
    BY <1>10, <2>3 DEF Proposal, create
  <2>5. /\ Len(proposals') = Len(proposals) + 1 /\ DOMAIN proposals' = 1 .. Len(proposals) + 1
        /\ proposals'[Len(proposals) + 1] = new
        /\ \A p \in 1 .. Len(proposals) : proposals'[p] = proposals[p]
    BY <1>3, <2>4
  <2>6. \A e : StagedFrom(e)' = IF e = d THEN StagedFrom(d) \cup {Len(proposals) + 1} ELSE StagedFrom(e)
    <3>1. \A p : p \in 1 .. Len(proposals) + 1 <=> p \in 1 .. Len(proposals) \/ p = Len(proposals) + 1
      BY <1>3
    <3>2. Len(proposals) + 1 \notin 1 .. Len(proposals)
      BY <1>3
    <3>3. DOMAIN proposals' = DOMAIN proposals \cup {Len(proposals) + 1}
      BY <1>3, <2>5, <3>1
    <3> QED BY <1>3, <2>4, <2>5, <3>2, <3>3 DEF StagedFrom
  <2>7. Cardinality(StagedFrom(d)') = Cardinality(StagedFrom(d)) + 1
    <3>1. Len(proposals) + 1 \notin StagedFrom(d)
      BY <1>3 DEF StagedFrom
    <3>2. StagedFrom(d)' = StagedFrom(d) \cup {Len(proposals) + 1}
      BY <2>6
    <3>3. IsFiniteSet(StagedFrom(d))
      BY <1>3, StagedIsFinite
    <3> QED BY <3>1, <3>2, <3>3, FS_AddElement
  <2>8. d \notin raced => ReadOnce(d)' /\ Progress(d, row)' /\ doc.status # "UPLOADED"
    BY <1>2, <1>3, <1>5, <1>6, <1>7, <1>8, <1>10, <2>7 DEF ReadOnce, Progress
  <2>9. \A p \in 1 .. Len(proposals') : proposals'[p].origin \in 0 .. Len(documents)
    BY <1>2, <1>3, <2>4, <2>5 DEF DocumentInv
  <2>10. \A e \in 1 .. Len(documents) : e # d => StagedFrom(e)' = StagedFrom(e)
    BY <2>6
  <2>11. row.pc # "idle" /\ row.doc = d /\ row \in DrainRows /\ drains' = [drains EXCEPT ![w] = row]
    BY <1>10
  <2>12. DocumentInv'
    BY <1>0, <1>1, <1>2, <1>7, <2>8, <2>9, <2>10, <2>11, DrainStep
  <2> QED BY <2>2, <2>12
<1>11. ASSUME NEW row, row = [drains[w] EXCEPT !.entries = n], drains' = [drains EXCEPT ![w] = row]
       PROVE  Left(row)
  BY <1>0, <1>1, <1>2, <1>5, <1>11 DEF DrainRows
<1>12. ASSUME NEW row, NEW k \in Nat, row = [drains[w] EXCEPT !.entries = n, !.clarifications = k],
              drains' = [drains EXCEPT ![w] = row]
       PROVE  Left(row)
  BY <1>0, <1>1, <1>2, <1>5, <1>12 DEF DrainRows
<1>13. ASSUME NEW row, NEW k \in Nat, row = [drains[w] EXCEPT !.entries = n, !.staged = k],
              drains' = [drains EXCEPT ![w] = row]
       PROVE  Left(row)
  BY <1>0, <1>1, <1>2, <1>5, <1>13 DEF DrainRows
<1> HIDE DEF Left
<1>14. CASE drains' = [drains EXCEPT ![w].entries = @ - 1] /\ UNCHANGED proposals
  <2>1. PICK row : row = [drains[w] EXCEPT !.entries = n]
    OBVIOUS
  <2>2. drains' = [drains EXCEPT ![w] = row]
    BY <1>2, <1>4, <1>14, <2>1
  <2> QED BY <1>9, <1>11, <1>14, <2>1, <2>2
<1>15. ASSUME NEW s \in Said, NEW said,
              said = [NoAction EXCEPT !.tool = s.tool, !.name = s.name, !.amount = s.amount],
              IF NeedsClarification(said)
              THEN /\ drains' = [drains EXCEPT ![w].entries = @ - 1, ![w].clarifications = @ + 1]
                   /\ UNCHANGED proposals
              ELSE /\ drains' = [drains EXCEPT ![w].entries = @ - 1, ![w].staged = @ + 1]
                   /\ create(Resolved(said), drains[w].doc)
       PROVE  ProposalInv' /\ DocumentInv'
  <2>1. said \in ActionRows
    <3>1. s.tool \in Tools /\ s.name \in Names /\ s.amount \in Nat
      BY ProposalsAssumption DEF Said, Tools, writeAction
    <3> QED BY <1>15, <3>1 DEF NoAction, ActionRows
  <2>2. CASE NeedsClarification(said)
    <3>1. PICK k, row : /\ k = drains[w].clarifications + 1
                        /\ row = [drains[w] EXCEPT !.entries = n, !.clarifications = k]
      OBVIOUS
    <3>2. k \in Nat /\ drains' = [drains EXCEPT ![w] = row] /\ UNCHANGED proposals
      <4>1. k \in Nat
        BY <1>3, <3>1
      <4>2. drains' = [drains EXCEPT ![w].entries = @ - 1, ![w].clarifications = @ + 1] /\ UNCHANGED proposals
        BY <1>15, <2>2, Zenon
      <4>3. drains' = [drains EXCEPT ![w].entries = n, ![w].clarifications = k]
        BY <1>2, <1>4, <3>1, <4>2
      <4> QED BY <1>2, <3>1, <4>1, <4>2, <4>3
    <3> QED BY <1>9, <1>12, <3>1, <3>2
  <2>3. CASE ~NeedsClarification(said)
    <3>1. PICK k, row : /\ k = drains[w].staged + 1
                        /\ row = [drains[w] EXCEPT !.entries = n, !.staged = k]
      OBVIOUS
    <3>2. k \in Nat /\ drains' = [drains EXCEPT ![w] = row]
      <4>1. k \in Nat
        BY <1>3, <3>1
      <4>2. drains' = [drains EXCEPT ![w].entries = @ - 1, ![w].staged = @ + 1]
        BY <1>15, <2>3, Zenon
      <4>3. drains' = [drains EXCEPT ![w].entries = n, ![w].staged = k]
        BY <1>2, <1>4, <3>1, <4>2
      <4> QED BY <1>2, <3>1, <4>1, <4>2, <4>3
    <3>3. PICK action : action = Resolved(said)
      OBVIOUS
    <3>4. action \in ActionRows /\ create(action, d)
      <4>1. action \in ActionRows
        BY <1>3, <2>1, <3>3, ResolvedIsAction
      <4> QED BY <1>0, <1>15, <2>3, <3>3, <4>1 DEF create
    <3> QED BY <1>10, <1>13, <3>1, <3>2, <3>4
  <2> QED BY <2>2, <2>3
<1> QED BY <1>14, <1>15 DEF StageEntry

\* A budget: its lines are staged, and its extraction and status written, at once.
LEMMA BudgetStep ==
  ASSUME ProposalInv, DocumentInv, NEW w \in Drains, processBudget(w)
  PROVE  ProposalInv' /\ DocumentInv'
<1>0. PICK d : d = drains[w].doc
  OBVIOUS
<1>1. /\ drains[w].pc = "budget" /\ raced' = raced /\ UNCHANGED <<books, calls, done, contested>>
      /\ drains' = [drains EXCEPT ![w] = NoDrain]
  BY DEF processBudget, here, leave
<1>2. /\ d \in 1 .. Len(documents) /\ documents[d] \in DocumentRows /\ drains[w] \in DrainRows
      /\ documents \in Seq(DocumentRows) /\ drains \in [Drains -> DrainRows]
      /\ d \notin raced => ReadOnce(d) /\ Progress(d, drains[w])
  BY <1>0, <1>1, Holding DEF ProposalInv
<1>3. PICK n, m : n = drains[w].entries /\ m = Len(proposals)
  OBVIOUS
<1>4. /\ documents[d].extractions \in Nat /\ documents[d].read \in Nat
      /\ n \in Nat /\ m \in Nat /\ d \in Nat
      /\ DOMAIN documents = 1 .. Len(documents) /\ DOMAIN proposals = 1 .. m
      /\ proposals \in Seq(ProposalRows)
  BY <1>2, <1>3 DEF DocumentRows, DrainRows, ProposalInv, ProposalTypes
<1>5. PICK rows : /\ rows \in Seq(ProposalRows) /\ Len(rows) = n
                  /\ \A i \in 1 .. n : rows[i].origin = d
                  /\ proposals' = proposals \o rows
  <2>1. PICK lines \in Lines(w) :
          proposals' = proposals \o [i \in DOMAIN lines |->
            Proposal([NoAction EXCEPT !.tool = lines[i].tool, !.name = lines[i].name,
                                      !.amount = lines[i].amount], d)]
    BY <1>0 DEF processBudget
  <2> DEFINE row(i) == Proposal([NoAction EXCEPT !.tool = lines[i].tool, !.name = lines[i].name,
                                                 !.amount = lines[i].amount], d)
  <2>2. DOMAIN lines = 1 .. n
    BY <1>3 DEF Lines
  <2>3. ASSUME NEW i \in 1 .. n PROVE row(i) \in ProposalRows /\ row(i).origin = d
    <3>1. lines[i].tool \in Tools /\ lines[i].name \in Names /\ lines[i].amount \in Nat
      BY <1>3, <2>3, ProposalsAssumption DEF Lines, Tools, writeAction
    <3>2. PICK action : action = [NoAction EXCEPT !.tool = lines[i].tool, !.name = lines[i].name,
                                                  !.amount = lines[i].amount]
      OBVIOUS
    <3>3. action \in ActionRows
      BY <3>1, <3>2 DEF NoAction, ActionRows
    <3>4. row(i) = Proposal(action, d)
      BY <3>2
    <3> QED BY <1>4, <3>3, <3>4 DEF Proposal, ProposalRows
  <2>4. PICK rows : rows = [i \in 1 .. n |-> row(i)]
    OBVIOUS
  <2>5. proposals' = proposals \o rows
    BY <2>1, <2>2, <2>4
  <2> HIDE DEF row
  <2>6. rows \in [1 .. n -> ProposalRows] /\ \A i \in 1 .. n : rows[i].origin = d
    BY <2>3, <2>4
  <2>7. rows \in Seq(ProposalRows) /\ Len(rows) = n
    BY <1>4, <2>6
  <2> QED BY <2>5, <2>6, <2>7
<1>6. /\ proposals' \in Seq(ProposalRows) /\ Len(proposals') = m + n
      /\ \A p \in 1 .. m : proposals'[p] = proposals[p]
      /\ \A p \in m + 1 .. m + n : proposals'[p].origin = d
  <2>1. proposals' \in Seq(ProposalRows) /\ Len(proposals') = m + n
    <3>1. /\ proposals \o rows \in Seq(ProposalRows)
          /\ Len(proposals \o rows) = Len(proposals) + Len(rows)
      BY <1>4, <1>5, ConcatProperties, Zenon
    <3> QED BY <1>3, <1>5, <3>1, Zenon
  <2>2. \A p \in 1 .. m + n : proposals'[p] = IF p <= m THEN proposals[p] ELSE rows[p - m]
    BY <1>3, <1>4, <1>5
  <2>3. \A p \in 1 .. m : p \in 1 .. m + n /\ p <= m
    BY <1>4
  <2>4. \A p \in m + 1 .. m + n : p \in 1 .. m + n /\ ~(p <= m) /\ p - m \in 1 .. n
    BY <1>4
  <2> QED BY <1>5, <2>1, <2>2, <2>3, <2>4
<1>7. ProposalInv'
  <2>1. ProposalsGrow
    BY <1>3, <1>4, <1>6 DEF ProposalsGrow
  <2> QED BY <1>1, <2>1, GrowthKeeps
<1>8. \A p : p \in DOMAIN proposals' <=> p \in 1 .. m \/ p \in m + 1 .. m + n
  BY <1>4, <1>6
<1>9. \A e : e # d => StagedFrom(e)' = StagedFrom(e)
  BY <1>4, <1>6, <1>8 DEF StagedFrom
<1>10. StagedFrom(d)' = StagedFrom(d) \cup (m + 1 .. m + n)
  BY <1>4, <1>6, <1>8 DEF StagedFrom
<1>11. PICK x, r, row, doc :
         /\ x = documents[d].extractions + 1 /\ r = documents[d].read + n /\ row = NoDrain
         /\ doc = [documents[d] EXCEPT !.extractions = x, !.read = r, !.status = "REQUIRES_REVIEW"]
  OBVIOUS
<1>12. /\ doc \in DocumentRows /\ doc.extractions = x /\ doc.read = r /\ doc.status = "REQUIRES_REVIEW"
       /\ doc.kind = documents[d].kind /\ row \in DrainRows
  <2>1. x \in Nat /\ r \in Nat
    BY <1>4, <1>11
  <2>2. doc \in DocumentRows
    BY <1>2, <1>11, <2>1 DEF DocumentRows
  <2>3. /\ doc.extractions = x /\ doc.read = r /\ doc.status = "REQUIRES_REVIEW"
        /\ doc.kind = documents[d].kind
    BY <1>2, <1>11 DEF DocumentRows
  <2>4. row \in DrainRows
    BY <1>11 DEF NoDrain, DrainRows, DrainPcs
  <2> QED BY <2>2, <2>3, <2>4
<1>13. documents' = [documents EXCEPT ![d] = doc]
  <2>1. documents' = [documents EXCEPT ![d].extractions = @ + 1, ![d].read = @ + n,
                                       ![d].status = "REQUIRES_REVIEW"]
    BY <1>0, <1>3 DEF processBudget, ExtractionRow
  <2> QED BY <1>2, <1>4, <1>11, <2>1
<1>14. documents'[d] = doc
  BY <1>2, <1>4, <1>13
<1>15. d \notin raced => ReadOnce(d)'
  <2> SUFFICES ASSUME d \notin raced PROVE ReadOnce(d)'
    OBVIOUS
  <2>1. Unread(d)
    BY <1>1, <1>2 DEF Progress
  <2>2. x = 1 /\ r = n
    BY <1>4, <1>11, <2>1 DEF Unread
  <2>3. StagedFrom(d)' = m + 1 .. m + n
    BY <1>10, <2>1 DEF Unread
  <2>4. Cardinality(m + 1 .. m + n) = n
    <3>1. m + 1 \in Int /\ m + n \in Int
      BY <1>4
    <3>2. PICK a \in Int, b \in Int : a = m + 1 /\ b = m + n
      BY <3>1
    <3>3. Cardinality(a .. b) = IF a > b THEN 0 ELSE b - a + 1
      BY FS_Interval, Zenon
    <3>4. (IF a > b THEN 0 ELSE b - a + 1) = n
      BY <1>4, <3>2
    <3> QED BY <3>2, <3>3, <3>4
  <2> QED BY <1>4, <1>12, <1>14, <2>2, <2>3, <2>4 DEF ReadOnce
<1>16. \A p \in 1 .. Len(proposals') : proposals'[p].origin \in 0 .. Len(documents)
  <2>1. \A p \in 1 .. m : proposals[p].origin \in 0 .. Len(documents)
    BY <1>3 DEF DocumentInv
  <2>2. d \in 0 .. Len(documents)
    BY <1>2
  <2>3. \A p \in 1 .. Len(proposals') : p \in 1 .. m \/ p \in m + 1 .. m + n
    BY <1>4, <1>6
  <2> QED BY <1>6, <2>1, <2>2, <2>3
<1>17. drains' = [drains EXCEPT ![w] = row] /\ row = NoDrain /\ drains[w].doc = d
  BY <1>0, <1>1, <1>11
<1>18. DocumentInv'
  BY <1>1, <1>2, <1>9, <1>12, <1>13, <1>15, <1>16, <1>17, DrainStep
<1> QED BY <1>7, <1>18

-----------------------------------------------------------------------------
(* The theorems.                                                           *)

\* Before the first call and the first delivery the invariants hold.
LEMMA DocumentsStart ==
  ASSUME Init
  PROVE  ProposalInv /\ DocumentInv
<1>1. books \in Books
  <2>1. PICK start \in Starts : books = start.books
    BY DEF Init
  <2> QED BY <2>1, DocumentsAssumption, BooksNamed
<1>2. /\ proposals = <<>> /\ calls = [c \in Callers |-> NoCall] /\ done = <<>> /\ contested = {}
      /\ documents = <<>> /\ raced = {} /\ drains = [w \in Drains |-> NoDrain]
  BY DEF Init, ProposalsInit, DocumentsInit
<1>3. NoCall \in CallRows /\ NoCall.pc = "idle" /\ NoCall.proposal = 0
  BY DEF NoCall, CallRows, CallPcs
<1>4. NoDrain \in DrainRows /\ NoDrain.pc = "idle" /\ NoDrain.doc = 0
  BY DEF NoDrain, DrainRows, DrainPcs
<1>5. Len(proposals) = 0 /\ Len(documents) = 0 /\ DOMAIN done = {}
  BY <1>2
<1>6. ProposalTypes
  BY <1>1, <1>2, <1>3, <1>5 DEF ProposalTypes, ReviewPcs
<1>7. Approved
  BY <1>2, <1>3, <1>5 DEF Approved, RunPcs
<1>8. DocumentInv
  BY <1>2, <1>4, <1>5 DEF DocumentInv, DocumentTypes
<1> QED BY <1>6, <1>7, <1>8 DEF ProposalInv

\* Every step of a call, of an upload or of a drain keeps them.
LEMMA DocumentsGoOn ==
  ASSUME ProposalInv, DocumentInv, [Next]_vars
  PROVE  ProposalInv' /\ DocumentInv'
<1>0. ProposalTypes
  BY DEF ProposalInv
<1>1. ASSUME NEW c \in Callers, ProposalStep(c), UNCHANGED documentVars
      PROVE  ProposalInv' /\ DocumentInv'
  <2>1. ProposalInv'
    BY <1>1, CaptureSteps, StageStep, ReviewStep, ResolutionSteps, ExecutorSteps
       DEF ProposalStep, ReviewPcs
  <2>2. OriginsKept
    BY <1>1, <2>1, StepsKeepOrigins
  <2>3. DocumentInv'
    BY <1>1, <2>1, <2>2, DocumentsKept DEF ProposalInv, documentVars
  <2> QED BY <2>1, <2>3
<1>2. ASSUME UNCHANGED <<books, proposals, calls, done, contested>>
      PROVE  ProposalInv' /\ OriginsKept
  <2>1. ProposalInv'
    BY <1>2, NoneGrows, GrowthKeeps
  <2> QED BY <1>2, <2>1 DEF OriginsKept, ProposalInv, ProposalTypes
<1>3. CASE upload
  <2>1. UNCHANGED <<books, proposals, calls, done, contested, documents, drains, raced>>
    BY <1>3 DEF upload, proposalVars
  <2> QED BY <1>2, <2>1, DocumentsKept DEF ProposalInv
<1>4. CASE submitForExtraction
  <2>1. UNCHANGED <<books, proposals, calls, done, contested>>
    BY <1>4 DEF submitForExtraction, proposalVars
  <2> QED BY <1>0, <1>2, <1>4, <2>1, SubmitStep
<1>5. ASSUME NEW w \in Drains, deliver(w) PROVE ProposalInv' /\ DocumentInv'
  <2>1. UNCHANGED <<books, proposals, calls, done, contested>>
    BY <1>5 DEF deliver, proposalVars
  <2> QED BY <1>0, <1>2, <1>5, <2>1, DeliverStep DEF ProposalInv
<1>6. ASSUME NEW w \in Drains, claim(w) \/ extract(w) \/ fail(w) \/ drainFails(w)
      PROVE  ProposalInv' /\ DocumentInv'
  <2>1. UNCHANGED <<books, proposals, calls, done, contested>>
    BY <1>6 DEF claim, extract, fail, drainFails, proposalVars
  <2> QED BY <1>0, <1>2, <1>6, <2>1, ReadingSteps
<1>7. ASSUME NEW w \in Drains, processContributionList(w) \/ FinishList(w)
      PROVE  ProposalInv' /\ DocumentInv'
  <2>1. UNCHANGED <<books, proposals, calls, done, contested>>
    BY <1>7 DEF processContributionList, FinishList, proposalVars
  <2> QED BY <1>0, <1>2, <1>7, <2>1, ListSteps
<1>8. CASE UNCHANGED vars
  <2>1. UNCHANGED <<books, proposals, calls, done, contested, documents, drains, raced>>
    BY <1>8 DEF vars
  <2> QED BY <1>2, <2>1, DocumentsKept DEF ProposalInv
<1> QED BY <1>1, <1>3, <1>4, <1>5, <1>6, <1>7, <1>8, BudgetStep, EntryStep DEF Next, DocumentStep

\* The rows keep their types, every proposal that no two calls held at once
\* is as approved as its status says, and every document that no two drains
\* took at once is as far as its only drain has read it.
THEOREM ProposalsAndDocuments == Spec => [](ProposalInv /\ DocumentInv)
<1>1. Init => ProposalInv /\ DocumentInv
  BY DocumentsStart
<1>2. (ProposalInv /\ DocumentInv) /\ [Next]_vars => (ProposalInv /\ DocumentInv)'
  BY DocumentsGoOn
<1> QED BY <1>1, <1>2, PTL DEF Spec

\* Nothing takes effect but what a human was sure of or what a proposal,
\* confirmed once and unchanged since, says: ConfirmationService.confirm
\* writes the status before ToolExecutor runs the payload that was read.
THEOREM ApprovedOnlyOnce == Spec => []ProposalsRunAsApproved
<1>1. ProposalInv => ProposalsRunAsApproved
  <2> SUFFICES ASSUME ProposalInv PROVE ProposalsRunAsApproved
    OBVIOUS
  <2>1. \A i \in DOMAIN done : done[i].proposal = 0 => done[i].sure
    BY DEF ProposalInv, Approved
  <2>2. ASSUME NEW p \in DOMAIN proposals \ contested PROVE GoodProposal(p)
    BY <2>2 DEF ProposalInv, ProposalTypes, Approved
  <2>3. ASSUME NEW p \in DOMAIN proposals \ contested PROVE Cardinality(RunsOf(p)) <= 1
    <3>1. \A i, j \in RunsOf(p) : i = j
      BY <2>2, <2>3 DEF GoodProposal, RunsOf
    <3>2. CASE RunsOf(p) = {}
      BY <3>2, FS_EmptySet
    <3>3. CASE RunsOf(p) # {}
      <4>1. PICK i : i \in RunsOf(p)
        BY <3>3
      <4>2. RunsOf(p) = {i}
        BY <3>1, <4>1
      <4>3. Cardinality({i}) = 1
        BY FS_Singleton, Zenon
      <4> QED BY <4>2, <4>3
    <3> QED BY <3>2, <3>3
  <2>4. ASSUME NEW p \in DOMAIN proposals \ contested, NEW i \in RunsOf(p)
        PROVE  proposals[p].status = "CONFIRMED" /\ done[i].action = proposals[p].action
    BY <2>2, <2>4 DEF GoodProposal, RunsOf
  <2> QED BY <2>1, <2>3, <2>4 DEF ProposalsRunAsApproved
<1> QED BY <1>1, ProposalsAndDocuments, PTL

\* However often the outbox delivers document.uploaded, a document that no two
\* drains took at once is extracted at most once and staged no line of it
\* twice, and a budget stages all of its lines or none.
THEOREM DocumentsReadOnce == Spec => []DocumentsAreReadOnce
<1>1. DocumentInv => DocumentsAreReadOnce
  BY DEF DocumentInv, DocumentTypes, GoodDocument, ReadOnce, DocumentsAreReadOnce
<1> QED BY <1>1, ProposalsAndDocuments, PTL

-----------------------------------------------------------------------------
(* Newcomers.  NewcomerInv is the inductive invariant behind               *)
(* NewcomersAreNotForked: what each call and each proposal means, who is   *)
(* being looked up, and what a newcomer has been pledged so far.           *)

ExecPcs == {"lookup", "person", "attach", "write"}
PledgeTools == {"record_pledge", "record_pledge_with_payment", "record_direct_contribution"}

\* The person an action pledges for is one its name could mean, unless that
\* person's name has come into doubt.
Meant(a) ==
  a.tool \in PledgeTools /\ a.person # 0 =>
    /\ a.person \in DOMAIN books.people
    /\ \/ <<a.name, books.people[a.person].name>> \in Within
       \/ books.people[a.person].name \in doubtful

\* How the action a call executes follows from the one it read.
GoodRun(call) ==
  /\ call.pc = "resolve" => call.action.person = 0 /\ call.action.tool \in CaptureTools
  /\ call.pc \in {"decide", "run"} \cup ReviewPcs => call.action = call.payload
  /\ call.pc \in {"lookup", "attach"} => Newcomer(call.payload)
  /\ call.pc = "person" => Newcomer(call.payload) \/ call.payload.tool = "add_person"
  /\ call.pc = "attach" => call.payload.tool = "record_direct_contribution"
  /\ call.pc \in {"lookup", "person", "attach"} =>
       call.action.tool = call.payload.tool /\ call.action.name = call.payload.name
  /\ call.pc = "write" =>
       \/ call.action = call.payload /\ ~Newcomer(call.payload)
       \/ /\ Newcomer(call.payload) /\ call.action.name = call.payload.name
          /\ call.action.tool \in {call.payload.tool, "record_payment"}
  /\ call.pc \in ExecPcs => Meant(call.action)
  /\ call.pc \notin {"idle", "resolve"} => Meant(call.payload)

\* A call that executes an action for a newcomer of that name.
Seeking(call, n) == call.pc \in ExecPcs /\ Newcomer(call.payload) /\ call.payload.name = n

Undoubted(n) == n \notin doubtful /\ ~AddedBlindly(n)

\* Two executions that seek a name at once bring it into doubt; of an
\* undoubted name there is one person, and none while one is being created.
OneOfAName ==
  /\ \A c, d \in Callers, n \in Names :
       Seeking(calls[c], n) /\ Seeking(calls[d], n) /\ c # d => n \in doubtful
  /\ \A n \in Names : Undoubted(n) => \A p, q \in Exactly(n) : p = q
  /\ \A n \in Names, c \in Callers :
       Undoubted(n) /\ Seeking(calls[c], n) /\ calls[c].pc = "person" => Exactly(n) = {}

\* What ran for the name so far is what PledgeCameFirst asks for.
Calm(n) ==
  /\ Undoubted(n) /\ ~MergedInto(n)
  /\ \A i \in Concerning(n) : done[i].action.name = n /\ done[i].action.person = 0
  /\ Concerning(n) = {} \/ PledgeCameFirst(n)

\* An action for a newcomer of that name is proposed or under way.
Expected(n) ==
  \/ \E p \in DOMAIN proposals : Newcomer(proposals[p].action) /\ proposals[p].action.name = n
  \/ \E c \in Callers : /\ calls[c].pc \notin {"idle", "resolve"}
                        /\ Newcomer(calls[c].payload) /\ calls[c].payload.name = n

\* A newcomer has no pledge before the first action for them ran, and one after.
OnePledge(n) ==
  \A p \in Exactly(n) :
    /\ \A l \in PledgesOf(books, p) : ~books.pledges[l].cancelled
    /\ Concerning(n) = {} => PledgesOf(books, p) = {}
    /\ \A k, l \in PledgesOf(books, p) : k = l

\* A contribution that is about to be booked with a pledge of its own is
\* that of somebody without a pledge.
Unpledged(call, n) ==
  /\ Seeking(call, n) /\ call.pc = "write"
  /\ call.action.tool = "record_direct_contribution" /\ call.action.person \in Exactly(n)
  => PledgesOf(books, call.action.person) = {}

NewcomerInv ==
  /\ \A l \in DOMAIN books.pledges : books.pledges[l].person \in DOMAIN books.people
  /\ \A i \in DOMAIN done : done[i].action.tool = "merge_people" =>
                              done[i].action.other \in DOMAIN books.people
  /\ \A p \in DOMAIN proposals : Meant(proposals[p].action)
  /\ \A c \in Callers : GoodRun(calls[c])
  /\ OneOfAName
  /\ \A n \in Names : Calm(n) /\ (Expected(n) \/ Concerning(n) # {}) => OnePledge(n)
  /\ \A n \in Names, c \in Callers : Calm(n) => Unpledged(calls[c], n)

\* The person the resolver finds is one the name could mean; while there is
\* at most one person of a name, the resolver finds nobody only if there is none.
LEMMA ResolverFinds ==
  ASSUME books \in Books, NEW name \in Names, NEW p, p = resolvePerson(name)
  PROVE  /\ p # 0 => p \in DOMAIN books.people /\ <<name, books.people[p].name>> \in Within
         /\ p = 0 /\ (\A x, y \in Exactly(name) : x = y) => Exactly(name) = {}
<1>1. /\ Matching(name) \in SUBSET Nat /\ Exactly(name) \in SUBSET Nat /\ 0 \notin Exactly(name)
      /\ Matching(name) \subseteq DOMAIN books.people /\ Exactly(name) \subseteq DOMAIN books.people
  BY DEF Matching, Exactly, Persons, Books
<1>2. p # 0 => p \in Matching(name) \/ p \in Exactly(name)
  BY <1>1, TheOnlyIsId DEF resolvePerson
<1>3. p # 0 => p \in DOMAIN books.people /\ <<name, books.people[p].name>> \in Within
  BY <1>1, <1>2, ProposalsAssumption DEF Matching, Exactly
<1>4. ASSUME p = 0, \A x, y \in Exactly(name) : x = y, NEW x \in Exactly(name) PROVE FALSE
  <2>1. Exactly(name) = {x} /\ x # 0
    BY <1>1, <1>4
  <2>2. TheOnly(Exactly(name)) = x
    BY <2>1 DEF TheOnly
  <2> QED BY <1>4, <2>1, <2>2 DEF resolvePerson
<1> QED BY <1>3, <1>4

\* Nobody's name is lost: what was meant stays meant.
LEMMA MeantGoesOn ==
  ASSUME DOMAIN books.people \subseteq DOMAIN books'.people,
         \A p \in DOMAIN books.people : books'.people[p].name = books.people[p].name,
         doubtful \subseteq doubtful'
  PROVE  /\ \A a : Meant(a) => Meant(a)'
         /\ \A call : GoodRun(call) => GoodRun(call)'
<1>1. ASSUME NEW a, Meant(a) PROVE Meant(a)'
  BY <1>1 DEF Meant
<1>2. ASSUME NEW call, GoodRun(call) PROVE GoodRun(call)'
  BY <1>1, <1>2 DEF GoodRun, Newcomer
<1> QED BY <1>1, <1>2

\* An action for a newcomer that may be staged or begun: one that is expected
\* already, or one for somebody who is not there.
Awaited(a) ==
  Newcomer(a) /\ Undoubted(a.name) => Expected(a.name) \/ Exactly(a.name) = {}

\* What capture makes of a captured action is meant, and awaited.
LEMMA ResolvedIsMeant ==
  ASSUME books \in Books, OneOfAName, NEW said \in ActionRows, NEW action, action = Resolved(said),
         said.person = 0, said.tool \in CaptureTools
  PROVE  Meant(action) /\ Awaited(action) /\ action.name = said.name
<1>1. PICK p : p = resolvePerson(said.name)
  OBVIOUS
<1>2. PICK l : l = resolvePledgeForPerson(p)
  OBVIOUS
<1>3. action = resolveWrite(said, p, l)
  BY <1>1, <1>2 DEF Resolved
<1>4. said.name \in Names
  BY DEF ActionRows
<1>5. /\ action.name = said.name
      /\ action.tool \in PledgeTools => action.person = p
  BY <1>3 DEF resolveWrite, ActionRows, PledgeTools, CaptureTools
<1>6. Meant(action)
  BY <1>1, <1>4, <1>5, ResolverFinds DEF Meant
<1>7. Awaited(action)
  <2> SUFFICES ASSUME Newcomer(action), Undoubted(action.name) PROVE Exactly(action.name) = {}
    BY DEF Awaited
  <2>1. p = 0
    BY <1>5 DEF Newcomer, PledgeTools
  <2>2. \A x, y \in Exactly(said.name) : x = y
    BY <1>4, <1>5 DEF OneOfAName
  <2> QED BY <1>1, <1>4, <1>5, <2>1, <2>2, ResolverFinds
<1> QED BY <1>5, <1>6, <1>7

\* What a step leaves in the proposals is meant, and awaited or in doubt.
ProposalsMean ==
  \A p \in DOMAIN proposals' :
    /\ Meant(proposals[p].action)'
    /\ Awaited(proposals'[p].action) \/ proposals'[p].action.name \in doubtful'

\* A step that leaves the books alone: it moves at most one call and edits or
\* stages proposals.
LEMMA QuietStep ==
  ASSUME NewcomerInv, UNCHANGED <<books, done>>, doubtful \subseteq doubtful',
         NEW k, NEW row,
         \A c \in Callers : calls'[c] = calls[c] \/ (c = k /\ calls'[c] = row),
         GoodRun(row),
         row.pc \notin {"idle", "resolve"} => Awaited(row.payload),
         ProposalsMean,
         \A n \in Names : Seeking(row, n) =>
           \/ k \in Callers /\ Seeking(calls[k], n)
           \/ \A d \in Callers \ {k} : Seeking(calls[d], n) => n \in doubtful',
         \A n \in Names : Undoubted(n) /\ Seeking(row, n) /\ row.pc = "person" => Exactly(n) = {},
         \A n \in Names : Calm(n) => Unpledged(row, n)
  PROVE  NewcomerInv'
<1>1. /\ \A n : Exactly(n)' = Exactly(n) /\ Concerning(n)' = Concerning(n)
      /\ \A n : AddedBlindly(n)' <=> AddedBlindly(n)
      /\ \A n : MergedInto(n)' <=> MergedInto(n)
      /\ \A n : PledgeCameFirst(n)' <=> PledgeCameFirst(n)
      /\ \A p : PledgesOf(books, p)' = PledgesOf(books, p)
  BY DEF Exactly, Concerning, AddedBlindly, MergedInto, PledgeCameFirst, Pledging
<1>2. \A n : Undoubted(n)' => Undoubted(n) /\ n \notin doubtful'
  BY <1>1 DEF Undoubted
<1>3. \A n : Calm(n)' => Calm(n) /\ n \notin doubtful'
  BY <1>1, <1>2 DEF Calm
<1>4. \A c \in Callers : GoodRun(calls[c])'
  <2>1. \A call : GoodRun(call) => GoodRun(call)'
    BY MeantGoesOn
  <2>2. ASSUME NEW c \in Callers PROVE GoodRun(calls[c])'
    <3>1. PICK call : call = calls'[c]
      OBVIOUS
    <3>2. GoodRun(call)
      BY <2>2, <3>1 DEF NewcomerInv
    <3>3. GoodRun(call)'
      BY <2>1, <3>2
    <3> QED BY <3>1, <3>3 DEF GoodRun, Meant
  <2> QED BY <2>2
<1>5. ASSUME NEW c \in Callers, NEW d \in Callers, NEW n \in Names,
             Seeking(calls'[c], n), Seeking(calls'[d], n), c # d
      PROVE  n \in doubtful'
  <2>1. \A e \in Callers : calls'[e] = calls[e] \/ (e = k /\ calls'[e] = row)
    OBVIOUS
  <2>2. CASE Seeking(calls[c], n) /\ Seeking(calls[d], n)
    BY <1>5, <2>2 DEF NewcomerInv, OneOfAName
  <2>3. CASE ~Seeking(calls[c], n)
    <3>1. c = k /\ Seeking(row, n) /\ Seeking(calls[d], n)
      BY <1>5, <2>1, <2>3
    <3> QED BY <1>5, <2>3, <3>1
  <2>4. CASE ~Seeking(calls[d], n)
    <3>1. d = k /\ Seeking(row, n) /\ Seeking(calls[c], n)
      BY <1>5, <2>1, <2>4
    <3> QED BY <1>5, <2>4, <3>1
  <2> QED BY <2>2, <2>3, <2>4
<1>6. ASSUME NEW n \in Names, NEW c \in Callers, Undoubted(n)', Seeking(calls'[c], n), calls'[c].pc = "person"
      PROVE  Exactly(n)' = {}
  BY <1>1, <1>2, <1>6 DEF NewcomerInv, OneOfAName
<1>7. OneOfAName'
  <2>1. \A n \in Names : Undoubted(n)' => \A p, q \in Exactly(n)' : p = q
    BY <1>1, <1>2 DEF NewcomerInv, OneOfAName
  <2> QED BY <1>5, <1>6, <2>1 DEF OneOfAName, Seeking, Newcomer
<1>8. ASSUME NEW n \in Names, Calm(n)', Expected(n)' \/ Concerning(n)' # {}
      PROVE  OnePledge(n)'
  <2>1. Calm(n) /\ Undoubted(n) /\ n \notin doubtful'
    BY <1>3, <1>8 DEF Calm
  <2>2. Expected(n)' => Expected(n) \/ Exactly(n) = {}
    <3>1. ASSUME NEW p \in DOMAIN proposals', Newcomer(proposals'[p].action), proposals'[p].action.name = n
          PROVE  Expected(n) \/ Exactly(n) = {}
      BY <2>1, <3>1 DEF Awaited, ProposalsMean
    <3>2. ASSUME NEW c \in Callers, calls'[c].pc \notin {"idle", "resolve"},
                 Newcomer(calls'[c].payload), calls'[c].payload.name = n
          PROVE  Expected(n) \/ Exactly(n) = {}
      <4>1. CASE calls'[c] = calls[c]
        BY <3>2, <4>1 DEF Expected
      <4>2. CASE calls'[c] = row
        BY <2>1, <3>2, <4>2 DEF Awaited
      <4> QED BY <4>1, <4>2
    <3> QED BY <3>1, <3>2 DEF Expected, Newcomer
  <2>3. CASE Exactly(n) = {}
    BY <1>1, <2>3 DEF OnePledge
  <2>4. CASE Expected(n) \/ Concerning(n) # {}
    <3>1. OnePledge(n)
      BY <2>1, <2>4 DEF NewcomerInv
    <3> QED BY <1>1, <3>1 DEF OnePledge
  <2> QED BY <1>1, <1>8, <2>2, <2>3, <2>4
<1>9. ASSUME NEW n \in Names, NEW c \in Callers, Calm(n)' PROVE Unpledged(calls[c], n)'
  <2>1. Unpledged(calls'[c], n)
    <3>1. Calm(n)
      BY <1>3, <1>9
    <3>2. CASE calls'[c] = calls[c]
      BY <3>1, <3>2 DEF NewcomerInv
    <3>3. CASE calls'[c] = row
      BY <3>1, <3>3
    <3> QED BY <3>2, <3>3
  <2> QED BY <1>1, <2>1 DEF Unpledged, Seeking, Newcomer
<1>10. /\ \A l \in DOMAIN books'.pledges : books'.pledges[l].person \in DOMAIN books'.people
       /\ \A i \in DOMAIN done' : done'[i].action.tool = "merge_people" =>
                                    done'[i].action.other \in DOMAIN books'.people
       /\ \A p \in DOMAIN proposals' : Meant(proposals[p].action)'
  BY DEF NewcomerInv, ProposalsMean
<1> QED BY <1>4, <1>7, <1>8, <1>9, <1>10 DEF NewcomerInv

\* Proposals nobody touches.
LEMMA ProposalsStayMeant ==
  ASSUME NewcomerInv, UNCHANGED books, doubtful \subseteq doubtful', proposals' = proposals
  PROVE  ProposalsMean
<1>1. \A a : Meant(a) => Meant(a)'
  BY MeantGoesOn
<1>2. \A p \in DOMAIN proposals : Meant(proposals[p].action) /\ Awaited(proposals[p].action)
  BY DEF NewcomerInv, Awaited, Expected
<1>3. ASSUME NEW p \in DOMAIN proposals' PROVE Meant(proposals[p].action)'
  <2>1. PICK a : a = proposals[p].action
    OBVIOUS
  <2>2. Meant(a)'
    BY <1>1, <1>2, <1>3, <2>1
  <2> QED BY <2>1, <2>2 DEF Meant
<1> QED BY <1>2, <1>3 DEF ProposalsMean

\* A proposal that is staged.
LEMMA StagedMeant ==
  ASSUME NewcomerInv, ProposalTypes, UNCHANGED <<books, doubtful>>, NEW action, NEW origin,
         create(action, origin), Meant(action), Awaited(action)
  PROVE  ProposalsMean
<1>1. \A a : Meant(a) => Meant(a)'
  BY MeantGoesOn
<1>2. \A p \in DOMAIN proposals : Meant(proposals[p].action) /\ Awaited(proposals[p].action)
  BY DEF NewcomerInv, Awaited, Expected
<1>3. PICK new : new = Proposal(action, origin)
  OBVIOUS
<1>4. new.action = action
  BY <1>3 DEF Proposal
<1>5. ASSUME NEW p \in DOMAIN proposals' PROVE Meant(proposals'[p].action) /\ Awaited(proposals'[p].action)
  <2>1. proposals \in Seq(ProposalRows) /\ proposals' = Append(proposals, new)
    BY <1>3 DEF ProposalTypes, create
  <2>2. (p \in DOMAIN proposals /\ proposals'[p] = proposals[p]) \/ proposals'[p] = new
    BY <1>5, <2>1
  <2> QED BY <1>2, <1>4, <2>2
<1>6. ASSUME NEW p \in DOMAIN proposals' PROVE Meant(proposals[p].action)'
  <2>1. PICK a : a = proposals'[p].action
    OBVIOUS
  <2>2. Meant(a)'
    BY <1>1, <1>5, <1>6, <2>1
  <2> QED BY <2>1, <2>2 DEF Meant
<1> QED BY <1>5, <1>6 DEF ProposalsMean

\* A call hangs up, or stays as it is.
LEMMA QuietEnd ==
  ASSUME NewcomerInv, ProposalTypes, UNCHANGED <<books, done>>, doubtful \subseteq doubtful', ProposalsMean,
         NEW k, calls' = [calls EXCEPT ![k] = NoCall] \/ calls' = calls
  PROVE  NewcomerInv'
<1>1. NoCall.pc = "idle"
  BY DEF NoCall
<1>2. PICK row : row = NoCall
  OBVIOUS
<1>3. GoodRun(row)
  BY <1>1, <1>2 DEF GoodRun, ReviewPcs, ExecPcs
<1>4. \A n : ~Seeking(row, n)
  BY <1>1, <1>2 DEF Seeking, ExecPcs
<1>5. \A n : Unpledged(row, n)
  BY <1>4 DEF Unpledged
<1>6. \A c \in Callers : calls'[c] = calls[c] \/ (c = k /\ calls'[c] = row)
  BY <1>2 DEF ProposalTypes
<1> QED BY <1>1, <1>2, <1>3, <1>4, <1>5, <1>6, QuietStep

\* Capture, resolution, decision.
LEMMA NewcomersCaptured ==
  ASSUME ProposalInv, NewcomerInv, NEW c \in Callers, capture(c) \/ Resolve(c) \/ Decide(c)
  PROVE  NewcomerInv'
<1>0. /\ calls[c] \in CallRows /\ books \in Books /\ ProposalTypes
      /\ calls \in [Callers -> CallRows] /\ GoodRun(calls[c])
      /\ calls[c].pc \notin {"idle"} => calls[c].action \in ActionRows
      /\ UNCHANGED <<books, done, doubtful>>
  BY DEF ProposalInv, ProposalTypes, NewcomerInv, capture, Resolve, Decide
<1>1. CASE capture(c)
  <2>1. PICK tool \in CaptureTools, name \in Names, amount \in Amounts, received \in {0} \union Amounts,
             role \in Standing, sure \in BOOLEAN :
          /\ at(c, "idle") /\ take(tool)
          /\ received > 0 => tool = "record_pledge" /\ received <= amount
          /\ can(role, writeAction[tool])
          /\ calls' = [calls EXCEPT ![c] =
               [NoCall EXCEPT !.pc = "resolve", !.role = role, !.sure = sure,
                  !.action = [NoAction EXCEPT !.tool = tool, !.name = name, !.amount = amount,
                                              !.received = received]]]
          /\ UNCHANGED <<books, proposals, done, contested, doubtful>>
    BY <1>1, Zenon DEF capture
  <2>2. PICK said : said = [NoAction EXCEPT !.tool = tool, !.name = name, !.amount = amount,
                                            !.received = received]
    OBVIOUS
  <2>3. said.person = 0 /\ said.tool = tool
    BY <2>2 DEF NoAction
  <2>4. PICK row : row = [NoCall EXCEPT !.pc = "resolve", !.role = role, !.sure = sure, !.action = said]
    OBVIOUS
  <2>5. row.pc = "resolve" /\ row.action = said
    BY <2>4 DEF NoCall
  <2>6. \A d \in Callers : calls'[d] = calls[d] \/ (d = c /\ calls'[d] = row)
    BY <1>0, <2>1, <2>2, <2>4
  <2>7. GoodRun(row)
    BY <2>3, <2>5 DEF GoodRun, ReviewPcs, ExecPcs
  <2>8. \A n : ~Seeking(row, n) /\ Unpledged(row, n)
    BY <2>5 DEF Seeking, ExecPcs, Unpledged
  <2>9. ProposalsMean
    BY <1>0, <2>1, ProposalsStayMeant
  <2> QED BY <1>0, <2>5, <2>6, <2>7, <2>8, <2>9, QuietStep
<1>2. CASE Resolve(c) /\ NeedsClarification(calls[c].action)
  <2>1. calls' = [calls EXCEPT ![c] = NoCall] /\ UNCHANGED proposals
    BY <1>2 DEF Resolve, hangUp
  <2>2. ProposalsMean
    BY <1>0, <2>1, ProposalsStayMeant
  <2> QED BY <1>0, <2>1, <2>2, QuietEnd
<1>3. CASE Resolve(c) /\ ~NeedsClarification(calls[c].action)
  <2>1. PICK action : action = Resolved(calls[c].action)
    OBVIOUS
  <2>2. /\ calls' = [calls EXCEPT ![c].pc = "decide", ![c].action = action, ![c].payload = action]
        /\ UNCHANGED proposals /\ calls[c].pc = "resolve"
    BY <1>3, <2>1 DEF Resolve, at
  <2>3. calls[c].action.person = 0 /\ calls[c].action.tool \in CaptureTools
    BY <1>0, <2>2 DEF GoodRun
  <2>4. Meant(action) /\ Awaited(action)
    BY <1>0, <2>1, <2>2, <2>3, ResolvedIsMeant DEF NewcomerInv
  <2>5. PICK row : row = [calls[c] EXCEPT !.pc = "decide", !.action = action, !.payload = action]
    OBVIOUS
  <2>6. row.pc = "decide" /\ row.action = action /\ row.payload = action
    BY <1>0, <2>5 DEF CallRows
  <2>7. \A d \in Callers : calls'[d] = calls[d] \/ (d = c /\ calls'[d] = row)
    BY <1>0, <2>2, <2>5
  <2>8. GoodRun(row)
    BY <2>4, <2>6 DEF GoodRun, ReviewPcs, ExecPcs
  <2>9. \A n : ~Seeking(row, n) /\ Unpledged(row, n)
    BY <2>6 DEF Seeking, ExecPcs, Unpledged
  <2>10. ProposalsMean
    BY <1>0, <2>2, ProposalsStayMeant
  <2> QED BY <1>0, <2>4, <2>6, <2>7, <2>8, <2>9, <2>10, QuietStep
<1>4. CASE Decide(c) /\ calls[c].sure
  <2>1. calls' = [calls EXCEPT ![c].pc = "run"] /\ UNCHANGED proposals /\ calls[c].pc = "decide"
    BY <1>4 DEF Decide, goto, at
  <2>2. PICK row : row = [calls[c] EXCEPT !.pc = "run"]
    OBVIOUS
  <2>3. row.pc = "run" /\ row.action = calls[c].action /\ row.payload = calls[c].payload
    BY <1>0, <2>2 DEF CallRows
  <2>4. \A d \in Callers : calls'[d] = calls[d] \/ (d = c /\ calls'[d] = row)
    BY <1>0, <2>1, <2>2
  <2>5. GoodRun(row)
    BY <1>0, <2>1, <2>3 DEF GoodRun, ReviewPcs, ExecPcs
  <2>6. \A n : ~Seeking(row, n) /\ Unpledged(row, n)
    BY <2>3 DEF Seeking, ExecPcs, Unpledged
  <2>7. Awaited(row.payload)
    BY <2>1, <2>3 DEF Awaited, Expected
  <2>8. ProposalsMean
    BY <1>0, <2>1, ProposalsStayMeant
  <2> QED BY <1>0, <2>4, <2>5, <2>6, <2>7, <2>8, QuietStep
<1>5. CASE Decide(c) /\ ~calls[c].sure
  <2>1. /\ calls' = [calls EXCEPT ![c] = NoCall]
        /\ create(calls[c].action, 0) /\ calls[c].pc = "decide"
    BY <1>5 DEF Decide, hangUp, at
  <2>2. calls[c].action = calls[c].payload /\ Meant(calls[c].payload)
    BY <1>0, <2>1 DEF GoodRun
  <2>3. PICK action : action = calls[c].action
    OBVIOUS
  <2>4. Meant(action) /\ Awaited(action)
    BY <2>1, <2>2, <2>3 DEF Awaited, Expected
  <2>5. ProposalsMean
    BY <1>0, <2>1, <2>3, <2>4, StagedMeant
  <2> QED BY <1>0, <2>1, <2>5, QuietEnd
<1> QED BY <1>1, <1>2, <1>3, <1>4, <1>5

\* The other tools are not about newcomers.
LEMMA NewcomersStaged ==
  ASSUME ProposalInv, NewcomerInv, NEW c \in Callers, stage(c)
  PROVE  NewcomerInv'
<1>1. PICK tool \in DOMAIN writeAction \ CaptureTools, otherName \in Names :
        /\ \E a \in Stageable(tool) :
             LET action == Prepared(a, otherName) IN Found(action) /\ create(action, 0)
        /\ UNCHANGED <<books, calls, done, contested, doubtful>>
  BY DEF stage
<1>2. PICK a \in Stageable(tool) : create(Prepared(a, otherName), 0)
  BY <1>1
<1>3. PICK action : action = Prepared(a, otherName)
  OBVIOUS
<1>4. a.tool = tool
  BY DEF Stageable
<1>5. action.tool = tool
  <2>1. a \in [tool : {tool}, name : Names, person : {0}, other : {0}, amount : Amounts,
               received : {0}, pledge : {0}, payment : {0}, item : {0}]
    BY DEF Stageable
  <2>2. action.tool = a.tool
    BY <1>3, <2>1 DEF Prepared
  <2> QED BY <1>4, <2>2
<1>6. Meant(action) /\ Awaited(action)
  BY <1>5 DEF Meant, Awaited, Newcomer, PledgeTools, writeAction, CaptureTools
<1>7. ProposalsMean
  BY <1>1, <1>2, <1>3, <1>6, StagedMeant DEF ProposalInv
<1> QED BY <1>1, <1>7, QuietEnd DEF ProposalInv

\* A proposal is read, edited, confirmed or rejected.
LEMMA NewcomersReviewed ==
  ASSUME ProposalInv, NewcomerInv, NEW c \in Callers,
         (\E op \in ReviewPcs : Review(c, op)) \/ update(c) \/ confirm(c) \/ reject(c)
  PROVE  NewcomerInv'
<1>0. /\ calls[c] \in CallRows /\ books \in Books /\ ProposalTypes
      /\ calls \in [Callers -> CallRows] /\ GoodRun(calls[c])
      /\ proposals \in Seq(ProposalRows) /\ DOMAIN proposals = 1 .. Len(proposals)
      /\ calls[c].pc \notin {"idle"} => calls[c].action \in ActionRows
      /\ UNCHANGED <<books, done>> /\ doubtful \subseteq doubtful'
  <2>1. UNCHANGED <<books, done>> /\ doubtful \subseteq doubtful'
    BY DEF Review, update, confirm, reject
  <2>2. /\ calls[c] \in CallRows /\ books \in Books /\ ProposalTypes
        /\ calls \in [Callers -> CallRows] /\ GoodRun(calls[c])
        /\ proposals \in Seq(ProposalRows)
        /\ calls[c].pc \notin {"idle"} => calls[c].action \in ActionRows
    BY DEF ProposalInv, ProposalTypes, NewcomerInv
  <2>3. DOMAIN proposals = 1 .. Len(proposals)
    BY <2>2
  <2> QED BY <2>1, <2>2, <2>3
<1>1. ASSUME NEW op \in ReviewPcs, Review(c, op) PROVE NewcomerInv'
  <2>1. PICK p \in DOMAIN proposals, role \in Standing :
          /\ calls' = [calls EXCEPT ![c] =
               [NoCall EXCEPT !.pc = op, !.role = role, !.proposal = p,
                              !.action = proposals[p].action, !.payload = proposals[p].action]]
          /\ UNCHANGED <<proposals, doubtful>>
    BY <1>1 DEF Review
  <2>2. PICK row : row = [NoCall EXCEPT !.pc = op, !.role = role, !.proposal = p,
                              !.action = proposals[p].action, !.payload = proposals[p].action]
    OBVIOUS
  <2>3. row.pc = op /\ row.action = proposals[p].action /\ row.payload = proposals[p].action
    BY <2>2 DEF NoCall
  <2>4. \A d \in Callers : calls'[d] = calls[d] \/ (d = c /\ calls'[d] = row)
    BY <1>0, <2>1, <2>2
  <2>5. Meant(row.payload) /\ Awaited(row.payload)
    BY <2>1, <2>3 DEF NewcomerInv, Awaited, Expected
  <2>6. GoodRun(row)
    BY <2>3, <2>5 DEF GoodRun, ReviewPcs, ExecPcs
  <2>7. \A n : ~Seeking(row, n) /\ Unpledged(row, n)
    BY <2>3 DEF Seeking, ExecPcs, ReviewPcs, Unpledged
  <2>8. ProposalsMean
    BY <1>0, <2>1, ProposalsStayMeant
  <2> QED BY <1>0, <2>4, <2>5, <2>6, <2>7, <2>8, QuietStep
<1>2. PICK p : p = calls[c].proposal
  OBVIOUS
<1>3. calls[c].pc \in ReviewPcs => /\ p \in DOMAIN proposals /\ calls[c].action = calls[c].payload
                                   /\ Meant(calls[c].action) /\ calls[c].action \in ActionRows
  <2>1. calls[c].pc \in ReviewPcs => p \in DOMAIN proposals
    BY <1>0, <1>2 DEF ProposalInv, ProposalTypes
  <2>2. calls[c].pc \in ReviewPcs => calls[c].action = calls[c].payload /\ Meant(calls[c].payload)
    BY <1>0 DEF GoodRun, ReviewPcs
  <2> QED BY <1>0, <2>1, <2>2 DEF ReviewPcs
<1>4. ASSUME NEW status, proposals' = [proposals EXCEPT ![p].status = status], calls[c].pc \in ReviewPcs,
             UNCHANGED doubtful
      PROVE  ProposalsMean
  <2>1. DOMAIN proposals' = DOMAIN proposals
    BY <1>4
  <2>2. \A q \in DOMAIN proposals : proposals'[q].action = proposals[q].action
    <3>1. proposals[p] \in ProposalRows
      BY <1>0, <1>3, <1>4
    <3>2. proposals'[p].action = proposals[p].action
      BY <1>3, <1>4, <3>1 DEF ProposalRows
    <3> QED BY <1>4, <3>2
  <2>3. \A q \in DOMAIN proposals : Meant(proposals[q].action) /\ Awaited(proposals[q].action)
    BY DEF NewcomerInv, Awaited, Expected
  <2>4. \A a : Meant(a) => Meant(a)'
    BY <1>0, MeantGoesOn
  <2>5. ASSUME NEW q \in DOMAIN proposals' PROVE Meant(proposals[q].action)'
    <3>1. PICK a : a = proposals'[q].action
      OBVIOUS
    <3>2. Meant(a)'
      BY <2>1, <2>2, <2>3, <2>4, <3>1
    <3> QED BY <3>1, <3>2 DEF Meant
  <2> QED BY <2>1, <2>2, <2>3, <2>5 DEF ProposalsMean
<1>5. CASE confirm(c)
  <2>1. /\ calls' = [calls EXCEPT ![c].pc = "run"] /\ calls[c].pc = "confirm" /\ UNCHANGED doubtful
        /\ proposals' = [proposals EXCEPT ![p].status = "CONFIRMED"]
    BY <1>2, <1>5 DEF confirm, goto, at
  <2>2. PICK row : row = [calls[c] EXCEPT !.pc = "run"]
    OBVIOUS
  <2>3. row.pc = "run" /\ row.action = calls[c].action /\ row.payload = calls[c].payload
    BY <1>0, <2>2 DEF CallRows
  <2>4. \A d \in Callers : calls'[d] = calls[d] \/ (d = c /\ calls'[d] = row)
    BY <1>0, <2>1, <2>2
  <2>5. GoodRun(row)
    BY <1>0, <2>1, <2>3 DEF GoodRun, ReviewPcs, ExecPcs
  <2>6. \A n : ~Seeking(row, n) /\ Unpledged(row, n)
    BY <2>3 DEF Seeking, ExecPcs, Unpledged
  <2>7. Awaited(row.payload)
    BY <2>1, <2>3 DEF Awaited, Expected
  <2>8. ProposalsMean
    BY <1>4, <2>1 DEF ReviewPcs
  <2> QED BY <1>0, <2>4, <2>5, <2>6, <2>7, <2>8, QuietStep
<1>6. CASE reject(c)
  <2>1. /\ calls' = [calls EXCEPT ![c] = NoCall] /\ calls[c].pc = "reject" /\ UNCHANGED doubtful
        /\ proposals' = [proposals EXCEPT ![p].status = "REJECTED"]
    BY <1>2, <1>6 DEF reject, hangUp, at
  <2>2. ProposalsMean
    BY <1>4, <2>1 DEF ReviewPcs
  <2> QED BY <1>0, <2>1, <2>2, QuietEnd
<1>7. CASE update(c)
  <2>1. PICK name \in Names, amount \in Amounts :
          /\ calls[c].pc = "update"
          /\ proposals' = [proposals EXCEPT ![p].action =
               [calls[c].action EXCEPT !.name = name, !.amount = amount]]
          /\ doubtful' = doubtful \union
               {n \in Names : name # calls[c].action.name /\
                              \E m \in {name, calls[c].action.name} : <<m, n>> \in Within}
          /\ calls' = [calls EXCEPT ![c] = NoCall]
    BY <1>2, <1>7 DEF update, hangUp, at
  <2>2. PICK old, new : /\ old = calls[c].action
                        /\ new = [calls[c].action EXCEPT !.name = name, !.amount = amount]
    OBVIOUS
  <2>3. /\ p \in DOMAIN proposals /\ Meant(old) /\ old \in ActionRows /\ old = calls[c].payload
    BY <1>3, <2>1, <2>2 DEF ReviewPcs
  <2>4. new.name = name /\ new.person = old.person /\ new.tool = old.tool
    BY <2>2, <2>3 DEF ActionRows
  <2>5. /\ DOMAIN proposals' = DOMAIN proposals /\ proposals'[p].action = new
        /\ \A q \in DOMAIN proposals : q # p => proposals'[q] = proposals[q]
    <3>1. proposals[p] \in ProposalRows
      BY <1>0, <2>3
    <3>2. proposals'[p].action = new
      BY <2>1, <2>2, <2>3, <3>1 DEF ProposalRows
    <3> QED BY <2>1, <2>3, <3>2
  <2>6. Meant(new)'
    <3> SUFFICES ASSUME new.tool \in PledgeTools, new.person # 0
                 PROVE  /\ new.person \in DOMAIN books.people
                        /\ \/ <<new.name, books.people[new.person].name>> \in Within
                           \/ books.people[new.person].name \in doubtful'
      BY <1>0 DEF Meant
    <3>1. /\ old.person \in DOMAIN books.people
          /\ \/ <<old.name, books.people[old.person].name>> \in Within
             \/ books.people[old.person].name \in doubtful
      BY <2>3, <2>4 DEF Meant
    <3>2. CASE name = old.name
      BY <1>0, <2>4, <3>1, <3>2
    <3>3. CASE name # old.name
      <4>1. \A n : <<old.name, n>> \in Within => n \in doubtful'
        BY <2>1, <2>2, <3>3, ProposalsAssumption
      <4> QED BY <1>0, <2>4, <3>1, <4>1
    <3> QED BY <3>2, <3>3
  <2>7. Awaited(new) \/ name \in doubtful'
    <3>1. CASE name = old.name
      <4>1. Newcomer(new) => Expected(name)
        BY <2>1, <2>3, <2>4, <3>1 DEF Newcomer, Expected
      <4> QED BY <2>4, <4>1 DEF Awaited
    <3>2. CASE name # old.name
      BY <2>1, <2>2, <3>2, ProposalsAssumption
    <3> QED BY <3>1, <3>2
  <2>8. \A q \in DOMAIN proposals : Meant(proposals[q].action) /\ Awaited(proposals[q].action)
    BY DEF NewcomerInv, Awaited, Expected
  <2>9. \A a : Meant(a) => Meant(a)'
    BY <1>0, MeantGoesOn
  <2>10. ASSUME NEW q \in DOMAIN proposals' PROVE Meant(proposals[q].action)'
    <3>1. PICK a : a = proposals'[q].action
      OBVIOUS
    <3>2. Meant(a)'
      BY <2>5, <2>6, <2>8, <2>9, <2>10, <3>1
    <3> QED BY <3>1, <3>2 DEF Meant
  <2>11. ProposalsMean
    BY <2>4, <2>5, <2>7, <2>8, <2>10 DEF ProposalsMean
  <2> QED BY <1>0, <2>1, <2>11, QuietEnd
<1> QED BY <1>1, <1>5, <1>6, <1>7

\* Execution up to the write: the action begins, its newcomer is looked up,
\* a contribution is attached to a pledge that landed; or the call fails.
LEMMA NewcomersSought ==
  ASSUME ProposalInv, NewcomerInv, NEW c \in Callers, run(c) \/ lookup(c) \/ attach(c) \/ callFails(c)
  PROVE  NewcomerInv'
<1>0. /\ calls[c] \in CallRows /\ books \in Books /\ ProposalTypes
      /\ calls \in [Callers -> CallRows] /\ GoodRun(calls[c])
      /\ calls[c].pc \notin {"idle"} => calls[c].action \in ActionRows
      /\ UNCHANGED <<books, done, proposals>> /\ doubtful \subseteq doubtful'
  BY DEF ProposalInv, ProposalTypes, NewcomerInv, run, lookup, attach, callFails
<1>1. ProposalsMean
  BY <1>0, ProposalsStayMeant
<1>2. CASE run(c)
  <2>1. PICK a : a = calls[c].action
    OBVIOUS
  <2>2. PICK pc : pc = IF a.tool = "add_person" THEN "person" ELSE IF Newcomer(a) THEN "lookup" ELSE "write"
    OBVIOUS
  <2>3. /\ calls[c].pc = "run" /\ calls' = [calls EXCEPT ![c].pc = pc]
        /\ doubtful' = doubtful \union
             {n \in {a.name} : Newcomer(a) /\ \E d \in Callers \ {c} :
                                Executing(d) /\ calls[d].action.name = n}
    BY <1>2, <2>1, <2>2 DEF run, goto, at
  <2>4. PICK row : row = [calls[c] EXCEPT !.pc = pc]
    OBVIOUS
  <2>5. row.pc = pc /\ row.action = calls[c].action /\ row.payload = calls[c].payload
    BY <1>0, <2>4 DEF CallRows
  <2>6. \A d \in Callers : calls'[d] = calls[d] \/ (d = c /\ calls'[d] = row)
    BY <1>0, <2>3, <2>4
  <2>7. calls[c].action = calls[c].payload /\ Meant(calls[c].payload)
    BY <1>0, <2>3 DEF GoodRun
  <2>8. a.tool = "add_person" => ~Newcomer(a)
    BY DEF Newcomer
  <2>9. GoodRun(row)
    BY <2>1, <2>2, <2>5, <2>7, <2>8 DEF GoodRun, ReviewPcs, ExecPcs
  <2>10. Awaited(row.payload)
    BY <2>3, <2>5 DEF Awaited, Expected
  <2>11. \A n : Seeking(row, n) => pc = "lookup" /\ Newcomer(a) /\ a.name = n
    BY <2>1, <2>2, <2>5, <2>7, <2>8 DEF Seeking
  <2>12. ASSUME NEW n \in Names, NEW d \in Callers \ {c}, Seeking(row, n), Seeking(calls[d], n)
         PROVE  n \in doubtful'
    <3>1. calls[d].action.name = n
      BY <2>12 DEF NewcomerInv, GoodRun, Seeking, ExecPcs
    <3>2. Executing(d)
      BY <2>12 DEF Seeking, ExecPcs, Executing
    <3> QED BY <2>3, <2>11, <2>12, <3>1, <3>2
  <2>13. \A n : Unpledged(row, n)
    BY <2>5, <2>11 DEF Unpledged
  <2>14. \A n : ~(Seeking(row, n) /\ row.pc = "person")
    BY <2>5, <2>11
  <2> QED BY <1>0, <1>1, <2>6, <2>9, <2>10, <2>12, <2>13, <2>14, QuietStep
<1>3. CASE lookup(c)
  <2>1. PICK p : p = resolvePerson(calls[c].action.name)
    OBVIOUS
  <2>2. PICK pc : pc = IF p = 0 THEN "person" ELSE Onwards(calls[c].action)
    OBVIOUS
  <2>3. calls[c].pc = "lookup" /\ calls' = [calls EXCEPT ![c].pc = pc, ![c].action.person = p]
    BY <1>3, <2>1, <2>2 DEF lookup, at
  <2>4. PICK action : action = [calls[c].action EXCEPT !.person = p]
    OBVIOUS
  <2>5. PICK row : row = [calls[c] EXCEPT !.pc = pc, !.action = action]
    OBVIOUS
  <2>6. row.pc = pc /\ row.action = action /\ row.payload = calls[c].payload
    BY <1>0, <2>5 DEF CallRows
  <2>7. calls[c].action \in ActionRows /\ calls[c].action.name \in Names
    BY <1>0, <2>3 DEF ActionRows
  <2>8. action.person = p /\ action.tool = calls[c].action.tool /\ action.name = calls[c].action.name
    BY <2>4, <2>7 DEF ActionRows
  <2>9. \A d \in Callers : calls'[d] = calls[d] \/ (d = c /\ calls'[d] = row)
    BY <1>0, <2>3, <2>4, <2>5
  <2>10. /\ Newcomer(calls[c].payload) /\ Meant(calls[c].payload)
         /\ calls[c].action.tool = calls[c].payload.tool /\ calls[c].action.name = calls[c].payload.name
    BY <1>0, <2>3 DEF GoodRun
  <2>11. Meant(action)
    BY <1>0, <2>1, <2>7, <2>8, ResolverFinds DEF Meant
  <2>12. /\ pc = "person" => p = 0
         /\ pc = "attach" => action.tool = "record_direct_contribution"
         /\ pc = "write" => action.tool # "record_direct_contribution"
         /\ pc \in {"person", "attach", "write"}
    BY <2>2, <2>8 DEF Onwards
  <2>13. GoodRun(row)
    BY <2>6, <2>8, <2>10, <2>11, <2>12 DEF GoodRun, ReviewPcs, ExecPcs
  <2>14. Awaited(row.payload)
    BY <2>3, <2>6 DEF Awaited, Expected
  <2>15. \A n : Seeking(row, n) => Seeking(calls[c], n)
    BY <2>3, <2>6 DEF Seeking, ExecPcs
  <2>16. ASSUME NEW n \in Names, Undoubted(n), Seeking(row, n), row.pc = "person" PROVE Exactly(n) = {}
    <3>1. n = calls[c].action.name /\ p = 0
      BY <2>6, <2>10, <2>12, <2>16 DEF Seeking
    <3>2. \A x, y \in Exactly(n) : x = y
      BY <2>16 DEF NewcomerInv, OneOfAName
    <3> QED BY <1>0, <2>1, <3>1, <3>2, ResolverFinds
  <2>17. \A n : Unpledged(row, n)
    BY <2>6, <2>12 DEF Unpledged
  <2> QED BY <1>0, <1>1, <2>9, <2>13, <2>14, <2>15, <2>16, <2>17, QuietStep
<1>4. CASE attach(c)
  <2>1. PICK l : l = resolvePledgeForPerson(calls[c].action.person)
    OBVIOUS
  <2>2. PICK tool : tool = IF l = 0 THEN calls[c].action.tool ELSE "record_payment"
    OBVIOUS
  <2>3. /\ calls[c].pc = "attach"
        /\ calls' = [calls EXCEPT ![c].pc = "write", ![c].action.pledge = l, ![c].action.tool = tool]
    BY <1>4, <2>1, <2>2 DEF attach, at
  <2>4. PICK action : action = [calls[c].action EXCEPT !.pledge = l, !.tool = tool]
    OBVIOUS
  <2>5. PICK row : row = [calls[c] EXCEPT !.pc = "write", !.action = action]
    OBVIOUS
  <2>6. row.pc = "write" /\ row.action = action /\ row.payload = calls[c].payload
    BY <1>0, <2>5 DEF CallRows
  <2>7. calls[c].action \in ActionRows
    BY <1>0, <2>3
  <2>8. action.person = calls[c].action.person /\ action.tool = tool /\ action.name = calls[c].action.name
    BY <2>4, <2>7 DEF ActionRows
  <2>9. \A d \in Callers : calls'[d] = calls[d] \/ (d = c /\ calls'[d] = row)
    BY <1>0, <2>3, <2>4, <2>5
  <2>10. /\ Newcomer(calls[c].payload) /\ Meant(calls[c].payload) /\ Meant(calls[c].action)
         /\ calls[c].action.tool = calls[c].payload.tool /\ calls[c].action.name = calls[c].payload.name
    BY <1>0, <2>3 DEF GoodRun, ExecPcs
  <2>11. Meant(action)
    BY <2>2, <2>8, <2>10 DEF Meant, PledgeTools
  <2>12. GoodRun(row)
    BY <2>2, <2>6, <2>8, <2>10, <2>11 DEF GoodRun, ReviewPcs, ExecPcs
  <2>13. Awaited(row.payload)
    BY <2>3, <2>6 DEF Awaited, Expected
  <2>14. \A n : Seeking(row, n) => Seeking(calls[c], n)
    BY <2>3, <2>6 DEF Seeking, ExecPcs
  <2>15. ASSUME NEW n \in Names, Calm(n) PROVE Unpledged(row, n)
    <3> SUFFICES ASSUME Seeking(row, n), action.tool = "record_direct_contribution",
                        action.person \in Exactly(n), NEW k \in PledgesOf(books, action.person)
                 PROVE  FALSE
      BY <2>6 DEF Unpledged
    <3>1. l = 0
      BY <2>2, <2>8
    <3>2. Expected(n)
      BY <2>3, <2>6 DEF Seeking, Expected
    <3>3. OnePledge(n)
      BY <2>15, <3>2 DEF NewcomerInv
    <3>4. PledgesOf(books, action.person) = {k} /\ ~books.pledges[k].cancelled
      BY <3>3 DEF OnePledge
    <3>5. k \in DOMAIN books.pledges /\ k # 0
      BY <1>0 DEF PledgesOf, Books
    <3>6. LivePledgesOf(books, action.person) = {k}
      BY <3>4, <3>5 DEF LivePledgesOf, LivePledge
    <3>7. TheOnly(LivePledgesOf(books, action.person)) = k
      BY <3>6 DEF TheOnly
    <3> QED BY <2>1, <2>8, <3>1, <3>5, <3>7 DEF resolvePledgeForPerson
  <2>16. \A n : ~(Seeking(row, n) /\ row.pc = "person")
    BY <2>6
  <2> QED BY <1>0, <1>1, <2>9, <2>12, <2>13, <2>14, <2>15, <2>16, QuietStep
<1>5. CASE callFails(c)
  BY <1>0, <1>1, <1>5, QuietEnd DEF callFails, hangUp
<1> QED BY <1>2, <1>3, <1>4, <1>5

\* What an action makes of the people and of their pledges: nobody is renamed
\* and nobody comes back; a pledge is added, or moves in a merge, or stays.
LEMMA PledgesWritten ==
  ASSUME books \in Books, NEW a \in ActionRows, Gate(a).ok, NEW w, w = Written(a), NEW n,
         n = Len(books.pledges) + 1
  PROVE  /\ DOMAIN w.people = DOMAIN books.people
         /\ \A p \in DOMAIN books.people : /\ w.people[p].name = books.people[p].name
                                           /\ books.people[p].gone => w.people[p].gone
         /\ a.tool \in PledgeTools =>
              /\ Person(books, a.person)
              /\ DOMAIN w.pledges = DOMAIN books.pledges \cup {n} /\ n \notin DOMAIN books.pledges
              /\ \A l \in DOMAIN books.pledges : w.pledges[l] = books.pledges[l]
              /\ w.pledges[n].person = a.person /\ ~w.pledges[n].cancelled
         /\ a.tool \notin PledgeTools =>
              /\ DOMAIN w.pledges = DOMAIN books.pledges
              /\ \A l \in DOMAIN books.pledges : w.pledges[l].cancelled = books.pledges[l].cancelled
         /\ a.tool = "merge_people" =>
              /\ Person(books, a.person) /\ Person(books, a.other) /\ w.people[a.person].gone
              /\ \A l \in DOMAIN books.pledges : w.pledges[l].person =
                   IF books.pledges[l].person = a.person THEN a.other ELSE books.pledges[l].person
         /\ a.tool \notin PledgeTools \cup {"merge_people"} =>
              \A l \in DOMAIN books.pledges : w.pledges[l].person = books.pledges[l].person
<1>0. /\ books.people \in Seq(People) /\ books.pledges \in Seq(Pledges)
      /\ \A l \in DOMAIN books.pledges : books.pledges[l] \in Pledges
      /\ \A p \in DOMAIN books.people : books.people[p] \in People
  BY DEF Books
<1>1. ASSUME NEW committed, NEW row, row = [person |-> a.person, committed |-> committed, cancelled |-> FALSE]
      PROVE  LET t == Append(books.pledges, row) IN
             /\ DOMAIN t = DOMAIN books.pledges \cup {n} /\ n \notin DOMAIN books.pledges
             /\ \A l \in DOMAIN books.pledges : t[l] = books.pledges[l]
             /\ t[n].person = a.person /\ ~t[n].cancelled
  <2>1. row.person = a.person /\ ~row.cancelled
    BY <1>1
  <2>2. LET t == Append(books.pledges, row) IN
        /\ DOMAIN t = DOMAIN books.pledges \cup {n} /\ n \notin DOMAIN books.pledges
        /\ \A l \in DOMAIN books.pledges : t[l] = books.pledges[l]
        /\ t[n] = row
    BY <1>0
  <2> QED BY <2>1, <2>2
<1>2. CASE a.tool \in PledgeTools
  <2>1. Person(books, a.person)
    BY <1>2 DEF Gate, PledgeTools
  <2>2. PICK row : row = [person |-> a.person, committed |-> a.amount, cancelled |-> FALSE]
    OBVIOUS
  <2>3. w.people = books.people /\ w.pledges = Append(books.pledges, row)
    BY <1>2, <2>2 DEF PledgeTools, Written, createPledge, recordPledgeWithPayment, recordFulfillment, Books
  <2>4. /\ DOMAIN w.pledges = DOMAIN books.pledges \cup {n} /\ n \notin DOMAIN books.pledges
        /\ \A l \in DOMAIN books.pledges : w.pledges[l] = books.pledges[l]
        /\ w.pledges[n].person = a.person /\ ~w.pledges[n].cancelled
    BY <1>1, <2>2, <2>3
  <2>5. a.tool # "merge_people"
    BY <1>2 DEF PledgeTools
  <2> QED BY <1>2, <2>1, <2>3, <2>4, <2>5
<1>3. CASE a.tool = "merge_people"
  <2>1. MergeAllowed(books, a.person, a.other) /\ w = mergePeople(books, a.person, a.other)
    BY <1>3 DEF Gate, Written
  <2>2. /\ a.person \in DOMAIN books.people /\ a.other \in DOMAIN books.people /\ a.person # a.other
        /\ Person(books, a.person) /\ Person(books, a.other)
    BY <2>1 DEF MergeAllowed, Person
  <2>3. w.people = [books.people EXCEPT ![a.person].gone = TRUE, ![a.person].user = 0,
                      ![a.other].user = IF @ = 0 THEN books.people[a.person].user ELSE @]
    BY <2>1 DEF mergePeople, Books
  <2>4. w.pledges = [l \in DOMAIN books.pledges |->
          IF books.pledges[l].person = a.person THEN [books.pledges[l] EXCEPT !.person = a.other]
          ELSE books.pledges[l]]
    BY <2>1 DEF mergePeople, Books
  <2>5. DOMAIN w.people = DOMAIN books.people
    BY <2>3
  <2>6. \A p \in DOMAIN books.people : /\ w.people[p].name = books.people[p].name
                                       /\ books.people[p].gone => w.people[p].gone
    <3>1. books.people[a.person] \in People /\ books.people[a.other] \in People
      BY <1>0, <2>2
    <3>2. ASSUME NEW p \in DOMAIN books.people, p \notin {a.person, a.other}
          PROVE  w.people[p] = books.people[p]
      BY <2>3, <3>2
    <3>3. /\ w.people[a.person].name = books.people[a.person].name /\ w.people[a.person].gone
          /\ w.people[a.other].name = books.people[a.other].name
          /\ w.people[a.other].gone = books.people[a.other].gone
      <4>1. PICK u : u = IF books.people[a.other].user = 0 THEN books.people[a.person].user
                         ELSE books.people[a.other].user
        OBVIOUS
      <4>2. w.people[a.person] = [books.people[a.person] EXCEPT !.gone = TRUE, !.user = 0]
        BY <2>2, <2>3
      <4>3. w.people[a.other] = [books.people[a.other] EXCEPT !.user = u]
        BY <2>2, <2>3, <4>1
      <4>4. w.people[a.person].name = books.people[a.person].name /\ w.people[a.person].gone
        BY <3>1, <4>2 DEF People
      <4>5. /\ w.people[a.other].name = books.people[a.other].name
            /\ w.people[a.other].gone = books.people[a.other].gone
        BY <3>1, <4>3 DEF People
      <4> QED BY <4>4, <4>5
    <3> QED BY <3>2, <3>3
  <2>7. w.people[a.person].gone
    <3>1. books.people[a.person] \in People
      BY <1>0, <2>2
    <3> QED BY <2>2, <2>3, <3>1 DEF People
  <2>8. /\ DOMAIN w.pledges = DOMAIN books.pledges
        /\ \A l \in DOMAIN books.pledges :
             /\ w.pledges[l].cancelled = books.pledges[l].cancelled
             /\ w.pledges[l].person =
                  IF books.pledges[l].person = a.person THEN a.other ELSE books.pledges[l].person
    BY <1>0, <2>4 DEF Pledges
  <2> QED BY <1>3, <2>2, <2>5, <2>6, <2>7, <2>8 DEF PledgeTools
<1>4. CASE a.tool = "correct_pledge"
  <2>1. a.pledge \in DOMAIN books.pledges /\ w = correctCommittedValue(books, a.pledge, a.amount)
    BY <1>4 DEF Gate, Written
  <2>2. w.people = books.people /\ w.pledges = [books.pledges EXCEPT ![a.pledge].committed = a.amount]
    BY <2>1 DEF correctCommittedValue, Books
  <2>3. /\ DOMAIN w.pledges = DOMAIN books.pledges
        /\ \A l \in DOMAIN books.pledges :
             /\ w.pledges[l].cancelled = books.pledges[l].cancelled
             /\ w.pledges[l].person = books.pledges[l].person
    BY <1>0, <2>1, <2>2 DEF Pledges
  <2> QED BY <1>4, <2>2, <2>3 DEF PledgeTools
<1>5. CASE a.tool \in {"record_payment", "create_budget_item", "update_budget_item", "remove_budget_item",
                       "allocate_to_budget", "correct_payment", "send_sms_reminders", "invite_member",
                       "add_person"}
  <2>1. w.people = books.people /\ w.pledges = books.pledges
    <3>1. CASE a.tool = "record_payment"
      BY <3>1 DEF Written, recordFulfillment, Books
    <3>2. CASE a.tool = "create_budget_item"
      BY <3>2 DEF Written, addItem, Books
    <3>3. CASE a.tool = "update_budget_item"
      BY <3>3 DEF Written, updateItem, Books
    <3>4. CASE a.tool = "remove_budget_item"
      BY <3>4 DEF Written, removeItem, Books
    <3>5. CASE a.tool = "allocate_to_budget"
      BY <3>5 DEF Written, allocate, Books
    <3>6. CASE a.tool = "correct_payment"
      BY <3>6 DEF Written, correctValue, Books
    <3>7. CASE a.tool \in {"send_sms_reminders", "invite_member", "add_person"}
      BY <3>7 DEF Written
    <3> QED BY <1>5, <3>1, <3>2, <3>3, <3>4, <3>5, <3>6, <3>7
  <2> QED BY <1>5, <2>1 DEF PledgeTools
<1>6. a.tool \in {"record_pledge", "record_pledge_with_payment", "record_direct_contribution",
                  "record_payment", "create_budget_item", "update_budget_item", "remove_budget_item",
                  "allocate_to_budget", "correct_pledge", "correct_payment", "merge_people",
                  "send_sms_reminders", "invite_member", "add_person"}
  BY DEF ActionRows, Tools, writeAction
<1> QED BY <1>2, <1>3, <1>4, <1>5, <1>6 DEF PledgeTools

\* An action is recorded: a name that is calm after it was calm before, and
\* was expected if this is the first action for it.
LEMMA CalmBefore ==
  ASSUME done \in Seq(DoneRows), NEW entry, done' = Append(done, entry), doubtful \subseteq doubtful',
         \A i \in DOMAIN done : done[i].action.tool = "merge_people" =>
                                  done[i].action.other \in DOMAIN books.people,
         \A p \in DOMAIN books.people : books'.people[p].name = books.people[p].name,
         NEW n \in Names
  PROVE  /\ Undoubted(n)' => /\ Undoubted(n) /\ n \notin doubtful'
                             /\ ~(entry.action.tool = "add_person" /\ entry.action.name = n)
         /\ Calm(n)' => /\ Calm(n) /\ Undoubted(n)'
                        /\ entry.action.tool = "merge_people" => books'.people[entry.action.other].name # n
         /\ Concerning(n) \subseteq Concerning(n)'
         /\ Concerning(n)' # {} /\ Concerning(n) = {} /\ Calm(n)' =>
              Newcomer(entry.action) /\ entry.action.name = n
         /\ Calm(n)' /\ (<<entry.action.name, n>> \in Within \/ <<n, entry.action.name>> \in Within) =>
              /\ entry.action.name = n /\ entry.action.person = 0 /\ Concerning(n)' # {}
              /\ entry.action.tool \in {"record_pledge", "record_pledge_with_payment"} => Concerning(n) = {}
<1>1. PICK m : m = Len(done) + 1
  OBVIOUS
<1>2. /\ DOMAIN done' = DOMAIN done \cup {m} /\ m \notin DOMAIN done /\ done'[m] = entry
      /\ \A i \in DOMAIN done : done'[i] = done[i] /\ i < m /\ i \in Nat
      /\ m \in Nat
  BY <1>1
<1>3. /\ \A i \in DOMAIN done : i \in Concerning(n)' <=> i \in Concerning(n)
      /\ \A i \in DOMAIN done : i \in Pledging(n)' <=> i \in Pledging(n)
      /\ m \in Concerning(n)' <=> <<entry.action.name, n>> \in Within \/ <<n, entry.action.name>> \in Within
      /\ m \in Pledging(n)' <=> /\ m \in Concerning(n)'
                                /\ entry.action.tool \in {"record_pledge", "record_pledge_with_payment"}
      /\ Concerning(n) \subseteq DOMAIN done /\ Concerning(n)' \subseteq DOMAIN done \cup {m}
      /\ Pledging(n) \subseteq Concerning(n) /\ Pledging(n)' \subseteq Concerning(n)'
  BY <1>2 DEF Concerning, Pledging
<1>4. /\ AddedBlindly(n) => AddedBlindly(n)'
      /\ entry.action.tool = "add_person" /\ entry.action.name = n => AddedBlindly(n)'
  BY <1>2 DEF AddedBlindly
<1>5. /\ MergedInto(n) => MergedInto(n)'
      /\ entry.action.tool = "merge_people" /\ books'.people[entry.action.other].name = n => MergedInto(n)'
  BY <1>2 DEF MergedInto
<1>6. Undoubted(n)' => /\ Undoubted(n) /\ n \notin doubtful'
                       /\ ~(entry.action.tool = "add_person" /\ entry.action.name = n)
  BY <1>4 DEF Undoubted
<1>7. Concerning(n) \subseteq Concerning(n)'
  BY <1>3
<1>8. ASSUME Calm(n)' PROVE Calm(n)
  <2>1. \A i \in Concerning(n) : done[i].action.name = n /\ done[i].action.person = 0
    BY <1>2, <1>3, <1>8 DEF Calm
  <2>2. ASSUME Concerning(n) # {} PROVE PledgeCameFirst(n)
    <3>1. PICK i \in Pledging(n)' : Pledging(n)' = {i} /\ \A j \in Concerning(n)' : i <= j
      BY <1>3, <1>8, <2>2 DEF Calm, PledgeCameFirst
    <3>2. PICK j : j \in Concerning(n)
      BY <2>2
    <3>3. i <= j /\ j < m /\ j \in Nat
      BY <1>2, <1>3, <3>1, <3>2
    <3>4. i # m
      BY <1>2, <3>3
    <3>5. i \in Pledging(n)
      BY <1>3, <3>1, <3>4
    <3>6. Pledging(n) = {i}
      BY <1>3, <3>1, <3>5
    <3> QED BY <1>3, <2>1, <3>1, <3>5, <3>6 DEF PledgeCameFirst
  <2> QED BY <1>5, <1>6, <1>8, <2>1, <2>2 DEF Calm
<1>9. ASSUME Concerning(n)' # {}, Concerning(n) = {}, Calm(n)'
      PROVE  Newcomer(entry.action) /\ entry.action.name = n
  <2>1. Concerning(n)' = {m}
    BY <1>3, <1>9
  <2>2. m \in Pledging(n)'
    BY <1>3, <1>9, <2>1 DEF Calm, PledgeCameFirst
  <2>3. entry.action.name = n /\ entry.action.person = 0
    BY <1>2, <1>9, <2>1 DEF Calm
  <2> QED BY <1>3, <2>2, <2>3 DEF Newcomer
<1>10. ASSUME Calm(n)', <<entry.action.name, n>> \in Within \/ <<n, entry.action.name>> \in Within
       PROVE  /\ entry.action.name = n /\ entry.action.person = 0 /\ Concerning(n)' # {}
              /\ entry.action.tool \in {"record_pledge", "record_pledge_with_payment"} => Concerning(n) = {}
  <2>1. m \in Concerning(n)'
    BY <1>3, <1>10
  <2>2. entry.action.name = n /\ entry.action.person = 0
    BY <1>2, <1>10, <2>1 DEF Calm
  <2>3. ASSUME entry.action.tool \in {"record_pledge", "record_pledge_with_payment"},
               NEW j \in Concerning(n)
        PROVE  FALSE
    <3>1. PICK i \in Pledging(n)' : Pledging(n)' = {i} /\ \A k \in Concerning(n)' : i <= k
      BY <1>10, <2>1 DEF Calm, PledgeCameFirst
    <3>2. i = m
      BY <1>3, <2>1, <2>3, <3>1
    <3>3. j \in DOMAIN done /\ m <= j
      BY <1>3, <3>1, <3>2
    <3> QED BY <1>2, <3>3
  <2> QED BY <2>1, <2>2, <2>3
<1>11. Calm(n)' => /\ Undoubted(n)'
                   /\ entry.action.tool = "merge_people" => books'.people[entry.action.other].name # n
  BY <1>5 DEF Calm
<1> QED BY <1>6, <1>7, <1>8, <1>9, <1>10, <1>11

\* Somebody is created: an added person, or the newcomer of an action.
LEMMA NewcomersCreated ==
  ASSUME ProposalInv, NewcomerInv, NEW c \in Callers, addPerson(c)
  PROVE  NewcomerInv'
<1>0. /\ calls[c] \in CallRows /\ books \in Books /\ done \in Seq(DoneRows)
      /\ calls \in [Callers -> CallRows] /\ GoodRun(calls[c])
      /\ calls[c].pc \notin {"idle"} => calls[c].action \in ActionRows
  BY DEF ProposalInv, ProposalTypes, NewcomerInv
<1>1. /\ calls[c].pc = "person" /\ UNCHANGED <<proposals, doubtful>>
      /\ books' = createPerson(books, calls[c].action.name, 0)
  BY DEF addPerson, at
<1>2. PICK a, m, q, payload : /\ a = calls[c].action /\ m = calls[c].action.name /\ q = Len(books.people) + 1
                              /\ payload = calls[c].payload
  OBVIOUS
<1>3. PICK new : new = [name |-> m, phone |-> 0, user |-> 0, gone |-> FALSE]
  OBVIOUS
<1>4. new.name = m /\ ~new.gone
  BY <1>3
<1>5. a \in ActionRows /\ m \in Names
  BY <1>0, <1>1, <1>2 DEF ActionRows
<1>6. books'.people = Append(books.people, new) /\ books'.pledges = books.pledges
  BY <1>0, <1>1, <1>2, <1>3 DEF createPerson, Books
<1>7. /\ DOMAIN books'.people = DOMAIN books.people \cup {q} /\ q \notin DOMAIN books.people
      /\ \A p \in DOMAIN books.people : books'.people[p] = books.people[p]
      /\ books'.people[q] = new
  <2>1. books.people \in Seq(People)
    BY <1>0 DEF Books
  <2> QED BY <1>2, <1>6, <2>1
<1>8. \A n : Exactly(n)' = IF n = m THEN Exactly(n) \cup {q} ELSE Exactly(n)
  BY <1>4, <1>7 DEF Exactly, Persons, Person
<1>9. /\ \A p : PledgesOf(books, p)' = PledgesOf(books, p)
      /\ PledgesOf(books, q) = {}
  BY <1>6, <1>7 DEF PledgesOf, NewcomerInv
<1>10. /\ a.tool = payload.tool /\ m = payload.name /\ Meant(payload)
       /\ Newcomer(payload) \/ payload.tool = "add_person"
  BY <1>0, <1>1, <1>2 DEF GoodRun
<1>11. /\ \A x : Meant(x) => Meant(x)'
       /\ \A call : GoodRun(call) => GoodRun(call)'
  BY <1>1, <1>7, MeantGoesOn
<1>12. ASSUME NEW p \in DOMAIN proposals' PROVE Meant(proposals[p].action)'
  <2>1. PICK x : x = proposals[p].action
    OBVIOUS
  <2>2. Meant(x)'
    BY <1>1, <1>11, <1>12, <2>1 DEF NewcomerInv
  <2> QED BY <1>1, <2>1, <2>2 DEF Meant
<1>13. \A l \in DOMAIN books'.pledges : books'.pledges[l].person \in DOMAIN books'.people
  BY <1>6, <1>7 DEF NewcomerInv
<1>14. CASE a.tool = "add_person"
  <2>1. PICK entry : entry = [proposal |-> calls[c].proposal, action |-> payload, sure |-> calls[c].sure]
    OBVIOUS
  <2>2. entry.action = payload
    BY <2>1
  <2>3. done' = Append(done, entry) /\ calls' = [calls EXCEPT ![c] = NoCall]
    BY <1>2, <1>14, <2>1 DEF addPerson, record, hangUp
  <2>4. /\ NoCall.pc = "idle" /\ calls'[c] = NoCall /\ \A d \in Callers : d # c => calls'[d] = calls[d]
    BY <1>0, <2>3 DEF NoCall
  <2>5. entry.action.tool = "add_person" /\ entry.action.name = m
    BY <1>10, <1>14, <2>2
  <2>6. ASSUME NEW n \in Names
        PROVE  /\ Undoubted(n)' => Undoubted(n) /\ n # m
               /\ Calm(n)' => Calm(n) /\ n # m /\ Concerning(n)' = Concerning(n)
    <3>1. /\ Undoubted(n)' => /\ Undoubted(n) /\ n \notin doubtful'
                              /\ ~(entry.action.tool = "add_person" /\ entry.action.name = n)
          /\ Calm(n)' => Calm(n) /\ Undoubted(n)'
          /\ Concerning(n) \subseteq Concerning(n)'
          /\ Concerning(n)' # {} /\ Concerning(n) = {} /\ Calm(n)' =>
               Newcomer(entry.action) /\ entry.action.name = n
          /\ Calm(n)' /\ (<<entry.action.name, n>> \in Within \/ <<n, entry.action.name>> \in Within) =>
               entry.action.name = n
      BY <1>0, <1>1, <1>7, <2>3, CalmBefore DEF NewcomerInv
    <3>2. ASSUME Calm(n)' PROVE Concerning(n)' = Concerning(n)
      <4>1. ~(<<entry.action.name, n>> \in Within \/ <<n, entry.action.name>> \in Within)
        BY <2>5, <3>1, <3>2
      <4>2. PICK x : x = Len(done) + 1
        OBVIOUS
      <4>3. /\ DOMAIN done' = DOMAIN done \cup {x} /\ done'[x] = entry
            /\ \A i \in DOMAIN done : done'[i] = done[i]
        BY <1>0, <2>3, <4>2
      <4> QED BY <4>1, <4>3 DEF Concerning
    <3> QED BY <2>5, <3>1, <3>2
  <2>7. \A i \in DOMAIN done' : done'[i].action.tool = "merge_people" =>
                                  done'[i].action.other \in DOMAIN books'.people
    <3>1. \A i \in DOMAIN done' : (i \in DOMAIN done /\ done'[i] = done[i]) \/ done'[i] = entry
      BY <1>0, <2>3
    <3> QED BY <1>7, <2>5, <3>1 DEF NewcomerInv
  <2>8. \A d \in Callers, n \in Names : Seeking(calls'[d], n) => d # c /\ calls'[d] = calls[d]
    BY <2>4 DEF Seeking, ExecPcs
  <2>9. OneOfAName'
    <3>1. ASSUME NEW d \in Callers, NEW e \in Callers, NEW n \in Names,
                 Seeking(calls'[d], n), Seeking(calls'[e], n), d # e
          PROVE  n \in doubtful'
      BY <1>1, <2>8, <3>1 DEF NewcomerInv, OneOfAName
    <3>2. ASSUME NEW n \in Names, Undoubted(n)' PROVE \A x, y \in Exactly(n)' : x = y
      BY <1>8, <2>6, <3>2 DEF NewcomerInv, OneOfAName
    <3>3. ASSUME NEW n \in Names, NEW d \in Callers, Undoubted(n)', Seeking(calls'[d], n),
                 calls'[d].pc = "person"
          PROVE  Exactly(n)' = {}
      BY <1>8, <2>6, <2>8, <3>3 DEF NewcomerInv, OneOfAName
    <3> QED BY <3>1, <3>2, <3>3 DEF OneOfAName, Seeking, Newcomer
  <2>10. ASSUME NEW d \in Callers PROVE GoodRun(calls[d])'
    <3>1. PICK call : call = calls'[d]
      OBVIOUS
    <3>2. GoodRun(call)
      <4>1. CASE d = c
        BY <2>4, <3>1, <4>1 DEF GoodRun, ReviewPcs, ExecPcs
      <4>2. CASE d # c
        BY <2>4, <3>1, <4>2 DEF NewcomerInv
      <4> QED BY <4>1, <4>2
    <3>3. GoodRun(call)'
      BY <1>11, <3>2
    <3> QED BY <3>1, <3>3 DEF GoodRun, Meant
  <2>11. ASSUME NEW n \in Names, Calm(n)', Expected(n)' \/ Concerning(n)' # {} PROVE OnePledge(n)'
    <3>1. Expected(n)' => Expected(n)
      <4>1. \A d \in Callers : calls'[d].pc \notin {"idle", "resolve"} => calls'[d] = calls[d]
        BY <2>4
      <4> QED BY <1>1, <4>1 DEF Expected, Newcomer
    <3>2. OnePledge(n)
      BY <2>6, <2>11, <3>1 DEF NewcomerInv
    <3> QED BY <1>6, <1>8, <1>9, <2>6, <2>11, <3>2 DEF OnePledge
  <2>12. ASSUME NEW n \in Names, NEW d \in Callers, Calm(n)' PROVE Unpledged(calls[d], n)'
    <3>1. Unpledged(calls[d], n)
      BY <2>6, <2>12 DEF NewcomerInv
    <3> QED BY <1>8, <1>9, <2>6, <2>8, <2>12, <3>1 DEF Unpledged, Seeking, Newcomer
  <2> QED BY <1>12, <1>13, <2>7, <2>9, <2>10, <2>11, <2>12 DEF NewcomerInv
<1>15. CASE a.tool # "add_person"
  <2>1. PICK pc : pc = Onwards(a)
    OBVIOUS
  <2>2. done' = done /\ calls' = [calls EXCEPT ![c].pc = pc, ![c].action.person = q]
    BY <1>2, <1>15, <2>1 DEF addPerson
  <2>3. PICK action : action = [a EXCEPT !.person = q]
    OBVIOUS
  <2>4. PICK row : row = [calls[c] EXCEPT !.pc = pc, !.action = action]
    OBVIOUS
  <2>5. row.pc = pc /\ row.action = action /\ row.payload = payload
    BY <1>0, <1>2, <2>4 DEF CallRows
  <2>6. action.person = q /\ action.tool = a.tool /\ action.name = m
    BY <1>2, <1>5, <2>3 DEF ActionRows
  <2>7. calls'[c] = row /\ \A d \in Callers : d # c => calls'[d] = calls[d]
    BY <1>0, <1>2, <2>2, <2>3, <2>4
  <2>8. /\ Newcomer(payload) /\ a.tool = payload.tool /\ m = payload.name
        /\ pc = "attach" => payload.tool = "record_direct_contribution"
        /\ pc = "write" => payload.tool # "record_direct_contribution"
        /\ pc \in {"attach", "write"}
    BY <1>10, <1>15, <2>1 DEF Onwards
  <2>9. GoodRun(row)'
    <3>1. Meant(action)'
      BY <1>4, <1>5, <1>7, <2>6, ProposalsAssumption DEF Meant
    <3>2. Meant(payload)'
      BY <1>10, <1>11
    <3> QED BY <2>5, <2>6, <2>8, <3>1, <3>2 DEF GoodRun, ReviewPcs, ExecPcs, Newcomer
  <2>10. ASSUME NEW d \in Callers PROVE GoodRun(calls[d])'
    <3>1. PICK call : call = calls'[d]
      OBVIOUS
    <3>2. GoodRun(call)'
      <4>1. CASE d = c
        BY <2>7, <2>9, <3>1, <4>1
      <4>2. CASE d # c
        BY <1>11, <2>7, <3>1, <4>2 DEF NewcomerInv
      <4> QED BY <4>1, <4>2
    <3> QED BY <3>1, <3>2 DEF GoodRun, Meant
  <2>11. /\ \A n : Concerning(n)' = Concerning(n) /\ (PledgeCameFirst(n)' <=> PledgeCameFirst(n))
         /\ \A n : Undoubted(n)' <=> Undoubted(n)
    BY <1>1, <2>2 DEF Concerning, Pledging, PledgeCameFirst, Undoubted, AddedBlindly
  <2>12. \A n : Calm(n)' => Calm(n)
    <3>1. \A n : MergedInto(n) => MergedInto(n)'
      BY <1>7, <2>2 DEF MergedInto, NewcomerInv
    <3> QED BY <2>2, <2>11, <3>1 DEF Calm
  <2>13. \A n : Seeking(row, n) <=> Seeking(calls[c], n)
    BY <1>1, <1>2, <2>5, <2>8 DEF Seeking, ExecPcs
  <2>14. Seeking(calls[c], m)
    BY <1>1, <1>2, <2>8 DEF Seeking, ExecPcs
  <2>15. \A d \in Callers : \A n : Seeking(calls'[d], n) <=> Seeking(calls[d], n)
    BY <2>7, <2>13
  <2>16. Undoubted(m) => Exactly(m) = {}
    BY <1>1, <1>5, <2>14 DEF NewcomerInv, OneOfAName
  <2>17. OneOfAName'
    <3>1. ASSUME NEW d \in Callers, NEW e \in Callers, NEW n \in Names,
                 Seeking(calls'[d], n), Seeking(calls'[e], n), d # e
          PROVE  n \in doubtful'
      BY <1>1, <2>15, <3>1 DEF NewcomerInv, OneOfAName
    <3>2. ASSUME NEW n \in Names, Undoubted(n)' PROVE \A x, y \in Exactly(n)' : x = y
      BY <1>8, <2>11, <2>16, <3>2 DEF NewcomerInv, OneOfAName
    <3>3. ASSUME NEW n \in Names, NEW d \in Callers, Undoubted(n)', Seeking(calls'[d], n),
                 calls'[d].pc = "person"
          PROVE  Exactly(n)' = {}
      <4>1. d # c /\ calls'[d] = calls[d]
        BY <2>5, <2>7, <2>8, <3>3
      <4>2. n # m
        <5>1. n \notin doubtful
          BY <2>11, <3>3 DEF Undoubted
        <5>2. Seeking(calls[d], n)
          BY <3>3, <4>1
        <5> QED BY <2>14, <4>1, <5>1, <5>2 DEF NewcomerInv, OneOfAName
      <4> QED BY <1>8, <2>11, <3>3, <4>1, <4>2 DEF NewcomerInv, OneOfAName
    <3> QED BY <3>1, <3>2, <3>3 DEF OneOfAName, Seeking, Newcomer
  <2>18. ASSUME NEW n \in Names, Calm(n)', Expected(n)' \/ Concerning(n)' # {} PROVE OnePledge(n)'
    <3>1. Expected(n)' => Expected(n)
      <4>1. \A d \in Callers : /\ calls'[d].payload = calls[d].payload
                               /\ calls'[d].pc \notin {"idle", "resolve"} =>
                                    calls[d].pc \notin {"idle", "resolve"}
        BY <1>1, <1>2, <2>5, <2>7, <2>8
      <4> QED BY <1>1, <4>1 DEF Expected, Newcomer
    <3>2. OnePledge(n)
      BY <2>11, <2>12, <2>18, <3>1 DEF NewcomerInv
    <3> QED BY <1>6, <1>8, <1>9, <2>11, <3>2 DEF OnePledge
  <2>19. ASSUME NEW n \in Names, NEW d \in Callers, Calm(n)' PROVE Unpledged(calls[d], n)'
    <3>1. Unpledged(calls[d], n)
      BY <2>12, <2>19 DEF NewcomerInv
    <3>2. CASE d # c
      <4>1. calls'[d] = calls[d]
        BY <2>7, <3>2
      <4> QED BY <1>8, <1>9, <3>1, <4>1 DEF Unpledged, Seeking, Newcomer
    <3>3. CASE d = c
      BY <2>5, <2>6, <2>7, <2>8, <3>3 DEF Unpledged
    <3> QED BY <3>2, <3>3
  <2>20. \A i \in DOMAIN done' : done'[i].action.tool = "merge_people" =>
                                  done'[i].action.other \in DOMAIN books'.people
    BY <1>7, <2>2 DEF NewcomerInv
  <2> QED BY <1>12, <1>13, <2>10, <2>17, <2>18, <2>19, <2>20 DEF NewcomerInv
<1> QED BY <1>14, <1>15


\* An action is written.  The person it pledges for, if their name is calm
\* afterwards, is the newcomer it was looking for and has no pledge yet.
LEMMA NewcomersWritten ==
  ASSUME ProposalInv, NewcomerInv, NEW c \in Callers, write(c)
  PROVE  NewcomerInv'
<1>0. /\ calls[c] \in CallRows /\ books \in Books /\ done \in Seq(DoneRows)
      /\ calls \in [Callers -> CallRows] /\ GoodRun(calls[c])
      /\ calls[c].pc \notin {"idle"} => calls[c].action \in ActionRows
      /\ calls[c].pc \notin {"idle", "resolve"} => calls[c].payload \in ActionRows
  BY DEF ProposalInv, ProposalTypes, NewcomerInv
<1>1. PICK a, payload, new, entry :
        /\ a = calls[c].action /\ payload = calls[c].payload /\ new = Len(books.pledges) + 1
        /\ entry = [proposal |-> calls[c].proposal, action |-> payload, sure |-> calls[c].sure]
  OBVIOUS
<1>2. /\ calls[c].pc = "write" /\ Gate(a).ok /\ books' = Written(a) /\ UNCHANGED <<proposals, doubtful>>
      /\ done' = Append(done, entry) /\ calls' = [calls EXCEPT ![c] = NoCall]
  BY <1>1 DEF write, at, record, hangUp
<1>3. /\ NoCall.pc = "idle" /\ calls'[c] = NoCall /\ \A d \in Callers : d # c => calls'[d] = calls[d]
      /\ entry.action = payload /\ a \in ActionRows /\ payload \in ActionRows
  BY <1>0, <1>1, <1>2 DEF NoCall
<1>4. /\ DOMAIN books'.people = DOMAIN books.people
      /\ \A p \in DOMAIN books.people : /\ books'.people[p].name = books.people[p].name
                                        /\ books.people[p].gone => books'.people[p].gone
      /\ a.tool \in PledgeTools =>
           /\ Person(books, a.person)
           /\ DOMAIN books'.pledges = DOMAIN books.pledges \cup {new} /\ new \notin DOMAIN books.pledges
           /\ \A l \in DOMAIN books.pledges : books'.pledges[l] = books.pledges[l]
           /\ books'.pledges[new].person = a.person /\ ~books'.pledges[new].cancelled
      /\ a.tool \notin PledgeTools =>
           /\ DOMAIN books'.pledges = DOMAIN books.pledges
           /\ \A l \in DOMAIN books.pledges : books'.pledges[l].cancelled = books.pledges[l].cancelled
      /\ a.tool = "merge_people" =>
           /\ Person(books, a.person) /\ Person(books, a.other) /\ books'.people[a.person].gone
           /\ \A l \in DOMAIN books.pledges : books'.pledges[l].person =
                IF books.pledges[l].person = a.person THEN a.other ELSE books.pledges[l].person
      /\ a.tool \notin PledgeTools \cup {"merge_people"} =>
           \A l \in DOMAIN books.pledges : books'.pledges[l].person = books.pledges[l].person
  BY <1>0, <1>1, <1>2, <1>3, PledgesWritten
<1>5. /\ \A x : Meant(x) => Meant(x)'
      /\ \A call : GoodRun(call) => GoodRun(call)'
  BY <1>2, <1>4, MeantGoesOn
<1>6. \A n : Exactly(n)' \subseteq Exactly(n)
  BY <1>4 DEF Exactly, Persons, Person
<1>7. /\ Meant(a)
      /\ \/ a = payload /\ ~Newcomer(payload)
         \/ /\ Newcomer(payload) /\ a.name = payload.name
            /\ a.tool \in {payload.tool, "record_payment"}
  BY <1>0, <1>1, <1>2 DEF GoodRun, ExecPcs
<1>8. ASSUME NEW n \in Names
      PROVE  /\ Undoubted(n)' => Undoubted(n)
             /\ Calm(n)' => /\ Calm(n) /\ Undoubted(n)'
                            /\ payload.tool = "merge_people" => books'.people[payload.other].name # n
             /\ Concerning(n) \subseteq Concerning(n)'
             /\ Concerning(n)' # {} /\ Concerning(n) = {} /\ Calm(n)' =>
                  Newcomer(payload) /\ payload.name = n
             /\ Calm(n)' /\ <<payload.name, n>> \in Within =>
                  /\ payload.name = n /\ payload.person = 0 /\ Concerning(n)' # {}
                  /\ payload.tool \in {"record_pledge", "record_pledge_with_payment"} => Concerning(n) = {}
  <2>1. /\ Undoubted(n)' => Undoubted(n)
        /\ Calm(n)' => /\ Calm(n) /\ Undoubted(n)'
                       /\ entry.action.tool = "merge_people" => books'.people[entry.action.other].name # n
        /\ Concerning(n) \subseteq Concerning(n)'
        /\ Concerning(n)' # {} /\ Concerning(n) = {} /\ Calm(n)' =>
             Newcomer(entry.action) /\ entry.action.name = n
        /\ Calm(n)' /\ (<<entry.action.name, n>> \in Within \/ <<n, entry.action.name>> \in Within) =>
             /\ entry.action.name = n /\ entry.action.person = 0 /\ Concerning(n)' # {}
             /\ entry.action.tool \in {"record_pledge", "record_pledge_with_payment"} => Concerning(n) = {}
    BY <1>0, <1>2, <1>4, CalmBefore DEF NewcomerInv
  <2> QED BY <1>3, <2>1
<1>9. ASSUME NEW n \in Names, Calm(n)', a.tool \in PledgeTools, a.person \in Exactly(n)
      PROVE  Seeking(calls[c], n) /\ PledgesOf(books, a.person) = {} /\ Concerning(n)' # {}
  <2>1. a.person # 0 /\ books.people[a.person].name = n
    BY <1>0, <1>9 DEF Exactly, Persons, Books
  <2>2. <<a.name, n>> \in Within
    BY <1>7, <1>8, <1>9, <2>1 DEF Meant, Calm, Undoubted
  <2>3. a.name = payload.name
    BY <1>7
  <2>4. payload.name = n /\ payload.person = 0 /\ Concerning(n)' # {}
    BY <1>8, <1>9, <2>2, <2>3
  <2>5. Newcomer(payload) /\ a.tool = payload.tool
    BY <1>7, <1>9, <2>4 DEF Newcomer, PledgeTools
  <2>6. Seeking(calls[c], n)
    BY <1>1, <1>2, <2>4, <2>5 DEF Seeking, ExecPcs
  <2>7. CASE a.tool = "record_direct_contribution"
    BY <1>1, <1>2, <1>8, <1>9, <2>4, <2>6, <2>7 DEF NewcomerInv, Unpledged
  <2>8. CASE a.tool # "record_direct_contribution"
    <3>1. Concerning(n) = {}
      BY <1>8, <1>9, <2>2, <2>3, <2>5, <2>8 DEF PledgeTools
    <3>2. Expected(n)
      BY <1>1, <1>2, <2>4, <2>5 DEF Expected
    <3>3. OnePledge(n)
      BY <1>8, <1>9, <3>2 DEF NewcomerInv
    <3> QED BY <1>9, <2>4, <2>6, <3>1, <3>3 DEF OnePledge
  <2> QED BY <2>4, <2>6, <2>7, <2>8
<1>10. a.tool = "merge_people" => a = payload
  BY <1>7 DEF Newcomer
<1>11. ASSUME NEW n \in Names, Calm(n)', NEW p \in Exactly(n)', ~(a.tool \in PledgeTools /\ p = a.person)
       PROVE  /\ PledgesOf(books, p)' = PledgesOf(books, p)
              /\ \A l \in PledgesOf(books, p) : books'.pledges[l].cancelled = books.pledges[l].cancelled
  <2>1. CASE a.tool \in PledgeTools
    BY <1>4, <1>11, <2>1 DEF PledgesOf
  <2>2. CASE a.tool = "merge_people"
    <3>1. p # a.person
      BY <1>4, <1>11, <2>2 DEF Exactly, Persons, Person
    <3>2. p # a.other
      BY <1>8, <1>10, <1>11, <2>2 DEF Exactly
    <3>3. a.tool \notin PledgeTools
      BY <2>2 DEF PledgeTools
    <3> QED BY <1>4, <2>2, <3>1, <3>2, <3>3 DEF PledgesOf
  <2>3. CASE a.tool \notin PledgeTools \cup {"merge_people"}
    BY <1>4, <2>3 DEF PledgesOf
  <2> QED BY <2>1, <2>2, <2>3
<1>12. ASSUME NEW p \in DOMAIN proposals' PROVE Meant(proposals[p].action)'
  <2>1. PICK x : x = proposals[p].action
    OBVIOUS
  <2>2. Meant(x)'
    BY <1>2, <1>5, <1>12, <2>1 DEF NewcomerInv
  <2> QED BY <1>2, <2>1, <2>2 DEF Meant
<1>13. \A l \in DOMAIN books'.pledges : books'.pledges[l].person \in DOMAIN books'.people
  <2>1. CASE a.tool \in PledgeTools
    BY <1>4, <2>1 DEF NewcomerInv, Person
  <2>2. CASE a.tool = "merge_people"
    BY <1>4, <2>2 DEF NewcomerInv, Person, PledgeTools
  <2>3. CASE a.tool \notin PledgeTools \cup {"merge_people"}
    BY <1>4, <2>3 DEF NewcomerInv
  <2> QED BY <2>1, <2>2, <2>3
<1>14. \A i \in DOMAIN done' : done'[i].action.tool = "merge_people" =>
                                 done'[i].action.other \in DOMAIN books'.people
  <2>1. \A i \in DOMAIN done' : (i \in DOMAIN done /\ done'[i] = done[i]) \/ done'[i] = entry
    BY <1>0, <1>2
  <2>2. payload.tool = "merge_people" => payload.other \in DOMAIN books.people
    BY <1>4, <1>7 DEF Newcomer, Person
  <2> QED BY <1>3, <1>4, <2>1, <2>2 DEF NewcomerInv
<1>15. \A d \in Callers, n \in Names : Seeking(calls'[d], n) => d # c /\ calls'[d] = calls[d]
  BY <1>3 DEF Seeking, ExecPcs
<1>16. OneOfAName'
  <2>1. ASSUME NEW d \in Callers, NEW e \in Callers, NEW n \in Names,
               Seeking(calls'[d], n), Seeking(calls'[e], n), d # e
        PROVE  n \in doubtful'
    BY <1>2, <1>15, <2>1 DEF NewcomerInv, OneOfAName
  <2>2. ASSUME NEW n \in Names, Undoubted(n)' PROVE \A x, y \in Exactly(n)' : x = y
    BY <1>6, <1>8, <2>2 DEF NewcomerInv, OneOfAName
  <2>3. ASSUME NEW n \in Names, NEW d \in Callers, Undoubted(n)', Seeking(calls'[d], n),
               calls'[d].pc = "person"
        PROVE  Exactly(n)' = {}
    BY <1>6, <1>8, <1>15, <2>3 DEF NewcomerInv, OneOfAName
  <2> QED BY <2>1, <2>2, <2>3 DEF OneOfAName, Seeking, Newcomer
<1>17. ASSUME NEW d \in Callers PROVE GoodRun(calls[d])'
  <2>1. PICK call : call = calls'[d]
    OBVIOUS
  <2>2. GoodRun(call)
    <3>1. CASE d = c
      BY <1>3, <2>1, <3>1 DEF GoodRun, ReviewPcs, ExecPcs
    <3>2. CASE d # c
      BY <1>3, <2>1, <3>2 DEF NewcomerInv
    <3> QED BY <3>1, <3>2
  <2>3. GoodRun(call)'
    BY <1>5, <2>2
  <2> QED BY <2>1, <2>3 DEF GoodRun, Meant
<1>18. ASSUME NEW n \in Names, Calm(n)', Expected(n)' \/ Concerning(n)' # {} PROVE OnePledge(n)'
  <2>1. Expected(n)' => Expected(n)
    <3>1. \A d \in Callers : calls'[d].pc \notin {"idle", "resolve"} => calls'[d] = calls[d]
      BY <1>3
    <3> QED BY <1>2, <3>1 DEF Expected, Newcomer
  <2>2. Expected(n) \/ Concerning(n) # {}
    BY <1>1, <1>2, <1>8, <1>18, <2>1 DEF Expected
  <2>3. OnePledge(n)
    BY <1>8, <1>18, <2>2 DEF NewcomerInv
  <2>4. ASSUME NEW p \in Exactly(n)'
        PROVE  /\ \A l \in PledgesOf(books, p)' : ~books'.pledges[l].cancelled
               /\ Concerning(n)' = {} => PledgesOf(books, p)' = {}
               /\ \A k, l \in PledgesOf(books, p)' : k = l
    <3>1. p \in Exactly(n)
      BY <1>6, <2>4
    <3>2. CASE a.tool \in PledgeTools /\ p = a.person
      <4>1. PledgesOf(books, p) = {} /\ Concerning(n)' # {}
        BY <1>9, <1>18, <3>1, <3>2
      <4>2. PledgesOf(books, p)' = {new}
        BY <1>4, <3>2, <4>1 DEF PledgesOf
      <4> QED BY <1>4, <3>2, <4>1, <4>2
    <3>3. CASE ~(a.tool \in PledgeTools /\ p = a.person)
      <4>1. /\ PledgesOf(books, p)' = PledgesOf(books, p)
            /\ \A l \in PledgesOf(books, p) : books'.pledges[l].cancelled = books.pledges[l].cancelled
        BY <1>11, <1>18, <2>4, <3>3
      <4>2. /\ \A l \in PledgesOf(books, p) : ~books.pledges[l].cancelled
            /\ Concerning(n) = {} => PledgesOf(books, p) = {}
            /\ \A k, l \in PledgesOf(books, p) : k = l
        BY <2>3, <3>1 DEF OnePledge
      <4>3. Concerning(n) \subseteq Concerning(n)'
        BY <1>8
      <4> QED BY <4>1, <4>2, <4>3
    <3> QED BY <3>2, <3>3
  <2> QED BY <2>4 DEF OnePledge
<1>19. ASSUME NEW n \in Names, NEW d \in Callers, Calm(n)' PROVE Unpledged(calls[d], n)'
  <2> SUFFICES ASSUME Seeking(calls'[d], n), calls'[d].pc = "write",
                      calls'[d].action.tool = "record_direct_contribution",
                      calls'[d].action.person \in Exactly(n)'
               PROVE  PledgesOf(books, calls[d].action.person)' = {}
    BY DEF Unpledged, Seeking, Newcomer
  <2>1. d # c /\ calls'[d] = calls[d]
    BY <1>15
  <2>2. PICK p : p = calls[d].action.person
    OBVIOUS
  <2>3. p \in Exactly(n)' /\ p \in Exactly(n) /\ Calm(n) /\ Seeking(calls[d], n)
    BY <1>6, <1>8, <1>19, <2>1, <2>2
  <2>4. PledgesOf(books, p) = {}
    BY <2>1, <2>2, <2>3 DEF NewcomerInv, Unpledged
  <2>5. ~(a.tool \in PledgeTools /\ p = a.person)
    BY <1>9, <1>19, <2>1, <2>3 DEF NewcomerInv, OneOfAName, Calm, Undoubted
  <2>6. PledgesOf(books, p)' = {}
    BY <1>11, <1>19, <2>3, <2>4, <2>5
  <2> QED BY <2>1, <2>2, <2>6 DEF PledgesOf
<1> QED BY <1>12, <1>13, <1>14, <1>16, <1>17, <1>18, <1>19 DEF NewcomerInv


\* The drains stage what a list's entries resolve to, and a budget's lines,
\* which are about nobody.
LEMMA NewcomersRead ==
  ASSUME ProposalInv, DocumentInv, NewcomerInv, NEW w \in Drains, StageEntry(w) \/ processBudget(w)
  PROVE  NewcomerInv'
<1>0. /\ books \in Books /\ ProposalTypes /\ OneOfAName /\ proposals \in Seq(ProposalRows)
      /\ UNCHANGED <<books, calls, done, doubtful>>
  BY DEF ProposalInv, ProposalTypes, NewcomerInv, StageEntry, processBudget
<1>1. CASE UNCHANGED proposals
  BY <1>0, <1>1, ProposalsStayMeant, QuietEnd
<1>2. ASSUME NEW s \in Said, NEW said,
             said = [NoAction EXCEPT !.tool = s.tool, !.name = s.name, !.amount = s.amount],
             create(Resolved(said), drains[w].doc)
      PROVE  NewcomerInv'
  <2>1. said \in ActionRows /\ said.person = 0 /\ said.tool \in CaptureTools
    <3>1. s.tool \in Tools /\ s.name \in Names /\ s.amount \in Nat /\ s.tool \in CaptureTools
      BY ProposalsAssumption DEF Said, Tools, writeAction, CaptureTools
    <3> QED BY <1>2, <3>1 DEF NoAction, ActionRows
  <2>2. PICK action, d : action = Resolved(said) /\ d = drains[w].doc
    OBVIOUS
  <2>3. Meant(action) /\ Awaited(action)
    BY <1>0, <2>1, <2>2, ResolvedIsMeant
  <2>4. create(action, d)
    BY <1>2, <2>2
  <2>5. ProposalsMean
    BY <1>0, <2>3, <2>4, StagedMeant
  <2> QED BY <1>0, <2>5, QuietEnd
<1>3. CASE processBudget(w)
  <2>1. PICK lines \in Lines(w) :
          proposals' = proposals \o [i \in DOMAIN lines |->
            Proposal([NoAction EXCEPT !.tool = lines[i].tool, !.name = lines[i].name,
                                      !.amount = lines[i].amount], drains[w].doc)]
    BY <1>3 DEF processBudget
  <2>2. PICK rows : rows = [i \in DOMAIN lines |->
          Proposal([NoAction EXCEPT !.tool = lines[i].tool, !.name = lines[i].name,
                                    !.amount = lines[i].amount], drains[w].doc)]
    OBVIOUS
  <2>3. PICK n : n = drains[w].entries
    OBVIOUS
  <2>4. DOMAIN rows = 1 .. n /\ DOMAIN lines = 1 .. n
    BY <2>2, <2>3 DEF Lines
  <2>5. ASSUME NEW i \in 1 .. n PROVE rows[i].action.tool = "create_budget_item"
    <3>1. lines[i].tool = "create_budget_item"
      BY <2>3, <2>5 DEF Lines
    <3> QED BY <2>2, <2>4, <2>5, <3>1 DEF Proposal, NoAction
  <2>6. \A p \in DOMAIN proposals' :
          (p \in DOMAIN proposals /\ proposals'[p] = proposals[p]) \/ \E i \in 1 .. n : proposals'[p] = rows[i]
    <3>1. n \in Nat /\ Len(proposals) \in Nat /\ DOMAIN proposals = 1 .. Len(proposals)
      BY <1>0, <2>3 DEF DocumentInv, DocumentTypes, DrainRows
    <3>2. PICK S : ProposalRows \subseteq S /\ \A i \in 1 .. n : rows[i] \in S
      <4> WITNESS ProposalRows \cup {rows[i] : i \in 1 .. n}
      <4> QED OBVIOUS
    <3>3. rows = [i \in 1 .. n |-> rows[i]]
      BY <2>2, <2>4
    <3>4. proposals \in Seq(S) /\ rows \in Seq(S) /\ Len(rows) = n
      <4>1. proposals \in Seq(S)
        BY <1>0, <3>2
      <4>2. rows \in [1 .. n -> S]
        BY <3>2, <3>3
      <4> QED BY <3>1, <4>1, <4>2
    <3>5. proposals' = proposals \o rows
      BY <2>1, <2>2
    <3>6. DOMAIN proposals' = 1 .. Len(proposals) + n
      <4>1. proposals' \in Seq(S) /\ Len(proposals') = Len(proposals) + Len(rows)
        BY <3>4, <3>5, ConcatProperties, Zenon
      <4> QED BY <3>4, <4>1
    <3>7. \A p \in 1 .. Len(proposals) + n :
            proposals'[p] = IF p <= Len(proposals) THEN proposals[p] ELSE rows[p - Len(proposals)]
      BY <3>1, <3>4, <3>5
    <3> QED BY <3>1, <3>6, <3>7
  <2>7. \A p \in DOMAIN proposals : Meant(proposals[p].action) /\ Awaited(proposals[p].action)
    BY DEF NewcomerInv, Awaited, Expected
  <2>8. ASSUME NEW p \in DOMAIN proposals' PROVE Meant(proposals'[p].action) /\ Awaited(proposals'[p].action)
    BY <2>5, <2>6, <2>7, <2>8 DEF Meant, Awaited, Newcomer, PledgeTools
  <2>9. ASSUME NEW p \in DOMAIN proposals' PROVE Meant(proposals[p].action)'
    BY <1>0, <2>8, <2>9 DEF Meant
  <2>10. ProposalsMean
    BY <2>8, <2>9 DEF ProposalsMean
  <2> QED BY <1>0, <2>10, QuietEnd
<1>4. CASE StageEntry(w)
  <2>1. ASSUME NEW s \in Said, NEW said,
               said = [NoAction EXCEPT !.tool = s.tool, !.name = s.name, !.amount = s.amount],
               IF NeedsClarification(said)
               THEN /\ drains' = [drains EXCEPT ![w].entries = @ - 1, ![w].clarifications = @ + 1]
                    /\ UNCHANGED proposals
               ELSE /\ drains' = [drains EXCEPT ![w].entries = @ - 1, ![w].staged = @ + 1]
                    /\ create(Resolved(said), drains[w].doc)
        PROVE  NewcomerInv'
    <3>1. CASE NeedsClarification(said)
      <4>1. UNCHANGED proposals
        BY <2>1, <3>1, Zenon
      <4> QED BY <1>1, <4>1
    <3>2. CASE ~NeedsClarification(said)
      <4>1. create(Resolved(said), drains[w].doc)
        BY <2>1, <3>2, Zenon
      <4> QED BY <1>2, <2>1, <4>1
    <3> QED BY <3>1, <3>2
  <2> QED BY <1>1, <1>4, <2>1 DEF StageEntry
<1> QED BY <1>3, <1>4

\* At the start nothing is staged, under way or done.
LEMMA NewcomersStart ==
  ASSUME Init
  PROVE  NewcomerInv
<1>1. PICK start \in Starts : books = start.books
  BY DEF Init
<1>2. /\ proposals = <<>> /\ calls = [c \in Callers |-> NoCall] /\ done = <<>>
  BY DEF Init, ProposalsInit
<1>3. /\ \A l \in DOMAIN books.pledges : books.pledges[l].person \in DOMAIN books.people
      /\ \A n \in Names \ doubtful : \A p, q \in Persons(books) :
           books.people[p].name = n /\ books.people[q].name = n => p = q
  BY <1>1, DocumentsAssumption DEF Init, ProposalsInit
<1>4. NoCall.pc = "idle" /\ \A c \in Callers : calls[c] = NoCall
  BY <1>2 DEF NoCall
<1>5. \A c \in Callers : GoodRun(calls[c]) /\ \A n : ~Seeking(calls[c], n)
  BY <1>4 DEF GoodRun, Seeking, ReviewPcs, ExecPcs
<1>6. OneOfAName
  BY <1>3, <1>5 DEF OneOfAName, Exactly, Undoubted
<1>7. \A n : ~Expected(n) /\ Concerning(n) = {}
  BY <1>2, <1>4 DEF Expected, Concerning
<1>8. \A c \in Callers : \A n : Unpledged(calls[c], n)
  BY <1>5 DEF Unpledged
<1> QED BY <1>2, <1>3, <1>5, <1>6, <1>7, <1>8 DEF NewcomerInv

\* Every step keeps newcomers whole; most document steps do not touch the books.
LEMMA NewcomersGoOn ==
  ASSUME ProposalInv, DocumentInv, NewcomerInv, [Next]_vars
  PROVE  NewcomerInv'
<1>1. ASSUME NEW c \in Callers, ProposalStep(c) PROVE NewcomerInv'
  BY <1>1, NewcomersCaptured, NewcomersStaged, NewcomersReviewed, NewcomersSought, NewcomersCreated,
     NewcomersWritten DEF ProposalStep, ReviewPcs
<1>2. ASSUME UNCHANGED proposalVars PROVE NewcomerInv'
  BY <1>2, ProposalsStayMeant, QuietEnd DEF proposalVars, ProposalInv
<1>3. CASE upload \/ submitForExtraction
  BY <1>2, <1>3 DEF upload, submitForExtraction
<1>4. ASSUME NEW w \in Drains,
             \/ deliver(w) \/ claim(w) \/ extract(w) \/ processContributionList(w)
             \/ FinishList(w) \/ fail(w) \/ drainFails(w)
      PROVE  NewcomerInv'
  BY <1>2, <1>4 DEF deliver, claim, extract, processContributionList, FinishList, fail, drainFails
<1>5. CASE UNCHANGED vars
  BY <1>2, <1>5 DEF vars, proposalVars
<1> QED BY <1>1, <1>3, <1>4, <1>5, NewcomersRead DEF Next, DocumentStep

\* Whoever was not in the books when actions were staged for them becomes one
\* person, and a payment that runs after their only pledge pays that pledge:
\* ToolExecutor looks the name up again before it creates anybody, and a
\* contribution looks for the pledge before it books one of its own.
THEOREM NewcomersStayWhole == Spec => []NewcomersAreNotForked
<1>1. NewcomerInv => NewcomersAreNotForked
  <2> SUFFICES ASSUME NewcomerInv, NEW n \in Names \ doubtful, ~AddedBlindly(n)
               PROVE  /\ Cardinality(Exactly(n)) <= 1
                      /\ PledgeCameFirst(n) /\ ~MergedInto(n) =>
                           \A p \in Exactly(n) : Cardinality(PledgesOf(books, p)) <= 1
    BY DEF NewcomersAreNotForked
  <2>1. ASSUME NEW S, \A i, j \in S : i = j PROVE Cardinality(S) <= 1
    <3>1. CASE S = {}
      BY <3>1, FS_EmptySet
    <3>2. CASE S # {}
      <4>1. PICK i : i \in S
        BY <3>2
      <4>2. S = {i}
        BY <2>1, <4>1
      <4>3. Cardinality({i}) = 1
        BY FS_Singleton, Zenon
      <4> QED BY <4>2, <4>3
    <3> QED BY <3>1, <3>2
  <2>2. \A p, q \in Exactly(n) : p = q
    BY DEF NewcomerInv, OneOfAName, Undoubted
  <2>3. ASSUME PledgeCameFirst(n), ~MergedInto(n), NEW p \in Exactly(n)
        PROVE  \A k, l \in PledgesOf(books, p) : k = l
    <3>1. Calm(n) /\ Concerning(n) # {}
      BY <2>3 DEF Calm, Undoubted, PledgeCameFirst, Pledging
    <3> QED BY <2>3, <3>1 DEF NewcomerInv, OnePledge
  <2> QED BY <2>1, <2>2, <2>3
<1>2. Init => NewcomerInv
  BY NewcomersStart
<1>3. (ProposalInv /\ DocumentInv) /\ NewcomerInv /\ [Next]_vars => NewcomerInv'
  BY NewcomersGoOn
<1> QED BY <1>1, <1>2, <1>3, ProposalsAndDocuments, PTL DEF Spec
=============================================================================
