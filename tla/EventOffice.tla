---------------------------- MODULE EventOffice -----------------------------
(***************************************************************************)
(* The organizers of one open event at their desks, and a visitor of its   *)
(* public page.  The typed API calls that look before they write (a new    *)
(* contributor, a contact, a merge, a budget line, the page's settings)    *)
(* take one step per statement that another transaction can come between;  *)
(* the others are one step each.                                           *)
(***************************************************************************)
EXTENDS PublicPage

Lists == INSTANCE SequencesExt

CONSTANTS
  Clerks,           \* the API calls that may be in progress at once
  Standing,         \* the roles of the organizers
  Phones, Users,    \* phone numbers and accounts, other than 0 for none
  Amounts,          \* amounts of money; the DTOs let 0 through
  maxContributors,  \* the plan's cap
  MaxVersion,       \* the versions a caller may name
  Asks,             \* settings updates: the columns asked for
  Starts            \* records: the books to start from, the calls to come

\* The settings an update may name: the others are not in its DTO.
Asked == {"isPublic", "contributors", "budget", "showTarget", "showOutstanding"}

\* Nothing here depends on a name.
RowNames == {"someone", "line"}

\* Books to start with: the schema's keys hold, and no number is two people's.
ASSUME OfficeAssumption ==
  /\ IsFiniteSet(Clerks) /\ Clerks # {} /\ maxContributors \in Nat /\ MaxVersion \in Nat
  /\ Phones \union Users \subseteq Nat \ {0} /\ Amounts \subseteq Nat
  /\ \A a \in Asks : DOMAIN a \subseteq Asked /\ ("isPublic" \in DOMAIN a => a.isPublic \in BOOLEAN)
  /\ \A s \in Starts :
       /\ s.books \in BooksWith(RowNames) /\ KeysHold(s.books)
       /\ Cardinality(Persons(s.books)) <= maxContributors
       /\ \A p, q \in Persons(s.books) :
            (p # q /\ s.books.people[p].phone = s.books.people[q].phone) => s.books.people[p].phone = 0
       /\ s.calls = [op \in DOMAIN s.calls |-> s.calls[op]]
       /\ \A op \in DOMAIN s.calls : s.calls[op] \in Nat

VARIABLES
  clerk,    \* the call each clerk is in
  shared,   \* history: phones somebody confirmed to be shared
  crossed,  \* history: phones written although their holders had changed
            \* since they were looked up, and accounts lost the same way
  linked,   \* history: accounts that were linked to a contributor
  edits     \* history: the edits of budget lines that were accepted

officeVars == <<clerk, shared, crossed, linked, edits>>
allVars == <<books, pageVars, left, officeVars>>

NoCall == [pc |-> "idle"]

OfficeInit ==
  /\ PageInit
  /\ \E s \in Starts : books = s.books /\ left = s.calls
  /\ clerk = [c \in Clerks |-> NoCall]
  /\ shared = {} /\ crossed = {} /\ linked = {} /\ edits = <<>>

-----------------------------------------------------------------------------
at(c, pc) == clerk[c].pc = pc
goes(c, call) == clerk' = [clerk EXCEPT ![c] = call]
ends(c) == goes(c, NoCall)

\* The gate and the count of a call.
begins(op, action) == take(op) /\ \E role \in Standing : can(role, action)

\* A transaction on the books commits; a page being built sees it from here on.
commits(after) ==
  /\ books' = after
  /\ view' = [view EXCEPT !.disturbed = @ \/ view.pc # "idle"]
  /\ UNCHANGED <<settings, wish, reverted, announcements, instructions>>

-----------------------------------------------------------------------------
(* People.                                                                 *)

\* Variant: the newcomer is not counted.
mayAddOneMore == Cardinality(Persons(books)) <= maxContributors

\* check('add_contributor'): counted in a transaction of its own.
mayAddContributor == Cardinality(Persons(books)) + 1 <= maxContributors

Holders(phone, except) == {q \in Persons(books) \ {except} : books.people[q].phone = phone}

\* createPerson: the entitlement, ...
checkContributors(c) ==
  \E phone \in Phones \union {0}, confirmed \in BOOLEAN :
    /\ at(c, "idle") /\ begins("createPerson", "person:write") /\ mayAddContributor
    /\ goes(c, [pc |-> "phone", phone |-> phone, confirmed |-> confirmed])
    /\ UNCHANGED <<books, pageVars, shared, crossed, linked, edits>>

\* ... the phone, ...
checkPhone(c) ==
  LET call == clerk[c] IN
  /\ at(c, "phone")
  /\ IF call.confirmed \/ PhoneIsFree(books, call.phone, 0)
     THEN goes(c, [pc |-> "insert", phone |-> call.phone, confirmed |-> call.confirmed,
                   holders |-> Holders(call.phone, 0)])
     ELSE ends(c)
  /\ UNCHANGED <<books, pageVars, left, shared, crossed, linked, edits>>

\* What the history keeps of a phone being written.
attaches(call, person) ==
  /\ shared' = IF call.confirmed THEN shared \union {call.phone} ELSE shared
  /\ crossed' = IF Holders(call.phone, person) # call.holders
                THEN crossed \union {call.phone} ELSE crossed

\* ... the row.
insertPerson(c) ==
  /\ at(c, "insert")
  /\ commits(createPerson(books, "someone", clerk[c].phone))
  /\ attaches(clerk[c], 0) /\ ends(c)
  /\ UNCHANGED <<left, linked, edits>>

\* Variant: a number somebody else has is accepted unasked.
readContactUnchecked(c) ==
  \E p \in Persons(books), phone \in Phones, confirmed \in BOOLEAN :
    /\ at(c, "idle") /\ begins("updateContact", "person:write")
    /\ goes(c, [pc |-> "contact", person |-> p, phone |-> phone, confirmed |-> confirmed,
                holders |-> Holders(phone, p)])
    /\ UNCHANGED <<books, pageVars, shared, crossed, linked, edits>>

\* updateContact: a number that is not the person's own already is looked up
\* among the others, unless the caller confirmed it is shared.
readContact(c) ==
  \E p \in Persons(books), phone \in Phones, confirmed \in BOOLEAN :
    /\ at(c, "idle") /\ begins("updateContact", "person:write")
    /\ \/ confirmed \/ phone = books.people[p].phone
       \/ PhoneIsFree(books, phone, p)
    /\ goes(c, [pc |-> "contact", person |-> p, phone |-> phone, confirmed |-> confirmed,
                holders |-> Holders(phone, p)])
    /\ UNCHANGED <<books, pageVars, shared, crossed, linked, edits>>

writeContact(c) ==
  LET p == clerk[c].person IN
  /\ at(c, "contact") /\ ends(c)
  /\ IF Person(books, p)
     THEN commits(updateContact(books, p, clerk[c].phone)) /\ attaches(clerk[c], p)
     ELSE UNCHANGED <<books, pageVars, shared, crossed>>
  /\ UNCHANGED <<left, linked, edits>>

\* mergePeople reads both accounts ...
readMerge(c) ==
  \E source, target \in Persons(books) :
    /\ at(c, "idle") /\ begins("mergePeople", "person:merge")
    /\ MergeAllowed(books, source, target)
    /\ goes(c, [pc |-> "merge", source |-> source, target |-> target,
                mine |-> books.people[source].user, its |-> books.people[target].user])
    /\ UNCHANGED <<books, pageVars, shared, crossed, linked, edits>>

\* ... and moves the pledges, hands the account it read down and deletes the
\* row.  A source that is gone fails the transaction, and so does a target
\* that is gone, if there is anything to move to it.
writeMerge(c) ==
  LET m == clerk[c]
      heir == IF m.its = 0 /\ m.mine # 0 THEN m.mine ELSE books.people[m.target].user
      lost == {books.people[m.source].user, books.people[m.target].user} \ {0, heir}
  IN
  /\ at(c, "merge") /\ ends(c)
  /\ IF /\ Person(books, m.source)
        /\ \/ Person(books, m.target)
           \/ PledgesOf(books, m.source) = {} /\ heir = books.people[m.target].user
     THEN /\ commits([mergePeople(books, m.source, m.target) EXCEPT !.people[m.target].user = heir])
          /\ crossed' = IF <<m.mine, m.its>> # <<books.people[m.source].user, books.people[m.target].user>>
                        THEN crossed \union lost ELSE crossed
     ELSE UNCHANGED <<books, pageVars, crossed>>
  /\ UNCHANGED <<left, shared, linked, edits>>

-----------------------------------------------------------------------------
(* The budget, and the page's settings.                                    *)

\* updateItem reads the line, with the target it will write back if none is
\* asked for, and compares the version the caller had loaded (0 when it named
\* none), ...
readItem(c) ==
  \E i \in Budget(books), public \in BOOLEAN, expected \in 0..MaxVersion :
    \E target \in Amounts \union {books.items[i].target} :
      /\ at(c, "idle") /\ begins("updateItem", "budget:write")
      /\ expected \in {0, books.items[i].version}
      /\ goes(c, [pc |-> "item", item |-> i, expected |-> expected, public |-> public,
                  version |-> books.items[i].version, target |-> target])
    /\ UNCHANGED <<books, pageVars, shared, crossed, linked, edits>>

\* ... and writes whatever the line has become.
writeItem(c) ==
  LET e == clerk[c] IN
  /\ at(c, "item") /\ ends(c)
  /\ IF Item(books, e.item)
     THEN /\ commits(updateItem(books, e.item, e.target, e.public))
          /\ edits' = Append(edits, [item |-> e.item, expected |-> e.expected,
                                     overlapped |-> e.version # books.items[e.item].version])
     ELSE UNCHANGED <<books, pageVars, edits>>
  /\ UNCHANGED <<left, shared, crossed, linked>>

\* updateSettings reads the columns ...
readSettings(c) ==
  \E asked \in Asks :
    /\ at(c, "idle") /\ begins("updateSettings", "public:configure")
    /\ goes(c, [pc |-> "settings", asked |-> asked, before |-> settings])
    /\ UNCHANGED <<books, pageVars, shared, crossed, linked, edits>>

\* ... and writes all of them, those not asked for as it read them.
writeSettings(c) ==
  LET s == clerk[c]
      untouched == DOMAIN settings \ (DOMAIN s.asked \union {"token", "revision"})
  IN
  /\ at(c, "settings") /\ ends(c)
  /\ settings' = updateSettings(s.before, s.asked)
  /\ wish' = [f \in DOMAIN wish |-> IF f \in DOMAIN s.asked THEN s.asked[f] ELSE wish[f]]
  /\ reverted' = (reverted \ DOMAIN s.asked)
                 \union {f \in untouched : s.before[f] # settings[f]}
  /\ UNCHANGED <<books, announcements, instructions, view, left, shared, crossed, linked, edits>>

-----------------------------------------------------------------------------
(* The calls that are one step.                                            *)

applies(op, action, after) ==
  begins(op, action) /\ commits(after) /\ UNCHANGED officeVars

linkAccount ==
  \E p \in Persons(books), user \in Users :
    /\ LinkAllowed(books, p, user)
    /\ begins("linkPersonToUser", "person:write") /\ commits(linkPersonToUser(books, p, user))
    /\ linked' = linked \union {user}
    /\ UNCHANGED <<clerk, shared, crossed, edits>>

PledgeCall ==
  \/ \E p \in Persons(books), v \in Amounts :
       applies("createPledge", "pledge:write", createPledge(books, p, v))
  \/ \E l \in DOMAIN books.pledges :
       applies("cancelPledge", "pledge:cancel", cancelPledge(books, l))
  \/ \E l \in DOMAIN books.pledges, v \in Amounts :
       applies("correctCommittedValue", "fulfillment:correct", correctCommittedValue(books, l, v))

PaymentCall ==
  \/ \E l \in DOMAIN books.pledges, v \in Amounts :
       /\ PaymentAllowed(books, l, v)
       /\ applies("recordFulfillment", "fulfillment:write", recordFulfillment(books, l, v))
  \/ \E p \in Persons(books), v, w \in Amounts :
       /\ w <= v
       /\ applies("recordPledgeWithPayment", "fulfillment:write", recordPledgeWithPayment(books, p, v, w))
  \/ \E f \in DOMAIN books.payments, v \in Amounts :
       /\ CorrectionAllowed(books, f, v)
       /\ applies("correctValue", "fulfillment:correct", correctValue(books, f, v))

BudgetCall ==
  \/ \E v \in Amounts : applies("addItem", "budget:write", addItem(books, "line", v))
  \/ \E i \in Budget(books) :
       RemovalAllowed(books, i) /\ applies("removeItem", "budget:write", removeItem(books, i))
  \/ \E f \in DOMAIN books.payments, i \in Budget(books), v \in Amounts :
       /\ AllocationAllowed(books, f, i)
       /\ applies("allocate", "budget:write", allocate(books, f, i, v))

GroupCall ==
  \/ applies("createGroup", "group:write", createGroup(books))
  \/ \E p \in Persons(books), g \in DOMAIN books.groups :
       /\ AssignmentAllowed(books, p, g)
       /\ applies("assignPerson", "group:write", assignPerson(books, p, g))

PageCall ==
  \E role \in Standing :
    (rotateAccessToken(role) \/ announce(role) \/ instruct(role)) /\ UNCHANGED officeVars

ClerkStep(c) ==
  \/ checkContributors(c) \/ checkPhone(c) \/ insertPerson(c)
  \/ readContact(c) \/ writeContact(c) \/ readMerge(c) \/ writeMerge(c)
  \/ readItem(c) \/ writeItem(c) \/ readSettings(c) \/ writeSettings(c)

OfficeNext ==
  \/ \E c \in Clerks : ClerkStep(c)
  \/ linkAccount \/ PledgeCall \/ PaymentCall \/ BudgetCall \/ GroupCall \/ PageCall
  \/ Visit /\ UNCHANGED officeVars

OfficeSpec == OfficeInit /\ [][OfficeNext]_allVars

-----------------------------------------------------------------------------
(* Properties.                                                             *)

\* What is on the page is what the organizers last asked for: revoked stays
\* revoked, hidden stays hidden and a rotated token shuts the old one out,
\* whoever else configures, announces or rotates.  The exception is a column
\* that an overlapping update wrote back as it had read it, until somebody
\* asks for that column again.  A request goes by the settings of the moment
\* it came in.
PageIsAsAsked ==
  /\ \A f \in DOMAIN wish \ ({"revision"} \union reverted) : settings[f] = wish[f]
  /\ view.pc # "idle" =>
       \A f \in DOMAIN wish \ ({"revision"} \union view.reverted) : view.settings[f] = view.wish[f]

Sum(f) == MapThenSumSet(LAMBDA d : f[d], DOMAIN f)

\* No figure of the event contradicts another one.  Everyone's commitments
\* and payments add up to the totals, but for what was paid on pledges that
\* were cancelled later; every list of contributors puts the same people in
\* the same of three classes, and whoever committed something in one of them;
\* the report's list of all is short of nobody who committed or paid, and has
\* more names than the others exactly by those who paid on pledges corrected
\* to nothing; earmarks add up by line and by funder; the parts of a period add
\* up to it, and the pages of a list to the list.
FiguresAgree ==
  LET rows == rollup(books)
      total == getEventReport(books, Target)
      onCancelled == {f \in DOMAIN books.payments : ~LivePledge(books, books.payments[f].pledge)}
      classes == {"unpaid", "partial", "complete"}
      everyone == listContributors(books, "all")
      reported == queryContributors(books, "all", Persons(books))
  IN
  /\ Sum([p \in DOMAIN rows |-> rows[p].committed]) = total.committed
  /\ Sum([p \in DOMAIN rows |-> rows[p].received]) + Paid(books, onCancelled) = total.received
  /\ \A s \in Statuses \ {"all"} :
       queryContributors(books, s, Persons(books)) = listContributors(books, s)
  /\ reported = everyone \union {p \in DOMAIN rows : rows[p].committed = 0 /\ rows[p].received > 0}
  /\ UNION {listContributors(books, s) : s \in classes} = everyone
  /\ \A s, t \in classes : s # t => listContributors(books, s) \intersect listContributors(books, t) = {}
  /\ total.owing = listContributors(books, "outstanding") /\ total.contributors = everyone
  /\ \A p \in everyone :
       /\ findContributor(books, p).pledgeStatus = contributorStatus(rows[p].committed, rows[p].received)
       /\ p \in listContributors(books, "complete") <=> findContributor(books, p).outstanding = 0
       /\ findContributor(books, p).outstanding
            <= Sum([l \in LivePledgesOf(books, p) |-> getPledgeOutstanding(books, l)])
  /\ \A f \in DOMAIN books.payments :
       collectedInPeriod(books, 1, f) + collectedInPeriod(books, f, Len(books.payments) + 1)
         = total.received
  /\ generateReport(books, "CONTRIBUTORS", "all", Persons(books)).amount + Paid(books, onCancelled)
       = generateReport(books, "PAYMENTS", "all", {}).amount
  /\ Sum([i \in Budget(books) |-> Covered(books, i)]) = total.budgetAllocated
  /\ \A i \in Budget(books) : Earmarked(books, fundersForItem(books, i)) = Covered(books, i)
  /\ total.biggestGap = {} <=> \A i \in Budget(books) : budgetBreakdown(books)[i].remaining = 0
  /\ \A g \in DOMAIN books.groups :
       groupContributions(books, g).received =
         generateReport(books, "CONTRIBUTORS", "all", books.groups[g]).amount
  /\ \A size \in 1..2 :
       LET order == [n \in 1..Cardinality(reported) |-> n] IN
       order = Lists!FlattenSeq([n \in 1..totalPages(Len(order), size) |-> page(order, n, size)])

\* A page whose reads no other transaction came between adds up as well.
PageAgrees ==
  (view.pc = "shown" /\ ~view.disturbed) =>
    /\ view.pledged = Sum([p \in DOMAIN view.people |-> view.people[p].committed])
    /\ \A p \in DOMAIN view.breakdown : view.breakdown[p] = view.people[p]
    /\ view.settings.contributors = "NAMES_AND_AMOUNTS" =>
         Paid(books, view.activity) = Sum([p \in DOMAIN view.people |-> view.people[p].received])
    /\ view.received = getEventTotals(books).fulfilled
    /\ Page(view).percent \in {-1, getFundingSummary(books, Target)}

\* Merges, corrections, cancellations and removals leave an event whose
\* figures agree, wherever they are computed.
BooksAddUp == FiguresAgree /\ PageAgrees

\* What is looked up before a write still holds after it, but for calls that
\* overlapped: a full event admits no more than the calls already let in; two
\* people have one phone only if somebody said it is shared; a linked account
\* stays linked, through merges too; and of two people who loaded a budget
\* line at the same version only one edits it.
ChecksHoldUnlessCrossed ==
  /\ Cardinality(Persons(books)) + Cardinality({c \in Clerks : clerk[c].pc \in {"phone", "insert"}})
       <= maxContributors + Cardinality(Clerks) - 1
  /\ \A p, q \in Persons(books) :
       (p # q /\ books.people[p].phone = books.people[q].phone) =>
         books.people[p].phone \in {0} \union shared \union crossed
  /\ \A u \in linked \ crossed : \E p \in Persons(books) : books.people[p].user = u
  /\ \A j, k \in DOMAIN edits :
       (j < k /\ edits[j].item = edits[k].item /\ edits[j].expected = edits[k].expected)
         => edits[j].expected = 0 \/ edits[k].overlapped

=============================================================================
