--------------------------- MODULE MCEventOffice ----------------------------
EXTENDS EventOffice, TLC

CONSTANTS c1, c2

Two == createPerson(createPerson(EmptyBooks, "someone", 1), "someone", 0)

\* Somebody's half-paid pledge, earmarked for a budget line, and a group.
Filled ==
  assignPerson(createGroup(allocate(addItem(recordPledgeWithPayment(Two, 1, 2, 1), "line", 2), 1, 1, 1)),
               1, 1)

start(b, c) == [books |-> b, calls |-> c]

MCAsks ==
  {[isPublic |-> FALSE], [contributors |-> "NAMES_ONLY"],
   [isPublic |-> TRUE, contributors |-> "HIDDEN"],
   [budget |-> "PARTIALLY_PUBLIC", showTarget |-> FALSE, showOutstanding |-> FALSE]}

\* The cap, the phones and the accounts; the budget lines; the settings and a
\* visitor; and the books, changed in every way while a visitor looks.
MCStarts ==
  {start(Two, c) : c \in
     {[createPerson |-> 2, updateContact |-> 1], [createPerson |-> 3],
      [updateContact |-> 3, mergePeople |-> 1],
      [linkPersonToUser |-> 2, mergePeople |-> 2, createPerson |-> 1],
      [createGroup |-> 1, assignPerson |-> 2, createPledge |-> 1, mergePeople |-> 1]}}
  \union
  {start(Filled, c) : c \in
     {[addItem |-> 1, updateItem |-> 2, removeItem |-> 1],
      [updateSettings |-> 3, token |-> 1], [updateSettings |-> 2, visit |-> 1],
      [updateSettings |-> 1, token |-> 1, announce |-> 2, visit |-> 2],
      [instruct |-> 2, updateItem |-> 1, visit |-> 1],
      [createPledge |-> 1, cancelPledge |-> 1, recordFulfillment |-> 1, visit |-> 1],
      [recordPledgeWithPayment |-> 1, correctValue |-> 1, correctCommittedValue |-> 1, visit |-> 1],
      [recordPledgeWithPayment |-> 1, cancelPledge |-> 1, mergePeople |-> 1, visit |-> 1],
      [recordFulfillment |-> 1, allocate |-> 2, addItem |-> 1, correctValue |-> 1],
      [createPledge |-> 1, recordFulfillment |-> 1, correctCommittedValue |-> 1, cancelPledge |-> 1,
       mergePeople |-> 1]}}

Symmetry == Permutations(Clerks)

=============================================================================
