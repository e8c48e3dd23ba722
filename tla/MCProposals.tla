---------------------------- MODULE MCProposals -----------------------------
EXTENDS Documents, TLC

CONSTANTS john, johnDoe, c1, c2, w1, w2

\* "john" occurs in "john doe".
MCWithin == {<<john, john>>, <<johnDoe, johnDoe>>, <<john, johnDoe>>}

\* Books with john's half-paid pledge, somebody without one, and a budget line.
Filled ==
  addItem(recordPledgeWithPayment(createPerson(createPerson(EmptyBooks, john, 0), johnDoe, 0), 1, 2, 1),
          john, 2)

start(b, c) == [books |-> b, calls |-> c]

\* Proposals for a newcomer resolved in any order; a proposal edited,
\* confirmed and rejected by two people; every other tool over filled books;
\* proposals made stale by others; documents delivered again.
MCStarts ==
  {start(EmptyBooks, c) : c \in
     {[record_pledge |-> 1, record_payment |-> 1, confirm |-> 2],
      [record_pledge |-> 1, update |-> 1, confirm |-> 1, reject |-> 1],
      [add_person |-> 1, record_pledge |-> 1, confirm |-> 1, fault |-> 1],
      [upload |-> 1, submit |-> 1, deliver |-> 2, fault |-> 1]}}
  \union
  {start(Filled, tool :> 1 @@ "confirm" :> 1 @@ "fault" :> 1) : tool \in DOMAIN writeAction}
  \union
  {start(Filled, c) : c \in
     {[merge_people |-> 1, record_payment |-> 1, confirm |-> 2],
      [allocate_to_budget |-> 1, remove_budget_item |-> 1, confirm |-> 2],
      [upload |-> 1, submit |-> 1, deliver |-> 1, confirm |-> 1]}}

Symmetry == Permutations({c1, c2}) \union Permutations({w1, w2})

=============================================================================
