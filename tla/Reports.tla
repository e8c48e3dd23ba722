------------------------------ MODULE Reports -------------------------------
(***************************************************************************)
(* Every place that computes figures from an event's books: the ledger     *)
(* queries, the report engine, the assistant's queries and the group       *)
(* roll-up.  Each has its own SQL; each is defined here from its own.      *)
(* Money is in minor units, 0 stands for "no target".                      *)
(***************************************************************************)
EXTENDS EventBooks, Integers

outstanding(committed, received) == IF committed > received THEN committed - received ELSE 0

\* percentCovered, in tenths of a percent; -1 is null.
percentCovered(received, target) ==
  IF target <= 0 THEN -1 ELSE (2000 * received + target) \div (2 * target)

Committed(b, ls) == MapThenSumSet(LAMBDA l : b.pledges[l].committed, ls)
Live(b) == {l \in DOMAIN b.pledges : LivePledge(b, l)}
Budget(b) == {i \in DOMAIN b.items : Item(b, i)}
Targets(b, is) == MapThenSumSet(LAMBDA i : b.items[i].target, is)
Covered(b, i) == Earmarked(b, EarmarksOf(b, i))

-----------------------------------------------------------------------------
(* LedgerQueryService.                                                     *)

\* The per-person sub-selects: payments joined to their live pledges.
rollup(b) ==
  [p \in Persons(b) |->
     [committed |-> Committed(b, LivePledgesOf(b, p)),
      received  |-> Paid(b, {f \in DOMAIN b.payments :
                       /\ b.pledges[b.payments[f].pledge].person = p
                       /\ LivePledge(b, b.payments[f].pledge)})]]

\* getPledgeOutstanding
getPledgeOutstanding(b, l) == outstanding(b.pledges[l].committed, Paid(b, PaymentsOn(b, l)))

\* getEventTotals: cancelled pledges are not committed, their payments are
\* received all the same.
getEventTotals(b) ==
  [committed |-> Committed(b, Live(b)), fulfilled |-> Paid(b, DOMAIN b.payments),
   outstanding |-> outstanding(Committed(b, Live(b)), Paid(b, DOMAIN b.payments)),
   count |-> Cardinality(Live(b))]

\* getEventReport
Gap(b, i) == b.items[i].target - Covered(b, i)
biggestGap(b) ==
  {i \in Budget(b) : Gap(b, i) > 0 /\ \A j \in Budget(b) : Gap(b, i) >= Gap(b, j)}
getEventReport(b, target) ==
  LET rows == rollup(b)
      total == getEventTotals(b)
  IN [percentCovered |-> percentCovered(total.fulfilled, target),
      committed |-> total.committed, received |-> total.fulfilled,
      outstanding |-> total.outstanding,
      contributors |-> {p \in DOMAIN rows : rows[p].committed > 0},
      owing |-> {p \in DOMAIN rows : outstanding(rows[p].committed, rows[p].received) > 0},
      budgetTotal |-> Targets(b, Budget(b)),
      budgetAllocated |-> Earmarked(b, DOMAIN b.allocations),
      biggestGap |-> biggestGap(b)]

\* fundersForItem: earmarks joined to payment, pledge and person.
fundersForItem(b, i) ==
  {a \in EarmarksOf(b, i) : Person(b, b.pledges[b.payments[b.allocations[a].payment].pledge].person)}

\* getFundingSummary: all a viewer may know.
getFundingSummary(b, target) == percentCovered(Paid(b, DOMAIN b.payments), target)

-----------------------------------------------------------------------------
(* ReportService.                                                          *)

Statuses == {"all", "unpaid", "partial", "complete", "outstanding"}

\* queryContributors: pledge by pledge, over everybody or one group's members.
queryContributors(b, status, among) ==
  LET owed(p) == Committed(b, LivePledgesOf(b, p))
      got(p) == MapThenSumSet(LAMBDA l : Paid(b, PaymentsOn(b, l)), LivePledgesOf(b, p))
  IN {p \in Persons(b) \intersect among :
        CASE status = "unpaid"      -> owed(p) > 0 /\ got(p) = 0
          [] status = "partial"     -> got(p) > 0 /\ got(p) < owed(p)
          [] status = "complete"    -> owed(p) > 0 /\ got(p) >= owed(p)
          [] status = "outstanding" -> outstanding(owed(p), got(p)) > 0
          [] OTHER                  -> owed(p) > 0 \/ got(p) > 0}

\* generateReport: the rows and the amount of a report of each type.
generateReport(b, type, status, among) ==
  CASE type = "BUDGET" ->
         [records |-> Cardinality(Budget(b)), amount |-> Targets(b, Budget(b))]
    [] type = "PAYMENTS" ->
         [records |-> Len(b.payments), amount |-> Paid(b, DOMAIN b.payments)]
    [] OTHER ->
         LET rows == queryContributors(b, status, among) IN
         [records |-> Cardinality(rows),
          amount  |-> MapThenSumSet(LAMBDA p : rollup(b)[p].received, rows)]

\* getPaginatedContributors: how many pages, and which rows of an order a page
\* holds.
totalPages(records, size) == IF records = 0 THEN 1 ELSE (records + size - 1) \div size
page(rows, n, size) ==
  SubSeq(rows, (n - 1) * size + 1, IF n * size < Len(rows) THEN n * size ELSE Len(rows))

-----------------------------------------------------------------------------
(* AiQueryService and GroupService.                                        *)

\* findContributor
findContributor(b, p) ==
  LET row == rollup(b)[p] IN
  [committed |-> row.committed, received |-> row.received,
   outstanding |-> outstanding(row.committed, row.received),
   pledgeStatus |-> IF row.committed = 0 THEN "NO_PLEDGE"
                    ELSE IF row.received >= row.committed THEN "FULLY_PAID"
                    ELSE IF row.received > 0 THEN "PARTIALLY_PAID" ELSE "PLEDGED"]

\* listContributors: like the report, but "all" is everybody who pledged.
listContributors(b, status) ==
  {p \in Persons(b) :
     LET row == rollup(b)[p] IN
     CASE status = "unpaid"      -> row.committed > 0 /\ row.received = 0
       [] status = "partial"     -> row.received > 0 /\ row.received < row.committed
       [] status = "complete"    -> row.committed > 0 /\ row.received >= row.committed
       [] status = "outstanding" -> outstanding(row.committed, row.received) > 0
       [] OTHER                  -> row.committed > 0}

\* collectedInPeriod: payments are numbered in the order they occurred.
collectedInPeriod(b, from, to) == Paid(b, {f \in DOMAIN b.payments : from <= f /\ f < to})

\* budgetBreakdown
FundingStatus(target, covered) ==
  IF covered >= target /\ target > 0 THEN "FUNDED"
  ELSE IF covered > 0 THEN "PARTIALLY_FUNDED" ELSE "UNFUNDED"
budgetBreakdown(b) ==
  [i \in Budget(b) |->
     [target |-> b.items[i].target, covered |-> Covered(b, i),
      remaining |-> outstanding(b.items[i].target, Covered(b, i)),
      status |-> FundingStatus(b.items[i].target, Covered(b, i))]]

\* groupContributions
groupContributions(b, g) ==
  LET pledges == {l \in Live(b) : b.pledges[l].person \in b.groups[g]} IN
  [members |-> Cardinality(b.groups[g]), committed |-> Committed(b, pledges),
   received |-> Paid(b, {f \in DOMAIN b.payments : b.payments[f].pledge \in pledges})]

=============================================================================
