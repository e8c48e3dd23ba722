# Akabbo: a TLA+ verification project

Akabbo keeps the money of community events (weddings, funerals, fundraisers):
who pledged what, who paid what, what it is meant for, and who has been told.
It is a NestJS monorepo over Postgres (Prisma): an API process, a worker
process, and domain libraries under `src/libs/`. This directory holds TLA+
modules translated from that code, TLC configurations for small instances, and
TLAPS proofs for all instances. `PROJECT.json` maps every definition to the
lines it models.

## 1. Inventory

Every transaction in the code runs at Postgres' default level, READ COMMITTED.
Services read rows without locking them, decide, and write; the only arbiters
between concurrent calls are unique indexes, the row locks of `UPDATE`, and one
`FOR UPDATE SKIP LOCKED`. That is where the hard behaviours come from.

| Component | State it keeps | Operations | What makes it correct | Module |
|---|---|---|---|---|
| Pledge and fulfillment ledger (`libs/ledger`: pledge, fulfillment services) | pledge, fulfillment | createPledge, recordFulfillment, recordDirectContribution, recordPledgeWithPayment, correctValue, correctCommittedValue, cancelPledge | a key books money once; every amount is audited; status follows the amounts; no payment past the commitment; a cancelled pledge takes none | `PledgeLedger` |
| Event lifecycle and status gate (`event.service`, `event-status`) | event.status | setStatus, createEvent, updateEvent | a closed event does not change; the active-event cap | `PledgeLedger` (gate), `Team`; updateEvent not modelled |
| Audit writer, tenant transaction | audit_event | write, runInEvent | a change and its provenance commit together | `PledgeLedger` |
| Outbox and drain worker | outbox rows, worker batches | enqueue, drainOnce, scheduler tick | no row in two hands; success is not repeated; every row gets its turn | `OutboxDrain` |
| SMS campaigns (`libs/comms`) | sms_campaign, sms_message | dispatch, processCampaign | statuses agree; settled messages are not resent; campaigns settle | `SmsCampaign`, `SmsDelivery` |
| SMS credit ledger (`libs/billing`, `entitlement.service`) | sms_credit_ledger | grant, reserve, commit, refund, balance | a failed SMS costs nothing; retries create no credit; spending stops at zero | `SmsCampaign`, `Billing` |
| Plans, invoices, webhooks, grants (`libs/billing`, payment provider) | billing_account, invoice, entitlement_grant, both credit ledgers | ensureBillingAccount, startAccountTrial, purchaseEventPack, subscribe, applyPaymentWebhook, reconcileInvoice | one grant per invoice, however often and in whatever order callbacks come; PAID is final; what was paid is what the gates see | `PlanCatalog`, `Billing` |
| Stuck-payment alerts (worker) | invoice.stuckAlertSentAt | find, mail, mark | a bounded number of mails per invoice | `Billing` |
| Identity (OTP) | auth_otp_challenge, user | startOtp, verifyOtp by phone and e-mail, refreshToken | a code is used once; attempts are bounded; one trial per user | `SignIn`; refreshToken not modelled |
| Membership, invitations, permissions, caps | event, event_member, invitation | createEvent, setStatus, addMember, createInvitation, acceptInvitation, revokeInvitation | a token admits maxUses people; revoked means revoked; seats and events within the plan | `Team`, `Permissions`, `Onboarding` |
| People, groups | person, person_group | createPerson, updateContact, linkPersonToUser, mergePeople, createGroup, assignPerson | one phone per person unless shared; a merge loses no money and no account | `EventBooks`, `EventOffice` |
| Budget, allocations | budget_item, allocation | addItem, updateItem, removeItem, allocate | no lost edit; earmarks add up | `EventBooks`, `EventOffice` |
| Queries and reports | none | totals, outstanding, rollups, contributor lists, funders, periods, pages | every figure agrees with every other | `Reports` |
| Public view, announcements, settings | public settings, event_announcement, payment_instruction | updateSettings, tokens, announce, instruct, getPublicEventView | shows what was asked, and figures that agree | `PublicPage`, `EventOffice` |
| Capture, entity resolution, AI confirmations, tool executor | pending_confirmation | capture, stage, update, confirm, reject, run | what takes effect was approved, once; newcomers are not forked | `Proposals` |
| Assistant turn, AI credits | conversation, ai_credit_ledger | converse, reserve, tool loop, commit or refund | a turn costs a credit exactly when it answers; it ends | `AgentTools`, `Assistant` |
| Documents, extraction | document, file, extraction | upload, submitForExtraction, process, fail | a document is read once; a budget is staged whole or not at all | `Documents` |
| Budget intelligence, self-learning, providers, config, logging | statistics, adapters | | | not modelled (below) |

How they interact: a domain service writes its rows, the audit row and an
outbox row in one transaction (`runInEvent`); the worker's drain claims outbox
rows and calls the handler of their topic (`sms.campaign` runs
`processCampaign`, `document.uploaded` runs extraction, other topics have no
handler). SMS and assistant calls use the credit ledger, which writes through a
connection of its own and so is not rolled back with its caller. The assistant
and the document extraction stage proposals that a person confirms, which then
call the domain services. Every mutation first passes permission, entitlement
and event-status gates on a context read before its transaction.

`PROJECT.json` lists the hazards line by line: check-then-act under READ
COMMITTED, stale context, effects outside the transaction, claims committed
before the work, redelivery, lost answers, limits at zero.

## 2. Plan

Done, in this order: `PledgeLedger` with its abstract specification
`BookingJournal` and proofs; `OutboxDrain` and proofs; `SmsCampaign` and its
composition with the drain, `SmsDelivery`; `PlanCatalog` and `Billing`;
`SignIn`, `Permissions`, `Team` and their composition `Onboarding`;
`AgentTools` and `Assistant`; `EventBooks` with what is built on it:
`Proposals` and `Documents` on the AI side, `Reports`, `PublicPage` and
`EventOffice` on the organizers' side.

Proofs, in this order: the ledger and the drain; SMS delivery on top of the
drain's theorems; billing; onboarding; the assistant; proposals and documents;
the sums of the ledger; the organizers' desks, the page and the figures
(section 5). Every safety invariant and every action property that a run checks
is also the statement of a theorem.

Left:

1. `Documents` takes its redeliveries as an input; composing it with
   `OutboxDrain`, as `SmsDelivery` does for campaigns, would derive them.
2. `updateEvent`, `refreshToken` and the race of two first uses of the budget.

## 3. Modules

**`PledgeLedger`** is one event's ledger under concurrent API calls. A request
is one service call; its record `req[r]` holds the statement it is at (`pc`),
its inputs and what it has read. Each database statement is an action in the
order the service issues it: the replay lookup, the read of the payment, the
read of the pledge, the duplicate test, the bound check, the INSERT, the UPDATE
of a payment, the second read of the pledge, the aggregate, the UPDATE of the
pledge. Reads see committed rows; `Commit` applies everything the transaction
wrote, with its audit and outbox rows, in one step, which is what a transaction
does for every other reader; `Fail` is a rollback at any point. Locks are
`HoldsPledge`, `HoldsFulfillment`, `HoldsKey`: an `UPDATE` or a conflicting
`INSERT` waits while another open transaction holds the row or the key.
`setStatus` updates the event and `AuditStatus` writes its audit row later,
because the code does so in two transactions. `recent` stands for `created_at`
within the ten-minute duplicate window. Abstracted: persons exist, ids sent by
clients are known ones, permission and entitlement gates pass (the entitlement
check always allows these operations); of an audit row's values only the
amounts are kept; amounts are naturals, as the DTOs require.

**`BookingJournal`** is what the ledger promises: an append-only journal in
which a payment is booked once, atomically with its trail entry and its notice,
a key marks one payment for ever, and an amount changes only with a trail
entry. `PledgeLedger` implements it under the mapping in `Journal` (checked and
proved).

**`OutboxDrain`** has outbox rows named by the rank of `created_at`, and
workers. `Select`/`Claim` are the two statements of the claiming transaction,
`StartHandler`, `HandlerReturns`, `HandlerThrows`, `Reopen`, `SkipTopic`,
`EndTick` the loop after it. `Fault` is a crash and restart, a failed claim, or
a failed re-opening: in each, the tick ends and what it held is gone. A
worker's `pc` other than "idle" is the scheduler's flag `running`.

**`SmsCampaign`** has `dispatch` on the API side (recipients, then per
recipient the balance test, the RESERVE row, the message; then commit or
rollback), `processCampaign` on the worker side (read QUEUED, `sendBulk`,
settle one by one, commit) and the credit ledger as the number of rows per
movement and message, so that a missing unique key would show. Ledger rows take
effect at once and survive the caller's rollback. A balance is what
`EntitlementService.smsBalance` sums: all movements whose event is the event or
whose account is its owner's.

**`SmsDelivery`** composes the two: `CommitDispatch` commits the campaign with
its outbox row, `OutboxDrain`'s handler is `processCampaign`, a thrown job is
re-opened, a dead worker drops its job. A job may also throw although its
transaction has committed (the answer to the commit is lost).

**`PlanCatalog`** is the price list with the numbers the code has, the choice
of the active grant (the dearest of the event's and the owner's account) and
the comparison with a limit. **`Billing`** is one organizer's money: the
sign-up that starts the trial and the purchases are processes, and so are the
deliveries of callbacks (or an administrator's reconciliation) and the workers
of the stuck-payment alert. The gateway is external: it collects or not. A
callback for an invoice that exists may carry any status, at any time and any
number of times: a signature that is wrong or missing does not stop it, and
nothing compares it with the collection (`Callbacks`). What `applyPaymentWebhook`
keeps under such callbacks is what the run and the proofs say; that a grant means
collected money is not among it (section 7). An
administrator reconciles only what the gateway has collected. A credit row
is identified by its key, and `RefusedByKey` is the unique index that aborts
the whole transaction of a second grant. `granted` counts the grants of an
invoice and `contended` notes that two deliveries of it overlapped.

**`SignIn`** has challenges with an age (fresh, past the cooldown, expired),
users and tokens, and calls that take one step per statement: insert after the
cooldown test, count a miss, consume, find or create the user, verify, issue
the session with the trial of a new user. **`Team`** has events, members and
invitations; a call resolves status and role first and keeps them. The seat
gate counts members and pending invitations in two steps before the insert, an
acceptance holds the row of the token it read, a creation holds its count.
`excuses` collects what the caps and invitations cannot be blamed for: calls
that overlapped, a member added directly, an event reopened. **`Permissions`**
is the matrix of roles and actions. **`Onboarding`** composes them: who holds
a token may act on events. **`Workload`** bounds an instance: a workload gives
the number of calls per operation, and `take` counts one down; the code has no
such bound.

**`AgentTools`** classifies the tools the model is offered by what they do
(answer, report, stage, write, or act on the session's event).
**`Assistant`** is a turn: the credit's scope from the active event, the only
active event or the user's account, the balance test, the RESERVE row, up to
`MAX_STEPS` answers of the model with their tool calls, the commit and the
reply, or the refund. A turn of a conversation may create or switch the event
that the next turn starts from. Everything may fail, the answer to the commit
may be lost, and the process may die.

**`EventBooks`** is an event's tables as a value, and each service transaction
as an operator from books to books with the conditions under which it is
allowed. It is the coarse counterpart of `PledgeLedger`: there the statements
of the money transactions interleave, here their effect is one step and the
rest of the event (people, merging, groups, budget, earmarks) takes part.
**`Proposals`** resolves names against the books (`Within` says which name
occurs in which), stages an action with the ids it found, and lets callers
edit, confirm and reject; a confirmation commits its status and then runs the
payload it read: look up the newcomer again, create the person, attach a direct
contribution to a pledge that has landed meanwhile, write.
Its history variables are `done` (the payloads that took effect, in order),
`contested` (proposals two calls resolved or edited at once) and `doubtful`:
the names two people had from the beginning, the names two executions looked up
at once, and the names that an edit of a proposal's name, old or new, could mean.
**`Documents`** adds files and the worker: a delivery marks the document
PROCESSING, extracts, and stages a budget in one transaction or a contribution
list entry by entry through the same capture path. **`Reports`** defines every
aggregate from its own query, on purpose without sharing: that they agree is
what is checked. **`PublicPage`** has the settings, the notices and a visitor's
request, which reads the settings and then, statement by statement, the
figures. **`EventOffice`** puts clerks in front of all this: calls that look
before they write take two or more steps, the others one; `crossed`, `reverted`
and `disturbed` note the overlaps that READ COMMITTED lets through.

The `MC*` modules give the constants; definitions marked "Variant" are changed
forms of a definition used to confirm that a property can fail.

## 4. Runs

| Run | Instance | Shows |
|---|---|---|
| `ledger` | 3 requests of any kind, a seed pledge of 2, amounts 1 and 2, one key | about 366,000 states. Always: `IdempotentBooking`, `EveryAmountIsAudited`, `NoCircularWait`, and `ImplementsJournal`. For a write that no other write of the pledge overlaps: the status is the derived one, a payment stays within the commitment, a cancelled pledge stays cancelled and takes no payment, a double payment is not booked silently. |
| `overpay` (violation) | 2 requests | Two overlapping payments pass the bound check and both commit. |
| `closed` (violation) | 2 requests | A call admitted before the event was closed commits after it. |
| `drain` | 2 workers, 4 rows (one always fails, one without handler), batch 2, one retry, one fault | about 105,000 states. `NoSharedRow`, `HandledRowIsDone`, `RedeliveryIsCounted`, and the liveness property `EveryRowIsHandled`. |
| `drain_crash` (violation) | the same | Rows claimed by a worker that dies are never handled. |
| `sms` | 2 campaigns of 2 events of one owner, 2 recipients, 2 credits (one of them bought for one event), 2 workers, one retry, one fault | about 119,000 states. `CreditsFollowDelivery`, `NoCreditOutOfRetries`, `CampaignMatchesItsMessages`, `OnlyUnsettledIsSent`, `SoloReservationStopsAtZero`, and the liveness property `EveryCampaignSettles`. |
| `sms_overdraft` (violation) | 2 campaigns of one event with one credit | Both spend the last credit. |
| `billing` | a sign-up, a subscription and an event pack of one user; 2 deliveries, 2 workers, one failed tick, one invoice old enough | about 2,270,000 states. Whatever callbacks say and in whatever order they, reconciliation and purchases come: `OneGrantPerPayment`, `UncontendedPaymentIsFinal`, `PaidIsWhatIsEnjoyed` (plan and balances are what the PAID invoices say, unless two accounts were created), `AlertsAreBounded`. |
| `onboarding` | 4 people (one by e-mail), 2 challenges of 2 attempts, 2 sign-in calls and 2 team calls at a time, 2 events, 3 invitations, 6 workloads | about 147,000 states. `CodesAreSpent`, `OneTrialPerUser`, `InvitationsKeepTheirWord`, `CapsHold`: exact when calls do not overlap, and by how much they are exceeded when they do. |
| `assistant` | 2 turns, 3 events of 2 owners, 2 steps, one tool call per step, two faults | about 289,000 states. `TurnsCostWhatTheyGive`, `ReservationsAreCovered`, and the liveness property `EveryTurnEnds`. |
| `proposals` | 2 callers, 2 drains, names "john" and "john doe", amounts 0, 1 and 2, two roles, documents of up to 2 entries, 19 starts | about 587,000 states. `ProposalsRunAsApproved`, `NewcomersAreNotForked`, `DocumentsAreReadOnce`. |
| `books` | 2 clerks and a visitor, 2 phones, 2 accounts, amounts 0, 1 and 2, a cap of 3 people, 15 starts | about 124,000 states. `PageIsAsAsked`, `BooksAddUp` (the aggregates of every query against each other), `ChecksHoldUnlessCrossed`. |

The violation runs state what a comment in the source says and show an
interleaving that refutes it; the "solo" properties of the passing runs state
what the same checks do guarantee. `solo` is a history flag: it is cleared when
another request commits a change of the pledge (reserves a credit) after this
one's first read.

Bounds. Three requests are what it takes for two calls to race on a payment
that a third has booked, and for two writes to overlap while a third commits
between them. Two amounts and a pledge of 2 reach unpaid, partly paid, paid and
overpaid. Two workers and a batch of half the backlog make them meet on the
same rows and leave rows for the next tick; one retry and one fault make every
recovery path happen. Two credits against four messages make both campaigns hit
zero. `MaxAttempts` and `MaxFaults` bound the counters; `outbox.attempts` is
never read by the code, so capping it changes no behaviour. Requests are
symmetric in the ledger runs (no liveness is checked there). The runs do not
check for deadlock in TLC's sense, since a system whose requests are answered
and whose queue is empty may stop; that transactions do not wait for each other
in a circle is `NoCircularWait`.

The newer runs start from a set of workloads, each a few calls that can get in
each other's way, instead of one instance with every call: within a workload
all interleavings are explored, and together they make every operation happen.
Two callers are what an overlap between a check and its write takes; a third
call in the workload follows the overlap and sees what it left. Two amounts, a
half-paid pledge and an earmarked line make the aggregates differ when they can;
the third amount is 0, which the DTOs and the assistant take as well: pledged,
paid, corrected to, earmarked, or the target of a line. One workload creates
three people in an event of two with a cap of three: two calls that overlap may
exceed the cap by one, and nothing by more.
Names that contain each other make resolution ambiguous. Where a property has an
exception ("unless two calls overlapped"), the exception is a history variable
set exactly when the overlap happens, and the overlap happens in the run: it is
the behaviour of the code that section 7 records.

Fairness. `Assistant` assumes weak fairness of a turn's own steps: every call
it awaits (the model, the database) returns or throws. The providers set no
timeout of their own (`gemini-llm.provider` retries a bounded number of times),
so this rests on the HTTP client and the database driver giving up on a dead
connection. A process that dies is a fault and ends the turn. `FairSpec` assumes weak fairness of each worker's steps:
`setInterval` keeps calling the tick, a tick that throws is logged and its flag
is reset in `finally`, a worker that dies is restarted, and awaited calls
settle. Nothing is assumed of producers, of API calls or of faults. The
handler of a healthy row fails at most `MaxAttempts` times; rows in `Poison`
fail always, and are fewer than a batch: with a full batch of such rows the
oldest-first order would starve the rest, because nothing ever gives up on a
row.

## 5. Proofs

All theorems are for arbitrary constants under the named assumptions of the
modules that declare them. These say: amounts are naturals and null is not a
value; the things that are counted or added up (rows, buyers, workers, people,
events, invitations, campaigns) are finite sets; plan codes and roles are those
of the code; what an instance starts from is a state the program can be in
(events within the ceiling, every pledge somebody's). `OfficeAssumption` spells
that out for books to start with: rows have their columns' types, the schema's
keys hold (`KeysHold`), the contributors are within the plan's cap and no number
is two people's; amounts may be 0, and a pledge may be paid beyond what it is
worth; and a settings update names only what its DTO lets through (`Asked`). TLC evaluates each
assumption in the run of its module. Every inductive invariant below was
model-checked on its run before it was proved.

`PledgeLedgerProofs`. None of the invariants is inductive alone: that the
unique index refuses a second key needs to know which open transaction holds
which key, and that a commit audits the right row needs to know that the rows a
request works on exist and that its `pc` fits its operation. `IInv` adds
exactly that: `Legal` for each request, `KeyInv` (a key occurs once among
committed and held rows), `ForeignKey`. From `Invariance` follow `TypeCorrect`,
`Idempotent`, `Audited`, and, step by step, `Refinement`. `DeadlockFree` needs
no induction: whoever waits, waits for a request further along
key/payment/pledge/commit, and a request at commit waits for nobody.
`CancelledStays` is an action property and rests on `SoloInv`: while a request
is alone on a pledge it knows whether the pledge is cancelled, and what it will
write respects that. The other three solo properties are about amounts, and a
sum over a table that other calls write to is not what a request once read.
`AmountsInv` says, for each place a request can be at, what it knows of the
pledge as long as it is alone there: the committed value it read is current and
its payment fits beside the others (`BoundLegal`), the status it carries is the
one the amounts give (`StatusLegal`), and the payment looks like none of the
last ten minutes (`DuplicateLegal`). A commit of another request on the pledge
ends `solo`, and a commit on another pledge moves no term of the sum. From it
`StatusHeals`, `PaymentsStayWithin` and `NoSilentDuplicate`.

`OutboxDrainProofs`. `DrainInv` adds `Ownership` (a claiming worker holds
PENDING rows, one that has claimed owns PROCESSED ones) and `Settled` (what was
handled is in nobody's hands). From it follow `DrainTypes`, `RowsAreNotShared`
and `HandledOnce`; `RedeliveriesAreCounted` relates the calls of a handler to
the failures counted and the one call that may be running.

`SmsDeliveryProofs` builds on that module through an INSTANCE:
`OutboxIsImplemented` shows that every step of the composition is a step of
`OutboxDrain` or none, so `Outbox!DrainInv`, and with it that no row is in two
hands, holds of campaigns. `SmsInv` adds what a job knows: until it commits,
what it read is still what is QUEUED for its campaign (`JobInv`), and each
message of a dispatch under way has its RESERVE row (`DispatchInv`). From it
follow the movements of credits per message (`CreditsAlwaysFollow`,
`CreditsMoveOnce`), the statuses (`CampaignsMatchAlways`) and what is handed to
the gateway (`UnsettledIsSent`). Balances are sums over messages:
`RetriesCreateNoCredit` follows from `CreditsMoveOnce` by adding up, and
`SoloStopsAtZero` from `SoloInv`, that a balance test not overlapped by a
reservation still holds when its own is written.

`SumTheorems` has what the balances need of the community modules'
`MapThenSumSet`: the sum over the empty set, one more term, term by term
comparison, two disjoint sets, and a partition (`SumPartition`: the sums of the
parts add up to the sum of the whole); also that a finite set that is not empty
has a member that is largest by some measure. The library's induction theorems take an operator and cannot be
used, so induction is stated about sets (`NumbersByInduction`,
`SetsByInduction`: a set of subsets that has the empty set and is closed under
adding an element has them all) and applied to the set of those subsets for
which the claim holds; that the fold's recursive table exists is proved the
same way.

`BillingProofs`. `PaymentInv`: an invoice follows its purchase, a delivery is
about an invoice that exists and may say anything of it, a grant exists at most
once per invoice, and an invoice nobody contends has one delivery at most and
none after its grant.
Hence `GrantedOnce` and `PaymentIsFinal`. `AlertInv` counts the workers that
are about to mail and about to mark (`AlertsStayBounded`). `EnjoyInv` and
`BooksInv` say which accounts and which ledger rows exist; with the price list
evaluated and the sums of `SumTheorems`, `PaidIsEnjoyed` compares the plan and
both balances with what was paid.

`OnboardingProofs`. `SignInInv` counts the calls about to write a miss and
about to win a session, next to what is already written. `InvitationInv` has
for each acceptance that what it read and will write back (`Fresh`) is still
true unless another call was at the same invitation. `SeatsInv` and
`CeilingInv` have for each call past its count the room it counted on. From
these: `CodesAreSpentAlways`, `TrialsAreSingle`, `LinksKeepTheirWord`,
`CapsHoldAlways`, `OnboardingTypes`.

`OfficeProofs` has two parts that share no state. For the organizers' desks:

- `PageFollowsRequests` rests on `PageInv`, which adds to the property what an
  update of the settings holds between its read and its write: columns of the
  right names. What it writes back is either what the column is now or goes
  into `reverted`. Token, announcement and instruction calls touch no other
  column, and a visitor's request takes over settings that are already right.
- `ChecksOutliveTheirReads` rests on two invariants. `BooksInv`: the books are
  sound (`Sound`: types and `KeysHold`), and each call holds something of its
  kind; to prove it, there is a lemma per service transaction saying what it
  leaves of people, pledges, payments, lines, earmarks and groups. `ChecksInv`:
  a number that is about to be written was nobody's when it was looked up,
  unless it is shared (`LookedUp`), and a line edited at a version is past that
  version (`EditsArePast`). The cap is a count: a call that passes it
  found room for one, and all the other calls may be past it already, which is
  the overshoot that the property allows and no more.
- `FiguresAlwaysAgree` needs no history: that the figures agree is true of all
  sound books (`SoundBooksAgree`), so `BooksInv` gives one half. `Reports`
  defines every aggregate by a query of its own; the proof writes each as a sum
  of `SumTheorems` over rows (`PaidIsSum`, `CommittedIsSum`, ...) and shows that
  the groupings (by person, by pledge, by funder, by group, by period, by live
  and cancelled) are partitions. The three classes are disjoint because
  each list is a selection by what was promised and paid (`ListedAs`,
  `QueriedAs`), and the pages of a list join to the list (`PagesAddUp`).
  `ListsCompared` puts the report's lists and the assistant's side by side: they
  are the same but for "all", where the report adds those who paid on pledges
  that were corrected to nothing. Those have received something, so the sums
  over the report's list need no promise of theirs. The other half is the
  public page: `ViewInv` has, for each of its reads, that an undisturbed request
  that is past it holds what the books say now.

For the assistant, `TurnInv` has, per turn, which ledger rows it must have at
the point where it is (`BooksOf`), and that a balance check still holds at the
reservation unless another turn reserved in between (`CheckHolds`). From it
`TurnsCostTheirAnswer` and the action property `ReservationsCovered`.

`DocumentsProofs`. `ProposalInv` has, for each proposal no two calls held at
once, the one call that may hold it and whether it ran (`GoodProposal`);
`DocumentInv` has, for each document no two drains took at once, how far its
only drain is and what it has staged (`Progress`). From these `ApprovedOnlyOnce`
and `DocumentsReadOnce`. `NewcomerInv` is about names: what is staged or
executed with a person's id is meant for that person, or the name is in doubt
(`Meant`); of an undoubted name there is at most one person, and none while a
call that looked it up is about to create one (`OneOfAName`); a newcomer whose
first action was their only pledge has that pledge (`OnePledge`), and a
contribution about to be booked with a pledge of its own belongs to somebody
without one (`Unpledged`). From it `NewcomersStayWhole`. The attempt to prove
the property in its first form failed for good reasons: an action staged for a
person and then renamed runs on that person, a merge brings pledges along, and
two people may have had the name from the beginning. The property now names
these exceptions.

Model-checked only. The liveness properties (`EveryRowIsHandled`,
`EveryCampaignSettles`, `EveryTurnEnds`): fairness and ENABLED are out of the
prover's reach.

## 6. Not modelled

Row-level security policies, migrations and the HTTP layer (routing, DTO
validation, throttling, ETags) are configuration; the model starts at the
service calls. Language-model prompts and the deterministic tier-1 parser of
`capture.service` turn text into tool calls: a model step takes any call, which
includes whatever they produce. Budget intelligence and self-learning produce
text and estimates that no other part relies on. `refreshToken` signs a new
token and changes no row; `updateEvent` changes fields no decision depends on.
Providers appear as the outcomes their callers can see. Audit rows are modelled
in `PledgeLedger` only, where a property is about them. Grants never expire in
the model because `activeGrant` does not read `periodEnd`. The order of report
rows, amounts as text, and the maximum sizes of pages and lists are left out; so
is the description among the settings' columns, which goes the same way as the
others. An event's target is a constant of `EventOffice`: no stored figure
depends on it.

## 7. What the code does and its comments do not say

`PROJECT.json` lists each with the lines and the comment it disagrees with.
Four are shown by a run of their own (section 4). The others came up while
modelling and are visible as an exception in a property, or in a definition:
a grant for a callback that nothing verified; the report's list of all, which
has people that the assistant's has not;
two billing accounts for one user; a late failure written over PAID; a top-up
that replaces the event's pack; a pending callback taken for a failure; repeated
alerts; invitations that admit more than they say or come back from REVOKED;
reopened events and seats past the ceiling; what a merge drops; a budget version
that is not part of the UPDATE; a default order that is upside down; a public
page that mixes two moments; proposals confirmed twice, or edited to another
name and booked on the first; a document extracted twice; announcements
published without a proposal.
