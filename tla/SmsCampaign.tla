---------------------------- MODULE SmsCampaign -----------------------------
(***************************************************************************)
(* SMS campaigns and the prepaid credits they spend: SmsService.dispatch   *)
(* on the API, SmsService.processCampaign on the worker, and the           *)
(* append-only credit ledger of BillingService.                            *)
(*                                                                         *)
(* dispatch and processCampaign each write their rows in one transaction,  *)
(* but call BillingService, which writes through a connection of its own:  *)
(* a ledger row is visible at once and stays when the caller's transaction *)
(* is rolled back.  This module has the two procedures step by step; the   *)
(* outbox that leads from the one to the other, and the specification,     *)
(* are in SmsDelivery.                                                     *)
(***************************************************************************)
EXTENDS Integers, FiniteSetsExt

CONSTANTS
  Campaigns,     \* calls of dispatch, as created_at ranks of their outbox rows
  People,        \* contributors with a phone, as ranks of display_name
  Audiences,     \* sets of them a campaign may resolve to
  Events,
  EventOf,       \* campaign -> the event it is sent from
  OwnerOf,       \* event -> the billing account of its owner
  AccountGrant,  \* account -> credits granted to the account (the free trial)
  PackGrant,     \* event -> credits bought for the event (an event pack)
  Workers        \* worker processes

ASSUME GrantsAssumption ==
  /\ Campaigns \subseteq Nat /\ People \subseteq Nat /\ Audiences \subseteq SUBSET People
  /\ EventOf \in [Campaigns -> Events]
  /\ \A e \in Events : PackGrant[e] \in Nat /\ AccountGrant[OwnerOf[e]] \in Nat

\* A message is named by its campaign and its recipient.
Messages == Campaigns \X People

VARIABLES
  ledger,      \* sms_credit_ledger: kind -> message -> number of rows
  messages,    \* sms_message.status
  campaigns,   \* sms_campaign.status
  dispatches,  \* where each call of dispatch is
  jobs         \* where each worker's call of processCampaign is

smsVars == <<ledger, messages, campaigns, dispatches, jobs>>

Kinds == {"RESERVE", "COMMIT", "REFUND"}

MessagesOf(c) == {m \in Messages : m[1] = c}

-----------------------------------------------------------------------------
(* The credit ledger.                                                      *)

\* Variant: the ledger has no unique idempotency key.
appendEach(kind, m) == ledger' = [ledger EXCEPT ![kind][m] = @ + 1]

\* The idempotency key is made of the kind and the message: a second append of
\* the same movement violates the unique index and is swallowed.
append(kind, m) ==
  ledger' = [ledger EXCEPT ![kind][m] = IF @ = 0 THEN 1 ELSE @]

\* A movement carries its event and, whatever the scope it was made in, the
\* account of the event's owner; a balance sums the rows that match either.
Visible(m, e) ==
  \/ EventOf[m[1]] = e
  \/ OwnerOf[EventOf[m[1]]] = OwnerOf[e]

Granted(e) == AccountGrant[OwnerOf[e]] + PackGrant[e]

\* A grant counts its credits, a RESERVE is -1, a REFUND +1, a COMMIT 0.
smsBalance(e) ==
  Granted(e) + MapThenSumSet(LAMBDA m : ledger["REFUND"][m] - ledger["RESERVE"][m],
                             {m \in Messages : Visible(m, e)})

-----------------------------------------------------------------------------
NoDispatch(at) == [pc |-> at, todo |-> {}, queued |-> {}, solo |-> FALSE]

NoJob == [pc |-> "none", pending |-> {}, ok |-> {}, settled |-> {}]

SmsInit ==
  /\ ledger = [k \in Kinds |-> [m \in Messages |-> 0]]
  /\ messages = [m \in Messages |-> "absent"]
  /\ campaigns = [c \in Campaigns |-> "absent"]
  /\ dispatches = [c \in Campaigns |-> NoDispatch("idle")]
  /\ jobs = [w \in Workers |-> NoJob]

-----------------------------------------------------------------------------
(* dispatch: the recipients are read, then one transaction opens.          *)

dispatch(c) ==
  /\ dispatches[c].pc = "idle"
  /\ \E recipients \in Audiences :
       dispatches' = [dispatches EXCEPT ![c].pc = "check", ![c].todo = recipients]
  /\ UNCHANGED <<ledger, messages, campaigns, jobs>>

\* Variant: the test for an empty balance is off by one.
EnoughOffByOne(c) == smsBalance(EventOf[c]) >= 0

\* reserve's test, on the balance as it is read.
Enough(c) == smsBalance(EventOf[c]) >= 1

\* solo: no other reservation has been made since this reading (history, read
\* by a property only).
CheckBalance(c) ==
  /\ dispatches[c].pc = "check" /\ dispatches[c].todo # {}
  /\ dispatches' = [dispatches EXCEPT ![c].pc = IF Enough(c) THEN "reserve" ELSE "finish",
                                      ![c].solo = Enough(c)]
  /\ UNCHANGED <<ledger, messages, campaigns, jobs>>

\* The RESERVE row, and the message inside the transaction.
Reserve(c) ==
  LET p == Min(dispatches[c].todo) IN
  /\ dispatches[c].pc = "reserve"
  /\ append("RESERVE", <<c, p>>)
  /\ dispatches' = [d \in Campaigns |->
       IF d = c THEN [dispatches[c] EXCEPT !.pc = "check", !.todo = @ \ {p},
                                           !.queued = @ \cup {p}, !.solo = FALSE]
       ELSE [dispatches[d] EXCEPT !.solo = FALSE]]
  /\ UNCHANGED <<messages, campaigns, jobs>>

AtEnd(c) ==
  \/ dispatches[c].pc = "finish"
  \/ dispatches[c].pc = "check" /\ dispatches[c].todo = {}

\* The transaction commits: the campaign and its messages appear.
FinishDispatch(c) ==
  /\ AtEnd(c)
  /\ campaigns' = [campaigns EXCEPT ![c] =
       IF dispatches[c].queued # {} THEN "SENDING" ELSE "FAILED"]
  /\ messages' = [m \in Messages |->
       IF m[1] = c /\ m[2] \in dispatches[c].queued THEN "QUEUED" ELSE messages[m]]
  /\ dispatches' = [dispatches EXCEPT ![c] = NoDispatch("done")]
  /\ UNCHANGED <<ledger, jobs>>

\* An error, the transaction's 5 s timeout or a crash rolls it back; the RESERVE
\* rows stay.
FailDispatch(c) ==
  /\ dispatches[c].pc \in {"check", "reserve", "finish"}
  /\ dispatches' = [dispatches EXCEPT ![c] = NoDispatch("failed")]
  /\ UNCHANGED <<ledger, messages, campaigns, jobs>>

-----------------------------------------------------------------------------
(* processCampaign, run by worker w for campaign c.                        *)

\* Variant: every message of the campaign is taken up, whatever its status.
PendingAll(c) == {m \in MessagesOf(c) : messages[m] # "absent"}

Pending(c) == {m \in MessagesOf(c) : messages[m] = "QUEUED"}

\* No QUEUED message: the job returns at once.
ReadPending(w, c) ==
  /\ jobs' = [jobs EXCEPT ![w].pc = IF Pending(c) = {} THEN "return" ELSE "send",
                          ![w].pending = Pending(c)]
  /\ UNCHANGED <<ledger, messages, campaigns, dispatches>>

\* The gateway takes or rejects each message; a request it rejects as a whole
\* is one in which every message failed.
sendBulk(w) ==
  /\ jobs[w].pc = "send"
  /\ \E accepted \in SUBSET jobs[w].pending :
       jobs' = [jobs EXCEPT ![w].pc = "settle", ![w].ok = accepted]
  /\ UNCHANGED <<ledger, messages, campaigns, dispatches>>

\* Variant: a failed message keeps its credit.
SettlementNoRefund(w, m) == "COMMIT"

Settlement(w, m) == IF m \in jobs[w].ok THEN "COMMIT" ELSE "REFUND"

\* One turn of the loop: the message's row inside the transaction, its credit
\* outside.  findMany gives the messages in no particular order.
Settle(w, m) ==
  /\ jobs[w].pc = "settle" /\ m \in jobs[w].pending \ jobs[w].settled
  /\ append(Settlement(w, m), m)
  /\ jobs' = [jobs EXCEPT ![w].settled = @ \cup {m}]
  /\ UNCHANGED <<messages, campaigns, dispatches>>

\* Variant: the campaign counts as sent as soon as one message is.
OutcomeOptimistic(w) == IF jobs[w].ok = {} THEN "FAILED" ELSE "SENT"

\* Variant: a campaign takes the status of its messages' delivery reports.
OutcomeDelivered(w) ==
  CASE jobs[w].ok = jobs[w].pending -> "DELIVERED"
    [] jobs[w].ok = {}              -> "FAILED"
    [] OTHER                        -> "PARTIAL"

Outcome(w) ==
  CASE jobs[w].ok = jobs[w].pending -> "SENT"
    [] jobs[w].ok = {}              -> "FAILED"
    [] OTHER                        -> "PARTIAL"

\* The transaction that records the outcome commits.
CommitJob(w, c) ==
  /\ jobs[w].pc = "settle" /\ jobs[w].settled = jobs[w].pending
  /\ messages' = [m \in Messages |->
       CASE m \in jobs[w].ok                        -> "SENT"
         [] m \in jobs[w].pending \ jobs[w].ok      -> "FAILED"
         [] OTHER                                   -> messages[m]]
  /\ campaigns' = [campaigns EXCEPT ![c] = Outcome(w)]
  /\ jobs' = [jobs EXCEPT ![w] = NoJob]
  /\ UNCHANGED <<ledger, dispatches>>

\* The job ends without recording anything: there was nothing to do, or an error
\* rolled its transaction back.  Ledger rows it has appended stay.
DropJob(w) ==
  /\ jobs' = [jobs EXCEPT ![w] = NoJob]
  /\ UNCHANGED <<ledger, messages, campaigns, dispatches>>
=============================================================================
