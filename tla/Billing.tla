------------------------------- MODULE Billing ------------------------------
(***************************************************************************)
(* The fees of one organizer: BillingService, the webhook of the payment   *)
(* gateway, the reconciliation by an administrator, the stuck-payment      *)
(* alert of the worker, and the resolution of plan and balance.            *)
(*                                                                         *)
(* A call of the API is a process.  Signup is the controller's             *)
(* maybeStartTrial, made once, when the user row is created; a buyer is    *)
(* one call of purchaseEventPack or subscribe, and names the invoice it    *)
(* creates; a delivery is one call of applyPaymentWebhook, by a callback   *)
(* or by an administrator.  Each database statement outside a transaction  *)
(* is a step of its own; the transaction of a successful payment locks the *)
(* invoice's row first, so that it takes effect as one step.  A call that  *)
(* dies takes no further step, which nothing here forbids.                 *)
(*                                                                         *)
(* The gateway is external.  A callback names an invoice's reference and a *)
(* status.  Neither the route nor the parser makes sure that the gateway   *)
(* has said so, so a callback may come with any status, as soon as the     *)
(* invoice is there, more than once, late, out of order, or never.         *)
(***************************************************************************)
EXTENDS PlanCatalog, Sequences, FiniteSets

CONSTANTS
  Signup,      \* the call that starts the account trial
  Buyers,      \* calls that buy; also the invoices they create
  Deliveries,  \* calls of applyPaymentWebhook
  Workers,     \* worker processes
  Wanted,      \* buyer -> plan codes it may buy
  MaxOld,      \* bound: invoices that get old enough for an alert
  MaxFaults,   \* bound: failures of an alert tick
  Null

ASSUME BillingAssumption ==
  /\ Signup \notin Buyers /\ Null \notin Buyers \union {Signup}
  /\ Wanted \in [Buyers -> SUBSET (PlanCodes \ {"FREE"})]
  /\ IsFiniteSet(Buyers) /\ IsFiniteSet(Workers) /\ MaxFaults \in Nat /\ MaxOld \in Nat

VARIABLES
  accounts,       \* billing_account rows of the user, oldest first, by creator
  invoices,       \* invoice rows
  eventGrant,     \* plan of the event's entitlement_grant
  accountGrants,  \* entitlement_grant rows of accounts
  ledger,         \* sms_credit_ledger and ai_credit_ledger, GRANT rows
  calls,          \* where signup and the buyers are, and the account they use
  deliveries,     \* where each delivery is, and what it delivers
  gateway,        \* the gateway's own view of each collection
  old,            \* invoices past STUCK_INVOICE_THRESHOLD_MINUTES
  ticks,          \* the alert tick of each worker
  mails,          \* alerts mailed, per invoice
  faults,         \* failures of alert ticks so far
  granted,        \* history: success transactions committed, per invoice
  contended       \* history: invoices with two deliveries in flight at once

apiVars == <<accounts, calls, gateway>>
bookVars == <<eventGrant, accountGrants, ledger, granted>>
alertVars == <<old, ticks, mails, faults>>
hookVars == <<deliveries, contended>>
vars == <<apiVars, bookVars, alertVars, hookVars, invoices>>

Callers == Buyers \union {Signup}

NoInvoice == [status |-> "none", plan |-> Null, account |-> Null, alerted |-> FALSE]

Books == {"sms", "ai"}

Delivered == [pc |-> "done", invoice |-> Null]

Init ==
  /\ accounts = <<>>
  /\ invoices = [i \in Buyers |-> NoInvoice]
  /\ eventGrant = Null
  /\ accountGrants = {}
  /\ ledger = {}
  /\ calls = [c \in Callers |-> [pc |-> "start", account |-> Null]]
  /\ deliveries = [d \in Deliveries |-> [pc |-> "idle", invoice |-> Null]]
  /\ gateway = [i \in Buyers |-> "none"]
  /\ old = {}
  /\ ticks = [w \in Workers |-> [pc |-> "idle", batch |-> {}]]
  /\ mails = [i \in Buyers |-> 0]
  /\ faults = 0
  /\ granted = [i \in Buyers |-> 0]
  /\ contended = {}

-----------------------------------------------------------------------------
(* The payer's account, the account trial, and buying.                     *)

goto(c, pc, account) == calls' = [calls EXCEPT ![c] = [pc |-> pc, account |-> account]]

\* What a caller does once it has an account.
AfterAccount(c) == IF c = Signup THEN "grant" ELSE "invoice"

\* ensureBillingAccount, the lookup: the oldest account, if there is one.
FindAccount(c) ==
  /\ calls[c].pc = "start"
  /\ IF accounts = <<>> THEN goto(c, "create", Null)
     ELSE goto(c, AfterAccount(c), Head(accounts))
  /\ UNCHANGED <<accounts, gateway, bookVars, alertVars, hookVars, invoices>>

\* ensureBillingAccount, the insert: no unique key on ownerUserId stops it.
CreateAccount(c) ==
  /\ calls[c].pc = "create"
  /\ accounts' = Append(accounts, c)
  /\ goto(c, AfterAccount(c), c)
  /\ UNCHANGED <<gateway, bookVars, alertVars, hookVars, invoices>>

\* A unique idempotency key: the row is new, or the insert is refused.
Booked(book, key) == \E row \in ledger : row.book = book /\ row.key = key

CreditRow(book, key, event, account, plan) ==
  [book |-> book, key |-> key, event |-> event, account |-> account,
   amount |-> IF book = "sms" THEN PLAN_CATALOG[plan].includedSmsCredits
              ELSE PLAN_CATALOG[plan].includedAiCredits]

\* startAccountTrial, the grant.  Signup is the only caller, so nobody creates
\* the FREE grant between its lookup and its insert.
TrialGrant ==
  /\ calls[Signup].pc = "grant"
  /\ accountGrants' = accountGrants \union
       {[account |-> calls[Signup].account, plan |-> "FREE", by |-> Signup]}
  /\ goto(Signup, "sms", calls[Signup].account)
  /\ UNCHANGED <<accounts, gateway, eventGrant, ledger, granted, alertVars, hookVars, invoices>>

\* startAccountTrial, grantCredits and grantAiCredits: one row each, a second
\* row with the same key is swallowed.
TrialCredits(book) ==
  LET account == calls[Signup].account IN
  /\ calls[Signup].pc = book
  /\ ledger' = ledger \union
       (IF Booked(book, <<"trial", account>>) THEN {}
        ELSE {CreditRow(book, <<"trial", account>>, FALSE, account, "FREE")})
  /\ IF book = "sms" THEN goto(Signup, "ai", account) ELSE goto(Signup, "done", Null)
  /\ UNCHANGED <<accounts, gateway, eventGrant, accountGrants, granted, alertVars, hookVars, invoices>>

\* charge: the invoice is inserted, then createCharge asks the gateway to start
\* a collection, which it does or not.  What the caller is told does not
\* matter: an exception after the gateway has accepted is reported as a failure
\* too, and in no case is the invoice written again.
charge(c, plan) ==
  /\ calls[c].pc = "invoice"
  /\ invoices' = [invoices EXCEPT ![c] =
       [status |-> "PENDING", plan |-> plan, account |-> calls[c].account, alerted |-> FALSE]]
  /\ \E accepted \in BOOLEAN :
       gateway' = [gateway EXCEPT ![c] = IF accepted THEN "PENDING" ELSE "none"]
  /\ goto(c, "done", Null)
  /\ UNCHANGED <<accounts, bookVars, alertVars, hookVars>>

-----------------------------------------------------------------------------
(* The gateway (external).                                                 *)

\* The payer approves.  A refusal collects nothing, and changes nothing that
\* anybody but a callback would hear of.
Collect(i) ==
  /\ gateway[i] = "PENDING"
  /\ gateway' = [gateway EXCEPT ![i] = "SUCCESSFUL"]
  /\ UNCHANGED <<accounts, calls, bookVars, alertVars, hookVars, invoices>>

\* The statuses a callback for an invoice may carry when it is taken: any.  A
\* signature that does not match or is missing is logged and the payload read
\* all the same, and nothing compares it with the collection.  A reference that
\* no invoice has is dropped.
Callbacks(i) ==
  IF invoices[i].status = "none" THEN {} ELSE {"PENDING", "SUCCESSFUL", "FAILED"}

-----------------------------------------------------------------------------
(* Payment webhooks and reconciliation.                                    *)

\* verifyAndParseWebhook: what does not say success is a failure, the report
\* of a collection that is still under way included.
verifyAndParseWebhook(raw) == IF raw = "SUCCESSFUL" THEN "succeeded" ELSE "failed"

\* Deliveries for an invoice between their lookup and their write.
InFlight(i) == {d \in Deliveries : deliveries[d].invoice = i}

\* Variant: the early return for a PAID invoice is missing.
LookupUnguarded(d, i, status) ==
  /\ deliveries[d].pc = "idle"
  /\ deliveries' = [deliveries EXCEPT ![d] = [pc |-> status, invoice |-> i]]
  /\ contended' = contended \union (IF InFlight(i) # {} THEN {i} ELSE {})
  /\ UNCHANGED <<apiVars, bookVars, alertVars, invoices>>

\* applyPaymentWebhook, the lookup of the invoice.  For a PAID one the call
\* returns, and its delivery is free for the next.
Lookup(d, i, status) ==
  /\ deliveries[d].pc = "idle" /\ invoices[i].status # "PAID"
  /\ deliveries' = [deliveries EXCEPT ![d] = [pc |-> status, invoice |-> i]]
  /\ contended' = contended \union (IF InFlight(i) # {} THEN {i} ELSE {})
  /\ UNCHANGED <<apiVars, bookVars, alertVars, invoices>>

\* BillingController.webhook parses a callback and applies it.
webhook(d) ==
  \E i \in Buyers : \E raw \in Callbacks(i) : Lookup(d, i, verifyAndParseWebhook(raw))

\* An administrator has seen on the gateway's dashboard that the collection
\* succeeded.  reconcileInvoice refuses a PAID invoice, and so does the lookup
\* it then shares with the webhook.
reconcileInvoice(d) ==
  \E i \in Buyers : gateway[i] = "SUCCESSFUL" /\ Lookup(d, i, "succeeded")

\* A call is over.
return(d) == deliveries' = [deliveries EXCEPT ![d] = Delivered]

\* Variant: the gateway's own word for the outcome is stored.
MarkAsReported(d) ==
  /\ deliveries[d].pc = "failed"
  /\ invoices' = [invoices EXCEPT ![deliveries[d].invoice].status = "failed"]
  /\ return(d)
  /\ UNCHANGED <<apiVars, bookVars, alertVars, contended>>

\* applyPaymentWebhook, a failed payment.  The update does not look at the
\* status again.
MarkFailed(d) ==
  /\ deliveries[d].pc = "failed"
  /\ invoices' = [invoices EXCEPT ![deliveries[d].invoice].status = "FAILED"]
  /\ return(d)
  /\ UNCHANGED <<apiVars, bookVars, alertVars, contended>>

\* The credit rows of a paid plan: one per book with credits in it.
PackCredits(i) ==
  LET plan == invoices[i].plan
      event == PLAN_CATALOG[plan].scope = "EVENT"
  IN {row \in {CreditRow(book, <<"invoice", i>>, event, IF event THEN Null ELSE invoices[i].account, plan) :
                 book \in Books} : row.amount > 0}

\* Variant: the ledger rows carry no idempotency key.
RefusedByNobody(i) == FALSE

\* A second success transaction for an invoice is refused by the unique keys of
\* the ledger rows the first one wrote, and rolled back as a whole.
RefusedByKey(i) == \E row \in PackCredits(i) : Booked(row.book, row.key)

\* applyPaymentWebhook, a successful payment: invoice, grant and credits in
\* one transaction.  An event has one grant, which the new plan replaces; an
\* account gets one more.
GrantPaid(d) ==
  LET i == deliveries[d].invoice
      plan == invoices[i].plan
      onEvent == PLAN_CATALOG[plan].scope = "EVENT"
  IN
  /\ deliveries[d].pc = "succeeded"
  /\ return(d)
  /\ IF RefusedByKey(i) THEN UNCHANGED <<invoices, eventGrant, accountGrants, ledger, granted>>
     ELSE /\ invoices' = [invoices EXCEPT ![i].status = "PAID"]
          /\ eventGrant' = IF onEvent THEN plan ELSE eventGrant
          /\ accountGrants' = accountGrants \union
               (IF onEvent THEN {}
                ELSE {[account |-> invoices[i].account, plan |-> plan, by |-> i]})
          /\ ledger' = ledger \union PackCredits(i)
          /\ granted' = [granted EXCEPT ![i] = @ + 1]
  /\ UNCHANGED <<apiVars, alertVars, contended>>

-----------------------------------------------------------------------------
(* Stuck-payment alerts.                                                   *)

Age(i) ==
  /\ invoices[i].status = "PENDING" /\ i \notin old /\ Cardinality(old) < MaxOld
  /\ old' = old \union {i}
  /\ UNCHANGED <<ticks, mails, faults, apiVars, bookVars, hookVars, invoices>>

\* findStuckPendingInvoices
Stuck == {i \in old : invoices[i].status = "PENDING" /\ ~invoices[i].alerted}

\* A tick finds stuck invoices; the scheduler's flag keeps a worker's ticks
\* from overlapping, which is a pc other than "idle" here.
FindStuck(w) ==
  /\ ticks[w].pc = "idle" /\ Stuck # {}
  /\ ticks' = [ticks EXCEPT ![w] = [pc |-> "mail", batch |-> Stuck]]
  /\ UNCHANGED <<old, mails, faults, apiVars, bookVars, hookVars, invoices>>

\* One mail about the whole batch.
MailAlert(w) ==
  /\ ticks[w].pc = "mail"
  /\ mails' = [i \in Buyers |-> mails[i] + IF i \in ticks[w].batch THEN 1 ELSE 0]
  /\ ticks' = [ticks EXCEPT ![w].pc = "mark"]
  /\ UNCHANGED <<old, faults, apiVars, bookVars, hookVars, invoices>>

\* Variant: the batch is not marked.
markNothing(w) ==
  /\ ticks[w].pc = "mark"
  /\ ticks' = [ticks EXCEPT ![w] = [pc |-> "idle", batch |-> {}]]
  /\ UNCHANGED <<old, mails, faults, apiVars, bookVars, hookVars, invoices>>

\* markStuckAlertSent
markStuckAlertSent(w) ==
  /\ ticks[w].pc = "mark"
  /\ invoices' = [i \in Buyers |-> IF i \in ticks[w].batch THEN [invoices[i] EXCEPT !.alerted = TRUE]
                                   ELSE invoices[i]]
  /\ ticks' = [ticks EXCEPT ![w] = [pc |-> "idle", batch |-> {}]]
  /\ UNCHANGED <<old, mails, faults, apiVars, bookVars, hookVars>>

\* The mail or the marking fails, or the worker dies and is started again.
TickFails(w) ==
  /\ ticks[w].pc # "idle" /\ faults < MaxFaults
  /\ faults' = faults + 1
  /\ ticks' = [ticks EXCEPT ![w] = [pc |-> "idle", batch |-> {}]]
  /\ UNCHANGED <<old, mails, apiVars, bookVars, hookVars, invoices>>

-----------------------------------------------------------------------------
Api ==
  \/ \E c \in Callers : FindAccount(c) \/ CreateAccount(c)
  \/ TrialGrant
  \/ \E book \in Books : TrialCredits(book)
  \/ \E c \in Buyers : \E plan \in Wanted[c] : charge(c, plan)

Gateway == \E i \in Buyers : Collect(i)

Webhooks ==
  \E d \in Deliveries :
    webhook(d) \/ reconcileInvoice(d) \/ MarkFailed(d) \/ GrantPaid(d)

Tick(w) == FindStuck(w) \/ MailAlert(w) \/ markStuckAlertSent(w)

Next ==
  \/ Api
  \/ Gateway
  \/ Webhooks
  \/ \E i \in Buyers : Age(i)
  \/ \E w \in Workers : Tick(w) \/ TickFails(w)

Spec == Init /\ [][Next]_vars

-----------------------------------------------------------------------------
(* What the entitlement service answers for the event of this organizer.   *)

\* EntitlementService.owningAccountId and findAccountId: the oldest account.
owningAccountId == IF accounts = <<>> THEN Null ELSE Head(accounts)

\* EntitlementService.resolve, the plan: the event's grant and those of the
\* owning account, pooled; a period that has ended is not looked at.
ResolvedPlan ==
  activeGrant((IF eventGrant = Null THEN {} ELSE {eventGrant})
              \union {g.plan : g \in {h \in accountGrants : h.account = owningAccountId}})

\* smsBalance and aiBalance: the rows of the event and of the owning account.
\* (An account id that is Null is not searched for.)
Balance(book) ==
  MapThenSumSet(LAMBDA row : row.amount,
    {row \in ledger : row.book = book /\
       (row.event \/ (accounts # <<>> /\ row.account = owningAccountId))})

-----------------------------------------------------------------------------
(* Properties.                                                             *)

TypeOK ==
  /\ accounts \in Seq(Callers)
  /\ invoices \in [Buyers -> [status : {"none", "PENDING", "PAID", "FAILED"},
                              plan : PlanCodes \union {Null},
                              account : Callers \union {Null}, alerted : BOOLEAN]]
  /\ eventGrant \in PlanCodes \union {Null}
  /\ accountGrants \subseteq [account : Callers, plan : PlanCodes, by : Callers]
  /\ ledger \subseteq [book : Books, key : {"trial", "invoice"} \X Callers, event : BOOLEAN,
                       account : Callers \union {Null}, amount : Nat]
  /\ calls \in [Callers -> [pc : {"start", "create", "grant", "sms", "ai", "invoice", "done"},
                            account : Callers \union {Null}]]
  /\ deliveries \in [Deliveries -> [pc : {"idle", "failed", "succeeded", "done"},
                                    invoice : Buyers \union {Null}]]
  /\ gateway \in [Buyers -> {"none", "PENDING", "SUCCESSFUL"}]
  /\ old \subseteq Buyers
  /\ ticks \in [Workers -> [pc : {"idle", "mail", "mark"}, batch : SUBSET Buyers]]
  /\ mails \in [Buyers -> Nat]
  /\ faults \in 0 .. MaxFaults
  /\ granted \in [Buyers -> Nat]
  /\ contended \subseteq Buyers

\* Whatever callbacks say, however often and in whatever order, and whether or
\* not an administrator reconciles as well, an invoice is granted at most once,
\* its credits exist exactly when it is, and it is not PAID without.
OneGrantPerPayment ==
  \A i \in Buyers :
    /\ granted[i] \in {0, 1}
    /\ granted[i] = 1 <=> Booked("sms", <<"invoice", i>>)
    /\ invoices[i].status = "PAID" => granted[i] = 1

\* A granted invoice stays PAID, as long as no two deliveries for it were
\* between their lookup and their write at the same time: a late report of
\* another status does not undo it.
UncontendedPaymentIsFinal ==
  \A i \in Buyers : granted[i] = 1 /\ i \notin contended => invoices[i].status = "PAID"

\* Unless two calls created an account each, the resolved plan is no cheaper
\* than any subscription that was paid.
PaidPlanIsEnjoyed ==
  Len(accounts) <= 1 =>
    \A i \in Buyers : granted[i] = 1 /\ PLAN_CATALOG[invoices[i].plan].scope = "ACCOUNT" =>
      PLAN_CATALOG[invoices[i].plan].priceMinor <= PLAN_CATALOG[ResolvedPlan].priceMinor

\* What was paid for is what the gates see: unless two calls created an account
\* each, the resolved plan covers every subscription that was paid, and the
\* balance is the sum of the trial and of every paid plan's credits.
PaidIsWhatIsEnjoyed ==
  LET paid == {i \in Buyers : granted[i] = 1}
      trial(book) == IF Booked(book, <<"trial", owningAccountId>>)
                     THEN CreditRow(book, Null, FALSE, Null, "FREE").amount ELSE 0
  IN
  /\ PaidPlanIsEnjoyed
  /\ Len(accounts) <= 1 =>
       \A book \in Books : Balance(book) =
         trial(book) + MapThenSumSet(LAMBDA i :
           CreditRow(book, Null, FALSE, Null, invoices[i].plan).amount, paid)

\* An invoice is mailed about at most once per worker, and once more for each
\* tick that failed between its mail and its mark.
AlertsAreBounded ==
  \A i \in Buyers : mails[i] <= Cardinality(Workers) + faults

=============================================================================
