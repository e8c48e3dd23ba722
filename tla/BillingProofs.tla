---------------------------- MODULE BillingProofs ---------------------------
(***************************************************************************)
(* Theorems about Billing, for any number of buyers, deliveries and        *)
(* workers, any plans and any order and repetition of callbacks.           *)
(***************************************************************************)
EXTENDS Billing, SumTheorems

\* An invoice exists from the moment its buyer is done, and before that there
\* is no collection and nothing was granted for it.
InvoiceFollowsCall ==
  \A i \in Buyers :
    /\ calls[i].pc # "done" => invoices[i].status = "none"
    /\ invoices[i].status = "none" => gateway[i] = "none" /\ granted[i] = 0
    /\ invoices[i].status # "none" => invoices[i].plan \in Wanted[i]
                                      /\ invoices[i].account \in Callers

\* A caller that is past the lookup has an account.
CallHasAccount ==
  \A c \in Callers :
    /\ calls[c].pc \in {"grant", "sms", "ai", "invoice"} => calls[c].account \in Callers
    /\ calls[c].pc \in {"grant", "sms", "ai"} => c = Signup

\* A delivery between lookup and write is about an invoice that exists.
DeliveryHasInvoice ==
  \A d \in Deliveries :
    /\ deliveries[d].pc \in {"idle", "done"} => deliveries[d].invoice = Null
    /\ deliveries[d].pc \in {"failed", "succeeded"} =>
         /\ deliveries[d].invoice \in Buyers
         /\ invoices[deliveries[d].invoice].status # "none"

\* Two deliveries for one invoice make it contended; a granted invoice that is
\* not contended is PAID and has no delivery in flight.
UncontendedIsSettled ==
  \A i \in Buyers : i \notin contended =>
    /\ \A d, e \in Deliveries :
         deliveries[d].invoice = i /\ deliveries[e].invoice = i => d = e
    /\ granted[i] = 1 => invoices[i].status = "PAID"
                         /\ \A d \in Deliveries : deliveries[d].invoice # i

PaymentInv ==
  /\ TypeOK /\ InvoiceFollowsCall /\ CallHasAccount /\ DeliveryHasInvoice
  /\ OneGrantPerPayment /\ UncontendedIsSettled

-----------------------------------------------------------------------------
(* The price list.                                                         *)

\* The catalog's plans, each with its numbers.
LEMMA CatalogPlans ==
  /\ PlanCodes = {"FREE", "STARTER", "STANDARD", "PREMIUM", "ORGANIZER_PRO", "BUSINESS",
                  "SMS_TOP_UP_100", "SMS_TOP_UP_300"}
  /\ \A p \in PlanCodes : /\ PLAN_CATALOG[p].priceMinor \in Nat
                          /\ PLAN_CATALOG[p].includedSmsCredits \in Nat \ {0}
                          /\ PLAN_CATALOG[p].includedAiCredits \in Nat
<1>1. PlanCodes = {"FREE", "STARTER", "STANDARD", "PREMIUM", "ORGANIZER_PRO", "BUSINESS",
                   "SMS_TOP_UP_100", "SMS_TOP_UP_300"}
  BY DEF PlanCodes, PLAN_CATALOG
<1>2. ASSUME NEW scope, NEW contributors, NEW seats, NEW price, NEW sms, NEW ai
      PROVE  /\ PlanConfig(scope, price, contributors, sms, ai, seats).priceMinor = price
             /\ PlanConfig(scope, price, contributors, sms, ai, seats).includedSmsCredits = sms
             /\ PlanConfig(scope, price, contributors, sms, ai, seats).includedAiCredits = ai
  BY DEF PlanConfig
<1>3. /\ PLAN_CATALOG["FREE"]     = PlanConfig("EVENT",     0,   15,  10,   15, 1)
      /\ PLAN_CATALOG["STARTER"]  = PlanConfig("EVENT", 10000,  100, 100,  500, 3)
      /\ PLAN_CATALOG["STANDARD"] = PlanConfig("EVENT", 30000,  300, 300, 1500, 10)
      /\ PLAN_CATALOG["PREMIUM"]  = PlanConfig("EVENT", 60000, 1000, 600, 5000, Unlimited)
      /\ PLAN_CATALOG["ORGANIZER_PRO"] = PlanConfig("ACCOUNT", 30000, 500, 300, 3000, 5)
      /\ PLAN_CATALOG["BUSINESS"] = PlanConfig("ACCOUNT", 120000, Unlimited, 1000, 10000, Unlimited)
      /\ PLAN_CATALOG["SMS_TOP_UP_100"] = PlanConfig("EVENT", 6000, Unlimited, 100, 0, 1)
      /\ PLAN_CATALOG["SMS_TOP_UP_300"] = PlanConfig("EVENT", 16000, Unlimited, 300, 0, 1)
  BY DEF PLAN_CATALOG
<1>4. ASSUME NEW p \in PlanCodes
      PROVE  /\ PLAN_CATALOG[p].priceMinor \in Nat
             /\ PLAN_CATALOG[p].includedSmsCredits \in Nat \ {0}
             /\ PLAN_CATALOG[p].includedAiCredits \in Nat
  <2>1. CASE p = "FREE"
    BY <1>2, <1>3, <2>1
  <2>2. CASE p = "STARTER"
    BY <1>2, <1>3, <2>2
  <2>3. CASE p = "STANDARD"
    BY <1>2, <1>3, <2>3
  <2>4. CASE p = "PREMIUM"
    BY <1>2, <1>3, <2>4
  <2>5. CASE p = "ORGANIZER_PRO"
    BY <1>2, <1>3, <2>5
  <2>6. CASE p = "BUSINESS"
    BY <1>2, <1>3, <2>6
  <2>7. CASE p = "SMS_TOP_UP_100"
    BY <1>2, <1>3, <2>7
  <2>8. CASE p = "SMS_TOP_UP_300"
    BY <1>2, <1>3, <2>8
  <2> QED BY <1>1, <2>1, <2>2, <2>3, <2>4, <2>5, <2>6, <2>7, <2>8
<1> QED BY <1>1, <1>4

\* A credit row of a plan of the catalog has the type of a ledger row.
LEMMA CreditRowType ==
  ASSUME NEW book \in Books, NEW key \in {"trial", "invoice"} \X Callers, NEW event \in BOOLEAN,
         NEW account \in Callers \union {Null}, NEW plan \in PlanCodes
  PROVE  /\ CreditRow(book, key, event, account, plan) \in
              [book : Books, key : {"trial", "invoice"} \X Callers, event : BOOLEAN,
               account : Callers \union {Null}, amount : Nat]
         /\ CreditRow(book, key, event, account, plan).book = book
         /\ CreditRow(book, key, event, account, plan).key = key
BY CatalogPlans DEF CreditRow, Books

\* Every plan that can be bought comes with SMS credits, so that a success
\* transaction always writes the row whose key refuses the next one.
LEMMA PackHasSms ==
  ASSUME TypeOK, InvoiceFollowsCall, NEW i \in Buyers, invoices[i].status # "none"
  PROVE  /\ PackCredits(i) \subseteq [book : Books, key : {"trial", "invoice"} \X Callers,
                                      event : BOOLEAN, account : Callers \union {Null}, amount : Nat]
         /\ \A row \in PackCredits(i) : row.key = <<"invoice", i>>
         /\ \E row \in PackCredits(i) : row.book = "sms"
<1> DEFINE plan == invoices[i].plan
           event == PLAN_CATALOG[plan].scope = "EVENT"
           payer == IF event THEN Null ELSE invoices[i].account
           row(book) == CreditRow(book, <<"invoice", i>>, event, payer, plan)
<1>1. plan \in PlanCodes
  BY BillingAssumption DEF InvoiceFollowsCall
<1>2. <<"invoice", i>> \in {"trial", "invoice"} \X Callers /\ event \in BOOLEAN
      /\ payer \in Callers \union {Null}
  BY DEF InvoiceFollowsCall, Callers
<1>3. PackCredits(i) = {r \in {row(book) : book \in Books} : r.amount > 0}
  BY DEF PackCredits
<1> HIDE DEF plan, event, payer
<1>4. \A book \in Books :
        /\ row(book) \in [book : Books, key : {"trial", "invoice"} \X Callers, event : BOOLEAN,
                          account : Callers \union {Null}, amount : Nat]
        /\ row(book).book = book /\ row(book).key = <<"invoice", i>>
  BY <1>1, <1>2, CreditRowType
<1>5. row("sms").amount > 0
  BY <1>1, CatalogPlans DEF CreditRow
<1>6. "sms" \in Books
  BY DEF Books
<1> HIDE DEF row
<1> QED BY <1>3, <1>4, <1>5, <1>6

-----------------------------------------------------------------------------
(* Payments.                                                               *)

\* The invariant holds initially.
LEMMA PaymentInit == Init => PaymentInv
BY BillingAssumption
   DEF Init, PaymentInv, TypeOK, InvoiceFollowsCall, CallHasAccount, DeliveryHasInvoice,
       OneGrantPerPayment, UncontendedIsSettled, Callers, NoInvoice, Booked

\* The calls of the API preserve it.
LEMMA ApiStep == PaymentInv /\ Api => PaymentInv'
<1> SUFFICES ASSUME PaymentInv, Api PROVE PaymentInv'
  OBVIOUS
<1> USE BillingAssumption DEF PaymentInv, Callers
<1>1. ASSUME NEW c \in Callers, FindAccount(c) PROVE PaymentInv'
  <2>1. /\ UNCHANGED <<accounts, gateway, bookVars, alertVars, hookVars, invoices>>
        /\ calls[c].pc = "start"
        /\ \E pc \in {"create", "grant", "invoice"}, a \in Callers \union {Null} :
             /\ calls' = [calls EXCEPT ![c] = [pc |-> pc, account |-> a]]
             /\ pc # "create" => a \in Callers
             /\ pc = "grant" => c = Signup
    <3>1. CASE accounts = <<>>
      BY <1>1, <3>1 DEF FindAccount, goto
    <3>2. CASE accounts # <<>>
      <4>1. Head(accounts) \in Callers
        BY <3>2 DEF TypeOK
      <4>2. AfterAccount(c) \in {"grant", "invoice"} /\ (AfterAccount(c) = "grant" => c = Signup)
        BY DEF AfterAccount
      <4>3. calls' = [calls EXCEPT ![c] = [pc |-> AfterAccount(c), account |-> Head(accounts)]]
        BY <1>1, <3>2 DEF FindAccount, goto
      <4> QED BY <1>1, <4>1, <4>2, <4>3 DEF FindAccount
    <3> QED BY <3>1, <3>2
  <2>2. PICK pc \in {"create", "grant", "invoice"}, a \in Callers \union {Null} :
             /\ calls' = [calls EXCEPT ![c] = [pc |-> pc, account |-> a]]
             /\ pc # "create" => a \in Callers
             /\ pc = "grant" => c = Signup
    BY <2>1
  <2>3. TypeOK'
    BY <2>1, <2>2 DEF TypeOK, bookVars, alertVars, hookVars
  <2>4. InvoiceFollowsCall' /\ CallHasAccount'
    BY <2>1, <2>2 DEF InvoiceFollowsCall, CallHasAccount, TypeOK, bookVars
  <2>5. UNCHANGED <<gateway, granted, ledger, deliveries, contended, invoices>>
    BY <2>1 DEF hookVars, bookVars
  <2>6. DeliveryHasInvoice' /\ OneGrantPerPayment' /\ UncontendedIsSettled'
    BY <2>5 DEF DeliveryHasInvoice, OneGrantPerPayment, UncontendedIsSettled, Booked
  <2> QED BY <2>3, <2>4, <2>6
<1>2. ASSUME NEW c \in Callers, CreateAccount(c) PROVE PaymentInv'
  <2>1. /\ UNCHANGED <<gateway, bookVars, alertVars, hookVars, invoices>>
        /\ calls[c].pc = "create"
        /\ accounts' = Append(accounts, c)
        /\ calls' = [calls EXCEPT ![c] = [pc |-> IF c = Signup THEN "grant" ELSE "invoice",
                                          account |-> c]]
    BY <1>2 DEF CreateAccount, goto, AfterAccount
  <2>2. TypeOK'
    BY <2>1 DEF TypeOK, bookVars, alertVars, hookVars
  <2>3. InvoiceFollowsCall' /\ CallHasAccount'
    BY <2>1 DEF InvoiceFollowsCall, CallHasAccount, TypeOK, bookVars
  <2>4. DeliveryHasInvoice' /\ OneGrantPerPayment' /\ UncontendedIsSettled'
    BY <2>1 DEF DeliveryHasInvoice, OneGrantPerPayment, UncontendedIsSettled, Booked, hookVars, bookVars
  <2> QED BY <2>2, <2>3, <2>4
<1>3. ASSUME TrialGrant PROVE PaymentInv'
  <2> DEFINE account == calls[Signup].account
  <2>1. /\ UNCHANGED <<accounts, gateway, eventGrant, ledger, granted, alertVars, hookVars, invoices>>
        /\ calls[Signup].pc = "grant"
        /\ accountGrants' = accountGrants \union
             {[account |-> account, plan |-> "FREE", by |-> Signup]}
        /\ calls' = [calls EXCEPT ![Signup] = [pc |-> "sms", account |-> account]]
    BY <1>3 DEF TrialGrant, goto
  <2>2. account \in Callers
    BY <2>1 DEF CallHasAccount
  <2> HIDE DEF account
  <2>3. TypeOK'
    <3>1. "FREE" \in PlanCodes
      BY CatalogPlans
    <3> QED BY <2>1, <2>2, <3>1 DEF TypeOK, alertVars, hookVars
  <2>4. InvoiceFollowsCall' /\ CallHasAccount'
    BY <2>1, <2>2 DEF InvoiceFollowsCall, CallHasAccount, TypeOK
  <2>5. DeliveryHasInvoice' /\ OneGrantPerPayment' /\ UncontendedIsSettled'
    BY <2>1 DEF DeliveryHasInvoice, OneGrantPerPayment, UncontendedIsSettled, Booked, hookVars
  <2> QED BY <2>3, <2>4, <2>5
<1>4. ASSUME NEW book \in Books, TrialCredits(book) PROVE PaymentInv'
  <2> DEFINE account == calls[Signup].account
             row == CreditRow(book, <<"trial", account>>, FALSE, account, "FREE")
  <2>1. /\ UNCHANGED <<accounts, gateway, eventGrant, accountGrants, granted, alertVars,
                       hookVars, invoices>>
        /\ calls[Signup].pc = book
        /\ ledger' = ledger \/ ledger' = ledger \union {row}
        /\ calls' = [calls EXCEPT ![Signup] =
             IF book = "sms" THEN [pc |-> "ai", account |-> account]
             ELSE [pc |-> "done", account |-> Null]]
    BY <1>4 DEF TrialCredits, goto
  <2>2. account \in Callers
    BY <2>1 DEF CallHasAccount, Books
  <2>3. /\ row \in [book : Books, key : {"trial", "invoice"} \X Callers, event : BOOLEAN,
                    account : Callers \union {Null}, amount : Nat]
        /\ row.key = <<"trial", account>>
    <3>1. "FREE" \in PlanCodes
      BY CatalogPlans
    <3>2. PLAN_CATALOG["FREE"].includedSmsCredits \in Nat /\ PLAN_CATALOG["FREE"].includedAiCredits \in Nat
      BY <3>1, CatalogPlans
    <3> QED BY <2>2, <3>2 DEF CreditRow, Books
  <2> HIDE DEF account, row
  <2>4. TypeOK'
    BY <2>1, <2>2, <2>3 DEF TypeOK, alertVars, hookVars
  <2>5. InvoiceFollowsCall' /\ CallHasAccount'
    BY <2>1, <2>2 DEF InvoiceFollowsCall, CallHasAccount, TypeOK
  <2>6. \A i \in Buyers : Booked("sms", <<"invoice", i>>)' <=> Booked("sms", <<"invoice", i>>)
    BY <2>1, <2>3 DEF Booked
  <2>7. OneGrantPerPayment'
    BY <2>1, <2>6 DEF OneGrantPerPayment
  <2>8. DeliveryHasInvoice' /\ UncontendedIsSettled'
    BY <2>1 DEF DeliveryHasInvoice, UncontendedIsSettled, hookVars
  <2> QED BY <2>4, <2>5, <2>7, <2>8
<1>5. ASSUME NEW c \in Buyers, NEW plan \in Wanted[c], charge(c, plan) PROVE PaymentInv'
  <2>1. /\ UNCHANGED <<accounts, bookVars, alertVars, hookVars>>
        /\ calls[c].pc = "invoice"
        /\ invoices' = [invoices EXCEPT ![c] =
             [status |-> "PENDING", plan |-> plan, account |-> calls[c].account, alerted |-> FALSE]]
        /\ \E g \in {"PENDING", "none"} : gateway' = [gateway EXCEPT ![c] = g]
        /\ calls' = [calls EXCEPT ![c] = [pc |-> "done", account |-> Null]]
    BY <1>5 DEF charge, goto
  <2>2. calls[c].account \in Callers /\ plan \in PlanCodes
    BY <2>1 DEF CallHasAccount
  <2>3. gateway[c] = "none" /\ granted[c] = 0
    BY <2>1 DEF InvoiceFollowsCall
  <2>4. TypeOK'
    BY <2>1, <2>2 DEF TypeOK, bookVars, alertVars, hookVars
  <2>5. InvoiceFollowsCall'
    BY <2>1, <2>2, <2>3 DEF InvoiceFollowsCall, TypeOK, bookVars
  <2>6. CallHasAccount'
    BY <2>1 DEF CallHasAccount, TypeOK
  <2>7. DeliveryHasInvoice'
    BY <2>1, <2>3 DEF DeliveryHasInvoice, hookVars, TypeOK
  <2>8. OneGrantPerPayment'
    BY <2>1, <2>3 DEF OneGrantPerPayment, Booked, TypeOK, bookVars
  <2>9. UncontendedIsSettled'
    BY <2>1, <2>3 DEF UncontendedIsSettled, TypeOK, bookVars, hookVars
  <2> QED BY <2>4, <2>5, <2>6, <2>7, <2>8, <2>9
<1> QED BY <1>1, <1>2, <1>3, <1>4, <1>5 DEF Api

\* The gateway preserves it: it writes nothing of Akabbo's.
LEMMA GatewayStep == PaymentInv /\ Gateway => PaymentInv'
<1> SUFFICES ASSUME PaymentInv, NEW i \in Buyers, Collect(i) PROVE PaymentInv'
  BY DEF Gateway
<1> USE DEF PaymentInv
<1>1. gateway' = [gateway EXCEPT ![i] = "SUCCESSFUL"]
  BY DEF Collect
<1>2. /\ gateway[i] = "PENDING"
      /\ UNCHANGED <<accounts, calls, bookVars, alertVars, hookVars, invoices>>
  BY DEF Collect
<1>3. UNCHANGED <<eventGrant, accountGrants, ledger, granted, old, ticks, mails, faults,
                  deliveries, contended>>
  BY <1>2 DEF bookVars, alertVars, hookVars
<1>4. TypeOK'
  BY <1>1, <1>2, <1>3 DEF TypeOK
<1>5. InvoiceFollowsCall' /\ CallHasAccount'
  BY <1>1, <1>2, <1>3 DEF InvoiceFollowsCall, CallHasAccount, TypeOK
<1>6. DeliveryHasInvoice'
  BY <1>1, <1>2, <1>3 DEF DeliveryHasInvoice, TypeOK
<1>7. \A j \in Buyers : Booked("sms", <<"invoice", j>>)' <=> Booked("sms", <<"invoice", j>>)
  BY <1>3 DEF Booked
<1>8. OneGrantPerPayment'
  BY <1>2, <1>3, <1>7 DEF OneGrantPerPayment
<1>9. UncontendedIsSettled'
  BY <1>2, <1>3 DEF UncontendedIsSettled
<1> QED BY <1>4, <1>5, <1>6, <1>8, <1>9

\* So does the lookup of a delivery, whatever it says.
LEMMA LookupStep ==
  ASSUME PaymentInv, NEW d \in Deliveries, NEW i \in Buyers, NEW word \in {"failed", "succeeded"},
         invoices[i].status # "none", Lookup(d, i, word)
  PROVE  PaymentInv'
<1> USE BillingAssumption DEF PaymentInv
<1>1. /\ deliveries[d].pc = "idle" /\ invoices[i].status # "PAID"
      /\ deliveries' = [deliveries EXCEPT ![d] = [pc |-> word, invoice |-> i]]
      /\ contended' = contended \union (IF InFlight(i) # {} THEN {i} ELSE {})
      /\ UNCHANGED <<apiVars, bookVars, alertVars, invoices>>
  BY DEF Lookup
<1>2. UNCHANGED <<accounts, calls, gateway, eventGrant, accountGrants, ledger, granted, old, ticks,
                  mails, faults, invoices>>
  BY <1>1 DEF apiVars, bookVars, alertVars
<1>3. TypeOK'
  BY <1>1, <1>2 DEF TypeOK
<1>4. InvoiceFollowsCall' /\ CallHasAccount'
  BY <1>2 DEF InvoiceFollowsCall, CallHasAccount
<1>5. DeliveryHasInvoice'
  BY <1>1, <1>2 DEF DeliveryHasInvoice, TypeOK
<1>6. OneGrantPerPayment'
  BY <1>2 DEF OneGrantPerPayment, Booked
<1>7. UncontendedIsSettled'
  <2> SUFFICES ASSUME NEW j \in Buyers, j \notin contended'
               PROVE  /\ \A c, e \in Deliveries :
                           deliveries'[c].invoice = j /\ deliveries'[e].invoice = j => c = e
                      /\ granted[j] = 1 => invoices[j].status = "PAID"
                                           /\ \A e \in Deliveries : deliveries'[e].invoice # j
    BY <1>2 DEF UncontendedIsSettled
  <2>1. j \notin contended
    BY <1>1
  <2>2. CASE j # i
    <3>1. \A e \in Deliveries : deliveries'[e].invoice = j => e # d /\ deliveries[e].invoice = j
      BY <1>1, <2>2 DEF TypeOK
    <3> QED BY <2>1, <3>1 DEF UncontendedIsSettled
  <2>3. CASE j = i
    <3>1. \A e \in Deliveries : deliveries[e].invoice # i
      BY <1>1, <2>3 DEF InFlight
    <3>2. \A e \in Deliveries : deliveries'[e].invoice = i => e = d
      BY <1>1, <3>1 DEF TypeOK
    <3>3. granted[i] # 1
      BY <1>1, <2>1, <2>3 DEF UncontendedIsSettled
    <3> QED BY <2>3, <3>2, <3>3
  <2> QED BY <2>2, <2>3
<1> QED BY <1>3, <1>4, <1>5, <1>6, <1>7

\* An update of an invoice's status keeps its type.
LEMMA StatusUpdateType ==
  ASSUME NEW S, NEW P, NEW A, NEW status \in S, NEW i \in Buyers,
         NEW rows \in [Buyers -> [status : S, plan : P, account : A, alerted : BOOLEAN]]
  PROVE  [rows EXCEPT ![i].status = status] \in
           [Buyers -> [status : S, plan : P, account : A, alerted : BOOLEAN]]
<1>1. rows[i] \in [status : S, plan : P, account : A, alerted : BOOLEAN]
  OBVIOUS
<1>2. [rows[i] EXCEPT !.status = status] \in [status : S, plan : P, account : A, alerted : BOOLEAN]
  BY <1>1
<1> QED BY <1>2

\* A report of a failure may take the status back, but of a contended invoice.
LEMMA MarkFailedStep == ASSUME PaymentInv, NEW d \in Deliveries, MarkFailed(d) PROVE PaymentInv'
<1> USE BillingAssumption DEF PaymentInv
<1> DEFINE i == deliveries[d].invoice
<1>1. /\ deliveries[d].pc = "failed"
      /\ invoices' = [invoices EXCEPT ![i].status = "FAILED"]
      /\ deliveries' = [deliveries EXCEPT ![d] = [pc |-> "done", invoice |-> Null]]
      /\ UNCHANGED <<apiVars, bookVars, alertVars, contended>>
  BY DEF MarkFailed, return, Delivered
<1>2. UNCHANGED <<accounts, calls, gateway, eventGrant, accountGrants, ledger, granted, old, ticks,
                  mails, faults, contended>>
  BY <1>1 DEF apiVars, bookVars, alertVars
<1>3. i \in Buyers /\ invoices[i].status # "none"
  BY <1>1 DEF DeliveryHasInvoice, InvoiceFollowsCall
<1>4. i \in contended \/ granted[i] # 1
  BY <1>3 DEF UncontendedIsSettled
<1> HIDE DEF i
<1>5. \A j \in Buyers : /\ j # i => invoices'[j] = invoices[j]
                        /\ invoices'[i].status = "FAILED"
                        /\ invoices'[i].plan = invoices[i].plan
                        /\ invoices'[i].account = invoices[i].account
  BY <1>1, <1>3 DEF TypeOK
<1>6. TypeOK'
  <2>1. "FAILED" \in {"none", "PENDING", "PAID", "FAILED"}
    OBVIOUS
  <2>2. invoices' \in [Buyers -> [status : {"none", "PENDING", "PAID", "FAILED"},
                                  plan : PlanCodes \union {Null},
                                  account : Callers \union {Null}, alerted : BOOLEAN]]
    BY <1>1, <1>3, <2>1, StatusUpdateType DEF TypeOK
  <2> QED BY <1>1, <1>2, <2>2 DEF TypeOK
<1>7. InvoiceFollowsCall' /\ CallHasAccount'
  BY <1>2, <1>3, <1>5 DEF InvoiceFollowsCall, CallHasAccount
<1>8. DeliveryHasInvoice'
  BY <1>1, <1>2, <1>5 DEF DeliveryHasInvoice, TypeOK
<1>9. OneGrantPerPayment'
  BY <1>2, <1>5 DEF OneGrantPerPayment, Booked
<1>10. \A e \in Deliveries, j \in Buyers : deliveries'[e].invoice = j => deliveries[e].invoice = j
  BY <1>1 DEF TypeOK
<1>11. UncontendedIsSettled'
  BY <1>2, <1>4, <1>5, <1>10 DEF UncontendedIsSettled
<1> QED BY <1>6, <1>7, <1>8, <1>9, <1>11

\* The transaction of a successful payment preserves it.
LEMMA GrantPaidStep == ASSUME PaymentInv, NEW d \in Deliveries, GrantPaid(d) PROVE PaymentInv'
<1> USE BillingAssumption DEF PaymentInv
<1> DEFINE i == deliveries[d].invoice
           plan == invoices[i].plan
           onEvent == PLAN_CATALOG[plan].scope = "EVENT"
<1>1. /\ deliveries[d].pc = "succeeded"
      /\ deliveries' = [deliveries EXCEPT ![d] = [pc |-> "done", invoice |-> Null]]
      /\ UNCHANGED <<apiVars, alertVars, contended>>
  BY DEF GrantPaid, return, Delivered
<1>2. UNCHANGED <<accounts, calls, gateway, old, ticks, mails, faults, contended>>
  BY <1>1 DEF apiVars, alertVars
<1>3. i \in Buyers /\ invoices[i].status # "none"
  BY <1>1 DEF DeliveryHasInvoice, InvoiceFollowsCall
<1>4. \A e \in Deliveries, j \in Buyers :
        deliveries'[e].invoice = j => e # d /\ deliveries[e].invoice = j
  BY <1>1 DEF TypeOK
<1>5. CASE RefusedByKey(i)
  <2>1. UNCHANGED <<invoices, eventGrant, accountGrants, ledger, granted>>
    BY <1>5 DEF GrantPaid
  <2> HIDE DEF i, plan, onEvent
  <2>2. TypeOK'
    BY <1>1, <1>2, <2>1 DEF TypeOK
  <2>3. InvoiceFollowsCall' /\ CallHasAccount'
    BY <1>2, <2>1 DEF InvoiceFollowsCall, CallHasAccount
  <2>4. DeliveryHasInvoice'
    BY <1>1, <1>2, <2>1 DEF DeliveryHasInvoice, TypeOK
  <2>5. OneGrantPerPayment'
    BY <1>2, <2>1 DEF OneGrantPerPayment, Booked
  <2>6. UncontendedIsSettled'
    BY <1>2, <1>4, <2>1 DEF UncontendedIsSettled
  <2> QED BY <2>2, <2>3, <2>4, <2>5, <2>6
<1>6. CASE ~RefusedByKey(i)
  <2>1. /\ invoices' = [invoices EXCEPT ![i].status = "PAID"]
        /\ eventGrant' = IF onEvent THEN plan ELSE eventGrant
        /\ accountGrants' = accountGrants \union
             (IF onEvent THEN {}
              ELSE {[account |-> invoices[i].account, plan |-> plan, by |-> i]})
        /\ ledger' = ledger \union PackCredits(i)
        /\ granted' = [granted EXCEPT ![i] = granted[i] + 1]
    BY <1>6 DEF GrantPaid
  <2>2. plan \in PlanCodes /\ invoices[i].account \in Callers
    BY <1>3 DEF InvoiceFollowsCall
  <2>3. /\ PackCredits(i) \subseteq [book : Books, key : {"trial", "invoice"} \X Callers,
                                     event : BOOLEAN, account : Callers \union {Null}, amount : Nat]
        /\ \A row \in PackCredits(i) : row.key = <<"invoice", i>>
        /\ \E row \in PackCredits(i) : row.book = "sms"
    BY <1>3, PackHasSms
  <2>4. ~Booked("sms", <<"invoice", i>>)
    BY <1>6, <2>3 DEF RefusedByKey
  <2>5. granted[i] = 0
    BY <1>3, <2>4 DEF OneGrantPerPayment
  <2> HIDE DEF i, plan, onEvent
  <2>6. \A j \in Buyers : /\ j # i => invoices'[j] = invoices[j] /\ granted'[j] = granted[j]
                          /\ invoices'[i].status = "PAID" /\ granted'[i] = 1
                          /\ invoices'[i].plan = invoices[i].plan
                          /\ invoices'[i].account = invoices[i].account
    BY <1>3, <2>1, <2>5 DEF TypeOK
  <2>7. \E row \in ledger' : row.book = "sms" /\ row.key = <<"invoice", i>>
    <3>1. PICK row \in PackCredits(i) : row.book = "sms"
      BY <2>3
    <3>2. row \in ledger' /\ row.book = "sms" /\ row.key = <<"invoice", i>>
      BY <2>1, <2>3, <3>1
    <3> QED BY <3>2
  <2>8. \A j \in Buyers \ {i} :
          Booked("sms", <<"invoice", j>>)' <=> Booked("sms", <<"invoice", j>>)
    BY <2>1, <2>3 DEF Booked
  <2>9. TypeOK'
    <3>1. accountGrants' \subseteq [account : Callers, plan : PlanCodes, by : Callers]
      BY <1>3, <2>1, <2>2 DEF TypeOK, Callers
    <3>2. invoices' \in [Buyers -> [status : {"none", "PENDING", "PAID", "FAILED"},
                                    plan : PlanCodes \union {Null},
                                    account : Callers \union {Null}, alerted : BOOLEAN]]
      <4>1. "PAID" \in {"none", "PENDING", "PAID", "FAILED"}
        OBVIOUS
      <4> QED BY <1>3, <2>1, <4>1, StatusUpdateType DEF TypeOK
    <3>3. ledger' \subseteq [book : Books, key : {"trial", "invoice"} \X Callers, event : BOOLEAN,
                             account : Callers \union {Null}, amount : Nat]
      BY <2>1, <2>3 DEF TypeOK
    <3>4. eventGrant' \in PlanCodes \union {Null} /\ granted' \in [Buyers -> Nat]
      BY <1>3, <2>1, <2>2 DEF TypeOK
    <3> QED BY <1>1, <1>2, <3>1, <3>2, <3>3, <3>4 DEF TypeOK
  <2>10. InvoiceFollowsCall' /\ CallHasAccount'
    BY <1>2, <1>3, <2>6 DEF InvoiceFollowsCall, CallHasAccount
  <2>11. DeliveryHasInvoice'
    BY <1>1, <1>2, <2>6 DEF DeliveryHasInvoice, TypeOK
  <2>12. OneGrantPerPayment'
    <3> SUFFICES ASSUME NEW j \in Buyers
                 PROVE  /\ granted'[j] \in {0, 1}
                        /\ granted'[j] = 1 <=> Booked("sms", <<"invoice", j>>)'
                        /\ invoices'[j].status = "PAID" => granted'[j] = 1
      BY <1>2 DEF OneGrantPerPayment
    <3>1. CASE j = i
      BY <1>3, <2>6, <2>7, <3>1 DEF Booked
    <3>2. CASE j # i
      BY <2>6, <2>8, <3>2 DEF OneGrantPerPayment
    <3> QED BY <3>1, <3>2
  <2>13. UncontendedIsSettled'
    <3> SUFFICES ASSUME NEW j \in Buyers, j \notin contended
                 PROVE  /\ \A c, e \in Deliveries :
                             deliveries'[c].invoice = j /\ deliveries'[e].invoice = j => c = e
                        /\ granted'[j] = 1 => invoices'[j].status = "PAID"
                                              /\ \A e \in Deliveries : deliveries'[e].invoice # j
      BY <1>2 DEF UncontendedIsSettled
    <3>1. CASE j = i
      <4>1. \A e \in Deliveries : deliveries[e].invoice = i => e = d
        BY <3>1 DEF UncontendedIsSettled, i
      <4> QED BY <1>4, <2>6, <3>1, <4>1
    <3>2. CASE j # i
      BY <1>4, <2>6, <3>2 DEF UncontendedIsSettled
    <3> QED BY <3>1, <3>2
  <2> QED BY <2>9, <2>10, <2>11, <2>12, <2>13
<1> QED BY <1>5, <1>6

\* Every step of a delivery preserves the invariant.
LEMMA WebhooksStep == PaymentInv /\ Webhooks => PaymentInv'
<1> SUFFICES ASSUME PaymentInv, NEW d \in Deliveries,
                    webhook(d) \/ reconcileInvoice(d) \/ MarkFailed(d) \/ GrantPaid(d)
             PROVE  PaymentInv'
  BY DEF Webhooks
<1>1. CASE webhook(d)
  <2>0. PICK i \in Buyers : \E raw \in Callbacks(i) : Lookup(d, i, verifyAndParseWebhook(raw))
    BY <1>1 DEF webhook
  <2>1. PICK raw \in Callbacks(i) : Lookup(d, i, verifyAndParseWebhook(raw))
    BY <2>0
  <2>2. invoices[i].status # "none"
    BY <2>1 DEF Callbacks
  <2>3. verifyAndParseWebhook(raw) \in {"failed", "succeeded"}
    BY DEF verifyAndParseWebhook
  <2> QED BY <2>1, <2>2, <2>3, LookupStep
<1>2. CASE reconcileInvoice(d)
  <2>1. PICK i \in Buyers : gateway[i] = "SUCCESSFUL" /\ Lookup(d, i, "succeeded")
    BY <1>2 DEF reconcileInvoice
  <2>2. invoices[i].status # "none"
    BY <2>1 DEF InvoiceFollowsCall, PaymentInv
  <2> QED BY <2>1, <2>2, LookupStep
<1> QED BY <1>1, <1>2, MarkFailedStep, GrantPaidStep

\* Marking an invoice as alerted keeps the rest of its row.
LEMMA AlertedRowType ==
  ASSUME NEW S, NEW P, NEW A, NEW before \in [status : S, plan : P, account : A, alerted : BOOLEAN],
         NEW row, row = [before EXCEPT !.alerted = TRUE]
  PROVE  /\ row \in [status : S, plan : P, account : A, alerted : BOOLEAN]
         /\ row.status = before.status /\ row.plan = before.plan /\ row.account = before.account
OBVIOUS

\* An alert step changes nothing of a payment but the mark of an alert.
LEMMA AlertStep ==
  ASSUME PaymentInv, (\E i \in Buyers : Age(i)) \/ (\E w \in Workers : Tick(w) \/ TickFails(w))
  PROVE  PaymentInv'
<1> USE BillingAssumption DEF PaymentInv
<1>1. /\ UNCHANGED <<accounts, calls, gateway, eventGrant, accountGrants, ledger, granted,
                     deliveries, contended>>
      /\ old' \subseteq Buyers
      /\ faults' \in 0 .. MaxFaults
  BY DEF Age, Tick, FindStuck, MailAlert, markStuckAlertSent, TickFails, apiVars, bookVars, hookVars,
         TypeOK
<1>2. ticks' \in [Workers -> [pc : {"idle", "mail", "mark"}, batch : SUBSET Buyers]]
  <2> DEFINE TickType == [pc : {"idle", "mail", "mark"}, batch : SUBSET Buyers]
  <2>1. ticks \in [Workers -> TickType]
    BY DEF TypeOK
  <2>2. Stuck \in SUBSET Buyers
    BY DEF Stuck, TypeOK
  <2>3. [pc |-> "mail", batch |-> Stuck] \in TickType /\ [pc |-> "idle", batch |-> {}] \in TickType
    BY <2>2
  <2>4. \A w \in Workers : [ticks[w] EXCEPT !.pc = "mark"] \in TickType
    BY <2>1
  <2> HIDE DEF TickType
  <2>5. \A w \in Workers : FindStuck(w) \/ markStuckAlertSent(w) \/ TickFails(w) => ticks' \in [Workers -> TickType]
    BY <2>1, <2>3 DEF FindStuck, markStuckAlertSent, TickFails
  <2>6. \A w \in Workers : MailAlert(w) => ticks' \in [Workers -> TickType]
    BY <2>1, <2>4 DEF MailAlert
  <2>7. \A i \in Buyers : Age(i) => ticks' \in [Workers -> TickType]
    BY <2>1 DEF Age
  <2>8. ticks' \in [Workers -> TickType]
    BY <2>5, <2>6, <2>7 DEF Tick
  <2> QED BY <2>8 DEF TickType
<1>3. mails' \in [Buyers -> Nat]
  <2>1. \A w \in Workers : MailAlert(w) => mails' \in [Buyers -> Nat]
    BY DEF MailAlert, TypeOK
  <2>2. mails' = mails \/ \E w \in Workers : MailAlert(w)
    BY DEF Age, Tick, FindStuck, markStuckAlertSent, TickFails
  <2> QED BY <2>1, <2>2 DEF TypeOK
<1>4. invoices' \in [Buyers -> [status : {"none", "PENDING", "PAID", "FAILED"},
                                plan : PlanCodes \union {Null},
                                account : Callers \union {Null}, alerted : BOOLEAN]]
      /\ \A i \in Buyers : /\ invoices'[i].status = invoices[i].status
                           /\ invoices'[i].plan = invoices[i].plan
                           /\ invoices'[i].account = invoices[i].account
  <2>1. CASE UNCHANGED invoices
    BY <2>1 DEF TypeOK
  <2>2. ASSUME NEW w \in Workers, markStuckAlertSent(w)
        PROVE  \A i \in Buyers : invoices'[i] \in {invoices[i], [invoices[i] EXCEPT !.alerted = TRUE]}
    BY <2>2 DEF markStuckAlertSent
  <2>3. ASSUME NEW w \in Workers, markStuckAlertSent(w)
        PROVE  invoices' = [i \in Buyers |-> invoices'[i]]
    BY <2>3 DEF markStuckAlertSent
  <2> DEFINE Row == [status : {"none", "PENDING", "PAID", "FAILED"}, plan : PlanCodes \union {Null},
                     account : Callers \union {Null}, alerted : BOOLEAN]
  <2>4. \A i \in Buyers : invoices[i] \in Row
    BY DEF TypeOK
  <2>5. ASSUME NEW i \in Buyers, NEW row, row = [invoices[i] EXCEPT !.alerted = TRUE]
        PROVE  /\ row \in Row
               /\ row.status = invoices[i].status /\ row.plan = invoices[i].plan
               /\ row.account = invoices[i].account
    <3>1. invoices[i] \in Row
      BY <2>4
    <3> QED BY <2>5, <3>1, AlertedRowType, Zenon
  <2> HIDE DEF Row
  <2>6. CASE \E w \in Workers : markStuckAlertSent(w)
    <3>1. \A i \in Buyers : invoices'[i] \in {invoices[i], [invoices[i] EXCEPT !.alerted = TRUE]}
      BY <2>2, <2>6
    <3>2. \A i \in Buyers : /\ invoices'[i] \in Row
                            /\ invoices'[i].status = invoices[i].status
                            /\ invoices'[i].plan = invoices[i].plan
                            /\ invoices'[i].account = invoices[i].account
      BY <2>4, <2>5, <3>1
    <3> QED BY <2>3, <2>6, <3>2 DEF Row
  <2> QED BY <2>1, <2>6 DEF Age, Tick, FindStuck, MailAlert, TickFails
<1>5. TypeOK'
  BY <1>1, <1>2, <1>3, <1>4 DEF TypeOK
<1>6. InvoiceFollowsCall' /\ CallHasAccount'
  BY <1>1, <1>4 DEF InvoiceFollowsCall, CallHasAccount
<1>7. DeliveryHasInvoice'
  BY <1>1, <1>4 DEF DeliveryHasInvoice
<1>8. OneGrantPerPayment'
  BY <1>1, <1>4 DEF OneGrantPerPayment, Booked
<1>9. UncontendedIsSettled'
  BY <1>1, <1>4 DEF UncontendedIsSettled
<1> QED BY <1>5, <1>6, <1>7, <1>8, <1>9

\* A step that changes nothing preserves it.
LEMMA PaymentStutter == PaymentInv /\ UNCHANGED vars => PaymentInv'
<1> SUFFICES ASSUME PaymentInv, UNCHANGED vars PROVE PaymentInv'
  OBVIOUS
<1>1. UNCHANGED <<accounts, invoices, eventGrant, accountGrants, ledger, calls, deliveries, gateway,
                  old, ticks, mails, faults, granted, contended>>
  BY DEF vars, apiVars, bookVars, alertVars, hookVars
<1>2. TypeOK'
  BY <1>1 DEF PaymentInv, TypeOK
<1>3. InvoiceFollowsCall' /\ CallHasAccount' /\ DeliveryHasInvoice'
  BY <1>1 DEF PaymentInv, InvoiceFollowsCall, CallHasAccount, DeliveryHasInvoice
<1>4. OneGrantPerPayment' /\ UncontendedIsSettled'
  BY <1>1 DEF PaymentInv, OneGrantPerPayment, UncontendedIsSettled, Booked
<1> QED BY <1>2, <1>3, <1>4 DEF PaymentInv

\* The invariant holds in every reachable state.
THEOREM PaymentInvariance == Spec => []PaymentInv
<1>1. PaymentInv /\ [Next]_vars => PaymentInv'
  BY ApiStep, GatewayStep, WebhooksStep, AlertStep, PaymentStutter DEF Next
<1> QED BY <1>1, PaymentInit, PTL DEF Spec

\* Every variable keeps its type.
THEOREM BillingTypes == Spec => []TypeOK
<1>1. PaymentInv => TypeOK
  BY DEF PaymentInv
<1> QED BY <1>1, PaymentInvariance, PTL

\* Whatever the callbacks say, and however they and an administrator's
\* reconciliation interleave and repeat, an invoice is granted at most once, its
\* credits exist exactly when it is granted, and it is not PAID without.
THEOREM GrantedOnce == Spec => []OneGrantPerPayment
<1>1. PaymentInv => OneGrantPerPayment
  BY DEF PaymentInv
<1> QED BY <1>1, PaymentInvariance, PTL

\* Only overlapping deliveries can take a granted invoice's PAID status away.
THEOREM PaymentIsFinal == Spec => []UncontendedPaymentIsFinal
<1>1. PaymentInv => UncontendedPaymentIsFinal
  BY DEF PaymentInv, UncontendedIsSettled, UncontendedPaymentIsFinal
<1> QED BY <1>1, PaymentInvariance, PTL

-----------------------------------------------------------------------------
(* Alerts.                                                                 *)

\* Workers whose tick is to mail about an invoice, and those that have mailed
\* about it and are to mark it.
Mailing(i) == {w \in Workers : ticks[w].pc = "mail" /\ i \in ticks[w].batch}
Marking(i) == {w \in Workers : ticks[w].pc = "mark" /\ i \in ticks[w].batch}

\* Until an invoice is marked, each mail about it has a worker about to mark it
\* or a failed tick to its name; from then on no worker takes it up, and the
\* mails to come are those of the ticks that already have.
AlertInv ==
  /\ \A i \in Buyers :
       /\ invoices[i].status = "none" => ~invoices[i].alerted
       /\ ~invoices[i].alerted => mails[i] <= Cardinality(Marking(i)) + faults
       /\ invoices[i].alerted =>
            mails[i] + Cardinality(Mailing(i)) <= Cardinality(Workers) + faults
  /\ \A w \in Workers : \A i \in ticks[w].batch : invoices[i].status # "none"


\* The two sets are disjoint sets of workers.
LEMMA AlertSets ==
  ASSUME NEW i \in Buyers
  PROVE  /\ IsFiniteSet(Mailing(i)) /\ IsFiniteSet(Marking(i))
         /\ Cardinality(Mailing(i)) \in Nat /\ Cardinality(Marking(i)) \in Nat
         /\ Cardinality(Workers) \in Nat
         /\ Cardinality(Mailing(i)) + Cardinality(Marking(i)) <= Cardinality(Workers)
<1>1. Mailing(i) \in SUBSET Workers /\ Marking(i) \in SUBSET Workers
  BY DEF Mailing, Marking
<1>2. IsFiniteSet(Workers)
  BY BillingAssumption
<1>3. IsFiniteSet(Mailing(i)) /\ IsFiniteSet(Marking(i))
  BY <1>1, <1>2, FS_Subset
<1>4. Mailing(i) \cap Marking(i) = {} /\ Mailing(i) \cup Marking(i) \in SUBSET Workers
  BY DEF Mailing, Marking
<1>5. Cardinality(Mailing(i) \cup Marking(i)) <= Cardinality(Workers)
  BY <1>2, <1>4, FS_Subset
<1>6. Cardinality(Mailing(i) \cup Marking(i)) =
        Cardinality(Mailing(i)) + Cardinality(Marking(i)) - Cardinality(Mailing(i) \cap Marking(i))
  BY <1>3, FS_Union
<1>7. Cardinality(Mailing(i) \cap Marking(i)) = 0
  BY <1>4, FS_EmptySet
<1>8. Cardinality(Mailing(i)) \in Nat /\ Cardinality(Marking(i)) \in Nat /\ Cardinality(Workers) \in Nat
  BY <1>2, <1>3, FS_CardinalityType
<1> QED BY <1>3, <1>5, <1>6, <1>7, <1>8

\* A step that leaves the ticks, the mails and the marks alone.
LEMMA AlertFrame ==
  ASSUME AlertInv, TypeOK, UNCHANGED <<ticks, mails, faults>>,
         \A i \in Buyers : /\ invoices'[i].status = "none" => invoices[i].status = "none"
                           /\ invoices'[i].alerted = invoices[i].alerted
  PROVE  AlertInv'
<1>1. \A i \in Buyers : Mailing(i)' = Mailing(i) /\ Marking(i)' = Marking(i)
  BY DEF Mailing, Marking
<1>2. \A w \in Workers : ticks[w].batch \subseteq Buyers
  BY DEF TypeOK
<1> QED BY <1>1, <1>2 DEF AlertInv

\* The steps of the API, of the gateway and of deliveries are such steps.
LEMMA OtherStepsKeepAlerts == PaymentInv /\ AlertInv /\ (Api \/ Gateway \/ Webhooks) => AlertInv'
<1> SUFFICES ASSUME PaymentInv, AlertInv, Api \/ Gateway \/ Webhooks PROVE AlertInv'
  OBVIOUS
<1> USE DEF PaymentInv
<1>1. ASSUME UNCHANGED <<invoices, alertVars>> PROVE AlertInv'
  BY <1>1, AlertFrame DEF alertVars
<1>2. ASSUME NEW c \in Buyers, NEW plan \in Wanted[c], charge(c, plan) PROVE AlertInv'
  <2>1. /\ calls[c].pc = "invoice" /\ UNCHANGED alertVars
        /\ invoices' = [invoices EXCEPT ![c] =
             [status |-> "PENDING", plan |-> plan, account |-> calls[c].account, alerted |-> FALSE]]
    BY <1>2 DEF charge
  <2>2. invoices[c].alerted = FALSE
    BY <2>1 DEF InvoiceFollowsCall, AlertInv, TypeOK
  <2>3. \A i \in Buyers : /\ invoices'[i].status = "none" => invoices[i].status = "none"
                          /\ invoices'[i].alerted = invoices[i].alerted
    BY <2>1, <2>2 DEF TypeOK
  <2> QED BY <2>1, <2>3, AlertFrame DEF alertVars
<1>3. ASSUME NEW d \in Deliveries, MarkFailed(d) \/ GrantPaid(d) PROVE AlertInv'
  <2> DEFINE i == deliveries[d].invoice
  <2>1. i \in Buyers
    BY <1>3 DEF MarkFailed, GrantPaid, DeliveryHasInvoice
  <2>2. /\ UNCHANGED alertVars
        /\ \/ invoices' = invoices
           \/ \E status \in {"PAID", "FAILED"} : invoices' = [invoices EXCEPT ![i].status = status]
    BY <1>3 DEF MarkFailed, GrantPaid
  <2> HIDE DEF i
  <2>3. \A j \in Buyers : /\ invoices'[j].status = "none" => invoices[j].status = "none"
                          /\ invoices'[j].alerted = invoices[j].alerted
    <3>1. CASE invoices' = invoices
      BY <3>1
    <3>2. ASSUME NEW status \in {"PAID", "FAILED"}, invoices' = [invoices EXCEPT ![i].status = status]
          PROVE  /\ invoices'[i].status = status /\ invoices'[i].alerted = invoices[i].alerted
                 /\ \A j \in Buyers \ {i} : invoices'[j] = invoices[j]
      <4>1. invoices \in [Buyers -> [status : {"none", "PENDING", "PAID", "FAILED"},
                                     plan : PlanCodes \union {Null},
                                     account : Callers \union {Null}, alerted : BOOLEAN]]
        BY DEF TypeOK
      <4> QED BY ONLY <2>1, <3>2, <4>1
    <3> QED BY <2>2, <3>1, <3>2
  <2> QED BY <2>2, <2>3, AlertFrame DEF alertVars
<1>4. \/ UNCHANGED <<invoices, alertVars>>
      \/ \E c \in Buyers : \E plan \in Wanted[c] : charge(c, plan)
      \/ \E d \in Deliveries : MarkFailed(d) \/ GrantPaid(d)
  BY DEF Api, FindAccount, CreateAccount, TrialGrant, TrialCredits, Gateway, Collect, Webhooks,
         webhook, reconcileInvoice, Lookup
<1> QED BY <1>1, <1>2, <1>3, <1>4

\* What one worker's tick changes of the two sets of an invoice.
LEMMA TickSets ==
  ASSUME TypeOK, NEW w \in Workers, NEW t \in [pc : {"idle", "mail", "mark"}, batch : SUBSET Buyers],
         ticks' = [ticks EXCEPT ![w] = t], NEW i \in Buyers
  PROVE  /\ Mailing(i)' = (IF t.pc = "mail" /\ i \in t.batch
                           THEN Mailing(i) \cup {w} ELSE Mailing(i) \ {w})
         /\ Marking(i)' = (IF t.pc = "mark" /\ i \in t.batch
                           THEN Marking(i) \cup {w} ELSE Marking(i) \ {w})
<1>1. ticks'[w] = t /\ \A v \in Workers \ {w} : ticks'[v] = ticks[v]
  BY DEF TypeOK
<1> QED BY <1>1 DEF Mailing, Marking


\* Every step keeps the mails within their bound.
LEMMA AlertNext == PaymentInv /\ AlertInv /\ [Next]_vars => AlertInv'
<1> SUFFICES ASSUME PaymentInv, AlertInv, [Next]_vars PROVE AlertInv'
  OBVIOUS
<1> USE BillingAssumption DEF PaymentInv
<1> DEFINE TickType == [pc : {"idle", "mail", "mark"}, batch : SUBSET Buyers]
<1>0. /\ ticks \in [Workers -> TickType] /\ faults \in Nat /\ mails \in [Buyers -> Nat]
      /\ \A i \in Buyers : invoices[i].alerted \in BOOLEAN
  BY DEF TypeOK
<1>1. ASSUME NEW i \in Buyers, Age(i) PROVE AlertInv'
  BY <1>1, AlertFrame DEF Age
<1>2. ASSUME NEW w \in Workers, FindStuck(w) PROVE AlertInv'
  <2> DEFINE t == [pc |-> "mail", batch |-> Stuck]
  <2>1. /\ ticks[w].pc = "idle" /\ UNCHANGED <<mails, faults, invoices>>
        /\ ticks' = [ticks EXCEPT ![w] = t]
    BY <1>2 DEF FindStuck
  <2>2. Stuck \in SUBSET Buyers
    BY DEF Stuck, TypeOK
  <2>3. t \in TickType /\ t.pc = "mail" /\ t.batch = Stuck
    BY <2>2
  <2> HIDE DEF t
  <2>4. \A i \in Buyers : Marking(i)' = Marking(i) \ {w}
                          /\ Mailing(i)' = IF i \in Stuck THEN Mailing(i) \cup {w} ELSE Mailing(i) \ {w}
    BY <2>1, <2>3, TickSets
  <2>5. \A i \in Buyers : w \notin Marking(i) /\ w \notin Mailing(i)
    BY <2>1 DEF Marking, Mailing
  <2>6. \A i \in Buyers : /\ Marking(i)' = Marking(i)
                          /\ i \notin Stuck => Mailing(i)' = Mailing(i)
    BY <2>4, <2>5
  <2>7. \A i \in Stuck : ~invoices[i].alerted /\ invoices[i].status # "none"
    BY DEF Stuck
  <2>8. ASSUME NEW v \in Workers, NEW i \in ticks'[v].batch PROVE invoices[i].status # "none"
    BY <1>0, <2>1, <2>3, <2>7, <2>8 DEF AlertInv
  <2> HIDE DEF TickType
  <2> QED BY <2>1, <2>6, <2>7, <2>8 DEF AlertInv
<1>3. ASSUME NEW w \in Workers, MailAlert(w) PROVE AlertInv'
  <2> DEFINE t == [ticks[w] EXCEPT !.pc = "mark"]
  <2>1. /\ ticks[w].pc = "mail" /\ UNCHANGED <<faults, invoices>>
        /\ mails' = [i \in Buyers |-> mails[i] + IF i \in ticks[w].batch THEN 1 ELSE 0]
        /\ ticks' = [ticks EXCEPT ![w] = t]
    BY <1>0, <1>3 DEF MailAlert
  <2>2. t \in TickType /\ t.pc = "mark" /\ t.batch = ticks[w].batch
    BY <1>0
  <2> HIDE DEF t
  <2>3. \A i \in Buyers :
          /\ Mailing(i)' = Mailing(i) \ {w}
          /\ Marking(i)' = IF i \in ticks[w].batch THEN Marking(i) \cup {w} ELSE Marking(i) \ {w}
    BY <2>1, <2>2, TickSets
  <2>4. \A i \in Buyers : w \notin Marking(i) /\ (w \in Mailing(i) <=> i \in ticks[w].batch)
    BY <2>1 DEF Marking, Mailing
  <2>5. ASSUME NEW i \in Buyers
        PROVE  /\ ~invoices[i].alerted => mails'[i] <= Cardinality(Marking(i)') + faults
               /\ invoices[i].alerted =>
                    mails'[i] + Cardinality(Mailing(i)') <= Cardinality(Workers) + faults
    <3>1. CASE i \in ticks[w].batch
      <4>1. Cardinality(Marking(i)') = Cardinality(Marking(i)) + 1
            /\ Cardinality(Mailing(i)') = Cardinality(Mailing(i)) - 1
        <5>1. IsFiniteSet(Marking(i)) /\ IsFiniteSet(Mailing(i))
          BY AlertSets
        <5>2. Cardinality(Marking(i) \cup {w}) = Cardinality(Marking(i)) + 1
          BY <2>4, <5>1, FS_AddElement
        <5>3. Cardinality(Mailing(i) \ {w}) = Cardinality(Mailing(i)) - 1
          BY <2>4, <3>1, <5>1, FS_RemoveElement
        <5> QED BY <2>3, <3>1, <5>2, <5>3
      <4>2. mails'[i] = mails[i] + 1
        BY <2>1, <3>1
      <4> QED BY <1>0, <4>1, <4>2, AlertSets DEF AlertInv
    <3>2. CASE i \notin ticks[w].batch
      <4>1. Marking(i)' = Marking(i) \ {w} /\ Mailing(i)' = Mailing(i) \ {w}
        BY <2>3, <3>2
      <4>2. w \notin Marking(i) /\ w \notin Mailing(i)
        BY <2>4, <3>2
      <4>3. Marking(i)' = Marking(i) /\ Mailing(i)' = Mailing(i)
        BY <4>1, <4>2
      <4>4. mails'[i] = mails[i]
        BY <1>0, <2>1, <3>2
      <4> QED BY <4>3, <4>4 DEF AlertInv
    <3> QED BY <3>1, <3>2
  <2>6. \A v \in Workers : ticks'[v].batch = ticks[v].batch
    BY <1>0, <2>1, <2>2
  <2> QED BY <2>1, <2>5, <2>6 DEF AlertInv
<1>4. ASSUME NEW w \in Workers, markStuckAlertSent(w) PROVE AlertInv'
  <2> DEFINE t == [pc |-> "idle", batch |-> {}]
  <2>1. /\ ticks[w].pc = "mark" /\ UNCHANGED <<mails, faults>>
        /\ invoices' = [i \in Buyers |-> IF i \in ticks[w].batch
                          THEN [invoices[i] EXCEPT !.alerted = TRUE] ELSE invoices[i]]
        /\ ticks' = [ticks EXCEPT ![w] = t]
    BY <1>4 DEF markStuckAlertSent
  <2>2. t \in TickType /\ t.pc = "idle" /\ t.batch = {}
    OBVIOUS
  <2> HIDE DEF t
  <2>3. \A i \in Buyers : Mailing(i)' = Mailing(i) \ {w} /\ Marking(i)' = Marking(i) \ {w}
    BY <2>1, <2>2, TickSets
  <2>4. \A i \in Buyers : w \notin Mailing(i) /\ (w \in Marking(i) => i \in ticks[w].batch)
    BY <2>1 DEF Marking, Mailing
  <2>5. \A i \in Buyers : Mailing(i)' = Mailing(i)
                          /\ (i \notin ticks[w].batch => Marking(i)' = Marking(i))
    BY <2>3, <2>4
  <2>6. \A i \in Buyers : IF i \in ticks[w].batch
                          THEN invoices'[i].alerted /\ invoices'[i].status = invoices[i].status
                          ELSE invoices'[i] = invoices[i]
    <3>1. invoices \in [Buyers -> [status : {"none", "PENDING", "PAID", "FAILED"},
                                   plan : PlanCodes \union {Null},
                                   account : Callers \union {Null}, alerted : BOOLEAN]]
      BY DEF TypeOK
    <3> QED BY ONLY <2>1, <3>1
  <2>7. \A i \in Buyers : mails[i] + Cardinality(Mailing(i)) <= Cardinality(Workers) + faults
    <3> TAKE i \in Buyers
    <3>1. CASE ~invoices[i].alerted
      <4>1. mails[i] <= Cardinality(Marking(i)) + faults
        BY <3>1 DEF AlertInv
      <4> QED BY <1>0, <4>1, AlertSets
    <3>2. CASE invoices[i].alerted
      BY <3>2 DEF AlertInv
    <3> QED BY <3>1, <3>2
  <2>8. ASSUME NEW i \in Buyers
        PROVE  /\ invoices'[i].status = "none" => ~invoices'[i].alerted
               /\ ~invoices'[i].alerted => mails[i] <= Cardinality(Marking(i)') + faults
               /\ invoices'[i].alerted =>
                    mails[i] + Cardinality(Mailing(i)') <= Cardinality(Workers) + faults
    <3>1. CASE i \in ticks[w].batch
      <4>1. invoices[i].status # "none"
        BY <3>1 DEF AlertInv
      <4> QED BY <2>5, <2>6, <2>7, <3>1, <4>1
    <3>2. CASE i \notin ticks[w].batch
      BY <2>5, <2>6, <3>2 DEF AlertInv
    <3> QED BY <3>1, <3>2
  <2>9. ASSUME NEW v \in Workers, NEW i \in ticks'[v].batch PROVE invoices'[i].status # "none"
    <3>1. v # w /\ i \in ticks[v].batch /\ i \in Buyers
      BY <1>0, <2>1, <2>2, <2>9
    <3> QED BY <2>6, <3>1 DEF AlertInv
  <2> QED BY <2>1, <2>8, <2>9 DEF AlertInv
<1>5. ASSUME NEW w \in Workers, TickFails(w) PROVE AlertInv'
  <2> DEFINE t == [pc |-> "idle", batch |-> {}]
  <2>1. /\ faults' = faults + 1 /\ UNCHANGED <<mails, invoices>>
        /\ ticks' = [ticks EXCEPT ![w] = t]
    BY <1>5 DEF TickFails
  <2>2. t \in TickType /\ t.pc = "idle" /\ t.batch = {}
    OBVIOUS
  <2> HIDE DEF t
  <2>3. \A i \in Buyers : Mailing(i)' = Mailing(i) \ {w} /\ Marking(i)' = Marking(i) \ {w}
    BY <2>1, <2>2, TickSets
  <2>4. \A i \in Buyers : /\ Cardinality(Mailing(i)') <= Cardinality(Mailing(i))
                          /\ Cardinality(Marking(i)') >= Cardinality(Marking(i)) - 1
                          /\ Cardinality(Mailing(i)') \in Int /\ Cardinality(Marking(i)') \in Int
    <3> TAKE i \in Buyers
    <3>1. /\ IsFiniteSet(Marking(i)) /\ IsFiniteSet(Mailing(i))
          /\ Cardinality(Marking(i)) \in Nat /\ Cardinality(Mailing(i)) \in Nat
      BY AlertSets
    <3>2. Cardinality(Marking(i) \ {w}) \in {Cardinality(Marking(i)), Cardinality(Marking(i)) - 1}
      BY <3>1, FS_RemoveElement
    <3>3. Cardinality(Mailing(i) \ {w}) \in {Cardinality(Mailing(i)), Cardinality(Mailing(i)) - 1}
      BY <3>1, FS_RemoveElement
    <3>4. /\ Cardinality(Mailing(i)') = Cardinality(Mailing(i) \ {w})
          /\ Cardinality(Marking(i)') = Cardinality(Marking(i) \ {w})
      BY <2>3
    <3> QED BY ONLY <3>1, <3>2, <3>3, <3>4
  <2>5. ASSUME NEW i \in Buyers
        PROVE  /\ ~invoices[i].alerted => mails[i] <= Cardinality(Marking(i)') + faults'
               /\ invoices[i].alerted =>
                    mails[i] + Cardinality(Mailing(i)') <= Cardinality(Workers) + faults'
    BY <1>0, <2>1, <2>4, AlertSets DEF AlertInv
  <2>6. \A v \in Workers : ticks'[v].batch \subseteq ticks[v].batch
    BY <1>0, <2>1, <2>2
  <2> QED BY <2>1, <2>5, <2>6 DEF AlertInv
<1>6. CASE UNCHANGED vars
  BY <1>6, AlertFrame DEF vars, alertVars
<1> QED
  BY <1>1, <1>2, <1>3, <1>4, <1>5, <1>6, OtherStepsKeepAlerts DEF Next, Tick

\* The alerts about an invoice are at most one per worker and one per tick that
\* failed between its mail and its mark.
THEOREM AlertsStayBounded == Spec => []AlertsAreBounded
<1>1. Init => AlertInv
  <2> SUFFICES ASSUME Init PROVE AlertInv
    OBVIOUS
  <2>1. \A i \in Buyers : Marking(i) = {}
    BY DEF Init, Marking
  <2>2. \A i \in Buyers : Cardinality(Marking(i)) = 0
    BY <2>1, FS_EmptySet
  <2>3. \A w \in Workers : ticks[w].batch = {}
    BY DEF Init
  <2>4. \A i \in Buyers : invoices[i].alerted = FALSE /\ mails[i] = 0 /\ faults = 0
    BY DEF Init, NoInvoice
  <2> QED BY <2>2, <2>3, <2>4 DEF AlertInv
<1>2. PaymentInv /\ AlertInv => AlertsAreBounded
  <2> SUFFICES ASSUME PaymentInv, AlertInv, NEW i \in Buyers
               PROVE  mails[i] <= Cardinality(Workers) + faults
    BY DEF AlertsAreBounded
  <2>1. mails[i] \in Nat /\ faults \in Nat /\ invoices[i].alerted \in BOOLEAN
    BY BillingAssumption DEF PaymentInv, TypeOK
  <2> QED BY <2>1, AlertSets DEF AlertInv
<1> QED BY <1>1, <1>2, AlertNext, PaymentInvariance, PTL DEF Spec

-----------------------------------------------------------------------------
(* What is enjoyed.                                                        *)

\* An account somebody uses, owes for or was granted something on is a row of
\* billing_account, and a paid subscription has its grant.
Accounts == {accounts[k] : k \in 1 .. Len(accounts)}

EnjoyInv ==
  /\ \A c \in Callers : calls[c].account # Null => calls[c].account \in Accounts
  /\ \A i \in Buyers : invoices[i].account # Null => invoices[i].account \in Accounts
  /\ \A i \in Buyers : granted[i] = 1 /\ PLAN_CATALOG[invoices[i].plan].scope # "EVENT" =>
       [account |-> invoices[i].account, plan |-> invoices[i].plan, by |-> i] \in accountGrants


\* A step that leaves accounts, invoices but for their status and marks, and
\* grants alone.
LEMMA EnjoyFrame ==
  ASSUME EnjoyInv, UNCHANGED <<accounts, granted>>, accountGrants \subseteq accountGrants',
         \A c \in Callers : calls'[c].account \in {calls[c].account, Null} \cup Accounts,
         \A i \in Buyers : invoices'[i].plan = invoices[i].plan
                           /\ invoices'[i].account = invoices[i].account
  PROVE  EnjoyInv'
<1>1. Accounts' = Accounts
  BY DEF Accounts
<1> QED BY <1>1 DEF EnjoyInv

\* Every step preserves it.
LEMMA EnjoyNext == PaymentInv /\ EnjoyInv /\ [Next]_vars => EnjoyInv'
<1> SUFFICES ASSUME PaymentInv, EnjoyInv, [Next]_vars PROVE EnjoyInv'
  OBVIOUS
<1> USE BillingAssumption DEF PaymentInv, Callers
<1>0. calls \in [Callers -> [pc : {"start", "create", "grant", "sms", "ai", "invoice", "done"},
                             account : Callers \union {Null}]]
  BY DEF TypeOK
<1>1. ASSUME NEW c \in Callers, FindAccount(c) PROVE EnjoyInv'
  <2>1. UNCHANGED <<accounts, invoices, granted, accountGrants>>
    BY <1>1 DEF FindAccount, bookVars
  <2>2. accounts # <<>> => Head(accounts) \in Accounts
    <3> SUFFICES ASSUME accounts # <<>> PROVE Head(accounts) \in Accounts
      OBVIOUS
    <3>1. Head(accounts) = accounts[1] /\ 1 \in 1 .. Len(accounts)
      BY DEF TypeOK
    <3> QED BY <3>1 DEF Accounts
  <2>3. \E pc, a : a \in {Null} \cup Accounts
                   /\ calls' = [calls EXCEPT ![c] = [pc |-> pc, account |-> a]]
    BY <1>1, <2>2 DEF FindAccount, goto
  <2>4. \A e \in Callers : calls'[e].account \in {calls[e].account, Null} \cup Accounts
    BY <1>0, <2>3
  <2> QED BY <2>1, <2>4, EnjoyFrame
<1>2. ASSUME NEW c \in Callers, CreateAccount(c) PROVE EnjoyInv'
  <2>1. /\ UNCHANGED <<invoices, granted, accountGrants>> /\ accounts' = Append(accounts, c)
        /\ calls' = [calls EXCEPT ![c] = [pc |-> AfterAccount(c), account |-> c]]
    BY <1>2 DEF CreateAccount, goto, bookVars
  <2>2. Accounts \subseteq Accounts' /\ c \in Accounts'
    <3>1. /\ Len(accounts') = Len(accounts) + 1 /\ Len(accounts) \in Nat
          /\ \A k \in 1 .. Len(accounts) : accounts'[k] = accounts[k]
          /\ accounts'[Len(accounts) + 1] = c
      BY <2>1 DEF TypeOK
    <3> QED BY <3>1 DEF Accounts
  <2>3. \A e \in Callers : calls'[e].account # Null =>
          calls'[e].account = c \/ calls'[e].account = calls[e].account
    BY <1>0, <2>1
  <2> QED BY <2>1, <2>2, <2>3 DEF EnjoyInv
<1>3. ASSUME TrialGrant PROVE EnjoyInv'
  <2>1. /\ UNCHANGED <<accounts, invoices, granted>> /\ accountGrants \subseteq accountGrants'
        /\ calls' = [calls EXCEPT ![Signup] = [pc |-> "sms", account |-> calls[Signup].account]]
    BY <1>3 DEF TrialGrant, goto
  <2>2. \A e \in Callers : calls'[e].account \in {calls[e].account, Null} \cup Accounts
    BY <1>0, <2>1
  <2> QED BY <2>1, <2>2, EnjoyFrame
<1>4. ASSUME NEW book \in Books, TrialCredits(book) PROVE EnjoyInv'
  <2>1. /\ UNCHANGED <<accounts, invoices, granted, accountGrants>>
        /\ \E pc, a : a \in {calls[Signup].account, Null}
                      /\ calls' = [calls EXCEPT ![Signup] = [pc |-> pc, account |-> a]]
    BY <1>4 DEF TrialCredits, goto
  <2>2. \A e \in Callers : calls'[e].account \in {calls[e].account, Null} \cup Accounts
    BY <1>0, <2>1
  <2> QED BY <2>1, <2>2, EnjoyFrame
<1>5. ASSUME NEW c \in Buyers, NEW plan \in Wanted[c], charge(c, plan) PROVE EnjoyInv'
  <2>1. /\ UNCHANGED <<accounts, granted, accountGrants>> /\ calls[c].pc = "invoice"
        /\ invoices' = [invoices EXCEPT ![c] =
             [status |-> "PENDING", plan |-> plan, account |-> calls[c].account, alerted |-> FALSE]]
        /\ calls' = [calls EXCEPT ![c] = [pc |-> "done", account |-> Null]]
    BY <1>5 DEF charge, goto, bookVars
  <2>2. granted[c] = 0
    BY <2>1 DEF InvoiceFollowsCall
  <2>3. Accounts' = Accounts
    BY <2>1 DEF Accounts
  <2>4. \A e \in Callers : calls'[e].account \in {calls[e].account, Null}
    BY <1>0, <2>1
  <2>5. /\ invoices'[c].account = calls[c].account
        /\ \A i \in Buyers \ {c} : invoices'[i] = invoices[i]
    BY <2>1 DEF TypeOK
  <2> QED BY <2>1, <2>2, <2>3, <2>4, <2>5 DEF EnjoyInv
<1>6. ASSUME NEW d \in Deliveries, MarkFailed(d) PROVE EnjoyInv'
  <2> DEFINE i == deliveries[d].invoice
  <2>1. /\ UNCHANGED <<accounts, granted, accountGrants, calls>>
        /\ invoices' = [invoices EXCEPT ![i].status = "FAILED"]
    BY <1>6 DEF MarkFailed, apiVars, bookVars
  <2>2. \A j \in Buyers : invoices'[j].plan = invoices[j].plan
                          /\ invoices'[j].account = invoices[j].account
    <3> HIDE DEF i
    <3> QED BY <2>1 DEF TypeOK
  <2>3. \A e \in Callers : calls'[e].account \in {calls[e].account, Null} \cup Accounts
    BY <2>1
  <2> QED BY <2>1, <2>2, <2>3, EnjoyFrame
<1>7. ASSUME NEW d \in Deliveries, GrantPaid(d) PROVE EnjoyInv'
  <2> DEFINE i == deliveries[d].invoice
             grant == [account |-> invoices[i].account, plan |-> invoices[i].plan, by |-> i]
  <2>1. UNCHANGED <<accounts, calls>>
    BY <1>7 DEF GrantPaid, apiVars
  <2>2. \A e \in Callers : calls'[e].account \in {calls[e].account, Null} \cup Accounts
    BY <2>1
  <2>3. CASE RefusedByKey(i)
    BY <1>7, <2>1, <2>2, <2>3, EnjoyFrame DEF GrantPaid
  <2>4. CASE ~RefusedByKey(i)
    <3>1. /\ invoices' = [invoices EXCEPT ![i].status = "PAID"]
          /\ accountGrants' = accountGrants \union
               (IF PLAN_CATALOG[invoices[i].plan].scope = "EVENT" THEN {} ELSE {grant})
          /\ granted' = [granted EXCEPT ![i] = granted[i] + 1]
      BY <1>7, <2>4 DEF GrantPaid
    <3>2. Accounts' = Accounts
      BY <2>1 DEF Accounts
    <3> HIDE DEF i
    <3>3. \A j \in Buyers : /\ invoices'[j].plan = invoices[j].plan
                            /\ invoices'[j].account = invoices[j].account
                            /\ j # i => granted'[j] = granted[j]
      BY <3>1 DEF TypeOK
    <3>4. PLAN_CATALOG[invoices[i].plan].scope # "EVENT" => grant \in accountGrants'
      BY <3>1
    <3>5. \A j \in Buyers : granted'[j] = 1 /\ PLAN_CATALOG[invoices'[j].plan].scope # "EVENT" =>
            [account |-> invoices'[j].account, plan |-> invoices'[j].plan, by |-> j] \in accountGrants'
      BY <3>1, <3>3, <3>4 DEF EnjoyInv
    <3> QED BY <2>1, <3>2, <3>3, <3>5 DEF EnjoyInv
  <2> QED BY <2>3, <2>4
<1>8. ASSUME NEW w \in Workers, markStuckAlertSent(w) PROVE EnjoyInv'
  <2>1. /\ UNCHANGED <<accounts, granted, accountGrants, calls>>
        /\ invoices' = [i \in Buyers |-> IF i \in ticks[w].batch
                          THEN [invoices[i] EXCEPT !.alerted = TRUE] ELSE invoices[i]]
    BY <1>8 DEF markStuckAlertSent, apiVars, bookVars
  <2>2. \A j \in Buyers : invoices'[j].plan = invoices[j].plan
                          /\ invoices'[j].account = invoices[j].account
    BY <2>1 DEF TypeOK
  <2>3. \A e \in Callers : calls'[e].account \in {calls[e].account, Null} \cup Accounts
    BY <2>1
  <2> QED BY <2>1, <2>2, <2>3, EnjoyFrame
<1>9. ASSUME UNCHANGED <<accounts, granted, accountGrants, calls, invoices>> PROVE EnjoyInv'
  <2>1. \A e \in Callers : calls'[e].account \in {calls[e].account, Null} \cup Accounts
    BY <1>9
  <2> QED BY <1>9, <2>1, EnjoyFrame
<1>10. \/ Api \/ \E d \in Deliveries : MarkFailed(d) \/ GrantPaid(d)
       \/ \E w \in Workers : markStuckAlertSent(w)
       \/ UNCHANGED <<accounts, granted, accountGrants, calls, invoices>>
  BY DEF Next, Gateway, Collect, Webhooks, webhook, reconcileInvoice, Lookup, Age, Tick, FindStuck,
         MailAlert, TickFails, vars, apiVars, bookVars
<1> QED
  BY <1>1, <1>2, <1>3, <1>4, <1>5, <1>6, <1>7, <1>8, <1>9, <1>10 DEF Api


\* No plan costs more than the dearest one of the catalog.
LEMMA PricesAreBounded == \E top \in Nat : \A p \in PlanCodes : PLAN_CATALOG[p].priceMinor <= top
<1>1. PLAN_CATALOG["BUSINESS"].priceMinor = 120000
  BY SMT DEF PLAN_CATALOG, PlanConfig
<1>2. /\ PLAN_CATALOG["FREE"].priceMinor = 0 /\ PLAN_CATALOG["STARTER"].priceMinor = 10000
      /\ PLAN_CATALOG["STANDARD"].priceMinor = 30000 /\ PLAN_CATALOG["PREMIUM"].priceMinor = 60000
  BY SMT DEF PLAN_CATALOG, PlanConfig
<1>3. /\ PLAN_CATALOG["ORGANIZER_PRO"].priceMinor = 30000
      /\ PLAN_CATALOG["SMS_TOP_UP_100"].priceMinor = 6000
      /\ PLAN_CATALOG["SMS_TOP_UP_300"].priceMinor = 16000
  BY SMT DEF PLAN_CATALOG, PlanConfig
<1>4. \A p \in PlanCodes : PLAN_CATALOG[p].priceMinor <= 120000
  BY <1>1, <1>2, <1>3, CatalogPlans, SMT
<1> QED BY <1>4, SMT

\* activeGrant picks a plan that is at least as dear as every grant.
LEMMA ActiveGrantIsDearest ==
  ASSUME NEW grants \in SUBSET PlanCodes, NEW p \in grants
  PROVE  PLAN_CATALOG[p].priceMinor <= PLAN_CATALOG[activeGrant(grants)].priceMinor
<1>1. PICK top \in Nat : \A q \in PlanCodes : PLAN_CATALOG[q].priceMinor <= top
  BY PricesAreBounded
<1> DEFINE price(q) == PLAN_CATALOG[q].priceMinor
           Short == {top - price(q) : q \in grants}
<1>2. \A q \in grants : price(q) \in Nat /\ price(q) <= top
  BY <1>1, CatalogPlans
<1> HIDE DEF price
<1>3. Short \subseteq Nat /\ Short # {}
  BY <1>2
<1>4. PICK least \in Short : \A n \in Short : ~(<<n, least>> \in OpToRel(<, Nat))
  BY <1>3, NatLessThanWellFounded, WFMin
<1>5. \A n \in Short : least <= n
  <2> TAKE n \in Short
  <2>1. n \in Nat /\ least \in Nat
    BY <1>3
  <2>2. n < least => <<n, least>> \in OpToRel(<, Nat)
    BY <2>1 DEF OpToRel
  <2>3. ~(n < least)
    BY <1>4, <2>2, Zenon
  <2> QED BY <2>1, <2>3
<1>6. PICK best \in grants : least = top - price(best)
  OBVIOUS
<1>7. \A q \in grants : price(q) <= price(best)
  <2> TAKE q \in grants
  <2>1. least <= top - price(q)
    BY <1>5
  <2> QED BY <1>2, <1>6, <2>1
<1>8. \E r \in grants : \A q \in grants : PLAN_CATALOG[q].priceMinor <= PLAN_CATALOG[r].priceMinor
  BY <1>7 DEF price
<1> QED BY <1>8 DEF activeGrant

\* What was paid for is what the gates see: unless two calls created an account
\* each, a paid subscription is never outranked by the plan that is resolved.
THEOREM PaidPlansAreEnjoyed == Spec => []PaidPlanIsEnjoyed
<1>1. Init => EnjoyInv
  BY DEF Init, EnjoyInv, NoInvoice
<1>2. PaymentInv /\ EnjoyInv => PaidPlanIsEnjoyed
  <2> SUFFICES ASSUME PaymentInv, EnjoyInv, Len(accounts) <= 1, NEW i \in Buyers, granted[i] = 1,
                      PLAN_CATALOG[invoices[i].plan].scope = "ACCOUNT"
               PROVE  PLAN_CATALOG[invoices[i].plan].priceMinor <= PLAN_CATALOG[ResolvedPlan].priceMinor
    BY DEF PaidPlanIsEnjoyed
  <2> DEFINE grant == [account |-> invoices[i].account, plan |-> invoices[i].plan, by |-> i]
             own == {h \in accountGrants : h.account = owningAccountId}
             grants == (IF eventGrant = Null THEN {} ELSE {eventGrant}) \union {g.plan : g \in own}
  <2>1. invoices[i].account \in Callers
    BY DEF PaymentInv, InvoiceFollowsCall
  <2>2. invoices[i].account \in Accounts
    BY <2>1, BillingAssumption DEF EnjoyInv, Callers
  <2>3. accounts # <<>> /\ Head(accounts) = invoices[i].account
    <3>1. PICK k \in 1 .. Len(accounts) : accounts[k] = invoices[i].account
      BY <2>2 DEF Accounts
    <3>2. accounts \in Seq(Callers)
      BY DEF PaymentInv, TypeOK
    <3> DEFINE n == Len(accounts)
    <3>3. n \in Nat /\ n <= 1 /\ k \in 1 .. n
      BY <3>2
    <3>4. k = 1
      <4> HIDE DEF n
      <4> QED BY <3>3
    <3>5. accounts # <<>>
      BY <3>1
    <3>6. Head(accounts) = accounts[1]
      BY <3>2, <3>5
    <3> QED BY <3>1, <3>4, <3>5, <3>6
  <2>4. grant \in accountGrants /\ grant.account = owningAccountId /\ grant.plan = invoices[i].plan
    BY <2>3 DEF EnjoyInv, owningAccountId
  <2>5. invoices[i].plan \in grants
    BY <2>4
  <2>6. grants \in SUBSET PlanCodes
    BY DEF PaymentInv, TypeOK
  <2>7. ResolvedPlan = activeGrant(grants)
    BY DEF ResolvedPlan
  <2> HIDE DEF grants
  <2> QED BY <2>5, <2>6, <2>7, ActiveGrantIsDearest
<1> QED BY <1>1, <1>2, EnjoyNext, PaymentInvariance, PTL DEF Spec


-----------------------------------------------------------------------------
(* The credits.                                                            *)

\* The row of book that the account trial writes.
TrialRow(book, a) == CreditRow(book, <<"trial", a>>, FALSE, a, "FREE")

\* The ledger has the rows of the trial and of the packs that were granted, and
\* no others.
BooksInv ==
  /\ \A row \in ledger :
       \/ \E book \in Books, a \in Accounts : row = TrialRow(book, a)
       \/ \E i \in Buyers : granted[i] = 1 /\ row \in PackCredits(i)
  /\ \A i \in Buyers : granted[i] = 1 => PackCredits(i) \subseteq ledger


\* A pack's rows depend on the invoice's plan and account only.
LEMMA PackFollowsInvoice ==
  ASSUME NEW i, invoices'[i].plan = invoices[i].plan, invoices'[i].account = invoices[i].account
  PROVE  PackCredits(i)' = PackCredits(i)
BY DEF PackCredits, CreditRow, Books

\* A step that writes no credits and changes no paid invoice.
LEMMA BooksFrame ==
  ASSUME BooksInv, Accounts \subseteq Accounts', UNCHANGED <<ledger, granted>>,
         \A i \in Buyers : granted[i] = 1 => /\ invoices'[i].plan = invoices[i].plan
                                             /\ invoices'[i].account = invoices[i].account
  PROVE  BooksInv'
<1>1. \A i \in Buyers : granted[i] = 1 => PackCredits(i)' = PackCredits(i)
  BY PackFollowsInvoice
<1>2. \A book \in Books : \A a : TrialRow(book, a)' = TrialRow(book, a)
  BY DEF TrialRow, CreditRow
<1>3. \A row \in ledger' :
        \/ \E book \in Books, a \in Accounts' : row = TrialRow(book, a)
        \/ \E i \in Buyers : granted'[i] = 1 /\ row \in PackCredits(i)'
  BY <1>1 DEF BooksInv
<1>4. \A i \in Buyers : granted'[i] = 1 => PackCredits(i)' \subseteq ledger'
  BY <1>1 DEF BooksInv
<1> QED BY <1>2, <1>3, <1>4 DEF BooksInv, Books, TrialRow, CreditRow

\* Every step keeps the books.
LEMMA BooksNext == PaymentInv /\ PaymentInv' /\ EnjoyInv /\ BooksInv /\ [Next]_vars => BooksInv'
<1> SUFFICES ASSUME PaymentInv, PaymentInv', EnjoyInv, BooksInv, [Next]_vars PROVE BooksInv'
  OBVIOUS
<1>1. ASSUME NEW c \in Callers, FindAccount(c) \/ CreateAccount(c) PROVE BooksInv'
  <2>1. UNCHANGED <<ledger, granted, invoices>>
    BY <1>1 DEF FindAccount, CreateAccount, bookVars
  <2>2. Accounts \subseteq Accounts'
    <3>1. CASE accounts' = accounts
      BY <3>1 DEF Accounts
    <3>2. CASE accounts' = Append(accounts, c)
      <4>1. /\ Len(accounts') = Len(accounts) + 1 /\ Len(accounts) \in Nat
            /\ \A k \in 1 .. Len(accounts) : accounts'[k] = accounts[k]
        BY <3>2 DEF PaymentInv, TypeOK
      <4> QED BY <4>1 DEF Accounts
    <3> QED BY <1>1, <3>1, <3>2 DEF FindAccount, CreateAccount
  <2> QED BY <2>1, <2>2, BooksFrame
<1>2. ASSUME NEW book \in Books, TrialCredits(book) PROVE BooksInv'
  <2>1. PICK a : a = calls[Signup].account
    OBVIOUS
  <2>2. /\ UNCHANGED <<accounts, granted, invoices>> /\ calls[Signup].pc = book
        /\ \/ ledger' = ledger
           \/ ledger' = ledger \union {TrialRow(book, a)}
    BY <1>2, <2>1 DEF TrialCredits, TrialRow
  <2>3. a \in Accounts
    <3>1. a \in Callers
      BY <2>1, <2>2 DEF PaymentInv, CallHasAccount, Callers, Books
    <3>2. a # Null
      BY <3>1, BillingAssumption DEF Callers
    <3> QED BY <2>1, <3>2 DEF EnjoyInv, Callers
  <2>4. Accounts' = Accounts
    BY <2>2 DEF Accounts
  <2>5. \A i \in Buyers : PackCredits(i)' = PackCredits(i)
    BY <2>2, PackFollowsInvoice
  <2>6. \A row \in ledger' :
          \/ \E b \in Books, k \in Accounts : row = TrialRow(b, k)
          \/ \E i \in Buyers : granted[i] = 1 /\ row \in PackCredits(i)
    BY <2>2, <2>3 DEF BooksInv
  <2>7. \A i \in Buyers : granted[i] = 1 => PackCredits(i) \subseteq ledger'
    BY <2>2 DEF BooksInv
  <2> QED BY <2>2, <2>4, <2>5, <2>6, <2>7 DEF BooksInv, TrialRow, CreditRow, Books
<1>3. ASSUME NEW c \in Buyers, NEW plan \in Wanted[c], charge(c, plan) PROVE BooksInv'
  <2>1. /\ UNCHANGED <<accounts, granted, ledger>> /\ calls[c].pc = "invoice"
        /\ invoices' = [invoices EXCEPT ![c] =
             [status |-> "PENDING", plan |-> plan, account |-> calls[c].account, alerted |-> FALSE]]
    BY <1>3 DEF charge, bookVars
  <2>2. granted[c] = 0
    BY <2>1 DEF PaymentInv, InvoiceFollowsCall
  <2>3. \A i \in Buyers \ {c} : invoices'[i] = invoices[i]
    BY <2>1 DEF PaymentInv, TypeOK
  <2>4. Accounts' = Accounts
    BY <2>1 DEF Accounts
  <2> QED BY <2>1, <2>2, <2>3, <2>4, BooksFrame
<1>4. ASSUME NEW d \in Deliveries, GrantPaid(d) PROVE BooksInv'
  <2>1. PICK i : i = deliveries[d].invoice
    OBVIOUS
  <2>2. i \in Buyers
    BY <1>4, <2>1 DEF GrantPaid, PaymentInv, DeliveryHasInvoice
  <2>3. accounts' = accounts /\ Accounts' = Accounts
    BY <1>4 DEF GrantPaid, apiVars, Accounts
  <2>4. CASE RefusedByKey(i)
    <3>1. UNCHANGED <<ledger, granted, invoices>>
      BY <1>4, <2>1, <2>4 DEF GrantPaid
    <3> QED BY <2>3, <3>1, BooksFrame
  <2>5. CASE ~RefusedByKey(i)
    <3>1. /\ invoices' = [invoices EXCEPT ![i].status = "PAID"]
          /\ ledger' = ledger \union PackCredits(i)
          /\ granted' = [granted EXCEPT ![i] = granted[i] + 1]
      BY <1>4, <2>1, <2>5 DEF GrantPaid
    <3>2. \A j \in Buyers : /\ invoices'[j].plan = invoices[j].plan
                            /\ invoices'[j].account = invoices[j].account
                            /\ j # i => granted'[j] = granted[j]
      BY <2>2, <3>1 DEF PaymentInv, TypeOK
    <3>3. granted'[i] = 1
      <4>1. granted'[i] = granted[i] + 1 /\ granted[i] \in Nat
        BY <2>2, <3>1 DEF PaymentInv, TypeOK
      <4>2. granted'[i] \in {0, 1}
        BY <2>2 DEF PaymentInv, OneGrantPerPayment
      <4> QED BY <4>1, <4>2
    <3>4. \A j \in Buyers : PackCredits(j)' = PackCredits(j)
      BY <3>2, PackFollowsInvoice
    <3>5. \A row \in ledger' :
            \/ \E b \in Books, k \in Accounts : row = TrialRow(b, k)
            \/ \E j \in Buyers : granted'[j] = 1 /\ row \in PackCredits(j)
      <4> SUFFICES ASSUME NEW row \in ledger'
                   PROVE  \/ \E b \in Books, k \in Accounts : row = TrialRow(b, k)
                          \/ \E j \in Buyers : granted'[j] = 1 /\ row \in PackCredits(j)
        OBVIOUS
      <4>1. CASE row \in PackCredits(i)
        BY <2>2, <3>3, <4>1
      <4>2. CASE row \in ledger
        BY <3>2, <3>3, <4>2 DEF BooksInv
      <4> QED BY <3>1, <4>1, <4>2
    <3>6. \A j \in Buyers : granted'[j] = 1 => PackCredits(j) \subseteq ledger'
      BY <3>1, <3>2 DEF BooksInv
    <3> QED BY <2>3, <3>4, <3>5, <3>6 DEF BooksInv, TrialRow, CreditRow, Books
  <2> QED BY <2>4, <2>5
<1>5. ASSUME UNCHANGED <<accounts, ledger, granted>>,
             \A i \in Buyers : /\ invoices'[i].plan = invoices[i].plan
                               /\ invoices'[i].account = invoices[i].account
      PROVE  BooksInv'
  <2>1. Accounts' = Accounts
    BY <1>5 DEF Accounts
  <2> QED BY <1>5, <2>1, BooksFrame
<1>6. ASSUME NEW d \in Deliveries, MarkFailed(d) PROVE BooksInv'
  <2>1. PICK i : i = deliveries[d].invoice
    OBVIOUS
  <2>2. /\ UNCHANGED <<accounts, granted, ledger>>
        /\ invoices' = [invoices EXCEPT ![i].status = "FAILED"]
    BY <1>6, <2>1 DEF MarkFailed, apiVars, bookVars
  <2>3. \A j \in Buyers : invoices'[j].plan = invoices[j].plan
                          /\ invoices'[j].account = invoices[j].account
    BY <2>2 DEF PaymentInv, TypeOK
  <2> QED BY <1>5, <2>2, <2>3
<1>7. ASSUME NEW w \in Workers, markStuckAlertSent(w) PROVE BooksInv'
  <2>1. /\ UNCHANGED <<accounts, granted, ledger>>
        /\ invoices' = [i \in Buyers |-> IF i \in ticks[w].batch
                          THEN [invoices[i] EXCEPT !.alerted = TRUE] ELSE invoices[i]]
    BY <1>7 DEF markStuckAlertSent, apiVars, bookVars
  <2>2. \A j \in Buyers : invoices'[j].plan = invoices[j].plan
                          /\ invoices'[j].account = invoices[j].account
    BY <2>1 DEF PaymentInv, TypeOK
  <2> QED BY <1>5, <2>1, <2>2
<1>8. CASE UNCHANGED <<accounts, ledger, granted, invoices>>
  BY <1>5, <1>8
<1>9. \/ Api \/ \E d \in Deliveries : MarkFailed(d) \/ GrantPaid(d)
      \/ \E w \in Workers : markStuckAlertSent(w)
      \/ UNCHANGED <<accounts, granted, ledger, invoices>>
  BY DEF Next, Gateway, Collect, Webhooks, webhook, reconcileInvoice, Lookup, Age, Tick, FindStuck,
         MailAlert, TickFails, vars, apiVars, bookVars
<1>10. TrialGrant => UNCHANGED <<accounts, granted, ledger, invoices>>
  BY DEF TrialGrant
<1> QED BY <1>1, <1>2, <1>3, <1>4, <1>6, <1>7, <1>8, <1>9, <1>10 DEF Api


\* The credits of a book that come with a plan.
Credits(book, plan) ==
  IF book = "sms" THEN PLAN_CATALOG[plan].includedSmsCredits
  ELSE PLAN_CATALOG[plan].includedAiCredits

\* The fields of a credit row.
LEMMA CreditRowFields ==
  ASSUME NEW book, NEW key, NEW event, NEW account, NEW plan
  PROVE  /\ CreditRow(book, key, event, account, plan).book = book
         /\ CreditRow(book, key, event, account, plan).key = key
         /\ CreditRow(book, key, event, account, plan).event = event
         /\ CreditRow(book, key, event, account, plan).account = account
         /\ CreditRow(book, key, event, account, plan).amount = Credits(book, plan)
BY DEF CreditRow, Credits

\* The sum of the credits of the plans that invoices are for.
LEMMA WorthIsSum ==
  ASSUME NEW S, NEW book
  PROVE  MapThenSumSet(LAMBDA i : CreditRow(book, Null, FALSE, Null, invoices[i].plan).amount, S)
           = SumOf([i \in S |-> Credits(book, invoices[i].plan)], S)
<1> DEFINE g == [i \in S |-> Credits(book, invoices[i].plan)]
           Worth(i) == CreditRow(book, Null, FALSE, Null, invoices[i].plan).amount
           F(it) == it = [s \in SUBSET S |->
                            IF s = {} THEN 0 ELSE Worth(Taken(s)) + it[s \ {Taken(s)}]]
<1>1. \A s \in SUBSET S : s # {} => Worth(Taken(s)) = g[Taken(s)]
  <2>1. \A s \in SUBSET S : s # {} => Taken(s) \in S
    BY TakenIsIn
  <2>2. ASSUME NEW i \in S PROVE Worth(i) = g[i]
    <3>1. Worth(i) = Credits(book, invoices[i].plan)
      BY DEF CreditRow, Credits
    <3> HIDE DEF Worth
    <3> QED BY <3>1
  <2> HIDE DEF Worth, g
  <2> QED BY <2>1, <2>2
<1>2. MapThenSumSet(LAMBDA i : CreditRow(book, Null, FALSE, Null, invoices[i].plan).amount, S)
        = (CHOOSE it : F(it))[S]
  BY DEF MapThenSumSet, MapThenFoldSet, Taken
<1> HIDE DEF g, Worth
<1>3. ASSUME NEW it PROVE F(it) <=> IsFold(it, g, S)
  <2>1. [s \in SUBSET S |-> IF s = {} THEN 0 ELSE Worth(Taken(s)) + it[s \ {Taken(s)}]]
          = [s \in SUBSET S |-> IF s = {} THEN 0 ELSE g[Taken(s)] + it[s \ {Taken(s)}]]
    BY <1>1
  <2> QED BY <2>1 DEF IsFold
<1> HIDE DEF F
<1>4. (CHOOSE it : F(it)) = (CHOOSE it : IsFold(it, g, S))
  BY <1>3
<1>5. (CHOOSE it : F(it))[S] = SumOf(g, S)
  BY <1>4, SumIsFold
<1> QED BY <1>2, <1>5 DEF g

\* With a single account, everything in use is on the owning one.
LEMMA OneAccount ==
  ASSUME PaymentInv, Len(accounts) <= 1, NEW a \in Accounts
  PROVE  accounts # <<>> /\ owningAccountId = a
<1>1. PICK k \in 1 .. Len(accounts) : accounts[k] = a
  BY DEF Accounts
<1>2. accounts \in Seq(Callers)
  BY DEF PaymentInv, TypeOK
<1> DEFINE n == Len(accounts)
<1>3. n \in Nat /\ n <= 1 /\ k \in 1 .. n
  BY <1>2
<1>4. k = 1
  <2> HIDE DEF n
  <2> QED BY <1>3
<1>5. accounts # <<>>
  BY <1>1
<1>6. Head(accounts) = accounts[1]
  BY <1>2, <1>5
<1> QED BY <1>1, <1>4, <1>5, <1>6 DEF owningAccountId

\* The rows of a pack, by book.
LEMMA PackRows ==
  ASSUME PaymentInv, EnjoyInv, NEW i \in Buyers, granted[i] = 1
  PROVE  \E event \in BOOLEAN, account \in Callers \union {Null} :
           /\ ~event => account \in Accounts
           /\ \A row : row \in PackCredits(i) <=>
                /\ \E book \in Books : row = CreditRow(book, <<"invoice", i>>, event, account, invoices[i].plan)
                /\ row.amount > 0
<1> DEFINE event == PLAN_CATALOG[invoices[i].plan].scope = "EVENT"
           account == IF event THEN Null ELSE invoices[i].account
<1>1. invoices[i].status # "none"
  BY DEF PaymentInv, InvoiceFollowsCall
<1>2. invoices[i].account \in Callers
  BY <1>1 DEF PaymentInv, InvoiceFollowsCall
<1>3. invoices[i].account \in Accounts
  BY <1>2, BillingAssumption DEF EnjoyInv, Callers
<1>4. event \in BOOLEAN /\ account \in Callers \union {Null} /\ (~event => account \in Accounts)
  BY <1>2, <1>3
<1>5. PackCredits(i) = {row \in {CreditRow(book, <<"invoice", i>>, event, account, invoices[i].plan) :
                                   book \in Books} : row.amount > 0}
  BY DEF PackCredits
<1> HIDE DEF event, account
<1>6. \A row : row \in PackCredits(i) <=>
        /\ \E book \in Books : row = CreditRow(book, <<"invoice", i>>, event, account, invoices[i].plan)
        /\ row.amount > 0
  BY <1>5
<1> QED BY <1>4, <1>6

\* The rows a balance adds up, the trial's among them, and the paid invoices
\* with credits of the book.
RowsSeen(book) ==
  {row \in ledger : row.book = book /\
     (row.event \/ (accounts # <<>> /\ row.account = owningAccountId))}

TrialRows(book) ==
  IF Booked(book, <<"trial", owningAccountId>>) THEN {TrialRow(book, owningAccountId)} ELSE {}

PaidWith(book) == {i \in Buyers : granted[i] = 1 /\ Credits(book, invoices[i].plan) > 0}

\* What the balance of a book adds up: the trial's row, and one row for every
\* paid plan that has credits of the book.
LEMMA VisibleRows ==
  ASSUME PaymentInv, EnjoyInv, BooksInv, Len(accounts) <= 1, NEW book \in Books
  PROVE  \E rowOf :
           /\ \A i \in PaidWith(book) : /\ rowOf[i] \in RowsSeen(book)
                                         /\ rowOf[i].key = <<"invoice", i>>
                                         /\ rowOf[i].amount = Credits(book, invoices[i].plan)
           /\ \A row \in RowsSeen(book) :
                row \in TrialRows(book) \/ \E i \in PaidWith(book) : row = rowOf[i]
           /\ TrialRows(book) \subseteq RowsSeen(book)
<1> USE DEF RowsSeen, TrialRows, PaidWith
<1> DEFINE own == owningAccountId
           IsRow(i, row) == /\ row \in PackCredits(i) /\ row.book = book
                            /\ row.key = <<"invoice", i>>
                            /\ row.amount = Credits(book, invoices[i].plan)
           rowOf == [i \in PaidWith(book) |-> CHOOSE row : IsRow(i, row)]
<1>1. ASSUME NEW i \in PaidWith(book)
      PROVE  /\ IsRow(i, rowOf[i])
             /\ rowOf[i] \in RowsSeen(book)
             /\ \A row \in PackCredits(i) : row.book = book => row = rowOf[i]
  <2>1. i \in Buyers /\ granted[i] = 1 /\ Credits(book, invoices[i].plan) > 0
    OBVIOUS
  <2>2. PICK event \in BOOLEAN, account \in Callers \union {Null} :
          /\ ~event => account \in Accounts
          /\ \A row : row \in PackCredits(i) <=>
               /\ \E b \in Books : row = CreditRow(b, <<"invoice", i>>, event, account, invoices[i].plan)
               /\ row.amount > 0
    BY <2>1, PackRows
  <2>3. PICK r : r = CreditRow(book, <<"invoice", i>>, event, account, invoices[i].plan)
    OBVIOUS
  <2>4. /\ r.book = book /\ r.key = <<"invoice", i>> /\ r.event = event /\ r.account = account
        /\ r.amount = Credits(book, invoices[i].plan)
    BY <2>3, CreditRowFields
  <2>5. r \in PackCredits(i)
    BY <2>1, <2>2, <2>3, <2>4
  <2>6. \A row \in PackCredits(i) : row.book = book => row = r
    BY <2>2, <2>3, CreditRowFields
  <2>7. IsRow(i, rowOf[i])
    <3>1. IsRow(i, r)
      BY <2>4, <2>5
    <3>2. rowOf[i] = CHOOSE row : IsRow(i, row)
      OBVIOUS
    <3> HIDE DEF IsRow, rowOf
    <3> QED BY <3>1, <3>2
  <2> HIDE DEF rowOf
  <2>8. rowOf[i] = r
    BY <2>6, <2>7
  <2>9. r \in ledger
    BY <2>1, <2>5 DEF BooksInv
  <2>10. r.event \/ (accounts # <<>> /\ r.account = owningAccountId)
    BY <2>2, <2>4, OneAccount
  <2> QED BY <2>4, <2>6, <2>7, <2>8, <2>9, <2>10
<1> HIDE DEF rowOf
<1>2. ASSUME NEW b \in Books, NEW a \in Accounts
      PROVE  /\ TrialRow(b, a).book = b /\ TrialRow(b, a).key = <<"trial", a>>
             /\ TrialRow(b, a).account = a
  BY DEF TrialRow, CreditRow
<1>3. ASSUME Booked(book, <<"trial", own>>) PROVE TrialRow(book, own) \in RowsSeen(book)
  <2>1. PICK r \in ledger : r.book = book /\ r.key = <<"trial", own>>
    BY <1>3 DEF Booked
  <2>2. \A i \in Buyers : \A row \in PackCredits(i) : granted[i] = 1 => row.key = <<"invoice", i>>
    BY PackHasSms DEF PaymentInv, InvoiceFollowsCall
  <2>3. PICK b \in Books : \E a \in Accounts : r = TrialRow(b, a)
    BY <2>1, <2>2 DEF BooksInv
  <2>4. PICK a \in Accounts : r = TrialRow(b, a)
    BY <2>3
  <2>5. b = book /\ a = own
    BY <1>2, <2>1, <2>4
  <2>6. r = TrialRow(book, own)
    BY <2>4, <2>5
  <2> QED BY <1>2, <2>1, <2>4, <2>5, <2>6, OneAccount
<1>4. ASSUME NEW row \in RowsSeen(book) PROVE row \in {rowOf[i] : i \in PaidWith(book)} \union TrialRows(book)
  <2>1. row \in ledger /\ row.book = book
    OBVIOUS
  <2>2. CASE \E b \in Books, a \in Accounts : row = TrialRow(b, a)
    <3>1. PICK b \in Books, a \in Accounts : row = TrialRow(b, a)
      BY <2>2
    <3>2. b = book /\ a = own
      BY <1>2, <2>1, <3>1, OneAccount
    <3>3. Booked(book, <<"trial", own>>)
      BY <1>2, <2>1, <3>1, <3>2 DEF Booked
    <3> QED BY <3>1, <3>2, <3>3
  <2>3. CASE \E i \in Buyers : granted[i] = 1 /\ row \in PackCredits(i)
    <3>1. PICK i \in Buyers : granted[i] = 1 /\ row \in PackCredits(i)
      BY <2>3
    <3>2. PICK event \in BOOLEAN, account \in Callers \union {Null} :
            \A r : r \in PackCredits(i) <=>
              /\ \E b \in Books : r = CreditRow(b, <<"invoice", i>>, event, account, invoices[i].plan)
              /\ r.amount > 0
      BY <3>1, PackRows
    <3>3. PICK b \in Books : row = CreditRow(b, <<"invoice", i>>, event, account, invoices[i].plan)
      BY <3>1, <3>2
    <3>4. row.book = b /\ row.amount = Credits(b, invoices[i].plan) /\ row.amount > 0
      BY <3>1, <3>2, <3>3, CreditRowFields
    <3>5. i \in PaidWith(book)
      BY <2>1, <3>1, <3>4
    <3>6. row = rowOf[i]
      BY <1>1, <2>1, <3>1, <3>5
    <3> QED BY <3>5, <3>6
  <2> QED BY <2>1, <2>2, <2>3 DEF BooksInv
<1>5. TrialRows(book) \subseteq RowsSeen(book)
  BY <1>3
<1>6. \A row \in RowsSeen(book) :
        row \in TrialRows(book) \/ \E i \in PaidWith(book) : row = rowOf[i]
  BY <1>4
<1> HIDE DEF RowsSeen, TrialRows, PaidWith
<1>7. \A i \in PaidWith(book) : /\ rowOf[i] \in RowsSeen(book)
                                /\ rowOf[i].key = <<"invoice", i>>
                                /\ rowOf[i].amount = Credits(book, invoices[i].plan)
  BY <1>1
<1> QED BY <1>5, <1>6, <1>7

\* What was paid for is what the gates see: unless two calls created an account
\* each, the resolved plan covers every paid subscription, and the balance of
\* each book is the trial's credits and those of every paid plan.
THEOREM PaidIsEnjoyed == Spec => []PaidIsWhatIsEnjoyed
<1>1. Init => BooksInv
  BY DEF Init, BooksInv
<1>2. ASSUME PaymentInv, EnjoyInv, BooksInv, PaidPlanIsEnjoyed PROVE PaidIsWhatIsEnjoyed
  <2> DEFINE paid == {i \in Buyers : granted[i] = 1}
             trial(book) == IF Booked(book, <<"trial", owningAccountId>>)
                            THEN CreditRow(book, Null, FALSE, Null, "FREE").amount ELSE 0
  <2> SUFFICES ASSUME Len(accounts) <= 1, NEW book \in Books
               PROVE  Balance(book) = trial(book) + MapThenSumSet(LAMBDA i :
                        CreditRow(book, Null, FALSE, Null, invoices[i].plan).amount, paid)
    BY <1>2 DEF PaidIsWhatIsEnjoyed
  <2>1. PICK rowOf :
          /\ \A i \in PaidWith(book) : /\ rowOf[i] \in RowsSeen(book)
                                        /\ rowOf[i].key = <<"invoice", i>>
                                        /\ rowOf[i].amount = Credits(book, invoices[i].plan)
          /\ \A row \in RowsSeen(book) :
               row \in TrialRows(book) \/ \E i \in PaidWith(book) : row = rowOf[i]
          /\ TrialRows(book) \subseteq RowsSeen(book)
    BY <1>2, VisibleRows
  <2> DEFINE amount == [row \in RowsSeen(book) |-> row.amount]
             worth == [i \in paid |-> Credits(book, invoices[i].plan)]
             packs == RowsSeen(book) \ TrialRows(book)
  <2>2. PaidWith(book) \subseteq paid /\ IsFiniteSet(paid) /\ IsFiniteSet(PaidWith(book))
    BY BillingAssumption, FS_Subset DEF PaidWith
  <2>3. \A i \in paid : worth[i] = Credits(book, invoices[i].plan) /\ worth[i] \in Nat
    <3> SUFFICES ASSUME NEW i \in paid PROVE Credits(book, invoices[i].plan) \in Nat
      OBVIOUS
    <3>1. invoices[i].plan \in PlanCodes
      BY <1>2, BillingAssumption DEF PaymentInv, InvoiceFollowsCall
    <3> QED BY <3>1, CatalogPlans DEF Credits
  <2>4. \A row \in RowsSeen(book) : amount[row] = row.amount /\ amount[row] \in Int
    BY <1>2 DEF PaymentInv, TypeOK, RowsSeen
  <2>5. \A row \in TrialRows(book) : row.key = <<"trial", owningAccountId>> /\ row.amount = trial(book)
    BY DEF TrialRows, TrialRow, CreditRow
  <2>6. IsFiniteSet(packs) /\ SumOf(amount, packs) = SumOf(worth, PaidWith(book))
    <3>1. \A i \in PaidWith(book) : worth[i] \in Int /\ amount[rowOf[i]] = worth[i]
      BY <2>1, <2>2, <2>3, <2>4
    <3>2. \A i, j \in PaidWith(book) : rowOf[i] = rowOf[j] => i = j
      BY <2>1
    <3>3. ASSUME NEW i \in PaidWith(book) PROVE rowOf[i] \in packs
      <4>1. <<"invoice", i>> # <<"trial", owningAccountId>>
        OBVIOUS
      <4>2. \A row \in TrialRows(book) : row.key = <<"trial", owningAccountId>>
        BY <2>5
      <4>3. rowOf[i].key = <<"invoice", i>> /\ rowOf[i] \in RowsSeen(book)
        BY <2>1
      <4>4. rowOf[i] \notin TrialRows(book)
        BY <4>1, <4>2, <4>3
      <4> QED BY <4>3, <4>4
    <3>4. \A row \in packs : \E i \in PaidWith(book) : row = rowOf[i]
      BY <2>1
    <3> HIDE DEF amount, worth, packs
    <3> QED BY <2>2, <3>1, <3>2, <3>3, <3>4, SumReindex
  <2>7. SumOf(worth, paid) = SumOf(worth, PaidWith(book))
    <3>1. ASSUME NEW i \in paid \ PaidWith(book) PROVE worth[i] = 0
      <4>1. worth[i] = Credits(book, invoices[i].plan) /\ worth[i] \in Nat
        BY <2>3
      <4>2. ~(Credits(book, invoices[i].plan) > 0)
        BY DEF PaidWith
      <4> HIDE DEF worth
      <4> QED BY <4>1, <4>2
    <3> HIDE DEF worth, paid
    <3> QED BY <2>2, <2>3, <3>1, SumWithoutZeroes
  <2>8. IsFiniteSet(TrialRows(book)) /\ SumOf(amount, TrialRows(book)) = trial(book)
    <3>1. CASE Booked(book, <<"trial", owningAccountId>>)
      <4>1. PICK r : r = TrialRow(book, owningAccountId)
        OBVIOUS
      <4>2. TrialRows(book) = {r}
        BY <3>1, <4>1 DEF TrialRows
      <4>3. amount[r] = trial(book) /\ amount[r] \in Int
        BY <2>1, <2>4, <2>5, <4>2
      <4> HIDE DEF amount, trial
      <4>4. SumOf(amount, {r}) = amount[r]
        BY <4>3, SumSingle
      <4> QED BY <4>2, <4>3, <4>4, FS_Singleton
    <3>2. CASE ~Booked(book, <<"trial", owningAccountId>>)
      BY <3>2, SumEmpty, FS_EmptySet DEF TrialRows
    <3> QED BY <3>1, <3>2
  <2>9. RowsSeen(book) = packs \cup TrialRows(book) /\ packs \cap TrialRows(book) = {}
    BY <2>1
  <2> HIDE DEF amount, worth, packs, trial, paid
  <2>10. SumOf(amount, packs \cup TrialRows(book)) = SumOf(amount, packs) + SumOf(amount, TrialRows(book))
    BY <2>4, <2>6, <2>8, <2>9, SumUnion
  <2>11. SumOf(amount, RowsSeen(book)) = SumOf(amount, packs \cup TrialRows(book))
    BY <2>9, Zenon
  <2>12. Balance(book) = SumOf(amount, RowsSeen(book))
    BY AmountsAreSum DEF Balance, amount, RowsSeen
  <2>13. MapThenSumSet(LAMBDA i : CreditRow(book, Null, FALSE, Null, invoices[i].plan).amount, paid)
           = SumOf(worth, paid)
    BY WorthIsSum DEF worth
  <2>14. SumOf(worth, PaidWith(book)) \in Int /\ SumOf(amount, TrialRows(book)) \in Int
    <3>1. SumOf(worth, PaidWith(book)) \in Int
      BY <2>2, <2>3, SumInt
    <3>2. \A row \in TrialRows(book) : amount[row] \in Int
      BY <2>1, <2>4
    <3> QED BY <2>8, <3>1, <3>2, SumInt
  <2> QED BY <2>6, <2>7, <2>8, <2>10, <2>11, <2>12, <2>13, <2>14
<1>3. Init => EnjoyInv
  BY DEF Init, EnjoyInv, NoInvoice
<1>4. Spec => []EnjoyInv
  BY <1>3, EnjoyNext, PaymentInvariance, PTL DEF Spec
<1>5. Spec => []BooksInv
  BY <1>1, <1>4, BooksNext, PaymentInvariance, PTL DEF Spec
<1> QED BY <1>2, <1>4, <1>5, PaymentInvariance, PaidPlansAreEnjoyed, PTL
=============================================================================
