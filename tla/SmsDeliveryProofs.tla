-------------------------- MODULE SmsDeliveryProofs -------------------------
(***************************************************************************)
(* Theorems about SmsDelivery, for any campaigns, audiences, events and    *)
(* workers, any batch size and any pattern of failures.                    *)
(*                                                                         *)
(* What the outbox promises its handlers is not proved again: the drain's  *)
(* variables take only steps of OutboxDrain, and the invariant that        *)
(* OutboxDrainProofs shows of those steps is used through an instance.     *)
(***************************************************************************)
EXTENDS SmsDelivery, SumTheorems

Outbox == INSTANCE OutboxDrainProofs WITH
  Rows <- Campaigns, NoHandler <- {}, Poison <- {}

-----------------------------------------------------------------------------
(* The inductive invariant.                                                *)

\* Only a campaign whose dispatch has committed has an outbox row; until then
\* it has no message, and every message in the making has its RESERVE row.
DispatchInv ==
  \A c \in Campaigns :
    /\ status[c] # "absent" => dispatches[c].pc = "done"
    /\ dispatches[c].pc # "done" => \A m \in MessagesOf(c) : messages[m] = "absent"
    /\ dispatches[c].pc = "reserve" => dispatches[c].todo # {}
    /\ \A p \in dispatches[c].queued : Has("RESERVE", <<c, p>>)

\* A job runs exactly while its worker is in a handler.  Until it commits, what
\* it read is still what is QUEUED for the campaign of the worker's current row;
\* what it has settled so far is in the ledger.
JobOk(w) ==
  /\ jobs[w].pc # "none" <=> pc[w] = "handling"
  /\ jobs[w].pc = "none" => jobs[w] = NoJob
  /\ jobs[w].pc # "none" => jobs[w].pending = Pending(Current(w))
  /\ jobs[w].pc = "send" => jobs[w].settled = {} /\ jobs[w].ok = {}
  /\ jobs[w].pc \in {"send", "settle"} => jobs[w].pending # {}
  /\ jobs[w].ok \subseteq jobs[w].pending
  /\ jobs[w].settled \subseteq jobs[w].pending
  /\ \A m \in jobs[w].settled : Has(Settlement(w, m), m)

JobInv == \A w \in Workers : JobOk(w)

\* The idempotency key keeps every movement single, and a credit comes back only
\* for a message that took one.
LedgerInv ==
  \A m \in Messages :
    /\ \A k \in Kinds : ledger[k][m] <= 1
    /\ ledger["REFUND"][m] <= ledger["RESERVE"][m]

SmsInv ==
  /\ TypeOK /\ Outbox!DrainInv
  /\ DispatchInv /\ JobInv /\ LedgerInv
  /\ CreditsFollowDelivery /\ CampaignMatchesItsMessages

-----------------------------------------------------------------------------
(* The outbox.                                                             *)

\* The outbox of campaigns meets the assumption of OutboxDrain.
LEMMA OutboxAssumption == Outbox!RowsAssumption
BY GrantsAssumption, DeliveryAssumption DEF Outbox!RowsAssumption, Outbox!IsFiniteSet, IsFiniteSet

\* Whatever SMS delivery does, the outbox takes a step of OutboxDrain or none.
LEMMA OutboxSteps == [Next]_vars => [Outbox!Next]_(Outbox!vars)
<1> USE DEF Outbox!vars
<1>1. ASSUME NEW c \in Campaigns, Dispatching(c) PROVE [Outbox!Next]_(Outbox!vars)
  BY <1>1 DEF Dispatching, drainVars
<1>2. ASSUME NEW c \in Campaigns, CommitDispatch(c) PROVE [Outbox!Next]_(Outbox!vars)
  <2>1. Drain!enqueue(c) => Outbox!enqueue(c)
    BY DEF Drain!enqueue, Outbox!enqueue
  <2> QED BY <1>2, <2>1 DEF CommitDispatch, drainVars, Outbox!Next
<1>3. ASSUME NEW w \in Workers, Work(w) \/ WorkerFault(w) PROVE [Outbox!Next]_(Outbox!vars)
  <2>1. Drain!Select(w) => Outbox!Select(w)
    BY DEF Drain!Select, Outbox!Select, Drain!Claimable, Outbox!Claimable, Drain!Locked,
           Outbox!Locked, Drain!Pending, Outbox!Pending, Drain!OldestOf, Outbox!OldestOf,
           Drain!Cardinality, Outbox!Cardinality
  <2>2. Drain!Claim(w) => Outbox!Claim(w)
    BY DEF Drain!Claim, Outbox!Claim
  <2>3. Drain!EndTick(w) => Outbox!EndTick(w)
    BY DEF Drain!EndTick, Outbox!EndTick
  <2>4. Drain!Current(w) = Outbox!Current(w)
    BY DEF Drain!Current, Outbox!Current, Drain!Min, Outbox!Min
  <2>5. Drain!Reopen(w) => Outbox!Reopen(w)
    BY <2>4 DEF Drain!Reopen, Outbox!Reopen, Drain!Capped, Outbox!Capped
  <2>6. Drain!StartHandler(w) => Outbox!StartHandler(w)
    BY <2>4 DEF Drain!StartHandler, Outbox!StartHandler, Drain!Capped, Outbox!Capped
  <2>7. Drain!HandlerReturns(w) => Outbox!HandlerReturns(w)
    BY <2>4 DEF Drain!HandlerReturns, Outbox!HandlerReturns
  <2>8. Drain!HandlerThrows(w) => Outbox!HandlerThrows(w)
    BY <2>4 DEF Drain!HandlerThrows, Outbox!HandlerThrows
  <2>9. Drain!Fault(w) => Outbox!Fault(w)
    BY DEF Drain!Fault, Outbox!Fault
  <2>10. Outbox!Tick(w) \/ Outbox!Fault(w) \/ UNCHANGED drainVars
    BY <1>3, <2>1, <2>2, <2>3, <2>5, <2>6, <2>7, <2>8, <2>9
       DEF Work, WorkerFault, Draining, StartJob, RunJob, JobReturns, JobThrows, Outbox!Tick
  <2> QED BY <2>10 DEF drainVars, Outbox!Next
<1>4. UNCHANGED vars => [Outbox!Next]_(Outbox!vars)
  BY DEF vars, drainVars
<1> QED BY <1>1, <1>2, <1>3, <1>4 DEF Next

\* The invariant of the outbox holds of every step.
LEMMA OutboxKept == Outbox!DrainInv /\ [Next]_vars => Outbox!DrainInv'
BY OutboxAssumption, OutboxSteps, Outbox!DrainNext

\* The row a handler is at is claimed, and no other worker is at it.
LEMMA AtOwnRow ==
  ASSUME Outbox!DrainInv, NEW w \in Workers, pc[w] = "handling"
  PROVE  /\ Current(w) \in batch[w] /\ Current(w) \in Campaigns
         /\ status[Current(w)] = "PROCESSED"
         /\ \A v \in Workers \ {w} : pc[v] = "handling" => Current(v) # Current(w)
<1>1. \A u \in Workers : Current(u) = Outbox!Current(u)
  BY DEF Current, Drain!Current, Outbox!Current, Drain!Min, Outbox!Min
<1>2. \A u \in Workers : pc[u] = "handling" => batch[u] # {}
  BY DEF Outbox!DrainInv, Outbox!Ownership
<1>3. \A u \in Workers : pc[u] = "handling" => Current(u) \in batch[u]
  BY <1>1, <1>2, OutboxAssumption, Outbox!CurrentInBatch DEF Outbox!DrainInv
<1>4. batch \in [Workers -> SUBSET Campaigns]
  BY DEF Outbox!DrainInv, Outbox!TypeOK
<1>5. status[Current(w)] = "PROCESSED"
  BY <1>3 DEF Outbox!DrainInv, Outbox!Ownership, Outbox!Owning
<1>6. \A v \in Workers \ {w} : batch[v] \cap batch[w] = {}
  BY DEF Outbox!DrainInv, Outbox!NoSharedRow
<1> QED BY <1>3, <1>4, <1>5, <1>6


\* The next recipient is one of those left.
LEMMA MinInSet ==
  ASSUME NEW T, T \subseteq Nat, T # {}
  PROVE  Min(T) \in T
<1>1. \E x \in T : \A y \in T : ~(<<y, x>> \in OpToRel(<, Nat))
  BY NatLessThanWellFounded, WFMin
<1>2. ASSUME NEW x \in Nat, NEW y \in Nat, y < x
      PROVE  <<y, x>> \in OpToRel(<, Nat)
  BY <1>2 DEF OpToRel
<1>3. PICK x \in T : \A y \in T : ~(<<y, x>> \in OpToRel(<, Nat))
  BY <1>1
<1>4. ASSUME NEW y \in T
      PROVE  x <= y
  <2>1. x \in Nat /\ y \in Nat
    OBVIOUS
  <2>2. ~(y < x)
    BY <1>2, <1>3, <2>1, Zenon
  <2> QED BY <2>1, <2>2
<1> QED BY <1>4 DEF Min

-----------------------------------------------------------------------------
(* What the steps leave alone.                                             *)

\* What a ledger append does, under the unique key.
LEMMA AppendEffect ==
  ASSUME ledger \in [Kinds -> [Messages -> Nat]], LedgerInv,
         NEW k \in Kinds, NEW m \in Messages, append(k, m)
  PROVE  /\ ledger' \in [Kinds -> [Messages -> Nat]]
         /\ ledger'[k][m] = 1
         /\ \A j \in Kinds, n \in Messages : <<j, n>> # <<k, m>> => ledger'[j][n] = ledger[j][n]
         /\ \A j \in Kinds, n \in Messages : Has(j, n) => Has(j, n)'
<1> DEFINE row == IF ledger[k][m] = 0 THEN 1 ELSE ledger[k][m]
<1>1. ledger[k][m] \in Nat /\ ledger[k][m] <= 1
  BY DEF LedgerInv
<1>2. row = 1
  BY <1>1
<1>3. ledger' = [ledger EXCEPT ![k] = [ledger[k] EXCEPT ![m] = row]]
  BY DEF append
<1> HIDE DEF row
<1>4. ledger[k] \in [Messages -> Nat]
  OBVIOUS
<1>5. [ledger[k] EXCEPT ![m] = row] \in [Messages -> Nat]
  BY <1>2, <1>4
<1>6. ledger' \in [Kinds -> [Messages -> Nat]]
  BY <1>3, <1>5
<1>7. ledger'[k] = [ledger[k] EXCEPT ![m] = row] /\ \A j \in Kinds \ {k} : ledger'[j] = ledger[j]
  BY <1>3
<1>8. ledger'[k][m] = 1
  BY <1>2, <1>4, <1>7
<1>9. \A n \in Messages \ {m} : ledger'[k][n] = ledger[k][n]
  BY <1>4, <1>7
<1>10. \A j \in Kinds, n \in Messages : <<j, n>> # <<k, m>> => ledger'[j][n] = ledger[j][n]
  BY <1>7, <1>9
<1>11. \A j \in Kinds, n \in Messages : Has(j, n) => Has(j, n)'
  BY <1>8, <1>10 DEF Has
<1> QED BY <1>6, <1>8, <1>10, <1>11

\* The statuses a campaign's own messages have.
MatchOk(c) ==
  LET have == {messages[m] : m \in MessagesOf(c)} \ {"absent"} IN
  campaigns[c] = CASE have = {"QUEUED"}         -> "SENDING"
                   [] have = {"SENT"}           -> "SENT"
                   [] have = {"SENT", "FAILED"} -> "PARTIAL"
                   [] have = {"FAILED"}         -> "FAILED"
                   [] have = {}                 -> IF dispatches[c].pc = "done"
                                                   THEN "FAILED" ELSE "absent"
                   [] OTHER                     -> "mixed"

\* The property, campaign by campaign.
LEMMA MatchesEach == CampaignMatchesItsMessages <=> \A c \in Campaigns : MatchOk(c)
BY DEF CampaignMatchesItsMessages, MatchOk

\* A step that touches neither a campaign nor its messages keeps them in accord.
LEMMA MatchFrame ==
  ASSUME NEW c \in Campaigns, MatchOk(c),
         \A m \in MessagesOf(c) : messages'[m] = messages[m],
         campaigns'[c] = campaigns[c],
         dispatches'[c].pc = "done" <=> dispatches[c].pc = "done"
  PROVE  MatchOk(c)'
<1>1. {messages'[m] : m \in MessagesOf(c)} = {messages[m] : m \in MessagesOf(c)}
  OBVIOUS
<1>2. MessagesOf(c)' = MessagesOf(c)
  BY DEF MessagesOf, Messages
<1> QED BY <1>1, <1>2 DEF MatchOk

\* A step that touches neither a job nor its campaign's messages, and takes no
\* row from the ledger, keeps the job in order.
LEMMA JobFrame ==
  ASSUME NEW w \in Workers, JobOk(w), jobs'[w] = jobs[w],
         jobs[w] \in JobState,
         pc'[w] = "handling" <=> pc[w] = "handling",
         pc[w] = "handling" => batch'[w] = batch[w],
         pc[w] = "handling" => \A m \in MessagesOf(Current(w)) : messages'[m] = messages[m],
         \A j \in Kinds, n \in Messages : Has(j, n) => Has(j, n)'
  PROVE  JobOk(w)'
<1>1. CASE pc[w] # "handling"
  <2>1. jobs[w] = NoJob
    BY <1>1 DEF JobOk
  <2>2. /\ jobs[w].pc = "none" /\ jobs[w].pending = {}
        /\ jobs[w].ok = {} /\ jobs[w].settled = {}
    BY <2>1 DEF NoJob
  <2> QED BY <1>1, <2>1, <2>2 DEF JobOk, NoJob
<1>2. CASE pc[w] = "handling"
  <2>1. PICK c : c = Current(w)
    OBVIOUS
  <2>2. Current(w)' = c
    BY <1>2, <2>1 DEF Current, Drain!Current
  <2>3. Pending(c)' = Pending(c)
    BY <1>2, <2>1 DEF Pending, MessagesOf, Messages
  <2>4. jobs[w].pending = Pending(c) /\ jobs[w].pc # "none"
    BY <1>2, <2>1 DEF JobOk
  <2>5. jobs'[w].pending = Pending(Current(w))'
    <3>1. Pending(Current(w))' = Pending(c)'
      BY <2>2 DEF Pending, MessagesOf, Messages
    <3> QED BY <3>1, <2>3, <2>4
  <2>6. \A m \in Messages : Settlement(w, m)' = Settlement(w, m) /\ Settlement(w, m) \in Kinds
    BY DEF Settlement, Kinds
  <2>7. jobs[w].settled \subseteq Messages
    BY DEF JobState
  <2>8. \A m \in jobs'[w].settled : Has(Settlement(w, m), m)'
    <3> SUFFICES ASSUME NEW m \in jobs[w].settled PROVE Has(Settlement(w, m), m)'
      OBVIOUS
    <3>1. PICK k \in Kinds : k = Settlement(w, m) /\ k = Settlement(w, m)'
      BY <2>6, <2>7
    <3>2. Has(k, m)
      BY <3>1 DEF JobOk
    <3>3. Has(k, m)'
      BY <2>7, <3>2
    <3> QED BY <3>1, <3>3 DEF Has
  <2> QED BY <1>2, <2>4, <2>5, <2>8 DEF JobOk
<1> QED BY <1>1, <1>2


-----------------------------------------------------------------------------
(* The steps.                                                              *)

\* The part of the invariant that is about SMS delivery itself.
DeliveryInv ==
  /\ TypeOK /\ DispatchInv /\ JobInv /\ LedgerInv
  /\ CreditsFollowDelivery /\ CampaignMatchesItsMessages

\* The invariant holds initially.
LEMMA SmsStart == Init => SmsInv
<1> SUFFICES ASSUME Init PROVE SmsInv
  OBVIOUS
<1>1. Outbox!DrainInv
  <2>1. Outbox!Init
    BY DEF Init, Drain!Init, Outbox!Init
  <2> QED BY <2>1, OutboxAssumption, Outbox!DrainInit
<1>2. SmsInit /\ pc = [w \in Workers |-> "idle"] /\ status = [m \in Campaigns |-> "absent"]
  BY DEF Init, Drain!Init
<1>3. /\ \A c \in Campaigns : /\ dispatches[c] = NoDispatch("idle") /\ campaigns[c] = "absent"
                              /\ dispatches[c].pc = "idle" /\ dispatches[c].queued = {}
      /\ \A w \in Workers : jobs[w] = NoJob /\ pc[w] = "idle"
      /\ \A m \in Messages : messages[m] = "absent"
      /\ \A k \in Kinds, m \in Messages : ledger[k][m] = 0
  BY <1>2 DEF SmsInit, NoDispatch
<1>4. TypeOK
  <2>1. NoDispatch("idle") \in DispatchState
    BY DEF NoDispatch, DispatchState
  <2>2. NoJob \in JobState
    BY DEF NoJob, JobState
  <2> QED BY <1>2, <2>1, <2>2 DEF SmsInit, TypeOK
<1>5. DispatchInv
  BY <1>2, <1>3 DEF DispatchInv, MessagesOf
<1>6. JobInv
  BY <1>3 DEF JobInv, JobOk, NoJob
<1>7. LedgerInv /\ CreditsFollowDelivery
  BY <1>3 DEF LedgerInv, CreditsFollowDelivery, Has, Kinds
<1>8. CampaignMatchesItsMessages
  <2> SUFFICES ASSUME NEW c \in Campaigns PROVE MatchOk(c)
    BY MatchesEach
  <2>1. {messages[m] : m \in MessagesOf(c)} \ {"absent"} = {}
    BY <1>3 DEF MessagesOf
  <2> QED BY <1>3, <2>1 DEF MatchOk
<1> QED BY <1>1, <1>4, <1>5, <1>6, <1>7, <1>8 DEF SmsInv

\* dispatch up to its commit writes RESERVE rows and its own record.
LEMMA DispatchingKeeps ==
  ASSUME SmsInv, NEW c \in Campaigns, Dispatching(c)
  PROVE  DeliveryInv'
<1> USE DEF SmsInv
<1>1. UNCHANGED <<messages, campaigns, jobs, status, pc, batch>>
  BY DEF Dispatching, dispatch, CheckBalance, Reserve, FailDispatch, drainVars
<1>2. dispatches[c] \in DispatchState
  BY DEF TypeOK
<1>3. /\ ledger' \in [Kinds -> [Messages -> Nat]]
      /\ \A j \in Kinds, n \in Messages : Has(j, n) => Has(j, n)'
      /\ LedgerInv'
      /\ \A j \in Kinds, n \in Messages : j # "RESERVE" => ledger'[j][n] = ledger[j][n]
      /\ /\ dispatches' \in [Campaigns -> DispatchState]
         /\ dispatches[c].pc # "done" /\ dispatches'[c].pc # "done"
         /\ dispatches'[c].pc = "reserve" => dispatches'[c].todo # {}
         /\ \A p \in dispatches'[c].queued : Has("RESERVE", <<c, p>>)'
         /\ \A d \in Campaigns \ {c} :
              /\ dispatches'[d].pc = dispatches[d].pc /\ dispatches'[d].todo = dispatches[d].todo
              /\ dispatches'[d].queued = dispatches[d].queued
  <2>1. CASE dispatch(c)
    <3>1. PICK recipients \in Audiences :
            dispatches' = [dispatches EXCEPT ![c].pc = "check", ![c].todo = recipients]
      BY <2>1 DEF dispatch
    <3> DEFINE row == [dispatches[c] EXCEPT !.pc = "check", !.todo = recipients]
    <3>2. dispatches' = [dispatches EXCEPT ![c] = row]
      BY <3>1
    <3>3. recipients \subseteq People
      BY GrantsAssumption
    <3>4. row \in DispatchState /\ row.pc = "check" /\ row.queued = dispatches[c].queued
      BY <1>2, <3>3 DEF DispatchState
    <3> HIDE DEF row
    <3>5. ledger' = ledger /\ dispatches[c].pc = "idle"
      BY <2>1 DEF dispatch
    <3> QED BY <3>2, <3>4, <3>5 DEF TypeOK, DispatchInv, LedgerInv, Has
  <2>2. CASE CheckBalance(c)
    <3> DEFINE row == [dispatches[c] EXCEPT !.pc = IF Enough(c) THEN "reserve" ELSE "finish",
                                            !.solo = Enough(c)]
    <3>1. dispatches' = [dispatches EXCEPT ![c] = row]
      BY <2>2 DEF CheckBalance
    <3>2. Enough(c) \in BOOLEAN
      BY DEF Enough
    <3>3. /\ row \in DispatchState /\ row.pc \in {"reserve", "finish"}
          /\ row.queued = dispatches[c].queued /\ row.todo = dispatches[c].todo
      BY <1>2, <3>2 DEF DispatchState
    <3> HIDE DEF row
    <3>4. ledger' = ledger /\ dispatches[c].pc = "check" /\ dispatches[c].todo # {}
      BY <2>2 DEF CheckBalance
    <3> QED BY <3>1, <3>3, <3>4 DEF TypeOK, DispatchInv, LedgerInv, Has
  <2>3. CASE Reserve(c)
    <3>1. dispatches[c].pc = "reserve" /\ dispatches[c].todo # {} /\ dispatches[c].todo \subseteq People
      BY <1>2, <2>3 DEF Reserve, DispatchInv, DispatchState
    <3>2. PICK p : p = Min(dispatches[c].todo)
      OBVIOUS
    <3>3. p \in dispatches[c].todo
      BY <3>1, <3>2, MinInSet, GrantsAssumption
    <3>4. <<c, p>> \in Messages /\ p \in People
      BY <3>1, <3>3 DEF Messages
    <3>5. append("RESERVE", <<c, p>>)
      BY <2>3, <3>2 DEF Reserve
    <3>6. "RESERVE" \in Kinds
      BY DEF Kinds
    <3>7. /\ ledger' \in [Kinds -> [Messages -> Nat]]
          /\ ledger'["RESERVE"][<<c, p>>] = 1
          /\ \A j \in Kinds, n \in Messages :
               <<j, n>> # <<"RESERVE", <<c, p>>>> => ledger'[j][n] = ledger[j][n]
          /\ \A j \in Kinds, n \in Messages : Has(j, n) => Has(j, n)'
      BY <3>4, <3>5, <3>6, AppendEffect DEF TypeOK
    <3>8. LedgerInv'
      <4> SUFFICES ASSUME NEW m \in Messages
                   PROVE  /\ \A k \in Kinds : ledger'[k][m] <= 1
                          /\ ledger'["REFUND"][m] <= ledger'["RESERVE"][m]
        BY DEF LedgerInv, Messages, Kinds
      <4>1. /\ \A k \in Kinds : ledger[k][m] \in Nat /\ ledger[k][m] <= 1
            /\ ledger["REFUND"][m] <= ledger["RESERVE"][m]
        BY DEF LedgerInv, TypeOK
      <4>2. ledger'["REFUND"][m] = ledger["REFUND"][m]
        BY <3>7 DEF Kinds
      <4>3. ledger["REFUND"][m] <= 1 /\ ledger["REFUND"][m] \in Nat
        BY <4>1 DEF Kinds
      <4>4. CASE m = <<c, p>>
        BY <3>7, <4>1, <4>2, <4>3, <4>4
      <4>5. CASE m # <<c, p>>
        BY <3>6, <3>7, <4>1, <4>2, <4>5
      <4> QED BY <4>4, <4>5
    <3> DEFINE row(d) ==
          IF d = c THEN [dispatches[c] EXCEPT !.pc = "check", !.todo = @ \ {p},
                                              !.queued = @ \cup {p}, !.solo = FALSE]
          ELSE [dispatches[d] EXCEPT !.solo = FALSE]
    <3>9. dispatches' = [d \in Campaigns |-> row(d)]
      BY <2>3, <3>2 DEF Reserve
    <3>10. /\ row(c) \in DispatchState /\ row(c).pc = "check"
           /\ row(c).queued = dispatches[c].queued \cup {p}
      BY <1>2, <3>4 DEF DispatchState
    <3>11. \A d \in Campaigns \ {c} :
             /\ row(d) \in DispatchState /\ row(d).pc = dispatches[d].pc
             /\ row(d).todo = dispatches[d].todo /\ row(d).queued = dispatches[d].queued
      <4> SUFFICES ASSUME NEW d \in Campaigns, d # c
                   PROVE  /\ row(d) \in DispatchState /\ row(d).pc = dispatches[d].pc
                          /\ row(d).todo = dispatches[d].todo
                          /\ row(d).queued = dispatches[d].queued
        OBVIOUS
      <4>1. dispatches[d] \in DispatchState
        BY DEF TypeOK
      <4> QED BY <4>1 DEF DispatchState
    <3> HIDE DEF row
    <3>12. dispatches' \in [Campaigns -> DispatchState]
      BY <3>9, <3>10, <3>11
    <3>13. \A q \in dispatches'[c].queued : Has("RESERVE", <<c, q>>)'
      <4>1. \A q \in dispatches[c].queued : q \in People /\ Has("RESERVE", <<c, q>>)
        BY <1>2 DEF DispatchInv, DispatchState
      <4>2. \A q \in dispatches[c].queued : Has("RESERVE", <<c, q>>)'
        BY <3>6, <3>7, <4>1 DEF Messages
      <4>3. Has("RESERVE", <<c, p>>)'
        BY <3>7 DEF Has
      <4> QED BY <3>9, <3>10, <4>2, <4>3
    <3>14. \A j \in Kinds, n \in Messages : j # "RESERVE" => ledger'[j][n] = ledger[j][n]
      BY <3>7
    <3> QED BY <3>1, <3>7, <3>8, <3>9, <3>10, <3>11, <3>12, <3>13, <3>14
  <2>4. CASE FailDispatch(c)
    <3>1. /\ NoDispatch("failed") \in DispatchState /\ NoDispatch("failed").pc = "failed"
          /\ NoDispatch("failed").queued = {}
      BY DEF NoDispatch, DispatchState
    <3>2. /\ ledger' = ledger /\ dispatches[c].pc # "done"
          /\ dispatches' = [dispatches EXCEPT ![c] = NoDispatch("failed")]
      BY <2>4 DEF FailDispatch
    <3> HIDE DEF NoDispatch
    <3> QED BY <3>1, <3>2 DEF TypeOK, DispatchInv, LedgerInv, Has
  <2> QED BY <2>1, <2>2, <2>3, <2>4 DEF Dispatching
<1>4. TypeOK'
  BY <1>1, <1>3 DEF TypeOK
<1>5. DispatchInv'
  <2> SUFFICES ASSUME NEW d \in Campaigns
               PROVE  /\ status'[d] # "absent" => dispatches'[d].pc = "done"
                      /\ dispatches'[d].pc # "done" =>
                           \A m \in MessagesOf(d) : messages'[m] = "absent"
                      /\ dispatches'[d].pc = "reserve" => dispatches'[d].todo # {}
                      /\ \A p \in dispatches'[d].queued : Has("RESERVE", <<d, p>>)'
    BY DEF DispatchInv, MessagesOf, Messages
  <2>1. CASE d = c
    BY <1>1, <1>3, <2>1 DEF DispatchInv
  <2>2. CASE d # c
    <3>1. dispatches[d] \in DispatchState
      BY DEF TypeOK
    <3>2. \A p \in dispatches[d].queued : <<d, p>> \in Messages /\ Has("RESERVE", <<d, p>>)
      BY <3>1 DEF DispatchState, DispatchInv, Messages
    <3>3. \A p \in dispatches[d].queued : Has("RESERVE", <<d, p>>)'
      BY <1>3, <3>2 DEF Kinds
    <3> QED BY <1>1, <1>3, <2>2, <3>3 DEF DispatchInv
  <2> QED BY <2>1, <2>2
<1>6. JobInv'
  <2> SUFFICES ASSUME NEW w \in Workers PROVE JobOk(w)'
    BY DEF JobInv
  <2>1. JobOk(w) /\ jobs[w] \in JobState
    BY DEF JobInv, TypeOK
  <2> QED BY <1>1, <1>3, <2>1, JobFrame
<1>7. CreditsFollowDelivery'
  <2> SUFFICES ASSUME NEW m \in Messages
               PROVE  /\ messages'[m] # "absent" => Has("RESERVE", m)'
                      /\ messages'[m] = "SENT" => Has("COMMIT", m)'
                      /\ messages'[m] = "FAILED" => Has("REFUND", m)'
                      /\ Has("COMMIT", m)' \/ Has("REFUND", m)' => messages'[m] # "absent"
    BY DEF CreditsFollowDelivery, Messages, Has
  <2>1. /\ messages[m] # "absent" => Has("RESERVE", m)
        /\ messages[m] = "SENT" => Has("COMMIT", m)
        /\ messages[m] = "FAILED" => Has("REFUND", m)
        /\ Has("COMMIT", m) \/ Has("REFUND", m) => messages[m] # "absent"
    BY DEF CreditsFollowDelivery
  <2>2. \A k \in {"COMMIT", "REFUND"} : Has(k, m)' => Has(k, m)
    BY <1>3 DEF Has, Kinds
  <2> QED BY <1>1, <1>3, <2>1, <2>2 DEF Kinds
<1>8. CampaignMatchesItsMessages'
  <2> SUFFICES ASSUME NEW d \in Campaigns PROVE MatchOk(d)'
    BY DEF CampaignMatchesItsMessages, MatchOk
  <2>1. MatchOk(d)
    BY MatchesEach
  <2>2. dispatches'[d].pc = "done" <=> dispatches[d].pc = "done"
    BY <1>3
  <2> QED BY <1>1, <2>1, <2>2, MatchFrame
<1> QED BY <1>3, <1>4, <1>5, <1>6, <1>7, <1>8 DEF DeliveryInv


\* dispatch commits: its campaign is in nobody's hands yet.
LEMMA CommitDispatchKeeps ==
  ASSUME SmsInv, NEW c \in Campaigns, CommitDispatch(c)
  PROVE  DeliveryInv'
<1> USE DEF SmsInv
<1>1. /\ AtEnd(c) /\ UNCHANGED <<ledger, jobs, pc, batch>>
      /\ campaigns' = [campaigns EXCEPT ![c] =
           IF dispatches[c].queued # {} THEN "SENDING" ELSE "FAILED"]
      /\ messages' = [m \in Messages |->
           IF m[1] = c /\ m[2] \in dispatches[c].queued THEN "QUEUED" ELSE messages[m]]
      /\ dispatches' = [dispatches EXCEPT ![c] = NoDispatch("done")]
      /\ \A d \in Campaigns \ {c} : status'[d] = status[d]
  BY DEF CommitDispatch, FinishDispatch, Drain!enqueue, drainVars, Outbox!DrainInv, Outbox!TypeOK
<1>2. dispatches[c] \in DispatchState /\ dispatches[c].queued \subseteq People
  BY DEF TypeOK, DispatchState
<1>3. /\ dispatches[c].pc # "done" /\ status[c] = "absent"
      /\ \A m \in MessagesOf(c) : messages[m] = "absent"
  BY <1>1 DEF AtEnd, DispatchInv
<1>4. /\ NoDispatch("done") \in DispatchState /\ NoDispatch("done").pc = "done"
      /\ NoDispatch("done").queued = {}
  BY DEF NoDispatch, DispatchState
<1> HIDE DEF NoDispatch
<1>5. /\ dispatches'[c].pc = "done" /\ dispatches'[c].queued = {}
      /\ \A d \in Campaigns \ {c} : dispatches'[d] = dispatches[d]
  BY <1>1, <1>4 DEF TypeOK
<1>6. TypeOK'
  BY <1>1, <1>4 DEF TypeOK
<1>7. \A d \in Campaigns \ {c} : \A m \in MessagesOf(d) : messages'[m] = messages[m]
  BY <1>1 DEF MessagesOf
<1>8. \A m \in MessagesOf(c) : messages'[m] = IF m[2] \in dispatches[c].queued THEN "QUEUED" ELSE "absent"
  BY <1>1, <1>3 DEF MessagesOf
<1>9. DispatchInv'
  <2> SUFFICES ASSUME NEW d \in Campaigns
               PROVE  /\ status'[d] # "absent" => dispatches'[d].pc = "done"
                      /\ dispatches'[d].pc # "done" =>
                           \A m \in MessagesOf(d) : messages'[m] = "absent"
                      /\ dispatches'[d].pc = "reserve" => dispatches'[d].todo # {}
                      /\ \A p \in dispatches'[d].queued : Has("RESERVE", <<d, p>>)'
    BY DEF DispatchInv, MessagesOf, Messages
  <2> QED BY <1>1, <1>5, <1>7 DEF DispatchInv, Has
<1>10. JobInv'
  <2> SUFFICES ASSUME NEW w \in Workers PROVE JobOk(w)'
    BY DEF JobInv
  <2>1. JobOk(w) /\ jobs[w] \in JobState
    BY DEF JobInv, TypeOK
  <2>2. ASSUME pc[w] = "handling"
        PROVE  \A m \in MessagesOf(Current(w)) : messages'[m] = messages[m]
    <3>1. Current(w) \in Campaigns /\ status[Current(w)] = "PROCESSED"
      BY <2>2, AtOwnRow
    <3>2. Current(w) # c
      BY <1>3, <3>1
    <3> QED BY <1>7, <3>1, <3>2
  <2>3. \A j \in Kinds, n \in Messages : Has(j, n) => Has(j, n)'
    BY <1>1 DEF Has
  <2> QED BY <1>1, <2>1, <2>2, <2>3, JobFrame
<1>11. LedgerInv'
  BY <1>1 DEF LedgerInv
<1>12. CreditsFollowDelivery'
  <2> SUFFICES ASSUME NEW m \in Messages
               PROVE  /\ messages'[m] # "absent" => Has("RESERVE", m)
                      /\ messages'[m] = "SENT" => Has("COMMIT", m)
                      /\ messages'[m] = "FAILED" => Has("REFUND", m)
                      /\ Has("COMMIT", m) \/ Has("REFUND", m) => messages'[m] # "absent"
    BY <1>1 DEF CreditsFollowDelivery, Messages, Has
  <2>1. /\ messages[m] # "absent" => Has("RESERVE", m)
        /\ messages[m] = "SENT" => Has("COMMIT", m)
        /\ messages[m] = "FAILED" => Has("REFUND", m)
        /\ Has("COMMIT", m) \/ Has("REFUND", m) => messages[m] # "absent"
    BY DEF CreditsFollowDelivery
  <2>2. CASE m[1] = c
    <3>1. m \in MessagesOf(c) /\ m = <<c, m[2]>>
      BY <2>2 DEF MessagesOf, Messages
    <3>2. messages[m] = "absent" /\ ~Has("COMMIT", m) /\ ~Has("REFUND", m)
      BY <1>3, <2>1, <3>1
    <3>3. m[2] \in dispatches[c].queued => Has("RESERVE", m)
      BY <3>1 DEF DispatchInv
    <3> QED BY <1>8, <3>1, <3>2, <3>3
  <2>3. CASE m[1] # c
    BY <1>1, <2>1, <2>3
  <2> QED BY <2>2, <2>3
<1>13. CampaignMatchesItsMessages'
  <2> SUFFICES ASSUME NEW d \in Campaigns PROVE MatchOk(d)'
    BY DEF CampaignMatchesItsMessages, MatchOk
  <2>1. CASE d # c
    <3>1. MatchOk(d)
      BY MatchesEach
    <3>2. dispatches'[d] = dispatches[d] /\ campaigns'[d] = campaigns[d]
      BY <1>1, <1>5, <2>1 DEF TypeOK
    <3> QED BY <1>7, <2>1, <3>1, <3>2, MatchFrame
  <2>2. CASE d = c
    <3> DEFINE have == {messages'[m] : m \in MessagesOf(c)} \ {"absent"}
    <3>1. campaigns'[c] = IF dispatches[c].queued # {} THEN "SENDING" ELSE "FAILED"
      BY <1>1 DEF TypeOK
    <3>2. CASE dispatches[c].queued = {}
      <4>1. have = {}
        BY <1>8, <3>2
      <4> QED BY <1>5, <2>2, <3>1, <3>2, <4>1 DEF MatchOk, MessagesOf, Messages
    <3>3. CASE dispatches[c].queued # {}
      <4>1. PICK p \in People : p \in dispatches[c].queued
        BY <1>2, <3>3
      <4>2. <<c, p>> \in MessagesOf(c) /\ messages'[<<c, p>>] = "QUEUED"
        BY <1>8, <4>1 DEF MessagesOf, Messages
      <4>3. have = {"QUEUED"}
        BY <1>8, <4>2
      <4> QED BY <2>2, <3>1, <3>3, <4>3 DEF MatchOk, MessagesOf, Messages
    <3> QED BY <3>2, <3>3
  <2> QED BY <2>1, <2>2
<1> QED BY <1>6, <1>9, <1>10, <1>11, <1>12, <1>13 DEF DeliveryInv

\* The drain's own steps touch no SMS data and no running handler.
LEMMA DrainingKeeps ==
  ASSUME SmsInv, NEW w \in Workers, Draining(w)
  PROVE  DeliveryInv'
<1> USE DEF SmsInv
<1>1. UNCHANGED <<ledger, messages, campaigns, dispatches, jobs>>
  BY DEF Draining, smsVars
<1>2. /\ status \in [Campaigns -> {"PENDING", "PROCESSED", "FAILED", "absent"}]
      /\ pc \in [Workers -> {"idle", "claiming", "looping", "handling", "reopening"}]
      /\ batch \in [Workers -> SUBSET Campaigns]
  BY DEF Outbox!DrainInv, Outbox!TypeOK, Outbox!OutboxStatus
<1>3. /\ \A v \in Workers : pc'[v] = "handling" <=> pc[v] = "handling"
      /\ \A v \in Workers : pc[v] = "handling" => batch'[v] = batch[v]
      /\ \A c \in Campaigns : status'[c] # "absent" => status[c] # "absent"
  <2>1. CASE Drain!Select(w)
    BY <1>2, <2>1 DEF Drain!Select
  <2>2. CASE Drain!Claim(w)
    <3>1. batch[w] \subseteq {m \in Campaigns : status[m] = "PENDING"}
      BY <2>2 DEF Drain!Claim, Outbox!DrainInv, Outbox!Ownership, Outbox!Pending
    <3> QED BY <1>2, <2>2, <3>1 DEF Drain!Claim
  <2>3. CASE Drain!EndTick(w)
    BY <1>2, <2>3 DEF Drain!EndTick
  <2>4. CASE Drain!Reopen(w)
    <3>1. pc[w] = "reopening" /\ batch[w] # {}
      BY <2>4 DEF Drain!Reopen, Outbox!DrainInv, Outbox!Ownership
    <3>2. Drain!Current(w) = Outbox!Current(w)
      BY DEF Drain!Current, Outbox!Current, Drain!Min, Outbox!Min
    <3>3. Drain!Current(w) \in batch[w]
      BY <3>1, <3>2, OutboxAssumption, Outbox!CurrentInBatch DEF Outbox!DrainInv
    <3>4. status[Drain!Current(w)] = "PROCESSED"
      BY <3>1, <3>3 DEF Outbox!DrainInv, Outbox!Ownership, Outbox!Owning
    <3> QED BY <1>2, <2>4, <3>1, <3>4 DEF Drain!Reopen
  <2> QED BY <2>1, <2>2, <2>3, <2>4 DEF Draining
<1>4. TypeOK' /\ LedgerInv' /\ CreditsFollowDelivery'
  BY <1>1 DEF TypeOK, LedgerInv, CreditsFollowDelivery, Has
<1>5. DispatchInv'
  BY <1>1, <1>3 DEF DispatchInv, MessagesOf, Messages, Has
<1>6. JobInv'
  <2> SUFFICES ASSUME NEW v \in Workers PROVE JobOk(v)'
    BY DEF JobInv
  <2>1. JobOk(v) /\ jobs[v] \in JobState
    BY DEF JobInv, TypeOK
  <2>2. \A j \in Kinds, n \in Messages : Has(j, n) => Has(j, n)'
    BY <1>1 DEF Has
  <2> QED BY <1>1, <1>3, <2>1, <2>2, JobFrame
<1>7. CampaignMatchesItsMessages'
  <2> SUFFICES ASSUME NEW d \in Campaigns PROVE MatchOk(d)'
    BY DEF CampaignMatchesItsMessages, MatchOk
  <2>1. MatchOk(d)
    BY MatchesEach
  <2> QED BY <1>1, <2>1, MatchFrame
<1> QED BY <1>4, <1>5, <1>6, <1>7 DEF DeliveryInv


\* What a step of worker w leaves of the outbox to the others.
OthersUndisturbed(w) ==
  /\ status' = status
  /\ \A v \in Workers \ {w} : pc'[v] = pc[v] /\ batch'[v] = batch[v] /\ jobs'[v] = jobs[v]

\* A handler starts: it reads what is QUEUED for its row's campaign.
LEMMA StartJobKeeps ==
  ASSUME SmsInv, NEW w \in Workers, StartJob(w)
  PROVE  DeliveryInv'
<1> USE DEF SmsInv
<1>1. PICK c : c = Current(w)
  OBVIOUS
<1>2. /\ pc[w] = "looping" /\ pc' = [pc EXCEPT ![w] = "handling"]
      /\ batch' = batch /\ status' = status
      /\ UNCHANGED <<ledger, messages, campaigns, dispatches>>
  BY DEF StartJob, Drain!StartHandler, ReadPending
<1>3. pc \in [Workers -> {"idle", "claiming", "looping", "handling", "reopening"}]
  BY DEF Outbox!DrainInv, Outbox!TypeOK
<1>4. jobs[w] = NoJob /\ jobs \in [Workers -> JobState]
  BY <1>2 DEF JobInv, JobOk, TypeOK
<1> DEFINE row == [NoJob EXCEPT !.pc = IF Pending(c) = {} THEN "return" ELSE "send",
                                !.pending = Pending(c)]
<1>5. jobs' = [jobs EXCEPT ![w] = row]
  BY <1>1, <1>4 DEF StartJob, ReadPending
<1>6. /\ row.pc = (IF Pending(c) = {} THEN "return" ELSE "send")
      /\ row.pending = Pending(c) /\ row.ok = {} /\ row.settled = {} /\ row \in JobState
  BY DEF NoJob, JobState, Pending, MessagesOf
<1> HIDE DEF row
<1>7. /\ jobs'[w] = row /\ \A v \in Workers \ {w} : jobs'[v] = jobs[v] /\ pc'[v] = pc[v]
      /\ pc'[w] = "handling" /\ jobs' \in [Workers -> JobState]
  BY <1>2, <1>3, <1>4, <1>5, <1>6
<1>8. JobInv'
  <2> SUFFICES ASSUME NEW v \in Workers PROVE JobOk(v)'
    BY DEF JobInv
  <2>1. CASE v = w
    <3>1. Current(w)' = c
      BY <1>1, <1>2 DEF Current, Drain!Current
    <3>2. Pending(Current(w))' = Pending(c)
      BY <1>2, <3>1 DEF Pending, MessagesOf, Messages
    <3> QED BY <1>6, <1>7, <2>1, <3>2 DEF JobOk
  <2>2. CASE v # w
    <3>1. JobOk(v) /\ jobs[v] \in JobState
      BY DEF JobInv, TypeOK
    <3>2. \A j \in Kinds, n \in Messages : Has(j, n) => Has(j, n)'
      BY <1>2 DEF Has
    <3> QED BY <1>2, <1>7, <2>2, <3>1, <3>2, JobFrame
  <2> QED BY <2>1, <2>2
<1>9. TypeOK' /\ LedgerInv' /\ CreditsFollowDelivery' /\ DispatchInv'
  BY <1>2, <1>7 DEF TypeOK, LedgerInv, CreditsFollowDelivery, Has, DispatchInv, MessagesOf, Messages
<1>10. CampaignMatchesItsMessages'
  <2> SUFFICES ASSUME NEW d \in Campaigns PROVE MatchOk(d)'
    BY DEF CampaignMatchesItsMessages, MatchOk
  <2>1. MatchOk(d)
    BY MatchesEach
  <2> QED BY <1>2, <2>1, MatchFrame
<1> QED BY <1>8, <1>9, <1>10 DEF DeliveryInv

\* A job ends without recording anything.
LEMMA DropJobKeeps ==
  ASSUME SmsInv, NEW w \in Workers, DropJob(w), OthersUndisturbed(w), pc'[w] # "handling"
  PROVE  DeliveryInv'
<1> USE DEF SmsInv
<1>1. UNCHANGED <<ledger, messages, campaigns, dispatches, status>>
  BY DEF DropJob, OthersUndisturbed
<1>2. NoJob \in JobState
  BY DEF NoJob, JobState
<1>3. jobs'[w] = NoJob /\ jobs' \in [Workers -> JobState]
  BY <1>2 DEF DropJob, TypeOK
<1>4. JobInv'
  <2> SUFFICES ASSUME NEW v \in Workers PROVE JobOk(v)'
    BY DEF JobInv
  <2>1. CASE v = w
    BY <1>3, <2>1 DEF JobOk, NoJob
  <2>2. CASE v # w
    <3>1. JobOk(v) /\ jobs[v] \in JobState
      BY DEF JobInv, TypeOK
    <3>2. \A j \in Kinds, n \in Messages : Has(j, n) => Has(j, n)'
      BY <1>1 DEF Has
    <3> QED BY <1>1, <2>2, <3>1, <3>2, JobFrame DEF OthersUndisturbed
  <2> QED BY <2>1, <2>2
<1>5. TypeOK' /\ LedgerInv' /\ CreditsFollowDelivery' /\ DispatchInv'
  BY <1>1, <1>3 DEF TypeOK, LedgerInv, CreditsFollowDelivery, Has, DispatchInv, MessagesOf, Messages
<1>6. CampaignMatchesItsMessages'
  <2> SUFFICES ASSUME NEW d \in Campaigns PROVE MatchOk(d)'
    BY DEF CampaignMatchesItsMessages, MatchOk
  <2>1. MatchOk(d)
    BY MatchesEach
  <2> QED BY <1>1, <2>1, MatchFrame
<1> QED BY <1>4, <1>5, <1>6 DEF DeliveryInv

\* A job commits its outcome: the messages it read are still QUEUED, and they
\* are all that its campaign has.
LEMMA CommitJobKeeps ==
  ASSUME SmsInv, NEW w \in Workers, pc[w] = "handling", CommitJob(w, Current(w)),
         OthersUndisturbed(w), pc'[w] # "handling"
  PROVE  DeliveryInv'
<1> USE DEF SmsInv
<1>1. PICK c \in Campaigns : c = Current(w)
  BY AtOwnRow
<1>2. PICK ok, pending : ok = jobs[w].ok /\ pending = jobs[w].pending
  OBVIOUS
<1>3. /\ jobs[w].pc = "settle" /\ jobs[w].settled = pending
      /\ UNCHANGED <<ledger, dispatches>> /\ jobs' = [jobs EXCEPT ![w] = NoJob]
      /\ campaigns' = [campaigns EXCEPT ![c] = Outcome(w)]
      /\ messages' = [m \in Messages |->
           CASE m \in ok               -> "SENT"
             [] m \in pending \ ok     -> "FAILED"
             [] OTHER                  -> messages[m]]
  BY <1>1, <1>2 DEF CommitJob
<1>4. /\ ok \subseteq pending /\ pending # {} /\ pending = Pending(c)
      /\ \A m \in pending : Has(Settlement(w, m), m)
  BY <1>1, <1>2, <1>3 DEF JobInv, JobOk
<1>5. \A m \in Messages : m \in pending <=> m[1] = c /\ messages[m] = "QUEUED"
  BY <1>4 DEF Pending, MessagesOf
<1>6. pending \subseteq Messages
  BY <1>4 DEF Pending, MessagesOf
<1>7. \A m \in Messages : messages'[m] = IF m \in ok THEN "SENT"
                                         ELSE IF m \in pending THEN "FAILED" ELSE messages[m]
  BY <1>3, <1>4
<1>8. \A d \in Campaigns \ {c} : \A m \in MessagesOf(d) : messages'[m] = messages[m]
  BY <1>4, <1>5, <1>7 DEF MessagesOf
<1>9. status[c] = "PROCESSED" /\ dispatches[c].pc = "done"
  BY <1>1, AtOwnRow DEF DispatchInv
<1>10. NoJob \in JobState
  BY DEF NoJob, JobState
<1>11. jobs'[w] = NoJob /\ jobs' \in [Workers -> JobState]
  BY <1>3, <1>10 DEF TypeOK
<1>12. Outcome(w) = IF ok = pending THEN "SENT" ELSE IF ok = {} THEN "FAILED" ELSE "PARTIAL"
  BY <1>2, <1>4 DEF Outcome
<1>13. TypeOK'
  <2>1. messages' \in [Messages -> {"absent", "QUEUED", "SENT", "FAILED"}]
    BY <1>3, <1>7 DEF TypeOK
  <2>2. campaigns' \in [Campaigns -> {"absent", "SENDING", "SENT", "PARTIAL", "FAILED"}]
    BY <1>3, <1>12 DEF TypeOK
  <2> QED BY <1>3, <1>11, <2>1, <2>2 DEF TypeOK
<1>14. DispatchInv'
  <2> SUFFICES ASSUME NEW d \in Campaigns
               PROVE  /\ status'[d] # "absent" => dispatches'[d].pc = "done"
                      /\ dispatches'[d].pc # "done" =>
                           \A m \in MessagesOf(d) : messages'[m] = "absent"
                      /\ dispatches'[d].pc = "reserve" => dispatches'[d].todo # {}
                      /\ \A p \in dispatches'[d].queued : Has("RESERVE", <<d, p>>)'
    BY DEF DispatchInv, MessagesOf, Messages
  <2> QED BY <1>3, <1>8, <1>9 DEF DispatchInv, Has, OthersUndisturbed
<1>15. JobInv'
  <2> SUFFICES ASSUME NEW v \in Workers PROVE JobOk(v)'
    BY DEF JobInv
  <2>1. CASE v = w
    BY <1>11, <2>1 DEF JobOk, NoJob
  <2>2. CASE v # w
    <3>1. JobOk(v) /\ jobs[v] \in JobState
      BY DEF JobInv, TypeOK
    <3>2. \A j \in Kinds, n \in Messages : Has(j, n) => Has(j, n)'
      BY <1>3 DEF Has
    <3>3. pc[v] = "handling" => Current(v) \in Campaigns \ {c}
      BY <1>1, <2>2, AtOwnRow
    <3>4. pc[v] = "handling" => \A m \in MessagesOf(Current(v)) : messages'[m] = messages[m]
      BY <1>8, <3>3
    <3>5. jobs'[v] = jobs[v] /\ pc'[v] = pc[v] /\ batch'[v] = batch[v]
      BY <2>2 DEF OthersUndisturbed
    <3> QED BY <3>1, <3>2, <3>4, <3>5, JobFrame
  <2> QED BY <2>1, <2>2
<1>16. LedgerInv'
  BY <1>3 DEF LedgerInv
<1>17. CreditsFollowDelivery'
  <2> SUFFICES ASSUME NEW m \in Messages
               PROVE  /\ messages'[m] # "absent" => Has("RESERVE", m)
                      /\ messages'[m] = "SENT" => Has("COMMIT", m)
                      /\ messages'[m] = "FAILED" => Has("REFUND", m)
                      /\ Has("COMMIT", m) \/ Has("REFUND", m) => messages'[m] # "absent"
    BY <1>3 DEF CreditsFollowDelivery, Messages, Has
  <2>1. /\ messages[m] # "absent" => Has("RESERVE", m)
        /\ messages[m] = "SENT" => Has("COMMIT", m)
        /\ messages[m] = "FAILED" => Has("REFUND", m)
        /\ Has("COMMIT", m) \/ Has("REFUND", m) => messages[m] # "absent"
    BY DEF CreditsFollowDelivery
  <2>2. m \in ok => Has("COMMIT", m)
    BY <1>2, <1>4 DEF Settlement
  <2>3. m \in pending \ ok => Has("REFUND", m)
    BY <1>2, <1>4 DEF Settlement
  <2> QED BY <1>4, <1>5, <1>7, <2>1, <2>2, <2>3
<1>18. CampaignMatchesItsMessages'
  <2> SUFFICES ASSUME NEW d \in Campaigns PROVE MatchOk(d)'
    BY DEF CampaignMatchesItsMessages, MatchOk
  <2>1. MatchOk(d)
    BY MatchesEach
  <2>2. CASE d # c
    <3>1. dispatches'[d] = dispatches[d] /\ campaigns'[d] = campaigns[d]
      BY <1>3, <2>2 DEF TypeOK
    <3> QED BY <1>8, <2>1, <2>2, <3>1, MatchFrame
  <2>3. CASE d = c
    <3> DEFINE have == {messages[m] : m \in MessagesOf(c)} \ {"absent"}
               after == {messages'[m] : m \in MessagesOf(c)} \ {"absent"}
    <3>1. "QUEUED" \in have
      BY <1>4 DEF Pending
    <3>2. campaigns[c] # "mixed"
      BY DEF TypeOK
    <3>3. have = {"QUEUED"}
      BY <2>1, <2>3, <3>1, <3>2 DEF MatchOk
    <3>4. \A m \in MessagesOf(c) : m \notin pending => messages[m] = "absent"
      BY <1>5, <3>3 DEF MessagesOf
    <3>5. \A m \in MessagesOf(c) : messages'[m] = IF m \in ok THEN "SENT"
                                   ELSE IF m \in pending THEN "FAILED" ELSE "absent"
      BY <1>4, <1>7, <3>4 DEF MessagesOf
    <3>6. pending \subseteq MessagesOf(c)
      BY <1>4 DEF Pending
    <3> HIDE DEF have
    <3>7. campaigns'[c] = Outcome(w)
      BY <1>3 DEF TypeOK
    <3>8. CASE ok = pending
      <4>1. after = {"SENT"}
        BY <1>4, <3>5, <3>6, <3>8
      <4> QED BY <1>12, <2>3, <3>7, <3>8, <4>1 DEF MatchOk, MessagesOf, Messages
    <3>9. CASE ok # pending /\ ok = {}
      <4>1. after = {"FAILED"}
        BY <1>4, <3>5, <3>6, <3>9
      <4> QED BY <1>12, <2>3, <3>7, <3>9, <4>1 DEF MatchOk, MessagesOf, Messages
    <3>10. CASE ok # pending /\ ok # {}
      <4>1. "SENT" \in after /\ "FAILED" \in after /\ after \subseteq {"SENT", "FAILED"}
        BY <1>4, <3>5, <3>6, <3>10
      <4>2. after = {"SENT", "FAILED"}
        BY <4>1
      <4> QED BY <1>12, <2>3, <3>7, <3>10, <4>2 DEF MatchOk, MessagesOf, Messages
    <3> QED BY <3>8, <3>9, <3>10
  <2> QED BY <2>2, <2>3
<1> QED BY <1>13, <1>14, <1>15, <1>16, <1>17, <1>18 DEF DeliveryInv


\* The gateway answers, or one message is settled in the ledger.
LEMMA RunJobKeeps ==
  ASSUME SmsInv, NEW w \in Workers, RunJob(w)
  PROVE  DeliveryInv'
<1> USE DEF SmsInv
<1>1. UNCHANGED <<messages, campaigns, dispatches, status, pc, batch>>
  BY DEF RunJob, sendBulk, Settle, drainVars
<1>2. jobs[w] \in JobState /\ jobs[w].pc \in {"send", "settle"} /\ JobOk(w)
  BY DEF RunJob, sendBulk, Settle, TypeOK, JobInv
<1>3. pc[w] = "handling" /\ jobs[w].pending = Pending(Current(w)) /\ jobs[w].pending # {}
  BY <1>2 DEF JobOk
<1>4. Pending(Current(w))' = Pending(Current(w))
  BY <1>1 DEF Pending, MessagesOf, Messages, Current, Drain!Current
<1> DEFINE Kept ==
      /\ ledger' \in [Kinds -> [Messages -> Nat]] /\ LedgerInv' /\ CreditsFollowDelivery'
      /\ \A j \in Kinds, n \in Messages : Has(j, n) => Has(j, n)'
      /\ jobs' \in [Workers -> JobState] /\ JobOk(w)'
      /\ \A v \in Workers \ {w} : jobs'[v] = jobs[v]
<1>5. Kept
  <2>1. CASE sendBulk(w)
    <3>1. PICK accepted \in SUBSET jobs[w].pending :
            jobs' = [jobs EXCEPT ![w].pc = "settle", ![w].ok = accepted]
      BY <2>1 DEF sendBulk
    <3> DEFINE row == [jobs[w] EXCEPT !.pc = "settle", !.ok = accepted]
    <3>2. jobs' = [jobs EXCEPT ![w] = row]
      BY <3>1
    <3>3. /\ row \in JobState /\ row.pc = "settle" /\ row.ok = accepted
          /\ row.pending = jobs[w].pending /\ row.settled = jobs[w].settled
      BY <1>2 DEF JobState
    <3> HIDE DEF row
    <3>4. ledger' = ledger /\ jobs[w].pc = "send" /\ jobs[w].settled = {}
      BY <1>2, <2>1 DEF sendBulk, JobOk
    <3>5. jobs'[w] = row /\ jobs' \in [Workers -> JobState]
          /\ \A v \in Workers \ {w} : jobs'[v] = jobs[v]
      BY <3>2, <3>3 DEF TypeOK
    <3>6. JobOk(w)'
      BY <1>1, <1>3, <1>4, <3>3, <3>4, <3>5 DEF JobOk
    <3>7. LedgerInv' /\ CreditsFollowDelivery'
      BY <1>1, <3>4 DEF LedgerInv, CreditsFollowDelivery, Has
    <3> QED BY <3>4, <3>5, <3>6, <3>7 DEF TypeOK, Has
  <2>2. ASSUME NEW m \in Messages, Settle(w, m) PROVE Kept
    <3>1. PICK k : k = Settlement(w, m)
      OBVIOUS
    <3>2. k \in {"COMMIT", "REFUND"} /\ k \in Kinds /\ append(k, m)
      BY <2>2, <3>1 DEF Settle, Settlement, Kinds
    <3>3. /\ ledger' \in [Kinds -> [Messages -> Nat]]
          /\ ledger'[k][m] = 1
          /\ \A j \in Kinds, n \in Messages : <<j, n>> # <<k, m>> => ledger'[j][n] = ledger[j][n]
          /\ \A j \in Kinds, n \in Messages : Has(j, n) => Has(j, n)'
      BY <3>2, AppendEffect DEF TypeOK
    <3>4. m \in jobs[w].pending /\ messages[m] = "QUEUED"
      BY <1>3, <2>2 DEF Settle, Pending
    <3>5. \A n \in Messages :
            /\ messages[n] # "absent" => Has("RESERVE", n)
            /\ messages[n] = "SENT" => Has("COMMIT", n)
            /\ messages[n] = "FAILED" => Has("REFUND", n)
            /\ Has("COMMIT", n) \/ Has("REFUND", n) => messages[n] # "absent"
      BY DEF CreditsFollowDelivery
    <3>6. LedgerInv'
      <4> SUFFICES ASSUME NEW n \in Messages
                   PROVE  /\ \A j \in Kinds : ledger'[j][n] <= 1
                          /\ ledger'["REFUND"][n] <= ledger'["RESERVE"][n]
        BY DEF LedgerInv, Messages, Kinds
      <4>1. /\ \A j \in Kinds : ledger[j][n] \in Nat /\ ledger[j][n] <= 1
            /\ ledger["REFUND"][n] <= ledger["RESERVE"][n]
        BY DEF LedgerInv, TypeOK
      <4>2. CASE n # m
        BY <3>3, <4>1, <4>2 DEF Kinds
      <4>3. CASE n = m
        <5>1. \A j \in Kinds : ledger'[j][n] <= 1
          BY <3>3, <4>1, <4>3
        <5>2. ledger'["RESERVE"][m] = ledger["RESERVE"][m]
          BY <3>2, <3>3 DEF Kinds
        <5>3. ledger["RESERVE"][m] = 1
          BY <3>4, <3>5, <4>1, <4>3 DEF Has, Kinds
        <5>4. "REFUND" \in Kinds
          BY DEF Kinds
        <5> QED BY <4>3, <5>1, <5>2, <5>3, <5>4
      <4> QED BY <4>2, <4>3
    <3>7. CreditsFollowDelivery'
      <4> SUFFICES ASSUME NEW n \in Messages
                   PROVE  /\ messages[n] # "absent" => Has("RESERVE", n)'
                          /\ messages[n] = "SENT" => Has("COMMIT", n)'
                          /\ messages[n] = "FAILED" => Has("REFUND", n)'
                          /\ Has("COMMIT", n)' \/ Has("REFUND", n)' => messages[n] # "absent"
        BY <1>1 DEF CreditsFollowDelivery, Messages, Has
      <4>1. \A j \in Kinds : Has(j, n) => Has(j, n)'
        BY <3>3
      <4>2. CASE n = m
        BY <3>4, <3>5, <4>1, <4>2 DEF Kinds
      <4>3. CASE n # m
        <5>1. \A j \in Kinds : Has(j, n)' => Has(j, n)
          BY <3>3, <4>3 DEF Has
        <5> QED BY <3>5, <4>1, <5>1 DEF Kinds
      <4> QED BY <4>2, <4>3
    <3> DEFINE row == [jobs[w] EXCEPT !.settled = @ \cup {m}]
    <3>8. jobs' = [jobs EXCEPT ![w] = row] /\ jobs[w].pc = "settle"
      BY <2>2 DEF Settle
    <3>9. /\ row \in JobState /\ row.pc = jobs[w].pc /\ row.ok = jobs[w].ok
          /\ row.pending = jobs[w].pending /\ row.settled = jobs[w].settled \cup {m}
      BY <1>2 DEF JobState
    <3> HIDE DEF row
    <3>10. jobs'[w] = row /\ jobs' \in [Workers -> JobState]
           /\ \A v \in Workers \ {w} : jobs'[v] = jobs[v]
      BY <3>8, <3>9 DEF TypeOK
    <3>11. \A n \in jobs'[w].settled : Has(Settlement(w, n), n)'
      <4> SUFFICES ASSUME NEW n \in jobs'[w].settled PROVE Has(Settlement(w, n), n)'
        OBVIOUS
      <4>1. PICK j \in Kinds : j = Settlement(w, n)
        BY DEF Settlement, Kinds
      <4>2. Settlement(w, n)' = j
        BY <3>9, <3>10, <4>1 DEF Settlement
      <4>3. Has(j, n)'
        <5>1. CASE n = m
          <6>1. j = k
            BY <3>1, <4>1, <5>1
          <6> QED BY <3>3, <5>1, <6>1 DEF Has
        <5>2. CASE n # m
          <6>1. n \in jobs[w].settled /\ n \in Messages
            BY <1>2, <3>9, <3>10, <5>2 DEF JobState
          <6>2. Has(j, n)
            BY <1>2, <4>1, <6>1 DEF JobOk
          <6> QED BY <3>3, <6>1, <6>2
        <5> QED BY <5>1, <5>2
      <4> QED BY <4>2, <4>3 DEF Has
    <3>12. JobOk(w)'
      BY <1>1, <1>2, <1>3, <1>4, <3>4, <3>8, <3>9, <3>10, <3>11 DEF JobOk
    <3> QED BY <3>3, <3>6, <3>7, <3>10, <3>12
  <2> QED BY <2>1, <2>2 DEF RunJob
<1>6. TypeOK' /\ DispatchInv'
  <2>1. DispatchInv'
    <3>1. \A c \in Campaigns : \A p \in dispatches[c].queued :
            <<c, p>> \in Messages /\ Has("RESERVE", <<c, p>>)
      BY DEF DispatchInv, TypeOK, DispatchState, Messages
    <3>2. \A c \in Campaigns : \A p \in dispatches[c].queued : Has("RESERVE", <<c, p>>)'
      BY <1>5, <3>1 DEF Kinds
    <3> QED BY <1>1, <3>2 DEF DispatchInv, MessagesOf, Messages
  <2> QED BY <1>1, <1>5, <2>1 DEF TypeOK
<1>7. JobInv'
  <2> SUFFICES ASSUME NEW v \in Workers, v # w PROVE JobOk(v)'
    BY <1>5 DEF JobInv
  <2>1. JobOk(v) /\ jobs[v] \in JobState
    BY DEF JobInv, TypeOK
  <2> QED BY <1>1, <1>5, <2>1, JobFrame
<1>8. CampaignMatchesItsMessages'
  <2> SUFFICES ASSUME NEW d \in Campaigns PROVE MatchOk(d)'
    BY DEF CampaignMatchesItsMessages, MatchOk
  <2>1. MatchOk(d)
    BY MatchesEach
  <2> QED BY <1>1, <2>1, MatchFrame
<1> QED BY <1>5, <1>6, <1>7, <1>8 DEF DeliveryInv

\* Every step preserves the invariant.
LEMMA SmsStep == SmsInv /\ [Next]_vars => SmsInv'
<1> SUFFICES ASSUME SmsInv, [Next]_vars PROVE DeliveryInv'
  BY OutboxKept DEF SmsInv, DeliveryInv
<1>1. ASSUME NEW c \in Campaigns, Dispatching(c) \/ CommitDispatch(c) PROVE DeliveryInv'
  BY <1>1, DispatchingKeeps, CommitDispatchKeeps
<1>2. ASSUME NEW w \in Workers, Work(w) \/ WorkerFault(w) PROVE DeliveryInv'
  <2>1. /\ pc \in [Workers -> {"idle", "claiming", "looping", "handling", "reopening"}]
        /\ batch \in [Workers -> SUBSET Campaigns]
    BY DEF SmsInv, Outbox!DrainInv, Outbox!TypeOK
  <2>2. ASSUME DropJob(w) \/ CommitJob(w, Current(w)),
               Drain!HandlerReturns(w) \/ Drain!HandlerThrows(w) \/ Drain!Fault(w)
        PROVE  OthersUndisturbed(w) /\ pc'[w] # "handling"
    <3>1. \A v \in Workers \ {w} : jobs'[v] = jobs[v]
      BY <2>2 DEF DropJob, CommitJob, SmsInv, TypeOK
    <3>2. /\ status' = status /\ pc'[w] # "handling"
          /\ \A v \in Workers \ {w} : pc'[v] = pc[v] /\ batch'[v] = batch[v]
      BY <2>1, <2>2 DEF Drain!HandlerReturns, Drain!HandlerThrows, Drain!Fault
    <3> QED BY <3>1, <3>2 DEF OthersUndisturbed
  <2>3. CASE JobReturns(w) \/ JobThrows(w)
    <3>1. pc[w] = "handling" /\ (Drain!HandlerReturns(w) \/ Drain!HandlerThrows(w))
      BY <2>3 DEF JobReturns, JobThrows, Drain!HandlerReturns, Drain!HandlerThrows
    <3>2. DropJob(w) \/ CommitJob(w, Current(w))
      BY <2>3 DEF JobReturns, JobThrows
    <3> QED BY <2>2, <3>1, <3>2, DropJobKeeps, CommitJobKeeps
  <2>4. CASE WorkerFault(w)
    BY <2>2, <2>4, DropJobKeeps DEF WorkerFault
  <2>5. CASE Draining(w) \/ StartJob(w) \/ RunJob(w)
    BY <2>5, DrainingKeeps, StartJobKeeps, RunJobKeeps
  <2> QED BY <1>2, <2>3, <2>4, <2>5 DEF Work
<1>3. ASSUME UNCHANGED vars PROVE DeliveryInv'
  <2>1. UNCHANGED <<ledger, messages, campaigns, dispatches, jobs, status, pc, batch>>
    BY <1>3 DEF vars, smsVars, drainVars
  <2>2. TypeOK' /\ LedgerInv' /\ CreditsFollowDelivery' /\ DispatchInv'
    BY <2>1 DEF SmsInv, TypeOK, LedgerInv, CreditsFollowDelivery, Has, DispatchInv, MessagesOf,
       Messages
  <2>3. JobInv'
    <3> SUFFICES ASSUME NEW v \in Workers PROVE JobOk(v)'
      BY DEF JobInv
    <3>1. JobOk(v) /\ jobs[v] \in JobState
      BY DEF SmsInv, JobInv, TypeOK
    <3>2. \A j \in Kinds, n \in Messages : Has(j, n) => Has(j, n)'
      BY <2>1 DEF Has
    <3> QED BY <2>1, <3>1, <3>2, JobFrame
  <2>4. CampaignMatchesItsMessages'
    <3> SUFFICES ASSUME NEW d \in Campaigns PROVE MatchOk(d)'
      BY DEF CampaignMatchesItsMessages, MatchOk
    <3>1. MatchOk(d)
      BY MatchesEach DEF SmsInv
    <3> QED BY <2>1, <3>1, MatchFrame
  <2> QED BY <2>2, <2>3, <2>4 DEF DeliveryInv
<1> QED BY <1>1, <1>2, <1>3 DEF Next

-----------------------------------------------------------------------------
(* Theorems.                                                               *)

\* SMS delivery uses the outbox as OutboxDrain has it: dispatch enqueues,
\* processCampaign is the handler, and no other step touches its rows.
THEOREM OutboxIsImplemented == Spec => Outbox!Spec
<1>1. Init => Outbox!Init
  BY DEF Init, Drain!Init, Outbox!Init
<1> QED BY <1>1, OutboxSteps, PTL DEF Spec, Outbox!Spec

\* The invariant holds in every state of the specification.
THEOREM SmsInvariance == Spec => []SmsInv
<1>1. Init => SmsInv
  BY SmsStart
<1>2. SmsInv /\ [Next]_vars => SmsInv'
  BY SmsStep
<1> QED BY <1>1, <1>2, PTL DEF Spec

\* The tables of SMS delivery and the records of its calls keep their types.
THEOREM SmsTypes == Spec => []TypeOK
<1>1. SmsInv => TypeOK
  BY DEF SmsInv
<1> QED BY <1>1, SmsInvariance, PTL

\* dispatch and processCampaign move the credits their messages call for: a
\* RESERVE for every message, a COMMIT for one that went out, a REFUND for one
\* that failed, whatever fails in between.
THEOREM CreditsAlwaysFollow == Spec => []CreditsFollowDelivery
<1>1. SmsInv => CreditsFollowDelivery
  BY DEF SmsInv
<1> QED BY <1>1, SmsInvariance, PTL

\* The status processCampaign gives a campaign agrees with the statuses of its
\* messages through every redelivery.
THEOREM CampaignsMatchAlways == Spec => []CampaignMatchesItsMessages
<1>1. SmsInv => CampaignMatchesItsMessages
  BY DEF SmsInv
<1> QED BY <1>1, SmsInvariance, PTL

\* The unique key of sms_credit_ledger and the order of dispatch and
\* processCampaign: a message's credit is reserved at most once and comes back
\* at most once, and only if it was reserved, through every retry.
THEOREM CreditsMoveOnce == Spec => []LedgerInv
<1>1. SmsInv => LedgerInv
  BY DEF SmsInv
<1> QED BY <1>1, SmsInvariance, PTL

\* processCampaign hands the gateway only messages that are QUEUED at that
\* moment and that no other worker is about to send.
THEOREM UnsettledIsSent == Spec => OnlyUnsettledIsSent
<1> DEFINE Handed ==
      \A w \in Workers : jobs[w].pc = "send" /\ jobs'[w].pc = "settle" =>
        \A m \in jobs[w].pending :
          /\ messages[m] = "QUEUED"
          /\ \A v \in Workers \ {w} : m \notin jobs[v].pending
<1>1. ASSUME SmsInv, [Next]_vars PROVE [Handed]_vars
  <2> SUFFICES ASSUME NEW w \in Workers, jobs[w].pc = "send", NEW m \in jobs[w].pending
               PROVE  /\ messages[m] = "QUEUED"
                      /\ \A v \in Workers \ {w} : m \notin jobs[v].pending
    OBVIOUS
  <2>1. \A v \in Workers : JobOk(v)
    BY <1>1 DEF SmsInv, JobInv
  <2>2. pc[w] = "handling" /\ jobs[w].pending = Pending(Current(w))
    BY <2>1 DEF JobOk
  <2>3. messages[m] = "QUEUED" /\ m[1] = Current(w)
    BY <2>2 DEF Pending, MessagesOf
  <2>4. ASSUME NEW v \in Workers \ {w} PROVE m \notin jobs[v].pending
    <3>1. CASE jobs[v].pc = "none"
      <4>1. jobs[v] = NoJob
        BY <2>1, <3>1 DEF JobOk
      <4> QED BY <4>1 DEF NoJob
    <3>2. CASE jobs[v].pc # "none"
      <4>1. pc[v] = "handling" /\ jobs[v].pending = Pending(Current(v))
        BY <2>1, <3>2 DEF JobOk
      <4>2. Current(v) # Current(w)
        BY <1>1, <2>2, <4>1, AtOwnRow DEF SmsInv
      <4> QED BY <2>3, <4>1, <4>2 DEF Pending, MessagesOf
    <3> QED BY <3>1, <3>2
  <2> QED BY <2>3, <2>4
<1>2. Spec => [][Handed]_vars
  BY <1>1, SmsInvariance, PTL DEF Spec
<1> QED BY <1>2 DEF OnlyUnsettledIsSent


-----------------------------------------------------------------------------
(* Balances.                                                               *)

Seen(e) == {m \in Messages : Visible(m, e)}

\* What each message visible to event e has moved, by ledger l.
Moves(l, e) == [m \in Seen(e) |-> l["REFUND"][m] - l["RESERVE"][m]]

\* A balance is a sum of moves.
LEMMA BalanceIsSum ==
  ASSUME NEW l, NEW e
  PROVE  MapThenSumSet(LAMBDA m : l["REFUND"][m] - l["RESERVE"][m], Seen(e))
           = SumOf(Moves(l, e), Seen(e))
<1> DEFINE S == Seen(e)
           g == Moves(l, e)
           Move(m) == l["REFUND"][m] - l["RESERVE"][m]
           F(it) == it = [s \in SUBSET S |->
                            IF s = {} THEN 0 ELSE Move(Taken(s)) + it[s \ {Taken(s)}]]
<1>1. \A s \in SUBSET S : s # {} => Move(Taken(s)) = g[Taken(s)]
  <2>1. \A s \in SUBSET S : s # {} => Taken(s) \in S
    BY TakenIsIn
  <2> QED BY <2>1 DEF Moves
<1>2. MapThenSumSet(LAMBDA m : l["REFUND"][m] - l["RESERVE"][m], S) = (CHOOSE it : F(it))[S]
  BY DEF MapThenSumSet, MapThenFoldSet, Taken
<1> HIDE DEF S, g, Move
<1>3. ASSUME NEW it PROVE F(it) <=> IsFold(it, g, S)
  <2>1. [s \in SUBSET S |-> IF s = {} THEN 0 ELSE Move(Taken(s)) + it[s \ {Taken(s)}]]
          = [s \in SUBSET S |-> IF s = {} THEN 0 ELSE g[Taken(s)] + it[s \ {Taken(s)}]]
    BY <1>1
  <2> QED BY <2>1 DEF IsFold
<1> HIDE DEF F
<1>4. (CHOOSE it : F(it)) = (CHOOSE it : IsFold(it, g, S))
  BY <1>3
<1>5. (CHOOSE it : F(it))[S] = SumOf(g, S)
  BY <1>4, SumIsFold
<1> QED BY <1>2, <1>5 DEF S, g

\* The balance, before and after a step.
LEMMA BalanceForms ==
  ASSUME NEW e
  PROVE  /\ smsBalance(e) = Granted(e) + SumOf(Moves(ledger, e), Seen(e))
         /\ smsBalance(e)' = Granted(e) + SumOf(Moves(ledger', e), Seen(e))
<1>1. smsBalance(e) = Granted(e) + SumOf(Moves(ledger, e), Seen(e))
  BY BalanceIsSum DEF smsBalance, Seen
<1>2. smsBalance(e)' = Granted(e) + SumOf(Moves(ledger', e), Seen(e))
  <2>1. MapThenSumSet(LAMBDA m : ledger'["REFUND"][m] - ledger'["RESERVE"][m], Seen(e))
          = SumOf(Moves(ledger', e), Seen(e))
    BY BalanceIsSum
  <2>2. smsBalance(e)' = Granted(e) +
          MapThenSumSet(LAMBDA m : ledger'["REFUND"][m] - ledger'["RESERVE"][m], Seen(e))
    BY DEF smsBalance, Seen, Granted, Messages, Visible, MapThenSumSet, MapThenFoldSet
  <2> QED BY <2>1, <2>2
<1> QED BY <1>1, <1>2

\* The sums are finite.
LEMMA SeenIsFinite ==
  ASSUME NEW e
  PROVE  IsFiniteSet(Seen(e))
<1>1. IsFiniteSet(Messages)
  BY DeliveryAssumption, FS_Product DEF Messages
<1> QED BY <1>1, FS_Subset DEF Seen

\* Moves are integers.
LEMMA MovesAreInt ==
  ASSUME NEW l \in [Kinds -> [Messages -> Nat]], NEW e
  PROVE  \A m \in Seen(e) : /\ Moves(l, e)[m] = l["REFUND"][m] - l["RESERVE"][m]
                            /\ Moves(l, e)[m] \in Int
<1> SUFFICES ASSUME NEW m \in Seen(e)
             PROVE  l["REFUND"][m] \in Nat /\ l["RESERVE"][m] \in Nat
  BY DEF Moves
<1>1. m \in Messages /\ "REFUND" \in Kinds /\ "RESERVE" \in Kinds
  BY DEF Seen, Kinds
<1> QED BY <1>1

\* A ledger in which every message has moved at least as much gives at least the
\* balance.
LEMMA BalanceGrows ==
  ASSUME NEW l \in [Kinds -> [Messages -> Nat]], NEW k \in [Kinds -> [Messages -> Nat]],
         NEW e, \A m \in Messages : l["REFUND"][m] - l["RESERVE"][m] <= k["REFUND"][m] - k["RESERVE"][m]
  PROVE  SumOf(Moves(l, e), Seen(e)) <= SumOf(Moves(k, e), Seen(e))
<1>1. \A m \in Seen(e) : /\ Moves(l, e)[m] \in Int /\ Moves(k, e)[m] \in Int
                         /\ Moves(l, e)[m] <= Moves(k, e)[m]
  BY MovesAreInt DEF Seen
<1> QED BY <1>1, SeenIsFinite, SumLeq

\* Credits are integers.
LEMMA BalanceIsInt ==
  ASSUME NEW l \in [Kinds -> [Messages -> Nat]], NEW e \in Events
  PROVE  SumOf(Moves(l, e), Seen(e)) \in Int /\ Granted(e) \in Nat
<1>1. SumOf(Moves(l, e), Seen(e)) \in Int
  BY MovesAreInt, SeenIsFinite, SumInt
<1>2. Granted(e) \in Nat
  BY GrantsAssumption DEF Granted
<1> QED BY <1>1, <1>2

\* Retries of processCampaign and of its refunds never credit an account with
\* more than it was granted.
THEOREM RetriesCreateNoCredit == Spec => []NoCreditOutOfRetries
<1>1. ASSUME SmsInv PROVE NoCreditOutOfRetries
  <2> SUFFICES ASSUME NEW e \in Events PROVE smsBalance(e) <= Granted(e)
    BY DEF NoCreditOutOfRetries
  <2> DEFINE none == [m \in Seen(e) |-> 0]
  <2>1. ledger \in [Kinds -> [Messages -> Nat]]
    BY <1>1 DEF SmsInv, TypeOK
  <2>2. ASSUME NEW m \in Seen(e) PROVE Moves(ledger, e)[m] <= none[m]
    <3>1. m \in Messages /\ ledger["REFUND"][m] <= ledger["RESERVE"][m]
      BY <1>1 DEF SmsInv, LedgerInv, Seen
    <3>2. ledger["REFUND"][m] \in Nat /\ ledger["RESERVE"][m] \in Nat
      BY <2>1, <3>1 DEF Kinds
    <3> QED BY <2>1, <3>1, <3>2, MovesAreInt
  <2>3. SumOf(Moves(ledger, e), Seen(e)) <= SumOf(none, Seen(e))
    BY <2>1, <2>2, MovesAreInt, SeenIsFinite, SumLeq
  <2>4. SumOf(none, Seen(e)) = 0
    BY SeenIsFinite, SumZero
  <2> QED BY <2>1, <2>3, <2>4, BalanceForms, BalanceIsInt
<1> QED BY <1>1, SmsInvariance, PTL


\* What a reservation with no other one since its reading was promised.
SoloInv ==
  \A c \in Campaigns : dispatches[c].solo => smsBalance(EventOf[c]) >= 1

\* A step that leaves every message at least what it had moved keeps the promise
\* to those that already had it.
LEMMA SoloFrame ==
  ASSUME SmsInv, SmsInv', NEW c \in Campaigns, smsBalance(EventOf[c]) >= 1,
         \A m \in Messages : /\ ledger["REFUND"][m] <= ledger'["REFUND"][m]
                             /\ ledger'["RESERVE"][m] = ledger["RESERVE"][m]
  PROVE  smsBalance(EventOf[c])' >= 1
<1>1. PICK e \in Events : e = EventOf[c]
  BY GrantsAssumption
<1>2. ledger \in [Kinds -> [Messages -> Nat]] /\ ledger' \in [Kinds -> [Messages -> Nat]]
  BY DEF SmsInv, TypeOK, Messages, Kinds
<1>3. \A m \in Messages : ledger["REFUND"][m] - ledger["RESERVE"][m]
                            <= ledger'["REFUND"][m] - ledger'["RESERVE"][m]
  <2> SUFFICES ASSUME NEW m \in Messages
               PROVE  ledger["REFUND"][m] - ledger["RESERVE"][m]
                        <= ledger'["REFUND"][m] - ledger'["RESERVE"][m]
    OBVIOUS
  <2>1. /\ ledger["REFUND"][m] \in Nat /\ ledger["RESERVE"][m] \in Nat
        /\ ledger'["REFUND"][m] \in Nat
    BY <1>2 DEF Kinds
  <2> QED BY <2>1
<1>4. SumOf(Moves(ledger, e), Seen(e)) <= SumOf(Moves(ledger', e), Seen(e))
  BY <1>2, <1>3, BalanceGrows
<1>5. smsBalance(e) <= smsBalance(e)'
  BY <1>2, <1>4, BalanceForms, BalanceIsInt
<1>6. smsBalance(e) \in Int /\ smsBalance(e)' \in Int
  BY <1>2, BalanceForms, BalanceIsInt
<1>7. smsBalance(EventOf[c])' = smsBalance(e)'
  BY <1>1
<1> QED BY <1>1, <1>5, <1>6, <1>7

\* Every step keeps the promise.
LEMMA SoloStep == SmsInv /\ SmsInv' /\ SoloInv /\ [Next]_vars => SoloInv'
<1> SUFFICES ASSUME SmsInv, SmsInv', SoloInv, [Next]_vars, NEW c \in Campaigns,
                    dispatches'[c].solo
             PROVE  smsBalance(EventOf[c])' >= 1
  BY DEF SoloInv
<1>1. ASSUME ledger' = ledger, dispatches[c].solo \/ Enough(c)
      PROVE  smsBalance(EventOf[c])' >= 1
  <2>1. smsBalance(EventOf[c]) >= 1
    BY <1>1 DEF SoloInv, Enough
  <2>2. ledger["REFUND"] \in [Messages -> Nat]
    BY DEF SmsInv, TypeOK, Kinds
  <2>3. \A m \in Messages : /\ ledger["REFUND"][m] <= ledger'["REFUND"][m]
                            /\ ledger'["RESERVE"][m] = ledger["RESERVE"][m]
    BY <1>1, <2>2
  <2> QED BY <2>1, <2>3, SoloFrame
<1>2. ASSUME NEW d \in Campaigns, Dispatching(d) \/ CommitDispatch(d)
      PROVE  smsBalance(EventOf[c])' >= 1
  <2>1. dispatches \in [Campaigns -> DispatchState]
    BY DEF SmsInv, TypeOK
  <2>2. CASE dispatch(d)
    <3>1. ledger' = ledger
      BY <2>2 DEF dispatch
    <3>2. dispatches'[c].solo = dispatches[c].solo
      BY <2>1, <2>2 DEF dispatch, DispatchState
    <3> QED BY <1>1, <3>1, <3>2
  <2>3. CASE CheckBalance(d)
    <3>1. ledger' = ledger
      BY <2>3 DEF CheckBalance
    <3>2. CASE d = c
      <4> DEFINE row == [dispatches[c] EXCEPT !.pc = IF Enough(c) THEN "reserve" ELSE "finish",
                                              !.solo = Enough(c)]
      <4>1. dispatches'[c] = row
        BY <2>1, <2>3, <3>2 DEF CheckBalance
      <4>2. row.solo = Enough(c)
        BY <2>1 DEF DispatchState
      <4> QED BY <1>1, <3>1, <4>1, <4>2
    <3>3. CASE d # c
      <4>1. dispatches'[c] = dispatches[c]
        BY <2>1, <2>3, <3>3 DEF CheckBalance
      <4> QED BY <1>1, <3>1, <4>1
    <3> QED BY <3>2, <3>3
  <2>4. CASE Reserve(d)
    <3>1. ~dispatches'[c].solo
      BY <2>1, <2>4 DEF Reserve, DispatchState
    <3> QED BY <3>1
  <2>5. CASE FailDispatch(d) \/ CommitDispatch(d)
    <3>1. ledger' = ledger
      BY <2>5 DEF FailDispatch, CommitDispatch, FinishDispatch
    <3>2. c # d /\ dispatches'[c] = dispatches[c]
      BY <2>1, <2>5 DEF FailDispatch, CommitDispatch, FinishDispatch, NoDispatch
    <3> QED BY <1>1, <3>1, <3>2
  <2> QED BY <1>2, <2>2, <2>3, <2>4, <2>5 DEF Dispatching
<1>3. ASSUME NEW w \in Workers, Work(w) \/ WorkerFault(w)
      PROVE  smsBalance(EventOf[c])' >= 1
  <2>1. dispatches' = dispatches
    BY <1>3 DEF Work, WorkerFault, Draining, StartJob, RunJob, JobReturns, JobThrows, smsVars,
       ReadPending, sendBulk, Settle, DropJob, CommitJob
  <2>2. CASE ledger' = ledger
    BY <1>1, <2>1, <2>2
  <2>3. CASE \E m \in Messages : Settle(w, m)
    <3>1. PICK m \in Messages : Settle(w, m)
      BY <2>3
    <3>2. PICK k : k = Settlement(w, m)
      OBVIOUS
    <3>3. k \in {"COMMIT", "REFUND"} /\ k \in Kinds /\ append(k, m)
      BY <3>1, <3>2 DEF Settle, Settlement, Kinds
    <3>4. /\ ledger'[k][m] = 1
          /\ \A j \in Kinds, n \in Messages : <<j, n>> # <<k, m>> => ledger'[j][n] = ledger[j][n]
      BY <3>3, AppendEffect DEF SmsInv, TypeOK
    <3>5. \A n \in Messages : ledger["REFUND"][n] \in Nat /\ ledger["REFUND"][n] <= 1
      BY DEF SmsInv, TypeOK, LedgerInv, Kinds
    <3>6. \A n \in Messages : ledger'["RESERVE"][n] = ledger["RESERVE"][n]
      BY <3>3, <3>4 DEF Kinds
    <3>7. ASSUME NEW n \in Messages PROVE ledger["REFUND"][n] <= ledger'["REFUND"][n]
      <4>1. CASE k = "REFUND" /\ n = m
        BY <3>4, <3>5, <4>1
      <4>2. CASE ~(k = "REFUND" /\ n = m)
        BY <3>4, <3>5, <4>2 DEF Kinds
      <4> QED BY <4>1, <4>2
    <3>8. smsBalance(EventOf[c]) >= 1
      BY <2>1 DEF SoloInv
    <3> QED BY <3>6, <3>7, <3>8, SoloFrame
  <2>4. ledger' = ledger \/ \E m \in Messages : Settle(w, m)
    BY <1>3 DEF Work, WorkerFault, Draining, StartJob, RunJob, JobReturns, JobThrows, smsVars,
       ReadPending, sendBulk, DropJob, CommitJob
  <2> QED BY <2>2, <2>3, <2>4
<1>4. CASE UNCHANGED vars
  BY <1>1, <1>4 DEF vars, smsVars
<1> QED BY <1>2, <1>3, <1>4 DEF Next

\* "Stop the blast at the boundary when we run out", as far as dispatch's own
\* test reaches: a reservation that no other one overlaps never takes the balance
\* of its event below zero.
THEOREM SoloStopsAtZero == Spec => SoloReservationStopsAtZero
<1> DEFINE Stops ==
      \A c \in Campaigns :
        dispatches[c].pc = "reserve" /\ dispatches'[c].pc = "check" /\ dispatches[c].solo
          => smsBalance(EventOf[c])' >= 0
<1>1. Init => SoloInv
  BY DEF Init, SmsInit, SoloInv, NoDispatch
<1>2. SmsInv /\ SmsInv' /\ SoloInv /\ [Next]_vars => SoloInv'
  BY SoloStep
<1>3. ASSUME SmsInv, SmsInv', SoloInv, [Next]_vars PROVE [Stops]_vars
  <2> SUFFICES ASSUME NEW c \in Campaigns, dispatches[c].pc = "reserve",
                      dispatches'[c].pc = "check", dispatches[c].solo
               PROVE  smsBalance(EventOf[c])' >= 0
    OBVIOUS
  <2>1. dispatches \in [Campaigns -> DispatchState]
    BY <1>3 DEF SmsInv, TypeOK
  <2>2. Reserve(c)
    <3>1. \A d \in Campaigns : Dispatching(d) \/ CommitDispatch(d) => d = c /\ Reserve(c)
      <4> SUFFICES ASSUME NEW d \in Campaigns, Dispatching(d) \/ CommitDispatch(d)
                   PROVE  d = c /\ Reserve(c)
        OBVIOUS
      <4>1. CASE d # c
        <5>1. dispatches'[c].pc = dispatches[c].pc
          BY <2>1, <4>1 DEF Dispatching, CommitDispatch, dispatch, CheckBalance, Reserve,
             FailDispatch, FinishDispatch, DispatchState
        <5> QED BY <5>1
      <4>2. CASE d = c
        BY <2>1, <4>2 DEF Dispatching, CommitDispatch, dispatch, CheckBalance,
           FailDispatch, FinishDispatch, AtEnd, NoDispatch
      <4> QED BY <4>1, <4>2
    <3>2. \A w \in Workers : Work(w) \/ WorkerFault(w) => dispatches' = dispatches
      BY DEF Work, WorkerFault, Draining, StartJob, RunJob, JobReturns, JobThrows, smsVars,
         ReadPending, sendBulk, Settle, DropJob, CommitJob
    <3>3. dispatches' # dispatches
      OBVIOUS
    <3> QED BY <1>3, <3>1, <3>2, <3>3 DEF Next, vars, smsVars
  <2>3. PICK e \in Events : e = EventOf[c]
    BY GrantsAssumption
  <2>4. ledger \in [Kinds -> [Messages -> Nat]] /\ ledger' \in [Kinds -> [Messages -> Nat]]
    BY <1>3 DEF SmsInv, TypeOK, Messages, Kinds
  <2>5. PICK p : p = Min(dispatches[c].todo)
    OBVIOUS
  <2>6. <<c, p>> \in Messages
    <3>1. dispatches[c].todo # {} /\ dispatches[c].todo \subseteq People
      BY <1>3, <2>1 DEF SmsInv, DispatchInv, DispatchState
    <3>2. p \in dispatches[c].todo
      BY <2>5, <3>1, MinInSet, GrantsAssumption
    <3> QED BY <3>1, <3>2 DEF Messages
  <2>7. PICK m \in Messages : m = <<c, p>>
    BY <2>6
  <2>8. append("RESERVE", m)
    BY <2>2, <2>5, <2>7 DEF Reserve
  <2>9. /\ ledger'["RESERVE"][m] = 1
        /\ \A j \in Kinds, n \in Messages :
             <<j, n>> # <<"RESERVE", m>> => ledger'[j][n] = ledger[j][n]
    BY <1>3, <2>4, <2>8, AppendEffect DEF SmsInv, Kinds
  <2>10. m \in Seen(e)
    BY <2>3, <2>7 DEF Seen, Visible
  <2>11. \A n \in Seen(e) : Moves(ledger, e)[n] \in Int /\ Moves(ledger', e)[n] \in Int
    BY <2>4, MovesAreInt
  <2>12. \A n \in Seen(e) \ {m} : Moves(ledger, e)[n] = Moves(ledger', e)[n]
    <3>1. \A n \in Seen(e) \ {m} : /\ ledger'["RESERVE"][n] = ledger["RESERVE"][n]
                                   /\ ledger'["REFUND"][n] = ledger["REFUND"][n]
      BY <2>9 DEF Seen, Kinds
    <3> QED BY <2>4, <3>1, MovesAreInt
  <2>13. SumOf(Moves(ledger', e), Seen(e))
           = SumOf(Moves(ledger, e), Seen(e)) + (Moves(ledger', e)[m] - Moves(ledger, e)[m])
    BY <2>10, <2>11, <2>12, SeenIsFinite, SumChange
  <2>14. Moves(ledger', e)[m] - Moves(ledger, e)[m] >= -1
    <3>1. ledger'["REFUND"][m] = ledger["REFUND"][m]
      BY <2>9 DEF Kinds
    <3>2. ledger["REFUND"][m] \in Nat /\ ledger["RESERVE"][m] \in Nat
      BY <2>4 DEF Kinds
    <3> QED BY <2>4, <2>9, <2>10, <3>1, <3>2, MovesAreInt
  <2>15. smsBalance(e) >= 1
    BY <1>3, <2>3 DEF SoloInv
  <2>16. /\ SumOf(Moves(ledger, e), Seen(e)) \in Int /\ Granted(e) \in Nat
         /\ Moves(ledger', e)[m] - Moves(ledger, e)[m] \in Int
    BY <2>4, <2>10, <2>11, BalanceIsInt
  <2>17. smsBalance(e)' >= 0
    BY <2>13, <2>14, <2>15, <2>16, BalanceForms
  <2>18. smsBalance(EventOf[c])' = smsBalance(e)'
    BY <2>3
  <2> QED BY <2>17, <2>18
<1>4. Spec => [][Stops]_vars
  BY <1>1, <1>2, <1>3, SmsInvariance, PTL DEF Spec
<1> QED BY <1>4 DEF SoloReservationStopsAtZero
=============================================================================
