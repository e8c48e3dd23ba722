---------------------------- MODULE SmsDelivery -----------------------------
(***************************************************************************)
(* SMS campaigns delivered through the outbox: dispatch commits an outbox  *)
(* row with its campaign, and the handler of topic 'sms.campaign' that     *)
(* OutboxDrain runs is processCampaign.  A handler that throws is          *)
(* redelivered; a worker that dies takes its job with it.                  *)
(***************************************************************************)
EXTENDS SmsCampaign

CONSTANTS
  BatchSize,     \* drainOnce's limit
  MaxAttempts,   \* bound: how often the handler of a row may fail
  MaxFaults      \* bound: crashes and database errors of a worker

ASSUME DeliveryAssumption ==
  /\ IsFiniteSet(Campaigns) /\ IsFiniteSet(People)
  /\ BatchSize \in Nat \ {0} /\ MaxAttempts \in Nat /\ MaxFaults \in Nat

VARIABLES status, attempts, pc, batch, faults, starts, handled, lost

Drain == INSTANCE OutboxDrain WITH
  Rows <- Campaigns, NoHandler <- {}, Poison <- {}

drainVars == <<status, attempts, pc, batch, faults, starts, handled, lost>>

vars == <<smsVars, drainVars>>

Current(w) == Drain!Current(w)

-----------------------------------------------------------------------------
Init == SmsInit /\ Drain!Init

\* Steps of dispatch that concern no outbox row.
Dispatching(c) ==
  /\ dispatch(c) \/ CheckBalance(c) \/ Reserve(c) \/ FailDispatch(c)
  /\ UNCHANGED drainVars

\* Variant: the campaign commits without its outbox row.
CommitDispatchAlone(c) == FinishDispatch(c) /\ UNCHANGED drainVars

\* The campaign and its outbox row commit together; no row without a message.
CommitDispatch(c) ==
  /\ FinishDispatch(c)
  /\ \/ dispatches[c].queued # {} /\ Drain!enqueue(c)
     \/ dispatches[c].queued = {} /\ UNCHANGED drainVars

\* Steps of drainOnce that call no handler.
Draining(w) ==
  /\ Drain!Select(w) \/ Drain!Claim(w) \/ Drain!EndTick(w) \/ Drain!Reopen(w)
  /\ UNCHANGED smsVars

StartJob(w) == Drain!StartHandler(w) /\ ReadPending(w, Current(w))

RunJob(w) ==
  /\ sendBulk(w) \/ \E m \in Messages : Settle(w, m)
  /\ UNCHANGED drainVars

JobReturns(w) ==
  /\ \/ jobs[w].pc = "return" /\ DropJob(w)
     \/ CommitJob(w, Current(w))
  /\ Drain!HandlerReturns(w)

\* The gateway or the database throws, before the outcome is recorded or, when
\* the answer to the commit is lost, after.
JobThrows(w) ==
  /\ \/ jobs[w].pc \in {"send", "settle"} /\ DropJob(w)
     \/ CommitJob(w, Current(w))
  /\ Drain!HandlerThrows(w)

WorkerFault(w) == Drain!Fault(w) /\ DropJob(w)

-----------------------------------------------------------------------------
Work(w) ==
  Draining(w) \/ StartJob(w) \/ RunJob(w) \/ JobReturns(w) \/ JobThrows(w)

Next ==
  \/ \E c \in Campaigns : Dispatching(c) \/ CommitDispatch(c)
  \/ \E w \in Workers : Work(w) \/ WorkerFault(w)

Spec == Init /\ [][Next]_vars

\* setInterval keeps ticking and every awaited call settles.
FairSpec == Spec /\ \A w \in Workers : WF_vars(Work(w))

-----------------------------------------------------------------------------
(* Properties.                                                             *)

DispatchState ==
  [pc : {"idle", "check", "reserve", "finish", "done", "failed"},
   todo : SUBSET People, queued : SUBSET People, solo : BOOLEAN]

JobState ==
  [pc : {"none", "return", "send", "settle"}, pending : SUBSET Messages,
   ok : SUBSET Messages, settled : SUBSET Messages]

\* Every variable has its type.
TypeOK ==
  /\ ledger \in [Kinds -> [Messages -> Nat]]
  /\ messages \in [Messages -> {"absent", "QUEUED", "SENT", "FAILED"}]
  /\ campaigns \in [Campaigns -> {"absent", "SENDING", "SENT", "PARTIAL", "FAILED"}]
  /\ dispatches \in [Campaigns -> DispatchState]
  /\ jobs \in [Workers -> JobState]

Has(kind, m) == ledger[kind][m] > 0

\* "RESERVE a credit when queuing, COMMIT on success or REFUND on failure so a
\* failed SMS never costs a credit": no message without its reservation, none
\* recorded as sent without its commit or as failed without its refund, and no
\* settlement of a message that was never queued, whatever fails in between.
CreditsFollowDelivery ==
  \A m \in Messages :
    /\ messages[m] # "absent" => Has("RESERVE", m)
    /\ messages[m] = "SENT" => Has("COMMIT", m)
    /\ messages[m] = "FAILED" => Has("REFUND", m)
    /\ Has("COMMIT", m) \/ Has("REFUND", m) => messages[m] # "absent"

\* Retries of a job and of its refunds never credit an account with more than it
\* was granted.
NoCreditOutOfRetries ==
  \A e \in Events : smsBalance(e) <= Granted(e)

\* "The per-message status is the source of truth" and the campaign's agrees
\* with it: SENDING while every message is QUEUED, SENT when all went out,
\* FAILED when none did, PARTIAL when some did, through every redelivery.
CampaignMatchesItsMessages ==
  \A c \in Campaigns :
    LET have == {messages[m] : m \in MessagesOf(c)} \ {"absent"} IN
    campaigns[c] = CASE have = {"QUEUED"}         -> "SENDING"
                     [] have = {"SENT"}           -> "SENT"
                     [] have = {"SENT", "FAILED"} -> "PARTIAL"
                     [] have = {"FAILED"}         -> "FAILED"
                     [] have = {}                 -> IF dispatches[c].pc = "done"
                                                     THEN "FAILED" ELSE "absent"
                     [] OTHER                     -> "mixed"

\* "Only QUEUED messages are processed, so a redelivered row is a no-op": what
\* is handed to the gateway is still unsettled at that moment, and in no other
\* worker's hands.
OnlyUnsettledIsSent ==
  [][\A w \in Workers : jobs[w].pc = "send" /\ jobs'[w].pc = "settle" =>
       \A m \in jobs[w].pending :
         /\ messages[m] = "QUEUED"
         /\ \A v \in Workers \ {w} : m \notin jobs[v].pending]_vars

\* "Stop the blast at the boundary when we run out", as far as the test reaches:
\* a reservation that no other one overlaps never takes the balance of its event
\* below zero.
SoloReservationStopsAtZero ==
  [][\A c \in Campaigns :
       dispatches[c].pc = "reserve" /\ dispatches'[c].pc = "check" /\ dispatches[c].solo
         => smsBalance(EventOf[c])' >= 0]_vars

\* A campaign that was queued reaches its final status, unless a fault struck
\* the worker that had it.
EveryCampaignSettles ==
  \A c \in Campaigns :
    campaigns[c] = "SENDING" ~> campaigns[c] \in {"SENT", "PARTIAL", "FAILED"} \/ c \in lost

\* sms.service.ts: "never queue an SMS we can't pay for".  The credits an event
\* sees would never be overdrawn.
NeverBeyondCredits ==
  \A e \in Events : smsBalance(e) >= 0
=============================================================================
