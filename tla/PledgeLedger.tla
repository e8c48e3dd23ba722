---------------------------- MODULE PledgeLedger ----------------------------
(***************************************************************************)
(* The money ledger of one event: PledgeService, FulfillmentService and    *)
(* EventService.setStatus, run by concurrent API requests.                 *)
(*                                                                         *)
(* A request is one call of a service method.  It passes the event-status  *)
(* gate on a context resolved beforehand, then runs its database           *)
(* statements one by one inside a transaction of Postgres' default         *)
(* isolation level, READ COMMITTED:                                        *)
(*   - a read sees what is committed at that moment, and the transaction's *)
(*     own writes;                                                         *)
(*   - an UPDATE holds the row until the transaction ends, so a second     *)
(*     UPDATE of the row waits for it;                                     *)
(*   - an INSERT whose unique key another open transaction has inserted    *)
(*     waits for that transaction, and fails when the key is committed.    *)
(* A request's own writes stay in its record until Commit applies them.    *)
(* Each request books at most one fulfillment and creates at most one      *)
(* pledge, so the request itself serves as their id.                       *)
(***************************************************************************)
EXTENDS Integers, FiniteSetsExt

CONSTANTS
  Requests,        \* API calls; a retry by a client is another request
  Seeds,           \* pledges recorded before the behaviour starts
  SeedCommitted,   \* their committed value
  Values,          \* amounts a client may send as paid (minor units, never negative)
  Commitments,     \* amounts a client may send as committed
  Keys,            \* client-supplied idempotency keys
  TargetStatuses,  \* statuses an organizer moves the event to
  None             \* null: no key, no row, no id

EventStatus == {"DRAFT", "ACTIVE", "PAUSED", "CLOSED", "ARCHIVED"}

PledgeStatus == {"PLEDGED", "PARTIALLY_FULFILLED", "FULFILLED", "CANCELLED"}

PledgeIds == Requests \cup Seeds

ASSUME ConstantsAssumption ==
  /\ Values \subseteq Nat
  /\ Commitments \subseteq Nat
  /\ SeedCommitted \in Nat
  /\ TargetStatuses \subseteq EventStatus
  /\ Requests \cap Seeds = {}
  /\ None \notin PledgeIds \cup Keys \cup Nat

PledgeRow == [committed : Nat, status : PledgeStatus]

FulfillmentRow == [pledge : PledgeIds, value : Nat, key : Keys \cup {None}]

VARIABLES
  eventStatus,    \* event.status
  pledges,        \* table pledge: id -> row or None
  fulfillments,   \* table fulfillment: id -> row or None
  audit,          \* table audit_event
  outbox,         \* fulfillments with a 'contribution.recorded' outbox row
  recent,         \* fulfillments created within DUPLICATE_WINDOW_MS
  req             \* the state of each request

vars == <<eventStatus, pledges, fulfillments, audit, outbox, recent, req>>

-----------------------------------------------------------------------------
(* Requests.                                                               *)

BookingOps == {"recordFulfillment", "recordDirectContribution",
               "recordPledgeWithPayment"}

CreateOps == {"createPledge", "recordDirectContribution",
              "recordPledgeWithPayment"}

Ops == BookingOps \cup CreateOps \cup
       {"correctValue", "correctCommittedValue", "cancelPledge", "setStatus"}

\* Null is neither a row, a row as the journal shows it, nor an operation.
ASSUME NullAssumption ==
  None \notin PledgeRow \cup FulfillmentRow \cup Ops \cup
              [value : Nat, key : Keys \cup {None}]

Outcomes == {"ok", "replayed", "rejected", "conflict", "failed"}

InTx == {"replay", "readFul", "readPledge", "dup", "bound", "insert",
         "updateFul", "reread", "sum", "update", "commit", "auditStatus"}

\* What a request carries between two statements: its inputs (value, key,
\* confirmDuplicate, the ids) and what it has read (committed, cancelled, old)
\* or computed (status).  solo: no other request has committed a change of the
\* pledge since this one first read it (history, read by properties only).
RequestState ==
  [pc : InTx \cup {"idle"} \cup Outcomes, op : Ops \cup {None},
   pledge : PledgeIds \cup {None}, ful : Requests \cup {None},
   value : Nat, committed : Nat, old : Nat, cancelled : BOOLEAN,
   status : PledgeStatus, key : Keys \cup {None}, confirm : BOOLEAN,
   solo : BOOLEAN]

Idle ==
  [pc |-> "idle", op |-> None, pledge |-> None, ful |-> None,
   value |-> 0, committed |-> 0, old |-> 0, cancelled |-> FALSE,
   status |-> "PLEDGED", key |-> None, confirm |-> FALSE, solo |-> FALSE]

\* Only what the caller learns survives the request: a payment and its key, or
\* that there is none.
Answered(r, outcome, f) ==
  [Idle EXCEPT !.pc = outcome, !.ful = f, !.key = IF f = None THEN None ELSE req[r].key]

Refused == [Idle EXCEPT !.pc = "rejected"]

End(r, outcome) == req' = [req EXCEPT ![r] = [Idle EXCEPT !.pc = outcome]]

Set(r, state) == req' = [req EXCEPT ![r] = state]

tables == <<eventStatus, pledges, fulfillments, audit, outbox, recent>>

-----------------------------------------------------------------------------
(* Derived values.                                                         *)

deriveStatus(committed, total, cancelled) ==
  CASE cancelled                       -> "CANCELLED"
    [] ~cancelled /\ total <= 0        -> "PLEDGED"
    [] ~cancelled /\ total > 0
         /\ total >= committed         -> "FULFILLED"
    [] OTHER                           -> "PARTIALLY_FULFILLED"

isWritable(status) == status \in {"DRAFT", "ACTIVE", "PAUSED"}

Booked(f) == fulfillments[f] # None

PaymentsOf(p) == {f \in Requests : Booked(f) /\ fulfillments[f].pledge = p}

\* SELECT sum(value) over the committed fulfillments of p but the excluded ones.
SumFulfillments(p, excluded) ==
  MapThenSumSet(LAMBDA f : fulfillments[f].value, PaymentsOf(p) \ excluded)

\* The sum once r's own payment or correction counts: what assertWithinCommitted
\* projects before the write, and what the aggregate returns after it.
Projected(r) ==
  SumFulfillments(req[r].pledge, {req[r].ful}) + req[r].value

RowsWithKey(k) == {f \in Requests : Booked(f) /\ fulfillments[f].key = k}

\* Variant: the row is locked when it is read (FOR UPDATE), not when written.
HoldsPledgeFromRead(r, p) ==
  /\ req[r].pc \in {"dup", "bound", "insert", "sum", "update", "commit"}
  /\ req[r].pledge = p

\* Rows a transaction has written and still holds.
HoldsPledge(r, p) == req[r].pc = "commit" /\ req[r].pledge = p

HoldsFulfillment(r, f) ==
  /\ req[r].op = "correctValue" /\ req[r].ful = f
  /\ req[r].pc \in {"reread", "sum", "update", "commit"}

HoldsKey(r, k) ==
  /\ req[r].op \in BookingOps /\ req[r].ful = r /\ req[r].key = k
  /\ req[r].pc \in {"sum", "update", "commit"}

-----------------------------------------------------------------------------
Init ==
  /\ eventStatus = "ACTIVE"
  /\ pledges = [p \in PledgeIds |->
       IF p \in Seeds THEN [committed |-> SeedCommitted, status |-> "PLEDGED"]
       ELSE None]
  /\ fulfillments = [f \in Requests |-> None]
  /\ audit = {[by |-> p, action |-> "pledge:create", res |-> p, old |-> None,
               new |-> SeedCommitted] : p \in Seeds}
  /\ outbox = {}
  /\ recent = {}
  /\ req = [r \in Requests |-> Idle]

(* The gates: the context was resolved from the event row, and             *)
(* assertEventWritable judges that copy before any transaction opens.      *)
Begin(r, state) ==
  /\ req[r].pc = "idle"
  /\ Set(r, IF isWritable(eventStatus) THEN state ELSE Refused)
  /\ UNCHANGED tables

createPledge(r) ==
  \E c \in Commitments :
    Begin(r, [Idle EXCEPT !.op = "createPledge", !.pc = "commit",
                          !.pledge = r, !.committed = c])

recordFulfillment(r) ==
  \E p \in {q \in PledgeIds : pledges[q] # None}, v \in Values,
     k \in Keys \cup {None}, c \in BOOLEAN :
    Begin(r, [Idle EXCEPT !.op = "recordFulfillment", !.pc = "replay",
                          !.pledge = p, !.value = v, !.key = k, !.confirm = c])

recordDirectContribution(r) ==
  \E v \in Values, k \in Keys \cup {None} :
    Begin(r, [Idle EXCEPT !.op = "recordDirectContribution", !.pc = "replay",
                          !.pledge = r, !.value = v, !.committed = v, !.key = k])

\* No replay lookup here, and its one caller (the AI tool executor) sends no key.
recordPledgeWithPayment(r) ==
  \E c \in Commitments, v \in Values \cup {0} :
    Begin(r, IF v > c THEN Refused
             ELSE [Idle EXCEPT !.op = "recordPledgeWithPayment",
                               !.pc = IF v = 0 THEN "commit" ELSE "insert",
                               !.pledge = r, !.value = v, !.committed = c])

correctValue(r) ==
  \E f \in {g \in Requests : Booked(g)}, v \in Values :
    Begin(r, [Idle EXCEPT !.op = "correctValue", !.pc = "readFul",
                          !.ful = f, !.value = v])

correctCommittedValue(r) ==
  \E p \in {q \in PledgeIds : pledges[q] # None}, c \in Commitments :
    Begin(r, [Idle EXCEPT !.op = "correctCommittedValue", !.pc = "readPledge",
                          !.pledge = p, !.value = c])

cancelPledge(r) ==
  \E p \in {q \in PledgeIds : pledges[q] # None} :
    Begin(r, [Idle EXCEPT !.op = "cancelPledge", !.pc = "readPledge",
                          !.pledge = p])

\* The event row is updated on its own; its audit row follows in a transaction
\* of its own.  Closed events may be reopened: no status gate.
setStatus(r) ==
  /\ req[r].pc = "idle"
  /\ \E s \in TargetStatuses : eventStatus' = s
  /\ Set(r, [Idle EXCEPT !.op = "setStatus", !.pc = "auditStatus"])
  /\ UNCHANGED <<pledges, fulfillments, audit, outbox, recent>>

AuditStatus(r) ==
  /\ req[r].pc = "auditStatus"
  /\ audit' = audit \cup {[by |-> r, action |-> "event:set_status", res |-> None,
                           old |-> None, new |-> None]}
  /\ End(r, "ok")
  /\ UNCHANGED <<eventStatus, pledges, fulfillments, outbox, recent>>

-----------------------------------------------------------------------------
(* The statements of a transaction, in the order the services issue them.  *)

findByIdempotencyKey(r) ==
  /\ req[r].pc = "replay"
  /\ \/ \E f \in RowsWithKey(req[r].key) :
          /\ req[r].key # None
          /\ Set(r, Answered(r, "replayed", f))
     \/ /\ req[r].key = None \/ RowsWithKey(req[r].key) = {}
        /\ Set(r, [req[r] EXCEPT !.pc = IF req[r].op = "recordFulfillment"
                                        THEN "readPledge" ELSE "insert"])
  /\ UNCHANGED tables

ReadFulfillment(r) ==
  /\ req[r].pc = "readFul"
  /\ LET row == fulfillments[req[r].ful] IN
       Set(r, [req[r] EXCEPT !.pc = "readPledge", !.pledge = row.pledge,
                             !.old = row.value, !.solo = TRUE])
  /\ UNCHANGED tables

\* Variant: no test for a cancelled pledge.
RefusesNoPledge(r) == FALSE

RefusesPledge(r) ==
  /\ req[r].op = "recordFulfillment"
  /\ pledges[req[r].pledge].status = "CANCELLED"

\* Variant: the duplicate test is skipped.
AfterReadNoDuplicateTest(r) ==
  CASE req[r].op = "cancelPledge"          -> "update"
    [] req[r].op = "correctCommittedValue" -> "sum"
    [] OTHER                               -> "bound"

AfterReadPledge(r) ==
  CASE req[r].op = "cancelPledge"          -> "update"
    [] req[r].op = "correctCommittedValue" -> "sum"
    [] req[r].op = "recordFulfillment"     -> IF req[r].confirm THEN "bound" ELSE "dup"
    [] OTHER                               -> "bound"

ReadPledge(r) ==
  /\ req[r].pc = "readPledge"
  /\ \/ RefusesPledge(r) /\ End(r, "rejected")
     \/ /\ ~RefusesPledge(r)
        /\ LET row == pledges[req[r].pledge] IN
             Set(r, [req[r] EXCEPT !.pc = AfterReadPledge(r),
                                   !.committed = row.committed,
                                   !.cancelled = row.status = "CANCELLED",
                                   !.solo = req[r].solo \/ req[r].op # "correctValue"])
  /\ UNCHANGED tables

LooksDuplicate(r) ==
  \E f \in PaymentsOf(req[r].pledge) \cap recent :
    fulfillments[f].value = req[r].value

assertNotDuplicate(r) ==
  /\ req[r].pc = "dup"
  /\ \/ LooksDuplicate(r) /\ End(r, "rejected")
     \/ ~LooksDuplicate(r) /\ Set(r, [req[r] EXCEPT !.pc = "bound"])
  /\ UNCHANGED tables

\* Variant: the payment itself is left out of the projected sum.
assertPaidWithinCommitted(r) ==
  LET paid == SumFulfillments(req[r].pledge, {req[r].ful}) IN
  /\ req[r].pc = "bound"
  /\ \/ paid > req[r].committed /\ End(r, "rejected")
     \/ /\ paid <= req[r].committed
        /\ Set(r, [req[r] EXCEPT !.pc = IF req[r].op = "correctValue"
                                        THEN "updateFul" ELSE "insert"])
  /\ UNCHANGED tables

assertWithinCommitted(r) ==
  /\ req[r].pc = "bound"
  /\ \/ Projected(r) > req[r].committed /\ End(r, "rejected")
     \/ /\ Projected(r) <= req[r].committed
        /\ Set(r, [req[r] EXCEPT !.pc = IF req[r].op = "correctValue"
                                        THEN "updateFul" ELSE "insert"])
  /\ UNCHANGED tables

\* Variant: no unique index on the key, the replay lookup alone guards it.
KeyNeverTaken(r) == FALSE

KeyTaken(r) == req[r].key # None /\ RowsWithKey(req[r].key) # {}

KeyHeld(r) ==
  req[r].key # None /\ \E s \in Requests \ {r} : HoldsKey(s, req[r].key)

\* writeFulfillment's INSERT, under the unique index on (eventId, idempotencyKey).
InsertFulfillment(r) ==
  /\ req[r].pc = "insert"
  /\ \/ KeyTaken(r) /\ End(r, "conflict")
     \/ /\ ~KeyTaken(r) /\ ~KeyHeld(r)
        /\ Set(r, [req[r] EXCEPT !.pc = "sum", !.ful = r])
  /\ UNCHANGED tables

UpdateFulfillment(r) ==
  /\ req[r].pc = "updateFul"
  /\ \A s \in Requests \ {r} : ~HoldsFulfillment(s, req[r].ful)
  /\ Set(r, [req[r] EXCEPT !.pc = "reread"])
  /\ UNCHANGED tables

RereadPledge(r) ==
  /\ req[r].pc = "reread"
  /\ LET row == pledges[req[r].pledge] IN
       Set(r, [req[r] EXCEPT !.pc = "sum", !.committed = row.committed,
                             !.cancelled = row.status = "CANCELLED"])
  /\ UNCHANGED tables

\* Variant: the aggregate is read before the payment is written.
DeriveFromOldSum(r) ==
  /\ req[r].pc = "sum"
  /\ Set(r, [req[r] EXCEPT !.pc = "update",
       !.status = deriveStatus(IF req[r].op = "correctCommittedValue"
                               THEN req[r].value ELSE req[r].committed,
                               SumFulfillments(req[r].pledge, {}), req[r].cancelled)])
  /\ UNCHANGED tables

\* The aggregate, and the status derived from it.  writeFulfillment passes no
\* cancelled flag: its caller has found the pledge open.
DeriveFromSum(r) ==
  /\ req[r].pc = "sum"
  /\ Set(r, [req[r] EXCEPT !.pc = "update",
       !.status = IF req[r].op = "correctCommittedValue"
                  THEN deriveStatus(req[r].value,
                                    SumFulfillments(req[r].pledge, {}), req[r].cancelled)
                  ELSE deriveStatus(req[r].committed, Projected(r), req[r].cancelled)])
  /\ UNCHANGED tables

UpdatePledge(r) ==
  /\ req[r].pc = "update"
  /\ \A s \in Requests \ {r} : ~HoldsPledge(s, req[r].pledge)
  /\ Set(r, [req[r] EXCEPT !.pc = "commit",
       !.status = IF req[r].op = "cancelPledge" THEN "CANCELLED" ELSE req[r].status])
  /\ UNCHANGED tables

-----------------------------------------------------------------------------
(* Commit: everything the transaction wrote becomes visible at once.       *)

Inserts(r) == req[r].op \in BookingOps /\ req[r].ful = r

PledgesAfter(r) ==
  [pledges EXCEPT ![req[r].pledge] =
     CASE req[r].op \in CreateOps ->
            [committed |-> req[r].committed, status |-> req[r].status]
       [] req[r].op = "correctCommittedValue" ->
            [committed |-> req[r].value, status |-> req[r].status]
       [] OTHER -> [@ EXCEPT !.status = req[r].status]]

\* Variant: a correction re-creates the row and forgets its key.
FulfillmentsReinserted(r) ==
  CASE Inserts(r) ->
         [fulfillments EXCEPT ![r] = [pledge |-> req[r].pledge,
                                      value |-> req[r].value, key |-> req[r].key]]
    [] req[r].op = "correctValue" ->
         [fulfillments EXCEPT ![req[r].ful] = [pledge |-> req[r].pledge,
                                               value |-> req[r].value, key |-> None]]
    [] OTHER -> fulfillments

FulfillmentsAfter(r) ==
  CASE Inserts(r) ->
         [fulfillments EXCEPT ![r] = [pledge |-> req[r].pledge,
                                      value |-> req[r].value, key |-> req[r].key]]
    [] req[r].op = "correctValue" ->
         [fulfillments EXCEPT ![req[r].ful].value = req[r].value]
    [] OTHER -> fulfillments

Row(r, action, res, old, new) ==
  [by |-> r, action |-> action, res |-> res, old |-> old, new |-> new]

\* Variant: corrections are not audited.
AuditRowsOfCreates(r) ==
  (IF req[r].op \in CreateOps
   THEN {Row(r, IF req[r].op = "recordDirectContribution"
                THEN "pledge:create_direct" ELSE "pledge:create",
             r, None, req[r].committed)}
   ELSE {})
  \cup (IF Inserts(r)
        THEN {Row(r, "fulfillment:create", r, None, req[r].value)} ELSE {})

AuditRowsOf(r) ==
  (IF req[r].op \in CreateOps
   THEN {Row(r, IF req[r].op = "recordDirectContribution"
                THEN "pledge:create_direct" ELSE "pledge:create",
             r, None, req[r].committed)}
   ELSE {})
  \cup (IF Inserts(r)
        THEN {Row(r, "fulfillment:create", r, None, req[r].value)} ELSE {})
  \cup (IF req[r].op = "correctValue"
        THEN {Row(r, "fulfillment:correct", req[r].ful, req[r].old, req[r].value)} ELSE {})
  \cup (IF req[r].op = "correctCommittedValue"
        THEN {Row(r, "pledge:correct", req[r].pledge, req[r].committed, req[r].value)} ELSE {})
  \cup (IF req[r].op = "cancelPledge"
        THEN {Row(r, "pledge:cancel", req[r].pledge, None, None)} ELSE {})

\* Variant: the outbox row is keyed on the pledge.
BookingOfPledge(r) == IF Inserts(r) THEN {req[r].pledge} ELSE {}

Booking(r) == IF Inserts(r) THEN {r} ELSE {}

Commit(r) ==
  /\ req[r].pc = "commit"
  /\ pledges' = PledgesAfter(r)
  /\ fulfillments' = FulfillmentsAfter(r)
  /\ audit' = audit \cup AuditRowsOf(r)
  /\ outbox' = outbox \cup Booking(r)
  /\ recent' = recent \cup Booking(r)
  /\ req' = [s \in Requests |->
       CASE s = r -> Answered(r, "ok", req[r].ful)
         [] s # r /\ req[s].pledge = req[r].pledge -> [req[s] EXCEPT !.solo = FALSE]
         [] OTHER -> req[s]]
  /\ UNCHANGED eventStatus

\* The transaction is rolled back, by an error, a timeout or a crash, or the
\* process dies between setStatus' update and its audit row.
Fail(r) ==
  /\ req[r].pc \in InTx
  /\ End(r, "failed")
  /\ UNCHANGED tables

\* Ten minutes pass.  No transaction lives that long (Prisma ends one after 5s).
WindowElapses ==
  /\ recent # {}
  /\ \A r \in Requests : req[r].pc \notin InTx
  /\ recent' = {}
  /\ UNCHANGED <<eventStatus, pledges, fulfillments, audit, outbox, req>>

-----------------------------------------------------------------------------
Call(r) ==
  \/ createPledge(r) \/ recordFulfillment(r) \/ recordDirectContribution(r)
  \/ recordPledgeWithPayment(r) \/ correctValue(r)
  \/ correctCommittedValue(r) \/ cancelPledge(r) \/ setStatus(r)

Statement(r) ==
  \/ findByIdempotencyKey(r) \/ ReadFulfillment(r) \/ ReadPledge(r)
  \/ assertNotDuplicate(r) \/ assertWithinCommitted(r) \/ InsertFulfillment(r)
  \/ UpdateFulfillment(r) \/ RereadPledge(r) \/ DeriveFromSum(r)
  \/ UpdatePledge(r) \/ Commit(r) \/ AuditStatus(r)

Next ==
  \/ \E r \in Requests : Call(r) \/ Statement(r) \/ Fail(r)
  \/ WindowElapses

Spec == Init /\ [][Next]_vars

-----------------------------------------------------------------------------
(* Properties.                                                             *)

AuditActions == {"pledge:create", "pledge:create_direct", "pledge:correct",
                 "pledge:cancel", "fulfillment:create", "fulfillment:correct",
                 "event:set_status"}

AuditRow == [by : PledgeIds, action : AuditActions, res : PledgeIds \cup {None},
             old : Nat \cup {None}, new : Nat \cup {None}]

\* Every table and every request's record has its type.
TypeOK ==
  /\ eventStatus \in EventStatus
  /\ pledges \in [PledgeIds -> PledgeRow \cup {None}]
  /\ fulfillments \in [Requests -> FulfillmentRow \cup {None}]
  /\ audit \subseteq AuditRow
  /\ outbox \subseteq Requests
  /\ recent \subseteq Requests
  /\ req \in [Requests -> RequestState]

\* "The same key never books the money twice": however retries interleave, a
\* key marks at most one fulfillment, and every call that was answered with a
\* payment under that key, booked or replayed, was answered with that one.
IdempotentBooking ==
  \A k \in Keys :
    /\ \A f, g \in RowsWithKey(k) : f = g
    /\ \A r \in Requests :
         req[r].key = k /\ req[r].pc \in {"ok", "replayed"} => req[r].ful \in RowsWithKey(k)

\* "Mutation + audit_event + outbox commit together or not at all", and
\* corrections keep the trail: a booked payment has its create row and its
\* outbox row and nothing else has them, and every amount on the ledger today
\* is the new value of an audit row of that payment or pledge.
EveryAmountIsAudited ==
  /\ \A f \in Requests :
       /\ Booked(f) <=> f \in outbox
       /\ Booked(f) <=> \E a \in audit : a.action = "fulfillment:create" /\ a.res = f
       /\ Booked(f) => \E a \in audit :
            /\ a.action \in {"fulfillment:create", "fulfillment:correct"}
            /\ a.res = f /\ a.new = fulfillments[f].value
  /\ \A p \in PledgeIds : pledges[p] # None =>
       \E a \in audit :
         /\ a.action \in {"pledge:create", "pledge:create_direct", "pledge:correct"}
         /\ a.res = p /\ a.new = pledges[p].committed

\* r commits its work on pledge p in this step.
Commits(r, p) == req[r].pc = "commit" /\ req'[r].pc = "ok" /\ req[r].pledge = p

\* It does, and no other request has committed a change of p since r first read
\* it.
CommitsAlone(r, p) ==
  Commits(r, p) /\ (req[r].solo \/ req[r].op \in CreateOps)

\* The status of p is the one the amounts give, or CANCELLED.
StatusIsDerived(p) ==
  pledges[p].status \in
    {"CANCELLED", deriveStatus(pledges[p].committed, SumFulfillments(p, {}), FALSE)}

WithinCommitted(p) == SumFulfillments(p, {}) <= pledges[p].committed

\* "Status is always derived from the numbers": a write that no other write of
\* the pledge overlaps leaves the status the amounts give, whatever drift
\* earlier races had left.
StatusHealsAfterSoloWrite ==
  [][\A r \in Requests, p \in PledgeIds :
       CommitsAlone(r, p) => StatusIsDerived(p)']_vars

\* "A pledge can never be fulfilled beyond what was committed", as far as the
\* bound check reaches: a payment or a payment's correction that no other
\* write of the pledge overlaps never takes it past its committed value.
SoloPaymentStaysWithinCommitted ==
  [][\A r \in Requests, p \in PledgeIds :
       CommitsAlone(r, p) /\ req[r].op \in BookingOps \cup {"correctValue"}
         => WithinCommitted(p)']_vars

\* A cancelled pledge stays cancelled under every write that no other write of
\* the pledge overlaps, and takes no new payment from one.
SoloWriteKeepsCancelled ==
  [][\A r \in Requests, p \in PledgeIds :
       CommitsAlone(r, p) /\ req[r].op \notin CreateOps /\ pledges[p].status = "CANCELLED"
         => pledges'[p].status = "CANCELLED" /\ ~Inserts(r)]_vars

\* "An identical payment moments later stops and asks": without
\* confirmDuplicate, a payment that no other write of the pledge overlaps never
\* joins a payment of the same value on that pledge from the last ten minutes.
SoloPaymentIsNoSilentDuplicate ==
  [][\A r \in Requests, p \in PledgeIds :
       CommitsAlone(r, p) /\ req[r].op = "recordFulfillment" /\ ~req[r].confirm
         => ~LooksDuplicate(r)]_vars

\* r waits for a row or a key another transaction holds.
Waits(r) ==
  \/ req[r].pc = "insert" /\ ~KeyTaken(r) /\ KeyHeld(r)
  \/ /\ req[r].pc = "updateFul"
     /\ \E s \in Requests \ {r} : HoldsFulfillment(s, req[r].ful)
  \/ /\ req[r].pc = "update"
     /\ \E s \in Requests \ {r} : HoldsPledge(s, req[r].pledge)

\* Transactions never wait for each other in a circle: while any request is in
\* a transaction, one of them can run its next statement.
NoCircularWait ==
  (\E r \in Requests : req[r].pc \in InTx)
    => \E r \in Requests : req[r].pc \in InTx /\ ~Waits(r)

-----------------------------------------------------------------------------
(* What the ledger promises its readers, whatever the interleaving: an     *)
(* append-only journal of bookings (module BookingJournal).                *)

Journal == INSTANCE BookingJournal WITH
  Payments <- Requests,
  Amounts  <- Values,
  book     <- [f \in Requests |-> IF fulfillments[f] = None THEN None ELSE
                [value |-> fulfillments[f].value, key |-> fulfillments[f].key]],
  trail    <- {[id |-> a.by, payment |-> a.res, value |-> a.new] : a \in
                {b \in audit : b.action \in {"fulfillment:create", "fulfillment:correct"}}},
  notices  <- outbox

\* Every step of the ledger is a step of the journal or leaves it alone.
ImplementsJournal == Journal!Spec

-----------------------------------------------------------------------------
(* What the repository's comments claim, and the interleavings refute.     *)

\* fulfillment.service.ts: "A pledge can never be fulfilled beyond what was
\* committed - once fully paid, no further split/payment can be added".  Stated
\* of recordFulfillment's commits alone, so that lowering the committed value
\* below what is paid does not count.
NoPaymentBeyondCommitted ==
  [][\A r \in Requests, p \in PledgeIds :
       Commits(r, p) /\ req[r].op = "recordFulfillment" => WithinCommitted(p)']_vars

\* event-status.ts: "CLOSED and ARCHIVED events are READ-ONLY: the record of
\* what happened is preserved and cannot drift."
ClosedLedgerCannotDrift ==
  [][~isWritable(eventStatus) => UNCHANGED <<pledges, fulfillments>>]_vars

=============================================================================
