---------------------------- MODULE OutboxDrain -----------------------------
(***************************************************************************)
(* The transactional outbox and the workers that drain it: OutboxWriter,   *)
(* OutboxDrainService.drainOnce and the worker's DrainSchedulerService.    *)
(*                                                                         *)
(* A worker's tick claims the oldest PENDING rows in one transaction       *)
(* (SELECT ... FOR UPDATE SKIP LOCKED, then UPDATE to PROCESSED), and runs *)
(* the topic handlers one by one after that transaction has committed; a   *)
(* failed handler's row is re-opened in a transaction of its own.  A row   *)
(* is named by the rank of its created_at.  Rows are never deleted.        *)
(***************************************************************************)
EXTENDS Integers, FiniteSets, FiniteSetsExt

CONSTANTS
  Rows,          \* outbox rows, as created_at ranks
  NoHandler,     \* rows whose topic has no registered handler
  Poison,        \* rows whose handler fails every time
  Workers,       \* worker processes
  BatchSize,     \* drainOnce's limit
  MaxAttempts,   \* bound: how often the handler of a healthy row may fail
  MaxFaults      \* bound: crashes and database errors

ASSUME RowsAssumption ==
  /\ Rows \subseteq Nat /\ IsFiniteSet(Rows)
  /\ NoHandler \subseteq Rows /\ Poison \subseteq Rows \ NoHandler
  /\ BatchSize \in Nat \ {0} /\ MaxAttempts \in Nat /\ MaxFaults \in Nat

OutboxStatus == {"PENDING", "PROCESSED", "FAILED"}

VARIABLES
  status,    \* outbox.status, or "absent" before the row is committed
  attempts,  \* outbox.attempts, counted up to MaxAttempts
  pc,        \* where each worker's tick is; not "idle" is the flag `running`
  batch,     \* the rows a worker has selected or claimed and not yet dealt with
  faults,    \* crashes and database errors so far
  starts,    \* history: handler calls of a row, counted up to MaxAttempts + 1
  handled,   \* history: rows whose handler has returned
  lost       \* history: rows in a worker's hands when a fault struck it

vars == <<status, attempts, pc, batch, faults, starts, handled, lost>>

Capped(n, cap) == IF n < cap THEN n + 1 ELSE cap

\* The row the loop over `claimed` is at: the oldest one left.
Current(w) == Min(batch[w])

-----------------------------------------------------------------------------
Init ==
  /\ status = [m \in Rows |-> "absent"]
  /\ attempts = [m \in Rows |-> 0]
  /\ pc = [w \in Workers |-> "idle"]
  /\ batch = [w \in Workers |-> {}]
  /\ faults = 0
  /\ starts = [m \in Rows |-> 0]
  /\ handled = {}
  /\ lost = {}

\* Variant: a duplicate enqueue upserts the row.
enqueueUpsert(m) ==
  /\ status' = [status EXCEPT ![m] = "PENDING"]
  /\ UNCHANGED <<attempts, pc, batch, faults, starts, handled, lost>>

\* The mutation that writes the row commits.  A second enqueue under the same
\* idempotency key changes nothing.
enqueue(m) ==
  /\ status[m] = "absent"
  /\ status' = [status EXCEPT ![m] = "PENDING"]
  /\ UNCHANGED <<attempts, pc, batch, faults, starts, handled, lost>>

-----------------------------------------------------------------------------
(* drainOnce.                                                              *)

\* Rows another worker's open claim holds locked.
Locked(w) == UNION {batch[v] : v \in {u \in Workers \ {w} : pc[u] = "claiming"}}

Pending == {m \in Rows : status[m] = "PENDING"}

\* Variant: a SELECT without row locks.
ClaimableLocked(w) == Pending

Claimable(w) == Pending \ Locked(w)

\* ORDER BY created_at LIMIT batchSize.
OldestOf(rows) ==
  {m \in rows : Cardinality({n \in rows : n < m}) < BatchSize}

\* A tick that finds no row ends at once and is left out.
Select(w) ==
  /\ pc[w] = "idle"
  /\ Claimable(w) # {}
  /\ batch' = [batch EXCEPT ![w] = OldestOf(Claimable(w))]
  /\ pc' = [pc EXCEPT ![w] = "claiming"]
  /\ UNCHANGED <<status, attempts, faults, starts, handled, lost>>

\* updateMany, and the claim's transaction commits.
Claim(w) ==
  /\ pc[w] = "claiming"
  /\ status' = [m \in Rows |-> IF m \in batch[w] THEN "PROCESSED" ELSE status[m]]
  /\ pc' = [pc EXCEPT ![w] = "looping"]
  /\ UNCHANGED <<attempts, batch, faults, starts, handled, lost>>

EndTick(w) ==
  /\ pc[w] = "looping" /\ batch[w] = {}
  /\ pc' = [pc EXCEPT ![w] = "idle"]
  /\ UNCHANGED <<status, attempts, batch, faults, starts, handled, lost>>

\* Variant: an unknown topic's row gets a status of its own.
SkipTopicMarked(w) ==
  /\ pc[w] = "looping" /\ batch[w] # {}
  /\ Current(w) \in NoHandler
  /\ status' = [status EXCEPT ![Current(w)] = "SKIPPED"]
  /\ batch' = [batch EXCEPT ![w] = @ \ {Current(w)}]
  /\ UNCHANGED <<attempts, pc, faults, starts, handled, lost>>

\* The topic has no handler: the row stays PROCESSED.
SkipTopic(w) ==
  /\ pc[w] = "looping" /\ batch[w] # {}
  /\ Current(w) \in NoHandler
  /\ batch' = [batch EXCEPT ![w] = @ \ {Current(w)}]
  /\ UNCHANGED <<status, attempts, pc, faults, starts, handled, lost>>

StartHandler(w) ==
  /\ pc[w] = "looping" /\ batch[w] # {}
  /\ Current(w) \notin NoHandler
  /\ pc' = [pc EXCEPT ![w] = "handling"]
  /\ starts' = [starts EXCEPT ![Current(w)] = Capped(@, MaxAttempts + 1)]
  /\ UNCHANGED <<status, attempts, batch, faults, handled, lost>>

HandlerReturns(w) ==
  /\ pc[w] = "handling" /\ Current(w) \notin Poison
  /\ handled' = handled \cup {Current(w)}
  /\ batch' = [batch EXCEPT ![w] = @ \ {Current(w)}]
  /\ pc' = [pc EXCEPT ![w] = "looping"]
  /\ UNCHANGED <<status, attempts, faults, starts, lost>>

HandlerThrows(w) ==
  /\ pc[w] = "handling"
  /\ Current(w) \in Poison \/ attempts[Current(w)] < MaxAttempts
  /\ pc' = [pc EXCEPT ![w] = "reopening"]
  /\ UNCHANGED <<status, attempts, batch, faults, starts, handled, lost>>

\* Variant: a retry is not counted.
ReopenUncounted(w) ==
  /\ pc[w] = "reopening"
  /\ status' = [status EXCEPT ![Current(w)] = "PENDING"]
  /\ batch' = [batch EXCEPT ![w] = @ \ {Current(w)}]
  /\ pc' = [pc EXCEPT ![w] = "looping"]
  /\ UNCHANGED <<attempts, faults, starts, handled, lost>>

\* Variant: the first failure ends the loop.
ReopenEndsTick(w) ==
  /\ pc[w] = "reopening"
  /\ status' = [status EXCEPT ![Current(w)] = "PENDING"]
  /\ attempts' = [attempts EXCEPT ![Current(w)] = Capped(@, MaxAttempts)]
  /\ batch' = [batch EXCEPT ![w] = {}]
  /\ pc' = [pc EXCEPT ![w] = "idle"]
  /\ UNCHANGED <<faults, starts, handled, lost>>

\* The loop goes on with the rest of the batch.
Reopen(w) ==
  /\ pc[w] = "reopening"
  /\ status' = [status EXCEPT ![Current(w)] = "PENDING"]
  /\ attempts' = [attempts EXCEPT ![Current(w)] = Capped(@, MaxAttempts)]
  /\ batch' = [batch EXCEPT ![w] = @ \ {Current(w)}]
  /\ pc' = [pc EXCEPT ![w] = "looping"]
  /\ UNCHANGED <<faults, starts, handled, lost>>

\* The worker dies and restarts, the claim's transaction fails (the tick logs
\* it), or the re-opening update throws out of drainOnce: either way the tick is
\* over and what it held in memory is gone.  An uncommitted claim is rolled back.
Fault(w) ==
  /\ pc[w] # "idle" /\ faults < MaxFaults
  /\ faults' = faults + 1
  /\ pc' = [pc EXCEPT ![w] = "idle"]
  /\ batch' = [batch EXCEPT ![w] = {}]
  /\ lost' = lost \cup (IF pc[w] = "claiming" THEN {} ELSE batch[w])
  /\ UNCHANGED <<status, attempts, starts, handled>>

-----------------------------------------------------------------------------
Tick(w) ==
  \/ Select(w) \/ Claim(w) \/ EndTick(w) \/ SkipTopic(w) \/ StartHandler(w)
  \/ HandlerReturns(w) \/ HandlerThrows(w) \/ Reopen(w)

Next ==
  \/ \E m \in Rows : enqueue(m)
  \/ \E w \in Workers : Tick(w) \/ Fault(w)

Spec == Init /\ [][Next]_vars

\* setInterval keeps ticking and every awaited call settles.  Nothing makes a
\* producer enqueue, and no fault has to happen.
FairSpec == Spec /\ \A w \in Workers : WF_vars(Tick(w))

-----------------------------------------------------------------------------
(* Properties.                                                             *)

\* Every variable has its type.
TypeOK ==
  /\ status \in [Rows -> OutboxStatus \cup {"absent"}]
  /\ attempts \in [Rows -> 0 .. MaxAttempts]
  /\ pc \in [Workers -> {"idle", "claiming", "looping", "handling", "reopening"}]
  /\ batch \in [Workers -> SUBSET Rows]
  /\ faults \in 0 .. MaxFaults
  /\ starts \in [Rows -> 0 .. MaxAttempts + 1]
  /\ handled \subseteq Rows
  /\ lost \subseteq Rows

\* "Two workers never grab the same row": no row is in the hands of two
\* workers, from the SELECT to the end of its handler, retries included.
NoSharedRow ==
  \A v, w \in Workers : v # w => batch[v] \cap batch[w] = {}

\* A row whose handler has returned is never taken up again, by any worker,
\* whatever crashes in between: what succeeded is not repeated.
HandledRowIsDone ==
  \A m \in handled :
    status[m] = "PROCESSED" /\ \A w \in Workers : pc[w] = "handling" => Current(w) # m

\* A redelivery has a cause on record: a handler is called again only after a
\* failure that outbox.attempts has counted.
RedeliveryIsCounted ==
  \A m \in Rows : starts[m] <= attempts[m] + 1

\* Every committed row with a working handler is handled in the end, unless a
\* fault struck the worker that held it.  Rows that always fail do not keep the
\* others from their turn as long as they are fewer than a batch.
EveryRowIsHandled ==
  \A m \in Rows \ (NoHandler \cup Poison) :
    status[m] = "PENDING" ~> m \in handled \cup lost

\* outbox-drain.service.ts: "a row processed then re-claimed after a crash
\* simply runs again".  A row in a worker's hands at the crash would be handled
\* in the end.
CrashedRowRunsAgain ==
  \A m \in Rows \ (NoHandler \cup Poison) : m \in lost ~> m \in handled
=============================================================================
