-------------------------- MODULE OutboxDrainProofs -------------------------
(***************************************************************************)
(* Theorems about OutboxDrain, for any number of rows and workers, any     *)
(* batch size and any pattern of handler failures and faults.              *)
(***************************************************************************)
EXTENDS OutboxDrain, WellFoundedInduction, TLAPS

\* Where a worker has committed its claim.
Owning == {"looping", "handling", "reopening"}

\* A worker that has claimed owns PROCESSED rows, one that is claiming holds
\* PENDING ones, and no other worker has a row of either.
Ownership ==
  \A w \in Workers :
    /\ pc[w] = "idle" => batch[w] = {}
    /\ pc[w] = "claiming" => batch[w] \subseteq Pending
    /\ pc[w] \in Owning => \A m \in batch[w] : status[m] = "PROCESSED"
    /\ pc[w] \in {"handling", "reopening"} => batch[w] # {}

\* What has been handled is PROCESSED and in nobody's hands.
Settled ==
  \A m \in handled : status[m] = "PROCESSED" /\ \A w \in Workers : m \notin batch[w]

DrainInv == TypeOK /\ Ownership /\ NoSharedRow /\ Settled

-----------------------------------------------------------------------------
\* The loop's current row is one of the batch.
LEMMA CurrentInBatch ==
  ASSUME TypeOK, NEW w \in Workers, batch[w] # {}
  PROVE  Current(w) \in batch[w]
<1> DEFINE T == batch[w]
<1>1. T \subseteq Nat
  BY RowsAssumption DEF TypeOK
<1>2. \E x \in T : \A y \in T : ~(<<y, x>> \in OpToRel(<, Nat))
  BY <1>1, NatLessThanWellFounded, WFMin
<1>3. ASSUME NEW x \in Nat, NEW y \in Nat, y < x
      PROVE  <<y, x>> \in OpToRel(<, Nat)
  BY <1>3 DEF OpToRel
<1>4. PICK x \in T : \A y \in T : ~(<<y, x>> \in OpToRel(<, Nat))
  BY <1>2
<1>5. ASSUME NEW y \in T
      PROVE  x <= y
  <2>1. x \in Nat /\ y \in Nat
    BY <1>1
  <2>2. ~(y < x)
    BY <1>3, <1>4, <2>1, Zenon
  <2> QED BY <2>1, <2>2
<1> QED BY <1>5 DEF Current, Min

\* The invariant holds initially.
LEMMA DrainInit == Init => DrainInv
BY RowsAssumption
   DEF Init, DrainInv, TypeOK, Ownership, NoSharedRow, Settled, OutboxStatus, Owning

\* A capped counter stays within its cap.
LEMMA CappedType ==
  ASSUME NEW cap \in Nat, NEW n \in 0 .. cap
  PROVE  Capped(n, cap) \in 0 .. cap
BY DEF Capped

\* Every step preserves the invariant.
LEMMA DrainNext == DrainInv /\ [Next]_vars => DrainInv'
<1> SUFFICES ASSUME DrainInv, [Next]_vars PROVE DrainInv'
  OBVIOUS
<1> USE RowsAssumption DEF DrainInv, TypeOK, OutboxStatus, Owning
<1>1. ASSUME NEW m \in Rows, enqueue(m) PROVE DrainInv'
  BY <1>1 DEF enqueue, Ownership, NoSharedRow, Settled, Pending
<1>2. ASSUME NEW w \in Workers, Select(w) PROVE DrainInv'
  <2>1. /\ pc[w] = "idle" /\ pc' = [pc EXCEPT ![w] = "claiming"]
        /\ batch' = [batch EXCEPT ![w] = OldestOf(Claimable(w))]
        /\ UNCHANGED <<status, attempts, faults, starts, handled, lost>>
    BY <1>2 DEF Select
  <2>2. OldestOf(Claimable(w)) \subseteq Pending
        /\ \A v \in Workers \ {w} : pc[v] = "claiming" =>
             OldestOf(Claimable(w)) \cap batch[v] = {}
    BY DEF OldestOf, Claimable, Locked
  <2>3. \A v \in Workers \ {w} : OldestOf(Claimable(w)) \cap batch[v] = {}
    BY <2>2 DEF Ownership, Pending
  <2>4. OldestOf(Claimable(w)) \subseteq Rows
    BY <2>2 DEF Pending
  <2>5. TypeOK'
    BY <2>1, <2>4
  <2>6. Ownership'
    BY <2>1, <2>2 DEF Ownership, Pending
  <2>7. NoSharedRow'
    BY <2>1, <2>3 DEF NoSharedRow
  <2>8. Settled'
    BY <2>1, <2>2 DEF Settled, Pending
  <2> QED BY <2>5, <2>6, <2>7, <2>8
<1>3. ASSUME NEW w \in Workers, Claim(w) PROVE DrainInv'
  <2>1. /\ pc[w] = "claiming" /\ pc' = [pc EXCEPT ![w] = "looping"] /\ batch' = batch
        /\ status' = [m \in Rows |-> IF m \in batch[w] THEN "PROCESSED" ELSE status[m]]
        /\ UNCHANGED <<attempts, faults, starts, handled, lost>>
    BY <1>3 DEF Claim
  <2>2. TypeOK'
    BY <2>1
  <2>3. Ownership'
    BY <2>1 DEF Ownership, NoSharedRow, Pending
  <2>4. NoSharedRow' /\ Settled'
    BY <2>1 DEF NoSharedRow, Settled
  <2> QED BY <2>2, <2>3, <2>4
<1>4. ASSUME NEW w \in Workers, EndTick(w) PROVE DrainInv'
  BY <1>4 DEF EndTick, Ownership, NoSharedRow, Settled, Pending
<1>5. ASSUME NEW w \in Workers, SkipTopic(w) PROVE DrainInv'
  <2>1. batch' \in [Workers -> SUBSET Rows] /\ \A v \in Workers : batch'[v] \subseteq batch[v]
    BY <1>5 DEF SkipTopic
  <2> QED BY <1>5, <2>1 DEF SkipTopic, Ownership, NoSharedRow, Settled, Pending
<1>6. ASSUME NEW w \in Workers, StartHandler(w) PROVE DrainInv'
  <2>1. Current(w) \in Rows
    BY <1>6, CurrentInBatch DEF StartHandler
  <2>2. starts' \in [Rows -> 0 .. MaxAttempts + 1]
    <3> DEFINE cap == MaxAttempts + 1
    <3>1. cap \in Nat
      OBVIOUS
    <3>2. starts \in [Rows -> 0 .. cap]
      OBVIOUS
    <3>3. starts' = [starts EXCEPT ![Current(w)] = Capped(starts[Current(w)], cap)]
      BY <1>6 DEF StartHandler
    <3> HIDE DEF cap
    <3>4. Capped(starts[Current(w)], cap) \in 0 .. cap
      BY <2>1, <3>1, <3>2, CappedType
    <3>5. starts' \in [Rows -> 0 .. cap]
      BY <2>1, <3>2, <3>3, <3>4
    <3> QED BY <3>5 DEF cap
  <2> QED BY <1>6, <2>2 DEF StartHandler, Ownership, NoSharedRow, Settled, Pending
<1>7. ASSUME NEW w \in Workers, HandlerReturns(w) PROVE DrainInv'
  <2>1. pc[w] = "handling" /\ batch[w] # {}
    BY <1>7 DEF HandlerReturns, Ownership
  <2>2. Current(w) \in batch[w] /\ status[Current(w)] = "PROCESSED"
    BY <2>1, CurrentInBatch DEF Ownership
  <2>3. /\ handled' = handled \cup {Current(w)} /\ pc' = [pc EXCEPT ![w] = "looping"]
        /\ batch' = [batch EXCEPT ![w] = batch[w] \ {Current(w)}]
        /\ UNCHANGED <<status, attempts, faults, starts, lost>>
    BY <1>7 DEF HandlerReturns
  <2> HIDE DEF Current
  <2>4. TypeOK'
    BY <2>2, <2>3
  <2>5. Ownership'
    BY <2>1, <2>3 DEF Ownership, Pending
  <2>6. NoSharedRow'
    BY <2>3 DEF NoSharedRow
  <2>7. Settled'
    BY <2>2, <2>3 DEF Settled, NoSharedRow
  <2> QED BY <2>4, <2>5, <2>6, <2>7
<1>8. ASSUME NEW w \in Workers, HandlerThrows(w) PROVE DrainInv'
  BY <1>8 DEF HandlerThrows, Ownership, NoSharedRow, Settled, Pending
<1>9. ASSUME NEW w \in Workers, Reopen(w) PROVE DrainInv'
  <2>1. pc[w] = "reopening" /\ batch[w] # {}
    BY <1>9 DEF Reopen, Ownership
  <2>2. Current(w) \in batch[w] /\ Current(w) \in Rows
    BY <2>1, CurrentInBatch
  <2>3. /\ status' = [status EXCEPT ![Current(w)] = "PENDING"]
        /\ attempts' = [attempts EXCEPT ![Current(w)] =
                          Capped(attempts[Current(w)], MaxAttempts)]
        /\ pc' = [pc EXCEPT ![w] = "looping"]
        /\ batch' = [batch EXCEPT ![w] = batch[w] \ {Current(w)}]
        /\ UNCHANGED <<faults, starts, handled, lost>>
    BY <1>9 DEF Reopen
  <2>4. attempts' \in [Rows -> 0 .. MaxAttempts]
    BY <2>2, <2>3, CappedType
  <2> HIDE DEF Current
  <2>5. TypeOK'
    BY <2>2, <2>3, <2>4
  <2>6. Ownership'
    BY <2>1, <2>2, <2>3 DEF Ownership, NoSharedRow, Pending
  <2>7. NoSharedRow'
    BY <2>3 DEF NoSharedRow
  <2>8. Settled'
    BY <2>2, <2>3 DEF Settled
  <2> QED BY <2>5, <2>6, <2>7, <2>8
<1>10. ASSUME NEW w \in Workers, Fault(w) PROVE DrainInv'
  <2> DEFINE gone == IF pc[w] = "claiming" THEN {} ELSE batch[w]
  <2>1. /\ faults < MaxFaults /\ faults' = faults + 1 /\ pc' = [pc EXCEPT ![w] = "idle"]
        /\ batch' = [batch EXCEPT ![w] = {}] /\ lost' = lost \cup gone
        /\ UNCHANGED <<status, attempts, starts, handled>>
    BY <1>10 DEF Fault
  <2>2. gone \subseteq Rows
    OBVIOUS
  <2> HIDE DEF gone
  <2>3. TypeOK'
    BY <2>1, <2>2
  <2>4. Ownership'
    BY <2>1 DEF Ownership, Pending
  <2>5. NoSharedRow' /\ Settled'
    BY <2>1 DEF NoSharedRow, Settled
  <2> QED BY <2>3, <2>4, <2>5
<1>11. CASE UNCHANGED vars
  BY <1>11 DEF vars, Ownership, NoSharedRow, Settled, Pending
<1> QED
  BY <1>1, <1>2, <1>3, <1>4, <1>5, <1>6, <1>7, <1>8, <1>9, <1>10, <1>11 DEF Next, Tick

\* The invariant holds in every reachable state.
THEOREM DrainInvariance == Spec => []DrainInv
BY DrainInit, DrainNext, PTL DEF Spec

-----------------------------------------------------------------------------
\* However many workers drain, no row is ever in the hands of two of them.
THEOREM RowsAreNotShared == Spec => []NoSharedRow
<1>1. DrainInv => NoSharedRow
  BY DEF DrainInv
<1> QED BY <1>1, DrainInvariance, PTL

\* A row whose handler has returned stays PROCESSED and is not handled again.
THEOREM HandledOnce == Spec => []HandledRowIsDone
<1>1. DrainInv => HandledRowIsDone
  <2> SUFFICES ASSUME DrainInv, NEW m \in handled
               PROVE  /\ status[m] = "PROCESSED"
                      /\ \A w \in Workers : pc[w] = "handling" => Current(w) # m
    BY DEF HandledRowIsDone
  <2>1. \A w \in Workers : pc[w] = "handling" => Current(w) \in batch[w]
    BY CurrentInBatch DEF DrainInv, Ownership
  <2> QED BY <2>1 DEF DrainInv, Settled
<1> QED BY <1>1, DrainInvariance, PTL

\* Every variable keeps its type.
THEOREM DrainTypes == Spec => []TypeOK
<1>1. DrainInv => TypeOK
  BY DEF DrainInv
<1> QED BY <1>1, DrainInvariance, PTL

-----------------------------------------------------------------------------
(* Redeliveries.                                                           *)

\* A row has been started more often than it has failed only while its handler
\* runs or waits to be re-opened, or after it returned or was lost: the row is
\* PROCESSED, and a worker that holds it is at it.  Beyond MaxAttempts the two
\* counters are capped and say no more.
StartedOnce ==
  \A m \in Rows :
    /\ starts[m] <= attempts[m] + 1
    /\ starts[m] = attempts[m] + 1 /\ attempts[m] < MaxAttempts =>
         /\ status[m] = "PROCESSED"
         /\ \A w \in Workers : m \in batch[w] =>
              pc[w] \in {"handling", "reopening"} /\ Current(w) = m

\* Every step keeps the count of starts within the count of failures.
LEMMA StartedNext == DrainInv /\ StartedOnce /\ [Next]_vars => StartedOnce'
<1> SUFFICES ASSUME DrainInv, StartedOnce, [Next]_vars PROVE StartedOnce'
  OBVIOUS
<1> USE RowsAssumption DEF DrainInv, TypeOK, StartedOnce, Owning
<1>1. ASSUME NEW m \in Rows, enqueue(m) PROVE StartedOnce'
  BY <1>1 DEF enqueue, Current
<1>2. ASSUME NEW w \in Workers, Select(w) PROVE StartedOnce'
  <2>1. /\ pc[w] = "idle" /\ pc' = [pc EXCEPT ![w] = "claiming"]
        /\ batch' = [batch EXCEPT ![w] = OldestOf(Claimable(w))]
        /\ UNCHANGED <<status, attempts, faults, starts, handled, lost>>
    BY <1>2 DEF Select
  <2>2. \A m \in OldestOf(Claimable(w)) : status[m] = "PENDING"
    BY DEF OldestOf, Claimable, Pending
  <2>3. \A v \in Workers \ {w} : batch'[v] = batch[v] /\ pc'[v] = pc[v] /\ Current(v)' = Current(v)
    BY <2>1 DEF Current
  <2> QED BY <2>1, <2>2, <2>3
<1>3. ASSUME NEW w \in Workers, Claim(w) PROVE StartedOnce'
  <2>1. \A v \in Workers : Current(v)' = Current(v)
    BY <1>3 DEF Claim, Current
  <2>2. \A m \in batch[w] : status[m] = "PENDING"
    BY <1>3 DEF Claim, Ownership, Pending
  <2> QED BY <1>3, <2>1, <2>2 DEF Claim
<1>4. ASSUME NEW w \in Workers, EndTick(w) PROVE StartedOnce'
  <2>1. \A v \in Workers : Current(v)' = Current(v)
    BY <1>4 DEF EndTick, Current
  <2> QED BY <1>4, <2>1 DEF EndTick
<1>5. ASSUME NEW w \in Workers, SkipTopic(w) PROVE StartedOnce'
  <2>1. \A v \in Workers \ {w} : Current(v)' = Current(v) /\ batch'[v] = batch[v]
    BY <1>5 DEF SkipTopic, Current
  <2>2. \A m \in batch'[w] : m \in batch[w]
    BY <1>5 DEF SkipTopic
  <2> QED BY <1>5, <2>1, <2>2 DEF SkipTopic
<1>6. ASSUME NEW w \in Workers, StartHandler(w) PROVE StartedOnce'
  <2> DEFINE r == Current(w)
  <2>1. r \in batch[w] /\ r \in Rows /\ pc[w] = "looping"
    BY <1>6, CurrentInBatch DEF StartHandler
  <2>2. \A v \in Workers : Current(v)' = Current(v)
    BY <1>6 DEF StartHandler, Current
  <2>3. /\ starts' = [starts EXCEPT ![r] = Capped(starts[r], MaxAttempts + 1)]
        /\ pc' = [pc EXCEPT ![w] = "handling"]
        /\ UNCHANGED <<status, attempts, batch>>
    BY <1>6 DEF StartHandler
  <2>4. status[r] = "PROCESSED" /\ \A v \in Workers \ {w} : r \notin batch[v]
    BY <2>1 DEF Ownership, NoSharedRow
  <2> HIDE DEF r
  <2>5. starts'[r] <= attempts[r] + 1
    BY <2>1, <2>3 DEF Capped
  <2>6. \A m \in Rows \ {r} : starts'[m] = starts[m]
    BY <2>3
  <2>7. ASSUME NEW m \in Rows
        PROVE  /\ starts'[m] <= attempts[m] + 1
               /\ starts'[m] = attempts[m] + 1 /\ attempts[m] < MaxAttempts =>
                    /\ status[m] = "PROCESSED"
                    /\ \A v \in Workers : m \in batch[v] =>
                         pc'[v] \in {"handling", "reopening"} /\ Current(v) = m
    <3>1. CASE m = r
      BY <2>1, <2>3, <2>4, <2>5, <3>1 DEF r
    <3>2. CASE m # r
      BY <2>3, <2>6, <3>2
    <3> QED BY <3>1, <3>2
  <2> QED BY <2>2, <2>3, <2>7
<1>7. ASSUME NEW w \in Workers, HandlerReturns(w) PROVE StartedOnce'
  <2> DEFINE r == Current(w)
  <2>1. pc[w] = "handling" /\ batch[w] # {} /\ r \in batch[w]
    BY <1>7, CurrentInBatch DEF HandlerReturns, Ownership
  <2>2. \A v \in Workers \ {w} : Current(v)' = Current(v) /\ batch'[v] = batch[v]
    BY <1>7 DEF HandlerReturns, Current
  <2>3. /\ pc' = [pc EXCEPT ![w] = "looping"] /\ batch'[w] = batch[w] \ {r}
        /\ UNCHANGED <<status, attempts, starts>>
    BY <1>7 DEF HandlerReturns
  <2> HIDE DEF r
  <2>4. \A m \in batch'[w] : m \in batch[w] /\ m # r
    BY <2>3
  <2> QED BY <2>1, <2>2, <2>3, <2>4 DEF r
<1>8. ASSUME NEW w \in Workers, HandlerThrows(w) PROVE StartedOnce'
  <2>1. \A v \in Workers : Current(v)' = Current(v)
    BY <1>8 DEF HandlerThrows, Current
  <2> QED BY <1>8, <2>1 DEF HandlerThrows
<1>9. ASSUME NEW w \in Workers, Reopen(w) PROVE StartedOnce'
  <2> DEFINE r == Current(w)
  <2>1. pc[w] = "reopening" /\ batch[w] # {} /\ r \in batch[w] /\ r \in Rows
    BY <1>9, CurrentInBatch DEF Reopen, Ownership
  <2>2. \A v \in Workers \ {w} : Current(v)' = Current(v) /\ batch'[v] = batch[v]
    BY <1>9 DEF Reopen, Current
  <2>3. /\ pc' = [pc EXCEPT ![w] = "looping"] /\ batch'[w] = batch[w] \ {r}
        /\ status' = [status EXCEPT ![r] = "PENDING"]
        /\ attempts' = [attempts EXCEPT ![r] = Capped(attempts[r], MaxAttempts)]
        /\ starts' = starts
    BY <1>9 DEF Reopen
  <2> HIDE DEF r
  <2>4. starts[r] <= attempts'[r] \/ attempts'[r] = MaxAttempts
    BY <2>1, <2>3 DEF Capped
  <2>5. starts[r] <= attempts'[r] + 1
    <3>1. starts[r] \in 0 .. MaxAttempts + 1 /\ attempts[r] \in 0 .. MaxAttempts
      BY <2>1
    <3>2. attempts'[r] = Capped(attempts[r], MaxAttempts)
      BY <2>1, <2>3
    <3>3. attempts'[r] \in 0 .. MaxAttempts
      BY <3>1, <3>2 DEF Capped
    <3> QED BY <2>4, <3>1, <3>3
  <2>6. attempts'[r] \in Nat /\ \A m \in Rows \ {r} : attempts'[m] = attempts[m] /\ status'[m] = status[m]
    BY <2>1, <2>3 DEF Capped
  <2>7. \A m \in batch'[w] : m \in batch[w] /\ m # r
    BY <2>3
  <2>8. ASSUME NEW m \in Rows
        PROVE  /\ starts[m] <= attempts'[m] + 1
               /\ starts[m] = attempts'[m] + 1 /\ attempts'[m] < MaxAttempts =>
                    /\ status'[m] = "PROCESSED"
                    /\ \A v \in Workers : m \in batch'[v] =>
                         pc'[v] \in {"handling", "reopening"} /\ Current(v)' = m
    <3>1. CASE m = r
      BY <2>1, <2>4, <2>5, <2>6, <3>1
    <3>2. CASE m # r
      <4>1. attempts'[m] = attempts[m] /\ status'[m] = status[m]
        BY <2>6, <3>2
      <4>2. ASSUME NEW v \in Workers, m \in batch'[v], starts[m] = attempts[m] + 1,
                   attempts[m] < MaxAttempts
            PROVE  pc'[v] \in {"handling", "reopening"} /\ Current(v)' = m
        <5>1. v # w
          BY <2>1, <2>7, <4>2, <3>2 DEF r
        <5> QED BY <2>2, <2>3, <4>2, <5>1
      <4> QED BY <4>1, <4>2
    <3> QED BY <3>1, <3>2
  <2> QED BY <2>3, <2>8
<1>10. ASSUME NEW w \in Workers, Fault(w) PROVE StartedOnce'
  <2>1. \A v \in Workers \ {w} : Current(v)' = Current(v) /\ batch'[v] = batch[v]
    BY <1>10 DEF Fault, Current
  <2> QED BY <1>10, <2>1 DEF Fault
<1>11. CASE UNCHANGED vars
  <2>1. \A v \in Workers : Current(v)' = Current(v)
    BY <1>11 DEF vars, Current
  <2> QED BY <1>11, <2>1 DEF vars
<1> QED
  BY <1>1, <1>2, <1>3, <1>4, <1>5, <1>6, <1>7, <1>8, <1>9, <1>10, <1>11 DEF Next, Tick

\* A handler is called once more than its row has failed, at most: every
\* redelivery has a failure on record that caused it.
THEOREM RedeliveriesAreCounted == Spec => []RedeliveryIsCounted
<1>1. Init => StartedOnce
  BY RowsAssumption DEF Init, StartedOnce
<1>2. StartedOnce => RedeliveryIsCounted
  BY DEF StartedOnce, RedeliveryIsCounted
<1> QED BY <1>1, <1>2, StartedNext, DrainInvariance, PTL DEF Spec
=============================================================================
