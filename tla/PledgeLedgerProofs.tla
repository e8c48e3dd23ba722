------------------------- MODULE PledgeLedgerProofs -------------------------
(***************************************************************************)
(* Theorems about PledgeLedger, for every set of requests, pledges, keys   *)
(* and amounts.                                                            *)
(***************************************************************************)
EXTENDS PledgeLedger, SumTheorems

-----------------------------------------------------------------------------
(* The inductive invariant.  Legal(r, q) says of a request's record q what *)
(* holds whatever the other requests do; KeyInv and ForeignKey relate the  *)
(* requests and the tables.                                                *)

ReadsPledge == {"recordFulfillment", "correctCommittedValue", "cancelPledge"}

\* Which operation may be at which statement.
PcLegal(q) ==
  /\ q.pc \in InTx <=> q.op # None
  /\ q.pc \in {"readFul", "updateFul", "reread"} => q.op = "correctValue"
  /\ q.pc = "readPledge" => q.op \in ReadsPledge \cup {"correctValue"}
  /\ q.pc = "dup" => q.op = "recordFulfillment"
  /\ q.pc = "bound" => q.op \in {"recordFulfillment", "correctValue"}
  /\ q.pc = "replay" => q.op \in {"recordFulfillment", "recordDirectContribution"}
  /\ q.pc = "insert" => q.op \in BookingOps
  /\ q.pc = "auditStatus" <=> q.op = "setStatus"

\* The rows a request works on exist, and the ones it will insert do not.
RowsLegal(r, q) ==
  /\ q.pc \in InTx \cup {"idle"} => fulfillments[r] = None /\ pledges[r] = None
  /\ q.op \in CreateOps => q.pledge = r
  /\ q.op \in ReadsPledge => q.pledge \in PledgeIds /\ pledges[q.pledge] # None
  /\ q.op = "correctValue" =>
       /\ q.ful \in Requests /\ Booked(q.ful)
       /\ q.pc # "readFul" => q.pledge = fulfillments[q.ful].pledge
  /\ q.op \in BookingOps => q.ful \in {None, r}
  /\ q.op \in Ops \ (BookingOps \cup {"correctValue"}) => q.ful = None

\* Keys belong to bookings; an answer under a key names a payment that has it.
KeyLegal(q) ==
  /\ q.op \in Ops \ BookingOps => q.key = None
  /\ q.pc \in {"ok", "replayed"} /\ q.key # None =>
       q.ful \in Requests /\ Booked(q.ful) /\ fulfillments[q.ful].key = q.key

\* What is written to a payment is an amount a client sent.
ValueLegal(q) ==
  /\ q.op \in {"recordFulfillment", "recordDirectContribution", "correctValue"}
       => q.value \in Values
  /\ q.op = "recordPledgeWithPayment"
       => q.value \in Values \/ (q.pc = "commit" /\ q.ful = None)

Legal(r, q) == PcLegal(q) /\ RowsLegal(r, q) /\ KeyLegal(q) /\ ValueLegal(q)

\* q, the record of r, has inserted a payment under key k.
Holding(r, q, k) ==
  q.op \in BookingOps /\ q.ful = r /\ q.key = k /\ q.pc \in {"sum", "update", "commit"}

\* Among the payments committed and the ones inserted, a key occurs once.
KeyInv ==
  \A k \in Keys :
    /\ \A f, g \in RowsWithKey(k) : f = g
    /\ \A r \in Requests : Holding(r, req[r], k) =>
         /\ RowsWithKey(k) = {}
         /\ \A s \in Requests : Holding(s, req[s], k) => s = r

ForeignKey ==
  \A f \in Requests : Booked(f) => pledges[fulfillments[f].pledge] # None

IInv ==
  /\ TypeOK
  /\ \A r \in Requests : Legal(r, req[r])
  /\ KeyInv
  /\ ForeignKey
  /\ EveryAmountIsAudited

-----------------------------------------------------------------------------
(* Lemmas.                                                                 *)

\* Null is none of the values it stands beside.
LEMMA NullFacts ==
  /\ None \notin Requests /\ None \notin PledgeIds /\ None \notin Keys
  /\ None \notin Ops /\ None \notin PledgeRow /\ None \notin FulfillmentRow
  /\ Requests \subseteq PledgeIds
BY ConstantsAssumption, NullAssumption DEF PledgeIds

\* The status derived from any amounts is a status.
LEMMA DerivedStatusType ==
  ASSUME NEW c, NEW t, NEW x
  PROVE  deriveStatus(c, t, x) \in PledgeStatus
BY DEF deriveStatus, PledgeStatus

\* A statement that changes only its own request's record, to a legal one,
\* and takes no key that is committed or held, preserves the invariant.
LEMMA LocalStep ==
  ASSUME IInv, NEW r \in Requests, NEW q \in RequestState,
         Set(r, q), eventStatus' \in EventStatus,
         UNCHANGED <<pledges, fulfillments, audit, outbox, recent>>, Legal(r, q),
         \A k \in Keys : Holding(r, q, k) =>
           \/ Holding(r, req[r], k)
           \/ /\ RowsWithKey(k) = {}
              /\ \A s \in Requests \ {r} : ~Holding(s, req[s], k)
  PROVE  IInv'
<1> USE DEF IInv
<1>1. /\ req' = [req EXCEPT ![r] = q]
      /\ pledges' = pledges /\ fulfillments' = fulfillments
      /\ audit' = audit /\ outbox' = outbox /\ recent' = recent
  BY DEF Set
<1>2. TypeOK'
  BY <1>1 DEF TypeOK
<1>3. \A s \in Requests : req'[s] = IF s = r THEN q ELSE req[s]
  BY <1>1 DEF TypeOK
<1>4. \A s \in Requests : Legal(s, req[s])'
  BY <1>1, <1>3 DEF Legal, PcLegal, RowsLegal, KeyLegal, ValueLegal, Booked
<1>5. \A k : RowsWithKey(k)' = RowsWithKey(k)
  BY <1>1 DEF RowsWithKey, Booked
<1>6. KeyInv'
  <2> SUFFICES ASSUME NEW k \in Keys
               PROVE  /\ \A f, g \in RowsWithKey(k)' : f = g
                      /\ \A s \in Requests : Holding(s, req'[s], k) =>
                           /\ RowsWithKey(k)' = {}
                           /\ \A t \in Requests : Holding(t, req'[t], k) => t = s
    BY DEF KeyInv, Holding
  <2>1. \A f, g \in RowsWithKey(k)' : f = g
    BY <1>5 DEF KeyInv
  <2>2. \A s \in Requests : Holding(s, req'[s], k) =>
          /\ RowsWithKey(k)' = {}
          /\ \A t \in Requests : Holding(t, req'[t], k) => t = s
    BY <1>3, <1>5 DEF KeyInv
  <2> QED BY <2>1, <2>2
<1>7. ForeignKey' /\ EveryAmountIsAudited'
  BY <1>1 DEF ForeignKey, EveryAmountIsAudited, Booked
<1> QED BY <1>2, <1>4, <1>6, <1>7

\* The record of a request that has not begun has its type.
LEMMA IdleType == Idle \in RequestState
BY DEF Idle, RequestState, PledgeStatus

\* A request that has ended with nothing to tell, or not begun, is legal.
LEMMA EndedIsLegal ==
  ASSUME NEW r \in Requests, NEW o \in Outcomes
  PROVE  /\ [Idle EXCEPT !.pc = o] \in RequestState
         /\ Legal(r, [Idle EXCEPT !.pc = o])
         /\ \A k \in Keys : ~Holding(r, [Idle EXCEPT !.pc = o], k)
<1> DEFINE q == [Idle EXCEPT !.pc = o]
<1>2. /\ q.pc = o /\ q.op = None /\ q.ful = None /\ q.key = None
  BY DEF Idle
<1>3. q \in RequestState
  BY IdleType, Zenon DEF RequestState
<1>4. Legal(r, q)
  BY <1>2, NullFacts
     DEF Legal, PcLegal, RowsLegal, KeyLegal, ValueLegal, Outcomes, InTx,
         Ops, BookingOps, CreateOps, ReadsPledge
<1>5. \A k \in Keys : ~Holding(r, q, k)
  BY <1>2, NullFacts DEF Holding
<1> QED BY <1>3, <1>4, <1>5

\* Ending a request that has written nothing visible preserves the invariant.
LEMMA EndStep ==
  ASSUME IInv, NEW r \in Requests, NEW o \in Outcomes, End(r, o), UNCHANGED tables
  PROVE  IInv'
<1>1. Set(r, [Idle EXCEPT !.pc = o])
  BY DEF Set, End
<1>2. eventStatus' \in EventStatus /\ UNCHANGED <<pledges, fulfillments, audit, outbox, recent>>
  BY DEF tables, IInv, TypeOK
<1> QED BY <1>1, <1>2, EndedIsLegal, LocalStep

\* A call admitted by the gate starts legally.
LEMMA CallStep ==
  ASSUME IInv, NEW r \in Requests, Call(r)
  PROVE  IInv'
<1> DEFINE Starts(q) == /\ q \in RequestState
                        /\ Legal(r, q)
                        /\ \A k \in Keys : ~Holding(r, q, k)
<1> USE DEF IInv
<1>0. req[r] \in RequestState /\ Legal(r, req[r])
  BY DEF TypeOK
<1>1. Starts(Refused)
  BY EndedIsLegal DEF Refused, Outcomes
<1>2. ASSUME NEW q, Begin(r, q), Starts(q)
      PROVE  IInv'
  <2>1. Set(r, q) \/ Set(r, Refused)
    BY <1>2 DEF Begin
  <2>2. /\ eventStatus' \in EventStatus
        /\ UNCHANGED <<pledges, fulfillments, audit, outbox, recent>>
    BY <1>2 DEF Begin, tables, TypeOK
  <2> QED BY <2>1, <2>2, <1>1, <1>2, LocalStep
<1>3. CASE createPledge(r)
  <2>1. PICK c \in Commitments :
          Begin(r, [Idle EXCEPT !.op = "createPledge",
                !.pc = "commit", !.pledge = r, !.committed = c])
    BY <1>3 DEF createPledge
  <2> DEFINE q == [Idle EXCEPT !.op = "createPledge",
                !.pc = "commit", !.pledge = r, !.committed = c]
  <2>2. q.op = "createPledge" /\ q.pc = "commit" /\ q.pledge = r /\ q.ful = None /\ q.key = None
    BY DEF Idle
  <2>3. q \in RequestState
    BY IdleType, <1>0, NullFacts, ConstantsAssumption, Zenon
       DEF RequestState, Ops, BookingOps, CreateOps, InTx
  <2>4. Legal(r, q) /\ \A j \in Keys : ~Holding(r, q, j)
    BY <1>0, <2>1, <2>2, NullFacts
       DEF Begin, Legal, PcLegal, RowsLegal, KeyLegal, ValueLegal, Holding, Ops, BookingOps,
           CreateOps, ReadsPledge, InTx
  <2> QED BY <2>1, <2>3, <2>4, <1>2
<1>4. CASE recordFulfillment(r)
  <2>1. PICK p \in PledgeIds, v \in Values, k \in Keys \cup {None}, c \in BOOLEAN :
          /\ pledges[p] # None
          /\ Begin(r, [Idle EXCEPT !.op = "recordFulfillment",
                !.pc = "replay", !.pledge = p, !.value = v,
                !.key = k, !.confirm = c])
    BY <1>4 DEF recordFulfillment
  <2> DEFINE q == [Idle EXCEPT !.op = "recordFulfillment",
                !.pc = "replay", !.pledge = p, !.value = v,
                !.key = k, !.confirm = c]
  <2>2. q.op = "recordFulfillment" /\ q.pc = "replay" /\ q.pledge = p /\ q.ful = None /\ q.value = v
    BY DEF Idle
  <2>3. q \in RequestState
    BY IdleType, <1>0, NullFacts, ConstantsAssumption, Zenon
       DEF RequestState, Ops, BookingOps, CreateOps, InTx
  <2>4. Legal(r, q) /\ \A j \in Keys : ~Holding(r, q, j)
    BY <1>0, <2>1, <2>2, NullFacts
       DEF Begin, Legal, PcLegal, RowsLegal, KeyLegal, ValueLegal, Holding, Ops, BookingOps,
           CreateOps, ReadsPledge, InTx
  <2> QED BY <2>1, <2>3, <2>4, <1>2
<1>5. CASE recordDirectContribution(r)
  <2>1. PICK v \in Values, k \in Keys \cup {None} :
          Begin(r, [Idle EXCEPT !.op = "recordDirectContribution",
                !.pc = "replay", !.pledge = r, !.value = v,
                !.committed = v, !.key = k])
    BY <1>5 DEF recordDirectContribution
  <2> DEFINE q == [Idle EXCEPT !.op = "recordDirectContribution",
                !.pc = "replay", !.pledge = r, !.value = v,
                !.committed = v, !.key = k]
  <2>2. q.op = "recordDirectContribution" /\ q.pc = "replay" /\ q.pledge = r /\ q.ful = None /\ q.value = v
    BY DEF Idle
  <2>3. q \in RequestState
    BY IdleType, <1>0, NullFacts, ConstantsAssumption, Zenon
       DEF RequestState, Ops, BookingOps, CreateOps, InTx
  <2>4. Legal(r, q) /\ \A j \in Keys : ~Holding(r, q, j)
    BY <1>0, <2>1, <2>2, NullFacts
       DEF Begin, Legal, PcLegal, RowsLegal, KeyLegal, ValueLegal, Holding, Ops, BookingOps,
           CreateOps, ReadsPledge, InTx
  <2> QED BY <2>1, <2>3, <2>4, <1>2
<1>6. CASE correctValue(r)
  <2>1. PICK f \in Requests, v \in Values :
          /\ Booked(f)
          /\ Begin(r, [Idle EXCEPT !.op = "correctValue",
                !.pc = "readFul", !.ful = f, !.value = v])
    BY <1>6 DEF correctValue
  <2> DEFINE q == [Idle EXCEPT !.op = "correctValue",
                !.pc = "readFul", !.ful = f, !.value = v]
  <2>2. q.op = "correctValue" /\ q.pc = "readFul" /\ q.ful = f /\ q.value = v /\ q.key = None
    BY DEF Idle
  <2>3. q \in RequestState
    BY IdleType, <1>0, NullFacts, ConstantsAssumption, Zenon
       DEF RequestState, Ops, BookingOps, CreateOps, InTx
  <2>4. Legal(r, q) /\ \A j \in Keys : ~Holding(r, q, j)
    BY <1>0, <2>1, <2>2, NullFacts
       DEF Begin, Legal, PcLegal, RowsLegal, KeyLegal, ValueLegal, Holding, Ops, BookingOps,
           CreateOps, ReadsPledge, InTx
  <2> QED BY <2>1, <2>3, <2>4, <1>2
<1>7. CASE correctCommittedValue(r)
  <2>1. PICK p \in PledgeIds, c \in Commitments :
          /\ pledges[p] # None
          /\ Begin(r, [Idle EXCEPT !.op = "correctCommittedValue",
                !.pc = "readPledge", !.pledge = p, !.value = c])
    BY <1>7 DEF correctCommittedValue
  <2> DEFINE q == [Idle EXCEPT !.op = "correctCommittedValue",
                !.pc = "readPledge", !.pledge = p, !.value = c]
  <2>2. q.op = "correctCommittedValue" /\ q.pc = "readPledge" /\ q.pledge = p /\ q.ful = None /\ q.key = None
    BY DEF Idle
  <2>3. q \in RequestState
    BY IdleType, <1>0, NullFacts, ConstantsAssumption, Zenon
       DEF RequestState, Ops, BookingOps, CreateOps, InTx
  <2>4. Legal(r, q) /\ \A j \in Keys : ~Holding(r, q, j)
    BY <1>0, <2>1, <2>2, NullFacts
       DEF Begin, Legal, PcLegal, RowsLegal, KeyLegal, ValueLegal, Holding, Ops, BookingOps,
           CreateOps, ReadsPledge, InTx
  <2> QED BY <2>1, <2>3, <2>4, <1>2
<1>8. CASE cancelPledge(r)
  <2>1. PICK p \in PledgeIds :
          /\ pledges[p] # None
          /\ Begin(r, [Idle EXCEPT !.op = "cancelPledge",
                !.pc = "readPledge", !.pledge = p])
    BY <1>8 DEF cancelPledge
  <2> DEFINE q == [Idle EXCEPT !.op = "cancelPledge",
                !.pc = "readPledge", !.pledge = p]
  <2>2. q.op = "cancelPledge" /\ q.pc = "readPledge" /\ q.pledge = p /\ q.ful = None /\ q.key = None
    BY DEF Idle
  <2>3. q \in RequestState
    BY IdleType, <1>0, NullFacts, ConstantsAssumption, Zenon
       DEF RequestState, Ops, BookingOps, CreateOps, InTx
  <2>4. Legal(r, q) /\ \A j \in Keys : ~Holding(r, q, j)
    BY <1>0, <2>1, <2>2, NullFacts
       DEF Begin, Legal, PcLegal, RowsLegal, KeyLegal, ValueLegal, Holding, Ops, BookingOps,
           CreateOps, ReadsPledge, InTx
  <2> QED BY <2>1, <2>3, <2>4, <1>2
<1>9. CASE recordPledgeWithPayment(r)
  <2>1. PICK c \in Commitments, v \in Values \cup {0} :
          Begin(r, IF v > c THEN Refused
                   ELSE [Idle EXCEPT !.op = "recordPledgeWithPayment",
                                     !.pc = IF v = 0 THEN "commit" ELSE "insert",
                                     !.pledge = r, !.value = v, !.committed = c])
    BY <1>9 DEF recordPledgeWithPayment
  <2> DEFINE q == [Idle EXCEPT !.op = "recordPledgeWithPayment",
                               !.pc = IF v = 0 THEN "commit" ELSE "insert",
                               !.pledge = r, !.value = v, !.committed = c]
  <2>2. /\ q.op = "recordPledgeWithPayment" /\ q.pledge = r /\ q.ful = None
        /\ q.value = v /\ q.pc = IF v = 0 THEN "commit" ELSE "insert"
    BY DEF Idle
  <2>3. q \in RequestState
    <3>1. (IF v = 0 THEN "commit" ELSE "insert") \in InTx /\ v \in Nat
      BY ConstantsAssumption DEF InTx
    <3>2. ASSUME NEW p \in InTx
          PROVE  [Idle EXCEPT !.op = "recordPledgeWithPayment", !.pc = p,
                              !.pledge = r, !.value = v, !.committed = c] \in RequestState
      BY IdleType, <3>1, <1>0, NullFacts, ConstantsAssumption, Zenon
         DEF RequestState, Ops, BookingOps, CreateOps
    <3> QED BY <3>1, <3>2
  <2>4. Legal(r, q) /\ \A j \in Keys : ~Holding(r, q, j)
    BY <1>0, <2>1, <2>2, NullFacts
       DEF Begin, Legal, PcLegal, RowsLegal, KeyLegal, ValueLegal, Holding, Ops, BookingOps,
           CreateOps, ReadsPledge, InTx
  <2>5. Begin(r, q) \/ Begin(r, Refused)
    BY <2>1
  <2> QED BY <2>5, <2>3, <2>4, <1>1, <1>2
<1>10. CASE setStatus(r)
  <2> DEFINE q == [Idle EXCEPT !.op = "setStatus", !.pc = "auditStatus"]
  <2>1. q.op = "setStatus" /\ q.pc = "auditStatus" /\ q.ful = None /\ q.key = None
    BY DEF Idle
  <2>2. q \in RequestState
    BY IdleType, Zenon DEF RequestState, Ops, InTx
  <2>3. Legal(r, q) /\ \A j \in Keys : ~Holding(r, q, j)
    BY <1>0, <1>10, <2>1, NullFacts
       DEF setStatus, Legal, PcLegal, RowsLegal, KeyLegal, ValueLegal, Holding, Ops, BookingOps,
           CreateOps, ReadsPledge, InTx
  <2>4. /\ eventStatus' \in EventStatus /\ Set(r, q)
        /\ UNCHANGED <<pledges, fulfillments, audit, outbox, recent>>
    BY <1>10, ConstantsAssumption DEF setStatus
  <2> QED BY <2>2, <2>3, <2>4, LocalStep
<1> QED
  BY <1>3, <1>4, <1>5, <1>6, <1>7, <1>8, <1>9, <1>10 DEF Call

\* A statement of an open transaction moves its request on legally.
LEMMA MoveOn ==
  ASSUME IInv, NEW r \in Requests, NEW q \in RequestState, Set(r, q), UNCHANGED tables,
         Legal(r, q),
         \A k \in Keys : Holding(r, q, k) =>
           \/ Holding(r, req[r], k)
           \/ /\ RowsWithKey(k) = {}
              /\ \A s \in Requests \ {r} : ~Holding(s, req[s], k)
  PROVE  IInv'
<1>1. /\ eventStatus' \in EventStatus
      /\ UNCHANGED <<pledges, fulfillments, audit, outbox, recent>>
  BY DEF tables, IInv, TypeOK
<1> QED BY <1>1, LocalStep

\* The replay lookup: a payment committed under the key is the answer.
LEMMA ReplayStep ==
  ASSUME IInv, NEW r \in Requests, findByIdempotencyKey(r)
  PROVE  IInv'
<1>1. req[r].pc = "replay" /\ UNCHANGED tables
  BY DEF findByIdempotencyKey
<1>2. req[r] \in RequestState /\ Legal(r, req[r])
  BY DEF IInv, TypeOK
<1>3. CASE \E f \in RowsWithKey(req[r].key) :
             req[r].key # None /\ Set(r, Answered(r, "replayed", f))
  <2>1. PICK f \in RowsWithKey(req[r].key) :
          req[r].key # None /\ Set(r, Answered(r, "replayed", f))
    BY <1>3
  <2>2. f \in Requests /\ Booked(f) /\ fulfillments[f].key = req[r].key /\ f # None
    BY NullFacts DEF RowsWithKey
  <2> DEFINE q == [Idle EXCEPT !.pc = "replayed", !.ful = f, !.key = req[r].key]
  <2>3. Set(r, q)
    BY <2>1, <2>2 DEF Answered
  <2>4. q \in RequestState
    <3>1. req[r].key \in Keys \cup {None}
      BY <1>2 DEF RequestState
    <3> QED BY IdleType, <2>2, <3>1, Zenon DEF RequestState, Outcomes
  <2>5. q.op = None /\ q.pc = "replayed" /\ q.ful = f /\ q.key = req[r].key
    BY DEF Idle
  <2>6. Legal(r, q) /\ \A k \in Keys : ~Holding(r, q, k)
    BY <2>2, <2>5, NullFacts
       DEF Legal, PcLegal, RowsLegal, KeyLegal, ValueLegal, Holding, Ops, BookingOps,
           CreateOps, ReadsPledge, InTx
  <2> QED BY <1>1, <2>3, <2>4, <2>6, MoveOn
<1>4. CASE Set(r, [req[r] EXCEPT !.pc = IF req[r].op = "recordFulfillment"
                                        THEN "readPledge" ELSE "insert"])
  <2> DEFINE p == IF req[r].op = "recordFulfillment" THEN "readPledge" ELSE "insert"
             q == [req[r] EXCEPT !.pc = p]
  <2>1. q \in RequestState
    BY <1>2, Zenon DEF RequestState, InTx
  <2>2. /\ q.pc = p /\ q.op = req[r].op /\ q.pledge = req[r].pledge /\ q.ful = req[r].ful
        /\ q.value = req[r].value /\ q.key = req[r].key
    BY <1>2 DEF RequestState
  <2>3. Legal(r, q) /\ \A k \in Keys : ~Holding(r, q, k)
    BY <1>1, <1>2, <2>2, NullFacts
       DEF Legal, PcLegal, RowsLegal, KeyLegal, ValueLegal, Holding, Ops, BookingOps,
           CreateOps, ReadsPledge, InTx
  <2> QED BY <1>1, <1>4, <2>1, <2>3, MoveOn
<1> QED BY <1>3, <1>4 DEF findByIdempotencyKey

\* A statement that keeps its request's inputs and ids and moves it to a
\* statement its operation has preserves the invariant.
LEMMA Advance ==
  ASSUME IInv, NEW r \in Requests, NEW q \in RequestState, Set(r, q), UNCHANGED tables,
         req[r].pc \in InTx \ {"readFul", "commit"}, q.pc \in InTx \ {"readFul"},
         q.op = req[r].op, q.pledge = req[r].pledge, q.ful = req[r].ful,
         q.value = req[r].value, q.key = req[r].key, PcLegal(q),
         q.op \in BookingOps /\ q.pc \in {"sum", "update", "commit"}
           => req[r].pc \in {"sum", "update"}
  PROVE  IInv'
<1>1. Legal(r, req[r])
  BY DEF IInv
<1>2. Legal(r, q)
  BY <1>1, NullFacts
     DEF Legal, PcLegal, RowsLegal, KeyLegal, ValueLegal, Ops, BookingOps, CreateOps,
         ReadsPledge, InTx
<1>3. \A k \in Keys : Holding(r, q, k) => Holding(r, req[r], k)
  BY DEF Holding
<1> QED BY <1>2, <1>3, MoveOn

\* The correction's read of the payment: it learns the pledge from the row.
LEMMA ReadFulfillmentStep ==
  ASSUME IInv, NEW r \in Requests, ReadFulfillment(r)
  PROVE  IInv'
<1>1. req[r].pc = "readFul" /\ UNCHANGED tables
  BY DEF ReadFulfillment
<1>2. req[r] \in RequestState /\ Legal(r, req[r])
  BY DEF IInv, TypeOK
<1>3. req[r].op = "correctValue" /\ req[r].ful \in Requests /\ Booked(req[r].ful)
  BY <1>1, <1>2 DEF Legal, PcLegal, RowsLegal
<1> DEFINE row == fulfillments[req[r].ful]
           q == [req[r] EXCEPT !.pc = "readPledge", !.pledge = row.pledge,
                               !.old = row.value, !.solo = TRUE]
<1>4. Set(r, q)
  BY DEF ReadFulfillment
<1>5. row.pledge \in PledgeIds /\ row.value \in Nat
  BY <1>3 DEF IInv, TypeOK, Booked, FulfillmentRow
<1>6. q \in RequestState
  <2> HIDE DEF row
  <2> QED BY <1>2, <1>5, Zenon DEF RequestState, InTx
<1>7. /\ q.pc = "readPledge" /\ q.op = req[r].op /\ q.pledge = row.pledge
      /\ q.ful = req[r].ful /\ q.value = req[r].value /\ q.key = req[r].key
  BY <1>2 DEF RequestState
<1>8. Legal(r, q) /\ \A k \in Keys : ~Holding(r, q, k)
  BY <1>1, <1>2, <1>3, <1>5, <1>7, NullFacts
     DEF Legal, PcLegal, RowsLegal, KeyLegal, ValueLegal, Holding, Ops, BookingOps,
         CreateOps, ReadsPledge, InTx
<1> QED BY <1>1, <1>4, <1>6, <1>8, MoveOn

\* The INSERT: its key is neither committed nor held by another transaction.
LEMMA InsertStep ==
  ASSUME IInv, NEW r \in Requests, InsertFulfillment(r)
  PROVE  IInv'
<1>1. req[r].pc = "insert" /\ UNCHANGED tables
  BY DEF InsertFulfillment
<1>2. req[r] \in RequestState /\ Legal(r, req[r])
  BY DEF IInv, TypeOK
<1>3. CASE End(r, "conflict")
  BY <1>1, <1>3, EndStep DEF Outcomes
<1>4. CASE ~KeyTaken(r) /\ ~KeyHeld(r) /\ Set(r, [req[r] EXCEPT !.pc = "sum", !.ful = r])
  <2> DEFINE q == [req[r] EXCEPT !.pc = "sum", !.ful = r]
  <2>1. q \in RequestState
    BY <1>2, Zenon DEF RequestState, InTx
  <2>2. /\ q.pc = "sum" /\ q.op = req[r].op /\ q.pledge = req[r].pledge
        /\ q.ful = r /\ q.value = req[r].value /\ q.key = req[r].key
    BY <1>2 DEF RequestState
  <2>3. Legal(r, q)
    BY <1>1, <1>2, <2>2, NullFacts
       DEF Legal, PcLegal, RowsLegal, KeyLegal, ValueLegal, Ops, BookingOps,
           CreateOps, ReadsPledge, InTx
  <2>4. ASSUME NEW k \in Keys, Holding(r, q, k)
        PROVE  RowsWithKey(k) = {} /\ \A s \in Requests \ {r} : ~Holding(s, req[s], k)
    <3>1. req[r].key = k /\ k # None
      BY <2>2, <2>4, NullFacts DEF Holding
    <3> QED BY <1>4, <3>1 DEF KeyTaken, KeyHeld, HoldsKey, Holding
  <2> QED BY <1>1, <1>4, <2>1, <2>3, <2>4, MoveOn
<1> QED BY <1>3, <1>4 DEF InsertFulfillment

\* The other statements keep the request's inputs and ids.
LEMMA StatementStep ==
  ASSUME IInv, NEW r \in Requests,
         \/ ReadPledge(r) \/ assertNotDuplicate(r) \/ assertWithinCommitted(r)
         \/ UpdateFulfillment(r) \/ RereadPledge(r) \/ DeriveFromSum(r)
         \/ UpdatePledge(r)
  PROVE  IInv'
<1>1. req[r] \in RequestState /\ Legal(r, req[r])
  BY DEF IInv, TypeOK
<1>2. PcLegal(req[r])
  BY <1>1 DEF Legal
<1>3. ASSUME req[r].op \in ReadsPledge \/ (req[r].op = "correctValue" /\ req[r].pc # "readFul")
      PROVE  /\ pledges[req[r].pledge].committed \in Nat
             /\ req[r].pledge \in PledgeIds
  <2>1. req[r].pledge \in PledgeIds /\ pledges[req[r].pledge] # None
    BY <1>1, <1>3 DEF Legal, RowsLegal, IInv, TypeOK, ForeignKey, Booked, FulfillmentRow,
                      ReadsPledge
  <2> QED BY <2>1 DEF IInv, TypeOK, PledgeRow
<1>4. ASSUME NEW p \in InTx \ {"readFul"}, Set(r, [req[r] EXCEPT !.pc = p]), UNCHANGED tables,
             req[r].pc \in InTx \ {"readFul", "commit"},
             \A q : q.pc = p /\ q.op = req[r].op => PcLegal(q),
             req[r].op \in BookingOps /\ p \in {"sum", "update", "commit"}
               => req[r].pc \in {"sum", "update"}
      PROVE  IInv'
  <2> DEFINE q == [req[r] EXCEPT !.pc = p]
  <2>1. q \in RequestState
    BY <1>1, Zenon DEF RequestState
  <2>2. /\ q.pc = p /\ q.op = req[r].op /\ q.pledge = req[r].pledge /\ q.ful = req[r].ful
        /\ q.value = req[r].value /\ q.key = req[r].key
    BY <1>1 DEF RequestState
  <2> HIDE DEF q
  <2>3. PcLegal(q)
    BY <1>4, <2>2
  <2>4. Set(r, q)
    BY <1>4 DEF q
  <2> QED BY <1>4, <2>1, <2>2, <2>3, <2>4, Advance
<1>5. CASE ReadPledge(r)
  <2>1. req[r].pc = "readPledge" /\ UNCHANGED tables
    BY <1>5 DEF ReadPledge
  <2>2. req[r].op \in ReadsPledge \cup {"correctValue"}
    BY <1>2, <2>1 DEF PcLegal
  <2>3. CASE End(r, "rejected")
    BY <2>1, <2>3, EndStep DEF Outcomes
  <2> DEFINE row == pledges[req[r].pledge]
             p == AfterReadPledge(r)
             b == row.status = "CANCELLED"
             e == req[r].solo \/ req[r].op # "correctValue"
             q == [req[r] EXCEPT !.pc = p, !.committed = row.committed,
                                 !.cancelled = b, !.solo = e]
  <2>4. CASE Set(r, q)
    <3>1. /\ p \in {"update", "sum", "bound", "dup"}
          /\ p = "update" => req[r].op = "cancelPledge"
          /\ p = "sum" => req[r].op = "correctCommittedValue"
          /\ p = "bound" => req[r].op \in {"recordFulfillment", "correctValue"}
          /\ p = "dup" => req[r].op = "recordFulfillment"
      BY <2>2, Zenon DEF AfterReadPledge, ReadsPledge
    <3>2. row.committed \in Nat /\ b \in BOOLEAN /\ e \in BOOLEAN
      BY <1>3, <2>1, <2>2
    <3> HIDE DEF p, b, e, row
    <3>3. q \in RequestState
      <4>1. p \in InTx
        BY <3>1 DEF InTx
      <4> QED BY <1>1, <3>2, <4>1, Zenon DEF RequestState
    <3>4. /\ q.pc = p /\ q.op = req[r].op /\ q.pledge = req[r].pledge
          /\ q.ful = req[r].ful /\ q.value = req[r].value /\ q.key = req[r].key
      BY <1>1 DEF RequestState
    <3> HIDE DEF q
    <3>5. PcLegal(q)
      BY <2>2, <3>1, <3>4, NullFacts
         DEF PcLegal, ReadsPledge, Ops, BookingOps, CreateOps, InTx
    <3>6. q.op \in BookingOps /\ q.pc \in {"sum", "update", "commit"}
            => req[r].pc \in {"sum", "update"}
      BY <2>2, <3>1, <3>4 DEF BookingOps
    <3>7. /\ req[r].pc \in InTx \ {"readFul", "commit"}
          /\ q.pc \in InTx \ {"readFul"}
      BY <2>1, <3>1, <3>4 DEF InTx
    <3> QED BY <2>1, <2>4, <3>3, <3>4, <3>5, <3>6, <3>7, Advance
  <2> QED BY <1>5, <2>3, <2>4 DEF ReadPledge
<1>6. CASE assertNotDuplicate(r)
  <2>1. req[r].pc = "dup" /\ UNCHANGED tables
    BY <1>6 DEF assertNotDuplicate
  <2>2. CASE End(r, "rejected")
    BY <2>1, <2>2, EndStep DEF Outcomes
  <2>3. CASE Set(r, [req[r] EXCEPT !.pc = "bound"])
    <3>1. req[r].op = "recordFulfillment"
      BY <1>2, <2>1 DEF PcLegal
    <3> QED BY <2>1, <2>3, <3>1, <1>4, NullFacts
               DEF PcLegal, InTx, Ops, BookingOps, CreateOps, ReadsPledge
  <2> QED BY <1>6, <2>2, <2>3 DEF assertNotDuplicate
<1>7. CASE assertWithinCommitted(r)
  <2>1. req[r].pc = "bound" /\ UNCHANGED tables
    BY <1>7 DEF assertWithinCommitted
  <2>2. req[r].op \in {"recordFulfillment", "correctValue"}
    BY <1>2, <2>1 DEF PcLegal
  <2>3. CASE End(r, "rejected")
    BY <2>1, <2>3, EndStep DEF Outcomes
  <2>4. CASE Set(r, [req[r] EXCEPT !.pc = IF req[r].op = "correctValue"
                                          THEN "updateFul" ELSE "insert"])
    <3>1. CASE req[r].op = "correctValue"
      BY <2>1, <2>4, <3>1, <1>4, NullFacts
         DEF PcLegal, InTx, Ops, BookingOps, CreateOps, ReadsPledge
    <3>2. CASE req[r].op = "recordFulfillment"
      BY <2>1, <2>4, <3>2, <1>4, NullFacts
         DEF PcLegal, InTx, Ops, BookingOps, CreateOps, ReadsPledge
    <3> QED BY <2>2, <3>1, <3>2
  <2> QED BY <1>7, <2>3, <2>4 DEF assertWithinCommitted
<1>8. CASE UpdateFulfillment(r)
  <2>1. /\ req[r].pc = "updateFul" /\ UNCHANGED tables
        /\ Set(r, [req[r] EXCEPT !.pc = "reread"])
    BY <1>8 DEF UpdateFulfillment
  <2>2. req[r].op = "correctValue"
    BY <1>2, <2>1 DEF PcLegal
  <2> QED BY <2>1, <2>2, <1>4, NullFacts
             DEF PcLegal, InTx, Ops, BookingOps, CreateOps, ReadsPledge
<1>9. CASE RereadPledge(r)
  <2> DEFINE row == pledges[req[r].pledge]
             b == row.status = "CANCELLED"
             q == [req[r] EXCEPT !.pc = "sum", !.committed = row.committed, !.cancelled = b]
  <2>1. /\ req[r].pc = "reread" /\ UNCHANGED tables /\ Set(r, q)
    BY <1>9 DEF RereadPledge
  <2>2. req[r].op = "correctValue"
    BY <1>2, <2>1 DEF PcLegal
  <2>3. row.committed \in Nat /\ b \in BOOLEAN
    BY <1>3, <2>1, <2>2
  <2> HIDE DEF row, b
  <2>4. q \in RequestState
    BY <1>1, <2>3, Zenon DEF RequestState, InTx
  <2>5. /\ q.pc = "sum" /\ q.op = req[r].op /\ q.pledge = req[r].pledge
        /\ q.ful = req[r].ful /\ q.value = req[r].value /\ q.key = req[r].key
    BY <1>1 DEF RequestState
  <2> HIDE DEF q
  <2>6. /\ PcLegal(q) /\ q.op \notin BookingOps
        /\ req[r].pc \in InTx \ {"readFul", "commit"} /\ q.pc \in InTx \ {"readFul"}
    BY <2>1, <2>2, <2>5, NullFacts
       DEF PcLegal, ReadsPledge, Ops, BookingOps, CreateOps, InTx
  <2> QED BY <2>1, <2>4, <2>5, <2>6, Advance
<1>10. CASE DeriveFromSum(r)
  <2>1. PICK s \in PledgeStatus : Set(r, [req[r] EXCEPT !.pc = "update", !.status = s])
    <3>1. /\ deriveStatus(req[r].value, SumFulfillments(req[r].pledge, {}),
                          req[r].cancelled) \in PledgeStatus
          /\ deriveStatus(req[r].committed, Projected(r), req[r].cancelled) \in PledgeStatus
      BY DerivedStatusType
    <3> QED BY <1>10, <3>1 DEF DeriveFromSum
  <2>2. req[r].pc = "sum" /\ UNCHANGED tables
    BY <1>10 DEF DeriveFromSum
  <2> DEFINE q == [req[r] EXCEPT !.pc = "update", !.status = s]
  <2>3. q \in RequestState
    BY <1>1, Zenon DEF RequestState, InTx
  <2>4. /\ q.pc = "update" /\ q.op = req[r].op /\ q.pledge = req[r].pledge
        /\ q.ful = req[r].ful /\ q.value = req[r].value /\ q.key = req[r].key
    BY <1>1 DEF RequestState
  <2> HIDE DEF q
  <2>5. /\ PcLegal(q)
        /\ req[r].pc \in InTx \ {"readFul", "commit"} /\ q.pc \in InTx \ {"readFul"}
    BY <1>2, <2>2, <2>4, NullFacts DEF PcLegal, InTx
  <2> QED BY <2>1, <2>2, <2>3, <2>4, <2>5, Advance DEF q
<1>11. CASE UpdatePledge(r)
  <2>1. PICK s \in PledgeStatus : Set(r, [req[r] EXCEPT !.pc = "commit", !.status = s])
    <3>1. req[r].status \in PledgeStatus /\ "CANCELLED" \in PledgeStatus
      BY <1>1 DEF RequestState, PledgeStatus
    <3> QED BY <1>11, <3>1 DEF UpdatePledge
  <2>2. req[r].pc = "update" /\ UNCHANGED tables
    BY <1>11 DEF UpdatePledge
  <2> DEFINE q == [req[r] EXCEPT !.pc = "commit", !.status = s]
  <2>3. q \in RequestState
    BY <1>1, Zenon DEF RequestState, InTx
  <2>4. /\ q.pc = "commit" /\ q.op = req[r].op /\ q.pledge = req[r].pledge
        /\ q.ful = req[r].ful /\ q.value = req[r].value /\ q.key = req[r].key
    BY <1>1 DEF RequestState
  <2> HIDE DEF q
  <2>5. /\ PcLegal(q)
        /\ req[r].pc \in InTx \ {"readFul", "commit"} /\ q.pc \in InTx \ {"readFul"}
    BY <1>2, <2>2, <2>4, NullFacts DEF PcLegal, InTx
  <2> QED BY <2>1, <2>2, <2>3, <2>4, <2>5, Advance DEF q
<1> QED BY <1>5, <1>6, <1>7, <1>8, <1>9, <1>10, <1>11

\* What a commit does to the tables and to the requests, field by field.
LEMMA CommitFacts ==
  ASSUME IInv, NEW r \in Requests, Commit(r)
  PROVE  /\ req[r].op \in Ops \ {"setStatus"} /\ req[r].pledge \in PledgeIds
         /\ fulfillments[r] = None /\ pledges[r] = None
         /\ req[r].op \notin CreateOps => pledges[req[r].pledge] \in PledgeRow
         /\ \A p \in PledgeIds : p # req[r].pledge => pledges'[p] = pledges[p]
         /\ pledges'[req[r].pledge] \in PledgeRow
         /\ pledges'[req[r].pledge].committed =
              IF req[r].op \in CreateOps THEN req[r].committed
              ELSE IF req[r].op = "correctCommittedValue" THEN req[r].value
              ELSE pledges[req[r].pledge].committed
         /\ pledges' \in [PledgeIds -> PledgeRow \cup {None}]
         /\ Inserts(r) =>
              fulfillments' = [fulfillments EXCEPT ![r] =
                [pledge |-> req[r].pledge, value |-> req[r].value, key |-> req[r].key]]
         /\ req[r].op = "correctValue" =>
              /\ ~Inserts(r)
              /\ req[r].ful \in Requests /\ fulfillments[req[r].ful] \in FulfillmentRow
              /\ fulfillments' = [fulfillments EXCEPT ![req[r].ful].value = req[r].value]
         /\ ~Inserts(r) /\ req[r].op # "correctValue" => fulfillments' = fulfillments
         /\ fulfillments' \in [Requests -> FulfillmentRow \cup {None}]
<1>1. req[r] \in RequestState /\ Legal(r, req[r]) /\ req[r].pc = "commit"
  BY DEF IInv, TypeOK, Commit
<1>2. /\ req[r].op \in Ops \ {"setStatus"}
      /\ fulfillments[r] = None /\ pledges[r] = None
  BY <1>1, NullFacts DEF Legal, PcLegal, RowsLegal, InTx, RequestState
<1>3. /\ req[r].pledge \in PledgeIds
      /\ req[r].op \notin CreateOps => pledges[req[r].pledge] \in PledgeRow
  <2>1. CASE req[r].op \in CreateOps
    BY <1>1, <2>1, NullFacts DEF Legal, RowsLegal
  <2>2. CASE req[r].op \in ReadsPledge
    BY <1>1, <2>2 DEF Legal, RowsLegal, IInv, TypeOK
  <2>3. CASE req[r].op = "correctValue"
    BY <1>1, <2>3 DEF Legal, RowsLegal, IInv, TypeOK, ForeignKey, Booked, FulfillmentRow
  <2> QED BY <1>2, <2>1, <2>2, <2>3 DEF Ops, BookingOps, CreateOps, ReadsPledge
<1>4. /\ req[r].committed \in Nat /\ req[r].value \in Nat /\ req[r].status \in PledgeStatus
      /\ req[r].key \in Keys \cup {None}
  BY <1>1 DEF RequestState
<1>5. pledges \in [PledgeIds -> PledgeRow \cup {None}]
  BY DEF IInv, TypeOK
<1>6. /\ \A p \in PledgeIds : p # req[r].pledge => pledges'[p] = pledges[p]
      /\ pledges'[req[r].pledge] \in PledgeRow
      /\ pledges'[req[r].pledge].committed =
           IF req[r].op \in CreateOps THEN req[r].committed
           ELSE IF req[r].op = "correctCommittedValue" THEN req[r].value
           ELSE pledges[req[r].pledge].committed
      /\ pledges' \in [PledgeIds -> PledgeRow \cup {None}]
  <2>1. CASE req[r].op \in CreateOps
    <3>1. pledges' = [pledges EXCEPT ![req[r].pledge] =
                        [committed |-> req[r].committed, status |-> req[r].status]]
      <4>1. req[r].op # "correctCommittedValue"
        BY <2>1 DEF CreateOps
      <4> QED BY <2>1, <4>1, Zenon DEF Commit, PledgesAfter
    <3> QED BY <1>3, <1>4, <1>5, <2>1, <3>1 DEF PledgeRow
  <2>2. CASE req[r].op = "correctCommittedValue"
    <3>1. pledges' = [pledges EXCEPT ![req[r].pledge] =
                        [committed |-> req[r].value, status |-> req[r].status]]
      <4>1. req[r].op \notin CreateOps
        BY <2>2 DEF CreateOps
      <4> QED BY <4>1, <2>2, Zenon DEF Commit, PledgesAfter
    <3> QED BY <1>3, <1>4, <1>5, <2>2, <3>1 DEF PledgeRow, CreateOps
  <2>3. CASE req[r].op \notin CreateOps \cup {"correctCommittedValue"}
    <3>1. pledges' = [pledges EXCEPT ![req[r].pledge] =
                        [pledges[req[r].pledge] EXCEPT !.status = req[r].status]]
      BY <1>3, <1>5, <2>3, Zenon DEF Commit, PledgesAfter
    <3> QED BY <1>3, <1>4, <1>5, <2>3, <3>1 DEF PledgeRow
  <2> QED BY <2>1, <2>2, <2>3
<1>7. fulfillments \in [Requests -> FulfillmentRow \cup {None}]
  BY DEF IInv, TypeOK
<1>8. CASE Inserts(r)
  <2>1. req[r].op # "correctValue"
    BY <1>8 DEF Inserts, BookingOps
  <2>2. fulfillments' = [fulfillments EXCEPT ![r] =
          [pledge |-> req[r].pledge, value |-> req[r].value, key |-> req[r].key]]
    BY <1>8, <2>1, Zenon DEF Commit, FulfillmentsAfter
  <2>3. fulfillments' \in [Requests -> FulfillmentRow \cup {None}]
    BY <1>3, <1>4, <1>7, <2>2 DEF FulfillmentRow
  <2> QED BY <1>2, <1>3, <1>6, <1>8, <2>1, <2>2, <2>3
<1>9. CASE req[r].op = "correctValue"
  <2>1. ~Inserts(r)
    BY <1>9 DEF Inserts, BookingOps
  <2>2. fulfillments' = [fulfillments EXCEPT ![req[r].ful].value = req[r].value]
    BY <1>9, <2>1, Zenon DEF Commit, FulfillmentsAfter
  <2>3. req[r].ful \in Requests /\ fulfillments[req[r].ful] \in FulfillmentRow
    BY <1>1, <1>7, <1>9 DEF Legal, RowsLegal, Booked
  <2>4. fulfillments' \in [Requests -> FulfillmentRow \cup {None}]
    BY <1>4, <1>7, <2>2, <2>3 DEF FulfillmentRow
  <2> QED BY <1>2, <1>3, <1>6, <1>9, <2>1, <2>2, <2>3, <2>4
<1>10. CASE ~Inserts(r) /\ req[r].op # "correctValue"
  <2>1. fulfillments' = fulfillments
    BY <1>10, Zenon DEF Commit, FulfillmentsAfter
  <2> QED BY <1>2, <1>3, <1>6, <1>7, <1>10, <2>1
<1> QED BY <1>8, <1>9, <1>10

\* The audit rows a commit adds are typed, and say what it did.
LEMMA AuditFacts ==
  ASSUME IInv, NEW r \in Requests, Commit(r)
  PROVE  /\ audit' \subseteq AuditRow /\ audit \subseteq audit'
         /\ Inserts(r) => Row(r, "fulfillment:create", r, None, req[r].value) \in audit'
         /\ \A a \in audit' : a.action = "fulfillment:create" =>
              a \in audit \/ (Inserts(r) /\ a.res = r)
         /\ req[r].op = "correctValue" =>
              Row(r, "fulfillment:correct", req[r].ful, req[r].old, req[r].value) \in audit'
         /\ req[r].op \in CreateOps => \E t \in {"pledge:create", "pledge:create_direct"} :
              Row(r, t, r, None, req[r].committed) \in audit'
         /\ req[r].op = "correctCommittedValue" =>
              Row(r, "pledge:correct", req[r].pledge, req[r].committed, req[r].value) \in audit'
<1>1. audit' = audit \cup AuditRowsOf(r)
  BY DEF Commit
<1>2. /\ req[r].pledge \in PledgeIds /\ req[r].value \in Nat /\ req[r].committed \in Nat
      /\ req[r].old \in Nat /\ r \in PledgeIds
      /\ req[r].op = "correctValue" => req[r].ful \in PledgeIds
  BY CommitFacts, NullFacts DEF IInv, TypeOK, RequestState
<1>3. AuditRowsOf(r) \subseteq AuditRow
  BY <1>2 DEF AuditRowsOf, Row, AuditRow, AuditActions
<1>4. audit \subseteq AuditRow
  BY DEF IInv, TypeOK
<1>5. \A a \in AuditRowsOf(r) : a.action = "fulfillment:create" => Inserts(r) /\ a.res = r
  BY DEF AuditRowsOf, Row
<1>6. Inserts(r) => Row(r, "fulfillment:create", r, None, req[r].value) \in AuditRowsOf(r)
  BY DEF AuditRowsOf
<1>7. req[r].op = "correctValue" =>
        Row(r, "fulfillment:correct", req[r].ful, req[r].old, req[r].value) \in AuditRowsOf(r)
  BY DEF AuditRowsOf
<1>8. req[r].op \in CreateOps => \E t \in {"pledge:create", "pledge:create_direct"} :
        Row(r, t, r, None, req[r].committed) \in AuditRowsOf(r)
  BY DEF AuditRowsOf
<1>9. req[r].op = "correctCommittedValue" =>
        Row(r, "pledge:correct", req[r].pledge, req[r].committed, req[r].value)
          \in AuditRowsOf(r)
  BY DEF AuditRowsOf
<1> QED BY <1>1, <1>3, <1>4, <1>5, <1>6, <1>7, <1>8, <1>9

\* What a commit does to the requests: its own ends, the others lose at most
\* their claim to have been alone.
LEMMA CommitRequests ==
  ASSUME IInv, NEW r \in Requests, Commit(r)
  PROVE  /\ req' \in [Requests -> RequestState]
         /\ /\ req'[r].pc = "ok" /\ req'[r].op = None /\ req'[r].ful = req[r].ful
            /\ req'[r].key = IF req[r].ful = None THEN None ELSE req[r].key
         /\ \A s \in Requests \ {r} :
              /\ req'[s].pc = req[s].pc /\ req'[s].op = req[s].op
              /\ req'[s].pledge = req[s].pledge /\ req'[s].ful = req[s].ful
              /\ req'[s].value = req[s].value /\ req'[s].key = req[s].key
<1>1. \A s \in Requests : req[s] \in RequestState
  BY DEF IInv, TypeOK
<1> DEFINE k == IF req[r].ful = None THEN None ELSE req[r].key
           q == [Idle EXCEPT !.pc = "ok", !.ful = req[r].ful, !.key = k]
           Cleared(s) == [req[s] EXCEPT !.solo = FALSE]
<1>2. /\ req' = [s \in Requests |-> req'[s]]
      /\ req'[r] = q
      /\ \A s \in Requests \ {r} : req'[s] = req[s] \/ req'[s] = Cleared(s)
  <2> DEFINE f(s) == CASE s = r -> Answered(r, "ok", req[r].ful)
                       [] s # r /\ req[s].pledge = req[r].pledge -> Cleared(s)
                       [] OTHER -> req[s]
  <2>1. req' = [s \in Requests |-> f(s)]
    BY DEF Commit
  <2>2. f(r) = Answered(r, "ok", req[r].ful)
    BY Zenon
  <2>3. \A s \in Requests \ {r} : f(s) = req[s] \/ f(s) = Cleared(s)
    BY Zenon
  <2> HIDE DEF f
  <2> QED BY <2>1, <2>2, <2>3 DEF Answered
<1>3. req[r].ful \in Requests \cup {None} /\ k \in Keys \cup {None}
  BY <1>1 DEF RequestState
<1>4. q \in RequestState
  <2> HIDE DEF k
  <2> QED BY <1>3, IdleType, Zenon DEF RequestState, Outcomes
<1>5. \A s \in Requests : Cleared(s) \in RequestState
  BY <1>1, Zenon DEF RequestState
<1>6. \A s \in Requests :
        /\ Cleared(s).pc = req[s].pc /\ Cleared(s).op = req[s].op
        /\ Cleared(s).pledge = req[s].pledge /\ Cleared(s).ful = req[s].ful
        /\ Cleared(s).value = req[s].value /\ Cleared(s).key = req[s].key
  BY <1>1 DEF RequestState
<1>7. q.pc = "ok" /\ q.op = None /\ q.ful = req[r].ful /\ q.key = k
  BY DEF Idle
<1> HIDE DEF q, Cleared
<1>8. \A s \in Requests : req'[s] \in RequestState
  BY <1>1, <1>2, <1>4, <1>5
<1>9. req' \in [Requests -> RequestState]
  BY <1>2, <1>8
<1>10. \A s \in Requests \ {r} :
         /\ req'[s].pc = req[s].pc /\ req'[s].op = req[s].op
         /\ req'[s].pledge = req[s].pledge /\ req'[s].ful = req[s].ful
         /\ req'[s].value = req[s].value /\ req'[s].key = req[s].key
  BY <1>2, <1>6
<1> QED BY <1>2, <1>7, <1>9, <1>10

\* A commit preserves the invariant.
LEMMA CommitStep ==
  ASSUME IInv, NEW r \in Requests, Commit(r)
  PROVE  IInv'
<1>1. req[r] \in RequestState /\ Legal(r, req[r]) /\ req[r].pc = "commit"
  BY DEF IInv, TypeOK, Commit
<1>2. fulfillments \in [Requests -> FulfillmentRow \cup {None}]
  BY DEF IInv, TypeOK
<1>p. /\ req[r].op \in Ops \ {"setStatus"} /\ req[r].pledge \in PledgeIds
      /\ fulfillments[r] = None /\ pledges[r] = None
      /\ req[r].op \notin CreateOps => pledges[req[r].pledge] \in PledgeRow
      /\ \A p \in PledgeIds : p # req[r].pledge => pledges'[p] = pledges[p]
      /\ pledges'[req[r].pledge] \in PledgeRow
      /\ pledges'[req[r].pledge].committed =
           IF req[r].op \in CreateOps THEN req[r].committed
           ELSE IF req[r].op = "correctCommittedValue" THEN req[r].value
           ELSE pledges[req[r].pledge].committed
  BY CommitFacts, Zenon
<1>f. /\ Inserts(r) =>
           fulfillments' = [fulfillments EXCEPT ![r] =
             [pledge |-> req[r].pledge, value |-> req[r].value, key |-> req[r].key]]
      /\ req[r].op = "correctValue" =>
           /\ ~Inserts(r)
           /\ req[r].ful \in Requests /\ fulfillments[req[r].ful] \in FulfillmentRow
           /\ fulfillments' = [fulfillments EXCEPT ![req[r].ful].value = req[r].value]
      /\ ~Inserts(r) /\ req[r].op # "correctValue" => fulfillments' = fulfillments
  BY CommitFacts, Zenon
<1>3. \A f \in Requests : Booked(f)' <=> Booked(f) \/ (f = r /\ Inserts(r))
  <2>1. [pledge |-> req[r].pledge, value |-> req[r].value, key |-> req[r].key]
          \in FulfillmentRow
    BY <1>1, <1>p DEF RequestState, FulfillmentRow
  <2>2. req[r].op = "correctValue" =>
          [fulfillments[req[r].ful] EXCEPT !.value = req[r].value] \in FulfillmentRow
    BY <1>1, <1>f DEF RequestState, FulfillmentRow
  <2> QED BY <1>2, <1>p, <1>f, <2>1, <2>2, NullFacts DEF Booked
<1>4. \A f \in Requests : Booked(f) =>
        /\ fulfillments'[f].pledge = fulfillments[f].pledge
        /\ fulfillments'[f].key = fulfillments[f].key
  BY <1>2, <1>p, <1>f, NullFacts DEF Booked, FulfillmentRow
<1>5. Inserts(r) => /\ fulfillments'[r].pledge = req[r].pledge
                    /\ fulfillments'[r].key = req[r].key
                    /\ fulfillments'[r].value = req[r].value
  BY <1>2, <1>f
<1>6. \A p \in PledgeIds : pledges[p] # None => pledges'[p] # None
  BY <1>p, NullFacts
<1>7. TypeOK'
  <2>1. outbox' \subseteq Requests /\ recent' \subseteq Requests /\ eventStatus' \in EventStatus
    BY DEF Commit, Booking, IInv, TypeOK
  <2> QED BY <2>1, CommitFacts, AuditFacts, CommitRequests DEF TypeOK
<1>8. \A s \in Requests : Legal(s, req[s])'
  <2> SUFFICES ASSUME NEW s \in Requests
               PROVE  Legal(s, req[s])'
    OBVIOUS
  <2>1. CASE s = r
    <3>1. /\ req'[s].pc = "ok" /\ req'[s].op = None /\ req'[s].ful = req[r].ful
          /\ req'[s].key = IF req[r].ful = None THEN None ELSE req[r].key
      BY <2>1, CommitRequests
    <3>2. ASSUME req'[s].key # None
          PROVE  req'[s].ful \in Requests /\ Booked(req[s].ful)'
                   /\ fulfillments'[req'[s].ful].key = req'[s].key
      <4>1. req[r].ful # None /\ req[r].key # None
        BY <3>1, <3>2
      <4>2. req[r].op \in BookingOps /\ req[r].ful = r
        BY <1>1, <4>1, <1>p DEF Legal, RowsLegal, KeyLegal
      <4>3. Inserts(r)
        BY <4>2 DEF Inserts
      <4> QED BY <1>3, <1>5, <3>1, <4>1, <4>2, <4>3 DEF Booked
    <3> QED BY <3>1, <3>2, NullFacts
               DEF Legal, PcLegal, RowsLegal, KeyLegal, ValueLegal, Booked, Ops, BookingOps,
                   CreateOps, ReadsPledge, InTx
  <2>2. CASE s # r
    <3>1. Legal(s, req[s])
      BY DEF IInv
    <3>2. /\ req'[s].pc = req[s].pc /\ req'[s].op = req[s].op
          /\ req'[s].pledge = req[s].pledge /\ req'[s].ful = req[s].ful
          /\ req'[s].value = req[s].value /\ req'[s].key = req[s].key
      BY <2>2, CommitRequests
    <3>3. PcLegal(req[s])' /\ ValueLegal(req[s])'
      BY <3>1, <3>2 DEF Legal, PcLegal, ValueLegal
    <3>4. KeyLegal(req[s])'
      BY <1>3, <1>4, <3>1, <3>2 DEF Legal, KeyLegal, Booked
    <3>5. fulfillments[s] = None => fulfillments'[s] = None
      BY <1>3, <2>2 DEF Booked
    <3>6. pledges[s] = None => pledges'[s] = None
      <4>1. req[r].pledge = s => pledges[s] # None
        BY <1>1, <2>2, <1>p, NullFacts DEF Legal, RowsLegal
      <4> QED BY <4>1, <1>p, NullFacts
    <3>7. RowsLegal(s, req[s])'
      BY <1>3, <1>4, <1>6, <3>1, <3>2, <3>5, <3>6 DEF Legal, RowsLegal, Booked
    <3> QED BY <3>3, <3>4, <3>7 DEF Legal
  <2> QED BY <2>1, <2>2
<1>9. KeyInv'
  <2>1. \A k \in Keys : RowsWithKey(k)' =
          RowsWithKey(k) \cup (IF Inserts(r) /\ req[r].key = k THEN {r} ELSE {})
    BY <1>3, <1>4, <1>5, <1>p DEF RowsWithKey, Booked
  <2>2. \A k \in Keys : Inserts(r) /\ req[r].key = k => Holding(r, req[r], k)
    BY <1>1 DEF Inserts, Holding
  <2>3. \A s \in Requests, k \in Keys :
          Holding(s, req'[s], k) => s # r /\ Holding(s, req[s], k)
    BY CommitRequests, NullFacts DEF Holding, Ops
  <2>4. ASSUME NEW k \in Keys
        PROVE  /\ \A f, g \in RowsWithKey(k)' : f = g
               /\ \A s \in Requests : Holding(s, req'[s], k) =>
                    /\ RowsWithKey(k)' = {}
                    /\ \A t \in Requests : Holding(t, req'[t], k) => t = s
    <3>1. /\ \A f, g \in RowsWithKey(k) : f = g
          /\ \A s \in Requests : Holding(s, req[s], k) =>
               /\ RowsWithKey(k) = {}
               /\ \A t \in Requests : Holding(t, req[t], k) => t = s
      BY DEF IInv, KeyInv
    <3> QED BY <2>1, <2>2, <2>3, <3>1
  <2> QED BY <2>4 DEF KeyInv, Holding
<1>10. ForeignKey'
  <2> SUFFICES ASSUME NEW f \in Requests, Booked(f)'
               PROVE  pledges'[fulfillments'[f].pledge] # None
    BY DEF ForeignKey
  <2>1. CASE Booked(f)
    <3>1. fulfillments[f].pledge \in PledgeIds /\ pledges[fulfillments[f].pledge] # None
      BY <1>2, <2>1 DEF IInv, ForeignKey, Booked, FulfillmentRow
    <3> QED BY <1>4, <1>6, <2>1, <3>1
  <2>2. CASE f = r /\ Inserts(r)
    BY <1>5, <2>2, <1>p, NullFacts
  <2> QED BY <1>3, <2>1, <2>2
<1>11. EveryAmountIsAudited'
  <2>1. EveryAmountIsAudited
    BY DEF IInv
  <2>2. ASSUME NEW f \in Requests
        PROVE  /\ Booked(f)' <=> f \in outbox'
               /\ Booked(f)' <=> \E a \in audit' : a.action = "fulfillment:create" /\ a.res = f
    <3>1. outbox' = IF Inserts(r) THEN outbox \cup {r} ELSE outbox
      BY DEF Commit, Booking
    <3>2. Row(r, "fulfillment:create", r, None, req[r].value).action = "fulfillment:create"
          /\ Row(r, "fulfillment:create", r, None, req[r].value).res = r
      BY DEF Row
    <3> QED BY <1>3, <2>1, <3>1, <3>2, AuditFacts DEF EveryAmountIsAudited
  <2>3. ASSUME NEW f \in Requests, Booked(f)'
        PROVE  \E a \in audit' :
                 /\ a.action \in {"fulfillment:create", "fulfillment:correct"}
                 /\ a.res = f /\ a.new = fulfillments'[f].value
    <3>1. CASE Inserts(r) /\ f = r
      <4> DEFINE a == Row(r, "fulfillment:create", r, None, req[r].value)
      <4>1. a \in audit' /\ a.action = "fulfillment:create" /\ a.res = r
              /\ a.new = req[r].value
        BY <3>1, AuditFacts DEF Row
      <4> QED BY <1>5, <3>1, <4>1
    <3>2. CASE req[r].op = "correctValue" /\ f = req[r].ful
      <4> DEFINE a == Row(r, "fulfillment:correct", req[r].ful, req[r].old, req[r].value)
      <4>1. a \in audit' /\ a.action = "fulfillment:correct" /\ a.res = f
              /\ a.new = req[r].value
        BY <3>2, AuditFacts DEF Row
      <4>2. fulfillments'[f].value = req[r].value
        BY <1>2, <1>f, <3>2 DEF FulfillmentRow
      <4> QED BY <4>1, <4>2
    <3>3. CASE ~(Inserts(r) /\ f = r) /\ ~(req[r].op = "correctValue" /\ f = req[r].ful)
      <4>1. Booked(f) /\ fulfillments'[f] = fulfillments[f]
        BY <1>2, <1>3, <1>f, <2>3, <3>3
      <4> QED BY <2>1, <4>1, AuditFacts DEF EveryAmountIsAudited
    <3> QED BY <3>1, <3>2, <3>3
  <2>4. ASSUME NEW p \in PledgeIds, pledges'[p] # None
        PROVE  \E a \in audit' :
                 /\ a.action \in {"pledge:create", "pledge:create_direct", "pledge:correct"}
                 /\ a.res = p /\ a.new = pledges'[p].committed
    <3>1. CASE p = req[r].pledge /\ req[r].op \in CreateOps
      <4>1. p = r /\ pledges'[p].committed = req[r].committed
        BY <1>1, <3>1, <1>p DEF Legal, RowsLegal
      <4>2. PICK t \in {"pledge:create", "pledge:create_direct"} :
              Row(r, t, r, None, req[r].committed) \in audit'
        BY <3>1, AuditFacts
      <4> QED BY <4>1, <4>2 DEF Row
    <3>2. CASE p = req[r].pledge /\ req[r].op = "correctCommittedValue"
      <4> DEFINE a == Row(r, "pledge:correct", req[r].pledge, req[r].committed, req[r].value)
      <4>1. a \in audit' /\ a.action = "pledge:correct" /\ a.res = p /\ a.new = req[r].value
        BY <3>2, AuditFacts DEF Row
      <4>2. pledges'[p].committed = req[r].value
        BY <3>2, <1>p DEF CreateOps
      <4> QED BY <4>1, <4>2
    <3>3. CASE \/ p # req[r].pledge
               \/ req[r].op \notin CreateOps \cup {"correctCommittedValue"}
      <4>1. pledges[p] # None /\ pledges'[p].committed = pledges[p].committed
        BY <2>4, <3>3, <1>p, NullFacts
      <4> QED BY <2>1, <4>1, AuditFacts DEF EveryAmountIsAudited
    <3> QED BY <3>1, <3>2, <3>3
  <2> QED BY <2>2, <2>3, <2>4 DEF EveryAmountIsAudited, Booked
<1> QED BY <1>7, <1>8, <1>9, <1>10, <1>11 DEF IInv

\* setStatus' audit row is about no payment and no pledge.
LEMMA AuditStatusStep ==
  ASSUME IInv, NEW r \in Requests, AuditStatus(r)
  PROVE  IInv'
<1> DEFINE a == [by |-> r, action |-> "event:set_status", res |-> None, old |-> None,
                 new |-> None]
           q == [Idle EXCEPT !.pc = "ok"]
<1>1. /\ req' = [req EXCEPT ![r] = q] /\ audit' = audit \cup {a}
      /\ eventStatus' = eventStatus /\ pledges' = pledges /\ fulfillments' = fulfillments
      /\ outbox' = outbox /\ recent' = recent
  BY DEF AuditStatus, End
<1>2. q \in RequestState /\ Legal(r, q) /\ \A k \in Keys : ~Holding(r, q, k)
  BY EndedIsLegal DEF Outcomes
<1>3. a \in AuditRow
  BY NullFacts DEF AuditRow, AuditActions
<1> HIDE DEF q
<1>4. \A s \in Requests : req'[s] = IF s = r THEN q ELSE req[s]
  BY <1>1 DEF IInv, TypeOK
<1>5. TypeOK'
  BY <1>1, <1>2, <1>3 DEF IInv, TypeOK
<1>6. \A s \in Requests : Legal(s, req[s])'
  BY <1>1, <1>2, <1>4 DEF IInv, Legal, PcLegal, RowsLegal, KeyLegal, ValueLegal, Booked
<1>7. KeyInv'
  <2>1. \A k : RowsWithKey(k)' = RowsWithKey(k)
    BY <1>1 DEF RowsWithKey, Booked
  <2>2. ASSUME NEW k \in Keys
        PROVE  /\ \A f, g \in RowsWithKey(k)' : f = g
               /\ \A s \in Requests : Holding(s, req'[s], k) =>
                    /\ RowsWithKey(k)' = {}
                    /\ \A t \in Requests : Holding(t, req'[t], k) => t = s
    BY <1>2, <1>4, <2>1 DEF IInv, KeyInv
  <2> QED BY <2>2 DEF KeyInv, Holding
<1>8. ForeignKey'
  BY <1>1 DEF IInv, ForeignKey, Booked
<1>9. EveryAmountIsAudited'
  <2>1. /\ audit \subseteq audit'
        /\ \A b \in audit' : b.action = "fulfillment:create" => b \in audit
    BY <1>1
  <2> QED BY <1>1, <2>1 DEF IInv, EveryAmountIsAudited, Booked
<1> QED BY <1>5, <1>6, <1>7, <1>8, <1>9 DEF IInv

\* The invariant holds initially.
LEMMA InitIInv == Init => IInv
<1> SUFFICES ASSUME Init PROVE IInv
  OBVIOUS
<1> USE DEF Init
<1>1. \A r \in Requests : req[r] = Idle /\ fulfillments[r] = None /\ pledges[r] = None
  BY NullFacts, ConstantsAssumption DEF PledgeIds
<1>2. Idle.pc = "idle" /\ Idle.op = None /\ Idle.key = None
  BY DEF Idle
<1>3. TypeOK
  <2>1. req \in [Requests -> RequestState]
    BY IdleType
  <2>2. pledges \in [PledgeIds -> PledgeRow \cup {None}]
    BY ConstantsAssumption DEF PledgeRow, PledgeStatus
  <2>3. audit \subseteq AuditRow
    BY ConstantsAssumption DEF AuditRow, AuditActions, PledgeIds
  <2> QED BY <2>1, <2>2, <2>3 DEF TypeOK, EventStatus
<1>4. \A r \in Requests : Legal(r, req[r])
  BY <1>1, <1>2, NullFacts
     DEF Legal, PcLegal, RowsLegal, KeyLegal, ValueLegal, Ops, BookingOps, CreateOps,
         ReadsPledge, InTx
<1>5. KeyInv /\ ForeignKey
  BY <1>1, <1>2, NullFacts DEF KeyInv, ForeignKey, Holding, RowsWithKey, Booked
<1>6. EveryAmountIsAudited
  <2>1. \A f \in Requests : ~Booked(f) /\ f \notin outbox
    BY <1>1 DEF Booked
  <2>2. \A a \in audit : a.action = "pledge:create"
    OBVIOUS
  <2>3. ASSUME NEW p \in PledgeIds, pledges[p] # None
        PROVE  \E a \in audit : a.action = "pledge:create" /\ a.res = p
                                  /\ a.new = pledges[p].committed
    <3>1. p \in Seeds /\ pledges[p].committed = SeedCommitted
      BY <2>3
    <3> DEFINE a == [by |-> p, action |-> "pledge:create", res |-> p, old |-> None,
                     new |-> SeedCommitted]
    <3>2. a \in audit
      BY <3>1
    <3> QED BY <3>1, <3>2
  <2> QED BY <2>1, <2>2, <2>3 DEF EveryAmountIsAudited
<1> QED BY <1>3, <1>4, <1>5, <1>6 DEF IInv

\* Every step preserves the invariant.
LEMMA NextIInv == IInv /\ [Next]_vars => IInv'
<1> SUFFICES ASSUME IInv, [Next]_vars PROVE IInv'
  OBVIOUS
<1>1. ASSUME NEW r \in Requests, Statement(r) PROVE IInv'
  BY <1>1, ReplayStep, ReadFulfillmentStep, InsertStep, StatementStep, CommitStep,
     AuditStatusStep DEF Statement
<1>2. ASSUME NEW r \in Requests, Fail(r) PROVE IInv'
  BY <1>2, EndStep DEF Fail, Outcomes
<1>3. CASE WindowElapses
  BY <1>3 DEF WindowElapses, IInv, TypeOK, Legal, PcLegal, RowsLegal, KeyLegal, ValueLegal,
              Booked, KeyInv, Holding, RowsWithKey, ForeignKey, EveryAmountIsAudited
<1>4. CASE UNCHANGED vars
  BY <1>4 DEF vars, IInv, TypeOK, Legal, PcLegal, RowsLegal, KeyLegal, ValueLegal,
              Booked, KeyInv, Holding, RowsWithKey, ForeignKey, EveryAmountIsAudited
<1> QED BY <1>1, <1>2, <1>3, <1>4, CallStep DEF Next

\* The invariant holds in every reachable state.
THEOREM Invariance == Spec => []IInv
BY InitIInv, NextIInv, PTL DEF Spec

-----------------------------------------------------------------------------
(* Theorems.                                                               *)

\* The tables and the requests' records keep their types, whatever the
\* interleaving of the services' statements.
THEOREM TypeCorrect == Spec => []TypeOK
<1>1. IInv => TypeOK
  BY DEF IInv
<1> QED BY <1>1, Invariance, PTL

\* recordFulfillment and recordDirectContribution are idempotent: a key books
\* one payment, and every answer given under it names that payment.
THEOREM Idempotent == Spec => []IdempotentBooking
<1>1. IInv => IdempotentBooking
  <2> SUFFICES ASSUME IInv, NEW k \in Keys
               PROVE  /\ \A f, g \in RowsWithKey(k) : f = g
                      /\ \A r \in Requests : req[r].key = k /\ req[r].pc \in {"ok", "replayed"}
                           => req[r].ful \in RowsWithKey(k)
    BY DEF IdempotentBooking
  <2>1. \A f, g \in RowsWithKey(k) : f = g
    BY DEF IInv, KeyInv
  <2>2. \A r \in Requests : req[r].key = k /\ req[r].pc \in {"ok", "replayed"}
          => req[r].ful \in RowsWithKey(k)
    BY NullFacts DEF IInv, Legal, KeyLegal, RowsWithKey
  <2> QED BY <2>1, <2>2
<1> QED BY <1>1, Invariance, PTL

\* Payments, their audit rows and their outbox rows commit together, and the
\* trail explains every amount on the ledger.
THEOREM Audited == Spec => []EveryAmountIsAudited
<1>1. IInv => EveryAmountIsAudited
  BY DEF IInv
<1> QED BY <1>1, Invariance, PTL

\* The services take their locks in one order (payment row or key, then pledge
\* row), so no set of open transactions blocks itself.
THEOREM DeadlockFree == Spec => []NoCircularWait
<1>1. NoCircularWait
  <2> SUFFICES ASSUME NEW r \in Requests, req[r].pc \in InTx,
                      \A s \in Requests : req[s].pc \in InTx => Waits(s)
               PROVE  FALSE
    BY DEF NoCircularWait
  <2>1. ASSUME NEW s \in Requests, req[s].pc \in {"reread", "sum", "commit"}
        PROVE  FALSE
    BY <2>1 DEF Waits, InTx
  <2>2. ASSUME NEW s \in Requests, req[s].pc = "update"
        PROVE  FALSE
    BY <2>1, <2>2 DEF Waits, HoldsPledge, InTx
  <2>3. \E s \in Requests : req[s].pc \in {"reread", "sum", "update", "commit"}
    BY DEF Waits, KeyHeld, HoldsKey, HoldsFulfillment, HoldsPledge
  <2> QED BY <2>1, <2>2, <2>3
<1> QED BY <1>1, PTL

-----------------------------------------------------------------------------
(* Refinement: the ledger implements BookingJournal.                       *)

\* The mapping of the INSTANCE, written out.
JBook == [f \in Requests |-> IF fulfillments[f] = None THEN None ELSE
           [value |-> fulfillments[f].value, key |-> fulfillments[f].key]]

JTrail(rows) == {[id |-> a.by, payment |-> a.res, value |-> a.new] : a \in
                  {b \in rows : b.action \in {"fulfillment:create", "fulfillment:correct"}}}

\* Audit rows about other things leave the journal's trail alone.
LEMMA TrailIgnores ==
  ASSUME NEW rows, NEW more,
         \A a \in more : a.action \notin {"fulfillment:create", "fulfillment:correct"}
  PROVE  JTrail(rows \cup more) = JTrail(rows)
BY DEF JTrail

\* An audit row about a payment is an entry of the journal's trail.
LEMMA TrailExtends ==
  ASSUME NEW rows, NEW more, NEW row \in more,
         row.action \in {"fulfillment:create", "fulfillment:correct"},
         \A a \in more \ {row} : a.action \notin {"fulfillment:create", "fulfillment:correct"}
  PROVE  JTrail(rows \cup more) =
           JTrail(rows) \cup {[id |-> row.by, payment |-> row.res, value |-> row.new]}
BY DEF JTrail

\* A step that changes neither payments, audit rows nor outbox rows.
LEMMA JournalStutter ==
  ASSUME UNCHANGED <<fulfillments, audit, outbox>>
  PROVE  UNCHANGED Journal!jvars
BY DEF Journal!jvars

\* The initial ledger is an empty journal.
LEMMA JournalInit == Init => Journal!Init
<1> SUFFICES ASSUME Init PROVE Journal!Init
  OBVIOUS
<1>1. JBook = [f \in Requests |-> None]
  BY DEF Init, JBook
<1>2. JTrail(audit) = {}
  BY DEF Init, JTrail
<1> QED BY <1>1, <1>2 DEF Init, Journal!Init, JBook, JTrail

\* The commit of a payment is the journal's Book.
LEMMA CommitBooks ==
  ASSUME IInv, NEW r \in Requests, Commit(r), Inserts(r)
  PROVE  Journal!Next
<1>1. req[r] \in RequestState /\ Legal(r, req[r]) /\ req[r].pc = "commit"
  BY DEF IInv, TypeOK, Commit
<1>2. req[r].value \in Values /\ req[r].key \in Keys \cup {None}
  BY <1>1, NullFacts DEF Legal, ValueLegal, RequestState, Inserts, BookingOps
<1>3. /\ fulfillments \in [Requests -> FulfillmentRow \cup {None}]
      /\ req[r].pledge \in PledgeIds /\ fulfillments[r] = None
      /\ fulfillments' = [fulfillments EXCEPT ![r] =
           [pledge |-> req[r].pledge, value |-> req[r].value, key |-> req[r].key]]
  <2>1. /\ req[r].pledge \in PledgeIds /\ fulfillments[r] = None
        /\ Inserts(r) => fulfillments' = [fulfillments EXCEPT ![r] =
             [pledge |-> req[r].pledge, value |-> req[r].value, key |-> req[r].key]]
    BY CommitFacts, Zenon
  <2> QED BY <2>1 DEF IInv, TypeOK
<1>4. [pledge |-> req[r].pledge, value |-> req[r].value, key |-> req[r].key] # None
  <2>1. [pledge |-> req[r].pledge, value |-> req[r].value, key |-> req[r].key]
          \in FulfillmentRow
    BY <1>2, <1>3, ConstantsAssumption DEF FulfillmentRow
  <2> QED BY <2>1, NullFacts
<1>5. /\ JBook[r] = None
      /\ JBook' = [JBook EXCEPT ![r] = [value |-> req[r].value, key |-> req[r].key]]
  BY <1>3, <1>4 DEF JBook
<1>6. req[r].key = None \/ \A g \in Requests : JBook[g] # None => JBook[g].key # req[r].key
  <2>1. req[r].key # None => RowsWithKey(req[r].key) = {}
    BY <1>1, <1>2 DEF IInv, KeyInv, Holding, Inserts
  <2> QED BY <2>1 DEF JBook, RowsWithKey, Booked
<1>7. outbox' = outbox \cup {r}
  BY DEF Commit, Booking
<1>8. JTrail(audit') = JTrail(audit) \cup {[id |-> r, payment |-> r, value |-> req[r].value]}
  <2> DEFINE row == Row(r, "fulfillment:create", r, None, req[r].value)
  <2>1. row \in AuditRowsOf(r) /\ row.action = "fulfillment:create"
          /\ row.by = r /\ row.res = r /\ row.new = req[r].value
    BY DEF AuditRowsOf, Row
  <2>2. req[r].op # "correctValue"
    BY DEF Inserts, BookingOps
  <2>3. \A a \in AuditRowsOf(r) \ {row} :
          a.action \notin {"fulfillment:create", "fulfillment:correct"}
    BY <2>2 DEF AuditRowsOf, Row
  <2>4. audit' = audit \cup AuditRowsOf(r)
    BY DEF Commit
  <2> HIDE DEF row
  <2> QED BY <2>1, <2>3, <2>4, TrailExtends
<1>9. PICK v \in Values, k \in Keys \cup {None} : v = req[r].value /\ k = req[r].key
  BY <1>2
<1>10. Journal!Book(r, v, k)
  BY <1>5, <1>6, <1>7, <1>8, <1>9
     DEF Journal!Book, Journal!KeyIsFree, Journal!Entry, JBook, JTrail
<1> QED BY <1>10 DEF Journal!Next

\* The commit of a payment's correction is the journal's Correct.
LEMMA CommitCorrects ==
  ASSUME IInv, NEW r \in Requests, Commit(r), req[r].op = "correctValue"
  PROVE  Journal!Next
<1>1. req[r] \in RequestState /\ Legal(r, req[r]) /\ req[r].pc = "commit"
  BY DEF IInv, TypeOK, Commit
<1> DEFINE f == req[r].ful
<1>2. req[r].value \in Values /\ f \in Requests /\ Booked(f)
  BY <1>1 DEF Legal, ValueLegal, RowsLegal
<1>3. /\ fulfillments \in [Requests -> FulfillmentRow \cup {None}]
      /\ ~Inserts(r) /\ fulfillments[f] \in FulfillmentRow
      /\ fulfillments' = [fulfillments EXCEPT ![f].value = req[r].value]
  <2>1. req[r].op = "correctValue" =>
          /\ ~Inserts(r) /\ fulfillments[f] \in FulfillmentRow
          /\ fulfillments' = [fulfillments EXCEPT ![f].value = req[r].value]
    BY CommitFacts, Zenon
  <2> QED BY <2>1 DEF IInv, TypeOK
<1>4. [fulfillments[f] EXCEPT !.value = req[r].value] \in FulfillmentRow
  BY <1>2, <1>3, ConstantsAssumption DEF FulfillmentRow
<1>5. JBook[f] # None
  <2>1. JBook[f] = [value |-> fulfillments[f].value, key |-> fulfillments[f].key]
    BY <1>2 DEF JBook, Booked
  <2>2. JBook[f] \in [value : Nat, key : Keys \cup {None}]
    BY <1>3, <2>1 DEF FulfillmentRow
  <2> QED BY <2>2, NullAssumption
<1>6. JBook' = [JBook EXCEPT ![f] = [value |-> req[r].value, key |-> JBook[f].key]]
  <2>1. JBook[f].key = fulfillments[f].key
    BY <1>2 DEF JBook, Booked
  <2>2. /\ fulfillments'[f] # None /\ fulfillments'[f].value = req[r].value
        /\ fulfillments'[f].key = fulfillments[f].key
        /\ \A g \in Requests \ {f} : fulfillments'[g] = fulfillments[g]
    BY <1>2, <1>3, <1>4, NullFacts DEF FulfillmentRow
  <2> HIDE DEF f
  <2> QED BY <1>2, <2>1, <2>2 DEF JBook
<1>7. outbox' = outbox /\ f \in outbox
  BY <1>2, <1>3 DEF Commit, Booking, IInv, EveryAmountIsAudited
<1>8. JTrail(audit') = JTrail(audit) \cup {[id |-> r, payment |-> f, value |-> req[r].value]}
  <2> DEFINE row == Row(r, "fulfillment:correct", f, req[r].old, req[r].value)
  <2>1. row \in AuditRowsOf(r) /\ row.action = "fulfillment:correct"
          /\ row.by = r /\ row.res = f /\ row.new = req[r].value
    BY DEF AuditRowsOf, Row
  <2>2. \A a \in AuditRowsOf(r) \ {row} :
          a.action \notin {"fulfillment:create", "fulfillment:correct"}
    BY <1>3 DEF AuditRowsOf, Row
  <2>3. audit' = audit \cup AuditRowsOf(r)
    BY DEF Commit
  <2> HIDE DEF row
  <2> QED BY <2>1, <2>2, <2>3, TrailExtends
<1>9. PICK v \in Values, g \in Requests : v = req[r].value /\ g = f
  BY <1>2
<1> HIDE DEF f
<1>10. Journal!Correct(r, g, v)
  BY <1>5, <1>6, <1>7, <1>8, <1>9 DEF Journal!Correct, Journal!Entry, JBook, JTrail
<1> QED BY <1>10 DEF Journal!Next

\* Any other commit leaves the journal alone.
LEMMA CommitStutters ==
  ASSUME IInv, NEW r \in Requests, Commit(r), ~Inserts(r), req[r].op # "correctValue"
  PROVE  UNCHANGED Journal!jvars
<1>1. fulfillments' = fulfillments /\ outbox' = outbox
  <2>1. ~Inserts(r) /\ req[r].op # "correctValue" => fulfillments' = fulfillments
    BY CommitFacts, Zenon
  <2> QED BY <2>1 DEF Commit, Booking
<1>2. JTrail(audit') = JTrail(audit)
  <2>1. \A a \in AuditRowsOf(r) :
          a.action \notin {"fulfillment:create", "fulfillment:correct"}
    BY DEF AuditRowsOf, Row
  <2>2. audit' = audit \cup AuditRowsOf(r)
    BY DEF Commit
  <2> QED BY <2>1, <2>2, TrailIgnores
<1> QED BY <1>1, <1>2 DEF Journal!jvars, JTrail

\* Every step of the ledger is a step of the journal or leaves it alone.
LEMMA JournalStep == IInv /\ [Next]_vars => [Journal!Next]_(Journal!jvars)
<1> SUFFICES ASSUME IInv, [Next]_vars
             PROVE  Journal!Next \/ UNCHANGED Journal!jvars
  OBVIOUS
<1>1. ASSUME NEW r \in Requests, Commit(r)
      PROVE  Journal!Next \/ UNCHANGED Journal!jvars
  BY <1>1, CommitBooks, CommitCorrects, CommitStutters
<1>2. ASSUME NEW r \in Requests, AuditStatus(r)
      PROVE  UNCHANGED Journal!jvars
  <2>1. JTrail(audit') = JTrail(audit)
    <3> DEFINE more == {[by |-> r, action |-> "event:set_status", res |-> None,
                         old |-> None, new |-> None]}
    <3>1. audit' = audit \cup more
      BY <1>2 DEF AuditStatus
    <3>2. \A a \in more : a.action \notin {"fulfillment:create", "fulfillment:correct"}
      OBVIOUS
    <3> HIDE DEF more
    <3> QED BY <3>1, <3>2, TrailIgnores
  <2> QED BY <1>2, <2>1 DEF AuditStatus, Journal!jvars, JTrail
<1>3. CASE UNCHANGED <<fulfillments, audit, outbox>>
  BY <1>3, JournalStutter
<1>4. ASSUME NEW r \in Requests, Call(r) \/ Fail(r)
      PROVE  UNCHANGED <<fulfillments, audit, outbox>>
  BY <1>4 DEF Call, Begin, createPledge, recordFulfillment, recordDirectContribution,
              recordPledgeWithPayment, correctValue, correctCommittedValue, cancelPledge,
              setStatus, Fail, tables
<1>5. ASSUME NEW r \in Requests, Statement(r), ~Commit(r), ~AuditStatus(r)
      PROVE  UNCHANGED <<fulfillments, audit, outbox>>
  BY <1>5 DEF Statement, findByIdempotencyKey, ReadFulfillment, ReadPledge,
              assertNotDuplicate, assertWithinCommitted, InsertFulfillment,
              UpdateFulfillment, RereadPledge, DeriveFromSum, UpdatePledge, tables
<1>6. CASE WindowElapses \/ UNCHANGED vars
  BY <1>3, <1>6 DEF WindowElapses, vars
<1> QED BY <1>1, <1>2, <1>3, <1>4, <1>5, <1>6 DEF Next

\* The ledger is an append-only journal of bookings: nothing is booked twice,
\* under a used key, or without its trail and notice, and nothing is unbooked.
THEOREM Refinement == Spec => ImplementsJournal
BY JournalInit, JournalStep, Invariance, PTL DEF Spec, ImplementsJournal, Journal!Spec

-----------------------------------------------------------------------------
(* Cancelled pledges.                                                      *)

Deciding == {"dup", "bound", "insert", "updateFul", "reread", "sum", "update", "commit"}

\* What a request knows of its pledge's cancellation while it is alone on it.
SoloLegal(q) ==
  /\ q.op \in ReadsPledge \cup {"correctValue"} /\ q.pc \in Deciding /\ q.solo
       /\ pledges[q.pledge].status = "CANCELLED" => q.cancelled
  /\ q.op = "recordFulfillment" /\ q.pc \in Deciding => ~q.cancelled
  /\ q.op \in {"correctValue", "correctCommittedValue"} /\ q.pc \in {"update", "commit"}
       /\ q.cancelled => q.status = "CANCELLED"
  /\ q.op = "cancelPledge" /\ q.pc = "commit" => q.status = "CANCELLED"

SoloInv == \A r \in Requests : SoloLegal(req[r])

\* A step that leaves the pledges alone and moves one request to a record that
\* knows as much preserves SoloInv.
LEMMA SoloLocal ==
  ASSUME IInv, SoloInv, NEW r \in Requests, NEW q, Set(r, q), pledges' = pledges, SoloLegal(q)
  PROVE  SoloInv'
<1>1. \A s \in Requests : req'[s] = IF s = r THEN q ELSE req[s]
  BY DEF IInv, TypeOK, Set
<1> QED BY <1>1 DEF SoloInv, SoloLegal

\* A record outside the statements that follow the read knows nothing wrong.
LEMMA SoloOutside ==
  ASSUME NEW q, q.pc \notin Deciding
  PROVE  SoloLegal(q)
BY DEF SoloLegal, Deciding

\* So does a record of a call that reads no pledge.
LEMMA SoloNoRead ==
  ASSUME NEW q, q.op \notin ReadsPledge \cup {"correctValue"}
  PROVE  SoloLegal(q)
BY DEF SoloLegal, ReadsPledge

\* A cancelled flag gives the cancelled status.
LEMMA DerivedCancelled ==
  ASSUME NEW c, NEW t, NEW x, x
  PROVE  deriveStatus(c, t, x) = "CANCELLED"
BY Zenon DEF deriveStatus

\* Calls preserve SoloInv: they end before the read, or read no pledge.
LEMMA SoloCall ==
  ASSUME IInv, SoloInv, NEW r \in Requests, Call(r)
  PROVE  SoloInv'
<1>1. ASSUME NEW q, Begin(r, q), SoloLegal(q)
      PROVE  SoloInv'
  <2>1. SoloLegal(Refused)
    <3>1. Refused.pc = "rejected"
      BY DEF Refused, Idle
    <3> QED BY <3>1, SoloOutside DEF Deciding
  <2>2. Set(r, q) \/ Set(r, Refused)
    BY <1>1 DEF Begin
  <2>3. pledges' = pledges
    BY <1>1 DEF Begin, tables
  <2> QED BY <1>1, <2>1, <2>2, <2>3, SoloLocal
<1>2. CASE createPledge(r)
  <2>1. PICK c \in Commitments :
          Begin(r, [Idle EXCEPT !.op = "createPledge", !.pc = "commit",
                                !.pledge = r, !.committed = c])
    BY <1>2 DEF createPledge
  <2> DEFINE q == [Idle EXCEPT !.op = "createPledge", !.pc = "commit",
                               !.pledge = r, !.committed = c]
  <2>2. q.op = "createPledge"
    BY DEF Idle
  <2>3. SoloLegal(q)
    BY <2>2, SoloNoRead DEF ReadsPledge
  <2> QED BY <1>1, <2>1, <2>3
<1>3. CASE recordFulfillment(r)
  <2>1. PICK p \in PledgeIds, v \in Values, k \in Keys \cup {None}, c \in BOOLEAN :
          Begin(r, [Idle EXCEPT !.op = "recordFulfillment", !.pc = "replay",
                                !.pledge = p, !.value = v, !.key = k, !.confirm = c])
    BY <1>3 DEF recordFulfillment
  <2> DEFINE q == [Idle EXCEPT !.op = "recordFulfillment", !.pc = "replay",
                               !.pledge = p, !.value = v, !.key = k, !.confirm = c]
  <2>2. q.pc = "replay"
    BY DEF Idle
  <2>3. SoloLegal(q)
    BY <2>2, SoloOutside DEF Deciding
  <2> QED BY <1>1, <2>1, <2>3
<1>4. CASE recordDirectContribution(r)
  <2>1. PICK v \in Values, k \in Keys \cup {None} :
          Begin(r, [Idle EXCEPT !.op = "recordDirectContribution", !.pc = "replay",
                                !.pledge = r, !.value = v, !.committed = v, !.key = k])
    BY <1>4 DEF recordDirectContribution
  <2> DEFINE q == [Idle EXCEPT !.op = "recordDirectContribution", !.pc = "replay",
                               !.pledge = r, !.value = v, !.committed = v, !.key = k]
  <2>2. q.pc = "replay"
    BY DEF Idle
  <2>3. SoloLegal(q)
    BY <2>2, SoloOutside DEF Deciding
  <2> QED BY <1>1, <2>1, <2>3
<1>5. CASE recordPledgeWithPayment(r)
  <2>1. PICK c \in Commitments, v \in Values \cup {0} :
          Begin(r, IF v > c THEN Refused
                   ELSE [Idle EXCEPT !.op = "recordPledgeWithPayment",
                                     !.pc = IF v = 0 THEN "commit" ELSE "insert",
                                     !.pledge = r, !.value = v, !.committed = c])
    BY <1>5 DEF recordPledgeWithPayment
  <2> DEFINE q == [Idle EXCEPT !.op = "recordPledgeWithPayment",
                               !.pc = IF v = 0 THEN "commit" ELSE "insert",
                               !.pledge = r, !.value = v, !.committed = c]
  <2>2. q.op = "recordPledgeWithPayment" /\ Refused.pc = "rejected"
    BY DEF Idle, Refused
  <2>3. SoloLegal(q) /\ SoloLegal(Refused)
    BY <2>2, SoloNoRead, SoloOutside DEF ReadsPledge, Deciding
  <2>4. Begin(r, q) \/ Begin(r, Refused)
    BY <2>1
  <2> QED BY <1>1, <2>3, <2>4
<1>6. CASE correctValue(r)
  <2>1. PICK f \in Requests, v \in Values :
          Begin(r, [Idle EXCEPT !.op = "correctValue", !.pc = "readFul",
                                !.ful = f, !.value = v])
    BY <1>6 DEF correctValue
  <2> DEFINE q == [Idle EXCEPT !.op = "correctValue", !.pc = "readFul",
                               !.ful = f, !.value = v]
  <2>2. q.pc = "readFul"
    BY DEF Idle
  <2>3. SoloLegal(q)
    BY <2>2, SoloOutside DEF Deciding
  <2> QED BY <1>1, <2>1, <2>3
<1>7. CASE correctCommittedValue(r)
  <2>1. PICK p \in PledgeIds, c \in Commitments :
          Begin(r, [Idle EXCEPT !.op = "correctCommittedValue", !.pc = "readPledge",
                                !.pledge = p, !.value = c])
    BY <1>7 DEF correctCommittedValue
  <2> DEFINE q == [Idle EXCEPT !.op = "correctCommittedValue", !.pc = "readPledge",
                               !.pledge = p, !.value = c]
  <2>2. q.pc = "readPledge"
    BY DEF Idle
  <2>3. SoloLegal(q)
    BY <2>2, SoloOutside DEF Deciding
  <2> QED BY <1>1, <2>1, <2>3
<1>8. CASE cancelPledge(r)
  <2>1. PICK p \in PledgeIds :
          Begin(r, [Idle EXCEPT !.op = "cancelPledge", !.pc = "readPledge", !.pledge = p])
    BY <1>8 DEF cancelPledge
  <2> DEFINE q == [Idle EXCEPT !.op = "cancelPledge", !.pc = "readPledge", !.pledge = p]
  <2>2. q.pc = "readPledge"
    BY DEF Idle
  <2>3. SoloLegal(q)
    BY <2>2, SoloOutside DEF Deciding
  <2> QED BY <1>1, <2>1, <2>3
<1>9. CASE setStatus(r)
  <2> DEFINE q == [Idle EXCEPT !.op = "setStatus", !.pc = "auditStatus"]
  <2>1. q.pc = "auditStatus"
    BY DEF Idle
  <2>2. SoloLegal(q)
    BY <2>1, SoloOutside DEF Deciding
  <2> QED BY <1>9, <2>2, SoloLocal DEF setStatus
<1> QED BY <1>2, <1>3, <1>4, <1>5, <1>6, <1>7, <1>8, <1>9 DEF Call

\* The statements of a transaction preserve SoloInv.
LEMMA SoloStatement ==
  ASSUME IInv, SoloInv, NEW r \in Requests, Statement(r), ~Commit(r)
  PROVE  SoloInv'
<1>1. req[r] \in RequestState /\ PcLegal(req[r]) /\ SoloLegal(req[r])
  BY DEF IInv, TypeOK, Legal, SoloInv
<1>2. pledges' = pledges
  BY DEF Statement, findByIdempotencyKey, ReadFulfillment, ReadPledge, assertNotDuplicate,
         assertWithinCommitted, InsertFulfillment, UpdateFulfillment, RereadPledge,
         DeriveFromSum, UpdatePledge, AuditStatus, tables
<1>3. ASSUME NEW o \in Outcomes, End(r, o)
      PROVE  SoloInv'
  <2>1. [Idle EXCEPT !.pc = o].pc = o
    BY DEF Idle
  <2>2. SoloLegal([Idle EXCEPT !.pc = o])
    BY <2>1, SoloOutside DEF Outcomes, Deciding
  <2> QED BY <1>2, <1>3, <2>2, SoloLocal DEF End, Set
\* A move that keeps what is known, and does not reach the statements where
\* the status must be settled.
<1>4. ASSUME NEW q, Set(r, q), q.op = req[r].op, q.pledge = req[r].pledge,
             q.solo = req[r].solo, q.cancelled = req[r].cancelled,
             req[r].pc \in Deciding, q.pc \in Deciding \ {"update", "commit"}
      PROVE  SoloInv'
  <2>1. SoloLegal(q)
    BY <1>1, <1>4 DEF SoloLegal, Deciding
  <2> QED BY <1>2, <1>4, <2>1, SoloLocal
<1>5. CASE findByIdempotencyKey(r)
  <2>1. req[r].op \in {"recordFulfillment", "recordDirectContribution"}
    BY <1>1, <1>5 DEF findByIdempotencyKey, PcLegal
  <2>2. ASSUME NEW f, Set(r, Answered(r, "replayed", f))
        PROVE  SoloInv'
    <3>1. Answered(r, "replayed", f).pc = "replayed"
      BY DEF Answered, Idle
    <3> QED BY <1>2, <2>2, <3>1, SoloOutside, SoloLocal DEF Deciding
  <2>3. ASSUME Set(r, [req[r] EXCEPT !.pc = IF req[r].op = "recordFulfillment"
                                            THEN "readPledge" ELSE "insert"])
        PROVE  SoloInv'
    <3> DEFINE q == [req[r] EXCEPT !.pc = IF req[r].op = "recordFulfillment"
                                          THEN "readPledge" ELSE "insert"]
    <3>1. q.op = req[r].op /\ (req[r].op = "recordFulfillment" => q.pc = "readPledge")
      BY <1>1 DEF RequestState
    <3>2. SoloLegal(q)
      BY <2>1, <3>1, SoloOutside, SoloNoRead DEF Deciding, ReadsPledge
    <3> QED BY <1>2, <2>3, <3>2, SoloLocal
  <2> QED BY <1>5, <2>2, <2>3 DEF findByIdempotencyKey
<1>6. CASE ReadFulfillment(r)
  <2> DEFINE row == fulfillments[req[r].ful]
             q == [req[r] EXCEPT !.pc = "readPledge", !.pledge = row.pledge,
                                 !.old = row.value, !.solo = TRUE]
  <2>1. Set(r, q)
    BY <1>6 DEF ReadFulfillment
  <2>2. q.pc = "readPledge"
    BY <1>1 DEF RequestState
  <2>3. SoloLegal(q)
    BY <2>2, SoloOutside DEF Deciding
  <2> QED BY <1>2, <2>1, <2>3, SoloLocal
<1>7. CASE ReadPledge(r)
  <2> DEFINE row == pledges[req[r].pledge]
             q == [req[r] EXCEPT !.pc = AfterReadPledge(r), !.committed = row.committed,
                                 !.cancelled = row.status = "CANCELLED",
                                 !.solo = req[r].solo \/ req[r].op # "correctValue"]
  <2>1. CASE End(r, "rejected")
    BY <1>3, <2>1 DEF Outcomes
  <2>2. CASE ~RefusesPledge(r) /\ Set(r, q)
    <3>1. /\ q.op = req[r].op /\ q.pledge = req[r].pledge /\ q.pc = AfterReadPledge(r)
          /\ q.cancelled = (row.status = "CANCELLED")
      BY <1>1 DEF RequestState
    <3>2. req[r].op = "recordFulfillment" => row.status # "CANCELLED"
      BY <2>2 DEF RefusesPledge
    <3>3. /\ AfterReadPledge(r) # "commit"
          /\ AfterReadPledge(r) = "update" => req[r].op = "cancelPledge"
      BY Zenon DEF AfterReadPledge
    <3> HIDE DEF q, row
    <3>4. (q.cancelled <=> row.status = "CANCELLED")
      BY <3>1
    <3>5. SoloLegal(q)
      BY <3>1, <3>2, <3>3, <3>4 DEF SoloLegal, row
    <3> QED BY <1>2, <2>2, <3>5, SoloLocal
  <2> QED BY <1>7, <2>1, <2>2 DEF ReadPledge
<1>8. CASE assertNotDuplicate(r)
  <2>1. ASSUME Set(r, [req[r] EXCEPT !.pc = "bound"]) PROVE SoloInv'
    <3> DEFINE q == [req[r] EXCEPT !.pc = "bound"]
    <3>1. /\ q.op = req[r].op /\ q.pledge = req[r].pledge /\ q.solo = req[r].solo
          /\ q.cancelled = req[r].cancelled /\ q.pc = "bound"
      BY <1>1 DEF RequestState
    <3> HIDE DEF q
    <3>2. Set(r, q)
      BY <2>1 DEF q
    <3>3. req[r].pc \in Deciding /\ q.pc \in Deciding \ {"update", "commit"}
      BY <1>8, <3>1 DEF assertNotDuplicate, Deciding
    <3> QED BY <1>4, <3>1, <3>2, <3>3
  <2> QED BY <1>3, <1>8, <2>1 DEF assertNotDuplicate, Outcomes
<1>9. CASE assertWithinCommitted(r)
  <2> DEFINE p == IF req[r].op = "correctValue" THEN "updateFul" ELSE "insert"
             q == [req[r] EXCEPT !.pc = p]
  <2>1. ASSUME Set(r, q) PROVE SoloInv'
    <3>1. /\ q.op = req[r].op /\ q.pledge = req[r].pledge /\ q.solo = req[r].solo
          /\ q.cancelled = req[r].cancelled /\ q.pc = p
      BY <1>1 DEF RequestState
    <3>2. req[r].pc \in Deciding /\ q.pc \in Deciding \ {"update", "commit"}
      BY <1>9, <3>1 DEF assertWithinCommitted, Deciding
    <3> HIDE DEF q
    <3> QED BY <1>4, <2>1, <3>1, <3>2
  <2> QED BY <1>3, <1>9, <2>1 DEF assertWithinCommitted, Outcomes
<1>10. CASE InsertFulfillment(r)
  <2> DEFINE q == [req[r] EXCEPT !.pc = "sum", !.ful = r]
  <2>1. ASSUME Set(r, q) PROVE SoloInv'
    <3>1. /\ q.op = req[r].op /\ q.pledge = req[r].pledge /\ q.solo = req[r].solo
          /\ q.cancelled = req[r].cancelled /\ q.pc = "sum"
      BY <1>1 DEF RequestState
    <3>2. req[r].pc \in Deciding /\ q.pc \in Deciding \ {"update", "commit"}
      BY <1>10, <3>1 DEF InsertFulfillment, Deciding
    <3> HIDE DEF q
    <3> QED BY <1>4, <2>1, <3>1, <3>2
  <2> QED BY <1>3, <1>10, <2>1 DEF InsertFulfillment, Outcomes
<1>11. CASE UpdateFulfillment(r)
  <2> DEFINE q == [req[r] EXCEPT !.pc = "reread"]
  <2>1. Set(r, q)
    BY <1>11 DEF UpdateFulfillment
  <2>2. /\ q.op = req[r].op /\ q.pledge = req[r].pledge /\ q.solo = req[r].solo
        /\ q.cancelled = req[r].cancelled /\ q.pc = "reread"
    BY <1>1 DEF RequestState
  <2>3. req[r].pc \in Deciding /\ q.pc \in Deciding \ {"update", "commit"}
    BY <1>11, <2>2 DEF UpdateFulfillment, Deciding
  <2> HIDE DEF q
  <2> QED BY <1>4, <2>1, <2>2, <2>3
<1>12. CASE RereadPledge(r)
  <2> DEFINE row == pledges[req[r].pledge]
             q == [req[r] EXCEPT !.pc = "sum", !.committed = row.committed,
                                 !.cancelled = row.status = "CANCELLED"]
  <2>1. Set(r, q)
    BY <1>12 DEF RereadPledge
  <2>2. /\ q.op = req[r].op /\ q.pledge = req[r].pledge /\ q.pc = "sum"
        /\ q.cancelled = (row.status = "CANCELLED")
    BY <1>1 DEF RequestState
  <2>3. req[r].op = "correctValue"
    BY <1>1, <1>12 DEF RereadPledge, PcLegal
  <2> HIDE DEF q, row
  <2>4. q.cancelled <=> row.status = "CANCELLED"
    BY <2>2
  <2>5. SoloLegal(q)
    BY <2>2, <2>3, <2>4 DEF SoloLegal, row
  <2> QED BY <1>2, <2>1, <2>5, SoloLocal
<1>13. CASE DeriveFromSum(r)
  <2> DEFINE d == IF req[r].op = "correctCommittedValue"
                  THEN deriveStatus(req[r].value, SumFulfillments(req[r].pledge, {}),
                                    req[r].cancelled)
                  ELSE deriveStatus(req[r].committed, Projected(r), req[r].cancelled)
             q == [req[r] EXCEPT !.pc = "update", !.status = d]
  <2>1. Set(r, q) /\ req[r].pc = "sum"
    BY <1>13 DEF DeriveFromSum
  <2>2. req[r].cancelled => d = "CANCELLED"
    BY DerivedCancelled
  <2> HIDE DEF d
  <2>3. /\ q.op = req[r].op /\ q.pledge = req[r].pledge /\ q.solo = req[r].solo
        /\ q.cancelled = req[r].cancelled /\ q.pc = "update" /\ q.status = d
    BY <1>1 DEF RequestState
  <2> HIDE DEF q
  <2>4. SoloLegal(q)
    BY <1>1, <2>1, <2>2, <2>3 DEF SoloLegal, Deciding
  <2> QED BY <1>2, <2>1, <2>4, SoloLocal
<1>14. CASE UpdatePledge(r)
  <2> DEFINE d == IF req[r].op = "cancelPledge" THEN "CANCELLED" ELSE req[r].status
             q == [req[r] EXCEPT !.pc = "commit", !.status = d]
  <2>1. Set(r, q) /\ req[r].pc = "update"
    BY <1>14 DEF UpdatePledge
  <2>2. /\ q.op = req[r].op /\ q.pledge = req[r].pledge /\ q.solo = req[r].solo
        /\ q.cancelled = req[r].cancelled /\ q.pc = "commit" /\ q.status = d
    BY <1>1 DEF RequestState
  <2> HIDE DEF q
  <2>3. SoloLegal(q)
    BY <1>1, <2>1, <2>2 DEF SoloLegal, Deciding
  <2> QED BY <1>2, <2>1, <2>3, SoloLocal
<1>15. CASE AuditStatus(r)
  BY <1>3, <1>15 DEF AuditStatus, Outcomes
<1> QED BY <1>5, <1>6, <1>7, <1>8, <1>9, <1>10, <1>11, <1>12, <1>13, <1>14, <1>15
           DEF Statement

\* A commit takes the others on its pledge off their guard: they are no longer
\* alone.  The pledges of the rest are as they were.
LEMMA SoloCommit ==
  ASSUME IInv, SoloInv, NEW r \in Requests, Commit(r)
  PROVE  SoloInv'
<1> SUFFICES ASSUME NEW s \in Requests
             PROVE  SoloLegal(req[s])'
  BY DEF SoloInv
<1>1. req[s] \in RequestState /\ SoloLegal(req[s]) /\ PcLegal(req[s]) /\ Legal(s, req[s])
  BY DEF IInv, TypeOK, SoloInv, Legal
<1>2. CASE s = r
  <2>1. req'[s].pc = "ok"
    BY <1>2, CommitRequests, Zenon
  <2> QED BY <2>1 DEF SoloLegal, Deciding
<1> DEFINE q == [req[s] EXCEPT !.solo = FALSE]
<1>3. CASE s # r /\ req[s].pledge = req[r].pledge
  <2>1. req' = [t \in Requests |->
          CASE t = r -> Answered(r, "ok", req[r].ful)
            [] t # r /\ req[t].pledge = req[r].pledge -> [req[t] EXCEPT !.solo = FALSE]
            [] OTHER -> req[t]]
    BY DEF Commit
  <2>2. req'[s] = q
    BY <1>3, <2>1, Zenon
  <2>3. /\ q.pc = req[s].pc /\ q.op = req[s].op /\ q.status = req[s].status
        /\ q.cancelled = req[s].cancelled /\ q.solo = FALSE
    BY <1>1 DEF RequestState
  <2> HIDE DEF q
  <2> QED BY <1>1, <2>2, <2>3 DEF SoloLegal
<1>4. CASE s # r /\ req[s].pledge # req[r].pledge
  <2>1. req' = [t \in Requests |->
          CASE t = r -> Answered(r, "ok", req[r].ful)
            [] t # r /\ req[t].pledge = req[r].pledge -> [req[t] EXCEPT !.solo = FALSE]
            [] OTHER -> req[t]]
    BY DEF Commit
  <2>2. req'[s] = req[s]
    BY <1>4, <2>1, Zenon
  <2>3. ASSUME req[s].op \in ReadsPledge \cup {"correctValue"}, req[s].pc \in Deciding
        PROVE  pledges'[req[s].pledge] = pledges[req[s].pledge]
    <3>1. req[s].pledge \in PledgeIds
      BY <1>1, <2>3 DEF Legal, RowsLegal, IInv, TypeOK, Booked, FulfillmentRow, Deciding
    <3>2. \A p \in PledgeIds : p # req[r].pledge => pledges'[p] = pledges[p]
      BY CommitFacts, Zenon
    <3> QED BY <1>4, <3>1, <3>2
  <2> QED BY <1>1, <2>2, <2>3 DEF SoloLegal
<1> QED BY <1>2, <1>3, <1>4

\* SoloInv holds in every reachable state.
THEOREM SoloInvariance == Spec => []SoloInv
<1>1. Init => SoloInv
  <2> SUFFICES ASSUME Init, NEW r \in Requests PROVE SoloLegal(req[r])
    BY DEF SoloInv
  <2>1. req[r].pc = "idle"
    BY DEF Init, Idle
  <2> QED BY <2>1, SoloOutside DEF Deciding
<1>2. IInv /\ SoloInv /\ [Next]_vars => SoloInv'
  <2> SUFFICES ASSUME IInv, SoloInv, [Next]_vars PROVE SoloInv'
    OBVIOUS
  <2>1. ASSUME NEW r \in Requests, Fail(r) PROVE SoloInv'
    <3> DEFINE q == [Idle EXCEPT !.pc = "failed"]
    <3>1. q.pc = "failed"
      BY DEF Idle
    <3>2. SoloLegal(q)
      BY <3>1, SoloOutside DEF Deciding
    <3> QED BY <2>1, <3>2, SoloLocal DEF Fail, End, Set, tables
  <2>2. CASE WindowElapses \/ UNCHANGED vars
    BY <2>2 DEF WindowElapses, vars, SoloInv, SoloLegal
  <2> QED BY <2>1, <2>2, SoloCall, SoloStatement, SoloCommit DEF Next
<1> QED BY <1>1, <1>2, Invariance, PTL DEF Spec

\* Only a request's own commit takes it from "commit" to "ok".
LEMMA OnlyCommitCommits ==
  ASSUME IInv, [Next]_vars, NEW r \in Requests, req[r].pc = "commit", req'[r].pc = "ok"
  PROVE  Commit(r)
<1>1. req \in [Requests -> RequestState]
  BY DEF IInv, TypeOK
<1>2. ASSUME NEW s \in Requests, NEW q, Set(s, q), s # r
      PROVE  FALSE
  BY <1>1, <1>2 DEF Set
<1>3. ASSUME NEW s \in Requests, Call(s)
      PROVE  FALSE
  <2>1. req[s].pc = "idle" /\ \E q : Set(s, q)
    BY <1>3 DEF Call, Begin, createPledge, recordFulfillment, recordDirectContribution,
                recordPledgeWithPayment, correctValue, correctCommittedValue, cancelPledge,
                setStatus
  <2> QED BY <1>2, <2>1
<1>4. ASSUME NEW s \in Requests, Statement(s), ~Commit(s)
      PROVE  FALSE
  <2>1. req[s].pc # "commit" /\ \E q : Set(s, q)
    BY <1>4 DEF Statement, findByIdempotencyKey, ReadFulfillment, ReadPledge,
                assertNotDuplicate, assertWithinCommitted, InsertFulfillment,
                UpdateFulfillment, RereadPledge, DeriveFromSum, UpdatePledge,
                AuditStatus, End, Set
  <2> QED BY <1>2, <2>1
<1>5. ASSUME NEW s \in Requests, Fail(s)
      PROVE  FALSE
  <2> DEFINE q == [Idle EXCEPT !.pc = "failed"]
  <2>1. Set(s, q) /\ q.pc = "failed"
    BY <1>5 DEF Fail, End, Set, Idle
  <2> HIDE DEF q
  <2>2. s = r
    BY <1>2, <2>1
  <2> QED BY <1>1, <2>1, <2>2 DEF Set
<1>6. ASSUME NEW s \in Requests, Commit(s)
      PROVE  s = r
  <2>1. s # r => req'[r].pc = req[r].pc
    BY <1>6, CommitRequests, Zenon
  <2> QED BY <2>1
<1>7. ASSUME WindowElapses \/ UNCHANGED vars
      PROVE  FALSE
  BY <1>7 DEF WindowElapses, vars
<1> QED BY <1>3, <1>4, <1>5, <1>6, <1>7 DEF Next

\* A write that no other write of the pledge overlaps never revives a
\* cancelled pledge and never pays into one.
THEOREM CancelledStays == Spec => SoloWriteKeepsCancelled
<1>1. ASSUME IInv, SoloInv, [Next]_vars
      PROVE  [\A r \in Requests, p \in PledgeIds :
                CommitsAlone(r, p) /\ req[r].op \notin CreateOps
                    /\ pledges[p].status = "CANCELLED"
                  => pledges'[p].status = "CANCELLED" /\ ~Inserts(r)]_vars
  <2> SUFFICES ASSUME NEW r \in Requests, NEW p \in PledgeIds, CommitsAlone(r, p),
                      req[r].op \notin CreateOps, pledges[p].status = "CANCELLED"
               PROVE  pledges'[p].status = "CANCELLED" /\ ~Inserts(r)
    BY <1>1
  <2>1. /\ req[r].pc = "commit" /\ req'[r].pc = "ok" /\ req[r].pledge = p /\ req[r].solo
    BY DEF CommitsAlone, Commits
  <2>2. Commit(r)
    BY <1>1, <2>1, OnlyCommitCommits
  <2>3. /\ req[r].op \in Ops \ {"setStatus"}
        /\ req[r].op \notin CreateOps => pledges[req[r].pledge] \in PledgeRow
    BY <1>1, <2>2, CommitFacts, Zenon
  <2>4. req[r].op \in ReadsPledge \cup {"correctValue"}
    BY <2>3 DEF Ops, BookingOps, CreateOps, ReadsPledge
  <2>5. req[r].cancelled /\ SoloLegal(req[r])
    BY <1>1, <2>1, <2>4 DEF SoloInv, SoloLegal, Deciding
  <2>6. req[r].op # "recordFulfillment" /\ req[r].status = "CANCELLED"
    BY <2>1, <2>4, <2>5 DEF SoloLegal, Deciding, ReadsPledge
  <2>7. ~Inserts(r)
    BY <2>4, <2>6 DEF Inserts, BookingOps, ReadsPledge
  <2>8. pledges'[p].status = "CANCELLED"
    <3>1. pledges \in [PledgeIds -> PledgeRow \cup {None}]
      BY <1>1 DEF IInv, TypeOK
    <3>2. CASE req[r].op = "correctCommittedValue"
      <4>1. pledges' = [pledges EXCEPT ![req[r].pledge] =
                          [committed |-> req[r].value, status |-> req[r].status]]
        BY <2>2, <3>2, Zenon DEF Commit, PledgesAfter
      <4> QED BY <2>1, <2>6, <3>1, <4>1
    <3>3. CASE req[r].op # "correctCommittedValue"
      <4>1. pledges' = [pledges EXCEPT ![req[r].pledge] =
                          [pledges[req[r].pledge] EXCEPT !.status = req[r].status]]
        BY <2>1, <2>2, <3>1, <3>3, Zenon DEF Commit, PledgesAfter
      <4> QED BY <2>1, <2>3, <2>6, <3>1, <4>1 DEF PledgeRow
    <3> QED BY <3>2, <3>3
  <2> QED BY <2>7, <2>8
<1> QED BY <1>1, Invariance, SoloInvariance, PTL DEF Spec, SoloWriteKeepsCancelled

-----------------------------------------------------------------------------
(* Amounts.  What a request that is alone on its pledge has read is what   *)
(* the ledger says; what it has tested and derived still holds when it     *)
(* commits.                                                                *)

\* Payments booked so far are finitely many, whatever the number of requests.
FinitelyBooked == IsFiniteSet({f \in Requests : Booked(f)})

\* No other request has committed a change of the pledge since q read it; a
\* pledge q is about to create is nobody else's.
Alone(q) == q.solo \/ q.op \in CreateOps

\* What the other payments of q's pledge add up to.
PaidBeside(q) == SumFulfillments(q.pledge, {q.ful})

\* A booking past its INSERT has a payment, except a pledge recorded without one.
BookingLegal(q) ==
  /\ q.op = "createPledge" => q.pc = "commit"
  /\ q.op \in BookingOps /\ q.pc \in {"sum", "update", "commit"} /\ q.ful = None
       => q.op = "recordPledgeWithPayment" /\ q.pc = "commit"

\* A pledge is created with no more paid than it commits to, and as "PLEDGED"
\* when nothing is.
CreateLegal(q) ==
  /\ q.op \in CreateOps \ {"createPledge"} => q.value <= q.committed
  /\ q.op \in CreateOps /\ q.ful = None => q.status = "PLEDGED"

\* The committed value as read is the current one, and the payment fits in it.
BoundLegal(q) ==
  /\ q.op \in ReadsPledge \cup {"correctValue"} /\ q.pc \in Deciding /\ q.solo
       => q.committed = pledges[q.pledge].committed
  /\ q.op \in {"recordFulfillment", "correctValue"} /\ q.pc \in Deciding \ {"dup", "bound"}
       /\ q.solo => PaidBeside(q) + q.value <= q.committed

\* The status about to be written is the one the amounts give.
StatusLegal(q) ==
  q.pc \in {"update", "commit"} /\ Alone(q) =>
    /\ q.op \in BookingOps \cup {"correctValue"} /\ q.ful # None =>
         q.status = deriveStatus(q.committed, PaidBeside(q) + q.value, q.cancelled)
    /\ q.op = "correctCommittedValue" =>
         q.status = deriveStatus(q.value, PaidBeside(q), q.cancelled)

\* A payment that passed the duplicate test looks like no recent one.
DuplicateLegal(q) ==
  q.op = "recordFulfillment" /\ q.pc \in Deciding \ {"dup"} /\ q.solo /\ ~q.confirm
    => \A f \in PaymentsOf(q.pledge) \cap recent : fulfillments[f].value # q.value

AmountsLegal(q) ==
  /\ BookingLegal(q) /\ CreateLegal(q) /\ BoundLegal(q) /\ StatusLegal(q) /\ DuplicateLegal(q)

AmountsInv == FinitelyBooked /\ \A r \in Requests : AmountsLegal(req[r])

\* What the payments of a table add up to, as SumTheorems writes sums.
Paid(table, S) == [f \in S |-> table[f].value]

\* The model's sum of payments is that sum.
LEMMA PaidIsSum ==
  ASSUME NEW table, NEW S
  PROVE  MapThenSumSet(LAMBDA f : table[f].value, S) = SumOf(Paid(table, S), S)
<1> DEFINE g == Paid(table, S)
           Value(f) == table[f].value
           F(it) == it = [s \in SUBSET S |->
                            IF s = {} THEN 0 ELSE Value(Taken(s)) + it[s \ {Taken(s)}]]
<1>1. \A s \in SUBSET S : s # {} => Value(Taken(s)) = g[Taken(s)]
  <2>1. \A s \in SUBSET S : s # {} => Taken(s) \in S
    BY TakenIsIn
  <2> QED BY <2>1 DEF Paid
<1>2. MapThenSumSet(LAMBDA f : table[f].value, S) = (CHOOSE it : F(it))[S]
  BY DEF MapThenSumSet, MapThenFoldSet, Taken
<1> HIDE DEF g, Value
<1>3. ASSUME NEW it PROVE F(it) <=> IsFold(it, g, S)
  <2>1. [s \in SUBSET S |-> IF s = {} THEN 0 ELSE Value(Taken(s)) + it[s \ {Taken(s)}]]
          = [s \in SUBSET S |-> IF s = {} THEN 0 ELSE g[Taken(s)] + it[s \ {Taken(s)}]]
    BY <1>1
  <2> QED BY <2>1 DEF IsFold
<1> HIDE DEF F
<1>4. (CHOOSE it : F(it)) = (CHOOSE it : IsFold(it, g, S))
  BY <1>3
<1>5. (CHOOSE it : F(it))[S] = SumOf(g, S)
  BY <1>4, SumIsFold
<1> QED BY <1>2, <1>5 DEF g

\* The aggregate of a pledge's payments, before and after a step.
LEMMA SumForms ==
  ASSUME NEW p, NEW X
  PROVE  /\ SumFulfillments(p, X)
              = SumOf(Paid(fulfillments, PaymentsOf(p) \ X), PaymentsOf(p) \ X)
         /\ SumFulfillments(p, X)'
              = SumOf(Paid(fulfillments', PaymentsOf(p)' \ X), PaymentsOf(p)' \ X)
<1>1. SumFulfillments(p, X) = SumOf(Paid(fulfillments, PaymentsOf(p) \ X), PaymentsOf(p) \ X)
  BY PaidIsSum DEF SumFulfillments
<1>2. SumFulfillments(p, X)'
        = SumOf(Paid(fulfillments', PaymentsOf(p)' \ X), PaymentsOf(p)' \ X)
  <2>1. MapThenSumSet(LAMBDA f : fulfillments'[f].value, PaymentsOf(p)' \ X)
          = SumOf(Paid(fulfillments', PaymentsOf(p)' \ X), PaymentsOf(p)' \ X)
    BY PaidIsSum
  <2>2. SumFulfillments(p, X)'
          = MapThenSumSet(LAMBDA f : fulfillments'[f].value, PaymentsOf(p)' \ X)
    BY DEF SumFulfillments, MapThenSumSet, MapThenFoldSet
  <2> QED BY <2>1, <2>2
<1> QED BY <1>1, <1>2

\* A step that changes no payment of a pledge changes no sum of them.
LEMMA SumStays ==
  ASSUME NEW p, NEW X, PaymentsOf(p)' = PaymentsOf(p),
         \A f \in PaymentsOf(p) : fulfillments'[f] = fulfillments[f]
  PROVE  SumFulfillments(p, X)' = SumFulfillments(p, X)
<1> DEFINE S == PaymentsOf(p) \ X
<1>1. Paid(fulfillments', S) = Paid(fulfillments, S)
  BY DEF Paid
<1>2. PaymentsOf(p)' \ X = S
  OBVIOUS
<1> QED BY <1>1, <1>2, SumForms

\* Leaving out what is no payment of the pledge leaves out nothing.
LEMMA SumWithout ==
  ASSUME NEW p, NEW x, x \notin PaymentsOf(p)
  PROVE  SumFulfillments(p, {x}) = SumFulfillments(p, {})
<1>1. PaymentsOf(p) \ {x} = PaymentsOf(p) \ {}
  OBVIOUS
<1> QED BY <1>1, SumForms

\* A step that leaves pledges, payments and the window alone and moves one
\* request to a record that knows as much preserves AmountsInv.
LEMMA AmountsLocal ==
  ASSUME IInv, AmountsInv, NEW r \in Requests, NEW q, Set(r, q), AmountsLegal(q),
         UNCHANGED <<pledges, fulfillments, recent>>
  PROVE  AmountsInv'
<1>1. \A s \in Requests : req'[s] = IF s = r THEN q ELSE req[s]
  BY DEF IInv, TypeOK, Set
<1>2. \A p : PaymentsOf(p)' = PaymentsOf(p)
  BY DEF PaymentsOf, Booked
<1>3. \A p, X : SumFulfillments(p, X)' = SumFulfillments(p, X)
  BY <1>2, SumStays
<1>4. FinitelyBooked'
  BY DEF AmountsInv, FinitelyBooked, Booked
<1>5. ASSUME NEW s \in Requests PROVE AmountsLegal(req[s])'
  <2>1. AmountsLegal(req'[s])
    BY <1>1 DEF AmountsInv
  <2>2. BookingLegal(req[s])' /\ CreateLegal(req[s])'
    BY <2>1 DEF AmountsLegal, BookingLegal, CreateLegal
  <2>3. PaidBeside(req[s])' = PaidBeside(req'[s])
    BY <1>3 DEF PaidBeside
  <2>4. BoundLegal(req[s])' /\ StatusLegal(req[s])'
    BY <2>1, <2>3 DEF AmountsLegal, BoundLegal, StatusLegal, Alone
  <2>5. DuplicateLegal(req[s])'
    BY <2>1, <1>2 DEF AmountsLegal, DuplicateLegal
  <2> QED BY <2>2, <2>4, <2>5 DEF AmountsLegal
<1> QED BY <1>4, <1>5 DEF AmountsInv

\* A record that has read nothing and creates nothing knows nothing wrong.
LEMMA AmountsOutside ==
  ASSUME NEW q, q.pc \notin Deciding, q.op \notin CreateOps
  PROVE  AmountsLegal(q)
BY DEF AmountsLegal, BookingLegal, CreateLegal, BoundLegal, StatusLegal, DuplicateLegal,
       Deciding, CreateOps

\* So does one that has ended.
LEMMA AmountsEnd ==
  ASSUME IInv, AmountsInv, NEW r \in Requests, NEW o \in Outcomes, End(r, o), UNCHANGED tables
  PROVE  AmountsInv'
<1> DEFINE q == [Idle EXCEPT !.pc = o]
<1>1. q.pc = o /\ q.op = None
  BY DEF Idle
<1> HIDE DEF q
<1>2. AmountsLegal(q)
  BY <1>1, NullFacts, AmountsOutside DEF Outcomes, Deciding, Ops
<1> QED BY <1>2, AmountsLocal DEF End, Set, q, tables

\* Calls preserve AmountsInv: they have read nothing yet, and a pledge is
\* created with what the request says of it.
LEMMA AmountsCall ==
  ASSUME IInv, AmountsInv, NEW r \in Requests, Call(r)
  PROVE  AmountsInv'
<1>1. ASSUME NEW q, Begin(r, q), AmountsLegal(q)
      PROVE  AmountsInv'
  <2>1. Refused.pc = "rejected" /\ Refused.op = None
    BY DEF Refused, Idle
  <2>2. AmountsLegal(Refused)
    BY <2>1, NullFacts, AmountsOutside DEF Deciding, Ops
  <2>3. Set(r, q) \/ Set(r, Refused)
    BY <1>1 DEF Begin
  <2>4. UNCHANGED <<pledges, fulfillments, recent>>
    BY <1>1 DEF Begin, tables
  <2> QED BY <1>1, <2>2, <2>3, <2>4, AmountsLocal
<1>2. CASE createPledge(r)
  <2>1. PICK c \in Commitments :
          Begin(r, [Idle EXCEPT !.op = "createPledge", !.pc = "commit",
                                !.pledge = r, !.committed = c])
    BY <1>2 DEF createPledge
  <2> DEFINE q == [Idle EXCEPT !.op = "createPledge", !.pc = "commit",
                               !.pledge = r, !.committed = c]
  <2>2. q.op = "createPledge" /\ q.pc = "commit" /\ q.status = "PLEDGED"
    BY DEF Idle
  <2> HIDE DEF q
  <2>3. AmountsLegal(q)
    BY <2>2 DEF AmountsLegal, BookingLegal, CreateLegal, BoundLegal, StatusLegal,
                DuplicateLegal, CreateOps, BookingOps, ReadsPledge
  <2> QED BY <1>1, <2>1, <2>3 DEF q
<1>3. CASE recordFulfillment(r)
  <2>1. PICK p \in PledgeIds, v \in Values, k \in Keys \cup {None}, c \in BOOLEAN :
          Begin(r, [Idle EXCEPT !.op = "recordFulfillment", !.pc = "replay",
                                !.pledge = p, !.value = v, !.key = k, !.confirm = c])
    BY <1>3 DEF recordFulfillment
  <2> DEFINE q == [Idle EXCEPT !.op = "recordFulfillment", !.pc = "replay",
                               !.pledge = p, !.value = v, !.key = k, !.confirm = c]
  <2>2. q.pc = "replay" /\ q.op = "recordFulfillment"
    BY DEF Idle
  <2>3. AmountsLegal(q)
    BY <2>2, AmountsOutside DEF Deciding, CreateOps
  <2> QED BY <1>1, <2>1, <2>3
<1>4. CASE recordDirectContribution(r)
  <2>1. PICK v \in Values, k \in Keys \cup {None} :
          Begin(r, [Idle EXCEPT !.op = "recordDirectContribution", !.pc = "replay",
                                !.pledge = r, !.value = v, !.committed = v, !.key = k])
    BY <1>4 DEF recordDirectContribution
  <2> DEFINE q == [Idle EXCEPT !.op = "recordDirectContribution", !.pc = "replay",
                               !.pledge = r, !.value = v, !.committed = v, !.key = k]
  <2>2. /\ q.pc = "replay" /\ q.op = "recordDirectContribution" /\ q.status = "PLEDGED"
        /\ q.value = v /\ q.committed = v
    BY DEF Idle
  <2> HIDE DEF q
  <2>3. v <= v
    BY ConstantsAssumption
  <2>4. AmountsLegal(q)
    BY <2>2, <2>3 DEF AmountsLegal, BookingLegal, CreateLegal, BoundLegal, StatusLegal,
                      DuplicateLegal, CreateOps, BookingOps, ReadsPledge
  <2> QED BY <1>1, <2>1, <2>4 DEF q
<1>5. CASE recordPledgeWithPayment(r)
  <2>1. PICK c \in Commitments, v \in Values \cup {0} :
          Begin(r, IF v > c THEN Refused
                   ELSE [Idle EXCEPT !.op = "recordPledgeWithPayment",
                                     !.pc = IF v = 0 THEN "commit" ELSE "insert",
                                     !.pledge = r, !.value = v, !.committed = c])
    BY <1>5 DEF recordPledgeWithPayment
  <2> DEFINE pc == IF v = 0 THEN "commit" ELSE "insert"
             q == [Idle EXCEPT !.op = "recordPledgeWithPayment", !.pc = pc,
                               !.pledge = r, !.value = v, !.committed = c]
  <2>2. CASE v > c
    <3>1. Begin(r, Refused)
      BY <2>1, <2>2
    <3>2. Refused.pc = "rejected" /\ Refused.op = None
      BY DEF Refused, Idle
    <3> QED BY <1>1, <3>1, <3>2, NullFacts, AmountsOutside DEF Deciding, Ops
  <2>3. CASE ~(v > c)
    <3>1. Begin(r, q)
      BY <2>1, <2>3
    <3>2. /\ q.pc = pc /\ q.op = "recordPledgeWithPayment" /\ q.status = "PLEDGED"
          /\ q.value = v /\ q.committed = c /\ q.ful = None
      BY DEF Idle
    <3>3. pc \in {"commit", "insert"}
      OBVIOUS
    <3> HIDE DEF q, pc
    <3>4. q.value <= q.committed
      BY <2>3, <3>2, ConstantsAssumption
    <3>5. AmountsLegal(q)
      BY <3>2, <3>3, <3>4 DEF AmountsLegal, BookingLegal, CreateLegal, BoundLegal, StatusLegal,
                              DuplicateLegal, CreateOps, BookingOps, ReadsPledge
    <3> QED BY <1>1, <3>1, <3>5
  <2> QED BY <2>2, <2>3
<1>6. CASE correctValue(r)
  <2>1. PICK f \in Requests, v \in Values :
          Begin(r, [Idle EXCEPT !.op = "correctValue", !.pc = "readFul",
                                !.ful = f, !.value = v])
    BY <1>6 DEF correctValue
  <2> DEFINE q == [Idle EXCEPT !.op = "correctValue", !.pc = "readFul",
                               !.ful = f, !.value = v]
  <2>2. q.pc = "readFul" /\ q.op = "correctValue"
    BY DEF Idle
  <2>3. AmountsLegal(q)
    BY <2>2, AmountsOutside DEF Deciding, CreateOps
  <2> QED BY <1>1, <2>1, <2>3
<1>7. CASE correctCommittedValue(r)
  <2>1. PICK p \in PledgeIds, c \in Commitments :
          Begin(r, [Idle EXCEPT !.op = "correctCommittedValue", !.pc = "readPledge",
                                !.pledge = p, !.value = c])
    BY <1>7 DEF correctCommittedValue
  <2> DEFINE q == [Idle EXCEPT !.op = "correctCommittedValue", !.pc = "readPledge",
                               !.pledge = p, !.value = c]
  <2>2. q.pc = "readPledge" /\ q.op = "correctCommittedValue"
    BY DEF Idle
  <2>3. AmountsLegal(q)
    BY <2>2, AmountsOutside DEF Deciding, CreateOps
  <2> QED BY <1>1, <2>1, <2>3
<1>8. CASE cancelPledge(r)
  <2>1. PICK p \in PledgeIds :
          Begin(r, [Idle EXCEPT !.op = "cancelPledge", !.pc = "readPledge", !.pledge = p])
    BY <1>8 DEF cancelPledge
  <2> DEFINE q == [Idle EXCEPT !.op = "cancelPledge", !.pc = "readPledge", !.pledge = p]
  <2>2. q.pc = "readPledge" /\ q.op = "cancelPledge"
    BY DEF Idle
  <2>3. AmountsLegal(q)
    BY <2>2, AmountsOutside DEF Deciding, CreateOps
  <2> QED BY <1>1, <2>1, <2>3
<1>9. CASE setStatus(r)
  <2> DEFINE q == [Idle EXCEPT !.op = "setStatus", !.pc = "auditStatus"]
  <2>1. q.pc = "auditStatus" /\ q.op = "setStatus"
    BY DEF Idle
  <2>2. AmountsLegal(q)
    BY <2>1, AmountsOutside DEF Deciding, CreateOps
  <2> QED BY <1>9, <2>2, AmountsLocal DEF setStatus
<1> QED BY <1>2, <1>3, <1>4, <1>5, <1>6, <1>7, <1>8, <1>9 DEF Call

\* The statements before the first write: what is read is current, what is
\* tested holds.
LEMMA AmountsReads ==
  ASSUME IInv, AmountsInv, NEW r \in Requests,
         \/ findByIdempotencyKey(r) \/ ReadFulfillment(r) \/ ReadPledge(r)
         \/ assertNotDuplicate(r) \/ assertWithinCommitted(r)
  PROVE  AmountsInv'
<1>1. req[r] \in RequestState /\ PcLegal(req[r]) /\ AmountsLegal(req[r])
  BY DEF IInv, TypeOK, Legal, AmountsInv
<1>2. UNCHANGED <<pledges, fulfillments, recent>> /\ UNCHANGED tables
  BY DEF findByIdempotencyKey, ReadFulfillment, ReadPledge, assertNotDuplicate,
         assertWithinCommitted, tables
<1>3. ASSUME End(r, "rejected") PROVE AmountsInv'
  BY <1>2, <1>3, AmountsEnd DEF Outcomes
<1>4. CASE findByIdempotencyKey(r)
  <2>1. req[r].op \in {"recordFulfillment", "recordDirectContribution"}
    BY <1>1, <1>4 DEF findByIdempotencyKey, PcLegal
  <2>2. ASSUME NEW f, Set(r, Answered(r, "replayed", f))
        PROVE  AmountsInv'
    <3>1. Answered(r, "replayed", f).pc = "replayed" /\ Answered(r, "replayed", f).op = None
      BY DEF Answered, Idle
    <3> QED BY <1>2, <2>2, <3>1, NullFacts, AmountsOutside, AmountsLocal DEF Deciding, Ops
  <2>3. ASSUME Set(r, [req[r] EXCEPT !.pc = IF req[r].op = "recordFulfillment"
                                            THEN "readPledge" ELSE "insert"])
        PROVE  AmountsInv'
    <3> DEFINE pc == IF req[r].op = "recordFulfillment" THEN "readPledge" ELSE "insert"
               q == [req[r] EXCEPT !.pc = pc]
    <3>1. /\ q.op = req[r].op /\ q.pc = pc /\ q.value = req[r].value /\ q.ful = req[r].ful
          /\ q.committed = req[r].committed /\ q.status = req[r].status
      BY <1>1 DEF RequestState
    <3> HIDE DEF q
    <3>2. CASE req[r].op = "recordFulfillment"
      <4>1. AmountsLegal(q)
        BY <3>1, <3>2, AmountsOutside DEF Deciding, CreateOps
      <4> QED BY <1>2, <2>3, <4>1, AmountsLocal DEF q
    <3>3. CASE req[r].op = "recordDirectContribution"
      <4>1. q.op = "recordDirectContribution" /\ q.pc = "insert" /\ CreateLegal(q)
        BY <1>1, <3>1, <3>3 DEF AmountsLegal, CreateLegal
      <4>2. AmountsLegal(q)
        BY <4>1 DEF AmountsLegal, BookingLegal, BoundLegal, StatusLegal, DuplicateLegal,
                    ReadsPledge
      <4> QED BY <1>2, <2>3, <4>2, AmountsLocal DEF q
    <3> QED BY <2>1, <3>2, <3>3
  <2> QED BY <1>4, <2>2, <2>3 DEF findByIdempotencyKey
<1>5. CASE ReadFulfillment(r)
  <2> DEFINE row == fulfillments[req[r].ful]
             q == [req[r] EXCEPT !.pc = "readPledge", !.pledge = row.pledge,
                                 !.old = row.value, !.solo = TRUE]
  <2>1. Set(r, q) /\ req[r].op = "correctValue"
    BY <1>1, <1>5 DEF ReadFulfillment, PcLegal
  <2>2. q.pc = "readPledge" /\ q.op = req[r].op
    BY <1>1 DEF RequestState
  <2> HIDE DEF q
  <2>3. AmountsLegal(q)
    BY <2>1, <2>2, AmountsOutside DEF Deciding, CreateOps
  <2> QED BY <1>2, <2>1, <2>3, AmountsLocal
<1>6. CASE ReadPledge(r)
  <2> DEFINE row == pledges[req[r].pledge]
             q == [req[r] EXCEPT !.pc = AfterReadPledge(r), !.committed = row.committed,
                                 !.cancelled = row.status = "CANCELLED",
                                 !.solo = req[r].solo \/ req[r].op # "correctValue"]
  <2>1. CASE Set(r, q)
    <3>1. /\ q.op = req[r].op /\ q.pledge = req[r].pledge /\ q.pc = AfterReadPledge(r)
          /\ q.committed = row.committed /\ q.confirm = req[r].confirm
      BY <1>1 DEF RequestState
    <3>2. req[r].op \in ReadsPledge \cup {"correctValue"}
      BY <1>1, <1>6 DEF ReadPledge, PcLegal
    <3>3. /\ req[r].op = "cancelPledge" => AfterReadPledge(r) = "update"
          /\ req[r].op = "correctCommittedValue" => AfterReadPledge(r) = "sum"
          /\ req[r].op = "correctValue" => AfterReadPledge(r) = "bound"
          /\ req[r].op = "recordFulfillment" =>
               AfterReadPledge(r) = IF req[r].confirm THEN "bound" ELSE "dup"
      BY Zenon DEF AfterReadPledge
    <3> HIDE DEF q
    <3>4. BookingLegal(q) /\ CreateLegal(q) /\ StatusLegal(q)
      BY <3>1, <3>2, <3>3 DEF BookingLegal, CreateLegal, StatusLegal, ReadsPledge, BookingOps,
                              CreateOps
    <3>5. BoundLegal(q) /\ DuplicateLegal(q)
      BY <3>1, <3>2, <3>3 DEF BoundLegal, DuplicateLegal, ReadsPledge, Deciding
    <3> QED BY <1>2, <2>1, <3>4, <3>5, AmountsLocal DEF AmountsLegal
  <2> QED BY <1>3, <1>6, <2>1 DEF ReadPledge
<1>7. CASE assertNotDuplicate(r)
  <2> DEFINE q == [req[r] EXCEPT !.pc = "bound"]
  <2>1. CASE ~LooksDuplicate(r) /\ Set(r, q)
    <3>1. /\ q.op = req[r].op /\ q.pledge = req[r].pledge /\ q.pc = "bound"
          /\ q.committed = req[r].committed /\ q.value = req[r].value
          /\ q.solo = req[r].solo
      BY <1>1 DEF RequestState
    <3>2. req[r].op = "recordFulfillment" /\ req[r].pc = "dup"
      BY <1>1, <1>7 DEF assertNotDuplicate, PcLegal
    <3> HIDE DEF q
    <3>3. BookingLegal(q) /\ CreateLegal(q) /\ StatusLegal(q)
      BY <3>1, <3>2 DEF BookingLegal, CreateLegal, StatusLegal, CreateOps
    <3>4. BoundLegal(q)
      BY <1>1, <3>1, <3>2 DEF AmountsLegal, BoundLegal, Deciding
    <3>5. DuplicateLegal(q)
      BY <2>1, <3>1 DEF LooksDuplicate, DuplicateLegal
    <3> QED BY <1>2, <2>1, <3>3, <3>4, <3>5, AmountsLocal DEF AmountsLegal
  <2> QED BY <1>3, <1>7, <2>1 DEF assertNotDuplicate
<1>8. CASE assertWithinCommitted(r)
  <2> DEFINE pc == IF req[r].op = "correctValue" THEN "updateFul" ELSE "insert"
             q == [req[r] EXCEPT !.pc = pc]
  <2>1. CASE Projected(r) <= req[r].committed /\ Set(r, q)
    <3>1. /\ q.op = req[r].op /\ q.pledge = req[r].pledge /\ q.pc = pc /\ q.ful = req[r].ful
          /\ q.committed = req[r].committed /\ q.value = req[r].value
          /\ q.solo = req[r].solo /\ q.confirm = req[r].confirm
      BY <1>1 DEF RequestState
    <3>2. req[r].op \in {"recordFulfillment", "correctValue"} /\ req[r].pc = "bound"
      BY <1>1, <1>8 DEF assertWithinCommitted, PcLegal
    <3>3. pc \in {"updateFul", "insert"}
      OBVIOUS
    <3> HIDE DEF q, pc
    <3>4. BookingLegal(q) /\ CreateLegal(q) /\ StatusLegal(q)
      BY <3>1, <3>2, <3>3 DEF BookingLegal, CreateLegal, StatusLegal, CreateOps
    <3>5. PaidBeside(q) + q.value <= q.committed
      BY <2>1, <3>1 DEF PaidBeside, Projected
    <3>6. BoundLegal(q)
      BY <1>1, <3>1, <3>2, <3>5 DEF AmountsLegal, BoundLegal, Deciding
    <3>7. DuplicateLegal(q)
      BY <1>1, <3>1, <3>2 DEF AmountsLegal, DuplicateLegal, Deciding
    <3> QED BY <1>2, <2>1, <3>4, <3>6, <3>7, AmountsLocal DEF AmountsLegal
  <2> QED BY <1>3, <1>8, <2>1 DEF assertWithinCommitted
<1> QED BY <1>4, <1>5, <1>6, <1>7, <1>8

\* The writes: the status is derived from the current amounts.
LEMMA AmountsWrites ==
  ASSUME IInv, AmountsInv, NEW r \in Requests,
         \/ InsertFulfillment(r) \/ UpdateFulfillment(r) \/ RereadPledge(r)
         \/ DeriveFromSum(r) \/ UpdatePledge(r) \/ AuditStatus(r)
  PROVE  AmountsInv'
<1>1. req[r] \in RequestState /\ Legal(r, req[r]) /\ PcLegal(req[r]) /\ AmountsLegal(req[r])
  BY DEF IInv, TypeOK, Legal, AmountsInv
<1>2. UNCHANGED <<pledges, fulfillments, recent>>
  BY DEF InsertFulfillment, UpdateFulfillment, RereadPledge, DeriveFromSum, UpdatePledge,
         AuditStatus, tables
<1>3. CASE InsertFulfillment(r)
  <2> DEFINE q == [req[r] EXCEPT !.pc = "sum", !.ful = r]
  <2>1. CASE End(r, "conflict")
    BY <1>3, <2>1, AmountsEnd DEF InsertFulfillment, Outcomes
  <2>2. CASE Set(r, q)
    <3>1. /\ q.op = req[r].op /\ q.pledge = req[r].pledge /\ q.pc = "sum" /\ q.ful = r
          /\ q.committed = req[r].committed /\ q.value = req[r].value
          /\ q.solo = req[r].solo /\ q.confirm = req[r].confirm
      BY <1>1 DEF RequestState
    <3>2. req[r].op \in BookingOps /\ req[r].pc = "insert"
      BY <1>1, <1>3 DEF InsertFulfillment, PcLegal
    <3> HIDE DEF q
    <3>3. BookingLegal(q) /\ CreateLegal(q) /\ StatusLegal(q)
      BY <1>1, <3>1, <3>2, NullFacts
         DEF AmountsLegal, BookingLegal, CreateLegal, StatusLegal, BookingOps
    <3>4. PaidBeside(q) = PaidBeside(req[r])
      <4>1. fulfillments[r] = None /\ req[r].ful \in {None, r}
        BY <1>1, <3>2 DEF Legal, RowsLegal, InTx
      <4>2. r \notin PaymentsOf(q.pledge) /\ req[r].ful \notin PaymentsOf(q.pledge)
        BY <4>1, NullFacts DEF PaymentsOf, Booked
      <4> QED BY <3>1, <4>2, SumWithout DEF PaidBeside
    <3>5. BoundLegal(q)
      BY <1>1, <3>1, <3>2, <3>4 DEF AmountsLegal, BoundLegal, Deciding
    <3>6. DuplicateLegal(q)
      BY <1>1, <3>1, <3>2 DEF AmountsLegal, DuplicateLegal, Deciding
    <3> QED BY <1>2, <2>2, <3>3, <3>5, <3>6, AmountsLocal DEF AmountsLegal
  <2> QED BY <1>3, <2>1, <2>2 DEF InsertFulfillment
<1>4. CASE UpdateFulfillment(r)
  <2> DEFINE q == [req[r] EXCEPT !.pc = "reread"]
  <2>1. Set(r, q) /\ req[r].pc = "updateFul" /\ req[r].op = "correctValue"
    BY <1>1, <1>4 DEF UpdateFulfillment, PcLegal
  <2>2. /\ q.op = req[r].op /\ q.pledge = req[r].pledge /\ q.pc = "reread"
        /\ q.ful = req[r].ful /\ q.committed = req[r].committed /\ q.value = req[r].value
        /\ q.solo = req[r].solo
    BY <1>1 DEF RequestState
  <2> HIDE DEF q
  <2>3. BookingLegal(q) /\ CreateLegal(q) /\ StatusLegal(q) /\ DuplicateLegal(q)
    BY <2>1, <2>2 DEF BookingLegal, CreateLegal, StatusLegal, DuplicateLegal, CreateOps,
                      BookingOps
  <2>4. BoundLegal(q)
    BY <1>1, <2>1, <2>2 DEF AmountsLegal, BoundLegal, PaidBeside, Deciding
  <2> QED BY <1>2, <2>1, <2>3, <2>4, AmountsLocal DEF AmountsLegal
<1>5. CASE RereadPledge(r)
  <2> DEFINE row == pledges[req[r].pledge]
             q == [req[r] EXCEPT !.pc = "sum", !.committed = row.committed,
                                 !.cancelled = row.status = "CANCELLED"]
  <2>1. Set(r, q) /\ req[r].pc = "reread" /\ req[r].op = "correctValue"
    BY <1>1, <1>5 DEF RereadPledge, PcLegal
  <2>2. /\ q.op = req[r].op /\ q.pledge = req[r].pledge /\ q.pc = "sum"
        /\ q.ful = req[r].ful /\ q.committed = row.committed /\ q.value = req[r].value
        /\ q.solo = req[r].solo
    BY <1>1 DEF RequestState
  <2> HIDE DEF q
  <2>3. BookingLegal(q) /\ CreateLegal(q) /\ StatusLegal(q) /\ DuplicateLegal(q)
    BY <2>1, <2>2 DEF BookingLegal, CreateLegal, StatusLegal, DuplicateLegal, CreateOps,
                      BookingOps
  <2>4. BoundLegal(q)
    BY <1>1, <2>1, <2>2 DEF AmountsLegal, BoundLegal, PaidBeside, Deciding
  <2> QED BY <1>2, <2>1, <2>3, <2>4, AmountsLocal DEF AmountsLegal
<1>6. CASE DeriveFromSum(r)
  <2> DEFINE d == IF req[r].op = "correctCommittedValue"
                  THEN deriveStatus(req[r].value, SumFulfillments(req[r].pledge, {}),
                                    req[r].cancelled)
                  ELSE deriveStatus(req[r].committed, Projected(r), req[r].cancelled)
             q == [req[r] EXCEPT !.pc = "update", !.status = d]
  <2>1. Set(r, q) /\ req[r].pc = "sum"
    BY <1>6 DEF DeriveFromSum
  <2>2. /\ q.op = req[r].op /\ q.pledge = req[r].pledge /\ q.pc = "update"
        /\ q.ful = req[r].ful /\ q.committed = req[r].committed /\ q.value = req[r].value
        /\ q.solo = req[r].solo /\ q.confirm = req[r].confirm
        /\ q.cancelled = req[r].cancelled /\ q.status = d
    BY <1>1 DEF RequestState
  <2> HIDE DEF q
  <2>3. req[r].op = "correctCommittedValue" =>
          SumFulfillments(req[r].pledge, {}) = PaidBeside(req[r])
    <3>1. req[r].op = "correctCommittedValue" => req[r].ful = None
      BY <1>1 DEF Legal, RowsLegal, Ops, BookingOps
    <3>2. None \notin PaymentsOf(req[r].pledge)
      BY NullFacts DEF PaymentsOf
    <3> QED BY <3>1, <3>2, SumWithout DEF PaidBeside
  <2>4. BookingLegal(q) /\ CreateLegal(q)
    BY <1>1, <2>1, <2>2 DEF AmountsLegal, BookingLegal, CreateLegal, BookingOps, CreateOps
  <2>5. PaidBeside(q) = PaidBeside(req[r]) /\ Projected(r) = PaidBeside(q) + q.value
    BY <2>2 DEF PaidBeside, Projected
  <2>6. BoundLegal(q)
    BY <1>1, <2>1, <2>2, <2>5 DEF AmountsLegal, BoundLegal, Deciding
  <2>7. DuplicateLegal(q)
    BY <1>1, <2>1, <2>2 DEF AmountsLegal, DuplicateLegal, Deciding
  <2>8. StatusLegal(q)
    BY <2>2, <2>3, <2>5 DEF StatusLegal, BookingOps
  <2> QED BY <1>2, <2>1, <2>4, <2>6, <2>7, <2>8, AmountsLocal DEF AmountsLegal
<1>7. CASE UpdatePledge(r)
  <2> DEFINE d == IF req[r].op = "cancelPledge" THEN "CANCELLED" ELSE req[r].status
             q == [req[r] EXCEPT !.pc = "commit", !.status = d]
  <2>1. Set(r, q) /\ req[r].pc = "update"
    BY <1>7 DEF UpdatePledge
  <2>2. /\ q.op = req[r].op /\ q.pledge = req[r].pledge /\ q.pc = "commit"
        /\ q.ful = req[r].ful /\ q.committed = req[r].committed /\ q.value = req[r].value
        /\ q.solo = req[r].solo /\ q.confirm = req[r].confirm
        /\ q.cancelled = req[r].cancelled /\ q.status = d
    BY <1>1 DEF RequestState
  <2> HIDE DEF q
  <2>3. BookingLegal(q) /\ CreateLegal(q)
    BY <1>1, <2>1, <2>2 DEF AmountsLegal, BookingLegal, CreateLegal, BookingOps, CreateOps
  <2>4. PaidBeside(q) = PaidBeside(req[r])
    BY <2>2 DEF PaidBeside
  <2>5. BoundLegal(q)
    BY <1>1, <2>1, <2>2, <2>4 DEF AmountsLegal, BoundLegal, Deciding
  <2>6. DuplicateLegal(q)
    BY <1>1, <2>1, <2>2 DEF AmountsLegal, DuplicateLegal, Deciding
  <2>7. StatusLegal(q)
    BY <1>1, <2>1, <2>2, <2>4 DEF AmountsLegal, StatusLegal, BookingOps, Alone, CreateOps
  <2> QED BY <1>2, <2>1, <2>3, <2>5, <2>6, <2>7, AmountsLocal DEF AmountsLegal
<1>8. CASE AuditStatus(r)
  <2> DEFINE q == [Idle EXCEPT !.pc = "ok"]
  <2>1. q.pc = "ok" /\ q.op = None
    BY DEF Idle
  <2>2. AmountsLegal(q)
    BY <2>1, NullFacts, AmountsOutside DEF Deciding, Ops
  <2> QED BY <1>2, <1>8, <2>2, AmountsLocal DEF AuditStatus, End, Set
<1> QED BY <1>3, <1>4, <1>5, <1>6, <1>7, <1>8

\* The row a booking inserts.
LEMMA CommitInserts ==
  ASSUME IInv, NEW r \in Requests, Commit(r), Inserts(r)
  PROVE  /\ fulfillments' = [fulfillments EXCEPT ![r] = fulfillments'[r]]
         /\ fulfillments'[r] \in FulfillmentRow
         /\ fulfillments'[r].pledge = req[r].pledge /\ fulfillments'[r].value = req[r].value
<1> DEFINE row == [pledge |-> req[r].pledge, value |-> req[r].value, key |-> req[r].key]
<1>1. fulfillments' = [fulfillments EXCEPT ![r] = row] /\ req[r].pledge \in PledgeIds
  BY CommitFacts, Zenon
<1>2. req[r] \in RequestState /\ fulfillments \in [Requests -> FulfillmentRow \cup {None}]
  BY DEF IInv, TypeOK
<1>3. row \in FulfillmentRow
  BY <1>1, <1>2 DEF RequestState, FulfillmentRow
<1>4. row.pledge = req[r].pledge /\ row.value = req[r].value
  OBVIOUS
<1> HIDE DEF row
<1>5. fulfillments'[r] = row
  BY <1>1, <1>2
<1>6. fulfillments' = [fulfillments EXCEPT ![r] = fulfillments'[r]]
  BY <1>1, <1>5
<1> QED BY <1>3, <1>4, <1>5, <1>6

\* A commit leaves the payments of every other pledge as they are.
LEMMA CommitElsewhere ==
  ASSUME IInv, NEW r \in Requests, Commit(r), NEW p, p # req[r].pledge
  PROVE  /\ PaymentsOf(p)' = PaymentsOf(p)
         /\ PaymentsOf(p)' \cap recent' = PaymentsOf(p) \cap recent
         /\ \A f \in PaymentsOf(p) : fulfillments'[f] = fulfillments[f]
         /\ \A X : SumFulfillments(p, X)' = SumFulfillments(p, X)
<1>1. /\ fulfillments \in [Requests -> FulfillmentRow \cup {None}]
      /\ fulfillments[r] = None /\ recent' = recent \cup Booking(r)
  BY CommitFacts, Zenon DEF IInv, TypeOK, Commit
<1>2. \A f \in Requests :
        \/ fulfillments'[f] = fulfillments[f]
        \/ /\ f = r /\ ~Booked(r) /\ fulfillments'[f] \in FulfillmentRow
           /\ fulfillments'[f].pledge = req[r].pledge
        \/ /\ fulfillments[f] \in FulfillmentRow /\ fulfillments'[f] \in FulfillmentRow
           /\ fulfillments[f].pledge = req[r].pledge
           /\ fulfillments'[f].pledge = req[r].pledge
  <2>1. CASE Inserts(r)
    BY <1>1, <2>1, CommitInserts DEF Booked
  <2>2. CASE req[r].op = "correctValue"
    <3>1. /\ fulfillments' = [fulfillments EXCEPT ![req[r].ful].value = req[r].value]
          /\ req[r].ful \in Requests /\ fulfillments[req[r].ful] \in FulfillmentRow
      BY <2>2, CommitFacts, Zenon
    <3>2. fulfillments[req[r].ful].pledge = req[r].pledge
      BY <2>2 DEF IInv, Legal, RowsLegal, Commit
    <3>3. req[r].value \in Nat
      BY DEF IInv, TypeOK, RequestState
    <3> QED BY <1>1, <3>1, <3>2, <3>3 DEF FulfillmentRow
  <2>3. CASE ~Inserts(r) /\ req[r].op # "correctValue"
    BY <2>3, CommitFacts, Zenon
  <2> QED BY <2>1, <2>2, <2>3
<1>3. PaymentsOf(p)' = PaymentsOf(p) /\ \A f \in PaymentsOf(p) : fulfillments'[f] = fulfillments[f]
  BY <1>2, NullFacts DEF PaymentsOf, Booked
<1>4. PaymentsOf(p) \cap Booking(r) = {}
  BY <1>1 DEF PaymentsOf, Booked, Booking
<1> QED BY <1>1, <1>3, <1>4, SumStays

\* Payments stay finitely many: a commit books at most one.
LEMMA CommitBooksFinitely ==
  ASSUME IInv, FinitelyBooked, NEW r \in Requests, Commit(r)
  PROVE  FinitelyBooked'
<1> DEFINE B == {f \in Requests : Booked(f)}
           C == {f \in Requests : fulfillments'[f] # None}
<1>1. fulfillments \in [Requests -> FulfillmentRow \cup {None}]
  BY DEF IInv, TypeOK
<1>2. \A f \in Requests \ {r} : fulfillments'[f] # None => fulfillments[f] # None
  <2>1. CASE Inserts(r)
    <3>1. fulfillments' = [fulfillments EXCEPT ![r] =
            [pledge |-> req[r].pledge, value |-> req[r].value, key |-> req[r].key]]
      BY <2>1, CommitFacts, Zenon
    <3> QED BY <1>1, <3>1
  <2>2. CASE req[r].op = "correctValue"
    <3>1. /\ fulfillments' = [fulfillments EXCEPT ![req[r].ful].value = req[r].value]
          /\ req[r].ful \in Requests /\ fulfillments[req[r].ful] \in FulfillmentRow
      BY <2>2, CommitFacts, Zenon
    <3> QED BY <1>1, <3>1, NullFacts
  <2>3. CASE ~Inserts(r) /\ req[r].op # "correctValue"
    BY <2>3, CommitFacts, Zenon
  <2> QED BY <2>1, <2>2, <2>3
<1>3. C \subseteq B \cup {r}
  BY <1>2 DEF Booked
<1>4. IsFiniteSet(B \cup {r})
  BY FS_AddElement DEF FinitelyBooked
<1>5. IsFiniteSet(C)
  BY <1>3, <1>4, FS_Subset
<1> QED BY <1>5 DEF FinitelyBooked, Booked

\* After a commit the pledge's payments add up to what its request projected,
\* or to what they did when it books and corrects none.
LEMMA CommitSum ==
  ASSUME IInv, FinitelyBooked, NEW r \in Requests, Commit(r), NEW p, p = req[r].pledge
  PROVE  /\ SumFulfillments(p, {})' =
              IF Inserts(r) \/ req[r].op = "correctValue" THEN PaidBeside(req[r]) + req[r].value
              ELSE SumFulfillments(p, {})
         /\ PaidBeside(req[r]) \in Int
<1> DEFINE S == PaymentsOf(p)
           T == PaymentsOf(p) \ {req[r].ful}
           g == Paid(fulfillments, T)
           h == Paid(fulfillments', PaymentsOf(p)')
<1>1. /\ fulfillments \in [Requests -> FulfillmentRow \cup {None}]
      /\ fulfillments[r] = None /\ req[r].value \in Nat
  BY CommitFacts, Zenon DEF IInv, TypeOK, RequestState
<1>2. IsFiniteSet(S) /\ IsFiniteSet(T)
  <2>1. S \subseteq {f \in Requests : Booked(f)} /\ T \subseteq S
    BY DEF PaymentsOf
  <2> QED BY <2>1, FS_Subset DEF FinitelyBooked
<1>3. \A f \in S : fulfillments[f] \in FulfillmentRow /\ fulfillments[f].value \in Nat
  BY <1>1 DEF PaymentsOf, Booked, FulfillmentRow
<1>4. \A f \in T : g[f] \in Int /\ g[f] = fulfillments[f].value
  BY <1>3 DEF Paid
<1>5. PaidBeside(req[r]) = SumOf(g, T) /\ SumOf(g, T) \in Int
  <2>1. PaidBeside(req[r]) = SumOf(g, T)
    BY SumForms DEF PaidBeside
  <2>2. SumOf(g, T) \in Int
    BY <1>2, <1>4, SumInt
  <2> QED BY <2>1, <2>2
<1>6. SumFulfillments(p, {})' = SumOf(h, PaymentsOf(p)')
  <2>1. PaymentsOf(p)' \ {} = PaymentsOf(p)'
    OBVIOUS
  <2> QED BY <2>1, SumForms
\* A payment or a correction: one term is the new value, the rest stay.
<1>7. ASSUME NEW f, f \notin T, PaymentsOf(p)' = T \cup {f},
             fulfillments'[f].value = req[r].value,
             \A x \in T : fulfillments'[x] = fulfillments[x]
      PROVE  SumFulfillments(p, {})' = PaidBeside(req[r]) + req[r].value
  <2>1. \A x \in T \cup {f} : h[x] \in Int
    BY <1>1, <1>3, <1>7 DEF Paid
  <2>2. h[f] = req[r].value /\ \A x \in T : h[x] \in Int /\ h[x] = g[x]
    BY <1>4, <1>7, <2>1 DEF Paid
  <2>3. SumOf(h, T) = SumOf(g, T)
    BY <1>2, <2>2, SumEqual
  <2> HIDE DEF T, h, g
  <2>4. SumOf(h, T \cup {f}) = h[f] + SumOf(h, T)
    BY <1>2, <1>7, <2>1, SumAddElement
  <2> QED BY <1>1, <1>5, <1>6, <1>7, <2>2, <2>3, <2>4
<1>8. CASE Inserts(r)
  <2>1. fulfillments' = [fulfillments EXCEPT ![r] = fulfillments'[r]]
    BY <1>8, CommitInserts, Zenon
  <2>2. fulfillments'[r] # None /\ fulfillments'[r].pledge = p /\ fulfillments'[r].value = req[r].value
    BY <1>8, CommitInserts, NullFacts
  <2>3. T = S /\ r \notin T
    BY <1>1, <1>8 DEF Inserts, PaymentsOf, Booked
  <2>4. PaymentsOf(p)' = T \cup {r} /\ \A x \in T : fulfillments'[x] = fulfillments[x]
    BY <1>1, <2>1, <2>2, <2>3 DEF PaymentsOf, Booked
  <2> QED BY <1>5, <1>7, <1>8, <2>2, <2>3, <2>4
<1>9. CASE req[r].op = "correctValue"
  <2>1. /\ fulfillments' = [fulfillments EXCEPT ![req[r].ful].value = req[r].value]
        /\ req[r].ful \in Requests /\ fulfillments[req[r].ful] \in FulfillmentRow
    BY <1>9, CommitFacts, Zenon
  <2>2. fulfillments[req[r].ful].pledge = p
    BY <1>9 DEF IInv, Legal, RowsLegal, Commit
  <2>3. /\ fulfillments'[req[r].ful].value = req[r].value
        /\ fulfillments'[req[r].ful].pledge = p /\ fulfillments'[req[r].ful] \in FulfillmentRow
    BY <1>1, <2>1, <2>2 DEF FulfillmentRow
  <2>4. \A x \in Requests : x # req[r].ful => fulfillments'[x] = fulfillments[x]
    BY <1>1, <2>1
  <2>5. PaymentsOf(p)' = T \cup {req[r].ful}
    BY <2>1, <2>2, <2>3, <2>4, NullFacts DEF PaymentsOf, Booked
  <2>6. \A x \in T : fulfillments'[x] = fulfillments[x]
    BY <2>4 DEF PaymentsOf
  <2> QED BY <1>5, <1>7, <1>9, <2>3, <2>5, <2>6
<1>10. CASE ~Inserts(r) /\ req[r].op # "correctValue"
  <2>1. fulfillments' = fulfillments
    BY <1>10, CommitFacts, Zenon
  <2>2. PaymentsOf(p)' = PaymentsOf(p)
    BY <2>1 DEF PaymentsOf, Booked
  <2> QED BY <1>5, <1>10, <2>1, <2>2, SumStays
<1> QED BY <1>8, <1>9, <1>10

\* A commit takes what the others on its pledge know from them; the rest know
\* of other pledges, which it leaves alone.
LEMMA AmountsCommit ==
  ASSUME IInv, AmountsInv, NEW r \in Requests, Commit(r)
  PROVE  AmountsInv'
<1>1. FinitelyBooked'
  BY CommitBooksFinitely DEF AmountsInv
<1> SUFFICES ASSUME NEW s \in Requests
             PROVE  AmountsLegal(req[s])'
  BY <1>1 DEF AmountsInv
<1>2. req[s] \in RequestState /\ AmountsLegal(req[s]) /\ Legal(s, req[s])
  BY DEF IInv, TypeOK, AmountsInv
<1>3. req' = [t \in Requests |->
         CASE t = r -> Answered(r, "ok", req[r].ful)
           [] t # r /\ req[t].pledge = req[r].pledge -> [req[t] EXCEPT !.solo = FALSE]
           [] OTHER -> req[t]]
  BY DEF Commit
<1>4. CASE s = r
  <2>1. req'[s].pc = "ok" /\ req'[s].op = None
    BY <1>4, CommitRequests, Zenon
  <2>2. req'[s].op \notin CreateOps /\ req'[s].pc \notin Deciding
    BY <2>1, NullFacts DEF Ops, Deciding
  <2>3. BookingLegal(req[s])' /\ CreateLegal(req[s])' /\ StatusLegal(req[s])'
    BY <2>1, <2>2 DEF BookingLegal, CreateLegal, StatusLegal, CreateOps
  <2>4. BoundLegal(req[s])' /\ DuplicateLegal(req[s])'
    BY <2>2 DEF BoundLegal, DuplicateLegal
  <2> QED BY <2>3, <2>4 DEF AmountsLegal
<1>5. CASE s # r /\ req[s].pledge = req[r].pledge
  <2> DEFINE q == [req[s] EXCEPT !.solo = FALSE]
  <2>1. req'[s] = q
    BY <1>3, <1>5, Zenon
  <2>2. /\ q.pc = req[s].pc /\ q.op = req[s].op /\ q.status = req[s].status /\ q.ful = req[s].ful
        /\ q.value = req[s].value /\ q.committed = req[s].committed /\ q.solo = FALSE
    BY <1>2 DEF RequestState
  <2> HIDE DEF q
  <2>3. req[s].op \notin CreateOps
    <3>1. req[s].op \in CreateOps => req[s].pledge = s /\ pledges[s] = None
      BY <1>2, NullFacts DEF Legal, PcLegal, RowsLegal, Ops
    <3>2. req[r].op \in CreateOps => req[r].pledge = r
      BY DEF IInv, Legal, RowsLegal
    <3>3. req[r].op \notin CreateOps => pledges[req[r].pledge] \in PledgeRow
      BY CommitFacts, Zenon
    <3> QED BY <1>5, <3>1, <3>2, <3>3, NullFacts
  <2>4. BookingLegal(req[s])' /\ CreateLegal(req[s])'
    BY <1>2, <2>1, <2>2, <2>3 DEF AmountsLegal, BookingLegal, CreateLegal
  <2>5. BoundLegal(req[s])' /\ StatusLegal(req[s])' /\ DuplicateLegal(req[s])'
    BY <2>1, <2>2, <2>3 DEF BoundLegal, StatusLegal, DuplicateLegal, Alone
  <2> QED BY <2>4, <2>5 DEF AmountsLegal
<1>6. CASE s # r /\ req[s].pledge # req[r].pledge
  <2>1. req'[s] = req[s]
    BY <1>3, <1>6, Zenon
  <2>2. BookingLegal(req[s])' /\ CreateLegal(req[s])'
    BY <1>2, <2>1 DEF AmountsLegal, BookingLegal, CreateLegal
  <2>3. PaidBeside(req[s])' = PaidBeside(req[s])
    BY <1>6, <2>1, CommitElsewhere DEF PaidBeside
  <2>4. ASSUME req[s].op \in ReadsPledge \cup {"correctValue"}, req[s].pc \in Deciding
        PROVE  pledges'[req[s].pledge] = pledges[req[s].pledge]
    <3>1. req[s].pledge \in PledgeIds
      BY <1>2, <2>4 DEF Legal, RowsLegal, IInv, TypeOK, Booked, FulfillmentRow, Deciding
    <3>2. \A p \in PledgeIds : p # req[r].pledge => pledges'[p] = pledges[p]
      BY CommitFacts, Zenon
    <3> QED BY <1>6, <3>1, <3>2
  <2>5. BoundLegal(req[s])'
    BY <1>2, <2>1, <2>3, <2>4 DEF AmountsLegal, BoundLegal
  <2>6. StatusLegal(req[s])'
    BY <1>2, <2>1, <2>3 DEF AmountsLegal, StatusLegal, Alone
  <2>7. DuplicateLegal(req[s])'
    <3>1. /\ PaymentsOf(req[s].pledge)' = PaymentsOf(req[s].pledge)
          /\ PaymentsOf(req[s].pledge)' \cap recent' = PaymentsOf(req[s].pledge) \cap recent
          /\ \A f \in PaymentsOf(req[s].pledge) : fulfillments'[f] = fulfillments[f]
      <4>1. \A p : p # req[r].pledge =>
              /\ PaymentsOf(p)' = PaymentsOf(p)
              /\ PaymentsOf(p)' \cap recent' = PaymentsOf(p) \cap recent
              /\ \A f \in PaymentsOf(p) : fulfillments'[f] = fulfillments[f]
        BY CommitElsewhere
      <4> QED BY <1>6, <2>1, <4>1
    <3> QED BY <1>2, <2>1, <3>1 DEF AmountsLegal, DuplicateLegal
  <2> QED BY <2>2, <2>5, <2>6, <2>7 DEF AmountsLegal
<1> QED BY <1>4, <1>5, <1>6

\* AmountsInv holds in every reachable state.
THEOREM AmountsInvariance == Spec => []AmountsInv
<1>1. Init => AmountsInv
  <2> SUFFICES ASSUME Init PROVE AmountsInv
    OBVIOUS
  <2>1. {f \in Requests : Booked(f)} = {}
    BY DEF Init, Booked
  <2>2. FinitelyBooked
    BY <2>1, FS_EmptySet DEF FinitelyBooked
  <2>3. ASSUME NEW r \in Requests PROVE AmountsLegal(req[r])
    <3>1. req[r].pc = "idle" /\ req[r].op = None
      BY DEF Init, Idle
    <3> QED BY <3>1, NullFacts, AmountsOutside DEF Deciding, Ops
  <2> QED BY <2>2, <2>3 DEF AmountsInv
<1>2. IInv /\ AmountsInv /\ [Next]_vars => AmountsInv'
  <2> SUFFICES ASSUME IInv, AmountsInv, [Next]_vars PROVE AmountsInv'
    OBVIOUS
  <2>1. ASSUME NEW r \in Requests, Fail(r) PROVE AmountsInv'
    BY <2>1, AmountsEnd DEF Fail, Outcomes
  <2>2. ASSUME NEW r \in Requests, Statement(r) PROVE AmountsInv'
    BY <2>2, AmountsReads, AmountsWrites, AmountsCommit DEF Statement
  <2>3. CASE WindowElapses
    <3>1. UNCHANGED <<pledges, fulfillments, req>>
      BY <2>3 DEF WindowElapses
    <3>2. \A p : PaymentsOf(p)' = PaymentsOf(p)
      BY <3>1 DEF PaymentsOf, Booked
    <3>3. FinitelyBooked'
      BY <3>1 DEF AmountsInv, FinitelyBooked, Booked
    <3>4. ASSUME NEW r \in Requests PROVE AmountsLegal(req[r])'
      <4>1. req[r].pc \notin InTx /\ AmountsLegal(req[r]) /\ PcLegal(req[r]) /\ req[r] \in RequestState
        BY <2>3 DEF WindowElapses, AmountsInv, IInv, TypeOK, Legal
      <4>2. req[r].op = None /\ req'[r] = req[r] /\ req[r].pc \notin Deciding
        BY <3>1, <4>1 DEF PcLegal, InTx, Deciding
      <4>3. req[r].op \notin CreateOps
        BY <4>2, NullFacts DEF Ops
      <4>4. BookingLegal(req[r])' /\ CreateLegal(req[r])' /\ StatusLegal(req[r])'
        BY <4>2, <4>3 DEF BookingLegal, CreateLegal, StatusLegal, CreateOps, Deciding
      <4>5. BoundLegal(req[r])' /\ DuplicateLegal(req[r])'
        BY <4>2 DEF BoundLegal, DuplicateLegal
      <4> QED BY <4>4, <4>5 DEF AmountsLegal
    <3> QED BY <3>3, <3>4 DEF AmountsInv
  <2>4. CASE UNCHANGED vars
    <3>1. UNCHANGED <<pledges, fulfillments, recent, req>>
      BY <2>4 DEF vars
    <3>2. \A p : PaymentsOf(p)' = PaymentsOf(p)
      BY <3>1 DEF PaymentsOf, Booked
    <3>3. \A p, X : SumFulfillments(p, X)' = SumFulfillments(p, X)
      BY <3>1, <3>2, SumStays
    <3>4. FinitelyBooked'
      BY <3>1 DEF AmountsInv, FinitelyBooked, Booked
    <3>5. ASSUME NEW r \in Requests PROVE AmountsLegal(req[r])'
      <4>1. AmountsLegal(req[r]) /\ req'[r] = req[r]
        BY <3>1 DEF AmountsInv
      <4>2. PaidBeside(req[r])' = PaidBeside(req[r])
        BY <3>3, <4>1 DEF PaidBeside
      <4>3. BookingLegal(req[r])' /\ CreateLegal(req[r])'
        BY <4>1 DEF AmountsLegal, BookingLegal, CreateLegal
      <4>4. BoundLegal(req[r])' /\ StatusLegal(req[r])'
        BY <3>1, <4>1, <4>2 DEF AmountsLegal, BoundLegal, StatusLegal, Alone
      <4>5. DuplicateLegal(req[r])'
        BY <3>1, <3>2, <4>1 DEF AmountsLegal, DuplicateLegal
      <4> QED BY <4>3, <4>4, <4>5 DEF AmountsLegal
    <3> QED BY <3>4, <3>5 DEF AmountsInv
  <2> QED BY <2>1, <2>2, <2>3, <2>4, AmountsCall DEF Next
<1> QED BY <1>1, <1>2, Invariance, PTL DEF Spec

\* Nobody has paid into a pledge before it is created.
LEMMA NewPledgeIsUnpaid ==
  ASSUME IInv, NEW r \in Requests, Commit(r), req[r].op \in CreateOps
  PROVE  PaidBeside(req[r]) = 0 /\ SumFulfillments(req[r].pledge, {}) = 0
<1>1. req[r].pledge = r /\ pledges[r] = None
  BY CommitFacts, Zenon DEF IInv, Legal, RowsLegal
<1>2. PaymentsOf(r) = {}
  BY <1>1 DEF IInv, ForeignKey, PaymentsOf
<1>3. \A X : PaymentsOf(r) \ X = {}
  BY <1>2
<1>4. ASSUME NEW X PROVE SumFulfillments(r, X) = 0
  <2>1. SumFulfillments(r, X) = SumOf(Paid(fulfillments, PaymentsOf(r) \ X), PaymentsOf(r) \ X)
    BY SumForms
  <2> QED BY <1>3, <2>1, SumEmpty
<1> QED BY <1>1, <1>4 DEF PaidBeside

\* What the books say of a pledge once a request that was alone on it commits.
LEMMA CommitAloneAmounts ==
  ASSUME IInv, SoloInv, AmountsInv, NEW r \in Requests, Commit(r), Alone(req[r]), NEW p,
         p = req[r].pledge
  PROVE  /\ pledges'[p].status \in
              {"CANCELLED", deriveStatus(pledges'[p].committed, SumFulfillments(p, {})', FALSE)}
         /\ req[r].op \in BookingOps \cup {"correctValue"} =>
              SumFulfillments(p, {})' <= pledges'[p].committed
<1> DEFINE q == req[r]
<1>1. /\ q \in RequestState /\ AmountsLegal(q) /\ Legal(r, q) /\ q.pc = "commit"
      /\ q.op \in Ops \ {"setStatus"}
  BY CommitFacts, Zenon DEF IInv, TypeOK, AmountsInv, Commit
<1>2. pledges'[p].status = q.status
  <2>1. pledges \in [PledgeIds -> PledgeRow \cup {None}] /\ p \in PledgeIds
    BY CommitFacts, Zenon DEF IInv, TypeOK
  <2>2. CASE q.op \in CreateOps
    <3>1. pledges' = [pledges EXCEPT ![p] = [committed |-> q.committed, status |-> q.status]]
      <4>1. q.op # "correctCommittedValue"
        BY <2>2 DEF CreateOps
      <4> QED BY <2>2, <4>1, Zenon DEF Commit, PledgesAfter
    <3> QED BY <2>1, <3>1
  <2>3. CASE q.op = "correctCommittedValue"
    <3>1. pledges' = [pledges EXCEPT ![p] = [committed |-> q.value, status |-> q.status]]
      <4>1. q.op \notin CreateOps
        BY <2>3 DEF CreateOps
      <4> QED BY <2>3, <4>1, Zenon DEF Commit, PledgesAfter
    <3> QED BY <2>1, <3>1
  <2>4. CASE q.op \notin CreateOps \cup {"correctCommittedValue"}
    <3>1. pledges' = [pledges EXCEPT ![p] = [pledges[p] EXCEPT !.status = q.status]]
      BY <2>1, <2>4, Zenon DEF Commit, PledgesAfter
    <3>2. pledges[p] \in PledgeRow
      BY <2>4, CommitFacts, Zenon
    <3> QED BY <2>1, <3>1, <3>2 DEF PledgeRow
  <2> QED BY <2>2, <2>3, <2>4
<1>3. pledges'[p].committed =
        IF q.op \in CreateOps THEN q.committed
        ELSE IF q.op = "correctCommittedValue" THEN q.value ELSE pledges[p].committed
  BY CommitFacts, Zenon
<1>4. /\ SumFulfillments(p, {})' =
           IF Inserts(r) \/ q.op = "correctValue" THEN PaidBeside(q) + q.value
           ELSE SumFulfillments(p, {})
      /\ PaidBeside(q) \in Int
  BY CommitSum, Zenon DEF AmountsInv
<1>5. ASSUME NEW c, NEW t, NEW x
      PROVE  deriveStatus(c, t, x) \in {"CANCELLED", deriveStatus(c, t, FALSE)}
  <2>1. CASE x
    BY <2>1, DerivedCancelled
  <2>2. CASE ~x
    BY <2>2 DEF deriveStatus
  <2> QED BY <2>1, <2>2
<1>6. Inserts(r) <=> q.op \in BookingOps /\ q.ful # None
  BY <1>1, NullFacts DEF Inserts, Legal, RowsLegal
<1>7. q.value \in Nat /\ q.committed \in Nat
  BY <1>1 DEF RequestState
\* A payment or a correction on a pledge that was there.
<1>8. CASE q.op \in {"recordFulfillment", "correctValue"}
  <2>1. q.solo /\ q.op \notin CreateOps \cup {"correctCommittedValue"}
    BY <1>8 DEF Alone, CreateOps
  <2>2. q.ful # None /\ (Inserts(r) \/ q.op = "correctValue")
    BY <1>1, <1>6, <1>8, NullFacts DEF AmountsLegal, BookingLegal, Legal, RowsLegal, BookingOps
  <2>3. /\ q.committed = pledges[p].committed
        /\ PaidBeside(q) + q.value <= q.committed
    BY <1>1, <1>8, <2>1 DEF AmountsLegal, BoundLegal, Deciding, ReadsPledge
  <2>4. q.status = deriveStatus(q.committed, PaidBeside(q) + q.value, q.cancelled)
    BY <1>1, <1>8, <2>2 DEF AmountsLegal, StatusLegal, BookingOps
  <2> HIDE DEF q
  <2>5. pledges'[p].committed = q.committed /\ SumFulfillments(p, {})' = PaidBeside(q) + q.value
    BY <1>3, <1>4, <2>1, <2>2, <2>3
  <2> QED BY <1>2, <1>5, <2>3, <2>4, <2>5
\* A pledge created with or without a payment.
<1>9. CASE q.op \in CreateOps
  <2>1. PaidBeside(q) = 0 /\ SumFulfillments(p, {}) = 0
    BY <1>9, NewPledgeIsUnpaid
  <2>2. CASE Inserts(r)
    <3>1. q.status = deriveStatus(q.committed, PaidBeside(q) + q.value, q.cancelled)
      BY <1>1, <1>6, <2>2 DEF AmountsLegal, StatusLegal
    <3>2. q.value <= q.committed
      BY <1>1, <1>6, <1>9, <2>2 DEF AmountsLegal, CreateLegal, BookingOps
    <3> HIDE DEF q
    <3>3. pledges'[p].committed = q.committed /\ SumFulfillments(p, {})' = PaidBeside(q) + q.value
      BY <1>3, <1>4, <1>9, <2>2
    <3>4. PaidBeside(q) + q.value <= q.committed
      BY <1>7, <2>1, <3>2
    <3> QED BY <1>2, <1>5, <3>1, <3>3, <3>4
  <2>3. CASE ~Inserts(r)
    <3>1. q.status = "PLEDGED" /\ q.op # "correctValue"
      BY <1>1, <1>6, <1>9, <2>3
         DEF AmountsLegal, CreateLegal, BookingLegal, BookingOps, CreateOps, Legal, RowsLegal, Ops
    <3> HIDE DEF q
    <3>2. pledges'[p].committed = q.committed /\ SumFulfillments(p, {})' = 0
      BY <1>3, <1>4, <1>9, <2>1, <2>3, <3>1
    <3>3. deriveStatus(q.committed, 0, FALSE) = "PLEDGED"
      <4>1. 0 <= 0 /\ ~(0 > 0)
        OBVIOUS
      <4> QED BY <4>1, Zenon DEF deriveStatus
    <3>4. 0 <= q.committed
      BY <1>7
    <3> QED BY <1>2, <3>1, <3>2, <3>3, <3>4
  <2> QED BY <2>2, <2>3
<1>10. CASE q.op = "correctCommittedValue"
  <2>1. q.status = deriveStatus(q.value, PaidBeside(q), q.cancelled)
    BY <1>1, <1>10 DEF AmountsLegal, StatusLegal
  <2>2. PaidBeside(q) = SumFulfillments(p, {})
    <3>1. q.ful = None
      BY <1>1, <1>10 DEF Legal, RowsLegal, Ops, BookingOps
    <3>2. None \notin PaymentsOf(p)
      BY NullFacts DEF PaymentsOf
    <3> QED BY <3>1, <3>2, SumWithout DEF PaidBeside
  <2>3. ~Inserts(r) /\ q.op \notin CreateOps \cup BookingOps \cup {"correctValue"}
    BY <1>10 DEF Inserts, BookingOps, CreateOps
  <2> HIDE DEF q
  <2>4. pledges'[p].committed = q.value /\ SumFulfillments(p, {})' = PaidBeside(q)
    BY <1>3, <1>4, <1>10, <2>2, <2>3
  <2>5. pledges'[p].status \in
          {"CANCELLED", deriveStatus(pledges'[p].committed, SumFulfillments(p, {})', FALSE)}
    BY <1>2, <1>5, <2>1, <2>4
  <2>6. req[r].op \notin BookingOps \cup {"correctValue"}
    BY <2>3 DEF q
  <2> QED BY <2>5, <2>6
<1>11. CASE q.op = "cancelPledge"
  <2>1. q.status = "CANCELLED"
    BY <1>1, <1>11 DEF SoloInv, SoloLegal
  <2> QED BY <1>2, <1>11, <2>1 DEF BookingOps
<1> QED BY <1>1, <1>8, <1>9, <1>10, <1>11 DEF Ops, BookingOps, CreateOps

\* A request that is alone on its pledge when it commits takes a Commit step.
LEMMA CommitsAloneCommits ==
  ASSUME IInv, [Next]_vars, NEW r \in Requests, NEW p \in PledgeIds, CommitsAlone(r, p)
  PROVE  Commit(r) /\ Alone(req[r]) /\ p = req[r].pledge
BY OnlyCommitCommits DEF CommitsAlone, Commits, Alone

\* "Status is always derived from the numbers": a write that no other write of
\* the pledge overlaps leaves the status the amounts give, or CANCELLED.
THEOREM StatusHeals == Spec => StatusHealsAfterSoloWrite
<1>1. ASSUME IInv, SoloInv, AmountsInv, [Next]_vars
      PROVE  [\A r \in Requests, p \in PledgeIds :
                CommitsAlone(r, p) => StatusIsDerived(p)']_vars
  <2> SUFFICES ASSUME NEW r \in Requests, NEW p \in PledgeIds, CommitsAlone(r, p)
               PROVE  StatusIsDerived(p)'
    OBVIOUS
  <2>1. Commit(r) /\ Alone(req[r]) /\ p = req[r].pledge
    BY <1>1, CommitsAloneCommits
  <2>2. pledges'[p].status \in
          {"CANCELLED", deriveStatus(pledges'[p].committed, SumFulfillments(p, {})', FALSE)}
    BY <1>1, <2>1, CommitAloneAmounts
  <2> QED BY <2>2 DEF StatusIsDerived, deriveStatus
<1> QED BY <1>1, Invariance, SoloInvariance, AmountsInvariance, PTL
        DEF Spec, StatusHealsAfterSoloWrite

\* "A pledge can never be fulfilled beyond what was committed", as far as the
\* bound check reaches: a payment or correction that no other write of the
\* pledge overlaps keeps it within its committed value.
THEOREM PaymentsStayWithin == Spec => SoloPaymentStaysWithinCommitted
<1>1. ASSUME IInv, SoloInv, AmountsInv, [Next]_vars
      PROVE  [\A r \in Requests, p \in PledgeIds :
                CommitsAlone(r, p) /\ req[r].op \in BookingOps \cup {"correctValue"}
                  => WithinCommitted(p)']_vars
  <2> SUFFICES ASSUME NEW r \in Requests, NEW p \in PledgeIds, CommitsAlone(r, p),
                      req[r].op \in BookingOps \cup {"correctValue"}
               PROVE  WithinCommitted(p)'
    OBVIOUS
  <2>1. Commit(r) /\ Alone(req[r]) /\ p = req[r].pledge
    BY <1>1, CommitsAloneCommits
  <2>2. SumFulfillments(p, {})' <= pledges'[p].committed
    BY <1>1, <2>1, CommitAloneAmounts
  <2> QED BY <2>2 DEF WithinCommitted
<1> QED BY <1>1, Invariance, SoloInvariance, AmountsInvariance, PTL
        DEF Spec, SoloPaymentStaysWithinCommitted

\* "An identical payment moments later stops and asks": an unconfirmed payment
\* that no other write of the pledge overlaps never joins one of the same value
\* from the last ten minutes.
THEOREM NoSilentDuplicate == Spec => SoloPaymentIsNoSilentDuplicate
<1>1. ASSUME IInv, AmountsInv, [Next]_vars
      PROVE  [\A r \in Requests, p \in PledgeIds :
                CommitsAlone(r, p) /\ req[r].op = "recordFulfillment" /\ ~req[r].confirm
                  => ~LooksDuplicate(r)]_vars
  <2> SUFFICES ASSUME NEW r \in Requests, NEW p \in PledgeIds, CommitsAlone(r, p),
                      req[r].op = "recordFulfillment", ~req[r].confirm
               PROVE  ~LooksDuplicate(r)
    OBVIOUS
  <2>1. req[r].pc = "commit" /\ req[r].solo
    BY DEF CommitsAlone, Commits, CreateOps
  <2>2. DuplicateLegal(req[r])
    BY <1>1 DEF AmountsInv, AmountsLegal
  <2> QED BY <2>1, <2>2 DEF DuplicateLegal, LooksDuplicate, Deciding
<1> QED BY <1>1, Invariance, AmountsInvariance, PTL DEF Spec, SoloPaymentIsNoSilentDuplicate
=============================================================================
