--------------------------- MODULE BookingJournal ---------------------------
(***************************************************************************)
(* What the money ledger promises whoever reads it: a journal in which     *)
(* each payment is booked once, by one atomic step that also writes its    *)
(* trail and the notice to the contributor; an idempotency key marks at    *)
(* most one payment for ever; a payment's amount changes only together     *)
(* with a trail entry that says so; and nothing is ever taken back.        *)
(***************************************************************************)
CONSTANTS
  Payments,   \* ids a payment may have
  Amounts,
  Keys,       \* idempotency keys
  None        \* no payment, no key

VARIABLES
  book,       \* payment -> its amount and key, or None
  trail,      \* what has been written about payments, and by which call
  notices     \* payments whose contributor is due a confirmation

jvars == <<book, trail, notices>>

Entry(id, f, v) == [id |-> id, payment |-> f, value |-> v]

Init ==
  /\ book = [f \in Payments |-> None]
  /\ trail = {}
  /\ notices = {}

KeyIsFree(k) ==
  k = None \/ \A g \in Payments : book[g] # None => book[g].key # k

Book(f, v, k) ==
  /\ notices' = notices \cup {f}
  /\ book[f] = None
  /\ KeyIsFree(k)
  /\ book' = [book EXCEPT ![f] = [value |-> v, key |-> k]]
  /\ trail' = trail \cup {Entry(f, f, v)}

Correct(id, f, v) ==
  /\ f \in notices
  /\ book[f] # None
  /\ book' = [book EXCEPT ![f] = [value |-> v, key |-> book[f].key]]
  /\ trail' = trail \cup {Entry(id, f, v)}
  /\ UNCHANGED notices

Next ==
  \E f \in Payments, v \in Amounts :
    \/ \E k \in Keys \cup {None} : Book(f, v, k)
    \/ \E id \in Payments : Correct(id, f, v)

Spec == Init /\ [][Next]_jvars
=============================================================================
