------------------------------ MODULE Assistant -----------------------------
(***************************************************************************)
(* A turn of the assistant and the credit it costs: ConversationOrchestra- *)
(* tor, ConversationSession, AssistantService and the AI credit ledger.    *)
(*                                                                         *)
(* A turn is a process.  The language model is external: at each step it   *)
(* answers, asks for some tools, or fails.  Every statement of the         *)
(* database and every call of the model may fail; the turn may die with    *)
(* its process.  A turn of the event-scoped endpoint has its event fixed;  *)
(* a turn of a conversation works with the conversation's event as it was  *)
(* when the turn began, and may change it.                                 *)
(***************************************************************************)
EXTENDS AgentTools, Integers, FiniteSetsExt

CONSTANTS
  Turns,         \* turns, and the keys of their reservations
  Me,            \* the account of the user who is talking
  Owner,         \* event -> the account of its owner
  Mine,          \* events the user is a member of at the start
  AccountGrant,  \* account -> AI credits granted to it
  EventGrant,    \* event -> AI credits granted to it
  MAX_STEPS,     \* steps of the loop
  Offered,       \* bound: tools the model asks for
  MaxToolCalls,  \* bound: tools the model asks for in one step
  MaxFaults,     \* bound: failures
  Null

Events == DOMAIN Owner

ASSUME AssistantAssumption ==
  /\ MAX_STEPS \in Nat \ {0} /\ MaxToolCalls \in Nat \ {0} /\ MaxFaults \in Nat
  /\ Offered \subseteq SESSION_TOOL_SPECS
  /\ Mine \subseteq Events /\ Null \notin Events \union {Me}
  /\ AccountGrant \in [{Owner[e] : e \in Events} \union {Me} -> Nat]
  /\ EventGrant \in [Events -> Nat]

VARIABLES
  conversation,  \* the row of the conversation: its active event
  messages,      \* history: roles of the messages of each turn
  mine,          \* events the user is a member of
  ledger,        \* ai_credit_ledger rows written by turns
  turns,         \* where each turn is
  faults,        \* failures so far
  excused,       \* history: turns that lost their process, a refund or an answer
  raced          \* history: turns whose balance was spent between check and write

vars == <<conversation, messages, mine, ledger, turns, faults, excused, raced>>

Accounts == DOMAIN AccountGrant

\* A scope is an event or an account, never both.
NoScope == [event |-> Null, account |-> Null]

NoTurn ==
  [pc |-> "idle", fixed |-> FALSE, active |-> Null, scope |-> NoScope, step |-> 0, asked |-> 0,
   complete |-> FALSE, outcome |-> Null]

Init ==
  /\ conversation = Null
  /\ messages = [t \in Turns |-> {}]
  /\ mine = Mine
  /\ ledger = {}
  /\ turns = [t \in Turns |-> NoTurn]
  /\ faults = 0
  /\ excused = {}
  /\ raced = {}

goto(t, pc) == turns' = [turns EXCEPT ![t].pc = pc]

\* A turn is over, with an outcome; what it knew is forgotten.
end(t, outcome) ==
  turns' = [turns EXCEPT ![t] = [NoTurn EXCEPT !.pc = "ended", !.outcome = outcome]]

credit == <<ledger, raced>>
talk == <<conversation, messages, mine>>

-----------------------------------------------------------------------------
(* The ledger.                                                             *)

\* The account resolve() pools with the scope: the owner's, for an event.
accountOf(scope) == IF scope.event # Null THEN Owner[scope.event] ELSE scope.account

\* aiBalance: grants and rows of the event, and of the account, counted once.
aiBalance(scope) ==
  LET account == accountOf(scope) IN
    AccountGrant[account]
    + (IF scope.event # Null THEN EventGrant[scope.event] ELSE 0)
    + MapThenSumSet(LAMBDA r : r.amount,
        {r \in ledger : r.account = account \/ (scope.event # Null /\ r.event = scope.event)})

\* appendAi: a row carries the event and the account of its owner; a second row
\* with the same key is swallowed.
appendAi(t, scope, kind, amount) ==
  ledger \union {[turn |-> t, kind |-> kind, event |-> scope.event,
                  account |-> accountOf(scope), amount |-> amount]}

-----------------------------------------------------------------------------
(* From the message to the reservation.                                    *)

\* chat: the event is fixed by the route.
chat(t) ==
  /\ turns[t].pc = "idle"
  /\ \E e \in mine :
       turns' = [turns EXCEPT ![t] = [NoTurn EXCEPT !.pc = "scope", !.fixed = TRUE, !.active = e]]
  /\ UNCHANGED <<talk, credit, faults, excused>>

\* converse, getOrCreate and history: the session keeps the event of the row.
converse(t) ==
  /\ turns[t].pc = "idle"
  /\ turns' = [turns EXCEPT ![t] = [NoTurn EXCEPT !.pc = "said", !.active = conversation]]
  /\ UNCHANGED <<talk, credit, faults, excused>>

\* converse, the user's message is stored before anything is asked.
appendMessage(t) ==
  /\ turns[t].pc = "said"
  /\ messages' = [messages EXCEPT ![t] = @ \union {"user"}]
  /\ goto(t, "scope")
  /\ UNCHANGED <<conversation, mine, credit, faults, excused>>

\* resolveCreditScope: the active event, else the account while it has credits,
\* else the writable event of the user's with the most, else the account.
\* (All events of this model are writable.)
resolveCreditScope(t) ==
  LET onEvent(e) == [event |-> e, account |-> Null]
      onMe == [event |-> Null, account |-> Me]
      usable == {e \in mine : aiBalance(onEvent(e)) > 0}
      richest(e) == \A f \in usable : aiBalance(onEvent(f)) <= aiBalance(onEvent(e))
  IN
  /\ turns[t].pc = "scope"
  /\ \E scope \in
         IF turns[t].active # Null THEN {onEvent(turns[t].active)}
         ELSE IF aiBalance(onMe) > 0 \/ turns[t].fixed \/ usable = {} THEN {onMe}
         ELSE {onEvent(e) : e \in {f \in usable : richest(f)}} :
       turns' = [turns EXCEPT ![t].pc = "check", ![t].scope = scope]
  /\ UNCHANGED <<talk, credit, faults, excused>>

\* Variant: it is the caller's own account that is looked at.
CheckCallersBalance(t) ==
  /\ turns[t].pc = "check"
  /\ IF aiBalance([event |-> Null, account |-> Me]) < 1 THEN end(t, "locked") ELSE goto(t, "reserve")
  /\ UNCHANGED <<talk, credit, faults, excused>>

\* reserveAiCredit, the balance.  Without credits the turn is refused.
CheckBalance(t) ==
  /\ turns[t].pc = "check"
  /\ IF aiBalance(turns[t].scope) < 1
     THEN end(t, "locked")
     ELSE goto(t, "reserve")
  /\ UNCHANGED <<talk, credit, faults, excused>>

\* reserveAiCredit, the row.
reserveAiCredit(t) ==
  /\ turns[t].pc = "reserve"
  /\ ledger' = appendAi(t, turns[t].scope, "RESERVE", -1)
  /\ raced' = raced \union {u \in Turns \ {t} : turns[u].pc = "reserve"}
  /\ goto(t, "model")
  /\ UNCHANGED <<talk, faults, excused>>

-----------------------------------------------------------------------------
(* The loop.                                                               *)

\* The model has answered without asking for a tool.
ModelAnswers(t) ==
  /\ turns[t].pc = "model"
  /\ goto(t, "commit")
  /\ UNCHANGED <<talk, credit, faults, excused>>

\* The model asks for tools.
ModelAsks(t) ==
  /\ turns[t].pc = "model"
  /\ \E n \in 1 .. MaxToolCalls :
       turns' = [turns EXCEPT ![t].pc = "tool", ![t].step = @ + 1, ![t].asked = n]
  /\ UNCHANGED <<talk, credit, faults, excused>>

\* Variant: the loop does not stop at MAX_STEPS.
WithoutLimit(turn) ==
  IF turn.asked > 1 THEN [turn EXCEPT !.asked = @ - 1]
  ELSE [turn EXCEPT !.asked = 0, !.pc = "model", !.step = 0]

\* After one tool: the next of the same step, the next step, or the end.
AfterTool(turn) ==
  IF turn.asked > 1 THEN [turn EXCEPT !.asked = @ - 1]
  ELSE [turn EXCEPT !.asked = 0, !.pc = IF turn.step = MAX_STEPS THEN "exhausted" ELSE "model"]

\* Where a tool that changes the session's event goes on: the row is written.
Point(turn, e) == [turn EXCEPT !.active = e, !.pc = "point"]

\* A tool of the event-scoped set, or one that was refused or had nothing to
\* do.  Once a report was complete, reports are redirected and not run.  What
\* a tool reads, stages or writes in the event does not touch the turn.
UseTool(t, tool) ==
  LET turn == turns[t]
      runs == turn.active # Null /\ ~(turn.complete /\ tool \in REPORT_TOOLS)
  IN
  /\ turn.pc = "tool"
  /\ tool \in IF turn.fixed THEN AGENT_TOOL_SPECS ELSE SESSION_TOOL_SPECS
  /\ \E complete \in IF dispatchSession(tool) = "report" /\ runs THEN BOOLEAN ELSE {turn.complete} :
       turns' = [turns EXCEPT ![t] = AfterTool([turn EXCEPT !.complete = complete])]
  /\ UNCHANGED <<talk, credit, faults, excused>>

\* create_event: an event of the user's own, which becomes the active one.
ToolCreatesEvent(t) ==
  /\ turns[t].pc = "tool" /\ ~turns[t].fixed /\ "create_event" \in Offered
  /\ \E e \in {f \in Events \ mine : Owner[f] = Me} :
       /\ mine' = mine \union {e}
       /\ turns' = [turns EXCEPT ![t] = Point(@, e)]
  /\ UNCHANGED <<conversation, messages, credit, faults, excused>>

\* switch_event: to an event the user is a member of.
ToolSwitchesEvent(t) ==
  /\ turns[t].pc = "tool" /\ ~turns[t].fixed /\ "switch_event" \in Offered
  /\ \E e \in mine : turns' = [turns EXCEPT ![t] = Point(@, e)]
  /\ UNCHANGED <<talk, credit, faults, excused>>

\* activeEventCtx: any failure to resolve the event reads as a stale pointer,
\* and the pointer is cleared.
PointerCleared(t) ==
  /\ turns[t].pc = "tool" /\ ~turns[t].fixed /\ turns[t].active # Null
  /\ \E tool \in Offered : NeedsEvent(tool)
  /\ faults < MaxFaults /\ faults' = faults + 1
  /\ turns' = [turns EXCEPT ![t] = Point(@, Null)]
  /\ UNCHANGED <<talk, credit, excused>>

\* setActiveEvent: the row follows the session.
setActiveEvent(t) ==
  /\ turns[t].pc = "point"
  /\ conversation' = turns[t].active
  /\ turns' = [turns EXCEPT ![t] = AfterTool([@ EXCEPT !.pc = "tool"])]
  /\ UNCHANGED <<messages, mine, credit, faults, excused>>

-----------------------------------------------------------------------------
(* How a turn ends.                                                        *)

\* commitAiCredit: on the scope of the reservation.
commitAiCredit(t) ==
  /\ turns[t].pc = "commit"
  /\ ledger' = appendAi(t, turns[t].scope, "COMMIT", 0)
  /\ turns' = [turns EXCEPT ![t].pc = "reply", ![t].outcome = "answered"]
  /\ UNCHANGED <<talk, raced, faults, excused>>

\* commitAiCredit whose answer is lost: the row is there, and the turn is
\* handled as one that failed.
CommitAnswerLost(t) ==
  /\ turns[t].pc = "commit"
  /\ faults < MaxFaults /\ faults' = faults + 1
  /\ ledger' = appendAi(t, turns[t].scope, "COMMIT", 0)
  /\ excused' = excused \union {t}
  /\ goto(t, "failing")
  /\ UNCHANGED <<talk, raced>>

\* A step of the loop fails: the model, the meter, the commit, the refund at
\* the end of the steps.  (What a tool throws is answered to the model.)
TurnFails(t) ==
  /\ turns[t].pc \in {"model", "commit", "exhausted"}
  /\ faults < MaxFaults /\ faults' = faults + 1
  /\ goto(t, "failing")
  /\ UNCHANGED <<talk, credit, excused>>

\* Variant: the refund goes to the event the turn is in now.
refundWhereItIs(t) ==
  /\ turns[t].pc \in {"failing", "exhausted"}
  /\ ledger' = appendAi(t, IF turns[t].active # Null THEN [event |-> turns[t].active, account |-> Null]
                           ELSE turns[t].scope, "REFUND", 1)
  /\ \E busy \in {TRUE} \union {turns[t].pc = "exhausted"} :
       IF busy THEN turns' = [turns EXCEPT ![t].pc = "reply", ![t].outcome = "unanswered"]
       ELSE end(t, "unanswered")
  /\ UNCHANGED <<talk, raced, faults, excused>>

\* refundAiCredit: on the scope of the reservation.  After MAX_STEPS and when
\* the model is busy the user gets a reply, else an error.
refundAiCredit(t) ==
  /\ turns[t].pc \in {"failing", "exhausted"}
  /\ ledger' = appendAi(t, turns[t].scope, "REFUND", 1)
  /\ \E busy \in {TRUE} \union {turns[t].pc = "exhausted"} :
       IF busy THEN turns' = [turns EXCEPT ![t].pc = "reply", ![t].outcome = "unanswered"]
       ELSE end(t, "unanswered")
  /\ UNCHANGED <<talk, raced, faults, excused>>

\* The refund of a failed turn fails too, and nobody hears of it.
RefundFails(t) ==
  /\ turns[t].pc = "failing"
  /\ faults < MaxFaults /\ faults' = faults + 1
  /\ excused' = excused \union {t}
  /\ end(t, "unanswered")
  /\ UNCHANGED <<talk, credit>>

\* The reply is stored in the conversation and sent.
Reply(t) ==
  /\ turns[t].pc = "reply"
  /\ messages' = [messages EXCEPT ![t] = IF turns[t].fixed THEN @ ELSE @ \union {"assistant"}]
  /\ end(t, turns[t].outcome)
  /\ UNCHANGED <<conversation, mine, credit, faults, excused>>

\* The process dies, or a statement outside the loop fails.
TurnDies(t) ==
  /\ turns[t].pc \notin {"idle", "ended"}
  /\ faults < MaxFaults /\ faults' = faults + 1
  /\ excused' = excused \union {t}
  /\ end(t, turns[t].outcome)
  /\ UNCHANGED <<talk, credit>>

-----------------------------------------------------------------------------
\* What the code does with a turn once it has begun.
TurnStep(t) ==
  \/ appendMessage(t) \/ resolveCreditScope(t) \/ CheckBalance(t) \/ reserveAiCredit(t)
  \/ ModelAnswers(t) \/ ModelAsks(t)
  \/ \E tool \in Offered : UseTool(t, tool)
  \/ ToolCreatesEvent(t) \/ ToolSwitchesEvent(t) \/ setActiveEvent(t)
  \/ commitAiCredit(t) \/ refundAiCredit(t) \/ Reply(t)

TurnFault(t) ==
  PointerCleared(t) \/ CommitAnswerLost(t) \/ TurnFails(t) \/ RefundFails(t) \/ TurnDies(t)

Next == \E t \in Turns : chat(t) \/ converse(t) \/ TurnStep(t) \/ TurnFault(t)

\* The model and the database answer or fail, and so a turn that has begun
\* takes its next step.
Spec == Init /\ [][Next]_vars /\ \A t \in Turns : WF_vars(TurnStep(t))

-----------------------------------------------------------------------------
(* Properties.                                                             *)

RowsOf(t) == {r \in ledger : r.turn = t}

\* A turn costs one credit if it was answered and none if it was not, whatever
\* it did in between; its rows lie on one scope, even when it has moved to
\* another event.  Excused are turns that lost their process or their refund,
\* and turns that committed without hearing of it; none costs more than one.
TurnsCostWhatTheyGive ==
  \A t \in Turns :
    LET cost == -MapThenSumSet(LAMBDA r : r.amount, RowsOf(t)) IN
    /\ cost \in {0, 1}
    /\ \A q, r \in RowsOf(t) : q.event = r.event /\ q.account = r.account
    /\ turns[t].pc = "ended" /\ t \notin excused =>
         (cost = 1 <=> turns[t].outcome = "answered")

\* A reservation is covered by the balance of its scope at the moment it is
\* written, unless another turn reserved between the check and the write.
ReservationsAreCovered ==
  [][\A t \in Turns :
       turns[t].pc = "reserve" /\ turns'[t].pc = "model" /\ t \notin raced =>
         aiBalance(turns[t].scope) >= 1]_vars

\* A turn comes to an end, however often the model asks for tools.
EveryTurnEnds ==
  \A t \in Turns : turns[t].pc # "idle" ~> turns[t].pc = "ended"

=============================================================================
