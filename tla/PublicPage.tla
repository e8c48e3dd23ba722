----------------------------- MODULE PublicPage -----------------------------
(***************************************************************************)
(* The public page: what organizers allow (PublicSettingsService), what    *)
(* they put on it (announcements, payment instructions), and how a         *)
(* visitor's request builds the page (PublicViewService), one statement    *)
(* after another.  The settings are read once, before the transaction that *)
(* reads the figures; READ COMMITTED gives each of its statements a        *)
(* snapshot of its own.                                                    *)
(***************************************************************************)
EXTENDS Reports, Permissions, Workload

CONSTANT Target  \* the event's target amount, 0 for none

ASSUME TargetAssumption == Target \in Nat

VARIABLES
  books,          \* the event's rows
  settings,       \* the columns of the event that govern the page
  wish,           \* history: what was last asked of each of these columns
  reverted,       \* history: columns written back from a read that was out of date
  announcements,  \* announcement rows: their status
  instructions,   \* payment_instruction rows: public, private or removed
  view            \* the visitor's request, and what it has read

pageVars == <<settings, wish, reverted, announcements, instructions, view>>

ContributorVisibility == {"HIDDEN", "AGGREGATE_ONLY", "NAMES_ONLY", "NAMES_AND_AMOUNTS"}
BudgetVisibility == {"HIDDEN", "PARTIALLY_PUBLIC", "PUBLIC"}

\* A new event's columns; token 0 is none.
DefaultSettings ==
  [isPublic |-> TRUE, contributors |-> "NAMES_AND_AMOUNTS", budget |-> "PUBLIC",
   showTarget |-> TRUE, showOutstanding |-> TRUE, token |-> 0, revision |-> 1]

Nobody == [p \in {} |-> 0]

NoView ==
  [pc |-> "idle", settings |-> DefaultSettings, wish |-> DefaultSettings, pledged |-> 0,
   received |-> 0, people |-> Nobody, breakdown |-> Nobody, activity |-> {},
   budget |-> Nobody, announcements |-> {}, instructions |-> {}, reverted |-> {},
   disturbed |-> FALSE]

PageInit ==
  /\ settings = DefaultSettings /\ wish = DefaultSettings /\ reverted = {}
  /\ announcements = <<>> /\ instructions = <<>>
  /\ view = NoView

-----------------------------------------------------------------------------
(* What organizers do.                                                     *)

bumped(s) == [s EXCEPT !.revision = @ + 1]

\* updateSettings, its write: the columns asked for, and the others as they
\* were read.
updateSettings(before, asked) ==
  [f \in DOMAIN settings |->
     CASE f \in DOMAIN asked -> asked[f]
       [] f = "token" -> settings.token
       [] f = "revision" -> settings.revision + 1
       [] OTHER -> before[f]]

\* Variant: rotating the token also opens the page again.
setTokenAndOpen(token) == settings' = bumped([settings EXCEPT !.token = token, !.isPublic = TRUE])

\* setToken
setToken(token) == settings' = bumped([settings EXCEPT !.token = token])

\* rotateAccessToken and clearAccessToken
rotateAccessToken(role) ==
  \E token \in {0, settings.revision + 1} :
    /\ can(role, "public:configure") /\ take("token")
    /\ setToken(token)
    /\ wish' = [wish EXCEPT !.token = token]
    /\ UNCHANGED <<books, reverted, announcements, instructions, view>>

\* AnnouncementService: create is a draft, seen by nobody; transition asks
\* nothing of the current status.
announce(role) ==
  /\ can(role, "announcement:write") /\ take("announce")
  /\ \/ announcements' = Append(announcements, "DRAFT") /\ UNCHANGED settings
     \/ \E a \in DOMAIN announcements, status \in {"PUBLISHED", "ARCHIVED"} :
          /\ announcements' = [announcements EXCEPT ![a] = status]
          /\ settings' = bumped(settings)
  /\ UNCHANGED <<books, wish, reverted, instructions, view>>

\* PaymentInstructionService: create, update, remove.
instruct(role) ==
  /\ can(role, "payment_instruction:write") /\ take("instruct")
  /\ \/ \E kind \in {"public", "private"} : instructions' = Append(instructions, kind)
     \/ \E i \in {j \in DOMAIN instructions : instructions[j] # "removed"},
          kind \in {"public", "private", "removed"} :
            instructions' = [instructions EXCEPT ![i] = kind]
  /\ settings' = bumped(settings)
  /\ UNCHANGED <<books, wish, reverted, announcements, view>>

-----------------------------------------------------------------------------
(* A visitor's request.                                                    *)

Opens(s, token) == s.isPublic /\ s.token \in {0, token}

\* resolve: the event must be public, and a token it has must be presented.
\* Every refusal ends the request.
resolve(token) ==
  /\ view.pc = "idle" /\ take("visit")
  /\ IF Opens(settings, token)
     THEN view' = [NoView EXCEPT !.pc = "pledged", !.settings = settings, !.reverted = reverted,
                                 !.wish = [wish EXCEPT !.isPublic = Opens(wish, token)]]
     ELSE UNCHANGED view
  /\ UNCHANGED <<books, settings, wish, reverted, announcements, instructions>>

\* The statements of getPublicEventView, in their order.
reads(pc, next) ==
  /\ view.pc = pc /\ view' = next
  /\ UNCHANGED <<books, settings, wish, reverted, announcements, instructions, left>>

ReadPledged ==
  reads("pledged", [view EXCEPT !.pc = "received", !.pledged = Committed(books, Live(books))])
ReadReceived ==
  reads("received", [view EXCEPT !.pc = "people", !.received = Paid(books, DOMAIN books.payments)])
ReadPeople == reads("people", [view EXCEPT !.pc = "breakdown", !.people = rollup(books)])

\* buildContributors: those who committed something, if any are shown at all.
Listed(v) ==
  IF v.settings.contributors \in {"HIDDEN", "AGGREGATE_ONLY"} THEN {}
  ELSE {p \in DOMAIN v.people : v.people[p].committed > 0}

\* Variant: the breakdown shows cancelled pledges as well.
buildPledgeBreakdownOfAll(p) == PledgesOf(books, p)

\* buildPledgeBreakdown, of one of them.
buildPledgeBreakdown(p) == LivePledgesOf(books, p)

ReadBreakdown ==
  reads("breakdown",
        [view EXCEPT !.pc = "activity", !.breakdown =
           IF view.settings.contributors # "NAMES_AND_AMOUNTS" THEN Nobody
           ELSE [p \in Listed(view) |->
                   [committed |-> Committed(books, buildPledgeBreakdown(p)),
                    received  |-> Paid(books, UNION {PaymentsOn(books, l) : l \in buildPledgeBreakdown(p)})]]])

\* buildRecentActivity, short of its limit.
ReadActivity ==
  reads("activity",
        [view EXCEPT !.pc = "budget", !.activity =
           IF view.settings.contributors # "NAMES_AND_AMOUNTS" THEN {}
           ELSE {f \in DOMAIN books.payments : LivePledge(books, books.payments[f].pledge)}])

\* buildBudget
buildBudget(visibility) ==
  LET shown == {i \in Budget(books) :
                  \/ visibility = "PUBLIC"
                  \/ visibility = "PARTIALLY_PUBLIC" /\ books.items[i].public}
  IN [i \in shown |-> budgetBreakdown(books)[i]]
ReadBudget ==
  reads("budget", [view EXCEPT !.pc = "notices", !.budget = buildBudget(view.settings.budget)])

\* The announcements and the payment instructions that are out.
ReadNotices ==
  reads("notices",
        [view EXCEPT !.pc = "shown",
           !.announcements = {a \in DOMAIN announcements : announcements[a] = "PUBLISHED"},
           !.instructions = {i \in DOMAIN instructions : instructions[i] = "public"}])

\* The page is out; the visitor may come back.
Leave == reads("shown", NoView)

Visit ==
  \/ \E token \in 0..settings.revision : resolve(token)
  \/ ReadPledged \/ ReadReceived \/ ReadPeople \/ ReadBreakdown
  \/ ReadActivity \/ ReadBudget \/ ReadNotices \/ Leave

\* The figures of the page.
Page(v) ==
  [target |-> IF v.settings.showTarget THEN Target ELSE 0,
   percent |-> IF v.settings.showTarget THEN percentCovered(v.received, Target) ELSE -1,
   outstanding |-> IF v.settings.showOutstanding THEN outstanding(v.pledged, v.received) ELSE -1,
   count |-> IF v.settings.contributors = "HIDDEN" THEN -1
             ELSE Cardinality({p \in DOMAIN v.people : v.people[p].committed > 0})]

\* contributorStatus
contributorStatus(committed, received) ==
  IF received >= committed THEN "FULLY_PAID"
  ELSE IF received > 0 THEN "PARTIALLY_PAID" ELSE "PLEDGED"

=============================================================================
