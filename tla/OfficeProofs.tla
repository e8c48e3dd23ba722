---------------------------- MODULE OfficeProofs ----------------------------
(***************************************************************************)
(* The organizers of an event at their desks, the page a visitor sees, and *)
(* the assistant the organizers talk to; the two have no state in common.  *)
(*                                                                         *)
(* The desks: the page is what was last asked for, the figures agree with  *)
(* one another, and what a call checked before it wrote still holds after  *)
(* it, for any number of calls in progress and any books to start from.    *)
(*                                                                         *)
(* The assistant: a turn costs one credit if it was answered and none if   *)
(* it was not, and a reservation is covered unless another turn came in    *)
(* between, for any number of turns, events and accounts and any grants.   *)
(***************************************************************************)
EXTENDS EventOffice, Assistant, SumTheorems, SequenceTheorems

-----------------------------------------------------------------------------
(* The page's settings.                                                    *)

Columns == DOMAIN DefaultSettings

\* What the settings' columns, and what a call that updates them has read of
\* them, have to do with what was asked.
PageInv ==
  /\ DOMAIN settings = Columns /\ settings.isPublic \in BOOLEAN
  /\ DOMAIN wish = Columns
  /\ reverted \subseteq Columns \ {"token", "revision"}
  /\ DOMAIN clerk = Clerks
  /\ \A c \in Clerks : at(c, "settings") =>
       /\ clerk[c].asked \in Asks
       /\ DOMAIN clerk[c].before = Columns /\ clerk[c].before.isPublic \in BOOLEAN
  /\ DOMAIN view = DOMAIN NoView
  /\ PageIsAsAsked

\* The part of the page that a transaction on the books leaves alone.
PageStays ==
  /\ settings' = settings /\ wish' = wish /\ reverted' = reverted
  /\ DOMAIN view' = DOMAIN view /\ view'.pc = view.pc /\ view'.settings = view.settings
  /\ view'.wish = view.wish /\ view'.reverted = view.reverted

\* What was read of the settings stays what it was.
CallsStay ==
  /\ DOMAIN clerk' = DOMAIN clerk
  /\ \A c \in Clerks : clerk'[c] = clerk[c] \/ clerk'[c].pc # "settings"

\* Nothing is asked of the page, and no call reads its settings.
LEMMA PageKept ==
  ASSUME PageInv, PageStays, CallsStay
  PROVE  PageInv'
<1>1. PageIsAsAsked'
  BY DEF PageInv, PageIsAsAsked, PageStays
<1>2. /\ DOMAIN settings' = Columns /\ settings'.isPublic \in BOOLEAN
      /\ DOMAIN wish' = Columns /\ reverted' \subseteq Columns \ {"token", "revision"}
      /\ DOMAIN clerk' = Clerks /\ DOMAIN view' = DOMAIN NoView
  BY DEF PageInv, PageStays, CallsStay
<1>3. ASSUME NEW c \in Clerks, at(c, "settings")'
      PROVE  /\ clerk'[c].asked \in Asks
             /\ DOMAIN clerk'[c].before = Columns /\ clerk'[c].before.isPublic \in BOOLEAN
  <2>1. clerk'[c] = clerk[c] /\ at(c, "settings")
    BY <1>3 DEF CallsStay, at
  <2> QED BY <2>1 DEF PageInv
<1> QED BY <1>1, <1>2, <1>3 DEF PageInv, Columns

\* A call ends, or goes on to something that is no update of the settings.
LEMMA GoesOn ==
  ASSUME PageInv, NEW c \in Clerks, NEW call, call.pc # "settings", goes(c, call)
  PROVE  CallsStay
BY DEF PageInv, goes, CallsStay

\* A call ends.
LEMMA Ends ==
  ASSUME PageInv, NEW c \in Clerks, ends(c)
  PROVE  CallsStay
BY GoesOn DEF ends, NoCall

\* A transaction on the books leaves the page alone.
LEMMA CommitsStay ==
  ASSUME PageInv, NEW after, commits(after)
  PROVE  PageStays
BY DEF PageInv, commits, PageStays, NoView

\* The steps of the calls but for updateSettings, one by one.
LEMMA DesksKeepPage ==
  ASSUME PageInv, NEW c \in Clerks,
         \/ checkContributors(c) \/ checkPhone(c) \/ insertPerson(c)
         \/ readContact(c) \/ writeContact(c) \/ readMerge(c) \/ writeMerge(c)
         \/ readItem(c) \/ writeItem(c)
  PROVE  PageInv'
<1>1. ASSUME UNCHANGED pageVars PROVE PageStays
  BY <1>1 DEF pageVars, PageStays
<1>2. CASE checkContributors(c)
  <2>1. CallsStay
    BY <1>2, GoesOn DEF checkContributors
  <2> QED BY <1>1, <1>2, <2>1, PageKept DEF checkContributors
<1>3. CASE checkPhone(c)
  <2>1. CallsStay
    BY <1>3, GoesOn, Ends DEF checkPhone
  <2> QED BY <1>1, <1>3, <2>1, PageKept DEF checkPhone
<1>4. CASE insertPerson(c)
  BY <1>4, Ends, CommitsStay, PageKept DEF insertPerson
<1>5. CASE readContact(c)
  <2>1. CallsStay
    BY <1>5, GoesOn DEF readContact
  <2> QED BY <1>1, <1>5, <2>1, PageKept DEF readContact
<1>6. CASE writeContact(c)
  BY <1>1, <1>6, Ends, CommitsStay, PageKept DEF writeContact
<1>7. CASE readMerge(c)
  <2>1. CallsStay
    BY <1>7, GoesOn DEF readMerge
  <2> QED BY <1>1, <1>7, <2>1, PageKept DEF readMerge
<1>8. CASE writeMerge(c)
  BY <1>1, <1>8, Ends, CommitsStay, PageKept DEF writeMerge
<1>9. CASE readItem(c)
  <2>1. CallsStay
    BY <1>9, GoesOn DEF readItem
  <2> QED BY <1>1, <1>9, <2>1, PageKept DEF readItem
<1>10. CASE writeItem(c)
  BY <1>1, <1>10, Ends, CommitsStay, PageKept DEF writeItem
<1> QED BY <1>2, <1>3, <1>4, <1>5, <1>6, <1>7, <1>8, <1>9, <1>10

\* The columns by name.
LEMMA ColumnsNamed ==
  Columns = {"isPublic", "contributors", "budget", "showTarget", "showOutstanding", "token", "revision"}
BY DEF Columns, DefaultSettings

\* What an update leaves as it was read is either what it is now, or marked.
LEMMA SettingsWritten ==
  ASSUME PageInv, NEW c \in Clerks, writeSettings(c)
  PROVE  PageInv'
<1> DEFINE s == clerk[c]
           untouched == DOMAIN settings \ (DOMAIN s.asked \cup {"token", "revision"})
<1>1. /\ s.asked \in Asks /\ DOMAIN s.before = Columns /\ s.before.isPublic \in BOOLEAN
      /\ DOMAIN settings = Columns /\ DOMAIN wish = Columns
  BY DEF PageInv, writeSettings
<1>2. /\ settings' = updateSettings(s.before, s.asked)
      /\ wish' = [f \in DOMAIN wish |-> IF f \in DOMAIN s.asked THEN s.asked[f] ELSE wish[f]]
      /\ reverted' = (reverted \ DOMAIN s.asked) \cup {f \in untouched : s.before[f] # settings[f]}
      /\ view' = view /\ ends(c)
  BY DEF writeSettings
<1>3. PICK asked, before : asked = s.asked /\ before = s.before
  OBVIOUS
<1>4. DOMAIN asked \subseteq Asked /\ ("isPublic" \in DOMAIN asked => asked.isPublic \in BOOLEAN)
  BY <1>1, <1>3, OfficeAssumption
<1>5. "token" \notin DOMAIN asked /\ "revision" \notin DOMAIN asked
  BY <1>4 DEF Asked
<1>6. DOMAIN settings' = Columns /\ DOMAIN wish' = Columns
  BY <1>1, <1>2 DEF updateSettings
<1>7. reverted' \subseteq Columns \ {"token", "revision"}
  BY <1>1, <1>2 DEF PageInv
<1>8. ASSUME NEW f \in Columns, f # "revision"
      PROVE  /\ f \in DOMAIN asked => settings'[f] = asked[f] /\ wish'[f] = asked[f]
             /\ f \notin DOMAIN asked => /\ wish'[f] = wish[f]
                                         /\ f = "token" => settings'[f] = settings[f]
                                         /\ f # "token" => settings'[f] = before[f]
  <2>1. settings' = [g \in Columns |->
                       CASE g \in DOMAIN asked -> asked[g]
                         [] g = "token" -> settings.token
                         [] g = "revision" -> settings.revision + 1
                         [] OTHER -> before[g]]
    <3>1. settings' = updateSettings(before, asked)
      BY <1>2, <1>3
    <3>2. updateSettings(before, asked)
            = [g \in DOMAIN settings |->
                 CASE g \in DOMAIN asked -> asked[g]
                   [] g = "token" -> settings.token
                   [] g = "revision" -> settings.revision + 1
                   [] OTHER -> before[g]]
      BY Zenon DEF updateSettings
    <3>3. DOMAIN settings = Columns
      BY <1>1
    <3> QED BY <3>1, <3>2, <3>3, Zenon
  <2>2. f \in DOMAIN asked => settings'[f] = asked[f]
    BY <2>1, <1>5, <1>8
  <2>3. f \notin DOMAIN asked /\ f = "token" => settings'[f] = settings[f]
    BY <2>1, <1>5, <1>8
  <2>4. f \notin DOMAIN asked /\ f # "token" => settings'[f] = before[f]
    BY <2>1, <1>8
  <2>5. wish' = [g \in Columns |-> IF g \in DOMAIN asked THEN asked[g] ELSE wish[g]]
    BY <1>1, <1>2, <1>3
  <2> QED BY <2>2, <2>3, <2>4, <2>5, <1>8
<1>9. settings'.isPublic \in BOOLEAN
  BY <1>8, <1>4, <1>1, <1>3, ColumnsNamed
<1>10. \A f \in DOMAIN wish' \ ({"revision"} \cup reverted') : settings'[f] = wish'[f]
  <2> SUFFICES ASSUME NEW f \in Columns, f # "revision", f \notin reverted'
               PROVE  settings'[f] = wish'[f]
    BY <1>6
  <2>1. CASE f \in DOMAIN asked
    BY <1>8, <2>1
  <2>2. CASE f \notin DOMAIN asked /\ f = "token"
    <3>1. f \notin reverted
      BY <2>2 DEF PageInv
    <3> QED BY <1>1, <1>8, <2>2, <3>1 DEF PageInv, PageIsAsAsked
  <2>3. CASE f \notin DOMAIN asked /\ f # "token"
    <3>1. f \notin reverted /\ before[f] = settings[f]
      BY <1>1, <1>2, <1>3, <2>3
    <3>2. settings[f] = wish[f]
      BY <1>1, <3>1 DEF PageInv, PageIsAsAsked
    <3> QED BY <1>8, <2>3, <3>1, <3>2
  <2> QED BY <2>1, <2>2, <2>3
<1>11. DOMAIN clerk' = Clerks /\ CallsStay
  BY <1>2, Ends DEF PageInv, CallsStay
<1>12. ASSUME NEW d \in Clerks, at(d, "settings")'
       PROVE  /\ clerk'[d].asked \in Asks
              /\ DOMAIN clerk'[d].before = Columns /\ clerk'[d].before.isPublic \in BOOLEAN
  <2>1. clerk'[d] = clerk[d] /\ at(d, "settings")
    BY <1>11, <1>12 DEF CallsStay, at
  <2> QED BY <2>1 DEF PageInv
<1>13. /\ DOMAIN view' = DOMAIN NoView
       /\ view'.pc # "idle" =>
            \A f \in DOMAIN wish' \ ({"revision"} \cup view'.reverted) :
              view'.settings[f] = view'.wish[f]
  <2>1. view' = view /\ DOMAIN wish' = DOMAIN wish
    BY <1>1, <1>2, <1>6
  <2> HIDE DEF s, untouched
  <2> QED BY <2>1 DEF PageInv, PageIsAsAsked
<1>14. PageIsAsAsked'
  BY <1>10, <1>13, Zenon DEF PageIsAsAsked
<1> HIDE DEF untouched, s
<1> QED BY <1>6, <1>7, <1>9, <1>11, <1>12, <1>13, <1>14 DEF PageInv, Columns, at

\* An update reads the columns as they are.
LEMMA SettingsRead ==
  ASSUME PageInv, NEW c \in Clerks, readSettings(c)
  PROVE  PageInv'
<1>1. PICK asked \in Asks : goes(c, [pc |-> "settings", asked |-> asked, before |-> settings])
  BY DEF readSettings
<1>2. UNCHANGED pageVars
  BY DEF readSettings
<1>3. DOMAIN clerk' = Clerks
  BY <1>1 DEF goes, PageInv
<1>4. ASSUME NEW d \in Clerks, at(d, "settings")'
      PROVE  /\ clerk'[d].asked \in Asks
             /\ DOMAIN clerk'[d].before = Columns /\ clerk'[d].before.isPublic \in BOOLEAN
  <2>1. CASE d = c
    BY <1>1, <2>1 DEF goes, PageInv
  <2>2. CASE d # c
    <3>1. clerk'[d] = clerk[d] /\ at(d, "settings")
      BY <1>1, <1>4, <2>2 DEF goes, PageInv, at
    <3> QED BY <3>1 DEF PageInv
  <2> QED BY <2>1, <2>2
<1>5. PageIsAsAsked'
  BY <1>2 DEF pageVars, PageInv, PageIsAsAsked
<1> QED BY <1>2, <1>3, <1>4, <1>5 DEF PageInv, pageVars, Columns

\* Tokens, announcements and instructions change the token and the revision.
LEMMA PageCallsKeepPage ==
  ASSUME PageInv, PageCall
  PROVE  PageInv'
<1>1. /\ view' = view /\ clerk' = clerk /\ reverted' = reverted
      /\ DOMAIN settings' = Columns /\ DOMAIN wish' = Columns
      /\ \A f \in Columns \ {"token", "revision"} : settings'[f] = settings[f] /\ wish'[f] = wish[f]
      /\ settings.token = wish.token => settings'.token = wish'.token
  <2>1. clerk' = clerk
    BY DEF PageCall, officeVars
  <2>2. ASSUME NEW s, s = [settings EXCEPT !.revision = @ + 1]
        PROVE  DOMAIN s = Columns /\ \A f \in Columns \ {"revision"} : s[f] = settings[f]
    BY <2>2 DEF PageInv
  <2>3. ASSUME NEW role, rotateAccessToken(role)
        PROVE  /\ view' = view /\ reverted' = reverted
               /\ DOMAIN settings' = Columns /\ DOMAIN wish' = Columns
               /\ \A f \in Columns \ {"token", "revision"} :
                    settings'[f] = settings[f] /\ wish'[f] = wish[f]
               /\ settings'.token = wish'.token
    <3>1. PICK token : setToken(token) /\ wish' = [wish EXCEPT !.token = token]
      BY <2>3 DEF rotateAccessToken
    <3>2. settings' = [[settings EXCEPT !.token = token] EXCEPT !.revision = @ + 1]
      BY <3>1 DEF setToken, bumped
    <3>3. DOMAIN settings = Columns /\ DOMAIN wish = Columns
      BY DEF PageInv
    <3>4. "token" \in Columns /\ "revision" \in Columns
      BY ColumnsNamed
    <3>5. settings'.token = token /\ wish'.token = token
      BY <3>1, <3>2, <3>3, <3>4
    <3>6. /\ DOMAIN settings' = Columns /\ DOMAIN wish' = Columns
          /\ \A f \in Columns \ {"token", "revision"} :
               settings'[f] = settings[f] /\ wish'[f] = wish[f]
      BY <3>1, <3>2, <3>3
    <3> QED BY <2>3, <3>5, <3>6 DEF rotateAccessToken
  <2>4. ASSUME NEW role, announce(role) \/ instruct(role)
        PROVE  /\ view' = view /\ reverted' = reverted /\ wish' = wish
               /\ \/ settings' = settings
                  \/ settings' = [settings EXCEPT !.revision = @ + 1]
    BY <2>4 DEF announce, instruct, bumped
  <2>5. CASE \E role \in Standing : rotateAccessToken(role)
    BY <2>1, <2>3, <2>5
  <2>6. CASE \E role \in Standing : announce(role) \/ instruct(role)
    <3>1. /\ view' = view /\ reverted' = reverted /\ wish' = wish
          /\ \/ settings' = settings
             \/ settings' = [settings EXCEPT !.revision = @ + 1]
      BY <2>4, <2>6
    <3>2. "token" \in Columns /\ DOMAIN settings = Columns /\ DOMAIN wish = Columns
      BY ColumnsNamed DEF PageInv
    <3>3. DOMAIN settings' = Columns /\ \A f \in Columns \ {"revision"} : settings'[f] = settings[f]
      BY <3>1, <3>2, <2>2
    <3> QED BY <2>1, <3>1, <3>2, <3>3
  <2> QED BY <2>5, <2>6 DEF PageCall
<1>2. settings.token = wish.token
  <2>1. "token" \in DOMAIN wish \ ({"revision"} \cup reverted)
    BY ColumnsNamed DEF PageInv
  <2> QED BY <2>1 DEF PageInv, PageIsAsAsked
<1>3. \A f \in DOMAIN wish' \ ({"revision"} \cup reverted') : settings'[f] = wish'[f]
  <2> SUFFICES ASSUME NEW f \in Columns, f # "revision", f \notin reverted
               PROVE  settings'[f] = wish'[f]
    BY <1>1
  <2>1. CASE f = "token"
    BY <1>1, <1>2, <2>1
  <2>2. CASE f # "token"
    <3>1. settings[f] = wish[f]
      BY DEF PageInv, PageIsAsAsked
    <3> QED BY <1>1, <2>2, <3>1
  <2> QED BY <2>1, <2>2
<1>4. PageIsAsAsked'
  BY <1>1, <1>3 DEF PageInv, PageIsAsAsked
<1>5. settings'.isPublic \in BOOLEAN
  <2>1. "isPublic" \in Columns \ {"token", "revision"}
    BY ColumnsNamed
  <2> QED BY <1>1, <2>1 DEF PageInv
<1> QED BY <1>1, <1>4, <1>5 DEF PageInv, Columns, at

\* The visitor's steps: one takes the settings over, the others leave them.
LEMMA VisitKeepsPage ==
  ASSUME PageInv, Visit, UNCHANGED officeVars
  PROVE  PageInv'
<1>1. clerk' = clerk
  BY DEF officeVars
<1>2. ASSUME NEW token, resolve(token)
      PROVE  PageInv'
  <2>1. settings' = settings /\ wish' = wish /\ reverted' = reverted
    BY <1>2 DEF resolve
  <2>2. CASE ~Opens(settings, token)
    <3>1. view' = view
      BY <1>2, <2>2 DEF resolve
    <3> QED BY <1>1, <2>1, <3>1, PageKept DEF PageStays, CallsStay
  <2>3. CASE Opens(settings, token)
    <3> DEFINE asked == [wish EXCEPT !.isPublic = Opens(wish, token)]
    <3>1. view' = [NoView EXCEPT !.pc = "pledged", !.settings = settings,
                                 !.reverted = reverted, !.wish = asked]
      BY <1>2, <2>3 DEF resolve
    <3> HIDE DEF asked
    <3>2. /\ DOMAIN view' = DOMAIN NoView /\ view'.settings = settings
          /\ view'.reverted = reverted /\ view'.wish = asked
      BY <3>1 DEF NoView
    <3>3. ASSUME NEW f \in Columns, f # "revision", f \notin reverted PROVE settings[f] = asked[f]
      <4>1. settings[f] = wish[f] /\ DOMAIN wish = Columns
        BY <3>3 DEF PageInv, PageIsAsAsked
      <4>2. CASE f # "isPublic"
        BY <4>1, <4>2 DEF asked
      <4>3. CASE f = "isPublic"
        <5>1. asked[f] = Opens(wish, token)
          BY <4>1, <4>3 DEF asked
        <5>2. settings.token = wish.token
          <6>1. "token" \in DOMAIN wish \ ({"revision"} \cup reverted)
            BY ColumnsNamed DEF PageInv
          <6> QED BY <6>1 DEF PageInv, PageIsAsAsked
        <5>3. settings.isPublic = TRUE
          BY <2>3 DEF Opens, PageInv
        <5>4. Opens(wish, token) = TRUE
          BY <2>3, <4>1, <4>3, <5>2, <5>3 DEF Opens
        <5> QED BY <4>3, <5>1, <5>3, <5>4
      <4> QED BY <4>2, <4>3
    <3>4. \A f \in DOMAIN wish' \ ({"revision"} \cup view'.reverted) :
            view'.settings[f] = view'.wish[f]
      BY <2>1, <3>2, <3>3 DEF PageInv
    <3>5. PageIsAsAsked'
      BY <2>1, <3>4 DEF PageInv, PageIsAsAsked
    <3> QED BY <1>1, <2>1, <3>2, <3>5 DEF PageInv, Columns, at
  <2> QED BY <2>2, <2>3
<1>3. ASSUME NEW pc, pc # "idle", NEW next, reads(pc, next),
             DOMAIN next = DOMAIN view, next.settings = view.settings, next.wish = view.wish,
             next.reverted = view.reverted
      PROVE  PageInv'
  <2>1. view' = next /\ view.pc # "idle" /\ settings' = settings /\ wish' = wish /\ reverted' = reverted
    BY <1>3 DEF reads
  <2>2. PageIsAsAsked'
    BY <1>3, <2>1 DEF PageInv, PageIsAsAsked
  <2> QED BY <1>1, <1>3, <2>1, <2>2 DEF PageInv, Columns, at
<1>4. DOMAIN view = {"pc", "settings", "wish", "pledged", "received", "people", "breakdown", "activity",
                     "budget", "announcements", "instructions", "reverted", "disturbed"}
  BY DEF PageInv, NoView
<1>5. CASE ReadPledged
  BY <1>3, <1>4, <1>5 DEF ReadPledged
<1>6. CASE ReadReceived
  BY <1>3, <1>4, <1>6 DEF ReadReceived
<1>7. CASE ReadPeople
  BY <1>3, <1>4, <1>7 DEF ReadPeople
<1>8. CASE ReadBreakdown
  BY <1>3, <1>4, <1>8 DEF ReadBreakdown
<1>9. CASE ReadActivity
  BY <1>3, <1>4, <1>9 DEF ReadActivity
<1>10. CASE ReadBudget
  BY <1>3, <1>4, <1>10 DEF ReadBudget
<1>11. CASE ReadNotices
  BY <1>3, <1>4, <1>11 DEF ReadNotices
<1>12. CASE Leave
  <2>1. view' = NoView /\ settings' = settings /\ wish' = wish /\ reverted' = reverted
    BY <1>12 DEF Leave, reads
  <2>2. PageIsAsAsked'
    BY <2>1 DEF PageInv, PageIsAsAsked, NoView
  <2> QED BY <1>1, <2>1, <2>2 DEF PageInv, Columns, at
<1> QED BY <1>2, <1>5, <1>6, <1>7, <1>8, <1>9, <1>10, <1>11, <1>12 DEF Visit

\* The calls that are one step change the books.
LEMMA StepsCommit ==
  ASSUME linkAccount \/ PledgeCall \/ PaymentCall \/ BudgetCall \/ GroupCall
  PROVE  clerk' = clerk /\ \E after : commits(after)
<1>1. ASSUME NEW op, NEW action, NEW after, applies(op, action, after)
      PROVE  clerk' = clerk /\ \E b : commits(b)
  BY <1>1 DEF applies, officeVars
<1>2. CASE linkAccount
  BY <1>2 DEF linkAccount
<1>3. CASE PledgeCall
  BY <1>1, <1>3 DEF PledgeCall
<1>4. CASE PaymentCall
  BY <1>1, <1>4 DEF PaymentCall
<1>5. CASE BudgetCall
  BY <1>1, <1>5 DEF BudgetCall
<1>6. CASE GroupCall
  BY <1>1, <1>6 DEF GroupCall
<1> QED BY <1>2, <1>3, <1>4, <1>5, <1>6

\* Every step keeps what is known of the page.
LEMMA PageStep ==
  ASSUME PageInv, [OfficeNext]_allVars
  PROVE  PageInv'
<1>1. CASE \E c \in Clerks : ClerkStep(c)
  BY <1>1, DesksKeepPage, SettingsRead, SettingsWritten DEF ClerkStep
<1>2. CASE linkAccount \/ PledgeCall \/ PaymentCall \/ BudgetCall \/ GroupCall
  BY <1>2, StepsCommit, CommitsStay, PageKept DEF CallsStay
<1>3. CASE PageCall
  BY <1>3, PageCallsKeepPage
<1>4. CASE Visit /\ UNCHANGED officeVars
  BY <1>4, VisitKeepsPage
<1>5. CASE UNCHANGED allVars
  BY <1>5, PageKept DEF allVars, pageVars, officeVars, PageStays, CallsStay
<1> QED BY <1>1, <1>2, <1>3, <1>4, <1>5 DEF OfficeNext

\* The page is what was last asked for, whoever else writes to it, for any
\* number of calls at once and any settings asked for: PublicSettingsService
\* writes every column, and only an update that overlapped another one takes a
\* column back.
THEOREM PageFollowsRequests == OfficeSpec => []PageIsAsAsked
<1>1. OfficeInit => PageInv
  <2> SUFFICES ASSUME OfficeInit PROVE PageInv
    OBVIOUS
  <2>1. settings = DefaultSettings /\ wish = DefaultSettings /\ reverted = {} /\ view = NoView
    BY DEF OfficeInit, PageInit
  <2>2. view.pc = "idle"
    BY <2>1 DEF NoView
  <2>3. clerk = [c \in Clerks |-> NoCall]
    BY DEF OfficeInit
  <2>4. settings.isPublic \in BOOLEAN
    BY <2>1 DEF DefaultSettings
  <2>5. \A c \in Clerks : ~at(c, "settings")
    BY <2>3 DEF at, NoCall
  <2>6. PageIsAsAsked
    BY <2>1, <2>2 DEF PageIsAsAsked
  <2> QED BY <2>1, <2>3, <2>4, <2>5, <2>6 DEF PageInv, Columns
<1>2. PageInv /\ [OfficeNext]_allVars => PageInv'
  BY PageStep
<1>3. PageInv => PageIsAsAsked
  BY DEF PageInv
<1> QED BY <1>1, <1>2, <1>3, PTL DEF OfficeSpec

-----------------------------------------------------------------------------
(* The books.                                                              *)

People == [name : RowNames, phone : Nat, user : Nat, gone : BOOLEAN]
Pledges == [person : Nat, committed : Nat, cancelled : BOOLEAN]
Payments == [pledge : Nat, value : Nat]
Items == [name : RowNames, target : Nat, version : Nat, public : BOOLEAN, gone : BOOLEAN]
Allocations == [payment : Nat, item : Nat, value : Nat]
Groups == SUBSET Nat

\* Every table's rows by type.
Books ==
  [people : Seq(People), pledges : Seq(Pledges), payments : Seq(Payments), items : Seq(Items),
   allocations : Seq(Allocations), groups : Seq(Groups)]

\* Books as the schema has them.
Sound(b) == b \in Books /\ KeysHold(b)

\* The tables as the model has them.
LEMMA BooksNamed == BooksWith(RowNames) = Books
BY DEF BooksWith, Books, People, Pledges, Payments, Items, Allocations, Groups

\* A row of a table is replaced.
LEMMA RowReplaced ==
  ASSUME NEW S, NEW s \in Seq(S), NEW i \in DOMAIN s, NEW row \in S
  PROVE  /\ [s EXCEPT ![i] = row] \in Seq(S)
         /\ DOMAIN [s EXCEPT ![i] = row] = DOMAIN s
         /\ [s EXCEPT ![i] = row][i] = row
         /\ \A j \in DOMAIN s \ {i} : [s EXCEPT ![i] = row][j] = s[j]
OBVIOUS

\* A row is added to a table.
LEMMA RowAdded ==
  ASSUME NEW S, NEW s \in Seq(S), NEW row \in S
  PROVE  /\ Append(s, row) \in Seq(S)
         /\ Len(s) \in Nat /\ DOMAIN s = 1 .. Len(s) /\ Len(s) + 1 \notin DOMAIN s
         /\ DOMAIN Append(s, row) = DOMAIN s \cup {Len(s) + 1}
         /\ Append(s, row)[Len(s) + 1] = row
         /\ \A j \in DOMAIN s : Append(s, row)[j] = s[j]
OBVIOUS

\* Every row of a table is rewritten.
LEMMA RowsRewritten ==
  ASSUME NEW S, NEW s \in Seq(S), NEW T, NEW f, f = [i \in DOMAIN s |-> f[i]],
         \A i \in DOMAIN s : f[i] \in T
  PROVE  f \in Seq(T)
<1>1. PICK n \in Nat : DOMAIN s = 1 .. n
  BY Zenon, LenProperties
<1>2. f \in [1 .. n -> T]
  BY <1>1
<1> QED BY <1>2, SeqDef

\* A table changes and the keys hold on, table by table.
LEMMA PeopleChange ==
  ASSUME NEW b, Sound(b), NEW t \in Seq(People),
         \A p : Person(b, p) => p \in DOMAIN t /\ ~t[p].gone,
         \A p \in DOMAIN t : t[p].gone => t[p].user = 0
  PROVE  Sound([b EXCEPT !.people = t])
<1> DEFINE c == [b EXCEPT !.people = t]
<1>1. /\ c \in Books /\ c.people = t /\ c.pledges = b.pledges /\ c.payments = b.payments
      /\ c.items = b.items /\ c.allocations = b.allocations /\ c.groups = b.groups
  BY DEF Sound, Books
<1> HIDE DEF c
<1>2. \A p : Person(b, p) => Person(c, p)
  BY <1>1 DEF Person
<1>3. \A i : Item(b, i) => Item(c, i)
  BY <1>1 DEF Item
<1>4. \A p \in Persons(b) : p \in Persons(c)
  BY <1>2 DEF Persons, Person
<1>5. KeysHold(c)
  <2>1. \A l \in DOMAIN c.pledges : Person(c, c.pledges[l].person)
    BY <1>1, <1>2 DEF Sound, KeysHold
  <2>2. \A g \in DOMAIN c.groups : c.groups[g] \subseteq Persons(c)
    BY <1>1, <1>4 DEF Sound, KeysHold
  <2>3. \A p \in DOMAIN c.people : c.people[p].gone => c.people[p].user = 0
    BY <1>1
  <2> QED BY <1>1, <1>3, <2>1, <2>2, <2>3 DEF Sound, KeysHold
<1>6. Sound(c)
  BY <1>1, <1>5 DEF Sound
<1> QED BY <1>6 DEF c

\* No pledge goes.
LEMMA PledgesChange ==
  ASSUME NEW b, Sound(b), NEW t \in Seq(Pledges), DOMAIN b.pledges \subseteq DOMAIN t,
         \A l \in DOMAIN t : Person(b, t[l].person)
  PROVE  Sound([b EXCEPT !.pledges = t])
<1> DEFINE c == [b EXCEPT !.pledges = t]
<1>1. /\ c \in Books /\ c.people = b.people /\ c.pledges = t /\ c.payments = b.payments
      /\ c.items = b.items /\ c.allocations = b.allocations /\ c.groups = b.groups
  BY DEF Sound, Books
<1> HIDE DEF c
<1>2. (\A p : Person(c, p) <=> Person(b, p)) /\ Persons(c) = Persons(b) /\ \A i : Item(c, i) <=> Item(b, i)
  BY <1>1 DEF Person, Persons, Item
<1>3. KeysHold(c)
  <2>1. \A l \in DOMAIN c.pledges : Person(c, c.pledges[l].person)
    BY <1>1, <1>2
  <2>2. \A f \in DOMAIN c.payments : c.payments[f].pledge \in DOMAIN c.pledges
    BY <1>1 DEF Sound, KeysHold
  <2> QED BY <1>1, <1>2, <2>1, <2>2 DEF Sound, KeysHold
<1>4. Sound(c)
  BY <1>1, <1>3 DEF Sound
<1> QED BY <1>4 DEF c

\* Every payment is on a pledge that is there.
LEMMA PaymentsChange ==
  ASSUME NEW b, Sound(b), NEW t \in Seq(Payments), DOMAIN b.payments \subseteq DOMAIN t,
         \A f \in DOMAIN t : t[f].pledge \in DOMAIN b.pledges
  PROVE  Sound([b EXCEPT !.payments = t])
<1> DEFINE c == [b EXCEPT !.payments = t]
<1>1. /\ c \in Books /\ c.people = b.people /\ c.pledges = b.pledges /\ c.payments = t
      /\ c.items = b.items /\ c.allocations = b.allocations /\ c.groups = b.groups
  BY DEF Sound, Books
<1> HIDE DEF c
<1>2. (\A p : Person(c, p) <=> Person(b, p)) /\ Persons(c) = Persons(b) /\ \A i : Item(c, i) <=> Item(b, i)
  BY <1>1 DEF Person, Persons, Item
<1>3. KeysHold(c)
  BY <1>1, <1>2 DEF Sound, KeysHold
<1>4. Sound(c)
  BY <1>1, <1>3 DEF Sound
<1> QED BY <1>4 DEF c

\* No line goes that a payment is earmarked for.
LEMMA ItemsChange ==
  ASSUME NEW b, Sound(b), NEW t \in Seq(Items),
         \A a \in DOMAIN b.allocations : /\ b.allocations[a].item \in DOMAIN t
                                         /\ ~t[b.allocations[a].item].gone
  PROVE  Sound([b EXCEPT !.items = t])
<1> DEFINE c == [b EXCEPT !.items = t]
<1>1. /\ c \in Books /\ c.people = b.people /\ c.pledges = b.pledges /\ c.payments = b.payments
      /\ c.items = t /\ c.allocations = b.allocations /\ c.groups = b.groups
  BY DEF Sound, Books
<1> HIDE DEF c
<1>2. (\A p : Person(c, p) <=> Person(b, p)) /\ Persons(c) = Persons(b)
  BY <1>1 DEF Person, Persons
<1>3. \A a \in DOMAIN c.allocations : Item(c, c.allocations[a].item)
  BY <1>1 DEF Item
<1>4. KeysHold(c)
  BY <1>1, <1>2, <1>3 DEF Sound, KeysHold
<1>5. Sound(c)
  BY <1>1, <1>4 DEF Sound
<1> QED BY <1>5 DEF c

\* Earmarks are of a payment there is, for a line that is still there.
LEMMA AllocationsChange ==
  ASSUME NEW b, Sound(b), NEW t \in Seq(Allocations),
         \A a \in DOMAIN t : t[a].payment \in DOMAIN b.payments /\ Item(b, t[a].item)
  PROVE  Sound([b EXCEPT !.allocations = t])
<1> DEFINE c == [b EXCEPT !.allocations = t]
<1>1. /\ c \in Books /\ c.people = b.people /\ c.pledges = b.pledges /\ c.payments = b.payments
      /\ c.items = b.items /\ c.allocations = t /\ c.groups = b.groups
  BY DEF Sound, Books
<1> HIDE DEF c
<1>2. (\A p : Person(c, p) <=> Person(b, p)) /\ Persons(c) = Persons(b) /\ \A i : Item(c, i) <=> Item(b, i)
  BY <1>1 DEF Person, Persons, Item
<1>3. KeysHold(c)
  BY <1>1, <1>2 DEF Sound, KeysHold
<1>4. Sound(c)
  BY <1>1, <1>3 DEF Sound
<1> QED BY <1>4 DEF c

\* Members are people of the event.
LEMMA GroupsChange ==
  ASSUME NEW b, Sound(b), NEW t \in Seq(Groups), \A g \in DOMAIN t : t[g] \subseteq Persons(b)
  PROVE  Sound([b EXCEPT !.groups = t])
<1> DEFINE c == [b EXCEPT !.groups = t]
<1>1. /\ c \in Books /\ c.people = b.people /\ c.pledges = b.pledges /\ c.payments = b.payments
      /\ c.items = b.items /\ c.allocations = b.allocations /\ c.groups = t
  BY DEF Sound, Books
<1> HIDE DEF c
<1>2. (\A p : Person(c, p) <=> Person(b, p)) /\ Persons(c) = Persons(b) /\ \A i : Item(c, i) <=> Item(b, i)
  BY <1>1 DEF Person, Persons, Item
<1>3. KeysHold(c)
  BY <1>1, <1>2 DEF Sound, KeysHold
<1>4. Sound(c)
  BY <1>1, <1>3 DEF Sound
<1> QED BY <1>4 DEF c

\* What each transaction makes of the books: people,
LEMMA PersonCreated ==
  ASSUME NEW b, Sound(b), NEW phone \in Nat,
         NEW after, after = createPerson(b, "someone", phone), NEW k, k = Len(b.people) + 1
  PROVE  /\ Sound(after) /\ after.items = b.items /\ DOMAIN b.people \subseteq DOMAIN after.people
         /\ k \notin Persons(b) /\ Persons(after) = Persons(b) \cup {k}
         /\ after.people[k].phone = phone
         /\ \A q \in Persons(b) : after.people[q] = b.people[q]
<1> DEFINE row == [name |-> "someone", phone |-> phone, user |-> 0, gone |-> FALSE]
           n == Len(b.people) + 1
<1>1. row \in People
  <2>1. "someone" \in RowNames
    BY DEF RowNames
  <2> QED BY <2>1 DEF People
<1>2. b.people \in Seq(People) /\ b \in Books
  BY DEF Sound, Books
<1>3. createPerson(b, "someone", phone) = [b EXCEPT !.people = Append(@, row)]
  BY DEF createPerson
<1>4. row.phone = phone /\ row.gone = FALSE
  OBVIOUS
<1> HIDE DEF row
<1>5. PICK t : t = Append(b.people, row)
  OBVIOUS
<1>6. /\ t \in Seq(People) /\ n \notin DOMAIN b.people /\ DOMAIN t = DOMAIN b.people \cup {n}
      /\ t[n] = row /\ \A q \in DOMAIN b.people : t[q] = b.people[q]
  BY <1>1, <1>2, <1>5, RowAdded
<1>7. PICK c : c = [b EXCEPT !.people = t]
  OBVIOUS
<1>8. createPerson(b, "someone", phone) = c
  BY <1>3, <1>5, <1>7
<1> HIDE DEF n
<1>9. Sound(c)
  <2>1. \A p : Person(b, p) => p \in DOMAIN t /\ ~t[p].gone
    BY <1>6 DEF Person
  <2>2. \A p \in DOMAIN t : t[p].gone => t[p].user = 0
    BY <1>4, <1>6 DEF Sound, KeysHold
  <2> QED BY <1>6, <1>7, <2>1, <2>2, PeopleChange
<1>10. c.people = t /\ c.items = b.items
  BY <1>2, <1>7 DEF Books
<1>11. n \notin Persons(b) /\ Persons(c) = Persons(b) \cup {n}
  BY <1>4, <1>6, <1>10 DEF Persons, Person
<1>12. \A q \in Persons(b) : c.people[q] = b.people[q]
  BY <1>6, <1>10 DEF Persons
<1>13. after = c /\ k = n
  BY <1>8 DEF n
<1> QED BY <1>4, <1>6, <1>9, <1>10, <1>11, <1>12, <1>13

\* updateContact writes one person's phone.
LEMMA ContactUpdated ==
  ASSUME NEW b, Sound(b), NEW p, Person(b, p), NEW phone \in Nat
  PROVE  LET c == updateContact(b, p, phone)
         IN /\ Sound(c) /\ c.items = b.items /\ Persons(c) = Persons(b)
            /\ DOMAIN b.people \subseteq DOMAIN c.people
            /\ c.people[p].phone = phone /\ c.people[p].user = b.people[p].user
            /\ \A q \in Persons(b) \ {p} : c.people[q] = b.people[q]
<1> DEFINE row == [b.people[p] EXCEPT !.phone = phone]
<1>1. b.people \in Seq(People) /\ b \in Books /\ p \in DOMAIN b.people /\ b.people[p] \in People
  BY DEF Sound, Books, Person
<1>2. row \in People /\ row.phone = phone /\ row.gone = b.people[p].gone /\ row.user = b.people[p].user
  BY <1>1 DEF People
<1>3. updateContact(b, p, phone) = [b EXCEPT !.people = [b.people EXCEPT ![p] = row]]
  BY DEF updateContact
<1> HIDE DEF row
<1>4. PICK t : t = [b.people EXCEPT ![p] = row]
  OBVIOUS
<1>5. /\ t \in Seq(People) /\ DOMAIN t = DOMAIN b.people /\ t[p] = row
      /\ \A q \in DOMAIN b.people \ {p} : t[q] = b.people[q]
  BY <1>1, <1>2, <1>4, RowReplaced
<1>6. PICK c : c = [b EXCEPT !.people = t]
  OBVIOUS
<1>7. updateContact(b, p, phone) = c
  BY <1>3, <1>4, <1>6
<1>8. Sound(c)
  <2>1. \A q : Person(b, q) => q \in DOMAIN t /\ ~t[q].gone
    BY <1>2, <1>5 DEF Person
  <2>2. \A q \in DOMAIN t : t[q].gone => t[q].user = 0
    BY <1>2, <1>5 DEF Sound, KeysHold
  <2> QED BY <1>5, <1>6, <2>1, <2>2, PeopleChange
<1>9. c.people = t /\ c.items = b.items
  BY <1>1, <1>6 DEF Books
<1>10. Persons(c) = Persons(b)
  BY <1>2, <1>5, <1>9 DEF Persons, Person
<1>11. \A q \in Persons(b) \ {p} : c.people[q] = b.people[q]
  BY <1>5, <1>9 DEF Persons
<1> QED BY <1>2, <1>5, <1>7, <1>8, <1>9, <1>10, <1>11

\* linkPersonToUser writes one person's account.
LEMMA AccountLinked ==
  ASSUME NEW b, Sound(b), NEW p, Person(b, p), NEW user \in Nat
  PROVE  LET c == linkPersonToUser(b, p, user)
         IN /\ Sound(c) /\ c.items = b.items /\ Persons(c) = Persons(b)
            /\ DOMAIN b.people \subseteq DOMAIN c.people
            /\ c.people[p].user = user /\ c.people[p].phone = b.people[p].phone
            /\ \A q \in Persons(b) \ {p} : c.people[q] = b.people[q]
<1> DEFINE row == [b.people[p] EXCEPT !.user = user]
<1>1. /\ b.people \in Seq(People) /\ b \in Books /\ p \in DOMAIN b.people /\ b.people[p] \in People
      /\ ~b.people[p].gone
  BY DEF Sound, Books, Person
<1>2. row \in People /\ row.user = user /\ ~row.gone /\ row.phone = b.people[p].phone
  BY <1>1 DEF People
<1>3. linkPersonToUser(b, p, user) = [b EXCEPT !.people = [b.people EXCEPT ![p] = row]]
  BY DEF linkPersonToUser
<1> HIDE DEF row
<1>4. PICK t : t = [b.people EXCEPT ![p] = row]
  OBVIOUS
<1>5. /\ t \in Seq(People) /\ DOMAIN t = DOMAIN b.people /\ t[p] = row
      /\ \A q \in DOMAIN b.people \ {p} : t[q] = b.people[q]
  BY <1>1, <1>2, <1>4, RowReplaced
<1>6. PICK c : c = [b EXCEPT !.people = t]
  OBVIOUS
<1>7. linkPersonToUser(b, p, user) = c
  BY <1>3, <1>4, <1>6
<1>8. Sound(c)
  <2>1. \A q : Person(b, q) => q \in DOMAIN t /\ ~t[q].gone
    BY <1>2, <1>5 DEF Person
  <2>2. \A q \in DOMAIN t : t[q].gone => t[q].user = 0
    BY <1>2, <1>5 DEF Sound, KeysHold
  <2> QED BY <1>5, <1>6, <2>1, <2>2, PeopleChange
<1>9. c.people = t /\ c.items = b.items
  BY <1>1, <1>6 DEF Books
<1>10. Persons(c) = Persons(b)
  BY <1>1, <1>2, <1>5, <1>9 DEF Persons, Person
<1>11. \A q \in Persons(b) \ {p} : c.people[q] = b.people[q]
  BY <1>5, <1>9 DEF Persons
<1> QED BY <1>2, <1>5, <1>7, <1>8, <1>9, <1>10, <1>11

\* a merge, with the account that its write hands down.  A target that is gone
\* by then has nothing moved to it;
LEMMA PeopleMerged ==
  ASSUME NEW b, Sound(b), NEW source, Person(b, source), NEW target \in DOMAIN b.people,
         source # target, NEW heir \in Nat,
         \/ Person(b, target)
         \/ PledgesOf(b, source) = {} /\ heir = b.people[target].user
  PROVE  LET c == [mergePeople(b, source, target) EXCEPT !.people[target].user = heir]
         IN /\ Sound(c) /\ c.items = b.items /\ Persons(c) = Persons(b) \ {source}
            /\ DOMAIN b.people \subseteq DOMAIN c.people
            /\ c.people[target].user = heir
            /\ \A q \in Persons(c) : c.people[q].phone = b.people[q].phone
            /\ \A q \in Persons(c) \ {target} : c.people[q] = b.people[q]
<1> DEFINE moved == [l \in DOMAIN b.pledges |->
                       IF b.pledges[l].person = source THEN [b.pledges[l] EXCEPT !.person = target]
                       ELSE b.pledges[l]]
           members == [g \in DOMAIN b.groups |-> b.groups[g] \ {source}]
           s1 == [b.people[source] EXCEPT !.gone = TRUE, !.user = 0]
           t1 == [b.people[target] EXCEPT !.user = heir]
           people == [[b.people EXCEPT ![source] = s1] EXCEPT ![target] = t1]
<1>0. /\ b \in Books /\ b.pledges \in Seq(Pledges) /\ b.groups \in Seq(Groups) /\ b.people \in Seq(People)
  BY DEF Sound, Books
<1>1. /\ source \in DOMAIN b.people /\ ~b.people[source].gone
      /\ b.people[source] \in People /\ b.people[target] \in People
  BY <1>0 DEF Person
<1>2. /\ s1 \in People /\ s1.gone = TRUE /\ s1.user = 0
      /\ t1 \in People /\ t1.gone = b.people[target].gone /\ t1.user = heir
      /\ t1.phone = b.people[target].phone
  BY <1>1 DEF People
<1>3. [mergePeople(b, source, target) EXCEPT !.people[target].user = heir]
        = [b EXCEPT !.people = people, !.pledges = moved, !.groups = members]
  <2>1. mergePeople(b, source, target) =
          [b EXCEPT !.people[source].gone = TRUE, !.people[source].user = 0,
             !.people[target].user = IF @ = 0 THEN b.people[source].user ELSE @,
             !.pledges = moved, !.groups = members]
    BY DEF mergePeople
  <2> DEFINE t0 == [b.people[target] EXCEPT !.user = IF @ = 0 THEN b.people[source].user ELSE @]
             p0 == [[b.people EXCEPT ![source] = s1] EXCEPT ![target] = t0]
  <2>2. mergePeople(b, source, target) = [b EXCEPT !.people = p0, !.pledges = moved, !.groups = members]
    <3> DEFINE q0 == [b.people EXCEPT ![source].gone = TRUE, ![source].user = 0,
                        ![target].user = IF @ = 0 THEN b.people[source].user ELSE @]
    <3>1. mergePeople(b, source, target) = [b EXCEPT !.people = q0, !.pledges = moved, !.groups = members]
      <4> HIDE DEF moved, members
      <4> QED BY <1>0, <2>1 DEF Books
    <3>2. q0 = p0
      BY <1>1
    <3> HIDE DEF q0, p0, moved, members
    <3> QED BY <3>1, <3>2
  <2>3. [t0 EXCEPT !.user = heir] = t1
    BY <1>1 DEF People
  <2>4. [p0 EXCEPT ![target].user = heir] = people
    <3> HIDE DEF s1
    <3>1. [p0 EXCEPT ![target].user = heir] = [p0 EXCEPT ![target] = [t0 EXCEPT !.user = heir]]
      BY <1>1
    <3> HIDE DEF t1, t0
    <3> QED BY <1>1, <2>3, <3>1
  <2> HIDE DEF p0, people, moved, members, t0, t1, s1
  <2>5. PICK m : m = mergePeople(b, source, target)
    OBVIOUS
  <2>6. m = [b EXCEPT !.people = p0, !.pledges = moved, !.groups = members] /\ m.people = p0
    BY <1>0, <2>2, <2>5 DEF Books
  <2>7. [m EXCEPT !.people[target].user = heir] = [m EXCEPT !.people = people]
    BY <2>4, <2>6
  <2> QED BY <1>0, <2>5, <2>6, <2>7 DEF Books
<1>4. PICK t, u, v : t = people /\ u = moved /\ v = members
  OBVIOUS
<1>5. /\ t \in Seq(People) /\ DOMAIN t = DOMAIN b.people /\ t[source] = s1 /\ t[target] = t1
      /\ \A q \in DOMAIN b.people \ {source, target} : t[q] = b.people[q]
  <2> HIDE DEF s1, t1
  <2>1. PICK h : h = [b.people EXCEPT ![source] = s1]
    OBVIOUS
  <2>2. /\ h \in Seq(People) /\ DOMAIN h = DOMAIN b.people /\ h[source] = s1
        /\ \A q \in DOMAIN b.people \ {source} : h[q] = b.people[q]
    BY <1>0, <1>1, <1>2, <2>1, RowReplaced
  <2>3. t = [h EXCEPT ![target] = t1]
    BY <1>4, <2>1
  <2> HIDE DEF people
  <2>4. /\ t \in Seq(People) /\ DOMAIN t = DOMAIN h /\ t[target] = t1
        /\ \A q \in DOMAIN h \ {target} : t[q] = h[q]
    BY <1>2, <2>2, <2>3, RowReplaced
  <2> QED BY <1>1, <2>2, <2>4
<1>6. /\ u \in Seq(Pledges) /\ DOMAIN u = DOMAIN b.pledges
      /\ \A l \in DOMAIN b.pledges :
           /\ u[l].committed = b.pledges[l].committed
           /\ u[l].person = IF b.pledges[l].person = source THEN target ELSE b.pledges[l].person
  <2>1. \A l \in DOMAIN b.pledges : b.pledges[l] \in Pledges
    BY <1>0
  <2>2. ASSUME NEW l \in DOMAIN b.pledges
        PROVE  /\ moved[l] \in Pledges /\ moved[l].committed = b.pledges[l].committed
               /\ moved[l].person = IF b.pledges[l].person = source THEN target ELSE b.pledges[l].person
    <3>1. target \in Nat
      BY <1>0
    <3>2. CASE b.pledges[l].person = source
      BY <2>1, <3>1, <3>2 DEF Pledges
    <3>3. CASE b.pledges[l].person # source
      BY <2>1, <3>3
    <3> QED BY <3>2, <3>3
  <2>3. moved = [l \in DOMAIN b.pledges |-> moved[l]] /\ DOMAIN moved = DOMAIN b.pledges
    OBVIOUS
  <2> HIDE DEF moved
  <2>4. moved \in Seq(Pledges)
    BY <1>0, <2>2, <2>3, RowsRewritten
  <2> QED BY <1>4, <2>2, <2>3, <2>4
<1>7. v \in Seq(Groups) /\ DOMAIN v = DOMAIN b.groups /\ \A g \in DOMAIN v : v[g] = b.groups[g] \ {source}
  <2>1. \A g \in DOMAIN b.groups : members[g] \in Groups
    BY <1>0 DEF Groups
  <2>2. members = [g \in DOMAIN b.groups |-> members[g]] /\ DOMAIN members = DOMAIN b.groups
        /\ \A g \in DOMAIN b.groups : members[g] = b.groups[g] \ {source}
    OBVIOUS
  <2> HIDE DEF members
  <2>3. members \in Seq(Groups)
    BY <1>0, <2>1, <2>2, RowsRewritten
  <2> QED BY <1>4, <2>2, <2>3
<1> HIDE DEF moved, members, people
<1>8. PICK c : c = [b EXCEPT !.people = t, !.pledges = u, !.groups = v]
  OBVIOUS
<1>9. [mergePeople(b, source, target) EXCEPT !.people[target].user = heir] = c
  BY <1>3, <1>4, <1>8
<1>10. /\ c \in Books /\ c.people = t /\ c.pledges = u /\ c.payments = b.payments
       /\ c.items = b.items /\ c.allocations = b.allocations /\ c.groups = v
  BY <1>0, <1>5, <1>6, <1>7, <1>8 DEF Books
<1> HIDE DEF s1, t1
<1>11. \A q : Person(b, q) /\ q # source => Person(c, q)
  BY <1>2, <1>5, <1>10 DEF Person
<1>12. Persons(c) = Persons(b) \ {source}
  <2>1. ~Person(c, source)
    BY <1>2, <1>5, <1>10 DEF Person
  <2>2. \A q : Person(c, q) => Person(b, q)
    BY <1>2, <1>5, <1>10, <2>1 DEF Person
  <2> QED BY <1>11, <2>1, <2>2 DEF Persons, Person
<1>13. KeysHold(c)
  <2>1. ASSUME NEW l \in DOMAIN c.pledges PROVE Person(c, c.pledges[l].person)
    <3>1. l \in DOMAIN b.pledges /\ Person(b, b.pledges[l].person)
      BY <1>6, <1>10 DEF Sound, KeysHold
    <3>2. CASE b.pledges[l].person = source
      <4>1. PledgesOf(b, source) # {}
        BY <3>1, <3>2 DEF PledgesOf
      <4>2. Person(c, target)
        BY <4>1, <1>11
      <4> QED BY <1>6, <1>10, <3>1, <3>2, <4>2
    <3>3. CASE b.pledges[l].person # source
      BY <1>6, <1>10, <1>11, <3>1, <3>3
    <3> QED BY <3>2, <3>3
  <2>2. \A f \in DOMAIN c.payments : c.payments[f].pledge \in DOMAIN c.pledges
    BY <1>6, <1>10 DEF Sound, KeysHold
  <2>3. \A a \in DOMAIN c.allocations : /\ c.allocations[a].payment \in DOMAIN c.payments
                                        /\ Item(c, c.allocations[a].item)
    BY <1>10 DEF Sound, KeysHold, Item
  <2>4. \A g \in DOMAIN c.groups : c.groups[g] \subseteq Persons(c)
    <3>1. \A g \in DOMAIN b.groups : b.groups[g] \subseteq Persons(b)
      BY DEF Sound, KeysHold
    <3> QED BY <1>7, <1>10, <1>12, <3>1
  <2>5. ASSUME NEW q \in DOMAIN c.people, c.people[q].gone PROVE c.people[q].user = 0
    <3>1. q \in DOMAIN b.people /\ (b.people[q].gone => b.people[q].user = 0)
      BY <1>5, <1>10 DEF Sound, KeysHold
    <3>2. CASE q = source
      BY <1>2, <1>5, <1>10, <3>2
    <3>3. CASE q = target
      BY <1>2, <1>5, <1>10, <2>5, <3>1, <3>3 DEF Person
    <3>4. CASE q \notin {source, target}
      BY <1>5, <1>10, <2>5, <3>1, <3>4
    <3> QED BY <3>2, <3>3, <3>4
  <2> QED BY <2>1, <2>2, <2>3, <2>4, <2>5 DEF KeysHold
<1>14. Sound(c)
  BY <1>10, <1>13 DEF Sound
<1>15. /\ c.people[target].user = heir
       /\ \A q \in Persons(c) : c.people[q].phone = b.people[q].phone
       /\ \A q \in Persons(c) \ {target} : c.people[q] = b.people[q]
  <2>1. \A q \in Persons(c) : q \in DOMAIN b.people /\ q # source
    BY <1>12 DEF Persons
  <2> QED BY <1>2, <1>5, <1>10, <2>1
<1> QED BY <1>5, <1>9, <1>10, <1>12, <1>14, <1>15

-----------------------------------------------------------------------------
(* The sums of the books, as SumTheorems writes sums.                      *)

Values(b) == [f \in DOMAIN b.payments |-> b.payments[f].value]
Promises(b) == [l \in DOMAIN b.pledges |-> b.pledges[l].committed]
Marks(b) == [a \in DOMAIN b.allocations |-> b.allocations[a].value]
PaidPer(b) == [l \in DOMAIN b.pledges |-> Paid(b, PaymentsOn(b, l))]
ReceivedPer(b) == [p \in Persons(b) |-> rollup(b)[p].received]

\* The library's sums are the sums of SumTheorems: of payments, ...
LEMMA PaidIsSumOfRows ==
  ASSUME NEW b, NEW S, S \subseteq DOMAIN b.payments
  PROVE  MapThenSumSet(LAMBDA f : b.payments[f].value, S) = SumOf(Values(b), S)
<1> DEFINE g == Values(b)
           Term(f) == b.payments[f].value
           F(it) == it = [s \in SUBSET S |->
                            IF s = {} THEN 0 ELSE Term(Taken(s)) + it[s \ {Taken(s)}]]
<1>1. \A s \in SUBSET S : s # {} => Term(Taken(s)) = g[Taken(s)]
  <2>1. \A s \in SUBSET S : s # {} => Taken(s) \in S
    BY TakenIsIn
  <2>2. \A f \in S : g[f] = Term(f)
    BY DEF Values
  <2> HIDE DEF g, Term
  <2> QED BY <2>1, <2>2
<1>2. MapThenSumSet(LAMBDA f : b.payments[f].value, S) = (CHOOSE it : F(it))[S]
  BY DEF MapThenSumSet, MapThenFoldSet, Taken
<1> HIDE DEF g, Term
<1>3. ASSUME NEW it PROVE F(it) <=> IsFold(it, g, S)
  <2>1. [s \in SUBSET S |-> IF s = {} THEN 0 ELSE Term(Taken(s)) + it[s \ {Taken(s)}]]
          = [s \in SUBSET S |-> IF s = {} THEN 0 ELSE g[Taken(s)] + it[s \ {Taken(s)}]]
    BY <1>1
  <2> QED BY <2>1 DEF IsFold
<1> HIDE DEF F
<1>4. (CHOOSE it : F(it)) = (CHOOSE it : IsFold(it, g, S))
  BY <1>3
<1>5. (CHOOSE it : F(it))[S] = SumOf(g, S)
  BY <1>4, SumIsFold
<1> QED BY <1>2, <1>5 DEF g

\* ... as Paid takes them, ...
LEMMA PaidIsSum ==
  ASSUME NEW b, NEW S, S \subseteq DOMAIN b.payments
  PROVE  Paid(b, S) = SumOf(Values(b), S)
BY PaidIsSumOfRows DEF Paid

\* ... of pledges, ...
LEMMA CommittedIsSumOfRows ==
  ASSUME NEW b, NEW S, S \subseteq DOMAIN b.pledges
  PROVE  MapThenSumSet(LAMBDA l : b.pledges[l].committed, S) = SumOf(Promises(b), S)
<1> DEFINE g == Promises(b)
           Term(l) == b.pledges[l].committed
           F(it) == it = [s \in SUBSET S |->
                            IF s = {} THEN 0 ELSE Term(Taken(s)) + it[s \ {Taken(s)}]]
<1>1. \A s \in SUBSET S : s # {} => Term(Taken(s)) = g[Taken(s)]
  <2>1. \A s \in SUBSET S : s # {} => Taken(s) \in S
    BY TakenIsIn
  <2>2. \A l \in S : g[l] = Term(l)
    BY DEF Promises
  <2> HIDE DEF g, Term
  <2> QED BY <2>1, <2>2
<1>2. MapThenSumSet(LAMBDA l : b.pledges[l].committed, S) = (CHOOSE it : F(it))[S]
  BY DEF MapThenSumSet, MapThenFoldSet, Taken
<1> HIDE DEF g, Term
<1>3. ASSUME NEW it PROVE F(it) <=> IsFold(it, g, S)
  <2>1. [s \in SUBSET S |-> IF s = {} THEN 0 ELSE Term(Taken(s)) + it[s \ {Taken(s)}]]
          = [s \in SUBSET S |-> IF s = {} THEN 0 ELSE g[Taken(s)] + it[s \ {Taken(s)}]]
    BY <1>1
  <2> QED BY <2>1 DEF IsFold
<1> HIDE DEF F
<1>4. (CHOOSE it : F(it)) = (CHOOSE it : IsFold(it, g, S))
  BY <1>3
<1>5. (CHOOSE it : F(it))[S] = SumOf(g, S)
  BY <1>4, SumIsFold
<1> QED BY <1>2, <1>5 DEF g

\* ... as Committed takes them, ...
LEMMA CommittedIsSum ==
  ASSUME NEW b, NEW S, S \subseteq DOMAIN b.pledges
  PROVE  Committed(b, S) = SumOf(Promises(b), S)
BY CommittedIsSumOfRows DEF Committed

\* ... of earmarks, ...
LEMMA EarmarkedIsSumOfRows ==
  ASSUME NEW b, NEW S, S \subseteq DOMAIN b.allocations
  PROVE  MapThenSumSet(LAMBDA a : b.allocations[a].value, S) = SumOf(Marks(b), S)
<1> DEFINE g == Marks(b)
           Term(a) == b.allocations[a].value
           F(it) == it = [s \in SUBSET S |->
                            IF s = {} THEN 0 ELSE Term(Taken(s)) + it[s \ {Taken(s)}]]
<1>1. \A s \in SUBSET S : s # {} => Term(Taken(s)) = g[Taken(s)]
  <2>1. \A s \in SUBSET S : s # {} => Taken(s) \in S
    BY TakenIsIn
  <2>2. \A a \in S : g[a] = Term(a)
    BY DEF Marks
  <2> HIDE DEF g, Term
  <2> QED BY <2>1, <2>2
<1>2. MapThenSumSet(LAMBDA a : b.allocations[a].value, S) = (CHOOSE it : F(it))[S]
  BY DEF MapThenSumSet, MapThenFoldSet, Taken
<1> HIDE DEF g, Term
<1>3. ASSUME NEW it PROVE F(it) <=> IsFold(it, g, S)
  <2>1. [s \in SUBSET S |-> IF s = {} THEN 0 ELSE Term(Taken(s)) + it[s \ {Taken(s)}]]
          = [s \in SUBSET S |-> IF s = {} THEN 0 ELSE g[Taken(s)] + it[s \ {Taken(s)}]]
    BY <1>1
  <2> QED BY <2>1 DEF IsFold
<1> HIDE DEF F
<1>4. (CHOOSE it : F(it)) = (CHOOSE it : IsFold(it, g, S))
  BY <1>3
<1>5. (CHOOSE it : F(it))[S] = SumOf(g, S)
  BY <1>4, SumIsFold
<1> QED BY <1>2, <1>5 DEF g

\* ... as Earmarked takes them, ...
LEMMA EarmarkedIsSum ==
  ASSUME NEW b, NEW S, S \subseteq DOMAIN b.allocations
  PROVE  Earmarked(b, S) = SumOf(Marks(b), S)
BY EarmarkedIsSumOfRows DEF Earmarked

\* ... of what was paid pledge by pledge, ...
LEMMA PaidPerIsSum ==
  ASSUME NEW b, NEW S, S \subseteq DOMAIN b.pledges
  PROVE  MapThenSumSet(LAMBDA l : Paid(b, PaymentsOn(b, l)), S) = SumOf(PaidPer(b), S)
<1> DEFINE g == PaidPer(b)
           Term(l) == Paid(b, PaymentsOn(b, l))
           F(it) == it = [s \in SUBSET S |->
                            IF s = {} THEN 0 ELSE Term(Taken(s)) + it[s \ {Taken(s)}]]
<1>1. \A s \in SUBSET S : s # {} => Term(Taken(s)) = g[Taken(s)]
  <2>1. \A s \in SUBSET S : s # {} => Taken(s) \in S
    BY TakenIsIn
  <2>2. \A l \in S : g[l] = Term(l)
    BY DEF PaidPer
  <2> HIDE DEF g, Term
  <2> QED BY <2>1, <2>2
<1>2. MapThenSumSet(LAMBDA l : Paid(b, PaymentsOn(b, l)), S) = (CHOOSE it : F(it))[S]
  BY DEF MapThenSumSet, MapThenFoldSet, Taken
<1> HIDE DEF g, Term
<1>3. ASSUME NEW it PROVE F(it) <=> IsFold(it, g, S)
  <2>1. [s \in SUBSET S |-> IF s = {} THEN 0 ELSE Term(Taken(s)) + it[s \ {Taken(s)}]]
          = [s \in SUBSET S |-> IF s = {} THEN 0 ELSE g[Taken(s)] + it[s \ {Taken(s)}]]
    BY <1>1
  <2> QED BY <2>1 DEF IsFold
<1> HIDE DEF F
<1>4. (CHOOSE it : F(it)) = (CHOOSE it : IsFold(it, g, S))
  BY <1>3
<1>5. (CHOOSE it : F(it))[S] = SumOf(g, S)
  BY <1>4, SumIsFold
<1> QED BY <1>2, <1>5 DEF g

\* ... and of what was received person by person.
LEMMA ReceivedPerIsSum ==
  ASSUME NEW b, NEW S, S \subseteq Persons(b)
  PROVE  MapThenSumSet(LAMBDA p : rollup(b)[p].received, S) = SumOf(ReceivedPer(b), S)
<1> DEFINE g == ReceivedPer(b)
           Term(p) == rollup(b)[p].received
           F(it) == it = [s \in SUBSET S |->
                            IF s = {} THEN 0 ELSE Term(Taken(s)) + it[s \ {Taken(s)}]]
<1>1. \A s \in SUBSET S : s # {} => Term(Taken(s)) = g[Taken(s)]
  <2>1. \A s \in SUBSET S : s # {} => Taken(s) \in S
    BY TakenIsIn
  <2>2. \A p \in S : g[p] = Term(p)
    BY DEF ReceivedPer
  <2> HIDE DEF g, Term
  <2> QED BY <2>1, <2>2
<1>2. MapThenSumSet(LAMBDA p : rollup(b)[p].received, S) = (CHOOSE it : F(it))[S]
  BY DEF MapThenSumSet, MapThenFoldSet, Taken
<1> HIDE DEF g, Term
<1>3. ASSUME NEW it PROVE F(it) <=> IsFold(it, g, S)
  <2>1. [s \in SUBSET S |-> IF s = {} THEN 0 ELSE Term(Taken(s)) + it[s \ {Taken(s)}]]
          = [s \in SUBSET S |-> IF s = {} THEN 0 ELSE g[Taken(s)] + it[s \ {Taken(s)}]]
    BY <1>1
  <2> QED BY <2>1 DEF IsFold
<1> HIDE DEF F
<1>4. (CHOOSE it : F(it)) = (CHOOSE it : IsFold(it, g, S))
  BY <1>3
<1>5. (CHOOSE it : F(it))[S] = SumOf(g, S)
  BY <1>4, SumIsFold
<1> QED BY <1>2, <1>5 DEF g

-----------------------------------------------------------------------------
\* The tables are finite, and their rows are typed.
LEMMA Tables ==
  ASSUME NEW b, Sound(b)
  PROVE  /\ \A p \in DOMAIN b.people : b.people[p] \in People
         /\ \A l \in DOMAIN b.pledges : b.pledges[l] \in Pledges
         /\ \A f \in DOMAIN b.payments : b.payments[f] \in Payments
         /\ \A i \in DOMAIN b.items : b.items[i] \in Items
         /\ \A a \in DOMAIN b.allocations : b.allocations[a] \in Allocations
         /\ IsFiniteSet(DOMAIN b.people) /\ IsFiniteSet(DOMAIN b.pledges)
         /\ IsFiniteSet(DOMAIN b.payments) /\ IsFiniteSet(DOMAIN b.items)
         /\ IsFiniteSet(DOMAIN b.allocations) /\ IsFiniteSet(Persons(b))
<1>1. /\ b.people \in Seq(People) /\ b.pledges \in Seq(Pledges) /\ b.payments \in Seq(Payments)
      /\ b.items \in Seq(Items) /\ b.allocations \in Seq(Allocations)
  BY DEF Sound, Books
<1>2. ASSUME NEW S, NEW s \in Seq(S) PROVE (\A i \in DOMAIN s : s[i] \in S) /\ IsFiniteSet(DOMAIN s)
  <2>1. DOMAIN s = 1 .. Len(s) /\ Len(s) \in Nat
    OBVIOUS
  <2>2. IsFiniteSet(1 .. Len(s))
    BY <2>1, FS_Interval
  <2> QED BY <2>1, <2>2
<1>3. IsFiniteSet(DOMAIN b.people) /\ Persons(b) \subseteq DOMAIN b.people
  BY <1>1, <1>2 DEF Persons
<1>4. IsFiniteSet(Persons(b))
  BY <1>3, FS_Subset
<1> QED BY <1>1, <1>2, <1>4

\* What was paid is not negative.
LEMMA PaidNat ==
  ASSUME NEW b, Sound(b), NEW S, S \subseteq DOMAIN b.payments
  PROVE  /\ Paid(b, S) \in Nat /\ IsFiniteSet(S)
         /\ \A f \in S : b.payments[f].value <= Paid(b, S)
<1>1. IsFiniteSet(S) /\ Paid(b, S) = SumOf(Values(b), S)
  BY Tables, FS_Subset, PaidIsSum
<1>2. \A f \in S : Values(b)[f] = b.payments[f].value /\ b.payments[f].value \in Nat
  BY Tables DEF Values, Payments
<1> QED BY <1>1, <1>2, SumNat

\* pledges,
LEMMA PledgeCreated ==
  ASSUME NEW b, Sound(b), NEW p, Person(b, p), NEW committed \in Nat
  PROVE  LET c == createPledge(b, p, committed)
             n == Len(b.pledges) + 1
         IN /\ Sound(c) /\ c.people = b.people /\ c.items = b.items
            /\ n \in DOMAIN c.pledges /\ c.pledges[n].committed = committed
<1> DEFINE row == [person |-> p, committed |-> committed, cancelled |-> FALSE]
           n == Len(b.pledges) + 1
<1>1. b.pledges \in Seq(Pledges) /\ b \in Books
  BY DEF Sound, Books
<1>2. row \in Pledges /\ row.person = p /\ row.committed = committed
  <2>1. p \in Nat
    BY DEF Sound, Books, Person
  <2> QED BY <2>1 DEF Pledges
<1>3. createPledge(b, p, committed) = [b EXCEPT !.pledges = Append(@, row)]
  BY DEF createPledge
<1> HIDE DEF row
<1>4. PICK t : t = Append(b.pledges, row)
  OBVIOUS
<1>5. /\ t \in Seq(Pledges) /\ DOMAIN t = DOMAIN b.pledges \cup {n}
      /\ t[n] = row /\ \A q \in DOMAIN b.pledges : t[q] = b.pledges[q]
  BY <1>1, <1>2, <1>4, RowAdded
<1>6. PICK c : c = [b EXCEPT !.pledges = t]
  OBVIOUS
<1>7. createPledge(b, p, committed) = c
  BY <1>3, <1>4, <1>6
<1> HIDE DEF n
<1>8. Sound(c)
  <2>1. \A l \in DOMAIN t : Person(b, t[l].person)
    BY <1>2, <1>5 DEF Sound, KeysHold
  <2> QED BY <1>5, <1>6, <2>1, PledgesChange
<1>9. c.pledges = t /\ c.people = b.people /\ c.items = b.items
  BY <1>1, <1>6 DEF Books
<1> QED BY <1>2, <1>5, <1>7, <1>8, <1>9 DEF n

\* cancelPledge and correctCommittedValue leave sound books.
LEMMA PledgeChanged ==
  ASSUME NEW b, Sound(b), NEW l \in DOMAIN b.pledges, NEW value \in Nat, NEW c,
         c \in {cancelPledge(b, l), correctCommittedValue(b, l, value)}
  PROVE  Sound(c) /\ c.people = b.people /\ c.items = b.items
<1> DEFINE cancelled == [b.pledges[l] EXCEPT !.cancelled = TRUE]
           corrected == [b.pledges[l] EXCEPT !.committed = value]
<1>1. b.pledges \in Seq(Pledges) /\ b \in Books /\ b.pledges[l] \in Pledges
  BY DEF Sound, Books
<1>2. /\ cancelled \in Pledges /\ cancelled.person = b.pledges[l].person
      /\ corrected \in Pledges /\ corrected.person = b.pledges[l].person
  <2>1. cancelled \in Pledges /\ cancelled.person = b.pledges[l].person
    BY <1>1 DEF Pledges
  <2>2. corrected \in Pledges /\ corrected.person = b.pledges[l].person
    BY <1>1 DEF Pledges
  <2> HIDE DEF cancelled, corrected
  <2> QED BY <2>1, <2>2
<1>3. /\ cancelPledge(b, l) = [b EXCEPT !.pledges = [b.pledges EXCEPT ![l] = cancelled]]
      /\ correctCommittedValue(b, l, value) = [b EXCEPT !.pledges = [b.pledges EXCEPT ![l] = corrected]]
  BY DEF cancelPledge, correctCommittedValue
<1> HIDE DEF cancelled, corrected
<1>4. PICK row \in {cancelled, corrected} : c = [b EXCEPT !.pledges = [b.pledges EXCEPT ![l] = row]]
  BY <1>3
<1>5. row \in Pledges /\ row.person = b.pledges[l].person
  BY <1>2, <1>4
<1>6. PICK t : t = [b.pledges EXCEPT ![l] = row]
  OBVIOUS
<1>7. /\ t \in Seq(Pledges) /\ DOMAIN t = DOMAIN b.pledges /\ t[l] = row
      /\ \A k \in DOMAIN b.pledges \ {l} : t[k] = b.pledges[k]
  BY <1>1, <1>5, <1>6, RowReplaced
<1>8. \A k \in DOMAIN t : Person(b, t[k].person)
  BY <1>5, <1>7 DEF Sound, KeysHold
<1>9. c = [b EXCEPT !.pledges = t]
  BY <1>4, <1>6
<1>10. Sound(c)
  BY <1>7, <1>8, <1>9, PledgesChange
<1> QED BY <1>1, <1>9, <1>10 DEF Books

\* payments,
LEMMA PaymentRecorded ==
  ASSUME NEW b, Sound(b), NEW l \in DOMAIN b.pledges, NEW value \in Nat
  PROVE  LET c == recordFulfillment(b, l, value)
         IN Sound(c) /\ c.people = b.people /\ c.items = b.items
<1> DEFINE row == [pledge |-> l, value |-> value]
           n == Len(b.payments) + 1
<1>1. b.payments \in Seq(Payments) /\ b \in Books
  BY DEF Sound, Books
<1>2. row \in Payments /\ row.pledge = l
  <2>1. l \in Nat
    BY DEF Sound, Books
  <2> QED BY <2>1 DEF Payments
<1>3. recordFulfillment(b, l, value) = [b EXCEPT !.payments = Append(@, row)]
  BY DEF recordFulfillment
<1> HIDE DEF row
<1>4. PICK t : t = Append(b.payments, row)
  OBVIOUS
<1>5. /\ t \in Seq(Payments) /\ DOMAIN t = DOMAIN b.payments \cup {n}
      /\ t[n] = row /\ \A q \in DOMAIN b.payments : t[q] = b.payments[q]
  BY <1>1, <1>2, <1>4, RowAdded
<1>6. PICK c : c = [b EXCEPT !.payments = t]
  OBVIOUS
<1>7. recordFulfillment(b, l, value) = c
  BY <1>3, <1>4, <1>6
<1> HIDE DEF n
<1>8. \A f \in DOMAIN t : t[f].pledge \in DOMAIN b.pledges
  BY <1>2, <1>5 DEF Sound, KeysHold
<1>9. Sound(c)
  BY <1>5, <1>6, <1>8, PaymentsChange
<1> QED BY <1>1, <1>6, <1>7, <1>9 DEF Books

\* So does recordPledgeWithPayment, ...
LEMMA PledgePaid ==
  ASSUME NEW b, Sound(b), NEW p, Person(b, p), NEW committed \in Nat, NEW value \in Nat
  PROVE  LET c == recordPledgeWithPayment(b, p, committed, value)
         IN Sound(c) /\ c.people = b.people /\ c.items = b.items
<1>1. PICK c, n : c = createPledge(b, p, committed) /\ n = Len(b.pledges) + 1
  OBVIOUS
<1>2. /\ Sound(c) /\ c.people = b.people /\ c.items = b.items
      /\ n \in DOMAIN c.pledges /\ c.pledges[n].committed = committed
  BY <1>1, PledgeCreated
<1>3. recordPledgeWithPayment(b, p, committed, value) = recordFulfillment(c, n, value)
  BY <1>1 DEF recordPledgeWithPayment
<1> QED BY <1>2, <1>3, PaymentRecorded

\* ... and correctValue.
LEMMA PaymentCorrected ==
  ASSUME NEW b, Sound(b), NEW f \in DOMAIN b.payments, NEW value \in Nat
  PROVE  LET c == correctValue(b, f, value)
         IN Sound(c) /\ c.people = b.people /\ c.items = b.items
<1> DEFINE row == [b.payments[f] EXCEPT !.value = value]
<1>1. b.payments \in Seq(Payments) /\ b \in Books /\ b.payments[f] \in Payments
  BY DEF Sound, Books
<1>2. row \in Payments /\ row.pledge = b.payments[f].pledge
  BY <1>1 DEF Payments
<1>3. correctValue(b, f, value) = [b EXCEPT !.payments = [b.payments EXCEPT ![f] = row]]
  BY DEF correctValue
<1> HIDE DEF row
<1>4. PICK t : t = [b.payments EXCEPT ![f] = row]
  OBVIOUS
<1>5. /\ t \in Seq(Payments) /\ DOMAIN t = DOMAIN b.payments /\ t[f] = row
      /\ \A k \in DOMAIN b.payments \ {f} : t[k] = b.payments[k]
  BY <1>1, <1>2, <1>4, RowReplaced
<1>6. \A k \in DOMAIN t : t[k].pledge \in DOMAIN b.pledges
  BY <1>2, <1>5 DEF Sound, KeysHold
<1>7. PICK c : c = [b EXCEPT !.payments = t]
  OBVIOUS
<1>8. correctValue(b, f, value) = c
  BY <1>3, <1>4, <1>7
<1>9. Sound(c)
  BY <1>5, <1>6, <1>7, PaymentsChange
<1> QED BY <1>1, <1>7, <1>8, <1>9 DEF Books

\* budget lines and earmarks,
LEMMA ItemAdded ==
  ASSUME NEW b, Sound(b), NEW target \in Nat
  PROVE  LET c == addItem(b, "line", target)
         IN /\ Sound(c) /\ c.people = b.people
            /\ DOMAIN b.items \subseteq DOMAIN c.items
            /\ \A i \in DOMAIN b.items : c.items[i] = b.items[i]
<1> DEFINE row == [name |-> "line", target |-> target, version |-> 1, public |-> TRUE, gone |-> FALSE]
           n == Len(b.items) + 1
<1>1. b.items \in Seq(Items) /\ b \in Books
  BY DEF Sound, Books
<1>2. row \in Items
  BY DEF Items, RowNames
<1>3. addItem(b, "line", target) = [b EXCEPT !.items = Append(@, row)]
  BY DEF addItem
<1> HIDE DEF row
<1>4. PICK t : t = Append(b.items, row)
  OBVIOUS
<1>5. /\ t \in Seq(Items) /\ DOMAIN t = DOMAIN b.items \cup {n}
      /\ \A q \in DOMAIN b.items : t[q] = b.items[q]
  BY <1>1, <1>2, <1>4, RowAdded
<1>6. PICK c : c = [b EXCEPT !.items = t]
  OBVIOUS
<1>7. addItem(b, "line", target) = c
  BY <1>3, <1>4, <1>6
<1> HIDE DEF n
<1>8. \A a \in DOMAIN b.allocations : /\ b.allocations[a].item \in DOMAIN t
                                      /\ ~t[b.allocations[a].item].gone
  BY <1>5 DEF Sound, KeysHold, Item
<1>9. Sound(c)
  BY <1>5, <1>6, <1>8, ItemsChange
<1>10. c.items = t /\ c.people = b.people
  BY <1>1, <1>6 DEF Books
<1> QED BY <1>5, <1>7, <1>9, <1>10

\* updateItem takes one line to its next version.
LEMMA ItemUpdated ==
  ASSUME NEW b, Sound(b), NEW i, Item(b, i), NEW target \in Nat, NEW public \in BOOLEAN
  PROVE  LET c == updateItem(b, i, target, public)
         IN /\ Sound(c) /\ c.people = b.people
            /\ DOMAIN c.items = DOMAIN b.items
            /\ c.items[i].version = b.items[i].version + 1
            /\ \A j \in DOMAIN b.items \ {i} : c.items[j] = b.items[j]
<1>1. /\ b.items \in Seq(Items) /\ b \in Books /\ i \in DOMAIN b.items /\ b.items[i] \in Items
      /\ ~b.items[i].gone
  BY DEF Sound, Books, Item
<1>2. PICK old, version : old = b.items[i] /\ version = old.version + 1
  OBVIOUS
<1> DEFINE row == [old EXCEPT !.target = target, !.public = public, !.version = version]
<1>3. row \in Items /\ row.version = b.items[i].version + 1 /\ ~row.gone
  <2>1. old \in Items /\ version \in Nat /\ ~old.gone
    BY <1>1, <1>2 DEF Items
  <2>2. row \in Items /\ row.version = version /\ row.gone = old.gone
    BY <2>1 DEF Items
  <2> QED BY <1>2, <2>1, <2>2
<1>4. updateItem(b, i, target, public) = [b EXCEPT !.items = [b.items EXCEPT ![i] = row]]
  <2>1. i \in DOMAIN b.items /\ b.items \in Seq(Items) /\ old \in Items
    BY <1>1, <1>2
  <2> QED BY <1>1, <1>2, <2>1 DEF updateItem, Items, Books
<1> HIDE DEF row
<1>5. PICK t : t = [b.items EXCEPT ![i] = row]
  OBVIOUS
<1>6. /\ t \in Seq(Items) /\ DOMAIN t = DOMAIN b.items /\ t[i] = row
      /\ \A q \in DOMAIN b.items \ {i} : t[q] = b.items[q]
  BY <1>1, <1>3, <1>5, RowReplaced
<1>7. PICK c : c = [b EXCEPT !.items = t]
  OBVIOUS
<1>8. updateItem(b, i, target, public) = c
  BY <1>4, <1>5, <1>7
<1>9. \A a \in DOMAIN b.allocations : /\ b.allocations[a].item \in DOMAIN t
                                      /\ ~t[b.allocations[a].item].gone
  BY <1>3, <1>6 DEF Sound, KeysHold, Item
<1>10. Sound(c)
  BY <1>6, <1>7, <1>9, ItemsChange
<1>11. c.items = t /\ c.people = b.people
  BY <1>1, <1>7 DEF Books
<1> QED BY <1>3, <1>6, <1>8, <1>10, <1>11

\* removeItem takes a line that nothing is earmarked for.
LEMMA ItemRemoved ==
  ASSUME NEW b, Sound(b), NEW i, RemovalAllowed(b, i)
  PROVE  LET c == removeItem(b, i)
         IN /\ Sound(c) /\ c.people = b.people
            /\ DOMAIN c.items = DOMAIN b.items
            /\ \A j \in DOMAIN b.items : c.items[j].version = b.items[j].version
<1> DEFINE row == [b.items[i] EXCEPT !.gone = TRUE]
<1>1. b.items \in Seq(Items) /\ b \in Books /\ i \in DOMAIN b.items /\ b.items[i] \in Items
  BY DEF Sound, Books, Item, RemovalAllowed
<1>2. row \in Items /\ row.version = b.items[i].version
  BY <1>1 DEF Items
<1>3. removeItem(b, i) = [b EXCEPT !.items = [b.items EXCEPT ![i] = row]]
  BY DEF removeItem
<1> HIDE DEF row
<1>4. PICK t : t = [b.items EXCEPT ![i] = row]
  OBVIOUS
<1>5. /\ t \in Seq(Items) /\ DOMAIN t = DOMAIN b.items /\ t[i] = row
      /\ \A q \in DOMAIN b.items \ {i} : t[q] = b.items[q]
  BY <1>1, <1>2, <1>4, RowReplaced
<1>6. PICK c : c = [b EXCEPT !.items = t]
  OBVIOUS
<1>7. removeItem(b, i) = c
  BY <1>3, <1>4, <1>6
<1>8. \A a \in DOMAIN b.allocations : b.allocations[a].item # i
  BY DEF RemovalAllowed, EarmarksOf
<1>9. \A a \in DOMAIN b.allocations : /\ b.allocations[a].item \in DOMAIN t
                                      /\ ~t[b.allocations[a].item].gone
  BY <1>5, <1>8 DEF Sound, KeysHold, Item
<1>10. Sound(c)
  BY <1>5, <1>6, <1>9, ItemsChange
<1>11. c.items = t /\ c.people = b.people
  BY <1>1, <1>6 DEF Books
<1> QED BY <1>2, <1>5, <1>7, <1>10, <1>11

\* An allocation leaves sound books, ...
LEMMA Allocated ==
  ASSUME NEW b, Sound(b), NEW f, NEW i, AllocationAllowed(b, f, i), NEW value \in Nat
  PROVE  LET c == allocate(b, f, i, value)
         IN Sound(c) /\ c.people = b.people /\ c.items = b.items
<1> DEFINE row == [payment |-> f, item |-> i, value |-> value]
           n == Len(b.allocations) + 1
<1>1. /\ b.allocations \in Seq(Allocations) /\ b \in Books
      /\ f \in DOMAIN b.payments /\ Item(b, i)
  BY DEF Sound, Books, AllocationAllowed
<1>2. row \in Allocations /\ row.payment = f /\ row.item = i
  <2>1. f \in Nat /\ i \in Nat
    BY <1>1 DEF Books, Item
  <2> QED BY <2>1 DEF Allocations
<1>3. allocate(b, f, i, value) = [b EXCEPT !.allocations = Append(@, row)]
  BY DEF allocate
<1> HIDE DEF row
<1>4. PICK t : t = Append(b.allocations, row)
  OBVIOUS
<1>5. /\ t \in Seq(Allocations) /\ DOMAIN t = DOMAIN b.allocations \cup {n}
      /\ t[n] = row /\ \A q \in DOMAIN b.allocations : t[q] = b.allocations[q]
  BY <1>1, <1>2, <1>4, RowAdded
<1>6. PICK c : c = [b EXCEPT !.allocations = t]
  OBVIOUS
<1>7. allocate(b, f, i, value) = c
  BY <1>3, <1>4, <1>6
<1> HIDE DEF n
<1>8. \A a \in DOMAIN t : t[a].payment \in DOMAIN b.payments /\ Item(b, t[a].item)
  BY <1>1, <1>2, <1>5 DEF Sound, KeysHold
<1>9. Sound(c)
  BY <1>5, <1>6, <1>8, AllocationsChange
<1> QED BY <1>1, <1>6, <1>7, <1>9 DEF Books

\* and groups.
LEMMA GroupCreated ==
  ASSUME NEW b, Sound(b)
  PROVE  LET c == createGroup(b)
         IN Sound(c) /\ c.people = b.people /\ c.items = b.items
<1>1. b.groups \in Seq(Groups) /\ b \in Books /\ {} \in Groups
  BY DEF Sound, Books, Groups
<1>2. PICK t : t = Append(b.groups, {})
  OBVIOUS
<1>3. /\ t \in Seq(Groups) /\ DOMAIN t = DOMAIN b.groups \cup {Len(b.groups) + 1}
      /\ t[Len(b.groups) + 1] = {} /\ \A g \in DOMAIN b.groups : t[g] = b.groups[g]
  BY <1>1, <1>2, RowAdded
<1>4. PICK c : c = [b EXCEPT !.groups = t]
  OBVIOUS
<1>5. createGroup(b) = c
  BY <1>2, <1>4 DEF createGroup
<1>6. \A g \in DOMAIN t : t[g] \subseteq Persons(b)
  BY <1>3 DEF Sound, KeysHold
<1>7. Sound(c)
  BY <1>3, <1>4, <1>6, GroupsChange
<1> QED BY <1>1, <1>4, <1>5, <1>7 DEF Books

\* ... and so does an assignment to a group.
LEMMA PersonAssigned ==
  ASSUME NEW b, Sound(b), NEW p, NEW g, AssignmentAllowed(b, p, g)
  PROVE  LET c == assignPerson(b, p, g)
         IN Sound(c) /\ c.people = b.people /\ c.items = b.items
<1>1. /\ b.groups \in Seq(Groups) /\ b \in Books /\ g \in DOMAIN b.groups
      /\ b.groups[g] \subseteq Persons(b) /\ p \in Persons(b)
  BY DEF Sound, Books, KeysHold, AssignmentAllowed, Persons, Person
<1>2. PICK row : row = b.groups[g] \cup {p}
  OBVIOUS
<1>3. row \in Groups /\ row \subseteq Persons(b)
  <2>1. Persons(b) \subseteq Nat
    BY DEF Sound, Books, Persons
  <2> QED BY <1>1, <1>2, <2>1 DEF Groups
<1>4. PICK t : t = [b.groups EXCEPT ![g] = row]
  OBVIOUS
<1>5. /\ t \in Seq(Groups) /\ DOMAIN t = DOMAIN b.groups /\ t[g] = row
      /\ \A k \in DOMAIN b.groups \ {g} : t[k] = b.groups[k]
  BY <1>1, <1>3, <1>4, RowReplaced
<1>6. PICK c : c = [b EXCEPT !.groups = t]
  OBVIOUS
<1>7. assignPerson(b, p, g) = c
  BY <1>2, <1>4, <1>6 DEF assignPerson
<1>8. \A k \in DOMAIN t : t[k] \subseteq Persons(b)
  BY <1>3, <1>5 DEF Sound, KeysHold
<1>9. Sound(c)
  BY <1>5, <1>6, <1>8, GroupsChange
<1> QED BY <1>1, <1>6, <1>7, <1>9 DEF Books

-----------------------------------------------------------------------------
(* What is looked up before a write.                                       *)

\* What a call in progress has read, by what it is about to do.
CallTyped(c) ==
  /\ at(c, "phone") => clerk[c].phone \in Phones \cup {0}
  /\ at(c, "insert") => clerk[c].phone \in Phones \cup {0}
  /\ at(c, "contact") => clerk[c].phone \in Phones
  /\ at(c, "merge") =>
       /\ clerk[c].source # clerk[c].target
       /\ clerk[c].target \in DOMAIN books.people
       /\ clerk[c].mine \in Nat /\ clerk[c].its \in Nat
       /\ 0 \in {clerk[c].mine, clerk[c].its} \/ clerk[c].mine = clerk[c].its
  /\ at(c, "item") =>
       /\ clerk[c].item \in DOMAIN books.items
       /\ clerk[c].target \in Nat /\ clerk[c].public \in BOOLEAN
       /\ clerk[c].version \in Nat /\ clerk[c].expected \in {0, clerk[c].version}
       /\ clerk[c].version <= books.items[clerk[c].item].version

\* The books are sound, and every call has read something of its kind.
BooksInv ==
  /\ Sound(books)
  /\ DOMAIN clerk = Clerks
  /\ \A c \in Clerks : CallTyped(c)

\* A number that a call is about to write was nobody's when it was looked up,
\* unless somebody said it is shared or it is shared already.
LookedUp(c) ==
  (at(c, "insert") \/ at(c, "contact")) =>
    \/ clerk[c].confirmed \/ clerk[c].holders = {}
    \/ clerk[c].phone \in {0} \cup shared \cup crossed

\* A line that was edited at a version is past that version.
EditsArePast ==
  \A j \in DOMAIN edits :
    edits[j].expected # 0 =>
      /\ edits[j].item \in DOMAIN books.items
      /\ edits[j].expected < books.items[edits[j].item].version

ChecksInv ==
  /\ \A c \in Clerks : LookedUp(c)
  /\ linked \subseteq Users
  /\ edits \in Seq([item : Nat, expected : Nat, overlapped : BOOLEAN])
  /\ EditsArePast
  /\ ChecksHoldUnlessCrossed

\* No row goes and no version goes back.
Grows ==
  /\ DOMAIN books.people \subseteq DOMAIN books'.people
  /\ DOMAIN books.items \subseteq DOMAIN books'.items
  /\ \A i \in DOMAIN books.items : books.items[i].version <= books'.items[i].version

\* The numbers and accounts are numbers.
LEMMA NumbersAreNat ==
  /\ Phones \subseteq Nat \ {0} /\ Users \subseteq Nat \ {0} /\ Amounts \subseteq Nat
  /\ Phones \cup {0} \subseteq Nat
BY OfficeAssumption

\* Versions and targets of lines are numbers.
LEMMA VersionsAreNat ==
  ASSUME Sound(books)
  PROVE  \A i \in DOMAIN books.items : books.items[i].version \in Nat /\ books.items[i].target \in Nat
BY Tables DEF Items

\* The budget is as it was.
LEMMA ItemsStay ==
  ASSUME Sound(books), books'.items = books.items,
         DOMAIN books.people \subseteq DOMAIN books'.people
  PROVE  Grows
<1>1. \A i \in DOMAIN books.items : books.items[i].version <= books.items[i].version
  BY VersionsAreNat
<1> QED BY <1>1 DEF Grows

\* The calls that are one step.
LEMMA StepsKeepBooks ==
  ASSUME Sound(books), PledgeCall \/ PaymentCall \/ BudgetCall \/ GroupCall
  PROVE  Sound(books') /\ Grows /\ books'.people = books.people /\ UNCHANGED officeVars
<1>1. ASSUME NEW op, NEW action, NEW after, applies(op, action, after)
      PROVE  books' = after /\ UNCHANGED officeVars
  BY <1>1 DEF applies, commits
<1>2. ASSUME NEW after, books' = after, Sound(after), after.people = books.people,
             after.items = books.items
      PROVE  Sound(books') /\ Grows /\ books'.people = books.people
  BY <1>2, ItemsStay
<1>3. CASE PledgeCall
  <2>1. CASE \E p \in Persons(books), v \in Amounts :
               applies("createPledge", "pledge:write", createPledge(books, p, v))
    <3>1. PICK p \in Persons(books), v \in Amounts :
               applies("createPledge", "pledge:write", createPledge(books, p, v))
      BY <2>1
    <3>2. Person(books, p) /\ v \in Nat
      BY NumbersAreNat DEF Persons
    <3> QED BY <1>1, <1>2, <3>1, <3>2, PledgeCreated
  <2>2. CASE \E l \in DOMAIN books.pledges :
               applies("cancelPledge", "pledge:cancel", cancelPledge(books, l))
    <3>1. PICK l \in DOMAIN books.pledges :
               applies("cancelPledge", "pledge:cancel", cancelPledge(books, l))
      BY <2>2
    <3>2. cancelPledge(books, l) \in {cancelPledge(books, l), correctCommittedValue(books, l, 1)}
          /\ 1 \in Nat
      OBVIOUS
    <3> QED BY <1>1, <1>2, <3>1, <3>2, PledgeChanged
  <2>3. CASE \E l \in DOMAIN books.pledges, v \in Amounts :
               applies("correctCommittedValue", "fulfillment:correct", correctCommittedValue(books, l, v))
    <3>1. PICK l \in DOMAIN books.pledges, v \in Amounts :
               applies("correctCommittedValue", "fulfillment:correct", correctCommittedValue(books, l, v))
      BY <2>3
    <3>2. correctCommittedValue(books, l, v) \in {cancelPledge(books, l), correctCommittedValue(books, l, v)}
          /\ v \in Nat
      BY NumbersAreNat
    <3> QED BY <1>1, <1>2, <3>1, <3>2, PledgeChanged
  <2> QED BY <1>3, <2>1, <2>2, <2>3 DEF PledgeCall
<1>4. CASE PaymentCall
  <2>1. CASE \E l \in DOMAIN books.pledges, v \in Amounts :
               /\ PaymentAllowed(books, l, v)
               /\ applies("recordFulfillment", "fulfillment:write", recordFulfillment(books, l, v))
    <3>1. PICK l \in DOMAIN books.pledges, v \in Amounts :
               /\ PaymentAllowed(books, l, v)
               /\ applies("recordFulfillment", "fulfillment:write", recordFulfillment(books, l, v))
      BY <2>1
    <3>2. v \in Nat
      BY NumbersAreNat
    <3> QED BY <1>1, <1>2, <3>1, <3>2, PaymentRecorded
  <2>2. CASE \E p \in Persons(books), v, w \in Amounts :
               /\ w <= v
               /\ applies("recordPledgeWithPayment", "fulfillment:write", recordPledgeWithPayment(books, p, v, w))
    <3>1. PICK p \in Persons(books), v \in Amounts, w \in Amounts :
               applies("recordPledgeWithPayment", "fulfillment:write", recordPledgeWithPayment(books, p, v, w))
      BY <2>2
    <3>2. Person(books, p) /\ v \in Nat /\ w \in Nat
      BY NumbersAreNat DEF Persons
    <3> QED BY <1>1, <1>2, <3>1, <3>2, PledgePaid
  <2>3. CASE \E f \in DOMAIN books.payments, v \in Amounts :
               /\ CorrectionAllowed(books, f, v)
               /\ applies("correctValue", "fulfillment:correct", correctValue(books, f, v))
    <3>1. PICK f \in DOMAIN books.payments, v \in Amounts :
               applies("correctValue", "fulfillment:correct", correctValue(books, f, v))
      BY <2>3
    <3>2. v \in Nat
      BY NumbersAreNat
    <3> QED BY <1>1, <1>2, <3>1, <3>2, PaymentCorrected
  <2> QED BY <1>4, <2>1, <2>2, <2>3 DEF PaymentCall
<1>5. CASE BudgetCall
  <2>1. CASE \E v \in Amounts : applies("addItem", "budget:write", addItem(books, "line", v))
    <3>1. PICK v \in Amounts : applies("addItem", "budget:write", addItem(books, "line", v))
      BY <2>1
    <3>2. v \in Nat
      BY NumbersAreNat
    <3>3. PICK after : after = addItem(books, "line", v)
      OBVIOUS
    <3>4. /\ Sound(after) /\ after.people = books.people /\ DOMAIN books.items \subseteq DOMAIN after.items
          /\ \A i \in DOMAIN books.items : after.items[i] = books.items[i]
      BY <3>2, <3>3, ItemAdded
    <3>5. books' = after /\ UNCHANGED officeVars
      BY <1>1, <3>1, <3>3
    <3>6. \A i \in DOMAIN books.items : books.items[i].version <= after.items[i].version
      BY <3>4, VersionsAreNat
    <3> QED BY <3>4, <3>5, <3>6 DEF Grows
  <2>2. CASE \E i \in Budget(books) :
               RemovalAllowed(books, i) /\ applies("removeItem", "budget:write", removeItem(books, i))
    <3>1. PICK i \in Budget(books) :
               RemovalAllowed(books, i) /\ applies("removeItem", "budget:write", removeItem(books, i))
      BY <2>2
    <3>2. PICK after : after = removeItem(books, i)
      OBVIOUS
    <3>3. /\ Sound(after) /\ after.people = books.people /\ DOMAIN after.items = DOMAIN books.items
          /\ \A j \in DOMAIN books.items : after.items[j].version = books.items[j].version
      BY <3>1, <3>2, ItemRemoved
    <3>4. books' = after /\ UNCHANGED officeVars
      BY <1>1, <3>1, <3>2
    <3>5. \A j \in DOMAIN books.items : books.items[j].version <= after.items[j].version
      BY <3>3, VersionsAreNat
    <3> QED BY <3>3, <3>4, <3>5 DEF Grows
  <2>3. CASE \E f \in DOMAIN books.payments, i \in Budget(books), v \in Amounts :
               /\ AllocationAllowed(books, f, i)
               /\ applies("allocate", "budget:write", allocate(books, f, i, v))
    <3>1. PICK f \in DOMAIN books.payments, i \in Budget(books), v \in Amounts :
               /\ AllocationAllowed(books, f, i)
               /\ applies("allocate", "budget:write", allocate(books, f, i, v))
      BY <2>3
    <3>2. v \in Nat
      BY NumbersAreNat
    <3> QED BY <1>1, <1>2, <3>1, <3>2, Allocated
  <2> QED BY <1>5, <2>1, <2>2, <2>3 DEF BudgetCall
<1>6. CASE GroupCall
  <2>1. CASE applies("createGroup", "group:write", createGroup(books))
    BY <1>1, <1>2, <2>1, GroupCreated
  <2>2. CASE \E p \in Persons(books), g \in DOMAIN books.groups :
               /\ AssignmentAllowed(books, p, g)
               /\ applies("assignPerson", "group:write", assignPerson(books, p, g))
    BY <1>1, <1>2, <2>2, PersonAssigned
  <2> QED BY <1>6, <2>1, <2>2 DEF GroupCall
<1> QED BY <1>3, <1>4, <1>5, <1>6

\* What a call has read stays good as the books grow.
LEMMA CallKept ==
  ASSUME BooksInv, Sound(books'), Grows, NEW c \in Clerks, clerk'[c] = clerk[c]
  PROVE  CallTyped(c)'
<1>1. CallTyped(c)
  BY DEF BooksInv
<1>2. \A i \in DOMAIN books.items : books.items[i].version \in Nat
  BY VersionsAreNat DEF BooksInv
<1>3. \A i \in DOMAIN books'.items : books'.items[i].version \in Nat
  BY Tables DEF Items
<1>4. ASSUME at(c, "item")
      PROVE  /\ clerk[c].item \in DOMAIN books'.items
             /\ clerk[c].version <= books'.items[clerk[c].item].version
  <2>1. /\ clerk[c].item \in DOMAIN books.items /\ clerk[c].version \in Nat
        /\ clerk[c].version <= books.items[clerk[c].item].version
    BY <1>1, <1>4 DEF CallTyped
  <2>2. /\ clerk[c].item \in DOMAIN books'.items
        /\ books.items[clerk[c].item].version <= books'.items[clerk[c].item].version
    BY <2>1 DEF Grows
  <2>3. PICK n, m, k : n = clerk[c].version /\ m = books.items[clerk[c].item].version
                       /\ k = books'.items[clerk[c].item].version
    OBVIOUS
  <2>4. n \in Nat /\ m \in Nat /\ k \in Nat /\ n <= m /\ m <= k
    BY <1>2, <1>3, <2>1, <2>2, <2>3
  <2>5. n <= k
    BY <2>4
  <2> QED BY <2>2, <2>3, <2>5
<1>5. ASSUME at(c, "merge") PROVE clerk[c].target \in DOMAIN books'.people
  BY <1>1, <1>5 DEF CallTyped, Grows
<1> QED BY <1>1, <1>4, <1>5 DEF CallTyped, at

\* A call goes on, or ends, and the others stay.
LEMMA CallGoesOn ==
  ASSUME BooksInv, Sound(books'), Grows, NEW c \in Clerks, NEW call, goes(c, call), CallTyped(c)'
  PROVE  BooksInv'
<1>1. DOMAIN clerk' = Clerks /\ \A d \in Clerks \ {c} : clerk'[d] = clerk[d]
  BY DEF goes, BooksInv
<1>2. \A d \in Clerks : CallTyped(d)'
  BY <1>1, CallKept
<1> QED BY <1>1, <1>2 DEF BooksInv

\* A call that ends holds nothing any more.
LEMMA CallEnds ==
  ASSUME BooksInv, Sound(books'), Grows, NEW c \in Clerks, ends(c)
  PROVE  BooksInv'
<1>1. goes(c, NoCall) /\ clerk'[c] = NoCall
  BY DEF ends, goes, BooksInv
<1>2. CallTyped(c)'
  BY <1>1 DEF CallTyped, at, NoCall
<1> QED BY <1>1, <1>2, CallGoesOn

\* The books do not change.
LEMMA BooksStay ==
  ASSUME Sound(books), books' = books
  PROVE  Sound(books') /\ Grows
<1>1. DOMAIN books.people \subseteq DOMAIN books'.people /\ books'.items = books.items
  OBVIOUS
<1> QED BY <1>1, ItemsStay

\* The steps of the calls that take several.
LEMMA DesksKeepBooks ==
  ASSUME BooksInv, NEW c \in Clerks, ClerkStep(c)
  PROVE  BooksInv' /\ Grows
<1>0. Sound(books) /\ CallTyped(c) /\ DOMAIN clerk = Clerks
  BY DEF BooksInv
<1>a. ASSUME NEW call, goes(c, call) PROVE clerk'[c] = call
  BY <1>0, <1>a DEF goes
<1>1. CASE checkContributors(c)
  <2>1. PICK phone \in Phones \cup {0}, confirmed \in BOOLEAN :
             goes(c, [pc |-> "phone", phone |-> phone, confirmed |-> confirmed])
    BY <1>1 DEF checkContributors
  <2>2. CallTyped(c)'
    <3>1. clerk'[c].pc = "phone" /\ clerk'[c].phone = phone
      BY <1>a, <2>1
    <3> QED BY <3>1 DEF CallTyped, at
  <2>3. books' = books
    BY <1>1 DEF checkContributors
  <2> QED BY <1>0, <2>1, <2>2, <2>3, BooksStay, CallGoesOn
<1>2. CASE checkPhone(c)
  <2>1. books' = books
    BY <1>2 DEF checkPhone
  <2>2. Sound(books') /\ Grows
    BY <1>0, <2>1, BooksStay
  <2>3. CASE ends(c)
    BY <2>2, <2>3, CallEnds
  <2>4. CASE ~ends(c)
    <3>1. goes(c, [pc |-> "insert", phone |-> clerk[c].phone, confirmed |-> clerk[c].confirmed,
                   holders |-> Holders(clerk[c].phone, 0)])
      BY <1>2, <2>4 DEF checkPhone
    <3>2. clerk[c].phone \in Phones \cup {0}
      BY <1>0, <1>2 DEF checkPhone, CallTyped
    <3>3. CallTyped(c)'
      <4>1. clerk'[c].pc = "insert" /\ clerk'[c].phone = clerk[c].phone
        BY <1>a, <3>1
      <4> QED BY <3>2, <4>1 DEF CallTyped, at
    <3> QED BY <2>2, <3>1, <3>3, CallGoesOn
  <2> QED BY <2>3, <2>4
<1>3. CASE insertPerson(c)
  <2>1. books' = createPerson(books, "someone", clerk[c].phone) /\ ends(c)
    BY <1>3 DEF insertPerson, commits
  <2>2. clerk[c].phone \in Nat
    BY <1>0, <1>3, NumbersAreNat DEF insertPerson, CallTyped
  <2>3. PICK after, k : after = createPerson(books, "someone", clerk[c].phone) /\ k = Len(books.people) + 1
    OBVIOUS
  <2>4. /\ Sound(after) /\ after.items = books.items
        /\ DOMAIN books.people \subseteq DOMAIN after.people
    BY <1>0, <2>2, <2>3, PersonCreated
  <2>5. books' = after
    BY <2>1, <2>3
  <2> QED BY <1>0, <2>1, <2>4, <2>5, ItemsStay, CallEnds
<1>4. CASE readContact(c)
  <2>1. PICK p \in Persons(books), phone \in Phones, confirmed \in BOOLEAN :
             goes(c, [pc |-> "contact", person |-> p, phone |-> phone, confirmed |-> confirmed,
                      holders |-> Holders(phone, p)])
    BY <1>4 DEF readContact
  <2>2. CallTyped(c)'
    <3>1. clerk'[c].pc = "contact" /\ clerk'[c].phone = phone
      BY <1>a, <2>1
    <3> QED BY <3>1 DEF CallTyped, at
  <2>3. books' = books
    BY <1>4 DEF readContact
  <2> QED BY <1>0, <2>1, <2>2, <2>3, BooksStay, CallGoesOn
<1>5. CASE writeContact(c)
  <2>1. ends(c) /\ at(c, "contact")
    BY <1>5 DEF writeContact
  <2>2. CASE Person(books, clerk[c].person)
    <3>1. books' = updateContact(books, clerk[c].person, clerk[c].phone)
      BY <1>5, <2>2 DEF writeContact, commits
    <3>2. clerk[c].phone \in Nat
      BY <1>0, <2>1, NumbersAreNat DEF CallTyped
    <3>3. /\ Sound(books') /\ books'.items = books.items
          /\ DOMAIN books.people \subseteq DOMAIN books'.people
      BY <1>0, <2>2, <3>1, <3>2, ContactUpdated
    <3> QED BY <1>0, <2>1, <3>3, ItemsStay, CallEnds
  <2>3. CASE ~Person(books, clerk[c].person)
    <3>1. books' = books
      BY <1>5, <2>3 DEF writeContact
    <3> QED BY <1>0, <2>1, <3>1, BooksStay, CallEnds
  <2> QED BY <2>2, <2>3
<1>6. CASE readMerge(c)
  <2>1. PICK source \in Persons(books), target \in Persons(books) :
          /\ MergeAllowed(books, source, target)
          /\ goes(c, [pc |-> "merge", source |-> source, target |-> target,
                      mine |-> books.people[source].user, its |-> books.people[target].user])
    BY <1>6 DEF readMerge
  <2>2. source \in DOMAIN books.people /\ target \in DOMAIN books.people
    BY DEF Persons
  <2>3. books' = books
    BY <1>6 DEF readMerge
  <2>4. CallTyped(c)'
    <3>1. /\ clerk'[c].pc = "merge" /\ clerk'[c].source = source /\ clerk'[c].target = target
          /\ clerk'[c].mine = books.people[source].user /\ clerk'[c].its = books.people[target].user
      BY <1>a, <2>1
    <3>2. books.people[source].user \in Nat /\ books.people[target].user \in Nat
      BY <1>0, <2>2, Tables DEF People
    <3> QED BY <2>1, <2>2, <2>3, <3>1, <3>2 DEF CallTyped, at, MergeAllowed
  <2> QED BY <1>0, <2>1, <2>3, <2>4, BooksStay, CallGoesOn
<1>7. CASE writeMerge(c)
  <2> DEFINE m == clerk[c]
             heir == IF m.its = 0 /\ m.mine # 0 THEN m.mine ELSE books.people[m.target].user
             fine == /\ Person(books, m.source)
                     /\ \/ Person(books, m.target)
                        \/ PledgesOf(books, m.source) = {} /\ heir = books.people[m.target].user
  <2>1. ends(c) /\ at(c, "merge")
    BY <1>7 DEF writeMerge
  <2>2. /\ m.source # m.target /\ m.target \in DOMAIN books.people /\ m.mine \in Nat /\ m.its \in Nat
    BY <1>0, <2>1 DEF CallTyped
  <2>3. heir \in Nat
    <3>1. books.people[m.target].user \in Nat
      BY <1>0, <2>2, Tables DEF People
    <3> QED BY <2>2, <3>1
  <2>4. CASE fine
    <3>1. books' = [mergePeople(books, m.source, m.target) EXCEPT !.people[m.target].user = heir]
      BY <1>7, <2>4 DEF writeMerge, commits
    <3> HIDE DEF m, heir
    <3>2. /\ Sound(books') /\ books'.items = books.items
          /\ DOMAIN books.people \subseteq DOMAIN books'.people
      BY <1>0, <2>2, <2>3, <2>4, <3>1, PeopleMerged
    <3> QED BY <1>0, <2>1, <3>2, ItemsStay, CallEnds
  <2>5. CASE ~fine
    <3>1. books' = books
      BY <1>7, <2>5 DEF writeMerge
    <3> QED BY <1>0, <2>1, <3>1, BooksStay, CallEnds
  <2> QED BY <2>4, <2>5
<1>8. CASE readItem(c)
  <2>1. PICK i \in Budget(books), public \in BOOLEAN, expected \in 0 .. MaxVersion :
          \E target \in Amounts \cup {books.items[i].target} :
            /\ expected \in {0, books.items[i].version}
            /\ goes(c, [pc |-> "item", item |-> i, expected |-> expected, public |-> public,
                        version |-> books.items[i].version, target |-> target])
    BY <1>8 DEF readItem
  <2>2. i \in DOMAIN books.items /\ books.items[i].version \in Nat /\ books.items[i].target \in Nat
    BY <1>0, VersionsAreNat DEF Budget
  <2>3. books' = books
    BY <1>8 DEF readItem
  <2>4. PICK aim \in Amounts \cup {books.items[i].target} :
          goes(c, [pc |-> "item", item |-> i, expected |-> expected, public |-> public,
                   version |-> books.items[i].version, target |-> aim])
    BY <2>1
  <2>5. aim \in Nat
    BY <2>2, <2>4, NumbersAreNat
  <2>6. CallTyped(c)'
    <3>1. /\ clerk'[c].pc = "item" /\ clerk'[c].item = i /\ clerk'[c].expected = expected
          /\ clerk'[c].public = public /\ clerk'[c].version = books.items[i].version
          /\ clerk'[c].target = aim
      BY <1>a, <2>4
    <3>2. books.items[i].version <= books.items[i].version
      BY <2>2
    <3> QED BY <2>1, <2>2, <2>3, <2>5, <3>1, <3>2 DEF CallTyped, at
  <2> QED BY <1>0, <2>3, <2>4, <2>6, BooksStay, CallGoesOn
<1>9. CASE writeItem(c)
  <2>1. ends(c) /\ at(c, "item")
    BY <1>9 DEF writeItem
  <2>2. CASE Item(books, clerk[c].item)
    <3>1. books' = updateItem(books, clerk[c].item, clerk[c].target, clerk[c].public)
      BY <1>9, <2>2 DEF writeItem, commits
    <3>2. clerk[c].target \in Nat /\ clerk[c].public \in BOOLEAN
      BY <1>0, <2>1 DEF CallTyped
    <3>3. PICK i : i = clerk[c].item
      OBVIOUS
    <3>4. /\ Sound(books') /\ books'.people = books.people
          /\ DOMAIN books'.items = DOMAIN books.items
          /\ books'.items[i].version = books.items[i].version + 1
          /\ \A j \in DOMAIN books.items \ {i} : books'.items[j] = books.items[j]
      BY <1>0, <2>2, <3>1, <3>2, <3>3, ItemUpdated
    <3>5. Grows
      <4>1. \A j \in DOMAIN books.items : books.items[j].version \in Nat
        BY <1>0, VersionsAreNat
      <4>2. ASSUME NEW j \in DOMAIN books.items
            PROVE  books.items[j].version <= books'.items[j].version
        BY <3>4, <4>1
      <4> QED BY <3>4, <4>2 DEF Grows
    <3> QED BY <2>1, <3>4, <3>5, CallEnds
  <2>3. CASE ~Item(books, clerk[c].item)
    <3>1. books' = books
      BY <1>9, <2>3 DEF writeItem
    <3> QED BY <1>0, <2>1, <3>1, BooksStay, CallEnds
  <2> QED BY <2>2, <2>3
<1>10. CASE readSettings(c)
  <2>1. PICK asked \in Asks : goes(c, [pc |-> "settings", asked |-> asked, before |-> settings])
    BY <1>10 DEF readSettings
  <2>2. CallTyped(c)'
    <3>1. clerk'[c].pc = "settings"
      BY <1>a, <2>1
    <3> QED BY <3>1 DEF CallTyped, at
  <2>3. books' = books
    BY <1>10 DEF readSettings
  <2> QED BY <1>0, <2>1, <2>2, <2>3, BooksStay, CallGoesOn
<1>11. CASE writeSettings(c)
  <2>1. books' = books /\ ends(c)
    BY <1>11 DEF writeSettings
  <2> QED BY <1>0, <2>1, BooksStay, CallEnds
<1> QED BY <1>1, <1>2, <1>3, <1>4, <1>5, <1>6, <1>7, <1>8, <1>9, <1>10, <1>11 DEF ClerkStep

\* Every step leaves sound books, and books that have grown.
LEMMA BooksStep ==
  ASSUME BooksInv, [OfficeNext]_allVars
  PROVE  BooksInv' /\ Grows
<1>0. Sound(books)
  BY DEF BooksInv
<1>1. ASSUME Sound(books'), Grows, clerk' = clerk PROVE BooksInv'
  <2>1. \A d \in Clerks : CallTyped(d)'
    BY <1>1, CallKept
  <2> QED BY <1>1, <2>1 DEF BooksInv
<1>2. CASE \E c \in Clerks : ClerkStep(c)
  BY <1>2, DesksKeepBooks
<1>3. CASE linkAccount
  <2>1. PICK p \in Persons(books), user \in Users :
             books' = linkPersonToUser(books, p, user) /\ clerk' = clerk
    BY <1>3 DEF linkAccount, commits
  <2>2. Person(books, p) /\ user \in Nat
    BY NumbersAreNat DEF Persons
  <2>3. /\ Sound(books') /\ books'.items = books.items
        /\ DOMAIN books.people \subseteq DOMAIN books'.people
    BY <1>0, <2>1, <2>2, AccountLinked
  <2> QED BY <1>0, <1>1, <2>1, <2>3, ItemsStay
<1>4. CASE PledgeCall \/ PaymentCall \/ BudgetCall \/ GroupCall
  BY <1>0, <1>1, <1>4, StepsKeepBooks DEF officeVars
<1>5. CASE PageCall \/ (Visit /\ UNCHANGED officeVars) \/ UNCHANGED allVars
  <2>1. books' = books /\ clerk' = clerk
    <3>1. CASE PageCall
      BY <3>1 DEF PageCall, officeVars, rotateAccessToken, announce, instruct
    <3>2. CASE Visit /\ UNCHANGED officeVars
      BY <3>2 DEF Visit, officeVars, resolve, reads, ReadPledged, ReadReceived, ReadPeople,
        ReadBreakdown, ReadActivity, ReadBudget, ReadNotices, Leave
    <3>3. CASE UNCHANGED allVars
      BY <3>3 DEF allVars, officeVars
    <3> QED BY <1>5, <3>1, <3>2, <3>3
  <2> QED BY <1>0, <1>1, <2>1, BooksStay
<1> QED BY <1>2, <1>3, <1>4, <1>5 DEF OfficeNext

\* The four checks, one by one.
Waiting == {c \in Clerks : clerk[c].pc \in {"phone", "insert"}}
CapHolds ==
  Cardinality(Persons(books)) + Cardinality(Waiting) <= maxContributors + Cardinality(Clerks) - 1
PhonesDiffer ==
  \A p, q \in Persons(books) :
    (p # q /\ books.people[p].phone = books.people[q].phone) =>
      books.people[p].phone \in {0} \cup shared \cup crossed
AccountsStay == \A u \in linked \ crossed : \E p \in Persons(books) : books.people[p].user = u
OneEdits ==
  \A j, k \in DOMAIN edits :
    (j < k /\ edits[j].item = edits[k].item /\ edits[j].expected = edits[k].expected)
      => edits[j].expected = 0 \/ edits[k].overlapped

\* Together they are the property, now and after a step.
LEMMA ChecksNamed ==
  /\ ChecksHoldUnlessCrossed <=> CapHolds /\ PhonesDiffer /\ AccountsStay /\ OneEdits
  /\ ChecksHoldUnlessCrossed' <=> CapHolds' /\ PhonesDiffer' /\ AccountsStay' /\ OneEdits'
<1>1. ChecksHoldUnlessCrossed <=> CapHolds /\ PhonesDiffer /\ AccountsStay /\ OneEdits
  BY Zenon DEF ChecksHoldUnlessCrossed, CapHolds, Waiting, PhonesDiffer, AccountsStay, OneEdits
<1>2. ChecksHoldUnlessCrossed' <=> CapHolds' /\ PhonesDiffer' /\ AccountsStay' /\ OneEdits'
  BY Zenon DEF ChecksHoldUnlessCrossed, CapHolds, Waiting, PhonesDiffer, AccountsStay, OneEdits
<1> QED BY <1>1, <1>2

EditRows == [item : Nat, expected : Nat, overlapped : BOOLEAN]

\* What the invariant gives, ...
LEMMA ChecksParts ==
  ASSUME ChecksInv
  PROVE  /\ CapHolds /\ PhonesDiffer /\ AccountsStay /\ OneEdits /\ EditsArePast
         /\ linked \subseteq Users /\ edits \in Seq(EditRows) /\ \A c \in Clerks : LookedUp(c)
BY ChecksNamed DEF ChecksInv, EditRows

\* ... and what has to be shown of it after a step.
LEMMA ChecksMade ==
  ASSUME CapHolds', PhonesDiffer', AccountsStay', OneEdits', EditsArePast',
         linked' \subseteq Users, edits' \in Seq(EditRows), \A c \in Clerks : LookedUp(c)'
  PROVE  ChecksInv'
<1>1. ChecksHoldUnlessCrossed'
  BY ChecksNamed
<1> QED BY <1>1 DEF ChecksInv, EditRows

\* Nobody comes in, nobody waits who did not wait.
LEMMA CapKept ==
  ASSUME Sound(books), CapHolds, Persons(books') \subseteq Persons(books), Waiting' \subseteq Waiting
  PROVE  CapHolds'
<1>1. IsFiniteSet(Persons(books)) /\ IsFiniteSet(Clerks)
  BY Tables, OfficeAssumption
<1>2. IsFiniteSet(Waiting) /\ Waiting \subseteq Clerks
  BY <1>1, FS_Subset DEF Waiting
<1>3. /\ Cardinality(Persons(books')) <= Cardinality(Persons(books))
      /\ Cardinality(Waiting') <= Cardinality(Waiting)
  BY <1>1, <1>2, FS_Subset
<1>4. /\ Cardinality(Persons(books')) \in Nat /\ Cardinality(Persons(books)) \in Nat
      /\ Cardinality(Waiting') \in Nat /\ Cardinality(Waiting) \in Nat /\ Cardinality(Clerks) \in Nat
      /\ maxContributors \in Nat
  <2>1. IsFiniteSet(Persons(books')) /\ IsFiniteSet(Waiting')
    BY <1>1, <1>2, FS_Subset
  <2> QED BY <1>1, <1>2, <2>1, FS_CardinalityType, OfficeAssumption
<1>5. PICK pn, pm, wn, wm, k : /\ pn = Cardinality(Persons(books')) /\ pm = Cardinality(Persons(books))
                               /\ wn = Cardinality(Waiting') /\ wm = Cardinality(Waiting)
                               /\ k = Cardinality(Clerks)
  OBVIOUS
<1>6. pm + wm <= maxContributors + k - 1
  BY <1>5 DEF CapHolds
<1>7. pn + wn <= maxContributors + k - 1
  BY <1>3, <1>4, <1>5, <1>6
<1> QED BY <1>5, <1>7 DEF CapHolds

\* What was looked up stays looked up.
LEMMA LookedUpKept ==
  ASSUME \A d \in Clerks : LookedUp(d), shared \subseteq shared', crossed \subseteq crossed',
         NEW d \in Clerks, clerk'[d] = clerk[d] \/ clerk'[d].pc \notin {"insert", "contact"}
  PROVE  LookedUp(d)'
<1>1. CASE clerk'[d].pc \notin {"insert", "contact"}
  BY <1>1 DEF LookedUp, at
<1>2. CASE clerk'[d] = clerk[d]
  <2>1. LookedUp(d)
    OBVIOUS
  <2> QED BY <1>2, <2>1 DEF LookedUp, at
<1> QED BY <1>1, <1>2

\* No version goes back.
LEMMA EditsStayPast ==
  ASSUME Sound(books), Sound(books'), Grows, EditsArePast, edits \in Seq(EditRows),
         NEW j \in DOMAIN edits, edits[j].expected # 0
  PROVE  edits[j].item \in DOMAIN books'.items /\ edits[j].expected < books'.items[edits[j].item].version
<1>1. \A i \in DOMAIN books.items : books.items[i].version \in Nat
  BY VersionsAreNat
<1>2. \A i \in DOMAIN books'.items : books'.items[i].version \in Nat
  BY Tables DEF Items
<1>3. PICK i, e, v, w : /\ i = edits[j].item /\ e = edits[j].expected
                        /\ v = books.items[i].version /\ w = books'.items[i].version
  OBVIOUS
<1>4. i \in DOMAIN books.items /\ e < v
  BY <1>3 DEF EditsArePast
<1>5. i \in DOMAIN books'.items /\ v <= w
  BY <1>3, <1>4 DEF Grows
<1>6. e \in Nat /\ v \in Nat /\ w \in Nat
  <2>1. edits[j] \in EditRows
    OBVIOUS
  <2>2. e \in Nat
    BY <1>3, <2>1 DEF EditRows
  <2> QED BY <1>1, <1>2, <1>3, <1>4, <1>5, <2>2
<1>7. e < w
  BY <1>4, <1>5, <1>6
<1> QED BY <1>3, <1>5, <1>7

\* No edit.
LEMMA EditsKept ==
  ASSUME Sound(books), Sound(books'), Grows, OneEdits, EditsArePast, edits \in Seq(EditRows),
         edits' = edits
  PROVE  OneEdits' /\ EditsArePast' /\ edits' \in Seq(EditRows)
<1>1. EditsArePast'
  BY EditsStayPast DEF EditsArePast
<1> QED BY <1>1 DEF OneEdits

\* The people's numbers and accounts are as they were.
LEMMA PeopleKept ==
  ASSUME PhonesDiffer, AccountsStay, Persons(books') = Persons(books),
         \A p \in Persons(books) : /\ books'.people[p].phone = books.people[p].phone
                                   /\ books'.people[p].user = books.people[p].user,
         shared' = shared, crossed' = crossed, linked' = linked
  PROVE  PhonesDiffer' /\ AccountsStay'
<1>1. PhonesDiffer'
  BY DEF PhonesDiffer
<1>2. AccountsStay'
  BY DEF AccountsStay
<1> QED BY <1>1, <1>2

\* The steps that none of the checks is about.
Quiet ==
  /\ books'.people = books.people
  /\ UNCHANGED <<shared, crossed, linked, edits>>
  /\ \A d \in Clerks : clerk'[d] = clerk[d] \/ clerk'[d].pc \notin {"phone", "insert", "contact"}

\* A step that touches nobody and no line keeps the checks.
LEMMA QuietKeepsChecks ==
  ASSUME BooksInv, BooksInv', Grows, ChecksInv, Quiet
  PROVE  ChecksInv'
<1>1. Sound(books) /\ Sound(books')
  BY DEF BooksInv
<1>2. /\ Persons(books') = Persons(books) /\ shared' = shared /\ crossed' = crossed
      /\ linked' = linked /\ edits' = edits
  BY DEF Quiet, Persons, Person
<1>3. Waiting' \subseteq Waiting
  BY DEF Quiet, Waiting
<1>4. CapHolds'
  BY <1>1, <1>2, <1>3, ChecksParts, CapKept
<1>5. OneEdits' /\ EditsArePast' /\ edits' \in Seq(EditRows)
  BY <1>1, <1>2, ChecksParts, EditsKept
<1>6. PhonesDiffer' /\ AccountsStay'
  BY <1>2, ChecksParts, PeopleKept DEF Quiet
<1>7. ASSUME NEW d \in Clerks PROVE LookedUp(d)'
  <2>1. clerk'[d] = clerk[d] \/ clerk'[d].pc \notin {"insert", "contact"}
    BY DEF Quiet
  <2> QED BY <1>2, <2>1, ChecksParts, LookedUpKept
<1>8. linked' \subseteq Users
  BY <1>2, ChecksParts
<1> QED BY <1>4, <1>5, <1>6, <1>7, <1>8, ChecksMade

\* createPerson: the entitlement, the phone, the row.
LEMMA CheckContributorsKeeps ==
  ASSUME BooksInv, BooksInv', Grows, ChecksInv, NEW c \in Clerks, checkContributors(c)
  PROVE  ChecksInv'
<1>0. /\ Sound(books) /\ Sound(books') /\ DOMAIN clerk = Clerks
      /\ CapHolds /\ PhonesDiffer /\ AccountsStay /\ OneEdits /\ EditsArePast
      /\ linked \subseteq Users /\ edits \in Seq(EditRows) /\ \A d \in Clerks : LookedUp(d)
  BY ChecksParts DEF BooksInv
<1>1. /\ books' = books /\ shared' = shared /\ crossed' = crossed /\ linked' = linked /\ edits' = edits
      /\ mayAddContributor
  BY DEF checkContributors
<1>2. PICK phone, confirmed : goes(c, [pc |-> "phone", phone |-> phone, confirmed |-> confirmed])
  BY DEF checkContributors
<1>3. clerk'[c].pc = "phone" /\ \A d \in Clerks \ {c} : clerk'[d] = clerk[d]
  BY <1>0, <1>2 DEF goes
<1>4. CapHolds'
  <2>1. IsFiniteSet(Clerks) /\ IsFiniteSet(Persons(books)) /\ Waiting' \subseteq Clerks
    BY <1>0, Tables, OfficeAssumption DEF Waiting
  <2>2. /\ Cardinality(Waiting') <= Cardinality(Clerks) /\ IsFiniteSet(Waiting')
        /\ Cardinality(Waiting') \in Nat /\ Cardinality(Clerks) \in Nat
        /\ Cardinality(Persons(books)) \in Nat /\ maxContributors \in Nat
    BY <2>1, FS_Subset, FS_CardinalityType, OfficeAssumption
  <2>3. PICK w, k, n : w = Cardinality(Waiting') /\ k = Cardinality(Clerks) /\ n = Cardinality(Persons(books))
    OBVIOUS
  <2>4. n + 1 <= maxContributors
    BY <1>1, <2>3 DEF mayAddContributor
  <2>5. n + w <= maxContributors + k - 1
    BY <2>2, <2>3, <2>4
  <2> QED BY <1>1, <2>3, <2>5 DEF CapHolds
<1>5. OneEdits' /\ EditsArePast' /\ edits' \in Seq(EditRows)
  BY <1>0, <1>1, EditsKept
<1>6. PhonesDiffer' /\ AccountsStay'
  BY <1>0, <1>1, PeopleKept
<1>7. \A d \in Clerks : LookedUp(d)'
  BY <1>0, <1>1, <1>3, LookedUpKept
<1> QED BY <1>0, <1>1, <1>4, <1>5, <1>6, <1>7, ChecksMade

\* The phone is looked up: its holders are those of this moment.
LEMMA CheckPhoneKeeps ==
  ASSUME BooksInv, BooksInv', Grows, ChecksInv, NEW c \in Clerks, checkPhone(c)
  PROVE  ChecksInv'
<1>0. /\ Sound(books) /\ Sound(books') /\ DOMAIN clerk = Clerks
      /\ CapHolds /\ PhonesDiffer /\ AccountsStay /\ OneEdits /\ EditsArePast
      /\ linked \subseteq Users /\ edits \in Seq(EditRows) /\ \A d \in Clerks : LookedUp(d)
  BY ChecksParts DEF BooksInv
<1>1. /\ books' = books /\ shared' = shared /\ crossed' = crossed /\ linked' = linked /\ edits' = edits
      /\ at(c, "phone")
  BY DEF checkPhone
<1>2. \A d \in Clerks \ {c} : clerk'[d] = clerk[d]
  BY <1>0 DEF checkPhone, goes, ends
<1>3. clerk'[c].pc # "contact" /\
        (clerk'[c].pc = "insert" => \/ clerk'[c].confirmed \/ clerk'[c].holders = {}
                                    \/ clerk'[c].phone = 0)
  <2>1. CASE ends(c)
    <3>1. clerk'[c] = NoCall
      BY <1>0, <2>1 DEF goes, ends
    <3> QED BY <3>1 DEF NoCall
  <2>2. CASE ~ends(c)
    <3>1. PICK phone, confirmed : phone = clerk[c].phone /\ confirmed = clerk[c].confirmed
      OBVIOUS
    <3>2. /\ confirmed \/ PhoneIsFree(books, phone, 0)
          /\ goes(c, [pc |-> "insert", phone |-> phone, confirmed |-> confirmed,
                      holders |-> Holders(phone, 0)])
      BY <2>2, <3>1 DEF checkPhone
    <3>3. /\ clerk'[c].pc = "insert" /\ clerk'[c].phone = phone /\ clerk'[c].confirmed = confirmed
          /\ clerk'[c].holders = Holders(phone, 0)
      BY <1>0, <3>2 DEF goes
    <3>4. PhoneIsFree(books, phone, 0) /\ phone # 0 => Holders(phone, 0) = {}
      BY DEF PhoneIsFree, Holders
    <3> QED BY <3>2, <3>3, <3>4
  <2> QED BY <2>1, <2>2
<1>4. Waiting' \subseteq Waiting
  BY <1>1, <1>2 DEF Waiting, at
<1>5. CapHolds'
  BY <1>0, <1>1, <1>4, CapKept
<1>6. OneEdits' /\ EditsArePast' /\ edits' \in Seq(EditRows)
  BY <1>0, <1>1, EditsKept
<1>7. PhonesDiffer' /\ AccountsStay'
  BY <1>0, <1>1, PeopleKept
<1>8. ASSUME NEW d \in Clerks PROVE LookedUp(d)'
  <2>1. CASE d # c
    BY <1>0, <1>1, <1>2, <2>1, LookedUpKept
  <2>2. CASE d = c
    BY <1>3, <2>2 DEF LookedUp, at
  <2> QED BY <2>1, <2>2
<1> QED BY <1>0, <1>1, <1>5, <1>6, <1>7, <1>8, ChecksMade

\* The row is inserted: whoever took the phone meanwhile marks it as crossed.
LEMMA InsertPersonKeeps ==
  ASSUME BooksInv, BooksInv', Grows, ChecksInv, NEW c \in Clerks, insertPerson(c)
  PROVE  ChecksInv'
<1>0. /\ Sound(books) /\ Sound(books') /\ DOMAIN clerk = Clerks
      /\ CapHolds /\ PhonesDiffer /\ AccountsStay /\ OneEdits /\ EditsArePast
      /\ linked \subseteq Users /\ edits \in Seq(EditRows) /\ \A d \in Clerks : LookedUp(d)
  BY ChecksParts DEF BooksInv
<1>1. /\ books' = createPerson(books, "someone", clerk[c].phone) /\ linked' = linked /\ edits' = edits
      /\ at(c, "insert") /\ ends(c) /\ attaches(clerk[c], 0)
  BY DEF insertPerson, commits
<1>2. PICK phone, n : phone = clerk[c].phone /\ n = Len(books.people) + 1
  OBVIOUS
<1>3. phone \in Phones \cup {0} /\ phone \in Nat
  BY <1>1, <1>2, NumbersAreNat DEF BooksInv, CallTyped
<1>4. /\ n \notin Persons(books) /\ Persons(books') = Persons(books) \cup {n}
      /\ books'.people[n].phone = phone
      /\ \A q \in Persons(books) : books'.people[q] = books.people[q]
  <2>1. PICK after : after = createPerson(books, "someone", phone)
    OBVIOUS
  <2>2. /\ n \notin Persons(books) /\ Persons(after) = Persons(books) \cup {n}
        /\ after.people[n].phone = phone
        /\ \A q \in Persons(books) : after.people[q] = books.people[q]
    BY <1>0, <1>2, <1>3, <2>1, PersonCreated
  <2>3. books' = after
    BY <1>1, <1>2, <2>1
  <2> QED BY <2>2, <2>3
<1>5. clerk'[c] = NoCall /\ \A d \in Clerks \ {c} : clerk'[d] = clerk[d]
  BY <1>0, <1>1 DEF goes, ends
<1>6. CapHolds'
  <2>1. IsFiniteSet(Persons(books)) /\ IsFiniteSet(Clerks) /\ Waiting \subseteq Clerks
    BY <1>0, Tables, OfficeAssumption DEF Waiting
  <2>2. Cardinality(Persons(books')) = Cardinality(Persons(books)) + 1
    BY <1>4, <2>1, FS_AddElement
  <2>3. c \in Waiting /\ Waiting' = Waiting \ {c}
    BY <1>1, <1>5 DEF Waiting, at, NoCall
  <2>4. IsFiniteSet(Waiting)
    BY <2>1, FS_Subset
  <2>5. Cardinality(Waiting') = Cardinality(Waiting) - 1
    BY <2>3, <2>4, FS_RemoveElement
  <2>6. Cardinality(Waiting) \in Nat /\ Cardinality(Persons(books)) \in Nat
    BY <2>1, <2>4, FS_CardinalityType
  <2>7. PICK w, p : w = Cardinality(Waiting) /\ p = Cardinality(Persons(books))
    OBVIOUS
  <2>8. (p + 1) + (w - 1) = p + w
    BY <2>6, <2>7
  <2> QED BY <1>0, <2>2, <2>5, <2>7, <2>8 DEF CapHolds
<1>7. shared \subseteq shared' /\ crossed \subseteq crossed'
  BY <1>1 DEF attaches
<1>8. OneEdits' /\ EditsArePast' /\ edits' \in Seq(EditRows)
  BY <1>0, <1>1, EditsKept
<1>9. \A q \in Persons(books) : books.people[q].phone = phone => phone \in {0} \cup shared' \cup crossed'
  <2> SUFFICES ASSUME NEW q \in Persons(books), books.people[q].phone = phone
               PROVE  phone \in {0} \cup shared' \cup crossed'
    OBVIOUS
  <2>1. q \in Holders(phone, 0)
    <3>1. q # 0
      BY <1>0 DEF Persons, Sound, Books
    <3> QED BY <3>1 DEF Holders
  <2>2. CASE clerk[c].confirmed
    BY <1>1, <1>2, <2>2 DEF attaches
  <2>3. CASE clerk[c].holders = {}
    BY <1>1, <1>2, <2>1, <2>3 DEF attaches
  <2>4. CASE phone \in {0} \cup shared \cup crossed
    BY <1>7, <2>4
  <2> QED BY <1>0, <1>1, <1>2, <2>2, <2>3, <2>4 DEF LookedUp
<1>10. PhonesDiffer'
  <2> SUFFICES ASSUME NEW p \in Persons(books'), NEW q \in Persons(books'), p # q,
                      books'.people[p].phone = books'.people[q].phone
               PROVE  books'.people[p].phone \in {0} \cup shared' \cup crossed'
    BY DEF PhonesDiffer
  <2>1. CASE p \in Persons(books) /\ q \in Persons(books)
    <3>1. books.people[p].phone \in {0} \cup shared \cup crossed
      BY <1>0, <1>4, <2>1 DEF PhonesDiffer
    <3> QED BY <1>4, <1>7, <2>1, <3>1
  <2>2. CASE p = n \/ q = n
    BY <1>4, <1>9, <2>2
  <2> QED BY <1>4, <2>1, <2>2
<1>11. AccountsStay'
  <2> SUFFICES ASSUME NEW u \in linked, u \notin crossed
               PROVE  \E p \in Persons(books') : books'.people[p].user = u
    BY <1>1, <1>7 DEF AccountsStay
  <2>1. PICK p \in Persons(books) : books.people[p].user = u
    BY <1>0 DEF AccountsStay
  <2> QED BY <1>4, <2>1
<1>12. ASSUME NEW d \in Clerks PROVE LookedUp(d)'
  <2>1. clerk'[d] = clerk[d] \/ clerk'[d].pc \notin {"insert", "contact"}
    BY <1>5 DEF NoCall
  <2> QED BY <1>0, <1>7, <2>1, LookedUpKept
<1> QED BY <1>0, <1>1, <1>6, <1>8, <1>10, <1>11, <1>12, ChecksMade

\* The contact is looked up.
LEMMA ReadContactKeeps ==
  ASSUME BooksInv, BooksInv', Grows, ChecksInv, NEW c \in Clerks, readContact(c)
  PROVE  ChecksInv'
<1>0. /\ Sound(books) /\ Sound(books') /\ DOMAIN clerk = Clerks
      /\ CapHolds /\ PhonesDiffer /\ AccountsStay /\ OneEdits /\ EditsArePast
      /\ linked \subseteq Users /\ edits \in Seq(EditRows) /\ \A d \in Clerks : LookedUp(d)
  BY ChecksParts DEF BooksInv
<1>1. /\ books' = books /\ shared' = shared /\ crossed' = crossed /\ linked' = linked /\ edits' = edits
      /\ at(c, "idle")
  BY DEF readContact
<1>2. PICK p \in Persons(books), phone \in Phones, confirmed \in BOOLEAN :
        /\ confirmed \/ phone = books.people[p].phone \/ PhoneIsFree(books, phone, p)
        /\ goes(c, [pc |-> "contact", person |-> p, phone |-> phone, confirmed |-> confirmed,
                    holders |-> Holders(phone, p)])
  BY DEF readContact
<1>3. /\ clerk'[c].pc = "contact" /\ clerk'[c].phone = phone /\ clerk'[c].confirmed = confirmed
      /\ clerk'[c].holders = Holders(phone, p)
      /\ \A d \in Clerks \ {c} : clerk'[d] = clerk[d]
  BY <1>0, <1>2 DEF goes
<1>4. confirmed \/ Holders(phone, p) = {} \/ phone \in {0} \cup shared \cup crossed
  <2>1. CASE confirmed
    BY <2>1
  <2>2. CASE phone = books.people[p].phone /\ Holders(phone, p) # {}
    <3>1. PICK q \in Persons(books) \ {p} : books.people[q].phone = phone
      BY <2>2 DEF Holders
    <3> QED BY <1>0, <2>2, <3>1 DEF PhonesDiffer
  <2>3. CASE PhoneIsFree(books, phone, p)
    BY <2>3 DEF PhoneIsFree, Holders
  <2> QED BY <1>2, <2>1, <2>2, <2>3
<1>5. Waiting' \subseteq Waiting
  BY <1>3 DEF Waiting
<1>6. CapHolds'
  BY <1>0, <1>1, <1>5, CapKept
<1>7. OneEdits' /\ EditsArePast' /\ edits' \in Seq(EditRows)
  BY <1>0, <1>1, EditsKept
<1>8. PhonesDiffer' /\ AccountsStay'
  BY <1>0, <1>1, PeopleKept
<1>9. ASSUME NEW d \in Clerks PROVE LookedUp(d)'
  <2>1. CASE d # c
    BY <1>0, <1>1, <1>3, <2>1, LookedUpKept
  <2>2. CASE d = c
    BY <1>1, <1>3, <1>4, <2>2 DEF LookedUp, at
  <2> QED BY <2>1, <2>2
<1> QED BY <1>0, <1>1, <1>6, <1>7, <1>8, <1>9, ChecksMade

\* The contact is written, to a person who is still there.
LEMMA WriteContactKeeps ==
  ASSUME BooksInv, BooksInv', Grows, ChecksInv, NEW c \in Clerks, writeContact(c)
  PROVE  ChecksInv'
<1>0. /\ Sound(books) /\ Sound(books') /\ DOMAIN clerk = Clerks
      /\ CapHolds /\ PhonesDiffer /\ AccountsStay /\ OneEdits /\ EditsArePast
      /\ linked \subseteq Users /\ edits \in Seq(EditRows) /\ \A d \in Clerks : LookedUp(d)
  BY ChecksParts DEF BooksInv
<1>1. linked' = linked /\ edits' = edits /\ at(c, "contact") /\ ends(c)
  BY DEF writeContact
<1>2. clerk'[c] = NoCall /\ \A d \in Clerks \ {c} : clerk'[d] = clerk[d]
  BY <1>0, <1>1 DEF goes, ends
<1>3. PICK p, phone : p = clerk[c].person /\ phone = clerk[c].phone
  OBVIOUS
<1>4. CASE ~Person(books, p)
  <2>1. books' = books /\ shared' = shared /\ crossed' = crossed
    BY <1>3, <1>4 DEF writeContact
  <2>2. Quiet
    <3>1. \A d \in Clerks : clerk'[d] = clerk[d] \/ clerk'[d].pc \notin {"phone", "insert", "contact"}
      BY <1>2 DEF NoCall
    <3> QED BY <1>1, <2>1, <3>1 DEF Quiet
  <2> QED BY <2>2, QuietKeepsChecks
<1>5. CASE Person(books, p)
  <2>1. attaches(clerk[c], p)
    BY <1>3, <1>5 DEF writeContact
  <2>2. PICK after : after = updateContact(books, p, phone)
    OBVIOUS
  <2>3. books' = after
    BY <1>3, <1>5, <2>2 DEF writeContact, commits
  <2>4. phone \in Nat
    BY <1>1, <1>3, NumbersAreNat DEF BooksInv, CallTyped
  <2>5. /\ Persons(after) = Persons(books)
        /\ after.people[p].phone = phone /\ after.people[p].user = books.people[p].user
        /\ \A q \in Persons(books) \ {p} : after.people[q] = books.people[q]
    BY <1>0, <1>5, <2>2, <2>4, ContactUpdated
  <2>6. shared \subseteq shared' /\ crossed \subseteq crossed'
    BY <2>1 DEF attaches
  <2>7. Waiting' \subseteq Waiting
    BY <1>2 DEF Waiting, NoCall
  <2>8. CapHolds'
    BY <1>0, <2>3, <2>5, <2>7, CapKept
  <2>9. OneEdits' /\ EditsArePast' /\ edits' \in Seq(EditRows)
    BY <1>0, <1>1, EditsKept
  <2>10. ASSUME NEW q \in Persons(books) \ {p}, books.people[q].phone = phone
         PROVE  phone \in {0} \cup shared' \cup crossed'
    <3>1. q \in Holders(phone, p)
      BY <2>10 DEF Holders
    <3>2. CASE clerk[c].confirmed
      BY <1>3, <2>1, <3>2 DEF attaches
    <3>3. CASE clerk[c].holders = {}
      BY <1>3, <2>1, <3>1, <3>3 DEF attaches
    <3>4. CASE phone \in {0} \cup shared \cup crossed
      BY <2>6, <3>4
    <3> QED BY <1>0, <1>1, <1>3, <3>2, <3>3, <3>4 DEF LookedUp
  <2>11. PhonesDiffer'
    <3> SUFFICES ASSUME NEW x \in Persons(after), NEW y \in Persons(after), x # y,
                        after.people[x].phone = after.people[y].phone
                 PROVE  after.people[x].phone \in {0} \cup shared' \cup crossed'
      BY <2>3 DEF PhonesDiffer
    <3>1. CASE x # p /\ y # p
      <4>1. books.people[x].phone \in {0} \cup shared \cup crossed
        BY <1>0, <2>5, <3>1 DEF PhonesDiffer
      <4> QED BY <2>5, <2>6, <3>1, <4>1
    <3>2. CASE x = p \/ y = p
      BY <2>5, <2>10, <3>2
    <3> QED BY <3>1, <3>2
  <2>12. AccountsStay'
    <3> SUFFICES ASSUME NEW u \in linked, u \notin crossed
                 PROVE  \E x \in Persons(after) : after.people[x].user = u
      BY <1>1, <2>3, <2>6 DEF AccountsStay
    <3>1. PICK x \in Persons(books) : books.people[x].user = u
      BY <1>0 DEF AccountsStay
    <3> QED BY <2>5, <3>1
  <2>13. ASSUME NEW d \in Clerks PROVE LookedUp(d)'
    <3>1. clerk'[d] = clerk[d] \/ clerk'[d].pc \notin {"insert", "contact"}
      BY <1>2 DEF NoCall
    <3> QED BY <1>0, <2>6, <3>1, LookedUpKept
  <2> QED BY <1>0, <1>1, <2>8, <2>9, <2>11, <2>12, <2>13, ChecksMade
<1> QED BY <1>4, <1>5

\* The merge is written: an account that changed meanwhile is marked if it is lost.
LEMMA WriteMergeKeeps ==
  ASSUME BooksInv, BooksInv', Grows, ChecksInv, NEW c \in Clerks, writeMerge(c)
  PROVE  ChecksInv'
<1>0. /\ Sound(books) /\ Sound(books') /\ DOMAIN clerk = Clerks
      /\ CapHolds /\ PhonesDiffer /\ AccountsStay /\ OneEdits /\ EditsArePast
      /\ linked \subseteq Users /\ edits \in Seq(EditRows) /\ \A d \in Clerks : LookedUp(d)
  BY ChecksParts DEF BooksInv
<1>1. linked' = linked /\ edits' = edits /\ shared' = shared /\ at(c, "merge") /\ ends(c)
  BY DEF writeMerge
<1>2. clerk'[c] = NoCall /\ \A d \in Clerks \ {c} : clerk'[d] = clerk[d]
  BY <1>0, <1>1 DEF goes, ends
<1>3. PICK source, target, own, its :
        /\ source = clerk[c].source /\ target = clerk[c].target
        /\ own = clerk[c].mine /\ its = clerk[c].its
  OBVIOUS
<1>4. PICK heir : heir = IF its = 0 /\ own # 0 THEN own ELSE books.people[target].user
  OBVIOUS
<1> DEFINE fine == /\ Person(books, source)
                   /\ \/ Person(books, target)
                      \/ PledgesOf(books, source) = {} /\ heir = books.people[target].user
           lost == {books.people[source].user, books.people[target].user} \ {0, heir}
<1>5. /\ source # target /\ target \in DOMAIN books.people /\ own \in Nat /\ its \in Nat
      /\ 0 \in {own, its} \/ own = its
  BY <1>1, <1>3 DEF BooksInv, CallTyped
<1>6. heir \in Nat
  <2>1. books.people[target].user \in Nat
    BY <1>0, <1>5, Tables DEF People
  <2> QED BY <1>4, <1>5, <2>1
<1>7. CASE ~fine
  <2>1. books' = books /\ crossed' = crossed
    BY <1>3, <1>4, <1>7 DEF writeMerge
  <2>2. \A d \in Clerks : clerk'[d] = clerk[d] \/ clerk'[d].pc \notin {"phone", "insert", "contact"}
    BY <1>2 DEF NoCall
  <2>3. Quiet
    BY <1>1, <2>1, <2>2 DEF Quiet
  <2> QED BY <2>3, QuietKeepsChecks
<1>8. CASE fine
  <2>1. PICK after : after = [mergePeople(books, source, target) EXCEPT !.people[target].user = heir]
    OBVIOUS
  <2>2. books' = after
    BY <1>3, <1>4, <1>8, <2>1 DEF writeMerge, commits
  <2>3. crossed' = IF <<own, its>> # <<books.people[source].user, books.people[target].user>>
                   THEN crossed \cup lost ELSE crossed
    BY <1>3, <1>4, <1>8 DEF writeMerge
  <2>4. /\ Persons(after) = Persons(books) \ {source}
        /\ after.people[target].user = heir
        /\ \A q \in Persons(after) : after.people[q].phone = books.people[q].phone
        /\ \A q \in Persons(after) \ {target} : after.people[q] = books.people[q]
    BY <1>0, <1>5, <1>6, <1>8, <2>1, PeopleMerged
  <2> HIDE DEF lost
  <2>5. crossed \subseteq crossed'
    BY <2>3
  <2>6. Waiting' \subseteq Waiting
    BY <1>2 DEF Waiting, NoCall
  <2>7. CapHolds'
    BY <1>0, <2>2, <2>4, <2>6, CapKept
  <2>8. OneEdits' /\ EditsArePast' /\ edits' \in Seq(EditRows)
    BY <1>0, <1>1, EditsKept
  <2>9. PhonesDiffer'
    <3> SUFFICES ASSUME NEW x \in Persons(after), NEW y \in Persons(after), x # y,
                        after.people[x].phone = after.people[y].phone
                 PROVE  after.people[x].phone \in {0} \cup shared' \cup crossed'
      BY <2>2 DEF PhonesDiffer
    <3>1. books.people[x].phone \in {0} \cup shared \cup crossed
      BY <1>0, <2>4 DEF PhonesDiffer
    <3> QED BY <1>1, <2>4, <2>5, <3>1
  <2>10. AccountsStay'
    <3> SUFFICES ASSUME NEW u \in linked, u \notin crossed'
                 PROVE  \E x \in Persons(after) : after.people[x].user = u
      BY <1>1, <2>2 DEF AccountsStay
    <3>1. PICK x \in Persons(books) : books.people[x].user = u
      BY <1>0, <2>5 DEF AccountsStay
    <3>2. u # 0
      BY <1>0, NumbersAreNat
    <3>3. CASE x \notin {source, target}
      BY <2>4, <3>1, <3>3
    <3>4. CASE x \in {source, target}
      <4>1. u = heir
        <5> SUFFICES ASSUME u # heir PROVE FALSE
          OBVIOUS
        <5>1. u \in lost
          BY <3>1, <3>2, <3>4 DEF lost
        <5>2. own = books.people[source].user /\ its = books.people[target].user
          BY <2>3, <5>1
        <5> QED BY <1>4, <1>5, <3>1, <3>2, <3>4, <5>2
      <4>2. Person(books, target)
        <5> SUFFICES ASSUME ~Person(books, target) PROVE FALSE
          OBVIOUS
        <5>1. heir = books.people[target].user /\ books.people[target].gone
          BY <1>5, <1>8 DEF Person
        <5>2. books.people[target].user = 0
          BY <1>0, <1>5, <5>1 DEF Sound, KeysHold
        <5> QED BY <3>2, <4>1, <5>1, <5>2
      <4>3. target \in Persons(after)
        BY <1>5, <2>4, <4>2 DEF Persons
      <4> QED BY <2>4, <4>1, <4>3
    <3> QED BY <3>3, <3>4
  <2>11. ASSUME NEW d \in Clerks PROVE LookedUp(d)'
    <3>1. clerk'[d] = clerk[d] \/ clerk'[d].pc \notin {"insert", "contact"}
      BY <1>2 DEF NoCall
    <3> QED BY <1>0, <1>1, <2>5, <3>1, LookedUpKept
  <2> QED BY <1>0, <1>1, <2>7, <2>8, <2>9, <2>10, <2>11, ChecksMade
<1> QED BY <1>7, <1>8

\* The line is written: a version that changed meanwhile makes it an overlap.
LEMMA WriteItemKeeps ==
  ASSUME BooksInv, BooksInv', Grows, ChecksInv, NEW c \in Clerks, writeItem(c)
  PROVE  ChecksInv'
<1>0. /\ Sound(books) /\ Sound(books') /\ DOMAIN clerk = Clerks
      /\ CapHolds /\ PhonesDiffer /\ AccountsStay /\ OneEdits /\ EditsArePast
      /\ linked \subseteq Users /\ edits \in Seq(EditRows) /\ \A d \in Clerks : LookedUp(d)
  BY ChecksParts DEF BooksInv
<1>1. linked' = linked /\ shared' = shared /\ crossed' = crossed /\ at(c, "item") /\ ends(c)
  BY DEF writeItem
<1>2. clerk'[c] = NoCall /\ \A d \in Clerks \ {c} : clerk'[d] = clerk[d]
  BY <1>0, <1>1 DEF goes, ends
<1>3. \A d \in Clerks : clerk'[d] = clerk[d] \/ clerk'[d].pc \notin {"phone", "insert", "contact"}
  BY <1>2 DEF NoCall
<1>4. PICK i, expected, version : i = clerk[c].item /\ expected = clerk[c].expected /\ version = clerk[c].version
  OBVIOUS
<1>5. CASE ~Item(books, i)
  <2>1. books' = books /\ edits' = edits
    BY <1>4, <1>5 DEF writeItem
  <2>2. Quiet
    BY <1>1, <1>3, <2>1 DEF Quiet
  <2> QED BY <2>2, QuietKeepsChecks
<1>6. CASE Item(books, i)
  <2>1. PICK after, target, public : /\ after = updateItem(books, i, target, public)
                                     /\ target = clerk[c].target /\ public = clerk[c].public
    OBVIOUS
  <2>2. books' = after
    BY <1>4, <1>6, <2>1 DEF writeItem, commits
  <2>3. PICK edit : edit = [item |-> i, expected |-> expected,
                            overlapped |-> version # books.items[i].version]
    OBVIOUS
  <2>4. edits' = Append(edits, edit)
    BY <1>4, <1>6, <2>3 DEF writeItem
  <2>5. /\ i \in DOMAIN books.items /\ target \in Nat /\ public \in BOOLEAN
        /\ version \in Nat /\ expected \in {0, version} /\ version <= books.items[i].version
    BY <1>1, <1>4, <2>1 DEF BooksInv, CallTyped
  <2>6. /\ after.people = books.people /\ DOMAIN after.items = DOMAIN books.items
        /\ after.items[i].version = books.items[i].version + 1
    BY <1>0, <1>6, <2>1, <2>5, ItemUpdated
  <2>7. i \in Nat /\ books.items[i].version \in Nat
    <3>1. books.items \in Seq(Items)
      BY <1>0 DEF Sound, Books
    <3>2. i \in Nat
      BY <2>5, <3>1
    <3> QED BY <1>0, <2>5, <3>2, VersionsAreNat
  <2>8. edit \in EditRows /\ edit.item = i /\ edit.expected = expected
        /\ (edit.overlapped <=> version # books.items[i].version)
    <3>1. PICK v : v = books.items[i].version
      OBVIOUS
    <3>2. PICK o : o = (version # v)
      OBVIOUS
    <3>3. o \in BOOLEAN /\ expected \in Nat
      <4>1. (version # v) \in BOOLEAN
        OBVIOUS
      <4>2. expected \in Nat
        BY <2>5
      <4> QED BY <3>2, <4>1, <4>2, Zenon
    <3>4. edit = [item |-> i, expected |-> expected, overlapped |-> o]
      BY <2>3, <3>1, <3>2, Zenon
    <3>5. edit \in EditRows /\ edit.item = i /\ edit.expected = expected /\ edit.overlapped = o
      BY <2>7, <3>3, <3>4 DEF EditRows
    <3> QED BY <3>1, <3>2, <3>5, Zenon
  <2>9. /\ edits' \in Seq(EditRows) /\ Len(edits) \in Nat /\ DOMAIN edits = 1 .. Len(edits)
        /\ DOMAIN edits' = DOMAIN edits \cup {Len(edits) + 1}
        /\ edits'[Len(edits) + 1] = edit
        /\ \A j \in DOMAIN edits : edits'[j] = edits[j]
    BY <1>0, <2>4, <2>8, RowAdded
  <2>10. PICK n : n = Len(edits) + 1
    OBVIOUS
  <2>11. EditsArePast'
    <3> SUFFICES ASSUME NEW j \in DOMAIN edits', edits'[j].expected # 0
                 PROVE  /\ edits'[j].item \in DOMAIN books'.items
                        /\ edits'[j].expected < books'.items[edits'[j].item].version
      BY DEF EditsArePast
    <3>1. CASE j \in DOMAIN edits
      <4>1. edits'[j] = edits[j]
        BY <2>9, <3>1
      <4> QED BY <1>0, <3>1, <4>1, EditsStayPast
    <3>2. CASE j = n
      <4>1. edits'[j].item = i /\ edits'[j].expected = expected
        BY <2>8, <2>9, <2>10, <3>2
      <4>2. PICK v : v = books.items[i].version
        OBVIOUS
      <4>3. expected < v + 1
        BY <2>5, <2>7, <4>1, <4>2
      <4> QED BY <2>2, <2>5, <2>6, <4>1, <4>2, <4>3
    <3> QED BY <2>9, <2>10, <3>1, <3>2
  <2>12. OneEdits'
    <3> SUFFICES ASSUME NEW j \in DOMAIN edits', NEW k \in DOMAIN edits', j < k,
                        edits'[j].item = edits'[k].item, edits'[j].expected = edits'[k].expected
                 PROVE  edits'[j].expected = 0 \/ edits'[k].overlapped
      BY DEF OneEdits
    <3>1. CASE j \in DOMAIN edits /\ k \in DOMAIN edits
      <4>1. edits'[j] = edits[j] /\ edits'[k] = edits[k]
        BY <2>9, <3>1
      <4> QED BY <1>0, <3>1, <4>1 DEF OneEdits
    <3>2. j \in DOMAIN edits
      BY <2>9
    <3>3. CASE k = n /\ expected # 0
      <4>1. /\ edits'[k].item = i /\ edits'[k].expected = expected
            /\ (edits'[k].overlapped <=> version # books.items[i].version)
        BY <2>8, <2>9, <2>10, <3>3
      <4>2. edits[j].item = i /\ edits[j].expected = expected
        BY <2>9, <3>2, <4>1
      <4>3. expected < books.items[i].version
        BY <1>0, <3>2, <3>3, <4>2 DEF EditsArePast
      <4>4. expected = version
        BY <2>5, <3>3
      <4>5. version # books.items[i].version
        BY <2>5, <2>7, <4>3, <4>4
      <4> QED BY <4>1, <4>5
    <3>4. CASE k = n /\ expected = 0
      BY <2>8, <2>9, <2>10, <3>4
    <3> QED BY <2>9, <2>10, <3>1, <3>2, <3>3, <3>4
  <2>13. Persons(books') = Persons(books) /\ books'.people = books.people
    BY <2>2, <2>6 DEF Persons, Person
  <2>14. Waiting' \subseteq Waiting
    BY <1>2 DEF Waiting, NoCall
  <2>15. CapHolds'
    BY <1>0, <2>13, <2>14, CapKept
  <2>16. PhonesDiffer' /\ AccountsStay'
    BY <1>0, <1>1, <2>13, PeopleKept
  <2>17. \A d \in Clerks : LookedUp(d)'
    BY <1>0, <1>1, <1>3, LookedUpKept
  <2> QED BY <1>0, <1>1, <2>9, <2>11, <2>12, <2>15, <2>16, <2>17, ChecksMade
<1> QED BY <1>5, <1>6

\* An account is linked to a person who had none.
LEMMA LinkAccountKeeps ==
  ASSUME BooksInv, BooksInv', Grows, ChecksInv, linkAccount
  PROVE  ChecksInv'
<1>0. /\ Sound(books) /\ Sound(books')
      /\ CapHolds /\ PhonesDiffer /\ AccountsStay /\ OneEdits /\ EditsArePast
      /\ linked \subseteq Users /\ edits \in Seq(EditRows) /\ \A d \in Clerks : LookedUp(d)
  BY ChecksParts DEF BooksInv
<1>1. PICK p \in Persons(books), user \in Users :
        /\ LinkAllowed(books, p, user)
        /\ books' = linkPersonToUser(books, p, user)
        /\ linked' = linked \cup {user}
        /\ clerk' = clerk /\ shared' = shared /\ crossed' = crossed /\ edits' = edits
  BY DEF linkAccount, commits
<1>2. PICK after : after = linkPersonToUser(books, p, user)
  OBVIOUS
<1>3. Person(books, p) /\ user \in Nat /\ books.people[p].user \in {0, user}
  BY <1>1, NumbersAreNat DEF LinkAllowed
<1>4. /\ Persons(after) = Persons(books)
      /\ after.people[p].user = user /\ after.people[p].phone = books.people[p].phone
      /\ \A q \in Persons(books) \ {p} : after.people[q] = books.people[q]
  BY <1>0, <1>2, <1>3, AccountLinked
<1>5. books' = after
  BY <1>1, <1>2
<1>6. Waiting' \subseteq Waiting
  BY <1>1 DEF Waiting
<1>7. CapHolds'
  BY <1>0, <1>4, <1>5, <1>6, CapKept
<1>8. OneEdits' /\ EditsArePast' /\ edits' \in Seq(EditRows)
  BY <1>0, <1>1, EditsKept
<1>9. PhonesDiffer'
  <2>1. \A x \in Persons(after) : after.people[x].phone = books.people[x].phone
    BY <1>4
  <2> QED BY <1>0, <1>1, <1>4, <1>5, <2>1 DEF PhonesDiffer
<1>10. AccountsStay'
  <2> SUFFICES ASSUME NEW u \in linked \cup {user}, u \notin crossed
               PROVE  \E x \in Persons(after) : after.people[x].user = u
    BY <1>1, <1>5 DEF AccountsStay
  <2>1. CASE u = user
    BY <1>4, <2>1
  <2>2. CASE u # user
    <3>1. PICK x \in Persons(books) : books.people[x].user = u
      BY <1>0, <2>2 DEF AccountsStay
    <3>2. u # 0
      BY <1>0, <2>2, NumbersAreNat
    <3> QED BY <1>3, <1>4, <2>2, <3>1, <3>2
  <2> QED BY <2>1, <2>2
<1>11. \A d \in Clerks : LookedUp(d)'
  BY <1>0, <1>1, LookedUpKept
<1>12. linked' \subseteq Users
  BY <1>0, <1>1
<1> QED BY <1>7, <1>8, <1>9, <1>10, <1>11, <1>12, ChecksMade

\* Every step keeps the checks.
LEMMA ChecksStep ==
  ASSUME BooksInv, BooksInv', Grows, ChecksInv, [OfficeNext]_allVars
  PROVE  ChecksInv'
<1>0. Sound(books) /\ DOMAIN clerk = Clerks
  BY DEF BooksInv
<1>1. ASSUME NEW c \in Clerks, ClerkStep(c) PROVE ChecksInv'
  <2>1. ASSUME NEW call, goes(c, call), call.pc \notin {"phone", "insert", "contact"},
               books' = books, UNCHANGED <<shared, crossed, linked, edits>>
        PROVE  ChecksInv'
    <3>1. clerk'[c] = call /\ \A d \in Clerks \ {c} : clerk'[d] = clerk[d]
      BY <1>0, <2>1 DEF goes
    <3> QED BY <2>1, <3>1, QuietKeepsChecks DEF Quiet
  <2>2. CASE readMerge(c)
    <3>1. /\ books' = books /\ UNCHANGED <<shared, crossed, linked, edits>>
          /\ \E source, target \in Persons(books) :
               goes(c, [pc |-> "merge", source |-> source, target |-> target,
                        mine |-> books.people[source].user, its |-> books.people[target].user])
      BY <2>2 DEF readMerge
    <3> QED BY <2>1, <3>1
  <2>3. CASE readItem(c)
    <3>1. books' = books /\ UNCHANGED <<shared, crossed, linked, edits>>
      BY <2>3 DEF readItem
    <3>2. \E i, expected, public, target :
            goes(c, [pc |-> "item", item |-> i, expected |-> expected, public |-> public,
                     version |-> books.items[i].version, target |-> target])
      BY <2>3 DEF readItem
    <3> QED BY <2>1, <3>1, <3>2
  <2>4. CASE readSettings(c)
    <3>1. /\ books' = books /\ UNCHANGED <<shared, crossed, linked, edits>>
          /\ \E asked \in Asks : goes(c, [pc |-> "settings", asked |-> asked, before |-> settings])
      BY <2>4 DEF readSettings
    <3> QED BY <2>1, <3>1
  <2>5. CASE writeSettings(c)
    <3>1. books' = books /\ UNCHANGED <<shared, crossed, linked, edits>> /\ goes(c, NoCall)
      BY <2>5 DEF writeSettings, ends
    <3>2. NoCall.pc \notin {"phone", "insert", "contact"}
      BY DEF NoCall
    <3> QED BY <2>1, <3>1, <3>2
  <2> QED BY <1>1, <2>2, <2>3, <2>4, <2>5, CheckContributorsKeeps, CheckPhoneKeeps, InsertPersonKeeps,
        ReadContactKeeps, WriteContactKeeps, WriteMergeKeeps, WriteItemKeeps DEF ClerkStep
<1>2. CASE linkAccount
  BY <1>2, LinkAccountKeeps
<1>3. CASE PledgeCall \/ PaymentCall \/ BudgetCall \/ GroupCall
  <2>1. books'.people = books.people /\ UNCHANGED officeVars
    BY <1>0, <1>3, StepsKeepBooks
  <2> QED BY <2>1, QuietKeepsChecks DEF Quiet, officeVars
<1>4. CASE PageCall \/ (Visit /\ UNCHANGED officeVars) \/ UNCHANGED allVars
  <2>1. books' = books /\ UNCHANGED officeVars
    <3>1. CASE PageCall
      BY <3>1 DEF PageCall, rotateAccessToken, announce, instruct
    <3>2. CASE Visit /\ UNCHANGED officeVars
      BY <3>2 DEF Visit, resolve, reads, ReadPledged, ReadReceived, ReadPeople,
        ReadBreakdown, ReadActivity, ReadBudget, ReadNotices, Leave
    <3>3. CASE UNCHANGED allVars
      BY <3>3 DEF allVars
    <3> QED BY <1>4, <3>1, <3>2, <3>3
  <2> QED BY <2>1, QuietKeepsChecks DEF Quiet, officeVars
<1> QED BY <1>1, <1>2, <1>3, <1>4 DEF OfficeNext

\* The books as an event starts with them.
LEMMA ChecksInit ==
  ASSUME OfficeInit
  PROVE  BooksInv /\ ChecksInv
<1>1. PICK s \in Starts : books = s.books
  BY DEF OfficeInit
<1>2. /\ clerk = [c \in Clerks |-> NoCall] /\ shared = {} /\ crossed = {} /\ linked = {} /\ edits = <<>>
  BY DEF OfficeInit
<1>3. \A c \in Clerks : clerk[c].pc = "idle"
  BY <1>2 DEF NoCall
<1>4. Sound(books)
  BY <1>1, OfficeAssumption, BooksNamed DEF Sound
<1>5. BooksInv
  BY <1>2, <1>3, <1>4 DEF BooksInv, CallTyped, at
<1>6. CapHolds
  <2>1. Waiting = {}
    BY <1>3 DEF Waiting
  <2>2. Cardinality(Waiting) = 0
    BY <2>1, FS_EmptySet
  <2>3. Cardinality(Clerks) \in Nat /\ Cardinality(Clerks) # 0
    BY OfficeAssumption, FS_CardinalityType, FS_EmptySet
  <2>4. IsFiniteSet(Persons(books))
    BY <1>4, Tables
  <2>5. Cardinality(Persons(books)) \in Nat /\ Cardinality(Persons(books)) <= maxContributors
    BY <1>1, <2>4, OfficeAssumption, FS_CardinalityType
  <2>6. PICK n, k : n = Cardinality(Persons(books)) /\ k = Cardinality(Clerks)
    OBVIOUS
  <2>7. maxContributors \in Nat
    BY OfficeAssumption
  <2>8. n + 0 <= maxContributors + k - 1
    BY <2>3, <2>5, <2>6, <2>7
  <2> QED BY <2>2, <2>6, <2>8 DEF CapHolds
<1>7. PhonesDiffer
  BY <1>1, OfficeAssumption DEF PhonesDiffer
<1>8. AccountsStay
  BY <1>2 DEF AccountsStay
<1>9. /\ edits \in Seq(EditRows) /\ DOMAIN edits = {}
  BY <1>2
<1>10. OneEdits /\ EditsArePast
  BY <1>9 DEF OneEdits, EditsArePast
<1>11. linked \subseteq Users /\ \A c \in Clerks : LookedUp(c)
  BY <1>2, <1>3 DEF LookedUp, at
<1>12. ChecksHoldUnlessCrossed
  BY <1>6, <1>7, <1>8, <1>10, ChecksNamed
<1> QED BY <1>5, <1>9, <1>10, <1>11, <1>12 DEF ChecksInv, EditRows

\* A check made before a write holds after it, whoever else writes in between:
\* the cap, the phones, the linked accounts and the versions of budget lines.
THEOREM ChecksOutliveTheirReads == OfficeSpec => []ChecksHoldUnlessCrossed
<1>1. OfficeInit => BooksInv /\ ChecksInv
  BY ChecksInit
<1>2. BooksInv /\ ChecksInv /\ [OfficeNext]_allVars => BooksInv' /\ ChecksInv'
  BY BooksStep, ChecksStep
<1>3. ChecksInv => ChecksHoldUnlessCrossed
  BY DEF ChecksInv
<1> QED BY <1>1, <1>2, <1>3, PTL DEF OfficeSpec

-----------------------------------------------------------------------------
(* The figures.                                                            *)

\* The payments on live pledges, of one person and of all.
LivePaymentsOf(b, p) ==
  {f \in DOMAIN b.payments : /\ b.pledges[b.payments[f].pledge].person = p
                             /\ LivePledge(b, b.payments[f].pledge)}
LivePayments(b) == {f \in DOMAIN b.payments : LivePledge(b, b.payments[f].pledge)}

\* The model's sums over a whole function.
LEMMA SumNamed ==
  ASSUME NEW f
  PROVE  Sum(f) = SumOf(f, DOMAIN f)
BY DEF Sum, SumOf

\* The terms of the sums are numbers, and what they are taken over is finite.
LEMMA TermsAreNat ==
  ASSUME NEW b, Sound(b)
  PROVE  /\ DOMAIN Values(b) = DOMAIN b.payments /\ \A f \in DOMAIN b.payments : Values(b)[f] \in Nat
         /\ DOMAIN Promises(b) = DOMAIN b.pledges /\ \A l \in DOMAIN b.pledges : Promises(b)[l] \in Nat
         /\ DOMAIN Marks(b) = DOMAIN b.allocations /\ \A a \in DOMAIN b.allocations : Marks(b)[a] \in Nat
         /\ Live(b) \subseteq DOMAIN b.pledges /\ IsFiniteSet(Live(b))
         /\ LivePayments(b) \subseteq DOMAIN b.payments /\ IsFiniteSet(LivePayments(b))
         /\ \A f \in DOMAIN b.payments : b.payments[f].pledge \in DOMAIN b.pledges
         /\ \A l \in DOMAIN b.pledges : b.pledges[l].person \in Persons(b)
<1>1. \A f \in DOMAIN b.payments : Values(b)[f] \in Nat
  BY Tables DEF Values, Payments
<1>2. \A l \in DOMAIN b.pledges : Promises(b)[l] \in Nat
  BY Tables DEF Promises, Pledges
<1>3. \A a \in DOMAIN b.allocations : Marks(b)[a] \in Nat
  BY Tables DEF Marks, Allocations
<1>4. Live(b) \subseteq DOMAIN b.pledges /\ LivePayments(b) \subseteq DOMAIN b.payments
  BY DEF Live, LivePayments
<1>5. IsFiniteSet(Live(b)) /\ IsFiniteSet(LivePayments(b))
  BY <1>4, Tables, FS_Subset
<1>6. /\ \A f \in DOMAIN b.payments : b.payments[f].pledge \in DOMAIN b.pledges
      /\ \A l \in DOMAIN b.pledges : b.pledges[l].person \in Persons(b)
  BY DEF Sound, KeysHold, Persons, Person
<1> QED BY <1>1, <1>2, <1>3, <1>4, <1>5, <1>6 DEF Values, Promises, Marks

\* One person's row, as sums.
LEMMA Rolled ==
  ASSUME NEW b, Sound(b), NEW p \in Persons(b)
  PROVE  /\ rollup(b)[p] = [committed |-> rollup(b)[p].committed, received |-> rollup(b)[p].received]
         /\ rollup(b)[p].committed = Committed(b, LivePledgesOf(b, p))
         /\ rollup(b)[p].committed = SumOf(Promises(b), LivePledgesOf(b, p))
         /\ rollup(b)[p].received = SumOf(Values(b), LivePaymentsOf(b, p))
         /\ rollup(b)[p].committed \in Nat /\ rollup(b)[p].received \in Nat
         /\ LivePledgesOf(b, p) \subseteq Live(b) /\ IsFiniteSet(LivePledgesOf(b, p))
         /\ LivePaymentsOf(b, p) \subseteq LivePayments(b) /\ IsFiniteSet(LivePaymentsOf(b, p))
<1>1. LivePledgesOf(b, p) \subseteq Live(b) /\ LivePaymentsOf(b, p) \subseteq LivePayments(b)
  BY DEF LivePledgesOf, PledgesOf, Live, LivePaymentsOf, LivePayments
<1>2. IsFiniteSet(LivePledgesOf(b, p)) /\ IsFiniteSet(LivePaymentsOf(b, p))
  BY <1>1, TermsAreNat, FS_Subset
<1>3. rollup(b)[p] = [committed |-> Committed(b, LivePledgesOf(b, p)),
                      received |-> Paid(b, LivePaymentsOf(b, p))]
  BY DEF rollup, LivePaymentsOf
<1>4. /\ rollup(b)[p].committed = Committed(b, LivePledgesOf(b, p))
      /\ rollup(b)[p].received = Paid(b, LivePaymentsOf(b, p))
      /\ rollup(b)[p] = [committed |-> rollup(b)[p].committed, received |-> rollup(b)[p].received]
  BY <1>3
<1>5. /\ Committed(b, LivePledgesOf(b, p)) = SumOf(Promises(b), LivePledgesOf(b, p))
      /\ Paid(b, LivePaymentsOf(b, p)) = SumOf(Values(b), LivePaymentsOf(b, p))
  BY <1>1, TermsAreNat, CommittedIsSum, PaidIsSum
<1>6. SumOf(Promises(b), LivePledgesOf(b, p)) \in Nat /\ SumOf(Values(b), LivePaymentsOf(b, p)) \in Nat
  <2>1. /\ \A l \in LivePledgesOf(b, p) : Promises(b)[l] \in Nat
        /\ \A f \in LivePaymentsOf(b, p) : Values(b)[f] \in Nat
    BY <1>1, TermsAreNat
  <2> QED BY <1>2, <2>1, SumNat
<1> QED BY <1>1, <1>2, <1>4, <1>5, <1>6

\* Everyone's commitments add up to the total.
LEMMA CommitmentsAddUp ==
  ASSUME NEW b, Sound(b)
  PROVE  Sum([p \in DOMAIN rollup(b) |-> rollup(b)[p].committed]) = Committed(b, Live(b))
<1> DEFINE per == [p \in DOMAIN rollup(b) |-> rollup(b)[p].committed]
           who == [l \in DOMAIN b.pledges |-> b.pledges[l].person]
<1>1. DOMAIN per = Persons(b) /\ \A p \in Persons(b) : per[p] = rollup(b)[p].committed
  BY DEF rollup
<1>2. \A l \in DOMAIN b.pledges : who[l] = b.pledges[l].person
  OBVIOUS
<1>3. \A p \in Persons(b) : LivePledgesOf(b, p) = {l \in Live(b) : who[l] = p}
  BY DEF LivePledgesOf, PledgesOf, Live
<1> HIDE DEF per, who
<1>4. ASSUME NEW p \in Persons(b) PROVE per[p] = SumOf(Promises(b), {l \in Live(b) : who[l] = p})
  <2>1. rollup(b)[p].committed = SumOf(Promises(b), LivePledgesOf(b, p))
    BY Rolled
  <2>2. per[p] = rollup(b)[p].committed /\ LivePledgesOf(b, p) = {l \in Live(b) : who[l] = p}
    BY <1>1, <1>3
  <2> QED BY <2>1, <2>2
<1>5. /\ \A l \in Live(b) : who[l] \in Persons(b)
      /\ \A l \in Live(b) : Promises(b)[l] \in Int
  BY <1>2, TermsAreNat
<1>6. SumOf(per, Persons(b)) = SumOf(Promises(b), Live(b))
  <2>1. PICK g, S, T : g = Promises(b) /\ S = Live(b) /\ T = Persons(b)
    OBVIOUS
  <2>2. IsFiniteSet(S) /\ IsFiniteSet(T)
    BY <2>1, TermsAreNat, Tables
  <2>3. PICK part : part = [t \in T |-> {x \in S : who[x] = t}]
    OBVIOUS
  <2>4. /\ \A x \in S : g[x] \in Int
        /\ \A t \in T : part[t] \subseteq S /\ \A x \in S : x \in part[t] <=> who[x] = t
    BY <1>4, <1>5, <2>1, <2>3
  <2>5. /\ \A x \in S : \E t \in T : x \in part[t]
        /\ \A t, u \in T : t # u => part[t] \cap part[u] = {}
    BY <1>4, <1>5, <2>1, <2>4
  <2>6. \A t \in T : per[t] = SumOf(g, part[t])
    BY <1>4, <1>5, <2>1, <2>3
  <2>7. SumOf(per, T) = SumOf(g, S)
    BY <2>2, <2>4, <2>5, <2>6, SumPartition
  <2> QED BY <2>1, <2>7
<1>7. Sum(per) = SumOf(per, Persons(b))
  BY <1>1, SumNamed
<1>8. Committed(b, Live(b)) = SumOf(Promises(b), Live(b))
  BY TermsAreNat, CommittedIsSum
<1> QED BY <1>6, <1>7, <1>8 DEF per

\* So do everyone's payments, but for those on cancelled pledges.
LEMMA ReceiptsAddUp ==
  ASSUME NEW b, Sound(b)
  PROVE  /\ Sum([p \in DOMAIN rollup(b) |-> rollup(b)[p].received]) = Paid(b, LivePayments(b))
         /\ SumOf(ReceivedPer(b), Persons(b)) = Paid(b, LivePayments(b))
         /\ Paid(b, LivePayments(b))
              + Paid(b, {f \in DOMAIN b.payments : ~LivePledge(b, b.payments[f].pledge)})
              = Paid(b, DOMAIN b.payments)
<1> DEFINE per == [p \in DOMAIN rollup(b) |-> rollup(b)[p].received]
           who == [f \in DOMAIN b.payments |-> b.pledges[b.payments[f].pledge].person]
           dead == {f \in DOMAIN b.payments : ~LivePledge(b, b.payments[f].pledge)}
<1>1. DOMAIN per = Persons(b) /\ \A p \in Persons(b) : per[p] = rollup(b)[p].received
  BY DEF rollup
<1>2. \A f \in DOMAIN b.payments : who[f] = b.pledges[b.payments[f].pledge].person
  OBVIOUS
<1>3. \A p \in Persons(b) : LivePaymentsOf(b, p) = {f \in LivePayments(b) : who[f] = p}
  BY DEF LivePaymentsOf, LivePayments
<1>4. per = ReceivedPer(b)
  BY DEF ReceivedPer, rollup
<1> HIDE DEF per, who
<1>5. ASSUME NEW p \in Persons(b) PROVE per[p] = SumOf(Values(b), {f \in LivePayments(b) : who[f] = p})
  <2>1. rollup(b)[p].received = SumOf(Values(b), LivePaymentsOf(b, p))
    BY Rolled
  <2>2. per[p] = rollup(b)[p].received /\ LivePaymentsOf(b, p) = {f \in LivePayments(b) : who[f] = p}
    BY <1>1, <1>3
  <2> QED BY <2>1, <2>2
<1>6. /\ \A f \in LivePayments(b) : who[f] \in Persons(b)
      /\ \A f \in DOMAIN b.payments : Values(b)[f] \in Int
  BY <1>2, TermsAreNat
<1>7. SumOf(per, Persons(b)) = SumOf(Values(b), LivePayments(b))
  <2>1. PICK g, S, T : g = Values(b) /\ S = LivePayments(b) /\ T = Persons(b)
    OBVIOUS
  <2>2. IsFiniteSet(S) /\ IsFiniteSet(T) /\ S \subseteq DOMAIN b.payments
    BY <2>1, TermsAreNat, Tables
  <2>3. PICK part : part = [t \in T |-> {x \in S : who[x] = t}]
    OBVIOUS
  <2>4. /\ \A x \in S : g[x] \in Int
        /\ \A t \in T : part[t] \subseteq S /\ \A x \in S : x \in part[t] <=> who[x] = t
    BY <1>5, <1>6, <2>1, <2>2, <2>3
  <2>5. /\ \A x \in S : \E t \in T : x \in part[t]
        /\ \A t, u \in T : t # u => part[t] \cap part[u] = {}
    BY <1>5, <1>6, <2>1, <2>2, <2>4
  <2>6. \A t \in T : per[t] = SumOf(g, part[t])
    BY <1>5, <1>6, <2>1, <2>2, <2>3
  <2>7. SumOf(per, T) = SumOf(g, S)
    BY <2>2, <2>4, <2>5, <2>6, SumPartition
  <2> QED BY <2>1, <2>7
<1>8. Sum(per) = SumOf(per, Persons(b))
  BY <1>1, SumNamed
<1>9. LivePayments(b) \cap dead = {} /\ LivePayments(b) \cup dead = DOMAIN b.payments /\ dead \subseteq DOMAIN b.payments
  BY DEF LivePayments
<1> HIDE DEF dead
<1>10. SumOf(Values(b), LivePayments(b) \cup dead) = SumOf(Values(b), LivePayments(b)) + SumOf(Values(b), dead)
  <2>1. IsFiniteSet(LivePayments(b)) /\ IsFiniteSet(dead)
    BY <1>9, Tables, FS_Subset
  <2>2. \A f \in LivePayments(b) \cup dead : Values(b)[f] \in Int
    BY <1>6, <1>9
  <2> QED BY <1>9, <2>1, <2>2, SumUnion
<1>11. /\ Paid(b, LivePayments(b)) = SumOf(Values(b), LivePayments(b))
       /\ Paid(b, dead) = SumOf(Values(b), dead)
       /\ Paid(b, DOMAIN b.payments) = SumOf(Values(b), DOMAIN b.payments)
  BY <1>9, TermsAreNat, PaidIsSum
<1>12. /\ Sum(per) = Paid(b, LivePayments(b)) /\ SumOf(ReceivedPer(b), Persons(b)) = Paid(b, LivePayments(b))
       /\ Paid(b, LivePayments(b)) + Paid(b, dead) = Paid(b, DOMAIN b.payments)
  BY <1>4, <1>7, <1>8, <1>9, <1>10, <1>11
<1> QED BY <1>12 DEF per, dead

\* The payments of one person, added up pledge by pledge.
LEMMA PledgeByPledge ==
  ASSUME NEW b, Sound(b), NEW p \in Persons(b)
  PROVE  MapThenSumSet(LAMBDA l : Paid(b, PaymentsOn(b, l)), LivePledgesOf(b, p)) = rollup(b)[p].received
<1> DEFINE on == [f \in DOMAIN b.payments |-> b.payments[f].pledge]
           L == LivePledgesOf(b, p)
           F == LivePaymentsOf(b, p)
<1>1. \A f \in DOMAIN b.payments : on[f] = b.payments[f].pledge
  OBVIOUS
<1>2. L \subseteq DOMAIN b.pledges
  BY Rolled, TermsAreNat
<1>3. \A l \in L : PaymentsOn(b, l) = {f \in F : on[f] = l}
  BY DEF LivePledgesOf, PledgesOf, LivePaymentsOf, PaymentsOn
<1>4. \A f \in F : on[f] \in L
  BY TermsAreNat DEF LivePledgesOf, PledgesOf, LivePaymentsOf
<1>5. \A l \in L : PaidPer(b)[l] = Paid(b, PaymentsOn(b, l))
  BY <1>2 DEF PaidPer
<1>6. \A l \in L : Paid(b, PaymentsOn(b, l)) = SumOf(Values(b), PaymentsOn(b, l))
  <2>1. \A l \in L : PaymentsOn(b, l) \subseteq DOMAIN b.payments
    BY DEF PaymentsOn
  <2> QED BY <2>1, PaidIsSum
<1>7. MapThenSumSet(LAMBDA l : Paid(b, PaymentsOn(b, l)), L) = SumOf(PaidPer(b), L)
  BY <1>2, PaidPerIsSum
<1>8. IsFiniteSet(L) /\ IsFiniteSet(F) /\ \A f \in F : Values(b)[f] \in Int
  <2>1. F \subseteq DOMAIN b.payments
    BY DEF LivePaymentsOf
  <2>2. \A f \in F : Values(b)[f] \in Int
    <3>1. \A f \in DOMAIN b.payments : Values(b)[f] \in Nat
      BY TermsAreNat
    <3> HIDE DEF F
    <3> QED BY <2>1, <3>1
  <2> QED BY <2>2, Rolled
<1>9. rollup(b)[p].received = SumOf(Values(b), F)
  BY Rolled
<1> HIDE DEF on, L, F
<1>10. PICK part : part = [l \in L |-> {f \in F : on[f] = l}]
  OBVIOUS
<1>11. /\ \A l \in L : part[l] \subseteq F /\ part[l] = PaymentsOn(b, l) /\ \A f \in F : f \in part[l] <=> on[f] = l
  BY <1>3, <1>10
<1>12. /\ \A f \in F : \E l \in L : f \in part[l]
       /\ \A l, m \in L : l # m => part[l] \cap part[m] = {}
  BY <1>4, <1>11
<1>13. \A l \in L : PaidPer(b)[l] = SumOf(Values(b), part[l])
  BY <1>5, <1>6, <1>11
<1>14. SumOf(PaidPer(b), L) = SumOf(Values(b), F)
  BY <1>8, <1>11, <1>12, <1>13, SumPartition
<1> QED BY <1>7, <1>9, <1>14 DEF L

\* What the lists of contributors select, by what was promised and paid.
Selected(status, row) ==
  CASE status = "unpaid"      -> row.committed > 0 /\ row.received = 0
    [] status = "partial"     -> row.received > 0 /\ row.received < row.committed
    [] status = "complete"    -> row.committed > 0 /\ row.received >= row.committed
    [] status = "outstanding" -> outstanding(row.committed, row.received) > 0
    [] OTHER                  -> row.committed > 0

\* The assistant's lists select by the rows of the event.
LEMMA ListedAs ==
  ASSUME NEW b, Sound(b), NEW s \in Statuses
  PROVE  listContributors(b, s) = {p \in Persons(b) : Selected(s, rollup(b)[p])}
BY DEF listContributors, Selected

\* What the report's list selects: its list of all has those who only paid too.
Reported(status, row) ==
  IF status = "all" THEN row.committed > 0 \/ row.received > 0 ELSE Selected(status, row)

\* The report's query selects by the same rows, pledge by pledge.
LEMMA QueriedAs ==
  ASSUME NEW b, Sound(b), NEW s \in Statuses, NEW among
  PROVE  queryContributors(b, s, among) = {p \in Persons(b) \cap among : Reported(s, rollup(b)[p])}
<1> DEFINE owed(p) == Committed(b, LivePledgesOf(b, p))
           got(p) == MapThenSumSet(LAMBDA l : Paid(b, PaymentsOn(b, l)), LivePledgesOf(b, p))
           test(p) == CASE s = "unpaid"      -> owed(p) > 0 /\ got(p) = 0
                        [] s = "partial"     -> got(p) > 0 /\ got(p) < owed(p)
                        [] s = "complete"    -> owed(p) > 0 /\ got(p) >= owed(p)
                        [] s = "outstanding" -> outstanding(owed(p), got(p)) > 0
                        [] OTHER             -> owed(p) > 0 \/ got(p) > 0
<1>1. queryContributors(b, s, among) = {p \in Persons(b) \cap among : test(p)}
  BY DEF queryContributors
<1>2. \A p \in Persons(b) : owed(p) = rollup(b)[p].committed /\ got(p) = rollup(b)[p].received
  BY Rolled, PledgeByPledge
<1> HIDE DEF owed, got
<1>3. ASSUME NEW p \in Persons(b) PROVE test(p) <=> Reported(s, rollup(b)[p])
  <2>1. PICK o, r : o = rollup(b)[p].committed /\ r = rollup(b)[p].received
    OBVIOUS
  <2>2. o \in Nat /\ r \in Nat /\ owed(p) = o /\ got(p) = r
    BY <1>2, <2>1, Rolled
  <2> QED BY <2>1, <2>2 DEF Reported, Selected, Statuses
<1> HIDE DEF test
<1> QED BY <1>1, <1>3

\* The two lists, side by side: everybody who paid or promised, or who promised.
LEMMA ListsCompared ==
  ASSUME NEW b, Sound(b)
  PROVE  /\ \A s \in Statuses \ {"all"} : queryContributors(b, s, Persons(b)) = listContributors(b, s)
         /\ queryContributors(b, "all", Persons(b)) =
              listContributors(b, "all")
                \cup {p \in Persons(b) : rollup(b)[p].committed = 0 /\ rollup(b)[p].received > 0}
<1>1. ASSUME NEW s \in Statuses \ {"all"}
      PROVE  queryContributors(b, s, Persons(b)) = listContributors(b, s)
  <2>1. \A row : Reported(s, row) <=> Selected(s, row)
    BY DEF Reported
  <2> QED BY <2>1, ListedAs, QueriedAs
<1>2. /\ "all" \in Statuses
      /\ queryContributors(b, "all", Persons(b)) = {p \in Persons(b) : Reported("all", rollup(b)[p])}
      /\ listContributors(b, "all") = {p \in Persons(b) : Selected("all", rollup(b)[p])}
  <2>1. "all" \in Statuses
    BY DEF Statuses
  <2> QED BY <2>1, ListedAs, QueriedAs
<1>3. ASSUME NEW p \in Persons(b)
      PROVE  Reported("all", rollup(b)[p]) <=>
               \/ Selected("all", rollup(b)[p])
               \/ rollup(b)[p].committed = 0 /\ rollup(b)[p].received > 0
  <2>1. PICK o, r : o = rollup(b)[p].committed /\ r = rollup(b)[p].received
    OBVIOUS
  <2>2. o \in Nat /\ r \in Nat
    BY <2>1, Rolled
  <2> QED BY <2>1, <2>2 DEF Reported, Selected
<1>4. queryContributors(b, "all", Persons(b)) =
        listContributors(b, "all")
          \cup {p \in Persons(b) : rollup(b)[p].committed = 0 /\ rollup(b)[p].received > 0}
  BY <1>2, <1>3
<1> QED BY <1>1, <1>4

\* The classes are everybody who promised something, each of them once.
LEMMA ClassesDivide ==
  ASSUME NEW b, Sound(b)
  PROVE  LET classes == {"unpaid", "partial", "complete"} IN
         /\ UNION {listContributors(b, s) : s \in classes} = listContributors(b, "all")
         /\ \A s, t \in classes : s # t => listContributors(b, s) \cap listContributors(b, t) = {}
<1> DEFINE classes == {"unpaid", "partial", "complete"}
<1>1. classes \subseteq Statuses /\ "all" \in Statuses
  BY DEF Statuses
<1>2. ASSUME NEW p \in Persons(b)
      PROVE  /\ Selected("all", rollup(b)[p]) <=> \E s \in classes : Selected(s, rollup(b)[p])
             /\ \A s, t \in classes : s # t => ~(Selected(s, rollup(b)[p]) /\ Selected(t, rollup(b)[p]))
  <2>1. PICK o, r : o = rollup(b)[p].committed /\ r = rollup(b)[p].received
    OBVIOUS
  <2>2. o \in Nat /\ r \in Nat
    BY <2>1, Rolled
  <2> QED BY <2>1, <2>2 DEF Selected
<1>3. \A s \in classes \cup {"all"} :
        listContributors(b, s) = {p \in Persons(b) : Selected(s, rollup(b)[p])}
  BY <1>1, ListedAs
<1> HIDE DEF classes
<1>4. UNION {listContributors(b, s) : s \in classes} = listContributors(b, "all")
  BY <1>2, <1>3
<1>5. \A s, t \in classes : s # t => listContributors(b, s) \cap listContributors(b, t) = {}
  BY <1>2, <1>3
<1> QED BY <1>4, <1>5 DEF classes

\* The totals name the same people as the lists.
LEMMA TotalsNameTheListed ==
  ASSUME NEW b, Sound(b), NEW target
  PROVE  /\ getEventReport(b, target).owing = listContributors(b, "outstanding")
         /\ getEventReport(b, target).contributors = listContributors(b, "all")
<1>1. DOMAIN rollup(b) = Persons(b)
  BY DEF rollup
<1>2. /\ listContributors(b, "outstanding") = {p \in Persons(b) : Selected("outstanding", rollup(b)[p])}
      /\ listContributors(b, "all") = {p \in Persons(b) : Selected("all", rollup(b)[p])}
  BY ListedAs DEF Statuses
<1>3. \A p \in Persons(b) :
        /\ Selected("outstanding", rollup(b)[p])
             <=> outstanding(rollup(b)[p].committed, rollup(b)[p].received) > 0
        /\ Selected("all", rollup(b)[p]) <=> rollup(b)[p].committed > 0
  BY DEF Selected
<1>4. /\ getEventReport(b, target).owing =
           {p \in DOMAIN rollup(b) : outstanding(rollup(b)[p].committed, rollup(b)[p].received) > 0}
      /\ getEventReport(b, target).contributors = {p \in DOMAIN rollup(b) : rollup(b)[p].committed > 0}
  BY DEF getEventReport
<1> QED BY <1>1, <1>2, <1>3, <1>4

\* What a person owes is at most what is open on the person's pledges: money
\* paid too much on one of them does not pay another one.
LEMMA OpenPledgesCover ==
  ASSUME NEW b, Sound(b), NEW p \in Persons(b)
  PROVE  outstanding(rollup(b)[p].committed, rollup(b)[p].received)
           <= Sum([l \in LivePledgesOf(b, p) |-> getPledgeOutstanding(b, l)])
<1> DEFINE due == [l \in LivePledgesOf(b, p) |-> getPledgeOutstanding(b, l)]
<1>1. PICK L, c, r, d : /\ L = LivePledgesOf(b, p) /\ c = Promises(b) /\ r = PaidPer(b) /\ d = due
  OBVIOUS
<1>2. L \subseteq DOMAIN b.pledges /\ IsFiniteSet(L)
  BY <1>1, Rolled, TermsAreNat
<1>3. ASSUME NEW l \in L
      PROVE  c[l] \in Nat /\ r[l] \in Nat /\ d[l] \in Nat /\ c[l] <= r[l] + d[l]
  <2>1. c[l] = b.pledges[l].committed /\ c[l] \in Nat
    BY <1>1, <1>2, TermsAreNat DEF Promises
  <2>2. r[l] = Paid(b, PaymentsOn(b, l)) /\ r[l] \in Nat
    <3>1. PaymentsOn(b, l) \subseteq DOMAIN b.payments
      BY DEF PaymentsOn
    <3> QED BY <1>1, <1>2, <3>1, PaidNat DEF PaidPer
  <2>3. d[l] = outstanding(c[l], r[l])
    <3>1. due[l] = getPledgeOutstanding(b, l)
      BY <1>1
    <3>2. getPledgeOutstanding(b, l) = outstanding(b.pledges[l].committed, Paid(b, PaymentsOn(b, l)))
      BY DEF getPledgeOutstanding
    <3> QED BY <1>1, <2>1, <2>2, <3>1, <3>2
  <2>4. PICK x, y, z : x = c[l] /\ y = r[l] /\ z = d[l]
    OBVIOUS
  <2>5. x \in Nat /\ y \in Nat /\ z = outstanding(x, y)
    BY <2>1, <2>2, <2>3, <2>4
  <2>6. z \in Nat /\ x <= y + z
    BY <2>5 DEF outstanding
  <2> QED BY <2>4, <2>5, <2>6
<1>4. PICK h : h = [l \in L |-> r[l] + d[l]]
  OBVIOUS
<1>5. \A l \in L : /\ r[l] \in Int /\ d[l] \in Int /\ h[l] = r[l] + d[l]
                   /\ c[l] \in Int /\ h[l] \in Int /\ c[l] <= h[l]
  BY <1>3, <1>4
<1>6. SumOf(h, L) = SumOf(r, L) + SumOf(d, L)
  BY <1>2, <1>5, SumPlus
<1>7. SumOf(c, L) <= SumOf(h, L)
  BY <1>2, <1>5, SumLeq
<1>8. SumOf(c, L) \in Nat /\ SumOf(r, L) \in Nat /\ SumOf(d, L) \in Nat
  BY <1>2, <1>3, SumNat
<1>9. PICK C, R, D : C = SumOf(c, L) /\ R = SumOf(r, L) /\ D = SumOf(d, L)
  OBVIOUS
<1>10. outstanding(C, R) <= D
  BY <1>6, <1>7, <1>8, <1>9 DEF outstanding
<1>11. rollup(b)[p].committed = C
  BY <1>1, <1>9, Rolled
<1>12. rollup(b)[p].received = R
  <2>1. MapThenSumSet(LAMBDA l : Paid(b, PaymentsOn(b, l)), LivePledgesOf(b, p)) = rollup(b)[p].received
    BY PledgeByPledge
  <2>2. MapThenSumSet(LAMBDA l : Paid(b, PaymentsOn(b, l)), LivePledgesOf(b, p)) = SumOf(PaidPer(b), LivePledgesOf(b, p))
    BY <1>1, <1>2, PaidPerIsSum
  <2> QED BY <1>1, <1>9, <2>1, <2>2
<1>13. Sum(due) = D
  <2>1. DOMAIN d = L
    BY <1>1
  <2> QED BY <1>1, <1>9, <2>1, SumNamed
<1> QED BY <1>10, <1>11, <1>12, <1>13

\* One person, wherever the person is looked up.
LEMMA PersonAgrees ==
  ASSUME NEW b, Sound(b), NEW p \in listContributors(b, "all")
  PROVE  /\ findContributor(b, p).pledgeStatus =
              contributorStatus(rollup(b)[p].committed, rollup(b)[p].received)
         /\ p \in listContributors(b, "complete") <=> findContributor(b, p).outstanding = 0
         /\ findContributor(b, p).outstanding
              <= Sum([l \in LivePledgesOf(b, p) |-> getPledgeOutstanding(b, l)])
<1>1. /\ listContributors(b, "complete") = {q \in Persons(b) : Selected("complete", rollup(b)[q])}
      /\ listContributors(b, "all") = {q \in Persons(b) : Selected("all", rollup(b)[q])}
  BY ListedAs DEF Statuses
<1>2. PICK o, r : o = rollup(b)[p].committed /\ r = rollup(b)[p].received
  OBVIOUS
<1>3. p \in Persons(b) /\ o \in Nat /\ r \in Nat /\ o > 0
  BY <1>1, <1>2, Rolled DEF Selected
<1>4. /\ findContributor(b, p).outstanding = outstanding(o, r)
      /\ findContributor(b, p).pledgeStatus =
           IF o = 0 THEN "NO_PLEDGE" ELSE IF r >= o THEN "FULLY_PAID"
           ELSE IF r > 0 THEN "PARTIALLY_PAID" ELSE "PLEDGED"
  BY <1>2 DEF findContributor
<1>5. findContributor(b, p).pledgeStatus = contributorStatus(o, r)
  BY <1>3, <1>4 DEF contributorStatus
<1>6. p \in listContributors(b, "complete") <=> outstanding(o, r) = 0
  BY <1>1, <1>2, <1>3 DEF Selected, outstanding
<1>7. outstanding(o, r) <= Sum([l \in LivePledgesOf(b, p) |-> getPledgeOutstanding(b, l)])
  BY <1>2, <1>3, OpenPledgesCover
<1> QED BY <1>2, <1>4, <1>5, <1>6, <1>7

\* The parts of a period.
LEMMA PeriodsAddUp ==
  ASSUME NEW b, Sound(b), NEW f \in DOMAIN b.payments
  PROVE  collectedInPeriod(b, 1, f) + collectedInPeriod(b, f, Len(b.payments) + 1) = Paid(b, DOMAIN b.payments)
<1> DEFINE early == {x \in DOMAIN b.payments : 1 <= x /\ x < f}
           late == {x \in DOMAIN b.payments : f <= x /\ x < Len(b.payments) + 1}
<1>1. Len(b.payments) \in Nat /\ DOMAIN b.payments = 1 .. Len(b.payments)
  <2>1. b.payments \in Seq(Payments)
    BY DEF Sound, Books
  <2> QED BY <2>1
<1>2. /\ early \subseteq DOMAIN b.payments /\ late \subseteq DOMAIN b.payments
      /\ early \cap late = {} /\ early \cup late = DOMAIN b.payments
  BY <1>1
<1>3. collectedInPeriod(b, 1, f) = Paid(b, early) /\ collectedInPeriod(b, f, Len(b.payments) + 1) = Paid(b, late)
  BY DEF collectedInPeriod
<1> HIDE DEF early, late
<1>4. /\ Paid(b, early) = SumOf(Values(b), early) /\ Paid(b, late) = SumOf(Values(b), late)
      /\ Paid(b, DOMAIN b.payments) = SumOf(Values(b), DOMAIN b.payments)
  BY <1>2, PaidIsSum
<1>5. SumOf(Values(b), early \cup late) = SumOf(Values(b), early) + SumOf(Values(b), late)
  <2>1. IsFiniteSet(early) /\ IsFiniteSet(late)
    BY <1>2, Tables, FS_Subset
  <2>2. \A x \in early \cup late : Values(b)[x] \in Int
    BY <1>2, TermsAreNat
  <2> QED BY <1>2, <2>1, <2>2, SumUnion
<1> QED BY <1>2, <1>3, <1>4, <1>5

\* The report of contributions, and of payments.
LEMMA ReportsAddUp ==
  ASSUME NEW b, Sound(b)
  PROVE  generateReport(b, "CONTRIBUTORS", "all", Persons(b)).amount
           + Paid(b, {f \in DOMAIN b.payments : ~LivePledge(b, b.payments[f].pledge)})
           = generateReport(b, "PAYMENTS", "all", {}).amount
<1>1. PICK everyone : everyone = queryContributors(b, "all", Persons(b))
  OBVIOUS
<1>2. everyone = {p \in Persons(b) : Reported("all", rollup(b)[p])}
  BY <1>1, QueriedAs DEF Statuses
<1>3. everyone \subseteq Persons(b)
  BY <1>2
<1>4. generateReport(b, "CONTRIBUTORS", "all", Persons(b)).amount = SumOf(ReceivedPer(b), everyone)
  <2>1. generateReport(b, "CONTRIBUTORS", "all", Persons(b)).amount
          = MapThenSumSet(LAMBDA p : rollup(b)[p].received, queryContributors(b, "all", Persons(b)))
    BY DEF generateReport
  <2>2. MapThenSumSet(LAMBDA p : rollup(b)[p].received, everyone) = SumOf(ReceivedPer(b), everyone)
    BY <1>3, ReceivedPerIsSum
  <2> QED BY <1>1, <2>1, <2>2
<1>5. \A p \in Persons(b) : ReceivedPer(b)[p] = rollup(b)[p].received /\ ReceivedPer(b)[p] \in Nat
  BY Rolled DEF ReceivedPer
<1>6. \A p \in Persons(b) \ everyone : ReceivedPer(b)[p] = 0
  <2> SUFFICES ASSUME NEW p \in Persons(b) \ everyone PROVE ReceivedPer(b)[p] = 0
    OBVIOUS
  <2>1. ~(rollup(b)[p].received > 0)
    BY <1>2 DEF Reported
  <2> QED BY <1>5, <2>1
<1>7. SumOf(ReceivedPer(b), Persons(b)) = SumOf(ReceivedPer(b), everyone)
  <2>1. IsFiniteSet(Persons(b)) /\ \A p \in Persons(b) : ReceivedPer(b)[p] \in Int
    BY <1>5, Tables
  <2> QED BY <1>3, <1>6, <2>1, SumWithoutZeroes
<1>8. generateReport(b, "PAYMENTS", "all", {}).amount = Paid(b, DOMAIN b.payments)
  BY DEF generateReport
<1> QED BY <1>4, <1>7, <1>8, ReceiptsAddUp

\* The earmarks add up by line and by funder.
LEMMA EarmarksAddUp ==
  ASSUME NEW b, Sound(b)
  PROVE  /\ Sum([i \in Budget(b) |-> Covered(b, i)]) = Earmarked(b, DOMAIN b.allocations)
         /\ \A i \in Budget(b) : Covered(b, i) \in Nat
         /\ \A i \in Budget(b) : Earmarked(b, fundersForItem(b, i)) = Covered(b, i)
         /\ IsFiniteSet(Budget(b))
<1> DEFINE per == [i \in Budget(b) |-> Covered(b, i)]
<1>1. PICK S, T, g, part : /\ S = DOMAIN b.allocations /\ T = Budget(b) /\ g = Marks(b)
                           /\ part = [i \in T |-> EarmarksOf(b, i)]
  OBVIOUS
<1>2. IsFiniteSet(S) /\ IsFiniteSet(T) /\ \A a \in S : g[a] \in Nat
  <2>1. T \subseteq DOMAIN b.items
    BY <1>1 DEF Budget
  <2>2. IsFiniteSet(S) /\ IsFiniteSet(T)
    BY <1>1, <2>1, Tables, FS_Subset
  <2>3. \A a \in S : g[a] \in Nat
    BY <1>1, TermsAreNat
  <2> QED BY <2>2, <2>3
<1>3. \A i \in T : part[i] \subseteq S /\ \A a \in S : a \in part[i] <=> b.allocations[a].item = i
  BY <1>1 DEF EarmarksOf
<1>4. \A a \in S : b.allocations[a].item \in T
  BY <1>1 DEF Sound, KeysHold, Budget, Item
<1>5. /\ \A a \in S : \E i \in T : a \in part[i]
      /\ \A i, j \in T : i # j => part[i] \cap part[j] = {}
  BY <1>3, <1>4
<1>6. \A i \in T : Covered(b, i) = SumOf(g, part[i])
  BY <1>1, <1>3, EarmarkedIsSum DEF Covered
<1>7. DOMAIN per = T /\ \A i \in T : per[i] = Covered(b, i)
  BY <1>1
<1> HIDE DEF per
<1>8. \A i \in T : per[i] = SumOf(g, part[i])
  BY <1>6, <1>7
<1>9. SumOf(per, T) = SumOf(g, S)
  <2>1. (\A i \in T : part[i] \subseteq S) /\ \A a \in S : g[a] \in Int
    BY <1>2, <1>3
  <2> QED BY <1>2, <1>5, <1>8, <2>1, SumPartition
<1>10. Sum(per) = Earmarked(b, DOMAIN b.allocations)
  <2>1. Earmarked(b, DOMAIN b.allocations) = SumOf(g, S)
    BY <1>1, EarmarkedIsSum
  <2>2. Sum(per) = SumOf(per, T)
    BY <1>7, SumNamed
  <2> QED BY <1>9, <2>1, <2>2
<1>11. ASSUME NEW i \in T PROVE Covered(b, i) \in Nat
  <2>1. IsFiniteSet(part[i]) /\ \A a \in part[i] : g[a] \in Nat
    BY <1>2, <1>3, FS_Subset
  <2>2. SumOf(g, part[i]) \in Nat
    BY <2>1, SumNat
  <2> QED BY <1>6, <2>2
<1>12. ASSUME NEW i \in T PROVE fundersForItem(b, i) = EarmarksOf(b, i)
  <2>1. \A a \in DOMAIN b.allocations :
          Person(b, b.pledges[b.payments[b.allocations[a].payment].pledge].person)
    BY DEF Sound, KeysHold
  <2> QED BY <2>1 DEF fundersForItem, EarmarksOf
<1>13. \A i \in T : Earmarked(b, fundersForItem(b, i)) = Covered(b, i)
  BY <1>12 DEF Covered
<1> QED BY <1>1, <1>2, <1>10, <1>11, <1>13 DEF per

\* There is a biggest gap unless no line has any.
LEMMA BiggestGapIsThere ==
  ASSUME NEW b, Sound(b)
  PROVE  biggestGap(b) = {} <=> \A i \in Budget(b) : budgetBreakdown(b)[i].remaining = 0
<1>1. PICK T, gap : T = Budget(b) /\ gap = [i \in T |-> Gap(b, i)]
  OBVIOUS
<1>2. ASSUME NEW i \in T
      PROVE  gap[i] \in Int /\ (budgetBreakdown(b)[i].remaining = 0 <=> ~(gap[i] > 0))
  <2>1. PICK t, c : t = b.items[i].target /\ c = Covered(b, i)
    OBVIOUS
  <2>2. t \in Nat /\ c \in Nat
    <3>1. b.items[i] \in Items
      BY <1>1, Tables DEF Budget
    <3>2. t \in Nat
      BY <2>1, <3>1 DEF Items
    <3> QED BY <1>1, <2>1, <3>2, EarmarksAddUp
  <2>3. gap[i] = t - c
    BY <1>1, <2>1 DEF Gap
  <2>4. budgetBreakdown(b)[i].remaining = outstanding(t, c)
    BY <1>1, <2>1 DEF budgetBreakdown
  <2> QED BY <2>2, <2>3, <2>4 DEF outstanding
<1>3. biggestGap(b) = {i \in T : gap[i] > 0 /\ \A j \in T : gap[i] >= gap[j]}
  BY <1>1 DEF biggestGap
<1>4. ASSUME NEW i \in T, gap[i] > 0 PROVE biggestGap(b) # {}
  <2>1. IsFiniteSet(T) /\ T # {}
    BY <1>1, EarmarksAddUp
  <2>2. PICK x \in T : \A j \in T : gap[x] >= gap[j]
    BY <1>2, <2>1, LargestExists
  <2>3. gap[x] > 0
    BY <1>2, <1>4, <2>2
  <2> QED BY <1>3, <2>2, <2>3
<1>5. biggestGap(b) # {} => \E i \in T : gap[i] > 0
  BY <1>3
<1> QED BY <1>1, <1>2, <1>4, <1>5

\* A group's contributions, by the members' pledges and by the members' rows.
LEMMA GroupsAddUp ==
  ASSUME NEW b, Sound(b), NEW g \in DOMAIN b.groups
  PROVE  groupContributions(b, g).received =
           generateReport(b, "CONTRIBUTORS", "all", b.groups[g]).amount
<1> DEFINE pledges == {l \in Live(b) : b.pledges[l].person \in b.groups[g]}
           paid == {f \in DOMAIN b.payments : b.payments[f].pledge \in pledges}
<1>1. PICK M, Q, F : /\ M = b.groups[g] /\ Q = queryContributors(b, "all", M) /\ F = paid
  OBVIOUS
<1>2. M \subseteq Persons(b) /\ IsFiniteSet(M)
  <2>1. M \subseteq Persons(b)
    BY <1>1 DEF Sound, KeysHold
  <2> QED BY <2>1, Tables, FS_Subset
<1>3. Q = {p \in Persons(b) \cap M : Reported("all", rollup(b)[p])}
  BY <1>1, QueriedAs DEF Statuses
<1>4. \A p \in M : ReceivedPer(b)[p] = rollup(b)[p].received /\ ReceivedPer(b)[p] \in Nat
  BY <1>2, Rolled DEF ReceivedPer
<1>5. generateReport(b, "CONTRIBUTORS", "all", M).amount = SumOf(ReceivedPer(b), Q)
  <2>1. generateReport(b, "CONTRIBUTORS", "all", M).amount
          = MapThenSumSet(LAMBDA p : rollup(b)[p].received, queryContributors(b, "all", M))
    BY DEF generateReport
  <2>2. Q \subseteq Persons(b)
    BY <1>3
  <2>3. MapThenSumSet(LAMBDA p : rollup(b)[p].received, Q) = SumOf(ReceivedPer(b), Q)
    BY <2>2, ReceivedPerIsSum
  <2> QED BY <1>1, <2>1, <2>3
<1>6. SumOf(ReceivedPer(b), M) = SumOf(ReceivedPer(b), Q)
  <2>1. Q \subseteq M /\ \A p \in M : ReceivedPer(b)[p] \in Int
    BY <1>3, <1>4
  <2>2. ASSUME NEW p \in M \ Q PROVE ReceivedPer(b)[p] = 0
    <3>1. p \in Persons(b)
      BY <1>2
    <3>2. ~(rollup(b)[p].received > 0)
      BY <1>3, <2>2, <3>1 DEF Reported
    <3> QED BY <1>4, <3>2
  <2> QED BY <1>2, <2>1, <2>2, SumWithoutZeroes
<1>7. groupContributions(b, g).received = Paid(b, F)
  BY <1>1 DEF groupContributions
<1>8. F \subseteq DOMAIN b.payments /\ IsFiniteSet(F) /\ \A f \in F : Values(b)[f] \in Int
  <2>1. F \subseteq DOMAIN b.payments
    BY <1>1
  <2>2. IsFiniteSet(F)
    BY <2>1, Tables, FS_Subset
  <2> QED BY <2>1, <2>2, TermsAreNat
<1>9. Paid(b, F) = SumOf(Values(b), F)
  BY <1>8, PaidIsSum
<1>10. PICK part : part = [p \in M |-> LivePaymentsOf(b, p)]
  OBVIOUS
<1>11. \A f \in DOMAIN b.payments : f \in F <=>
         LivePledge(b, b.payments[f].pledge) /\ b.pledges[b.payments[f].pledge].person \in M
  BY <1>1, TermsAreNat DEF Live
<1>12. \A p \in M : \A f : f \in part[p] <=> f \in F /\ b.pledges[b.payments[f].pledge].person = p
  BY <1>8, <1>10, <1>11 DEF LivePaymentsOf
<1>13. /\ \A p \in M : part[p] \subseteq F
       /\ \A f \in F : \E p \in M : f \in part[p]
       /\ \A p, q \in M : p # q => part[p] \cap part[q] = {}
  BY <1>8, <1>11, <1>12
<1>14. ASSUME NEW p \in M PROVE ReceivedPer(b)[p] = SumOf(Values(b), part[p])
  <2>1. rollup(b)[p].received = SumOf(Values(b), LivePaymentsOf(b, p))
    BY <1>2, Rolled
  <2> QED BY <1>4, <1>10, <2>1
<1>15. SumOf(ReceivedPer(b), M) = SumOf(Values(b), F)
  BY <1>2, <1>8, <1>13, <1>14, SumPartition
<1> QED BY <1>1, <1>5, <1>6, <1>7, <1>9, <1>15

\* The lists of a list, one after the other.
Joined(lists) == Lists!FlattenSeq(lists)

\* A recursion over a list of lists ends at their concatenation.
LEMMA Flattened ==
  \A n \in Nat \ {0} : \A lists, T : \A upto \in [1 .. n -> T] :
    (/\ Len(lists) = n /\ upto[1] = lists[1]
     /\ \A k \in 1 .. n : k # 1 => upto[k] = upto[k - 1] \o lists[k])
    => Joined(lists) = upto[n]
<1> SUFFICES ASSUME NEW n \in Nat \ {0}, NEW lists, NEW T, NEW upto \in [1 .. n -> T],
                    Len(lists) = n, upto[1] = lists[1],
                    \A k \in 1 .. n : k # 1 => upto[k] = upto[k - 1] \o lists[k]
             PROVE  Joined(lists) = upto[n]
  OBVIOUS
<1> DEFINE Step(f) == [k \in 1 .. Len(lists) |-> IF k = 1 THEN lists[k] ELSE f[k - 1] \o lists[k]]
           Good(f) == f = Step(f)
           it == CHOOSE f : Good(f)
<1>1. Joined(lists) = it[Len(lists)]
  BY DEF Joined, Lists!FlattenSeq
<1>2. Good(upto)
  <2>1. \A k \in 1 .. n : upto[k] = IF k = 1 THEN lists[k] ELSE upto[k - 1] \o lists[k]
    OBVIOUS
  <2>2. [k \in 1 .. n |-> upto[k]] = [k \in 1 .. n |-> IF k = 1 THEN lists[k] ELSE upto[k - 1] \o lists[k]]
    BY <2>1
  <2> QED BY <2>2
<1> HIDE DEF Good
<1>3. Good(it)
  BY <1>2
<1> HIDE DEF it
<1>4. \A k \in 1 .. n : it[k] = IF k = 1 THEN lists[k] ELSE it[k - 1] \o lists[k]
  <2> DEFINE Row(k) == IF k = 1 THEN lists[k] ELSE it[k - 1] \o lists[k]
  <2>1. it = [k \in 1 .. n |-> Row(k)]
    BY <1>3 DEF Good
  <2> HIDE DEF Row
  <2>2. \A k \in 1 .. n : it[k] = Row(k)
    BY <2>1
  <2> QED BY <2>2 DEF Row
<1> DEFINE G == {k \in Nat : k \in 1 .. n => it[k] = upto[k]}
<1>5. 0 \in G
  OBVIOUS
<1>6. ASSUME NEW k \in Nat, k \in G PROVE k + 1 \in G
  <2> SUFFICES ASSUME k + 1 \in 1 .. n PROVE it[k + 1] = upto[k + 1]
    OBVIOUS
  <2>1. CASE k = 0
    <3>1. it[1] = lists[1]
      BY <1>4
    <3> QED BY <2>1, <3>1
  <2>2. CASE k # 0
    <3>1. k \in 1 .. n /\ k + 1 # 1 /\ (k + 1) - 1 = k
      BY <2>2
    <3>2. it[k] = upto[k]
      BY <1>6, <3>1
    <3>3. it[k + 1] = it[(k + 1) - 1] \o lists[k + 1]
      BY <1>4, <3>1
    <3>4. upto[k + 1] = upto[(k + 1) - 1] \o lists[k + 1]
      BY <3>1
    <3> QED BY <3>1, <3>2, <3>3, <3>4
  <2> QED BY <2>1, <2>2
<1> HIDE DEF G
<1>7. \A k \in Nat : k \in G
  BY <1>5, <1>6, NumbersByInduction
<1>8. n \in G /\ n \in 1 .. n
  BY <1>7
<1> QED BY <1>1, <1>8 DEF G

\* The pages of a list, one after the other, are the list.
LEMMA PagesAddUp ==
  ASSUME NEW n \in Nat, NEW size \in 1 .. 2, NEW list, list = [m \in 1 .. n |-> m],
         NEW pages, pages = [k \in 1 .. totalPages(Len(list), size) |-> page(list, k, size)]
  PROVE  list = Joined(pages)
<1> DEFINE order == [m \in 1 .. n |-> m]
           top(k) == IF k * size < n THEN k * size ELSE n
<1>1. order \in Seq(Nat) /\ Len(order) = n
  OBVIOUS
<1>2. PICK last : last = totalPages(n, size)
  OBVIOUS
<1>3. /\ last \in Nat \ {0} /\ top(last) = n
      /\ \A k \in 1 .. last : /\ top(k) \in Nat /\ top(k) <= n
                              /\ (k # 1 => top(k - 1) = (k - 1) * size /\ top(k - 1) <= top(k))
      /\ (1 - 1) * size = 0
  <2>1. CASE size = 1
    BY <1>2, <2>1 DEF totalPages
  <2>2. CASE size = 2
    BY <1>2, <2>2 DEF totalPages
  <2> QED BY <2>1, <2>2
<1>4. PICK lists, upto : /\ lists = [k \in 1 .. last |-> page(order, k, size)]
                         /\ upto = [k \in 1 .. last |-> SubSeq(order, 1, top(k))]
  OBVIOUS
<1>5. Len(lists) = last
  BY <1>3, <1>4
<1> HIDE DEF top
<1>6. \A k \in 1 .. last : upto[k] = SubSeq(order, 1, top(k))
  BY <1>4
<1>7. \A k \in 1 .. last : lists[k] = SubSeq(order, (k - 1) * size + 1, top(k))
  <2>1. \A k \in 1 .. last : lists[k] = page(order, k, size)
    BY <1>4
  <2> QED BY <1>1, <2>1 DEF page, top
<1> HIDE DEF order
<1>8. upto[1] = lists[1]
  <2>1. 1 \in 1 .. last
    BY <1>3
  <2>2. (1 - 1) * size + 1 = 1
    BY <1>3
  <2>3. lists[1] = SubSeq(order, (1 - 1) * size + 1, top(1)) /\ upto[1] = SubSeq(order, 1, top(1))
    BY <1>6, <1>7, <2>1
  <2> QED BY <2>2, <2>3
<1>9. ASSUME NEW k \in 1 .. last, k # 1 PROVE upto[k] = upto[k - 1] \o lists[k]
  <2>1. k - 1 \in 1 .. last
    BY <1>3, <1>9
  <2>2. PICK a, c : a = top(k - 1) /\ c = top(k)
    OBVIOUS
  <2>3. a \in Nat /\ c \in Nat /\ a <= c /\ c <= n
    BY <1>3, <1>9, <2>1, <2>2
  <2>4. 1 \in 1 .. Len(order) + 1 /\ a \in 1 - 1 .. Len(order) /\ c \in a .. Len(order)
    BY <1>1, <2>3
  <2>5. SubSeq(order, 1, a) \o SubSeq(order, a + 1, c) = SubSeq(order, 1, c)
    BY <1>1, <2>4, ConcatAdjacentSubSeq
  <2>6. lists[k] = SubSeq(order, a + 1, c)
    BY <1>3, <1>7, <1>9, <2>2
  <2> QED BY <1>6, <2>1, <2>2, <2>5, <2>6
<1>10. upto \in [1 .. last -> Seq(Nat)]
  <2>1. \A k \in 1 .. last : SubSeq(order, 1, top(k)) \in Seq(Nat)
    <3> SUFFICES ASSUME NEW k \in 1 .. last PROVE SubSeq(order, 1, top(k)) \in Seq(Nat)
      OBVIOUS
    <3>1. PICK c : c = top(k)
      OBVIOUS
    <3>2. c \in Nat /\ c <= n
      BY <1>3, <3>1
    <3>3. 1 \in Int /\ c \in Int /\ \A i \in 1 .. c : order[i] \in Nat
      BY <1>1, <3>2
    <3> QED BY <3>1, <3>3, SubSeqProperties
  <2> QED BY <1>4, <2>1
<1>11. Joined(lists) = upto[last]
  <2>1. last \in Nat \ {0}
    BY <1>3
  <2>2. \A k \in 1 .. last : k # 1 => upto[k] = upto[k - 1] \o lists[k]
    BY <1>9
  <2> QED BY <1>5, <1>8, <1>10, <2>1, <2>2, Flattened
<1>12. upto[last] = order
  <2>1. last \in 1 .. last
    BY <1>3
  <2>2. upto[last] = SubSeq(order, 1, Len(order))
    BY <1>1, <1>3, <1>6, <2>1
  <2> QED BY <1>1, <2>2, SubSeqFull
<1>13. list = order
  BY DEF order
<1>14. pages = lists
  BY <1>1, <1>2, <1>4, <1>13
<1> QED BY <1>11, <1>12, <1>13, <1>14

\* No figure of sound books contradicts another one.
LEMMA SoundBooksAgree ==
  ASSUME Sound(books)
  PROVE  FiguresAgree
<1> DEFINE rows == rollup(books)
           total == getEventReport(books, Target)
           onCancelled == {f \in DOMAIN books.payments : ~LivePledge(books, books.payments[f].pledge)}
           classes == {"unpaid", "partial", "complete"}
           everyone == listContributors(books, "all")
           reported == queryContributors(books, "all", Persons(books))
           order == [n \in 1 .. Cardinality(reported) |-> n]
<1>1. /\ total.committed = Committed(books, Live(books))
      /\ total.received = Paid(books, DOMAIN books.payments)
      /\ total.budgetAllocated = Earmarked(books, DOMAIN books.allocations)
      /\ total.biggestGap = biggestGap(books)
  BY DEF getEventReport, getEventTotals
<1>2. DOMAIN rows = Persons(books) /\ reported \subseteq Persons(books)
  BY DEF rollup, queryContributors
<1>3. /\ \A s \in Statuses \ {"all"} : queryContributors(books, s, Persons(books)) = listContributors(books, s)
      /\ reported = everyone \cup {p \in DOMAIN rows : rows[p].committed = 0 /\ rows[p].received > 0}
  BY <1>2, ListsCompared
<1>4. Sum([p \in DOMAIN rows |-> rows[p].committed]) = total.committed
  BY <1>1, CommitmentsAddUp
<1>5. Sum([p \in DOMAIN rows |-> rows[p].received]) + Paid(books, onCancelled) = total.received
  BY <1>1, ReceiptsAddUp
<1>6. /\ UNION {listContributors(books, s) : s \in classes} = everyone
      /\ \A s, t \in classes : s # t => listContributors(books, s) \cap listContributors(books, t) = {}
  BY ClassesDivide
<1>7. total.owing = listContributors(books, "outstanding") /\ total.contributors = everyone
  BY TotalsNameTheListed
<1>8. \A p \in everyone :
        /\ findContributor(books, p).pledgeStatus = contributorStatus(rows[p].committed, rows[p].received)
        /\ p \in listContributors(books, "complete") <=> findContributor(books, p).outstanding = 0
        /\ findContributor(books, p).outstanding
             <= Sum([l \in LivePledgesOf(books, p) |-> getPledgeOutstanding(books, l)])
  BY PersonAgrees
<1>9. \A f \in DOMAIN books.payments :
        collectedInPeriod(books, 1, f) + collectedInPeriod(books, f, Len(books.payments) + 1)
          = total.received
  BY <1>1, PeriodsAddUp
<1>10. generateReport(books, "CONTRIBUTORS", "all", Persons(books)).amount + Paid(books, onCancelled)
         = generateReport(books, "PAYMENTS", "all", {}).amount
  BY ReportsAddUp
<1>11. /\ Sum([i \in Budget(books) |-> Covered(books, i)]) = total.budgetAllocated
       /\ \A i \in Budget(books) : Earmarked(books, fundersForItem(books, i)) = Covered(books, i)
  BY <1>1, EarmarksAddUp
<1>12. total.biggestGap = {} <=> \A i \in Budget(books) : budgetBreakdown(books)[i].remaining = 0
  BY <1>1, BiggestGapIsThere
<1>13. \A g \in DOMAIN books.groups :
         groupContributions(books, g).received =
           generateReport(books, "CONTRIBUTORS", "all", books.groups[g]).amount
  BY GroupsAddUp
<1>14. \A size \in 1 .. 2 :
         order = Joined([n \in 1 .. totalPages(Len(order), size) |-> page(order, n, size)])
  <2>1. IsFiniteSet(Persons(books))
    BY Tables
  <2>2. PICK k : k = Cardinality(reported)
    OBVIOUS
  <2>3. k \in Nat
    BY <1>2, <2>1, <2>2, FS_Subset, FS_CardinalityType
  <2>4. PICK o : o = [n \in 1 .. k |-> n]
    OBVIOUS
  <2>5. o = order
    BY <2>2, <2>4
  <2> HIDE DEF reported
  <2>6. ASSUME NEW size \in 1 .. 2
        PROVE  o = Joined([n \in 1 .. totalPages(Len(o), size) |-> page(o, n, size)])
    <3>1. PICK pages : pages = [n \in 1 .. totalPages(Len(o), size) |-> page(o, n, size)]
      OBVIOUS
    <3>2. o = Joined(pages)
      BY <2>3, <2>4, <3>1, PagesAddUp
    <3> QED BY <3>1, <3>2
  <2> HIDE DEF order
  <2> QED BY <2>5, <2>6
<1> QED BY <1>3, <1>4, <1>5, <1>6, <1>7, <1>8, <1>9, <1>10, <1>11, <1>12, <1>13, <1>14, Zenon
        DEF FiguresAgree, Joined

-----------------------------------------------------------------------------
(* The page.                                                               *)

\* The stages of a request that come after each of the reads it has figures of.
PastActivity  == {"budget", "notices", "shown"}
PastBreakdown == {"activity"} \cup PastActivity
PastPeople    == {"breakdown"} \cup PastBreakdown
PastReceived  == {"people"} \cup PastPeople
PastPledged   == {"received"} \cup PastReceived

\* The breakdown and the activity that the page shows, from the books.
BreakdownOf(v) ==
  IF v.settings.contributors # "NAMES_AND_AMOUNTS" THEN Nobody
  ELSE [p \in Listed(v) |->
          [committed |-> Committed(books, LivePledgesOf(books, p)),
           received  |-> Paid(books, UNION {PaymentsOn(books, l) : l \in LivePledgesOf(books, p)})]]
ActivityOf(v) ==
  IF v.settings.contributors # "NAMES_AND_AMOUNTS" THEN {} ELSE LivePayments(books)

\* What an undisturbed request has read is what the books say now.
ViewInv ==
  /\ DOMAIN view = DOMAIN NoView
  /\ view.pc \in {"idle", "pledged"} \cup PastPledged
  /\ ~view.disturbed =>
       /\ view.pc \in PastPledged => view.pledged = Committed(books, Live(books))
       /\ view.pc \in PastReceived => view.received = Paid(books, DOMAIN books.payments)
       /\ view.pc \in PastPeople => view.people = rollup(books)
       /\ view.pc \in PastBreakdown => view.breakdown = BreakdownOf(view)
       /\ view.pc \in PastActivity => view.activity = ActivityOf(view)

\* A transaction on the books disturbs a request that has begun.
LEMMA CommitsKeepView ==
  ASSUME ViewInv, NEW after, commits(after)
  PROVE  ViewInv'
<1>1. /\ DOMAIN view' = DOMAIN NoView /\ view'.pc = view.pc
      /\ view'.disturbed = (view.disturbed \/ view.pc # "idle")
  BY DEF ViewInv, commits, NoView
<1>2. ~view'.disturbed => view'.pc = "idle"
  BY <1>1
<1>3. "idle" \notin PastPledged
  BY DEF PastPledged, PastReceived, PastPeople, PastBreakdown, PastActivity
<1>4. "idle" \notin PastReceived /\ "idle" \notin PastPeople /\ "idle" \notin PastBreakdown
      /\ "idle" \notin PastActivity
  BY <1>3 DEF PastPledged, PastReceived, PastPeople, PastBreakdown
<1> QED BY <1>1, <1>2, <1>3, <1>4 DEF ViewInv

\* What leaves the books and the request alone leaves what it has read.
LEMMA ViewStays ==
  ASSUME ViewInv, books' = books, view' = view
  PROVE  ViewInv'
<1>1. BreakdownOf(view)' = BreakdownOf(view) /\ ActivityOf(view)' = ActivityOf(view)
  BY DEF BreakdownOf, ActivityOf
<1> QED BY <1>1 DEF ViewInv

\* Each statement of a request reads the books as they are.
LEMMA VisitKeepsView ==
  ASSUME ViewInv, Visit
  PROVE  ViewInv'
<1>1. DOMAIN view = {"pc", "settings", "wish", "pledged", "received", "people", "breakdown", "activity",
                     "budget", "announcements", "instructions", "reverted", "disturbed"}
  BY DEF ViewInv, NoView
<1>2. books' = books
  BY DEF Visit, resolve, ReadPledged, ReadReceived, ReadPeople, ReadBreakdown, ReadActivity,
         ReadBudget, ReadNotices, Leave, reads
<1>3. ASSUME NEW token, resolve(token)
      PROVE  ViewInv'
  <2>1. CASE view' = view
    BY <1>2, <2>1, ViewStays
  <2>2. CASE view' # view
    <3>1. view'.pc = "pledged" /\ DOMAIN view' = DOMAIN NoView
      BY <1>3, <2>2 DEF resolve, NoView
    <3> QED BY <3>1 DEF ViewInv, PastPledged, PastReceived, PastPeople, PastBreakdown, PastActivity
  <2> QED BY <2>1, <2>2
<1>4. ASSUME view' = NoView
      PROVE  ViewInv'
  <2>1. view'.pc = "idle" /\ DOMAIN view' = DOMAIN NoView
    BY <1>4 DEF NoView
  <2> QED BY <2>1 DEF ViewInv, PastPledged, PastReceived, PastPeople, PastBreakdown, PastActivity
<1>5. CASE ReadPledged
  <2>1. view.pc = "pledged" /\ DOMAIN view' = DOMAIN view /\ view'.pc = "received"
        /\ view'.pledged = Committed(books, Live(books))
    BY <1>1, <1>5 DEF ReadPledged, reads
  <2> QED BY <1>2, <2>1 DEF ViewInv, PastPledged, PastReceived, PastPeople, PastBreakdown, PastActivity
<1>6. CASE ReadReceived
  <2>1. /\ view.pc = "received" /\ DOMAIN view' = DOMAIN view /\ view'.pc = "people"
        /\ view'.disturbed = view.disturbed /\ view'.pledged = view.pledged
        /\ view'.received = Paid(books, DOMAIN books.payments)
    BY <1>1, <1>6 DEF ReadReceived, reads
  <2> QED BY <1>2, <2>1 DEF ViewInv, PastPledged, PastReceived, PastPeople, PastBreakdown, PastActivity
<1>7. CASE ReadPeople
  <2>1. /\ view.pc = "people" /\ DOMAIN view' = DOMAIN view /\ view'.pc = "breakdown"
        /\ view'.disturbed = view.disturbed /\ view'.pledged = view.pledged
        /\ view'.received = view.received /\ view'.people = rollup(books)
    BY <1>1, <1>7 DEF ReadPeople, reads
  <2> QED BY <1>2, <2>1 DEF ViewInv, PastPledged, PastReceived, PastPeople, PastBreakdown, PastActivity
<1>8. ASSUME view'.settings = view.settings, view'.people = view.people
      PROVE  (BreakdownOf(view))' = BreakdownOf(view) /\ (ActivityOf(view))' = ActivityOf(view)
  <2>1. Listed(view') = Listed(view)
    BY <1>8 DEF Listed
  <2> QED BY <1>2, <1>8, <2>1 DEF BreakdownOf, ActivityOf
<1>9. CASE ReadBreakdown
  <2>1. PICK b : b = BreakdownOf(view)
    OBVIOUS
  <2>2. view' = [view EXCEPT !.pc = "activity", !.breakdown = b] /\ view.pc = "breakdown"
    BY <1>9, <2>1 DEF ReadBreakdown, reads, BreakdownOf, buildPledgeBreakdown
  <2>3. /\ view.pc = "breakdown" /\ DOMAIN view' = DOMAIN view /\ view'.pc = "activity"
        /\ view'.disturbed = view.disturbed /\ view'.pledged = view.pledged
        /\ view'.received = view.received /\ view'.people = view.people
        /\ view'.settings = view.settings /\ view'.breakdown = b
    BY <1>1, <2>2
  <2> QED BY <1>2, <1>8, <2>1, <2>3
          DEF ViewInv, PastPledged, PastReceived, PastPeople, PastBreakdown, PastActivity
<1>10. CASE ReadActivity
  <2>1. PICK a : a = ActivityOf(view)
    OBVIOUS
  <2>2. view' = [view EXCEPT !.pc = "budget", !.activity = a] /\ view.pc = "activity"
    BY <1>10, <2>1 DEF ReadActivity, reads, ActivityOf, LivePayments
  <2>3. /\ view.pc = "activity" /\ DOMAIN view' = DOMAIN view /\ view'.pc = "budget"
        /\ view'.disturbed = view.disturbed /\ view'.pledged = view.pledged
        /\ view'.received = view.received /\ view'.people = view.people
        /\ view'.settings = view.settings /\ view'.breakdown = view.breakdown /\ view'.activity = a
    BY <1>1, <2>2
  <2> QED BY <1>2, <1>8, <2>1, <2>3
          DEF ViewInv, PastPledged, PastReceived, PastPeople, PastBreakdown, PastActivity
<1>11. ASSUME NEW pc \in {"budget", "notices"}, NEW next \in {"notices", "shown"}, view.pc = pc,
              DOMAIN view' = DOMAIN view, view'.pc = next,
              view'.disturbed = view.disturbed, view'.pledged = view.pledged,
              view'.received = view.received, view'.people = view.people,
              view'.settings = view.settings, view'.breakdown = view.breakdown,
              view'.activity = view.activity
       PROVE  ViewInv'
  <2>1. pc \in PastActivity /\ next \in PastActivity
    BY DEF PastActivity
  <2> QED BY <1>2, <1>8, <1>11, <2>1
          DEF ViewInv, PastPledged, PastReceived, PastPeople, PastBreakdown
<1>12. CASE ReadBudget
  <2>1. PICK b : view' = [view EXCEPT !.pc = "notices", !.budget = b] /\ view.pc = "budget"
    BY <1>12 DEF ReadBudget, reads
  <2> QED BY <1>1, <1>11, <2>1
<1>13. CASE ReadNotices
  <2>1. PICK a, i : /\ view' = [view EXCEPT !.pc = "shown", !.announcements = a, !.instructions = i]
                    /\ view.pc = "notices"
    BY <1>13 DEF ReadNotices, reads
  <2> QED BY <1>1, <1>11, <2>1
<1>14. CASE Leave
  BY <1>4, <1>14 DEF Leave, reads
<1> QED BY <1>3, <1>5, <1>6, <1>7, <1>9, <1>10, <1>12, <1>13, <1>14 DEF Visit

\* A desk's call commits, or leaves the books and the request alone.
LEMMA DesksCommit ==
  ASSUME NEW c \in Clerks, ClerkStep(c)
  PROVE  (\E after : commits(after)) \/ (books' = books /\ view' = view)
<1>1. CASE checkContributors(c) \/ checkPhone(c) \/ readContact(c) \/ readMerge(c) \/ readItem(c) \/ readSettings(c)
  BY <1>1 DEF checkContributors, checkPhone, readContact, readMerge, readItem, readSettings, pageVars
<1>2. CASE insertPerson(c) \/ writeContact(c) \/ writeSettings(c)
  BY <1>2 DEF insertPerson, writeContact, writeSettings, pageVars
<1>3. CASE writeMerge(c)
  BY <1>3 DEF writeMerge, pageVars
<1>4. CASE writeItem(c)
  BY <1>4 DEF writeItem, pageVars
<1> QED BY <1>1, <1>2, <1>3, <1>4 DEF ClerkStep

\* Every step keeps what is known of the request.
LEMMA ViewStep ==
  ASSUME ViewInv, [OfficeNext]_allVars
  PROVE  ViewInv'
<1>1. CASE \E c \in Clerks : ClerkStep(c)
  BY <1>1, DesksCommit, CommitsKeepView, ViewStays
<1>2. CASE linkAccount \/ PledgeCall \/ PaymentCall \/ BudgetCall \/ GroupCall
  BY <1>2, StepsCommit, CommitsKeepView
<1>3. CASE PageCall
  <2>1. books' = books /\ view' = view
    BY <1>3 DEF PageCall, rotateAccessToken, announce, instruct
  <2> QED BY <2>1, ViewStays
<1>4. CASE Visit /\ UNCHANGED officeVars
  BY <1>4, VisitKeepsView
<1>5. CASE UNCHANGED allVars
  BY <1>5, ViewStays DEF allVars, pageVars
<1> QED BY <1>1, <1>2, <1>3, <1>4, <1>5 DEF OfficeNext

\* A page whose reads were not disturbed agrees with itself and with the books.
LEMMA UndisturbedPageAgrees ==
  ASSUME ViewInv, Sound(books)
  PROVE  PageAgrees
<1> SUFFICES ASSUME view.pc = "shown", ~view.disturbed
             PROVE  /\ view.pledged = Sum([p \in DOMAIN view.people |-> view.people[p].committed])
                    /\ \A p \in DOMAIN view.breakdown : view.breakdown[p] = view.people[p]
                    /\ view.settings.contributors = "NAMES_AND_AMOUNTS" =>
                         Paid(books, view.activity) = Sum([p \in DOMAIN view.people |-> view.people[p].received])
                    /\ view.received = getEventTotals(books).fulfilled
                    /\ Page(view).percent \in {-1, getFundingSummary(books, Target)}
  BY DEF PageAgrees
<1>1. /\ view.pledged = Committed(books, Live(books))
      /\ view.received = Paid(books, DOMAIN books.payments)
      /\ view.people = rollup(books)
      /\ view.breakdown = BreakdownOf(view)
      /\ view.activity = ActivityOf(view)
  BY DEF ViewInv, PastPledged, PastReceived, PastPeople, PastBreakdown, PastActivity
<1>2. view.pledged = Sum([p \in DOMAIN view.people |-> view.people[p].committed])
  BY <1>1, CommitmentsAddUp
<1>3. ASSUME NEW p \in DOMAIN view.breakdown PROVE view.breakdown[p] = view.people[p]
  <2>1. CASE view.settings.contributors # "NAMES_AND_AMOUNTS"
    BY <1>1, <2>1 DEF BreakdownOf, Nobody
  <2>2. CASE view.settings.contributors = "NAMES_AND_AMOUNTS"
    <3>1. /\ p \in Listed(view)
          /\ view.breakdown[p] =
               [committed |-> Committed(books, LivePledgesOf(books, p)),
                received  |-> Paid(books, UNION {PaymentsOn(books, l) : l \in LivePledgesOf(books, p)})]
      BY <1>1, <2>2 DEF BreakdownOf
    <3>2. p \in Persons(books)
      BY <1>1, <3>1 DEF Listed, rollup
    <3>3. UNION {PaymentsOn(books, l) : l \in LivePledgesOf(books, p)}
            = {f \in DOMAIN books.payments : /\ books.pledges[books.payments[f].pledge].person = p
                                             /\ LivePledge(books, books.payments[f].pledge)}
      BY TermsAreNat DEF PaymentsOn, LivePledgesOf, PledgesOf
    <3>4. rollup(books)[p] =
            [committed |-> Committed(books, LivePledgesOf(books, p)),
             received  |-> Paid(books, {f \in DOMAIN books.payments :
                              /\ books.pledges[books.payments[f].pledge].person = p
                              /\ LivePledge(books, books.payments[f].pledge)})]
      BY <3>2 DEF rollup
    <3> QED BY <1>1, <3>1, <3>3, <3>4
  <2> QED BY <2>1, <2>2
<1>4. view.settings.contributors = "NAMES_AND_AMOUNTS" =>
        Paid(books, view.activity) = Sum([p \in DOMAIN view.people |-> view.people[p].received])
  BY <1>1, ReceiptsAddUp DEF ActivityOf
<1>5. view.received = getEventTotals(books).fulfilled
  BY <1>1 DEF getEventTotals
<1>6. Page(view).percent \in {-1, getFundingSummary(books, Target)}
  BY <1>1 DEF Page, getFundingSummary
<1> QED BY <1>2, <1>3, <1>4, <1>5, <1>6

\* Merges, corrections (to nothing as well), cancellations and removals, in any
\* order and number, leave totals, breakdowns, periods, groups and pages that
\* agree with one another, and with the public page unless a write came between
\* its reads; the lists of contributors agree, except that the report's list of
\* all has, besides whoever committed something, those who only paid.
THEOREM FiguresAlwaysAgree == OfficeSpec => []BooksAddUp
<1>1. OfficeInit => BooksInv /\ ViewInv
  <2>1. OfficeInit => ViewInv
    BY DEF OfficeInit, PageInit, NoView, ViewInv, PastPledged, PastReceived, PastPeople,
           PastBreakdown, PastActivity
  <2> QED BY <2>1, ChecksInit
<1>2. BooksInv /\ ViewInv /\ [OfficeNext]_allVars => (BooksInv /\ ViewInv)'
  BY BooksStep, ViewStep
<1>3. BooksInv /\ ViewInv => BooksAddUp
  <2> SUFFICES ASSUME BooksInv, ViewInv PROVE BooksAddUp
    OBVIOUS
  <2>1. Sound(books)
    BY DEF BooksInv
  <2> QED BY <2>1, SoundBooksAgree, UndisturbedPageAgrees DEF BooksAddUp
<1> QED BY <1>1, <1>2, <1>3, PTL DEF OfficeSpec

-----------------------------------------------------------------------------
(* The assistant.                                                          *)

Before == {"idle", "said", "scope", "check", "reserve"}
InLoop == {"model", "tool", "point", "exhausted", "commit"}
Pcs == Before \cup InLoop \cup {"failing", "reply", "ended"}

\* The scopes a turn can pay from: an event, or the account of the user.
OnEvent(e) == [event |-> e, account |-> Null]
OnMe == [event |-> Null, account |-> Me]
Scopes == {OnEvent(e) : e \in Events} \cup {OnMe}

\* What a turn's process can hold.  A turn that has reserved, or is about to
\* look at a balance, has a scope; steps are counted up to MAX_STEPS.
TurnRecords ==
  [pc : Pcs, fixed : BOOLEAN, active : Events \cup {Null}, scope : Scopes \cup {NoScope},
   step : 0 .. MAX_STEPS, asked : Nat, complete : BOOLEAN,
   outcome : {Null, "locked", "answered", "unanswered"}]

AboutToStep == Before \cup {"model"}

TurnTypes ==
  /\ conversation \in Events \cup {Null}
  /\ mine \subseteq Events
  /\ turns \in [Turns -> TurnRecords]
  /\ \A t \in Turns : turns[t].pc \notin {"idle", "said", "scope", "ended"} => turns[t].scope \in Scopes
  /\ \A t \in Turns : turns[t].pc \in AboutToStep => turns[t].step < MAX_STEPS

\* The rows of one turn, by what they are written for.
Kinds == {"RESERVE", "COMMIT", "REFUND"}
Worth(kind) == IF kind = "RESERVE" THEN -1 ELSE IF kind = "REFUND" THEN 1 ELSE 0
Row(t, scope, kind) ==
  [turn |-> t, kind |-> kind, event |-> scope.event, account |-> accountOf(scope),
   amount |-> Worth(kind)]
Rows(t, scope, kinds) == {Row(t, scope, kind) : kind \in kinds}

\* The kinds of rows a turn can have left: nothing comes before the
\* reservation.
Courses == {{}} \cup {{"RESERVE"} \cup kinds : kinds \in SUBSET {"COMMIT", "REFUND"}}

\* The kinds of rows a turn has where it is.
CourseOf(turn, exempt, kinds) ==
  /\ turn.pc \in Before => kinds = {}
  /\ turn.pc \in InLoop => kinds = {"RESERVE"}
  /\ turn.pc = "failing" => kinds = {"RESERVE"} \/ (exempt /\ kinds = {"RESERVE", "COMMIT"})
  /\ turn.pc = "reply" =>
       \/ turn.outcome = "answered" /\ kinds = {"RESERVE", "COMMIT"}
       \/ turn.outcome = "unanswered" /\ kinds = {"RESERVE", "REFUND"}
       \/ turn.outcome = "unanswered" /\ exempt
  /\ turn.pc = "ended" /\ ~exempt =>
       \/ turn.outcome = "answered" /\ kinds = {"RESERVE", "COMMIT"}
       \/ turn.outcome = "unanswered" /\ kinds = {"RESERVE", "REFUND"}
       \/ turn.outcome = "locked" /\ kinds = {}

\* A turn's rows lie on one scope, which is the turn's own until it ends.
BooksOf(t) ==
  \E scope \in Scopes, kinds \in Courses :
    /\ RowsOf(t) = Rows(t, scope, kinds)
    /\ turns[t].pc \in InLoop \cup {"failing", "reply"} => scope = turns[t].scope
    /\ CourseOf(turns[t], t \in excused, kinds)

\* The ledger holds the rows of turns.
LedgerRows ==
  /\ IsFiniteSet(ledger)
  /\ \A r \in ledger : r.turn \in Turns /\ r.amount \in Int

\* Whoever is about to reserve has what the check saw, or lost it to another.
CheckHolds ==
  \A t \in Turns : turns[t].pc = "reserve" /\ t \notin raced => aiBalance(turns[t].scope) >= 1

TurnInv ==
  /\ TurnTypes
  /\ LedgerRows
  /\ \A t \in Turns : BooksOf(t)
  /\ CheckHolds

-----------------------------------------------------------------------------
(* Balances.                                                               *)

\* The rows of a ledger that a scope's balance counts, and what it adds to.
SeenBy(rows, scope) ==
  {r \in rows : r.account = accountOf(scope) \/ (scope.event # Null /\ r.event = scope.event)}

Granted(scope) ==
  AccountGrant[accountOf(scope)] + (IF scope.event # Null THEN EventGrant[scope.event] ELSE 0)

BalanceOver(rows, scope) ==
  Granted(scope) + SumOf([r \in SeenBy(rows, scope) |-> r.amount], SeenBy(rows, scope))

\* The balance, before and after a step.
LEMMA BalanceForms ==
  ASSUME NEW scope
  PROVE  /\ aiBalance(scope) = BalanceOver(ledger, scope)
         /\ aiBalance(scope)' = BalanceOver(ledger', scope)
<1>1. aiBalance(scope) = BalanceOver(ledger, scope)
  BY AmountsAreSum DEF aiBalance, BalanceOver, Granted, SeenBy
<1>2. aiBalance(scope)' = BalanceOver(ledger', scope)
  <2>1. MapThenSumSet(LAMBDA r : r.amount, SeenBy(ledger', scope))
          = SumOf([r \in SeenBy(ledger', scope) |-> r.amount], SeenBy(ledger', scope))
    BY AmountsAreSum
  <2>2. aiBalance(scope)' = Granted(scope) + MapThenSumSet(LAMBDA r : r.amount, SeenBy(ledger', scope))
    BY DEF aiBalance, Granted, SeenBy, MapThenSumSet, MapThenFoldSet, accountOf
  <2> QED BY <2>1, <2>2 DEF BalanceOver
<1> QED BY <1>1, <1>2

\* A scope that a turn can pay from has an account with a grant.
LEMMA ScopesAreGranted ==
  ASSUME NEW scope \in Scopes
  PROVE  Granted(scope) \in Nat
BY AssistantAssumption DEF Scopes, OnEvent, OnMe, Granted, accountOf, Events

\* A balance is a number.
LEMMA BalanceIsInt ==
  ASSUME NEW scope \in Scopes, NEW rows, IsFiniteSet(rows), \A r \in rows : r.amount \in Int
  PROVE  BalanceOver(rows, scope) \in Int
<1> DEFINE S == SeenBy(rows, scope)
           f == [r \in S |-> r.amount]
<1>1. IsFiniteSet(S) /\ \A r \in S : f[r] \in Int
  BY FS_Subset DEF SeenBy
<1> HIDE DEF S, f
<1>2. SumOf(f, S) \in Int
  BY <1>1, SumInt
<1> QED BY <1>2, ScopesAreGranted DEF BalanceOver, S, f

\* A row that takes nothing leaves every balance where it was, or higher.
LEMMA BalanceGrows ==
  ASSUME NEW scope \in Scopes, NEW rows, IsFiniteSet(rows), \A r \in rows : r.amount \in Int,
         NEW row, row.amount \in Nat
  PROVE  BalanceOver(rows \cup {row}, scope) >= BalanceOver(rows, scope)
<1> DEFINE S == SeenBy(rows, scope)
           T == SeenBy(rows \cup {row}, scope)
           f == [r \in S |-> r.amount]
           g == [r \in T |-> r.amount]
<1>1. IsFiniteSet(S) /\ S \subseteq T /\ T \subseteq S \cup {row}
  BY FS_Subset DEF SeenBy
<1>2. \A r \in S : f[r] \in Int /\ f[r] = g[r] /\ g[r] \in Int
  BY <1>1 DEF SeenBy
<1>3. row \in T => g[row] \in Nat
  OBVIOUS
<1> HIDE DEF S, T, f, g
<1>4. SumOf(f, S) \in Int /\ Granted(scope) \in Int
  BY <1>1, <1>2, SumInt, ScopesAreGranted
<1>5. SumOf(f, S) = SumOf(g, S)
  BY <1>1, <1>2, SumEqual
<1>6. CASE row \in T /\ row \notin S
  <2>1. T = S \cup {row}
    BY <1>1, <1>6
  <2>2. \A x \in S \cup {row} : g[x] \in Int
    BY <1>2, <1>3, <1>6
  <2>3. SumOf(g, S \cup {row}) = g[row] + SumOf(g, S)
    BY <1>1, <1>6, <2>2, SumAddElement
  <2>4. SumOf(g, T) = g[row] + SumOf(g, S)
    BY <2>1, <2>3, Zenon
  <2>5. SumOf(g, T) >= SumOf(f, S)
    BY <1>3, <1>4, <1>5, <1>6, <2>4
  <2>6. SumOf(g, T) \in Int
    BY <1>3, <1>4, <1>5, <1>6, <2>4
  <2> QED BY <1>4, <2>5, <2>6 DEF BalanceOver, S, T, f, g
<1>7. CASE ~(row \in T /\ row \notin S)
  <2>1. T = S
    BY <1>1, <1>7
  <2>2. SumOf(g, T) = SumOf(f, S)
    BY <1>5, <2>1, Zenon
  <2> QED BY <1>4, <2>2 DEF BalanceOver, S, T, f, g
<1> QED BY <1>6, <1>7

-----------------------------------------------------------------------------
(* Steps.                                                                  *)

\* What a step may make of the process of a turn.
GoodTurn(row) ==
  /\ row \in TurnRecords
  /\ row.pc \notin {"idle", "said", "scope", "ended"} => row.scope \in Scopes
  /\ row.pc \in AboutToStep => row.step < MAX_STEPS

\* The turns that do not take the step keep their rows and their place.
LEMMA OtherTurns ==
  ASSUME TurnInv, NEW t \in Turns, NEW row, turns' = [turns EXCEPT ![t] = row],
         excused' \in {excused, excused \cup {t}},
         NEW u \in Turns \ {t}, RowsOf(u)' = RowsOf(u)
  PROVE  BooksOf(u)'
<1>1. turns'[u] = turns[u] /\ (u \in excused' <=> u \in excused)
  BY DEF TurnInv, TurnTypes
<1>2. PICK scope \in Scopes, kinds \in Courses :
        /\ RowsOf(u) = Rows(u, scope, kinds)
        /\ turns[u].pc \in InLoop \cup {"failing", "reply"} => scope = turns[u].scope
        /\ CourseOf(turns[u], u \in excused, kinds)
  BY DEF TurnInv, BooksOf
<1>3. CourseOf(turns'[u], u \in excused', kinds)
  BY <1>1, <1>2 DEF CourseOf
<1>4. RowsOf(u)' = Rows(u, scope, kinds)
  BY <1>2
<1> QED BY <1>1, <1>2, <1>3, <1>4 DEF BooksOf

\* A step that writes no row.
LEMMA QuietStep ==
  ASSUME TurnInv, NEW t \in Turns, NEW row, turns' = [turns EXCEPT ![t] = row], GoodTurn(row),
         conversation' \in Events \cup {Null}, mine' \subseteq Events,
         excused' \in {excused, excused \cup {t}}, ledger' = ledger, raced' = raced,
         row.pc \in InLoop \cup {"failing", "reply"} =>
           turns[t].pc \in InLoop \cup {"failing", "reply"} /\ row.scope = turns[t].scope,
         \A kinds \in Courses :
           CourseOf(turns[t], t \in excused, kinds) => CourseOf(row, t \in excused', kinds),
         row.pc = "reserve" => BalanceOver(ledger, row.scope) >= 1
  PROVE  TurnInv'
<1>1. turns'[t] = row /\ \A u \in Turns \ {t} : turns'[u] = turns[u]
  BY DEF TurnInv, TurnTypes
<1>2. TurnTypes'
  <2>1. turns' \in [Turns -> TurnRecords]
    BY DEF TurnInv, TurnTypes, GoodTurn
  <2>2. \A u \in Turns : turns'[u].pc \notin {"idle", "said", "scope", "ended"} => turns'[u].scope \in Scopes
    BY <1>1 DEF TurnInv, TurnTypes, GoodTurn
  <2>3. \A u \in Turns : turns'[u].pc \in AboutToStep => turns'[u].step < MAX_STEPS
    BY <1>1 DEF TurnInv, TurnTypes, GoodTurn
  <2> QED BY <2>1, <2>2, <2>3 DEF TurnTypes
<1>3. LedgerRows'
  BY DEF TurnInv, LedgerRows
<1>4. \A u \in Turns : RowsOf(u)' = RowsOf(u)
  BY DEF RowsOf
<1>5. BooksOf(t)'
  <2>1. PICK scope \in Scopes, kinds \in Courses :
          /\ RowsOf(t) = Rows(t, scope, kinds)
          /\ turns[t].pc \in InLoop \cup {"failing", "reply"} => scope = turns[t].scope
          /\ CourseOf(turns[t], t \in excused, kinds)
    BY DEF TurnInv, BooksOf
  <2>2. CourseOf(turns'[t], t \in excused', kinds)
    BY <1>1, <2>1
  <2>3. turns'[t].pc \in InLoop \cup {"failing", "reply"} => scope = turns'[t].scope
    BY <1>1, <2>1
  <2>4. RowsOf(t)' = Rows(t, scope, kinds)
    BY <1>4, <2>1
  <2> QED BY <2>2, <2>3, <2>4 DEF BooksOf
<1>6. \A u \in Turns \ {t} : BooksOf(u)'
  BY <1>4, OtherTurns
<1>7. CheckHolds'
  <2> SUFFICES ASSUME NEW u \in Turns, turns'[u].pc = "reserve", u \notin raced'
               PROVE  aiBalance(turns[u].scope)' >= 1
    BY DEF CheckHolds
  <2>1. PICK s : s = turns'[u].scope
    OBVIOUS
  <2>2. aiBalance(turns[u].scope)' = aiBalance(s)'
    BY <2>1 DEF aiBalance, accountOf, MapThenSumSet, MapThenFoldSet
  <2>3. aiBalance(s)' = BalanceOver(ledger, s)
    BY BalanceForms
  <2>4. BalanceOver(ledger, s) >= 1
    <3>1. CASE u = t
      BY <1>1, <2>1, <3>1
    <3>2. CASE u # t
      <4>1. turns[u] = turns'[u] /\ turns[u].scope = s
        BY <1>1, <2>1, <3>2
      <4>2. aiBalance(turns[u].scope) >= 1
        BY <4>1 DEF TurnInv, CheckHolds
      <4>3. aiBalance(turns[u].scope) = BalanceOver(ledger, s)
        BY <4>1, BalanceForms
      <4> QED BY <4>2, <4>3
    <3> QED BY <3>1, <3>2
  <2> QED BY <2>2, <2>3, <2>4
<1> QED BY <1>2, <1>3, <1>5, <1>6, <1>7 DEF TurnInv

\* A step that writes a row of the turn, on the turn's scope.
LEMMA WritingStep ==
  ASSUME TurnInv, NEW t \in Turns, NEW row, turns' = [turns EXCEPT ![t] = row], GoodTurn(row),
         UNCHANGED <<conversation, mine>>, excused' \in {excused, excused \cup {t}},
         NEW kind \in Kinds, turns[t].pc \notin {"idle", "said", "scope", "ended"},
         ledger' = appendAi(t, turns[t].scope, kind, Worth(kind)), raced \subseteq raced',
         kind = "RESERVE" => \A u \in Turns \ {t} : turns[u].pc = "reserve" => u \in raced',
         turns[t].pc \notin InLoop \cup {"failing", "reply"} => kind = "RESERVE",
         row.pc # "reserve",
         row.pc \in InLoop \cup {"failing", "reply"} => row.scope = turns[t].scope,
         \A kinds \in Courses :
           CourseOf(turns[t], t \in excused, kinds) =>
             kinds \cup {kind} \in Courses /\ CourseOf(row, t \in excused', kinds \cup {kind}),
         kind = "RESERVE" => turns[t].pc \in Before
  PROVE  TurnInv'
<1>1. turns'[t] = row /\ \A u \in Turns \ {t} : turns'[u] = turns[u]
  BY DEF TurnInv, TurnTypes
<1>2. TurnTypes'
  <2>1. turns' \in [Turns -> TurnRecords]
    BY DEF TurnInv, TurnTypes, GoodTurn
  <2>2. \A u \in Turns : turns'[u].pc \notin {"idle", "said", "scope", "ended"} => turns'[u].scope \in Scopes
    BY <1>1 DEF TurnInv, TurnTypes, GoodTurn
  <2>3. \A u \in Turns : turns'[u].pc \in AboutToStep => turns'[u].step < MAX_STEPS
    BY <1>1 DEF TurnInv, TurnTypes, GoodTurn
  <2> QED BY <2>1, <2>2, <2>3 DEF TurnTypes, TurnInv
<1> DEFINE new == Row(t, turns[t].scope, kind)
<1>3. ledger' = ledger \cup {new}
  BY DEF appendAi, Row
<1>4. new.turn = t /\ new.amount = Worth(kind) /\ new.amount \in Int
  BY DEF Row, Worth
<1> HIDE DEF new
<1>5. LedgerRows'
  BY <1>3, <1>4, FS_AddElement DEF TurnInv, LedgerRows
<1>6. \A u \in Turns \ {t} : RowsOf(u)' = RowsOf(u)
  BY <1>3, <1>4 DEF RowsOf
<1>7. BooksOf(t)'
  <2>1. PICK scope \in Scopes, kinds \in Courses :
          /\ RowsOf(t) = Rows(t, scope, kinds)
          /\ turns[t].pc \in InLoop \cup {"failing", "reply"} => scope = turns[t].scope
          /\ CourseOf(turns[t], t \in excused, kinds)
    BY DEF TurnInv, BooksOf
  <2>2. kinds \cup {kind} \in Courses /\ CourseOf(turns'[t], t \in excused', kinds \cup {kind})
    BY <1>1, <2>1
  <2>3. turns[t].scope \in Scopes
    BY DEF TurnInv, TurnTypes
  <2>4. RowsOf(t)' = RowsOf(t) \cup {new}
    BY <1>3, <1>4 DEF RowsOf
  <2>5. RowsOf(t) = Rows(t, turns[t].scope, kinds)
    <3>1. CASE kind = "RESERVE"
      <4>1. kinds = {}
        BY <2>1, <3>1 DEF CourseOf
      <4> QED BY <2>1, <4>1 DEF Rows
    <3>2. CASE kind # "RESERVE"
      BY <2>1, <3>2
    <3> QED BY <3>1, <3>2
  <2>6. RowsOf(t)' = Rows(t, turns[t].scope, kinds \cup {kind})
    BY <2>4, <2>5 DEF Rows, new
  <2>7. turns'[t].pc \in InLoop \cup {"failing", "reply"} => turns[t].scope = turns'[t].scope
    BY <1>1
  <2> QED BY <2>2, <2>3, <2>6, <2>7 DEF BooksOf
<1>8. \A u \in Turns \ {t} : BooksOf(u)'
  BY <1>6, OtherTurns
<1>9. CheckHolds'
  <2> SUFFICES ASSUME NEW u \in Turns, turns'[u].pc = "reserve", u \notin raced'
               PROVE  aiBalance(turns[u].scope)' >= 1
    BY DEF CheckHolds
  <2>1. PICK s : s = turns'[u].scope
    OBVIOUS
  <2>2. aiBalance(turns[u].scope)' = aiBalance(s)'
    BY <2>1 DEF aiBalance, accountOf, MapThenSumSet, MapThenFoldSet
  <2>3. aiBalance(s)' = BalanceOver(ledger \cup {new}, s)
    BY <1>3, BalanceForms
  <2>4. u # t /\ kind # "RESERVE" /\ turns[u] = turns'[u] /\ turns[u].scope = s
    BY <1>1, <2>1
  <2>5. s \in Scopes
    BY <1>2, <2>1 DEF TurnTypes
  <2>6. new.amount \in Nat
    BY <1>4, <2>4 DEF Worth, Kinds
  <2>7. BalanceOver(ledger \cup {new}, s) >= BalanceOver(ledger, s)
    BY <2>5, <2>6, BalanceGrows DEF TurnInv, LedgerRows
  <2>8. BalanceOver(ledger, s) >= 1
    <3>1. aiBalance(turns[u].scope) >= 1
      BY <2>4 DEF TurnInv, CheckHolds
    <3>2. aiBalance(turns[u].scope) = BalanceOver(ledger, s)
      BY <2>4, BalanceForms
    <3> QED BY <3>1, <3>2
  <2>9. BalanceOver(ledger \cup {new}, s) \in Int /\ BalanceOver(ledger, s) \in Int
    <3>1. ASSUME NEW rows, IsFiniteSet(rows), \A r \in rows : r.amount \in Int
          PROVE  BalanceOver(rows, s) \in Int
      BY <2>5, <3>1, BalanceIsInt
    <3> QED BY <1>3, <1>5, <3>1 DEF TurnInv, LedgerRows
  <2> QED BY <2>2, <2>3, <2>7, <2>8, <2>9
<1> QED BY <1>2, <1>5, <1>7, <1>8, <1>9 DEF TurnInv

\* The empty process of a turn.
LEMMA NoTurnIsGood == NoTurn \in TurnRecords
BY AssistantAssumption DEF NoTurn, TurnRecords, Pcs, Before, NoScope

\* A turn that is over.
LEMMA EndedIsGood ==
  ASSUME NEW outcome \in {Null, "locked", "answered", "unanswered"}
  PROVE  LET row == [NoTurn EXCEPT !.pc = "ended", !.outcome = outcome] IN
         /\ GoodTurn(row) /\ row.pc = "ended" /\ row.outcome = outcome
BY NoTurnIsGood, AssistantAssumption
   DEF GoodTurn, TurnRecords, NoTurn, Pcs, AboutToStep, Before, InLoop

\* Before the reservation.
LEMMA BeginningSteps ==
  ASSUME TurnInv, NEW t \in Turns,
         chat(t) \/ converse(t) \/ appendMessage(t) \/ resolveCreditScope(t) \/ CheckBalance(t)
  PROVE  TurnInv'
<1> DEFINE turn == turns[t]
<1>0. /\ turn \in TurnRecords /\ conversation \in Events \cup {Null} /\ mine \subseteq Events
      /\ turn.pc \notin {"idle", "said", "scope", "ended"} => turn.scope \in Scopes
      /\ turn.pc \in AboutToStep => turn.step < MAX_STEPS
  BY DEF TurnInv, TurnTypes
<1>1. CASE chat(t)
  <2>1. PICK e \in mine :
          turns' = [turns EXCEPT ![t] = [NoTurn EXCEPT !.pc = "scope", !.fixed = TRUE, !.active = e]]
    BY <1>1 DEF chat
  <2> DEFINE row == [NoTurn EXCEPT !.pc = "scope", !.fixed = TRUE, !.active = e]
  <2>2. GoodTurn(row) /\ row.pc = "scope"
    <3>1. row \in TurnRecords /\ row.pc = "scope"
      BY <1>0, NoTurnIsGood DEF TurnRecords, Pcs, Before
    <3>2. row.step = 0
      BY DEF NoTurn
    <3> HIDE DEF row
    <3> QED BY <3>1, <3>2, AssistantAssumption DEF GoodTurn
  <2> HIDE DEF row
  <2>3. \A kinds \in Courses :
          CourseOf(turn, t \in excused, kinds) => CourseOf(row, t \in excused', kinds)
    BY <1>1, <2>2 DEF chat, CourseOf, Before, InLoop
  <2>4. turns' = [turns EXCEPT ![t] = row]
    BY <2>1 DEF row
  <2> QED BY <1>0, <1>1, <2>2, <2>3, <2>4, QuietStep DEF chat, talk, credit, InLoop
<1>2. CASE converse(t)
  <2> DEFINE row == [NoTurn EXCEPT !.pc = "said", !.active = conversation]
  <2>1. turns' = [turns EXCEPT ![t] = row]
    BY <1>2 DEF converse
  <2>2. GoodTurn(row) /\ row.pc = "said"
    <3>1. row \in TurnRecords /\ row.pc = "said"
      BY <1>0, NoTurnIsGood DEF TurnRecords, Pcs, Before
    <3>2. row.step = 0
      BY DEF NoTurn
    <3> HIDE DEF row
    <3> QED BY <3>1, <3>2, AssistantAssumption DEF GoodTurn
  <2> HIDE DEF row
  <2>3. \A kinds \in Courses :
          CourseOf(turn, t \in excused, kinds) => CourseOf(row, t \in excused', kinds)
    BY <1>2, <2>2 DEF converse, CourseOf, Before, InLoop
  <2> QED BY <1>0, <1>2, <2>1, <2>2, <2>3, QuietStep DEF converse, talk, credit, InLoop
<1>3. CASE appendMessage(t)
  <2> DEFINE row == [turn EXCEPT !.pc = "scope"]
  <2>1. turns' = [turns EXCEPT ![t] = row]
    BY <1>0, <1>3 DEF appendMessage, goto
  <2>2. GoodTurn(row) /\ row.pc = "scope"
    BY <1>0, <1>3 DEF appendMessage, GoodTurn, TurnRecords, Pcs, AboutToStep, Before
  <2> HIDE DEF row
  <2>3. \A kinds \in Courses :
          CourseOf(turn, t \in excused, kinds) => CourseOf(row, t \in excused', kinds)
    BY <1>3, <2>2 DEF appendMessage, CourseOf, Before, InLoop
  <2> QED BY <1>0, <1>3, <2>1, <2>2, <2>3, QuietStep DEF appendMessage, talk, credit, InLoop
<1>4. CASE resolveCreditScope(t)
  <2>1. PICK scope \in Scopes : turns' = [turns EXCEPT ![t].pc = "check", ![t].scope = scope]
    <3>1. PICK scope : /\ turns' = [turns EXCEPT ![t].pc = "check", ![t].scope = scope]
                       /\ \/ turn.active # Null /\ scope = OnEvent(turn.active)
                          \/ scope = OnMe
                          \/ \E e \in mine : scope = OnEvent(e)
      BY <1>4 DEF resolveCreditScope, OnEvent, OnMe
    <3>2. turn.active \in Events \cup {Null}
      BY <1>0 DEF TurnRecords
    <3>3. scope \in Scopes
      BY <1>0, <3>1, <3>2 DEF Scopes
    <3> QED BY <3>1, <3>3
  <2> DEFINE row == [turn EXCEPT !.pc = "check", !.scope = scope]
  <2>2. turns' = [turns EXCEPT ![t] = row]
    BY <1>0, <2>1
  <2>3. GoodTurn(row) /\ row.pc = "check"
    BY <1>0, <1>4, <2>1 DEF resolveCreditScope, GoodTurn, TurnRecords, Pcs, AboutToStep, Before
  <2> HIDE DEF row
  <2>4. \A kinds \in Courses :
          CourseOf(turn, t \in excused, kinds) => CourseOf(row, t \in excused', kinds)
    BY <1>4, <2>3 DEF resolveCreditScope, CourseOf, Before, InLoop
  <2>5. UNCHANGED <<talk, credit, faults, excused>>
    BY <1>4 DEF resolveCreditScope
  <2> QED BY <1>0, <2>2, <2>3, <2>4, <2>5, QuietStep DEF talk, credit, InLoop
<1>5. CASE CheckBalance(t) /\ aiBalance(turns[t].scope) < 1
  <2> DEFINE row == [NoTurn EXCEPT !.pc = "ended", !.outcome = "locked"]
  <2>1. turns' = [turns EXCEPT ![t] = row]
    BY <1>5 DEF CheckBalance, end
  <2>2. GoodTurn(row) /\ row.pc = "ended" /\ row.outcome = "locked"
    BY EndedIsGood
  <2> HIDE DEF row
  <2>3. \A kinds \in Courses :
          CourseOf(turn, t \in excused, kinds) => CourseOf(row, t \in excused', kinds)
    BY <1>5, <2>2 DEF CheckBalance, CourseOf, Before, InLoop
  <2> QED BY <1>0, <1>5, <2>1, <2>2, <2>3, QuietStep DEF CheckBalance, talk, credit, InLoop
<1>6. CASE CheckBalance(t) /\ ~(aiBalance(turns[t].scope) < 1)
  <2> DEFINE row == [turn EXCEPT !.pc = "reserve"]
  <2>1. turns' = [turns EXCEPT ![t] = row]
    BY <1>0, <1>6 DEF CheckBalance, goto
  <2>2. GoodTurn(row) /\ row.pc = "reserve" /\ row.scope = turn.scope /\ turn.scope \in Scopes
    BY <1>0, <1>6 DEF CheckBalance, GoodTurn, TurnRecords, Pcs, AboutToStep, Before
  <2> HIDE DEF row
  <2>3. \A kinds \in Courses :
          CourseOf(turn, t \in excused, kinds) => CourseOf(row, t \in excused', kinds)
    BY <1>6, <2>2 DEF CheckBalance, CourseOf, Before, InLoop
  <2>4. BalanceOver(ledger, row.scope) >= 1
    <3>1. aiBalance(turn.scope) = BalanceOver(ledger, turn.scope)
      BY BalanceForms
    <3>2. BalanceOver(ledger, turn.scope) \in Int
      BY <2>2, BalanceIsInt DEF TurnInv, LedgerRows
    <3> QED BY <1>6, <2>2, <3>1, <3>2
  <2> QED BY <1>0, <1>6, <2>1, <2>2, <2>3, <2>4, QuietStep DEF CheckBalance, talk, credit, InLoop
<1> QED BY <1>1, <1>2, <1>3, <1>4, <1>5, <1>6

\* The reservation, the commit and the refund.
LEMMA LedgerSteps ==
  ASSUME TurnInv, NEW t \in Turns,
         reserveAiCredit(t) \/ commitAiCredit(t) \/ CommitAnswerLost(t) \/ refundAiCredit(t)
  PROVE  TurnInv'
<1> DEFINE turn == turns[t]
<1>0. /\ turn \in TurnRecords /\ conversation \in Events \cup {Null} /\ mine \subseteq Events
      /\ turn.pc \notin {"idle", "said", "scope", "ended"} => turn.scope \in Scopes
      /\ turn.pc \in AboutToStep => turn.step < MAX_STEPS
  BY DEF TurnInv, TurnTypes
<1>1. CASE reserveAiCredit(t)
  <2> DEFINE row == [turn EXCEPT !.pc = "model"]
  <2>1. turns' = [turns EXCEPT ![t] = row]
    BY <1>0, <1>1 DEF reserveAiCredit, goto
  <2>2. GoodTurn(row) /\ row.pc = "model" /\ row.scope = turn.scope
    BY <1>0, <1>1 DEF reserveAiCredit, GoodTurn, TurnRecords, Pcs, AboutToStep, Before, InLoop
  <2> HIDE DEF row
  <2>3. \A kinds \in Courses : CourseOf(turn, t \in excused, kinds) =>
          kinds \cup {"RESERVE"} \in Courses /\ CourseOf(row, t \in excused', kinds \cup {"RESERVE"})
    <3> SUFFICES ASSUME NEW kinds \in Courses, CourseOf(turn, t \in excused, kinds)
                 PROVE  kinds \cup {"RESERVE"} \in Courses /\ CourseOf(row, t \in excused', kinds \cup {"RESERVE"})
      OBVIOUS
    <3>1. kinds = {}
      BY <1>1 DEF reserveAiCredit, CourseOf, Before
    <3>2. kinds \cup {"RESERVE"} = {"RESERVE"}
      BY <3>1
    <3>3. {"RESERVE"} \in Courses
      <4>1. {"RESERVE"} = {"RESERVE"} \cup {}
        OBVIOUS
      <4> QED BY <4>1 DEF Courses
    <3>4. CourseOf(row, t \in excused', {"RESERVE"})
      BY <2>2 DEF CourseOf, Before, InLoop
    <3> QED BY <3>2, <3>3, <3>4
  <2>4. ledger' = appendAi(t, turn.scope, "RESERVE", Worth("RESERVE"))
    BY <1>1 DEF reserveAiCredit, Worth
  <2>5. raced \subseteq raced' /\ \A u \in Turns \ {t} : turns[u].pc = "reserve" => u \in raced'
    BY <1>1 DEF reserveAiCredit
  <2>6. UNCHANGED <<talk, faults, excused>> /\ turn.pc = "reserve"
    BY <1>1 DEF reserveAiCredit
  <2> QED BY <2>1, <2>2, <2>3, <2>4, <2>5, <2>6, WritingStep DEF talk, Kinds, InLoop, Before
<1>2. CASE commitAiCredit(t) \/ CommitAnswerLost(t)
  <2> DEFINE row == IF commitAiCredit(t) THEN [turn EXCEPT !.pc = "reply", !.outcome = "answered"]
                    ELSE [turn EXCEPT !.pc = "failing"]
  <2>1. turns' = [turns EXCEPT ![t] = row]
    BY <1>0, <1>2 DEF commitAiCredit, CommitAnswerLost, goto
  <2>2. /\ GoodTurn(row) /\ row.scope = turn.scope
        /\ \/ row.pc = "reply" /\ row.outcome = "answered"
           \/ row.pc = "failing" /\ t \in excused'
    BY <1>0, <1>2 DEF commitAiCredit, CommitAnswerLost, GoodTurn, TurnRecords, Pcs, AboutToStep, Before, InLoop
  <2> HIDE DEF row
  <2>3. \A kinds \in Courses : CourseOf(turn, t \in excused, kinds) =>
          kinds \cup {"COMMIT"} \in Courses /\ CourseOf(row, t \in excused', kinds \cup {"COMMIT"})
    <3> SUFFICES ASSUME NEW kinds \in Courses, CourseOf(turn, t \in excused, kinds)
                 PROVE  kinds \cup {"COMMIT"} \in Courses /\ CourseOf(row, t \in excused', kinds \cup {"COMMIT"})
      OBVIOUS
    <3>1. kinds = {"RESERVE"}
      BY <1>2 DEF commitAiCredit, CommitAnswerLost, CourseOf, InLoop
    <3>2. kinds \cup {"COMMIT"} = {"RESERVE", "COMMIT"}
      BY <3>1
    <3>3. {"RESERVE", "COMMIT"} \in Courses
      <4>1. {"RESERVE", "COMMIT"} = {"RESERVE"} \cup {"COMMIT"}
        OBVIOUS
      <4> QED BY <4>1 DEF Courses
    <3>4. CourseOf(row, t \in excused', {"RESERVE", "COMMIT"})
      BY <2>2 DEF CourseOf, Before, InLoop
    <3> QED BY <3>2, <3>3, <3>4
  <2>4. ledger' = appendAi(t, turn.scope, "COMMIT", Worth("COMMIT"))
    BY <1>2 DEF commitAiCredit, CommitAnswerLost, Worth
  <2>5. UNCHANGED <<talk, raced>> /\ turn.pc = "commit" /\ excused' \in {excused, excused \cup {t}}
    BY <1>2 DEF commitAiCredit, CommitAnswerLost
  <2> QED BY <2>1, <2>2, <2>3, <2>4, <2>5, WritingStep DEF talk, Kinds, InLoop, Before
<1>3. CASE refundAiCredit(t)
  <2>1. PICK row : /\ turns' = [turns EXCEPT ![t] = row]
                   /\ \/ row = [turn EXCEPT !.pc = "reply", !.outcome = "unanswered"]
                      \/ row = [NoTurn EXCEPT !.pc = "ended", !.outcome = "unanswered"]
    BY <1>0, <1>3 DEF refundAiCredit, end
  <2>2. /\ GoodTurn(row) /\ row.outcome = "unanswered"
        /\ (row.pc = "reply" /\ row.scope = turn.scope) \/ row.pc = "ended"
    <3>1. CASE row = [turn EXCEPT !.pc = "reply", !.outcome = "unanswered"]
      BY <1>0, <1>3, <3>1 DEF refundAiCredit, GoodTurn, TurnRecords, Pcs, AboutToStep, Before, InLoop
    <3>2. CASE row = [NoTurn EXCEPT !.pc = "ended", !.outcome = "unanswered"]
      BY <3>2, EndedIsGood
    <3> QED BY <2>1, <3>1, <3>2
  <2>3. \A kinds \in Courses : CourseOf(turn, t \in excused, kinds) =>
          kinds \cup {"REFUND"} \in Courses /\ CourseOf(row, t \in excused', kinds \cup {"REFUND"})
    <3> SUFFICES ASSUME NEW kinds \in Courses, CourseOf(turn, t \in excused, kinds)
                 PROVE  kinds \cup {"REFUND"} \in Courses /\ CourseOf(row, t \in excused', kinds \cup {"REFUND"})
      OBVIOUS
    <3>0. excused' = excused
      BY <1>3 DEF refundAiCredit
    <3>1. kinds = {"RESERVE"} \/ (t \in excused /\ kinds = {"RESERVE", "COMMIT"})
      BY <1>3 DEF refundAiCredit, CourseOf, InLoop
    <3>2. CASE kinds = {"RESERVE"}
      <4>1. kinds \cup {"REFUND"} = {"RESERVE", "REFUND"}
        BY <3>2
      <4>2. {"RESERVE", "REFUND"} = {"RESERVE"} \cup {"REFUND"}
        OBVIOUS
      <4>3. {"RESERVE", "REFUND"} \in Courses
        BY <4>2 DEF Courses
      <4>4. CourseOf(row, t \in excused', {"RESERVE", "REFUND"})
        BY <2>2 DEF CourseOf, Before, InLoop
      <4> QED BY <4>1, <4>3, <4>4
    <3>3. CASE t \in excused /\ kinds = {"RESERVE", "COMMIT"}
      <4>1. kinds \cup {"REFUND"} = {"RESERVE"} \cup {"COMMIT", "REFUND"}
        BY <3>3
      <4>2. kinds \cup {"REFUND"} \in Courses
        BY <4>1 DEF Courses
      <4>3. CourseOf(row, t \in excused', kinds \cup {"REFUND"})
        BY <2>2, <3>0, <3>3 DEF CourseOf, Before, InLoop
      <4> QED BY <4>2, <4>3
    <3> QED BY <3>1, <3>2, <3>3
  <2>4. ledger' = appendAi(t, turn.scope, "REFUND", Worth("REFUND"))
    BY <1>3 DEF refundAiCredit, Worth
  <2>5. UNCHANGED <<talk, raced, excused>> /\ turn.pc \in {"failing", "exhausted"}
    BY <1>3 DEF refundAiCredit
  <2> QED BY <2>1, <2>2, <2>3, <2>4, <2>5, WritingStep DEF talk, Kinds, InLoop, Before
<1> QED BY <1>1, <1>2, <1>3

\* After a tool the turn is in the loop still, and within its steps.
LEMMA AfterToolIsGood ==
  ASSUME NEW turn \in TurnRecords, turn.pc = "tool", turn.scope \in Scopes
  PROVE  /\ GoodTurn(AfterTool(turn))
         /\ AfterTool(turn).pc \in {"tool", "model", "exhausted"}
         /\ AfterTool(turn).scope = turn.scope
<1>1. CASE turn.asked > 1
  <2> DEFINE row == [turn EXCEPT !.asked = @ - 1]
  <2>1. AfterTool(turn) = row
    BY <1>1 DEF AfterTool
  <2>2. turn.asked - 1 \in Nat
    BY <1>1 DEF TurnRecords
  <2>3. row \in TurnRecords /\ row.pc = "tool" /\ row.scope = turn.scope
    BY <2>2 DEF TurnRecords
  <2> HIDE DEF row
  <2> QED BY <2>1, <2>3 DEF GoodTurn, AboutToStep, Before
<1>2. CASE ~(turn.asked > 1)
  <2> DEFINE pc == IF turn.step = MAX_STEPS THEN "exhausted" ELSE "model"
             row == [turn EXCEPT !.asked = 0, !.pc = pc]
  <2>1. AfterTool(turn) = row
    BY <1>2 DEF AfterTool
  <2>2. row \in TurnRecords /\ row.pc = pc /\ row.scope = turn.scope /\ row.step = turn.step
    BY DEF TurnRecords, Pcs, InLoop
  <2>3. pc = "model" => turn.step < MAX_STEPS
    BY AssistantAssumption DEF TurnRecords
  <2> HIDE DEF row
  <2> QED BY <2>1, <2>2, <2>3 DEF GoodTurn, AboutToStep, Before
<1> QED BY <1>1, <1>2

\* The loop: the reservation stays, whatever the model asks for.
LEMMA LoopSteps ==
  ASSUME TurnInv, NEW t \in Turns,
         \/ ModelAnswers(t) \/ ModelAsks(t) \/ (\E tool \in Offered : UseTool(t, tool))
         \/ ToolCreatesEvent(t) \/ ToolSwitchesEvent(t) \/ PointerCleared(t) \/ setActiveEvent(t)
         \/ TurnFails(t)
  PROVE  TurnInv'
<1> DEFINE turn == turns[t]
<1>0. /\ turn \in TurnRecords /\ conversation \in Events \cup {Null} /\ mine \subseteq Events
      /\ turn.pc \notin {"idle", "said", "scope", "ended"} => turn.scope \in Scopes
      /\ turn.pc \in AboutToStep => turn.step < MAX_STEPS
  BY DEF TurnInv, TurnTypes
<1>1. \E row : /\ turns' = [turns EXCEPT ![t] = row] /\ GoodTurn(row)
               /\ row.pc \in InLoop \cup {"failing"} /\ row.scope = turn.scope
  <2>1. CASE ModelAnswers(t)
    <3> DEFINE row == [turn EXCEPT !.pc = "commit"]
    <3>1. turns' = [turns EXCEPT ![t] = row]
      BY <1>0, <2>1 DEF ModelAnswers, goto
    <3>2. GoodTurn(row) /\ row.pc = "commit" /\ row.scope = turn.scope
      BY <1>0, <2>1 DEF ModelAnswers, GoodTurn, TurnRecords, Pcs, InLoop, AboutToStep, Before
    <3> HIDE DEF row
    <3> QED BY <3>1, <3>2 DEF InLoop
  <2>2. CASE ModelAsks(t)
    <3>1. PICK n \in 1 .. MaxToolCalls :
            turns' = [turns EXCEPT ![t].pc = "tool", ![t].step = @ + 1, ![t].asked = n]
      BY <2>2 DEF ModelAsks
    <3> DEFINE row == [turn EXCEPT !.pc = "tool", !.step = @ + 1, !.asked = n]
    <3>2. turns' = [turns EXCEPT ![t] = row]
      BY <1>0, <3>1
    <3>3. turn.step + 1 \in 0 .. MAX_STEPS /\ n \in Nat /\ turn.scope \in Scopes
      BY <1>0, <2>2, AssistantAssumption DEF ModelAsks, AboutToStep, TurnRecords
    <3>4. row \in TurnRecords /\ row.pc = "tool" /\ row.scope = turn.scope
      BY <1>0, <3>3 DEF TurnRecords, Pcs, InLoop
    <3> HIDE DEF row
    <3> QED BY <3>2, <3>3, <3>4 DEF GoodTurn, AboutToStep, Before, InLoop
  <2>3. CASE \E tool \in Offered : UseTool(t, tool)
    <3>1. PICK complete : /\ complete \in BOOLEAN
                          /\ turns' = [turns EXCEPT ![t] = AfterTool([turn EXCEPT !.complete = complete])]
      <4>1. turn.complete \in BOOLEAN
        BY <1>0 DEF TurnRecords
      <4> QED BY <2>3, <4>1, Zenon DEF UseTool
    <3> DEFINE used == [turn EXCEPT !.complete = complete]
    <3>2. used \in TurnRecords /\ used.pc = "tool" /\ used.scope = turn.scope /\ turn.scope \in Scopes
      BY <1>0, <2>3, <3>1 DEF UseTool, TurnRecords
    <3> HIDE DEF used
    <3>3. turns' = [turns EXCEPT ![t] = AfterTool(used)]
      BY <3>1 DEF used
    <3> QED BY <3>2, <3>3, AfterToolIsGood DEF InLoop
  <2>4. CASE ToolCreatesEvent(t) \/ ToolSwitchesEvent(t) \/ PointerCleared(t)
    <3>1. PICK e \in Events \cup {Null} : turns' = [turns EXCEPT ![t] = Point(turn, e)]
      BY <1>0, <2>4 DEF ToolCreatesEvent, ToolSwitchesEvent, PointerCleared
    <3>2. turn.pc = "tool"
      BY <2>4 DEF ToolCreatesEvent, ToolSwitchesEvent, PointerCleared
    <3> DEFINE row == Point(turn, e)
    <3>3. GoodTurn(row) /\ row.pc = "point" /\ row.scope = turn.scope
      BY <1>0, <3>1, <3>2 DEF Point, GoodTurn, TurnRecords, Pcs, InLoop, AboutToStep, Before
    <3> HIDE DEF row
    <3>4. turns' = [turns EXCEPT ![t] = row]
      BY <3>1 DEF row
    <3> QED BY <3>3, <3>4 DEF InLoop
  <2>5. CASE setActiveEvent(t)
    <3> DEFINE back == [turn EXCEPT !.pc = "tool"]
    <3>1. back \in TurnRecords /\ back.pc = "tool" /\ back.scope = turn.scope /\ turn.scope \in Scopes
      BY <1>0, <2>5 DEF setActiveEvent, TurnRecords, Pcs, InLoop
    <3>2. turns' = [turns EXCEPT ![t] = AfterTool(back)]
      BY <2>5 DEF setActiveEvent
    <3> HIDE DEF back
    <3> QED BY <3>1, <3>2, AfterToolIsGood DEF InLoop
  <2>6. CASE TurnFails(t)
    <3> DEFINE row == [turn EXCEPT !.pc = "failing"]
    <3>1. turns' = [turns EXCEPT ![t] = row]
      BY <1>0, <2>6 DEF TurnFails, goto
    <3>2. GoodTurn(row) /\ row.pc = "failing" /\ row.scope = turn.scope
      BY <1>0, <2>6 DEF TurnFails, GoodTurn, TurnRecords, Pcs, InLoop, AboutToStep, Before
    <3> HIDE DEF row
    <3> QED BY <3>1, <3>2
  <2> QED BY <2>1, <2>2, <2>3, <2>4, <2>5, <2>6
<1>2. PICK row : /\ turns' = [turns EXCEPT ![t] = row] /\ GoodTurn(row)
                 /\ row.pc \in InLoop \cup {"failing"} /\ row.scope = turn.scope
  BY <1>1
<1>3. /\ turn.pc \in InLoop /\ conversation' \in Events \cup {Null} /\ mine' \subseteq Events
      /\ UNCHANGED <<ledger, raced, excused>>
  BY <1>0 DEF ModelAnswers, ModelAsks, UseTool, ToolCreatesEvent, ToolSwitchesEvent, PointerCleared,
              setActiveEvent, TurnFails, talk, credit, InLoop, TurnRecords
<1>4. \A kinds \in Courses :
        CourseOf(turn, t \in excused, kinds) => CourseOf(row, t \in excused', kinds)
  BY <1>2, <1>3 DEF CourseOf, Before, InLoop
<1> QED BY <1>2, <1>3, <1>4, QuietStep DEF InLoop

\* The ends of a turn that write no row.
LEMMA EndingSteps ==
  ASSUME TurnInv, NEW t \in Turns, RefundFails(t) \/ Reply(t) \/ TurnDies(t)
  PROVE  TurnInv'
<1> DEFINE turn == turns[t]
<1>0. /\ turn \in TurnRecords /\ conversation \in Events \cup {Null} /\ mine \subseteq Events
  BY DEF TurnInv, TurnTypes
<1>1. PICK outcome \in {Null, "locked", "answered", "unanswered"} :
        /\ turns' = [turns EXCEPT ![t] = [NoTurn EXCEPT !.pc = "ended", !.outcome = outcome]]
        /\ t \in excused' \/ (turn.pc = "reply" /\ outcome = turn.outcome /\ excused' = excused)
  BY <1>0 DEF RefundFails, Reply, TurnDies, end, TurnRecords
<1> DEFINE row == [NoTurn EXCEPT !.pc = "ended", !.outcome = outcome]
<1>2. GoodTurn(row) /\ row.pc = "ended" /\ row.outcome = outcome
  BY EndedIsGood
<1> HIDE DEF row
<1>3. turns' = [turns EXCEPT ![t] = row]
  BY <1>1 DEF row
<1>4. /\ UNCHANGED <<conversation, mine, ledger, raced>>
      /\ excused' \in {excused, excused \cup {t}}
  BY DEF RefundFails, Reply, TurnDies, talk, credit
<1>5. \A kinds \in Courses :
        CourseOf(turn, t \in excused, kinds) => CourseOf(row, t \in excused', kinds)
  BY <1>1, <1>2 DEF CourseOf, Before, InLoop
<1> QED BY <1>0, <1>2, <1>3, <1>4, <1>5, QuietStep DEF InLoop

\* The invariant at the start.
LEMMA TurnInit == Init => TurnInv
<1> SUFFICES ASSUME Init PROVE TurnInv
  OBVIOUS
<1>1. TurnTypes
  BY NoTurnIsGood, AssistantAssumption DEF Init, TurnTypes, NoTurn
<1>2. LedgerRows
  BY FS_EmptySet DEF Init, LedgerRows
<1>3. ASSUME NEW t \in Turns PROVE BooksOf(t)
  <2>1. RowsOf(t) = {} /\ turns[t].pc = "idle"
    BY DEF Init, RowsOf, NoTurn
  <2>2. RowsOf(t) = Rows(t, OnMe, {})
    BY <2>1 DEF Rows
  <2>3. OnMe \in Scopes /\ {} \in Courses
    BY DEF Scopes, Courses
  <2>4. CourseOf(turns[t], t \in excused, {})
    BY <2>1 DEF CourseOf, InLoop
  <2>5. turns[t].pc \notin InLoop \cup {"failing", "reply"}
    BY <2>1 DEF InLoop
  <2> QED BY <2>2, <2>3, <2>4, <2>5 DEF BooksOf
<1>4. CheckHolds
  BY DEF Init, CheckHolds, NoTurn
<1> QED BY <1>1, <1>2, <1>3, <1>4 DEF TurnInv

\* Every step keeps the invariant.
LEMMA TurnNext == TurnInv /\ [Next]_vars => TurnInv'
<1>1. ASSUME TurnInv, UNCHANGED vars PROVE TurnInv'
  <2>1. UNCHANGED <<conversation, mine, ledger, turns, excused, raced>>
    BY <1>1 DEF vars
  <2>2. TurnTypes' /\ LedgerRows'
    BY <1>1, <2>1 DEF TurnInv, TurnTypes, LedgerRows
  <2>3. \A t \in Turns : BooksOf(t)'
    BY <1>1, <2>1 DEF TurnInv, BooksOf, RowsOf
  <2>4. CheckHolds'
    <3> SUFFICES ASSUME NEW u \in Turns, turns'[u].pc = "reserve", u \notin raced'
                 PROVE  aiBalance(turns[u].scope)' >= 1
      BY DEF CheckHolds
    <3>1. PICK s : s = turns'[u].scope
      OBVIOUS
    <3>2. aiBalance(turns[u].scope)' = aiBalance(s)'
      BY <3>1 DEF aiBalance, accountOf, MapThenSumSet, MapThenFoldSet
    <3>3. aiBalance(s)' = aiBalance(turns[u].scope)
      BY <2>1, <3>1, BalanceForms
    <3>4. aiBalance(turns[u].scope) >= 1
      BY <1>1, <2>1 DEF TurnInv, CheckHolds
    <3> QED BY <3>2, <3>3, <3>4
  <2> QED BY <2>2, <2>3, <2>4 DEF TurnInv
<1>2. ASSUME TurnInv, Next PROVE TurnInv'
  BY <1>2, BeginningSteps, LedgerSteps, LoopSteps, EndingSteps DEF Next, TurnStep, TurnFault
<1> QED BY <1>1, <1>2

\* Turns have at most MAX_STEPS steps, one scope, and the rows that belong to
\* where they are.
THEOREM TurnInvariance == Spec => []TurnInv
BY TurnInit, TurnNext, PTL DEF Spec

\* The amounts of a course.
LEMMA CostOfCourse ==
  ASSUME NEW t, NEW scope, NEW kinds \in Courses
  PROVE  LET S == Rows(t, scope, kinds) IN
         SumOf([r \in S |-> r.amount], S)
           = IF kinds = {"RESERVE"} \/ kinds = {"RESERVE", "COMMIT"} THEN -1 ELSE 0
<1> DEFINE S == Rows(t, scope, kinds)
           f == [r \in S |-> r.amount]
           g == [kind \in kinds |-> Worth(kind)]
           h == [kind \in kinds |-> Row(t, scope, kind)]
<1>1. kinds \subseteq Kinds
  BY DEF Courses, Kinds
<1>2. IsFiniteSet(kinds)
  <2>1. IsFiniteSet(Kinds)
    <3>1. IsFiniteSet({"RESERVE"})
      BY FS_Singleton
    <3>2. IsFiniteSet({"RESERVE"} \cup {"COMMIT"})
      BY <3>1, FS_AddElement
    <3>3. IsFiniteSet(({"RESERVE"} \cup {"COMMIT"}) \cup {"REFUND"})
      BY <3>2, FS_AddElement
    <3>4. Kinds = ({"RESERVE"} \cup {"COMMIT"}) \cup {"REFUND"}
      BY DEF Kinds
    <3> QED BY <3>3, <3>4, Zenon
  <2> QED BY <1>1, <2>1, FS_Subset
<1>3. \A kind \in kinds : h[kind] \in S /\ g[kind] \in Int /\ f[h[kind]] = g[kind] /\ h[kind].kind = kind
  BY DEF Rows, Row, Worth
<1>4. \A r \in S : \E kind \in kinds : r = h[kind]
  BY DEF Rows
<1>5. \A x \in kinds : g[x] = Worth(x)
  OBVIOUS
<1> HIDE DEF S, f, g, h
<1>6. \A x, y \in kinds : h[x] = h[y] => x = y
  BY <1>3
<1>7. SumOf(f, S) = SumOf(g, kinds)
  BY <1>2, <1>3, <1>4, <1>6, SumReindex
<1>8. CASE kinds = {}
  BY <1>7, <1>8, SumEmpty DEF S, f
<1>9. CASE "RESERVE" \in kinds
  <2> DEFINE rest == kinds \ {"RESERVE"}
  <2>1. SumOf(g, kinds) = -1 + SumOf(g, rest)
    BY <1>2, <1>3, <1>5, <1>9, SumTakeOut DEF Worth
  <2>2. IsFiniteSet(rest)
    BY <1>2, FS_Subset
  <2>3. CASE "REFUND" \in kinds
    <3>1. SumOf(g, rest) = 1 + SumOf(g, rest \ {"REFUND"})
      <4>1. g["REFUND"] = 1 /\ "REFUND" \in rest
        BY <1>5, <2>3 DEF Worth
      <4>2. \A x \in rest : g[x] \in Int
        BY <1>3
      <4> HIDE DEF rest
      <4> QED BY <2>2, <4>1, <4>2, SumTakeOut
    <3>2. SumOf(g, rest \ {"REFUND"}) = 0
      <4>1. IsFiniteSet(rest \ {"REFUND"})
        BY <2>2, FS_Subset
      <4>2. \A x \in rest \ {"REFUND"} : g[x] = 0
        BY <1>1, <1>5 DEF Worth, Kinds
      <4> QED BY <4>1, <4>2, SumZero
    <3>3. kinds # {"RESERVE"} /\ kinds # {"RESERVE", "COMMIT"}
      BY <2>3
    <3>4. SumOf(f, S) = 0
      BY <1>7, <2>1, <3>1, <3>2
    <3> QED BY <3>3, <3>4 DEF S, f
  <2>4. CASE "REFUND" \notin kinds
    <3>1. SumOf(g, rest) = 0
      <4>1. \A x \in rest : g[x] = 0
        BY <1>1, <1>5, <2>4 DEF Worth, Kinds
      <4> QED BY <2>2, <4>1, SumZero
    <3>2. kinds = {"RESERVE"} \/ kinds = {"RESERVE", "COMMIT"}
      BY <1>1, <1>9, <2>4 DEF Kinds
    <3>3. SumOf(f, S) = -1
      BY <1>7, <2>1, <3>1
    <3> QED BY <3>2, <3>3 DEF S, f
  <2> QED BY <2>3, <2>4
<1>10. kinds = {} \/ "RESERVE" \in kinds
  BY DEF Courses
<1> QED BY <1>8, <1>9, <1>10

\* A turn costs one credit if it was answered and none if it was not, whatever
\* it did in between, on one scope; excused are turns that lost their process
\* or their refund, or committed without hearing of it.
THEOREM TurnsCostTheirAnswer == Spec => []TurnsCostWhatTheyGive
<1>1. TurnInv => TurnsCostWhatTheyGive
  <2> SUFFICES ASSUME TurnInv, NEW t \in Turns
               PROVE  LET cost == -MapThenSumSet(LAMBDA r : r.amount, RowsOf(t)) IN
                      /\ cost \in {0, 1}
                      /\ \A q, r \in RowsOf(t) : q.event = r.event /\ q.account = r.account
                      /\ turns[t].pc = "ended" /\ t \notin excused =>
                           (cost = 1 <=> turns[t].outcome = "answered")
    BY DEF TurnsCostWhatTheyGive
  <2>1. PICK scope \in Scopes, kinds \in Courses :
          /\ RowsOf(t) = Rows(t, scope, kinds)
          /\ CourseOf(turns[t], t \in excused, kinds)
    BY DEF TurnInv, BooksOf
  <2>2. PICK sum : sum = MapThenSumSet(LAMBDA r : r.amount, RowsOf(t))
    OBVIOUS
  <2>3. sum = SumOf([r \in RowsOf(t) |-> r.amount], RowsOf(t))
    BY <2>2, AmountsAreSum
  <2>4. sum = IF kinds = {"RESERVE"} \/ kinds = {"RESERVE", "COMMIT"} THEN -1 ELSE 0
    BY <2>1, <2>3, CostOfCourse
  <2>5. \A q, r \in RowsOf(t) : q.event = r.event /\ q.account = r.account
    BY <2>1 DEF Rows, Row
  <2>6. /\ -sum \in {0, 1}
        /\ -sum = 1 <=> sum = -1
    <3>1. sum = -1 \/ sum = 0
      BY <2>4
    <3> QED BY <3>1
  <2>7. ASSUME turns[t].pc = "ended", t \notin excused
        PROVE  -sum = 1 <=> turns[t].outcome = "answered"
    <3>1. \/ turns[t].outcome = "answered" /\ kinds = {"RESERVE", "COMMIT"}
          \/ turns[t].outcome = "unanswered" /\ kinds = {"RESERVE", "REFUND"}
          \/ turns[t].outcome = "locked" /\ kinds = {}
      BY <2>1, <2>7 DEF CourseOf
    <3>2. {"RESERVE", "REFUND"} # {"RESERVE"} /\ {"RESERVE", "REFUND"} # {"RESERVE", "COMMIT"}
      OBVIOUS
    <3>3. sum = -1 <=> turns[t].outcome = "answered"
      BY <2>4, <3>1, <3>2
    <3> QED BY <2>6, <3>3
  <2> QED BY <2>2, <2>5, <2>6, <2>7
<1> QED BY <1>1, TurnInvariance, PTL

\* A reservation is covered by the balance of its scope when it is written,
\* unless another turn reserved between the check and the write.
THEOREM ReservationsCovered == Spec => ReservationsAreCovered
<1>1. TurnInv /\ [Next]_vars =>
        [\A t \in Turns :
           turns[t].pc = "reserve" /\ turns'[t].pc = "model" /\ t \notin raced =>
             aiBalance(turns[t].scope) >= 1]_vars
  BY DEF TurnInv, CheckHolds
<1> QED BY <1>1, TurnInvariance, PTL DEF Spec, ReservationsAreCovered

=============================================================================
