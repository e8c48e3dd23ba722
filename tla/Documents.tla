------------------------------ MODULE Documents -----------------------------
(***************************************************************************)
(* Files, documents and their extraction by the worker.  The outbox        *)
(* delivers document.uploaded at least once; a drain that takes it marks   *)
(* the document PROCESSING in a transaction of its own, reads the file     *)
(* and asks the model, and stages what it read as proposals: a budget's    *)
(* lines in one transaction with the status, a contribution list's entries *)
(* one by one through the capture pipeline.                                *)
(***************************************************************************)
EXTENDS Proposals

CONSTANTS
  Starts,     \* the books and the calls an instance may start with
  Drains,     \* workers that drain the outbox
  MaxEntries  \* entries the model reads from one document

\* Books to start with: every pledge is somebody's.
ASSUME DocumentsAssumption ==
  /\ MaxEntries \in Nat
  /\ \A start \in Starts :
       /\ start.books \in BooksWith(Names)
       /\ \A l \in DOMAIN start.books.pledges :
            start.books.pledges[l].person \in DOMAIN start.books.people

VARIABLES
  files,      \* file_object rows: can the model read their type
  documents,  \* document rows, with their extraction rows counted
  drains,     \* where each extraction is
  raced       \* history: documents two drains took at once

documentVars == <<files, documents, drains, raced>>
vars == <<books, proposals, calls, done, contested, doubtful, left, files, documents, drains, raced>>

NoDrain ==
  [pc |-> "idle", doc |-> 0, entries |-> 0, staged |-> 0, clarifications |-> 0]

DocumentsInit ==
  /\ files = <<>> /\ documents = <<>> /\ raced = {}
  /\ drains = [w \in Drains |-> NoDrain]

goTo(w, pc) == drains' = [drains EXCEPT ![w].pc = pc]
here(w, pc) == drains[w].pc = pc
leave(w) == drains' = [drains EXCEPT ![w] = NoDrain]
become(w, status) == documents' = [documents EXCEPT ![drains[w].doc].status = status]

\* FileService.upload: the bytes, then the row.  EXTRACTABLE_MIME is narrower
\* than ALLOWED_MIME.
upload ==
  \E role \in Standing, extractable \in BOOLEAN :
    /\ can(role, "document:upload") /\ take("upload")
    /\ files' = Append(files, extractable)
    /\ UNCHANGED <<proposalVars, documents, drains, raced>>

\* submitForExtraction: the document and its outbox row.
submitForExtraction ==
  \E role \in Standing, f \in DOMAIN files, kind \in {"BUDGET", "CONTRIBUTION_LIST"} :
    /\ can(role, "document:upload") /\ files[f] /\ take("submit")
    /\ documents' = Append(documents, [kind |-> kind, status |-> "UPLOADED",
                                       extractions |-> 0, read |-> 0])
    /\ UNCHANGED <<proposalVars, files, drains, raced>>

\* Variant: a delivery is worked off whatever the document's status.
Unhandled(d) == TRUE

\* Documents past UPLOADED are skipped.
ToProcess(d) == documents[d].status = "UPLOADED"

\* process, the read: a delivery of the document's message, the first or
\* another one.
deliver(w) ==
  \E d \in DOMAIN documents :
    /\ here(w, "idle") /\ take("deliver")
    /\ IF ToProcess(d)
       THEN /\ drains' = [drains EXCEPT ![w] = [NoDrain EXCEPT !.pc = "claim", !.doc = d]]
            /\ raced' = raced \union
                 {x \in {d} : \E v \in Drains \ {w} : drains[v].doc = d /\ here(v, "claim")}
       ELSE UNCHANGED <<drains, raced>>
    /\ UNCHANGED <<proposalVars, files, documents>>

\* process, the write.
claim(w) ==
  /\ here(w, "claim") /\ become(w, "PROCESSING") /\ goTo(w, "extract")
  /\ UNCHANGED <<proposalVars, files, raced, left>>

\* The uploader's context, the bytes and the model's answer, parsed; any of
\* them may fail.
extract(w) ==
  /\ here(w, "extract")
  /\ \/ \E n \in 0..MaxEntries :
          drains' = [drains EXCEPT ![w].entries = n,
             ![w].pc = IF documents[drains[w].doc].kind = "BUDGET" THEN "budget" ELSE "list"]
     \/ goTo(w, "fail")
  /\ UNCHANGED <<proposalVars, files, documents, raced, left>>

Lines(w) ==
  [1..drains[w].entries -> [tool : {"create_budget_item"}, name : Names, amount : Amounts]]

ExtractionRow(d, n, status) ==
  documents' = [documents EXCEPT ![d].extractions = @ + 1, ![d].read = @ + n, ![d].status = status]

\* processBudget: the extraction, a proposal per line and the status, at once.
\* The budget knowledge it feeds afterwards is best effort.
processBudget(w) ==
  LET d == drains[w].doc IN
  /\ here(w, "budget")
  /\ \E lines \in Lines(w) :
       proposals' = proposals \o [i \in DOMAIN lines |->
         Proposal([NoAction EXCEPT !.tool = lines[i].tool, !.name = lines[i].name,
                                   !.amount = lines[i].amount], d)]
  /\ ExtractionRow(d, drains[w].entries, "REQUIRES_REVIEW")
  /\ leave(w)
  /\ UNCHANGED <<books, calls, done, contested, doubtful, files, raced, left>>

\* processContributionList, the extraction row.
processContributionList(w) ==
  /\ here(w, "list")
  /\ ExtractionRow(drains[w].doc, drains[w].entries, documents[drains[w].doc].status)
  /\ goTo(w, "entries")
  /\ UNCHANGED <<proposalVars, files, raced, left>>

Said == [tool : {"record_pledge", "record_payment"}, name : Names, amount : Amounts]

\* One entry: staged through the capture pipeline, in need of clarification,
\* or skipped because it is unreadable or its capture failed.
StageEntry(w) ==
  /\ here(w, "entries") /\ drains[w].entries > 0
  /\ \/ \E s \in Said :
          LET said == [NoAction EXCEPT !.tool = s.tool, !.name = s.name, !.amount = s.amount]
          IN IF NeedsClarification(said)
             THEN /\ drains' = [drains EXCEPT ![w].entries = @ - 1, ![w].clarifications = @ + 1]
                  /\ UNCHANGED proposals
             ELSE /\ drains' = [drains EXCEPT ![w].entries = @ - 1, ![w].staged = @ + 1]
                  /\ create(Resolved(said), drains[w].doc)
     \/ drains' = [drains EXCEPT ![w].entries = @ - 1] /\ UNCHANGED proposals
  /\ UNCHANGED <<books, calls, done, contested, doubtful, files, documents, raced, left>>

\* The document's status, from what became of its entries.
FinishList(w) ==
  /\ here(w, "entries") /\ drains[w].entries = 0
  /\ become(w, IF drains[w].staged + drains[w].clarifications > 0 THEN "REQUIRES_REVIEW" ELSE "FAILED")
  /\ leave(w)
  /\ UNCHANGED <<proposalVars, files, raced, left>>

\* fail
fail(w) ==
  /\ here(w, "fail") /\ become(w, "FAILED") /\ leave(w)
  /\ UNCHANGED <<proposalVars, files, raced, left>>

\* A transaction fails and the error path runs, or the process dies and no
\* path does: the document then stays PROCESSING.
drainFails(w) ==
  /\ ~here(w, "idle") /\ take("fault")
  /\ \/ ~here(w, "claim") /\ goTo(w, "fail")
     \/ leave(w)
  /\ UNCHANGED <<proposalVars, files, documents, raced>>

DocumentStep ==
  \/ upload \/ submitForExtraction
  \/ \E w \in Drains :
       \/ deliver(w) \/ claim(w) \/ extract(w) \/ processBudget(w) \/ processContributionList(w)
       \/ StageEntry(w) \/ FinishList(w) \/ fail(w) \/ drainFails(w)

Next ==
  \/ \E c \in Callers : ProposalStep(c) /\ UNCHANGED documentVars
  \/ DocumentStep

Init ==
  /\ \E start \in Starts : books = start.books /\ left = start.calls
  /\ ProposalsInit /\ DocumentsInit

Spec == Init /\ [][Next]_vars

-----------------------------------------------------------------------------
(* Properties.                                                             *)

StagedFrom(d) == {p \in DOMAIN proposals : proposals[p].origin = d}

\* However often its message is delivered, a document is extracted at most
\* once and no line of it is staged twice, unless two drains took it at the
\* same time.  A budget is all or nothing: its proposals exist exactly when
\* it asks for review.  A list that asks for review has been extracted, and
\* only a list may have staged entries and have failed or be abandoned.
DocumentsAreReadOnce ==
  \A d \in DOMAIN documents \ raced :
    LET doc == documents[d] IN
    /\ doc.extractions <= 1
    /\ Cardinality(StagedFrom(d)) <= doc.read
    /\ doc.status = "REQUIRES_REVIEW" => doc.extractions = 1
    /\ doc.kind = "BUDGET" =>
         Cardinality(StagedFrom(d)) = IF doc.status = "REQUIRES_REVIEW" THEN doc.read ELSE 0

=============================================================================
