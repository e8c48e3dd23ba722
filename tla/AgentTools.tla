----------------------------- MODULE AgentTools -----------------------------
(***************************************************************************)
(* The tools the assistant's model may call.  What a tool does is one of:  *)
(*   "answer"  it reads and changes nothing                                *)
(*   "report"  it reads, and may be the last report of its turn            *)
(*   "stage"   it resolves what it is about and stages a proposal          *)
(*   "write"   it calls a service at once, without a proposal              *)
(*   "create", "update", "switch"  it acts on the event of the session     *)
(***************************************************************************)

\* Answers from the books of the active event.
LookupTools ==
  {"find_contributor", "get_collected_in_period", "get_budget", "get_budget_item_funders"}

StatusTools == {"get_public_link", "get_group_contributions", "get_sms_status"}

\* REPORT_TOOLS: once one of them was complete, neither is run again.
REPORT_TOOLS == {"query_event_report", "get_event_overview"}

\* Writes that go through the capture pipeline.
CaptureTools == {"add_person", "record_pledge", "record_payment"}

\* Writes that AiMutationService resolves.
BudgetTools == {"add_budget_item", "update_budget_item", "remove_budget_item", "allocate_to_budget"}

CorrectionTools == {"correct_pledge", "correct_payment", "merge_people"}

ReachTools == {"send_reminders", "invite_member"}

\* Writes that are not staged.
GroupTools == {"create_group", "assign_to_group", "update_contact"}

AnnouncementTools == {"draft_announcement", "publish_announcement"}

\* The event-scoped set.  update_member_role is dispatched but never offered.
AGENT_TOOL_SPECS ==
  LookupTools \union StatusTools \union REPORT_TOOLS \union CaptureTools
  \union BudgetTools \union CorrectionTools \union ReachTools
  \union GroupTools \union AnnouncementTools

\* What only a conversation has.
SESSION_ONLY_TOOL_SPECS ==
  {"create_event", "update_event", "switch_event", "list_my_events", "get_active_event",
   "get_budget_recommendation"}

SESSION_TOOL_SPECS == AGENT_TOOL_SPECS \union SESSION_ONLY_TOOL_SPECS

\* dispatch: what an event-scoped tool does.
dispatch(tool) ==
  IF tool \in REPORT_TOOLS THEN "report"
  ELSE IF tool \in LookupTools \union StatusTools THEN "answer"
  ELSE IF tool \in GroupTools \union AnnouncementTools THEN "write" ELSE "stage"

\* dispatchSession: the tools of the session first; the rest is dispatched
\* once there is an active event.
dispatchSession(tool) ==
  CASE tool = "create_event" -> "create"
    [] tool = "update_event" -> "update"
    [] tool = "switch_event" -> "switch"
    [] tool \in {"list_my_events", "get_active_event", "get_budget_recommendation"} -> "answer"
    [] OTHER -> dispatch(tool)

\* The tools that need the session's event, and so check that it still is one.
NeedsEvent(tool) ==
  tool \in AGENT_TOOL_SPECS \union {"update_event", "get_active_event"}

=============================================================================
