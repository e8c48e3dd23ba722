----------------------------- MODULE Permissions ----------------------------
(***************************************************************************)
(* The deterministic gate: which role may perform which action, and in     *)
(* which states of an event anything may be written at all.                *)
(***************************************************************************)
Roles == {"OWNER", "CO_OWNER", "COORDINATOR", "FINANCE", "VIEWER"}

\* The two groups of the matrix.
FULL_LEDGER ==
  {"person:write", "person:merge", "pledge:write", "pledge:cancel", "fulfillment:write",
   "fulfillment:correct", "ledger:read_funding", "ledger:read_amounts", "budget:read",
   "budget:write", "group:read", "group:write", "document:upload", "document:read"}

PUBLISHING ==
  {"announcement:read", "announcement:write", "payment_instruction:read",
   "payment_instruction:write", "sms:send", "sms:read"}

\* The closed catalog of authorizable actions.
Actions ==
  FULL_LEDGER \union PUBLISHING
  \union {"event:read", "event:update", "member:manage", "public:configure"}

MATRIX ==
  [OWNER       |-> Actions,
   CO_OWNER    |-> Actions,
   COORDINATOR |-> {"event:read", "event:update"} \union FULL_LEDGER \union PUBLISHING,
   FINANCE     |-> {"event:read"} \union FULL_LEDGER,
   VIEWER      |-> {"event:read", "ledger:read_funding", "budget:read", "group:read"}]

\* PermissionService.can: an unknown role or action is denied.
can(role, action) == role \in DOMAIN MATRIX /\ action \in MATRIX[role]

\* assertEventWritable
Writable(status) == status \in {"DRAFT", "ACTIVE", "PAUSED"}

=============================================================================
