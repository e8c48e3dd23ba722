SPECIFICATION Spec
CONSTANTS
  me = me
  host = host
  party = party
  feast = feast
  trip = trip
  Null = Null
  Turns = {t1, t2}
  Me = me
  Owner <- MCOwner
  Mine = {party, feast}
  AccountGrant <- MCAccountGrant
  EventGrant <- MCEventGrant
  MAX_STEPS = 2
  Offered = {"query_event_report", "record_pledge", "update_event", "create_event",
    "switch_event", "get_budget_recommendation"}
  MaxToolCalls = 1
  MaxFaults = 2
INVARIANT TurnsCostWhatTheyGive
PROPERTIES ReservationsAreCovered EveryTurnEnds
CHECK_DEADLOCK FALSE
