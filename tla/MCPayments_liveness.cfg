\* No faults of the environment; fair handlers and tasks.
SPECIFICATION FairSpec
CONSTANTS
  Requests = {r1, r2}
  Invoices = {i1}
  Keys = {k1, k2}
  Tokens = {"tok_success", "tok_card_declined"}
  Faults = {}
  MaxPolls = 2
  None = none
INVARIANTS
  ReservedKeyHasOwner
  PendingHasOwner
PROPERTIES
  Answered
  AttemptsEnd
