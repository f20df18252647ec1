\* An invoice is voided while its payment is in flight.
SPECIFICATION Spec
CONSTANTS
  Requests = {r1, r2}
  Invoices = {i1}
  Keys = {k1, k2}
  Tokens = {"tok_success"}
  Faults = {}
  MaxPolls = 2
  None = none
INVARIANT SucceededMeansPaid
