\* The process dies between the reservation of a key and the claim.
SPECIFICATION Spec
CONSTANTS
  Requests = {r1, r2}
  Invoices = {i1}
  Keys = {k1, k2}
  Tokens = {"tok_success"}
  Faults = {"crash"}
  MaxPolls = 2
  None = none
INVARIANT RetryStartsClean
