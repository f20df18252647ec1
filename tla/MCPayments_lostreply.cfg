\* The reply of an approved charge is lost.
SPECIFICATION Spec
CONSTANTS
  Requests = {r1, r2}
  Invoices = {i1}
  Keys = {k1, k2}
  Tokens = {"tok_success"}
  Faults = {}
  MaxPolls = 2
  None = none
INVARIANT NoDoubleCharge
