\* Two businesses with two customers, an invoice and an endpoint that either of
\* them may have.
SPECIFICATION TSpec
CONSTANTS
  k1 = k1  k2 = k2  k3 = k3  p1 = p1  p2 = p2
  Attempts = {a1}
  Invoices = {i1}
  None = none
  Businesses = {b1, b2}
  Keys = {k1, k2, k3}
  PrefixOf <- SharedPrefix
  Customers = {c1, c2}
  Endpoints = {e1}
  IdempotencyKeys = {x1}
  Requests = {r1}
SYMMETRY Symmetry
INVARIANTS
  TenancyTypeOK
  OnlyOwnRowsShown
  EventsStayHome
  BilledToOwnCustomer
PROPERTY OnlyOwnRowsChanged
