\* Every fault, two requests.
SPECIFICATION Spec
CONSTANTS
  Requests = {r1, r2}
  Invoices = {i1}
  Keys = {k1, k2}
  Tokens = {"tok_success", "tok_card_declined", "tok_network_error"}
  Faults = {"crash", "db", "disconnect"}
  MaxPolls = 2
  None = none
SYMMETRY Symmetry
INVARIANTS
  TypeOK
  NoConcurrentCharges
  OneAttemptPerKey
  ReplayIsVerbatim
  AnswerIsTrue
  ChargedTwiceOnlyIfUnavailable
  BooksMatchProcessor
PROPERTIES
  StoredAnswerFrozen
  ImplementsLedger
