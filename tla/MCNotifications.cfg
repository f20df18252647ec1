\* One invoice and two attempts, so up to three events, one endpoint, batches of
\* one delivery, one replica that may crash.
SPECIFICATION NFairSpec
CONSTANTS
  Attempts = {a1, a2}
  Invoices = {i1}
  None = none
  Replicas = {p1}
  Endpoints = {e1}
  BatchSize = 1
  MaxAttempts = 1
  Backoff <- Delays
  PostTimeout = 0
  Horizon = 0
  Faults = {"crash"}
  MaxFaults = 1
INVARIANTS
  TypeOK
  AttemptedWasFinalized
  AtMostOneSuccess
  PaidBySuccess
  OutboxTellsAttempts
  DurableWithChange
  HeardIsTrue
PROPERTIES
  SettledIsFinal
  SettlementIsHeard
