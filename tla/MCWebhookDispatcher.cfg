\* Two replicas, two endpoints of one event in one batch, slow receivers, two
\* crashes or lost connections, fair replicas.
SPECIFICATION FairSpec
CONSTANTS
  Replicas = {p1, p2}
  Events = {v1}
  Endpoints = {e1, e2}
  BatchSize = 2
  MaxAttempts = 3
  Backoff <- Delays
  PostTimeout = 1
  Horizon = 3
  Faults = {"crash", "connection"}
  MaxFaults = 2
INVARIANTS
  TypeOK
  RowTellsTheTruth
  RepeatedOnlyByFaults
  SpacedByBackoff
PROPERTIES ImplementsQueue SentWhilePending Resolved
