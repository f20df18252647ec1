------------------------- MODULE WebhookDispatcher -------------------------
(***************************************************************************)
(* The webhook outbox and its delivery loop (webhook_dispatcher.rs), run   *)
(* by several replicas of the service over one table webhook_deliveries.   *)
(*                                                                         *)
(* A replica takes up to BatchSize due rows FOR UPDATE SKIP LOCKED, POSTs  *)
(* them one after the other, writes each outcome and commits them all      *)
(* together.  Its row locks and writes live in the database and vanish     *)
(* with its connection; the batch it works through lives in the process.   *)
(*                                                                         *)
(* Times are kept relative to the present: `due` is next_attempt_at minus  *)
(* now, `age` is now minus the start of the transaction, which is what     *)
(* now() means in its statements.  Differences beyond Horizon are not told *)
(* apart, so the clock needs no bound.                                     *)
(***************************************************************************)
EXTENDS Integers, Sequences, FiniteSets

CONSTANTS Replicas,      \* processes that run run_dispatcher
          Events,        \* events of one business
          Endpoints,     \* its webhook endpoints
          BatchSize,     \* LIMIT of the polling query (20 in the code)
          MaxAttempts,   \* MAX_ATTEMPTS (7 in the code)
          Backoff,       \* BACKOFF_SECONDS, in ticks
          PostTimeout,   \* the timeout of a POST (5 s in the code), in ticks
          Horizon,       \* the longest time that is told apart, in ticks
          Faults,        \* "crash" of a replica, "connection" lost
          MaxFaults      \* how many of them happen

ASSUME DispatcherAssumption ==
  /\ IsFiniteSet(Replicas) /\ IsFiniteSet(Events) /\ IsFiniteSet(Endpoints)
  /\ BatchSize \in Nat \ {0}
  /\ MaxAttempts \in Nat \ {0}
  /\ Horizon \in Nat
  /\ Backoff \in [1 .. MaxAttempts - 1 -> 0 .. Horizon]
  /\ PostTimeout \in Nat
  /\ MaxFaults \in Nat

VARIABLES
  endpoints,  \* the rows of webhook_endpoints (no code disables one)
  event,      \* the transaction that reports an event: none, open, committed
  addressed,  \* the endpoints that enqueue_event found in it
  rows,       \* the committed rows of webhook_deliveries
  held,       \* the row locks of a replica's transaction
  writes,     \* the rows it has updated and not yet committed
  age,        \* how long ago it began
  phase,      \* where the replica is: idle, post, record, commit
  batch,      \* the deliveries it still has to send
  reply,      \* what came of the POST it is recording
  spent,      \* how long that POST has taken
  posts,      \* how often a delivery was POSTed
  accepted,   \* how often a replica got a 2xx for it
  rested,     \* the time since the batch began in which it failed last
  faults      \* how many faults have happened

outboxVars == <<endpoints, event, addressed>>
txVars == <<held, writes, age>>
replicaVars == <<phase, batch, reply, spent>>
receiverVars == <<posts, accepted, rested>>
vars == <<outboxVars, rows, txVars, replicaVars, receiverVars, faults>>

Deliveries == Events \X Endpoints
NoRow == [status |-> "none", count |-> 0, due |-> 0]

Init == /\ endpoints = {}
        /\ event = [v \in Events |-> "none"]
        /\ addressed = [v \in Events |-> {}]
        /\ rows = [d \in Deliveries |-> NoRow]
        /\ held = [p \in Replicas |-> {}]
        /\ writes = [p \in Replicas |-> [d \in Deliveries |-> NoRow]]
        /\ age = [p \in Replicas |-> 0]
        /\ phase = [p \in Replicas |-> "idle"]
        /\ batch = [p \in Replicas |-> <<>>]
        /\ reply = [p \in Replicas |-> "none"]
        /\ spent = [p \in Replicas |-> 0]
        /\ posts = [d \in Deliveries |-> 0]
        /\ accepted = [d \in Deliveries |-> 0]
        /\ rested = [d \in Deliveries |-> 0]
        /\ faults = 0

-----------------------------------------------------------------------------
(* Writing the outbox.                                                     *)

\* register_webhook: one INSERT (a malformed URL changes nothing).
RegisterWebhook(e) ==
  /\ e \notin endpoints
  /\ endpoints' = endpoints \cup {e}
  /\ UNCHANGED <<event, addressed, rows, txVars, replicaVars, receiverVars, faults>>

\* Mutant: the rows are inserted on a connection of their own.
EnqueueOutside(v) ==
  /\ event[v] = "none"
  /\ event' = [event EXCEPT ![v] = "open"]
  /\ addressed' = [addressed EXCEPT ![v] = endpoints]
  /\ rows' = [d \in Deliveries |->
                IF d[1] = v /\ d[2] \in endpoints
                THEN [status |-> "pending", count |-> 0, due |-> 0] ELSE rows[d]]
  /\ UNCHANGED <<endpoints, txVars, replicaVars, receiverVars, faults>>

\* enqueue_event inside the caller's transaction: the SELECT of the endpoints;
\* the rows inserted for them are not visible yet.
EnqueueEvent(v) ==
  /\ event[v] = "none"
  /\ event' = [event EXCEPT ![v] = "open"]
  /\ addressed' = [addressed EXCEPT ![v] = endpoints]
  /\ UNCHANGED <<endpoints, rows, txVars, replicaVars, receiverVars, faults>>

\* Mutant: the rows are not part of what the caller commits.
CommitWithoutRows(v) ==
  /\ event[v] = "open"
  /\ event' = [event EXCEPT ![v] = "committed"]
  /\ UNCHANGED <<endpoints, addressed, rows, txVars, replicaVars, receiverVars, faults>>

\* The caller commits.  next_attempt_at is the start of its transaction, some
\* time ago.
CommitEvent(v) ==
  /\ event[v] = "open"
  /\ event' = [event EXCEPT ![v] = "committed"]
  /\ \E lag \in 0 .. Horizon :
       rows' = [d \in Deliveries |->
                  IF d[1] = v /\ d[2] \in addressed[v]
                  THEN [status |-> "pending", count |-> 0, due |-> -lag]
                  ELSE rows[d]]
  /\ UNCHANGED <<endpoints, addressed, txVars, replicaVars, receiverVars, faults>>

\* The caller's transaction fails; it may be tried again.
RollbackEvent(v) ==
  /\ event[v] = "open"
  /\ event' = [event EXCEPT ![v] = "none"]
  /\ addressed' = [addressed EXCEPT ![v] = {}]
  /\ UNCHANGED <<endpoints, rows, txVars, replicaVars, receiverVars, faults>>

-----------------------------------------------------------------------------
(* dispatch_due_batch.                                                     *)

\* Mutant: the polling query does not look at next_attempt_at.
AnyPending(d) == rows[d].status = "pending"

Due(d) == rows[d].status = "pending" /\ rows[d].due <= 0

\* Mutant: FOR UPDATE SKIP LOCKED is missing.
NeverLocked(d) == TRUE

Unlocked(d) == \A p \in Replicas : d \notin held[p]

\* The rows the polling query may return: the BatchSize oldest ones that are
\* due and not locked, in the order of next_attempt_at.
Batches ==
  LET S == {d \in Deliveries : Due(d) /\ Unlocked(d)}
      n == IF Cardinality(S) < BatchSize THEN Cardinality(S) ELSE BatchSize
  IN {s \in [1 .. n -> S] :
        /\ \A i, j \in 1 .. n : i < j => s[i] # s[j] /\ rows[s[i]].due <= rows[s[j]].due
        /\ \A i \in 1 .. n : \A d \in S :
             (\A j \in 1 .. n : s[j] # d) => rows[s[i]].due <= rows[d].due}

\* BEGIN and the SELECT.  A poll that finds nothing commits at once and
\* changes nothing.
TakeBatch(p) ==
  /\ phase[p] = "idle"
  /\ \E s \in Batches :
       /\ s # <<>>
       /\ batch' = [batch EXCEPT ![p] = s]
       /\ held' = [held EXCEPT ![p] = {s[i] : i \in DOMAIN s}]
  /\ age' = [age EXCEPT ![p] = 0]
  /\ phase' = [phase EXCEPT ![p] = "post"]
  /\ UNCHANGED <<outboxVars, rows, writes, reply, spent, receiverVars, faults>>

\* Mutant: every HTTP response counts as success, whatever its status.
AnyResponse(answer) == answer # "error"

\* resp.status().is_success().
IsSuccess(answer) == answer = "2xx"

\* The POST: a 2xx, another status, or an error (no connection, or no answer
\* within the timeout; the receiver may or may not have handled it).
Post(p) ==
  LET d == Head(batch[p]) IN
  /\ phase[p] = "post"
  /\ posts' = [posts EXCEPT ![d] = @ + 1]
  /\ \E answer \in {"2xx", "other", "error"} :
       /\ reply' = [reply EXCEPT ![p] = IF IsSuccess(answer) THEN "ok" ELSE "failed"]
       /\ accepted' = IF answer = "2xx" THEN [accepted EXCEPT ![d] = @ + 1] ELSE accepted
  /\ spent' = [spent EXCEPT ![p] = 0]
  /\ phase' = [phase EXCEPT ![p] = "record"]
  /\ UNCHANGED <<outboxVars, rows, txVars, batch, rested, faults>>

\* Mutant: gives up one attempt early.
ExhaustsEarly(n) == n >= MaxAttempts - 1

Exhausts(n) == n >= MaxAttempts

\* Mutant: the status is not written after a 2xx.
SuccessForgotten(row) == row

\* The row that send_and_record writes for d, t ticks into the transaction.
Succeeded(row) == [status |-> "succeeded", count |-> row.count, due |-> 0]
Failed(row, t) ==
  LET n == row.count + 1 IN
  IF Exhausts(n)
  THEN [status |-> "failed_exhausted", count |-> n, due |-> 0]
  ELSE [status |-> "pending", count |-> n, due |-> Backoff[n] - t]

\* The transaction of p still exists in the database.
Connected(p) == held[p] # {}

RecordOutcome(p) ==
  LET d == Head(batch[p]) IN
  /\ phase[p] = "record"
  /\ Connected(p)
  /\ writes' = [writes EXCEPT ![p][d] = IF reply[p] = "ok" THEN Succeeded(rows[d])
                                        ELSE Failed(rows[d], age[p])]
  /\ batch' = [batch EXCEPT ![p] = Tail(@)]
  /\ reply' = [reply EXCEPT ![p] = "none"]
  /\ spent' = [spent EXCEPT ![p] = 0]
  /\ phase' = [phase EXCEPT ![p] = IF Len(batch[p]) > 1 THEN "post" ELSE "commit"]
  /\ UNCHANGED <<outboxVars, rows, held, age, receiverVars, faults>>

\* Mutant: the row locks outlive the transaction.
KeepsLocks(p) ==
  /\ writes' = [writes EXCEPT ![p] = [d \in Deliveries |-> NoRow]]
  /\ age' = [age EXCEPT ![p] = 0]
  /\ UNCHANGED held

\* The transaction ends in the database.
EndTransaction(p) ==
  /\ held' = [held EXCEPT ![p] = {}]
  /\ writes' = [writes EXCEPT ![p] = [d \in Deliveries |-> NoRow]]
  /\ age' = [age EXCEPT ![p] = 0]

\* The replica goes back to waiting for its ticker.
BackToTicker(p) ==
  /\ phase' = [phase EXCEPT ![p] = "idle"]
  /\ batch' = [batch EXCEPT ![p] = <<>>]
  /\ reply' = [reply EXCEPT ![p] = "none"]
  /\ spent' = [spent EXCEPT ![p] = 0]

CommitBatch(p) ==
  /\ phase[p] = "commit"
  /\ Connected(p)
  /\ rows' = [d \in Deliveries |-> IF writes[p][d] = NoRow THEN rows[d] ELSE writes[p][d]]
  /\ rested' = [d \in Deliveries |-> IF writes[p][d].status = "pending" THEN age[p] ELSE rested[d]]
  /\ EndTransaction(p)
  /\ BackToTicker(p)
  /\ UNCHANGED <<outboxVars, posts, accepted, faults>>

\* An UPDATE or the COMMIT fails because the connection is gone: the error is
\* logged and the rest of the batch is left alone.
AbandonBatch(p) ==
  /\ phase[p] \in {"record", "commit"}
  /\ ~Connected(p)
  /\ BackToTicker(p)
  /\ UNCHANGED <<outboxVars, rows, txVars, receiverVars, faults>>

-----------------------------------------------------------------------------
(* Faults and time.                                                        *)

Fault(kind) == kind \in Faults /\ faults < MaxFaults /\ faults' = faults + 1

\* The database drops the transaction of p; p finds out at its next statement.
LoseConnection(p) ==
  /\ Fault("connection")
  /\ Connected(p)
  /\ EndTransaction(p)
  /\ UNCHANGED <<outboxVars, rows, replicaVars, receiverVars>>

\* The process of p dies and is started again.
Crash(p) ==
  /\ Fault("crash")
  /\ phase[p] # "idle"
  /\ EndTransaction(p)
  /\ BackToTicker(p)
  /\ UNCHANGED <<outboxVars, rows, receiverVars>>

Later(row) ==
  IF row.status = "pending" /\ row.due > -Horizon THEN [row EXCEPT !.due = @ - 1] ELSE row

\* Mutant: a POST has no timeout.
NoTimeout(p) == phase[p] # "post"

\* No POST outlasts its timeout, and a replica starts the next POST without
\* waiting for anything.
WithinTimeout(p) == phase[p] # "post" /\ (phase[p] = "record" => spent[p] < PostTimeout)

\* Time passes.
Tick ==
  /\ \A p \in Replicas : WithinTimeout(p)
  /\ rows' = [d \in Deliveries |-> Later(rows[d])]
  /\ writes' = [p \in Replicas |-> [d \in Deliveries |-> Later(writes[p][d])]]
  /\ age' = [p \in Replicas |-> IF Connected(p) /\ age[p] < Horizon THEN age[p] + 1
                                                                    ELSE age[p]]
  /\ spent' = [p \in Replicas |-> IF phase[p] = "record" THEN spent[p] + 1 ELSE spent[p]]
  /\ rested' = [d \in Deliveries |->
                  IF rows[d].status = "pending" /\ rows[d].count > 0 /\ rested[d] < Horizon
                  THEN rested[d] + 1 ELSE rested[d]]
  /\ UNCHANGED <<outboxVars, held, phase, batch, reply, posts, accepted, faults>>

-----------------------------------------------------------------------------
ReplicaStep(p) ==
  TakeBatch(p) \/ Post(p) \/ RecordOutcome(p) \/ CommitBatch(p) \/ AbandonBatch(p)

FaultStep(p) == LoseConnection(p) \/ Crash(p)

Next ==
  \/ \E e \in Endpoints : RegisterWebhook(e)
  \/ \E v \in Events : EnqueueEvent(v) \/ CommitEvent(v) \/ RollbackEvent(v)
  \/ \E p \in Replicas : ReplicaStep(p) \/ FaultStep(p)
  \/ Tick

Spec == Init /\ [][Next]_vars

\* run_dispatcher loops for ever on a one-second ticker, every POST has a
\* timeout, and time passes.  Nothing is assumed of receivers, of faults or
\* of the callers of enqueue_event.
Fairness == WF_vars(Tick) /\ \A p \in Replicas : WF_vars(ReplicaStep(p))

FairSpec == Spec /\ Fairness

-----------------------------------------------------------------------------
(* Properties.                                                             *)

Statuses == {"pending", "succeeded", "failed_exhausted"}
Rows == [status : Statuses, count : 0 .. MaxAttempts, due : -Horizon .. Horizon]

\* Every variable keeps its type.
TypeOK ==
  /\ endpoints \subseteq Endpoints
  /\ event \in [Events -> {"none", "open", "committed"}]
  /\ addressed \in [Events -> SUBSET Endpoints]
  /\ rows \in [Deliveries -> Rows \cup {NoRow}]
  /\ held \in [Replicas -> SUBSET Deliveries]
  /\ writes \in [Replicas -> [Deliveries -> Rows \cup {NoRow}]]
  /\ age \in [Replicas -> 0 .. Horizon]
  /\ phase \in [Replicas -> {"idle", "post", "record", "commit"}]
  /\ batch \in [Replicas -> Seq(Deliveries)]
  /\ reply \in [Replicas -> {"none", "ok", "failed"}]
  /\ spent \in [Replicas -> 0 .. PostTimeout]
  /\ posts \in [Deliveries -> Nat]
  /\ accepted \in [Deliveries -> Nat]
  /\ rested \in [Deliveries -> 0 .. Horizon]
  /\ faults \in 0 .. MaxFaults

\* Whatever the replicas, their batches and their faults do, the committed
\* rows move only the way DeliveryQueue allows: no outcome is applied twice,
\* none undoes another one, and no attempt is counted that was not made.
Queue == INSTANCE DeliveryQueue WITH
  queue <- [d \in Deliveries |-> [status |-> rows[d].status, count |-> rows[d].count]]
ImplementsQueue == Queue!Spec

\* What has been settled is not sent again: while one replica works through its
\* batch, another one may take, send and settle a delivery of it only when the
\* first has lost its transaction without having noticed, and only such a
\* replica may then POST a delivery that is settled.
SentWhilePending ==
  [][\A d \in Deliveries : posts'[d] # posts[d] =>
       \/ rows[d].status = "pending"
       \/ \E p \in Replicas : phase[p] = "post" /\ ~Connected(p) /\ Head(batch[p]) = d]_vars

\* A row says what the receiver did: succeeded only after a 2xx, given up only
\* after MaxAttempts POSTs, and every counted failure was a POST.
RowTellsTheTruth ==
  \A d \in Deliveries :
    /\ rows[d].status = "succeeded" => accepted[d] > 0
    /\ rows[d].status = "failed_exhausted" => posts[d] >= MaxAttempts
    /\ rows[d].count + accepted[d] <= posts[d]

\* The replica's transaction has POSTed d and will commit what came of it.
Unsettled(p, d) == /\ d \in held[p]
                   /\ \/ writes[p][d] # NoRow
                      \/ phase[p] = "record" /\ Head(batch[p]) = d

Recorded(row) == row.count + (IF row.status = "succeeded" THEN 1 ELSE 0)

\* A receiver gets a delivery more often than the rows tell only by a crash or
\* a lost connection, and at most once more for each of them, however large
\* the batch and however many replicas.
RepeatedOnlyByFaults ==
  \A d \in Deliveries :
    posts[d] <= Recorded(rows[d]) + Cardinality({p \in Replicas : Unsettled(p, d)}) + faults

\* The n-th delay passes between the batch in which attempt n failed and the next
\* batch that takes the delivery, counted from the BEGIN of the first one, since
\* that is what now() means: a slow batch uses up part of the delay or all of it,
\* and no crash, lost lock or second replica shortens it further.
SpacedByBackoff ==
  \A p \in Replicas : \A d \in held[p] : rows[d].count > 0 => rested[d] >= Backoff[rows[d].count]

\* Every event that was committed reaches every endpoint it is addressed to,
\* or is given up after MaxAttempts: no row is left locked, forgotten by a
\* crashed replica or kept out of the batches by others.
Resolved ==
  \A d \in Deliveries : rows[d].status = "pending" ~>
                           rows[d].status \in {"succeeded", "failed_exhausted"}
=============================================================================
