--------------------------- MODULE DeliveryQueue ---------------------------
(***************************************************************************)
(* What the table webhook_deliveries promises to a business, as an         *)
(* abstract specification: an event is queued once per endpoint, every     *)
(* recorded attempt either succeeds, which ends it, or counts one failure, *)
(* and the last of MaxAttempts failures ends it too.  A transaction writes *)
(* several rows, so several of them move in one step.  WebhookDispatcher   *)
(* shows that replicas, batches, crashes and broken connections keep it.   *)
(***************************************************************************)
EXTENDS Naturals

CONSTANTS Deliveries,    \* ids of rows of webhook_deliveries
          MaxAttempts    \* MAX_ATTEMPTS (7 in the code)

VARIABLE queue           \* status and attempt_count of every row

Absent == [status |-> "none", count |-> 0]
Queued == [status |-> "pending", count |-> 0]

Entries == [status : {"none", "pending", "succeeded", "failed_exhausted"},
            count : 0 .. MaxAttempts]

\* What may become of an entry in one step, besides staying as it is.
Successors(q) ==
  CASE q = Absent -> {Queued}
    [] q.status = "pending" ->
         {[status |-> "succeeded", count |-> q.count],
          [status |-> IF q.count + 1 = MaxAttempts THEN "failed_exhausted"
                                                   ELSE "pending",
           count |-> q.count + 1]}
    [] OTHER -> {}

Init == queue = [d \in Deliveries |-> Absent]

Next == /\ queue' \in [Deliveries -> Entries]
        /\ \A d \in Deliveries : queue'[d] \in {queue[d]} \cup Successors(queue[d])

Spec == Init /\ [][Next]_queue
=============================================================================
