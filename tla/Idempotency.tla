---------------------------- MODULE Idempotency ----------------------------
(***************************************************************************)
(* invoice-service/src/idempotency.rs and the table idempotency_keys: one  *)
(* row per (business, Idempotency-Key).  A row is absent, reserved (its    *)
(* response columns are NULL) or finished.  hash_body is a SHA-256 digest  *)
(* of the invoice id and the card token; it is modelled by the fields it   *)
(* digests, so two requests have equal hashes iff those fields are equal.  *)
(***************************************************************************)
EXTENDS Naturals

CONSTANTS Keys,      \* the (business, Idempotency-Key) pairs clients use
          None,      \* the SQL NULL
          MaxPolls   \* turns of the loop in reserve_or_get (15 in the code)

ASSUME MaxPollsAssumption == MaxPolls \in Nat \ {0}

VARIABLE idem        \* the table idempotency_keys

NoHash == [invoice |-> None, token |-> None]
NoAnswer == [status |-> 0, attempt |-> None, code |-> "none"]
NoRow == [hash |-> NoHash, answer |-> NoAnswer]

HashBody(input) == [invoice |-> input.invoice, token |-> input.token]

-----------------------------------------------------------------------------
(* What the SELECT of reserve_or_get finds for key k and request hash h.   *)

\* Mutant: the INSERT has no unique key to conflict with.
AlwaysAbsent(k) == TRUE

Absent(k) == idem[k].hash = NoHash

\* Mutant: the stored hash is not compared.
NeverReused(k, h) == FALSE

Reused(k, h) == ~Absent(k) /\ idem[k].hash # h

Finished(k, h) == ~Reused(k, h) /\ idem[k].answer # NoAnswer

InProgress(k, h) == ~Absent(k) /\ ~Reused(k, h) /\ idem[k].answer = NoAnswer

-----------------------------------------------------------------------------
(* The two writes.                                                         *)

\* INSERT ... ON CONFLICT DO NOTHING, when it inserts.
InsertRow(k, h) == idem' = [idem EXCEPT ![k] = [hash |-> h, answer |-> NoAnswer]]

\* `finalize`: the UPDATE that stores the response.
Finalize(k, a) == idem' = [idem EXCEPT ![k].answer = a]

\* Mutant: the loop runs one turn too many.
MoreTurnsOffByOne(turn) == turn < MaxPolls

\* The loop `for attempt in 0..15`: is there a turn after turn number `turn`?
MoreTurns(turn) == turn + 1 < MaxPolls
=============================================================================
