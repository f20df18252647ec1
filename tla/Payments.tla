------------------------------ MODULE Payments ------------------------------
(***************************************************************************)
(* POST /invoices/{id}/pay (handlers/payments.rs) with everything it races *)
(* against: other payments, void and mark-uncollectible, retries with the  *)
(* same Idempotency-Key, a client that hangs up, a process crash, database *)
(* errors and PostgreSQL's deadlock detector.                              *)
(*                                                                         *)
(* One action is one database round trip or one await of the handler or of *)
(* the detached task.  A transaction whose statements cannot wait on       *)
(* another one between them is a single action; the claim transaction is   *)
(* two (it holds the row lock of the invoice while its INSERT may wait)    *)
(* and so is the settling one (it holds the attempt row while its UPDATE   *)
(* of the invoice may wait).  Every request makes at most one attempt, so  *)
(* the id of the request is the id of its attempt.                         *)
(***************************************************************************)
EXTENDS InvoiceState, Psp, Idempotency, FiniteSets

CONSTANTS Requests,   \* the HTTP requests that clients send
          Invoices,   \* the invoice ids that requests name
          Tokens,     \* the card tokens that requests carry
          Faults      \* what the environment does: "crash", "db", "disconnect"

ASSUME NoneIsNoId == None \notin Requests \cup Invoices

VARIABLES
  invoice,    \* invoices.state, or "absent"
  attempts,   \* the table payment_attempts
  outbox,     \* events handed to webhook_dispatcher::enqueue_event
  lock,       \* the claim transaction that holds an invoice's row lock
  pc,         \* where the handler of a request is
  input,      \* key, invoice and token of a request
  polls,      \* turns of reserve_or_get's loop already taken
  answer,     \* what the handler answers
  task,       \* where the detached task of a request is
  outcome,    \* the PspOutcome the task got
  psp         \* the charge as the processor knows it

tables == <<invoice, attempts, outbox>>
handler == <<pc, input, polls, answer>>
worker == <<task, outcome>>
vars == <<tables, idem, lock, handler, worker, psp>>

NoInput == [key |-> None, invoice |-> None, token |-> None]
NoAttempt == [invoice |-> None, status |-> "none", failure_code |-> "none"]

Error(status, code) == [status |-> status, attempt |-> None, code |-> code]
InternalError == Error(500, "internal_error")

\* try_claim_and_pay is running or its result is about to be stored.
Executing == {"claim", "insert", "spawn", "wait", "store"}
\* The handler's future exists.
Running == {"lookup", "reserve"} \cup Executing
\* The detached task exists.
Working == {"charging", "settle", "updated"}

Key(r) == input[r].key
Invoice(r) == input[r].invoice
Hash(r) == HashBody(input[r])

\* Mutant: the row lock is never taken into account.
RowAlwaysFree(i) == TRUE

\* No claim transaction holds the row of invoice i.
RowFree(i) == lock[i] = None

\* Mutant: the partial unique index is missing.
NoIndex(i) == {}

\* The committed rows of uniq_payment_attempts_pending_per_invoice for i.
PendingOn(i) == {a \in Requests : /\ attempts[a].status = "pending"
                                  /\ attempts[a].invoice = i}

\* A settling transaction has rewritten i's index entry and not yet committed:
\* an INSERT of a pending attempt for i waits for it.
IndexBusy(i) == \E a \in PendingOn(i) : task[a] = "updated"

\* Dropping a transaction rolls it back and releases its row lock.
Unlocked(r) == [i \in Invoices |-> IF lock[i] = r THEN None ELSE lock[i]]

Init == /\ invoice = [i \in Invoices |-> "absent"]
        /\ attempts = [r \in Requests |-> NoAttempt]
        /\ outbox = {}
        /\ idem = [k \in Keys |-> NoRow]
        /\ lock = [i \in Invoices |-> None]
        /\ pc = [r \in Requests |-> "idle"]
        /\ input = [r \in Requests |-> NoInput]
        /\ polls = [r \in Requests |-> 0]
        /\ answer = [r \in Requests |-> NoAnswer]
        /\ task = [r \in Requests |-> "none"]
        /\ outcome = [r \in Requests |-> NoOutcome]
        /\ psp = [r \in Requests |-> "none"]

-----------------------------------------------------------------------------
(* Moves of the handler's control.                                         *)

Goto(r, l) == pc' = [pc EXCEPT ![r] = l] /\ UNCHANGED answer

\* The handler answers without storing (a `?` outside try_claim_and_pay).
Respond(r, a) == /\ pc' = [pc EXCEPT ![r] = "done"]
                 /\ answer' = [answer EXCEPT ![r] = a]

\* Mutant: an early return that skips idempotency::finalize.
ReturnUnstored(r, a) == /\ pc' = [pc EXCEPT ![r] = "done"]
                        /\ answer' = [answer EXCEPT ![r] = a]

\* try_claim_and_pay returned; idempotency::finalize comes next.
Return(r, a) == /\ pc' = [pc EXCEPT ![r] = "store"]
                /\ answer' = [answer EXCEPT ![r] = a]

-----------------------------------------------------------------------------
(* pay_invoice up to the reservation of the key (reserve_or_get).          *)

Arrive(r) ==
  /\ pc[r] = "idle"
  /\ \E k \in Keys, i \in Invoices, t \in Tokens :
        input' = [input EXCEPT ![r] = [key |-> k, invoice |-> i, token |-> t]]
  /\ Goto(r, "lookup")
  /\ UNCHANGED <<tables, idem, lock, polls, worker, psp>>

\* No Idempotency-Key header, or a blank card token.
ArriveMalformed(r) ==
  /\ pc[r] = "idle"
  /\ Respond(r, Error(400, "bad_request"))
  /\ UNCHANGED <<tables, idem, lock, input, polls, worker, psp>>

RejectReusedKey(r) ==
  /\ pc[r] = "lookup"
  /\ Reused(Key(r), Hash(r))
  /\ Respond(r, Error(422, "idempotency_key_reused"))
  /\ UNCHANGED <<tables, idem, lock, input, polls, worker, psp>>

UseCached(r) ==
  /\ pc[r] = "lookup"
  /\ Finished(Key(r), Hash(r))
  /\ Respond(r, idem[Key(r)].answer)
  /\ UNCHANGED <<tables, idem, lock, input, polls, worker, psp>>

\* One more turn of the loop, or the final 409.
NextTurn(r) ==
  \/ /\ MoreTurns(polls[r])
     /\ polls' = [polls EXCEPT ![r] = @ + 1]
     /\ Goto(r, "lookup")
  \/ /\ ~MoreTurns(polls[r])
     /\ Respond(r, Error(409, "request_in_progress"))
     /\ UNCHANGED polls

PollReserved(r) ==
  /\ pc[r] = "lookup"
  /\ InProgress(Key(r), Hash(r))
  /\ NextTurn(r)
  /\ UNCHANGED <<tables, idem, lock, input, worker, psp>>

SeeNoRow(r) ==
  /\ pc[r] = "lookup"
  /\ Absent(Key(r))
  /\ Goto(r, "reserve")
  /\ UNCHANGED <<tables, idem, lock, input, polls, worker, psp>>

\* Mutant: rows_affected of the INSERT is not looked at.
ReserveIgnoresConflict(r) ==
  /\ pc[r] = "reserve"
  /\ IF Absent(Key(r)) THEN InsertRow(Key(r), Hash(r)) ELSE UNCHANGED idem
  /\ Goto(r, "claim")
  /\ UNCHANGED <<tables, lock, input, polls, worker, psp>>

Reserve(r) ==
  /\ pc[r] = "reserve"
  /\ Absent(Key(r))
  /\ InsertRow(Key(r), Hash(r))
  /\ Goto(r, "claim")
  /\ UNCHANGED <<tables, lock, input, polls, worker, psp>>

LoseReservation(r) ==
  /\ pc[r] = "reserve"
  /\ ~Absent(Key(r))
  /\ NextTurn(r)
  /\ UNCHANGED <<tables, idem, lock, input, worker, psp>>

-----------------------------------------------------------------------------
(* claim_payment_attempt.                                                  *)

Refusal(i) ==
  CASE invoice[i] = "absent" -> Error(404, "invoice_not_found")
    [] invoice[i] = "paid"   -> Error(409, "invoice_already_paid")
    [] OTHER                 -> Error(409, "invoice_not_payable")

\* SELECT state ... FOR UPDATE, which waits for the row lock.
LockInvoice(r) ==
  /\ pc[r] = "claim"
  /\ RowFree(Invoice(r))
  /\ \/ /\ CanAcceptPayment(invoice[Invoice(r)])
        /\ lock' = [lock EXCEPT ![Invoice(r)] = r]
        /\ Goto(r, "insert")
     \/ /\ ~CanAcceptPayment(invoice[Invoice(r)])
        /\ Return(r, Refusal(Invoice(r)))
        /\ UNCHANGED lock
  /\ UNCHANGED <<tables, idem, input, polls, worker, psp>>

Pending(r) == [invoice |-> Invoice(r), status |-> "pending", failure_code |-> "none"]

\* The INSERT goes through and COMMIT releases the row lock.
InsertPending(r) ==
  /\ ~IndexBusy(Invoice(r))
  /\ PendingOn(Invoice(r)) = {}
  /\ attempts' = [attempts EXCEPT ![r] = Pending(r)]
  /\ lock' = Unlocked(r)

InsertAttempt(r) ==
  /\ pc[r] = "insert"
  /\ InsertPending(r)
  /\ Goto(r, "spawn")
  /\ UNCHANGED <<invoice, outbox, idem, input, polls, worker, psp>>

\* The unique index refuses the row; the transaction is rolled back.
AttemptInProgress(r) ==
  /\ pc[r] = "insert"
  /\ ~IndexBusy(Invoice(r))
  /\ PendingOn(Invoice(r)) # {}
  /\ Return(r, Error(409, "payment_attempt_in_progress"))
  /\ lock' = Unlocked(r)
  /\ UNCHANGED <<tables, idem, input, polls, worker, psp>>

-----------------------------------------------------------------------------
(* The rest of try_claim_and_pay and of pay_invoice.                       *)

\* fetch_total_cents (the total of an invoice never changes, so its value is
\* left out), then tokio::spawn: the charge is on the wire.
SpawnTask(r) ==
  /\ pc[r] = "spawn"
  /\ task' = [task EXCEPT ![r] = "charging"]
  /\ psp' = [psp EXCEPT ![r] = "sent"]
  /\ Goto(r, "wait")
  /\ UNCHANGED <<tables, idem, lock, input, polls, outcome>>

\* PayResultBody: its status is "succeeded", or "failed" with a failure_code.
PayResult(r) ==
  [status |-> 200, attempt |-> r,
   code |-> IF outcome[r].kind = "Succeeded" THEN "succeeded"
                                             ELSE FailureCode(outcome[r])]

\* Mutant: a failed task is never noticed by the handler.
AwaitOnlySuccess(r) ==
  /\ pc[r] = "wait"
  /\ task[r] = "done" /\ Return(r, PayResult(r))
  /\ UNCHANGED <<tables, idem, lock, input, polls, worker, psp>>

\* The task ended within the synchronous window.
AwaitTask(r) ==
  /\ pc[r] = "wait"
  /\ \/ task[r] = "done" /\ Return(r, PayResult(r))
     \/ task[r] = "error" /\ Return(r, InternalError)
  /\ UNCHANGED <<tables, idem, lock, input, polls, worker, psp>>

\* Mutant: the timeout is around the charge itself and not around the handle of
\* a spawned task, so it drops the charge half-way.
SyncWaitCancels(r) ==
  /\ pc[r] = "wait"
  /\ task[r] \in Working
  /\ Return(r, [status |-> 202, attempt |-> r, code |-> "pending"])
  /\ task' = [task EXCEPT ![r] = "lost"]
  /\ UNCHANGED <<tables, idem, lock, input, polls, outcome, psp>>

\* psp_sync_wait elapsed; the task goes on without the handler.
SyncWaitElapsed(r) ==
  /\ pc[r] = "wait"
  /\ task[r] \in Working
  /\ Return(r, [status |-> 202, attempt |-> r, code |-> "pending"])
  /\ UNCHANGED <<tables, idem, lock, input, polls, worker, psp>>

StoreAnswer(r) ==
  /\ pc[r] = "store"
  /\ Finalize(Key(r), answer[r])
  /\ Respond(r, answer[r])
  /\ UNCHANGED <<tables, lock, input, polls, worker, psp>>

-----------------------------------------------------------------------------
(* The processor and the detached task: PspClient::charge, then            *)
(* finalize_payment_attempt.                                               *)

\* The processor decides, whether or not anybody still waits for it.
PspDecide(r) ==
  /\ psp[r] = "sent"
  /\ psp' = [psp EXCEPT ![r] = IF Approved(input[r].token) THEN "charged"
                                                           ELSE "refused"]
  /\ UNCHANGED <<tables, idem, lock, handler, worker>>

GetOutcome(r, o) == /\ outcome' = [outcome EXCEPT ![r] = o]
                    /\ task' = [task EXCEPT ![r] = "settle"]

PspReplies(r) ==
  /\ task[r] = "charging"
  /\ psp[r] \in {"charged", "refused"}
  /\ \E readable \in BOOLEAN :
        GetOutcome(r, Outcome(MockCharge(input[r].token), readable))
  /\ UNCHANGED <<tables, idem, lock, handler, psp>>

\* Mutant: no timeout on the processor's client.
NeverFails(r) == FALSE

\* The hard timeout, or a connection that fails before or after the processor
\* acted on the request.
PspRequestFails(r) ==
  /\ task[r] = "charging"
  /\ GetOutcome(r, Unavailable)
  /\ UNCHANGED <<tables, idem, lock, handler, psp>>

\* UPDATE payment_attempts ... WHERE id = $1 AND status = 'pending'.
UpdateAttempt(r) ==
  /\ task[r] = "settle"
  /\ task' = [task EXCEPT ![r] = IF attempts[r].status = "pending"
                                 THEN "updated" ELSE "error"]
  /\ UNCHANGED <<tables, idem, lock, handler, outcome, psp>>

\* UPDATE invoices ... WHERE state = 'open' (which waits for the row lock),
\* enqueue_event and COMMIT, which also publishes the row of UpdateAttempt.
ApplySettlement(r) ==
  LET o == outcome[r]
      i == attempts[r].invoice
  IN /\ Pays(o) => RowFree(i)
     /\ attempts' = [attempts EXCEPT ![r] = [@ EXCEPT !.status = StatusOf(o),
                                                      !.failure_code = FailureCode(o)]]
     /\ invoice' = IF Pays(o) /\ invoice[i] = "open"
                   THEN [invoice EXCEPT ![i] = "paid"] ELSE invoice
     /\ outbox' = outbox \cup {[event |-> EventOf(o), subject |-> r]}

SettleAttempt(r) ==
  /\ task[r] = "updated"
  /\ ApplySettlement(r)
  /\ task' = [task EXCEPT ![r] = "done"]
  /\ UNCHANGED <<idem, lock, handler, outcome, psp>>

-----------------------------------------------------------------------------
(* PostgreSQL's deadlock detector.  A claim that holds the invoice row and *)
(* waits for the index entry, and a settlement that rewrote the index      *)
(* entry and waits for the invoice row, wait for each other; one of the    *)
(* two transactions is aborted with an error.                              *)

Deadlocked(r, a) == /\ pc[r] = "insert"
                    /\ task[a] = "updated"
                    /\ Pays(outcome[a])
                    /\ attempts[a].invoice = Invoice(r)

AbortClaim(r) ==
  /\ \E a \in Requests : Deadlocked(r, a)
  /\ Return(r, InternalError)
  /\ lock' = Unlocked(r)
  /\ UNCHANGED <<tables, idem, input, polls, worker, psp>>

AbortSettlement(a) ==
  /\ \E r \in Requests : Deadlocked(r, a)
  /\ task' = [task EXCEPT ![a] = "error"]
  /\ UNCHANGED <<tables, idem, lock, handler, outcome, psp>>

-----------------------------------------------------------------------------
(* The other handlers that write invoices.                                 *)

CreateInvoice(i) ==
  /\ invoice[i] = "absent"
  /\ invoice' = [invoice EXCEPT ![i] = "draft"]
  /\ outbox' = outbox \cup {[event |-> "invoice.created", subject |-> i]}
  /\ UNCHANGED <<attempts, idem, lock, handler, worker, psp>>

\* `transition`: SELECT ... FOR UPDATE, the check, UPDATE and COMMIT.  A
\* request that fails the check changes nothing.
Transition(i, allowed, target) ==
  /\ RowFree(i)
  /\ allowed
  /\ invoice' = [invoice EXCEPT ![i] = target]
  /\ UNCHANGED <<attempts, outbox, idem, lock, handler, worker, psp>>

FinalizeInvoice(i) == Transition(i, CanFinalize(invoice[i]), "open")
VoidInvoice(i) == Transition(i, CanVoid(invoice[i]), "void")
MarkUncollectible(i) ==
  Transition(i, CanMarkUncollectible(invoice[i]), "uncollectible")

-----------------------------------------------------------------------------
(* Faults of the environment.                                              *)

\* A statement of the handler fails and has no effect (`?` on sqlx::Error).
\* While idempotency::finalize runs the error replaces the handler's result.
HandlerDbError(r) ==
  /\ "db" \in Faults
  /\ \/ pc[r] \in {"lookup", "reserve", "store"} /\ Respond(r, InternalError)
     \/ pc[r] \in {"claim", "insert", "spawn"} /\ Return(r, InternalError)
  /\ lock' = Unlocked(r)
  /\ UNCHANGED <<tables, idem, input, polls, worker, psp>>

\* The connection dies after the server committed and before it said so: the
\* INSERT of reserve_or_get, the COMMIT of the claim, the UPDATE of finalize.
ReserveUnknown(r) ==
  /\ "db" \in Faults
  /\ pc[r] = "reserve"
  /\ Absent(Key(r))
  /\ InsertRow(Key(r), Hash(r))
  /\ Respond(r, InternalError)
  /\ UNCHANGED <<tables, lock, input, polls, worker, psp>>

ClaimUnknown(r) ==
  /\ "db" \in Faults
  /\ pc[r] = "insert"
  /\ InsertPending(r)
  /\ Return(r, InternalError)
  /\ UNCHANGED <<invoice, outbox, idem, input, polls, worker, psp>>

StoreUnknown(r) ==
  /\ "db" \in Faults
  /\ pc[r] = "store"
  /\ Finalize(Key(r), answer[r])
  /\ Respond(r, InternalError)
  /\ UNCHANGED <<tables, lock, input, polls, worker, psp>>

\* The settling transaction fails and is rolled back.
TaskDbError(r) ==
  /\ "db" \in Faults
  /\ task[r] \in {"settle", "updated"}
  /\ task' = [task EXCEPT ![r] = "error"]
  /\ UNCHANGED <<tables, idem, lock, handler, outcome, psp>>

\* The settling transaction commits and the task does not get to know.
SettleUnknown(r) ==
  /\ "db" \in Faults
  /\ task[r] = "updated"
  /\ ApplySettlement(r)
  /\ task' = [task EXCEPT ![r] = "error"]
  /\ UNCHANGED <<idem, lock, handler, outcome, psp>>

\* The client hangs up and the server drops the handler's future; a detached
\* task is not affected.
Disconnect(r) ==
  /\ "disconnect" \in Faults
  /\ pc[r] \in Running
  /\ Goto(r, "gone")
  /\ lock' = Unlocked(r)
  /\ UNCHANGED <<tables, idem, input, polls, worker, psp>>

\* The process dies: handlers, tasks and open transactions are lost, tables
\* and requests on their way to the processor are not.
Crash ==
  /\ "crash" \in Faults
  /\ \E r \in Requests : pc[r] \in Running \/ task[r] \in Working
  /\ pc' = [r \in Requests |-> IF pc[r] \in Running THEN "gone" ELSE pc[r]]
  /\ task' = [r \in Requests |-> IF task[r] \in Working THEN "lost" ELSE task[r]]
  /\ lock' = [i \in Invoices |-> None]
  /\ UNCHANGED <<tables, idem, input, polls, answer, outcome, psp>>

\* Nothing runs: the service waits for its next request.
Quiescent ==
  /\ \A r \in Requests : pc[r] \notin Running /\ task[r] \notin Working
  /\ UNCHANGED vars

-----------------------------------------------------------------------------
HandlerStep(r) ==
  \/ RejectReusedKey(r) \/ UseCached(r) \/ PollReserved(r) \/ SeeNoRow(r)
  \/ Reserve(r) \/ LoseReservation(r)
  \/ LockInvoice(r) \/ InsertAttempt(r) \/ AttemptInProgress(r) \/ AbortClaim(r)
  \/ SpawnTask(r) \/ AwaitTask(r) \/ SyncWaitElapsed(r) \/ StoreAnswer(r)

TaskStep(r) ==
  \/ PspReplies(r) \/ PspRequestFails(r)
  \/ UpdateAttempt(r) \/ SettleAttempt(r) \/ AbortSettlement(r)

InvoiceStep(i) ==
  CreateInvoice(i) \/ FinalizeInvoice(i) \/ VoidInvoice(i) \/ MarkUncollectible(i)

FaultStep(r) ==
  \/ HandlerDbError(r) \/ ReserveUnknown(r) \/ ClaimUnknown(r) \/ StoreUnknown(r)
  \/ TaskDbError(r) \/ SettleUnknown(r) \/ Disconnect(r)

Next ==
  \/ \E r \in Requests : \/ Arrive(r) \/ ArriveMalformed(r)
                         \/ HandlerStep(r) \/ TaskStep(r)
                         \/ PspDecide(r) \/ FaultStep(r)
  \/ \E i \in Invoices : InvoiceStep(i)
  \/ Crash
  \/ Quiescent

Spec == Init /\ [][Next]_vars

\* The tokio scheduler runs every ready handler and task; PostgreSQL breaks
\* lock cycles; the client's hard timeout ends every charge.  Nothing is
\* assumed of clients, of the processor or of faults.
Fairness == \A r \in Requests : WF_vars(HandlerStep(r)) /\ WF_vars(TaskStep(r))

FairSpec == Spec /\ Fairness

-----------------------------------------------------------------------------
(* Safety.                                                                 *)

Codes == DeclineCodes \cup
  {"none", "psp_unavailable", "succeeded", "pending", "bad_request",
   "idempotency_key_reused", "request_in_progress", "invoice_not_found",
   "invoice_already_paid", "invoice_not_payable", "payment_attempt_in_progress",
   "internal_error"}
Answers == [status : {0, 200, 202, 400, 404, 409, 422, 500},
            attempt : Requests \cup {None}, code : Codes]
Hashes == [invoice : Invoices, token : Tokens] \cup {NoHash}
Inputs == [key : Keys, invoice : Invoices, token : Tokens] \cup {NoInput}
Rows == [invoice : Invoices, status : {"pending", "succeeded", "failed"},
         failure_code : DeclineCodes \cup {"none", "psp_unavailable"}]
Events == [event : {"invoice.created"}, subject : Invoices]
            \cup [event : {"invoice.paid", "invoice.payment_failed"},
                  subject : Requests]

\* Every variable keeps its type; the loop of reserve_or_get takes no more
\* than MaxPolls turns.
TypeOK ==
  /\ invoice \in [Invoices -> States \cup {"absent"}]
  /\ attempts \in [Requests -> Rows \cup {NoAttempt}]
  /\ outbox \subseteq Events
  /\ idem \in [Keys -> [hash : Hashes, answer : Answers]]
  /\ lock \in [Invoices -> Requests \cup {None}]
  /\ pc \in [Requests -> Running \cup {"idle", "done", "gone"}]
  /\ input \in [Requests -> Inputs]
  /\ polls \in [Requests -> 0 .. MaxPolls - 1]
  /\ answer \in [Requests -> Answers]
  /\ task \in [Requests -> Working \cup {"none", "done", "error", "lost"}]
  /\ outcome \in [Requests -> PspOutcomes \cup {NoOutcome}]
  /\ psp \in [Requests -> {"none", "sent", "charged", "refused"}]

\* Claiming and settling are indivisible: whatever the interleaving, the
\* deadlocks, the crashes and the database errors, the tables only change
\* the way PaymentLedger allows.
Ledger == INSTANCE PaymentLedger WITH Attempts <- Requests
ImplementsLedger == Ledger!Spec

\* Two detached tasks never deal with the same invoice at the same time
\* (payments.rs, step 2 of the module comment).  It says nothing of a charge
\* that its task has given up on, which may still be with the processor when
\* the next one starts: that case is ChargedTwiceOnlyIfUnavailable.
NoConcurrentCharges ==
  \A r, s \in Requests :
    (task[r] \in Working /\ task[s] \in Working /\ Invoice(r) = Invoice(s)) => r = s

\* Requests that share an Idempotency-Key make at most one payment attempt
\* between them, in whatever order they look, reserve and fail: "no new side
\* effects, no second PSP call" (idempotency.rs).
OneAttemptPerKey ==
  \A r, s \in Requests :
    (attempts[r] # NoAttempt /\ attempts[s] # NoAttempt /\ Key(r) = Key(s)) => r = s

\* The answers the work itself produces, as opposed to the ones about the key.
Final(a) == a.status \in {200, 202, 404}
              \/ a.code \in {"invoice_already_paid", "invoice_not_payable",
                             "payment_attempt_in_progress"}

\* Two clients that get a final answer under one key sent the same request
\* and get the same answer (UseCached replays the first one verbatim).
ReplayIsVerbatim ==
  \A r, s \in Requests :
    /\ pc[r] = "done" /\ Final(answer[r])
    /\ pc[s] = "done" /\ Final(answer[s])
    /\ Key(r) = Key(s)
    => Hash(r) = Hash(s) /\ answer[r] = answer[s]

\* What a client was told is true of the attempt and of the processor: a
\* reported success was charged, a reported decline was not, a 202 names an
\* attempt that exists, and a request that was turned away charged nothing.
AnswerIsTrue ==
  \A r \in Requests : pc[r] = "done" =>
    LET a == answer[r].attempt IN
    /\ answer[r].status = 200 /\ answer[r].code = "succeeded" =>
         attempts[a].status = "succeeded" /\ psp[a] = "charged"
    /\ answer[r].status = 200 /\ answer[r].code # "succeeded" =>
         /\ attempts[a].status = "failed" /\ attempts[a].failure_code = answer[r].code
         /\ answer[r].code # "psp_unavailable" => psp[a] = "refused"
    /\ answer[r].status = 202 => attempts[a] # NoAttempt
    /\ answer[r].status \in {400, 404, 409, 422} =>
         attempts[r] = NoAttempt /\ psp[r] = "none"

\* The card of an invoice is charged a second time only after an attempt whose
\* result the service could not learn (recorded as psp_unavailable): every
\* other interleaving of payments is kept apart.
ChargedTwiceOnlyIfUnavailable ==
  \A r, s \in Requests :
    (r # s /\ psp[r] = "charged" /\ psp[s] = "charged" /\ Invoice(r) = Invoice(s)) =>
      \E a \in {r, s} : attempts[a].failure_code = "psp_unavailable"

\* The books agree with the card processor: whoever was charged has an attempt
\* that says so, may still say so or admits not to know, and an invoice is paid
\* only if a card was charged for it (finalize_payment_attempt in payments.rs).
BooksMatchProcessor ==
  /\ \A r \in Requests : psp[r] = "charged" =>
       \/ attempts[r].status \in {"pending", "succeeded"}
       \/ attempts[r].failure_code = "psp_unavailable"
  /\ \A i \in Invoices : invoice[i] = "paid" =>
       \E r \in Requests : /\ attempts[r].invoice = i /\ attempts[r].status = "succeeded"
                          /\ psp[r] = "charged"

\* A stored response is never overwritten, and a reserved key keeps the hash
\* it was reserved with: a late handler cannot replace what was replayed.
StoredAnswerFrozen ==
  [][\A k \in Keys :
       /\ idem[k].hash # NoHash => idem'[k].hash = idem[k].hash
       /\ idem[k].answer # NoAnswer => idem'[k] = idem[k]]_vars

-----------------------------------------------------------------------------
(* Without faults of the environment (Faults = {}).                        *)

Reserved(k) == idem[k].hash # NoHash /\ idem[k].answer = NoAnswer

\* A reserved key has a running handler that will finish it: "any early return
\* must finalize the idempotency row" (payments.rs, pay_invoice).
ReservedKeyHasOwner ==
  \A k \in Keys : Reserved(k) =>
    \E r \in Requests : pc[r] \in Executing /\ Key(r) = k /\ Hash(r) = idem[k].hash

\* A pending attempt is in somebody's hands, also between the claim and the
\* start of its task and after a 202: the handler is about to spawn the task, or
\* the task works on it or failed ("NOT cancelled by this timeout", payments.rs).
PendingHasOwner ==
  \A r \in Requests : attempts[r].status = "pending" =>
    pc[r] = "spawn" \/ task[r] \in Working \cup {"error"}

\* Every request is answered, also when it waits for a row lock, for an index
\* entry, for another holder of its key or for a silent processor.
Answered == \A r \in Requests : pc[r] # "idle" ~> pc[r] = "done"

\* Every claimed attempt is settled or its task ends with an error.
AttemptsEnd ==
  \A r \in Requests : attempts[r].status = "pending" ~>
                        (attempts[r].status # "pending" \/ task[r] = "error")

-----------------------------------------------------------------------------
(* What the documentation claims and the code does not provide.            *)

\* DESIGN.md: a finalize cannot race a concurrent void; payments.rs: an
\* invoice with a pending attempt stays open.  So a succeeded attempt means
\* a paid invoice.
SucceededMeansPaid ==
  \A r \in Requests : attempts[r].status = "succeeded" => invoice[Invoice(r)] = "paid"

\* payments.rs: the detached task "will finalize the attempt whenever the PSP
\* eventually responds" or the hard timeout gives up.
PendingResolves ==
  \A r \in Requests : attempts[r].status = "pending" ~> attempts[r].status # "pending"

\* DESIGN.md: after a crash before the claim commits "a retry starts clean".
\* So a reserved key belongs to a running handler or to a claimed attempt.
RetryStartsClean ==
  \A k \in Keys : Reserved(k) =>
    \E r \in Requests : Key(r) = k /\ (pc[r] \in Executing \/ attempts[r] # NoAttempt)

\* concurrency_test.rs: "at most one success, no double-charge".
NoDoubleCharge ==
  \A r, s \in Requests :
    (psp[r] = "charged" /\ psp[s] = "charged" /\ Invoice(r) = Invoice(s)) => r = s
=============================================================================
