--------------------------- MODULE PaymentLedger ---------------------------
(***************************************************************************)
(* What the database promises about invoices and payment attempts, as an   *)
(* abstract specification: claiming, settling and changing an invoice are  *)
(* each one indivisible step.  Payments.tla shows that the row lock, the   *)
(* partial unique index and the status-conditional updates of the real     *)
(* transactions provide exactly this, whatever the interleaving, the       *)
(* crashes and the deadlocks.                                              *)
(***************************************************************************)
EXTENDS InvoiceState, Psp

CONSTANTS Attempts,   \* ids of payment attempts
          Invoices,   \* ids of invoices
          None        \* the invoice of an attempt that does not exist yet

ASSUME NoneAssumption == None \notin Invoices

VARIABLES invoice,    \* invoices.state, or "absent"
          attempts,   \* the table payment_attempts
          outbox      \* events handed to the webhook outbox

ledger == <<invoice, attempts, outbox>>

NoAttempt == [invoice |-> None, status |-> "none", failure_code |-> "none"]

PendingOn(i) == {a \in Attempts : /\ attempts[a].status = "pending"
                                  /\ attempts[a].invoice = i}

Init == /\ invoice = [i \in Invoices |-> "absent"]
        /\ attempts = [a \in Attempts |-> NoAttempt]
        /\ outbox = {}

Create(i) ==
  /\ invoice[i] = "absent"
  /\ invoice' = [invoice EXCEPT ![i] = "draft"]
  /\ outbox' = outbox \cup {[event |-> "invoice.created", subject |-> i]}
  /\ UNCHANGED attempts

\* finalize, void and mark-uncollectible.
Move(i) ==
  /\ \/ CanFinalize(invoice[i]) /\ invoice' = [invoice EXCEPT ![i] = "open"]
     \/ CanVoid(invoice[i]) /\ invoice' = [invoice EXCEPT ![i] = "void"]
     \/ /\ CanMarkUncollectible(invoice[i])
        /\ invoice' = [invoice EXCEPT ![i] = "uncollectible"]
  /\ UNCHANGED <<attempts, outbox>>

\* Mutant: the state of the invoice is not looked at.
ClaimableIfFree(i) == PendingOn(i) = {}

\* A payment attempt starts only on an open invoice with no pending attempt.
Claimable(i) == CanAcceptPayment(invoice[i]) /\ PendingOn(i) = {}

Claim(a, i) ==
  /\ attempts[a] = NoAttempt
  /\ Claimable(i)
  /\ attempts' = [attempts EXCEPT ![a] =
                    [invoice |-> i, status |-> "pending", failure_code |-> "none"]]
  /\ UNCHANGED <<invoice, outbox>>

\* A pending attempt gets its outcome once; success pays an open invoice; the
\* event is recorded in the same step.
Settle(a, o) ==
  LET i == attempts[a].invoice IN
  /\ attempts[a].status = "pending"
  /\ attempts' = [attempts EXCEPT ![a] = [@ EXCEPT !.status = StatusOf(o),
                                                   !.failure_code = FailureCode(o)]]
  /\ invoice' = IF Pays(o) /\ invoice[i] = "open"
                THEN [invoice EXCEPT ![i] = "paid"] ELSE invoice
  /\ outbox' = outbox \cup {[event |-> EventOf(o), subject |-> a]}

Next == \/ \E i \in Invoices : Create(i) \/ Move(i)
        \/ \E a \in Attempts : \/ \E i \in Invoices : Claim(a, i)
                               \/ \E o \in PspOutcomes : Settle(a, o)

Spec == Init /\ [][Next]_ledger

-----------------------------------------------------------------------------
(* What the ledger promises.                                               *)

Statuses == {"pending", "succeeded", "failed"}
FailureCodes == DeclineCodes \cup {"none", "psp_unavailable"}
Rows == [invoice : Invoices, status : Statuses, failure_code : FailureCodes]
Events == [event : {"invoice.created"}, subject : Invoices]
            \cup [event : {"invoice.paid", "invoice.payment_failed"},
                  subject : Attempts]

\* Every row of the three tables satisfies the CHECK constraints of
\* migrations/0001_init.sql.
TypeOK ==
  /\ invoice \in [Invoices -> States \cup {"absent"}]
  /\ attempts \in [Attempts -> Rows \cup {NoAttempt}]
  /\ outbox \subseteq Events

\* An attempt is only ever made on an invoice of the business that had been
\* finalized by then, and such an invoice never becomes a draft again.
AttemptedWasFinalized ==
  \A a \in Attempts : attempts[a] # NoAttempt =>
    invoice[attempts[a].invoice] \notin {"absent", "draft"}

\* An invoice is charged successfully at most once, and once it has been no
\* further attempt on it is in flight: "at most one success" of
\* tests/concurrency_test.rs, over every history of claims and settlements.
AtMostOneSuccess ==
  \A a, b \in Attempts :
    (attempts[a].status = "succeeded" /\ attempts[b].status \in {"pending", "succeeded"}
       /\ attempts[a].invoice = attempts[b].invoice) => a = b

\* An invoice is paid only if one of its attempts succeeded: no sequence of
\* failures, retries and manual transitions marks it paid for free.
PaidBySuccess ==
  \A i \in Invoices : invoice[i] = "paid" =>
    \E a \in Attempts : attempts[a].invoice = i /\ attempts[a].status = "succeeded"

\* The outbox tells the history of the attempts: exactly one event for each
\* settled attempt, naming its outcome, and none for a pending one.
OutboxTellsAttempts ==
  \A a \in Attempts :
    {e \in outbox : e.event # "invoice.created" /\ e.subject = a} =
      CASE attempts[a].status = "succeeded" -> {[event |-> "invoice.paid", subject |-> a]}
        [] attempts[a].status = "failed" ->
             {[event |-> "invoice.payment_failed", subject |-> a]}
        [] OTHER -> {}

\* Terminal states are final and a settled attempt is never settled again,
\* whoever tries: the status-conditional updates of
\* finalize_payment_attempt and the checks of `transition`.
SettledIsFinal ==
  [][/\ \A i \in Invoices : invoice[i] \in Terminal => invoice'[i] = invoice[i]
     /\ \A a \in Attempts : attempts[a].status \in {"succeeded", "failed"} =>
                               attempts'[a] = attempts[a]]_ledger
=============================================================================
