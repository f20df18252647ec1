--------------------------- MODULE Notifications ---------------------------
(***************************************************************************)
(* The payment ledger and the webhook dispatcher together: the events of   *)
(* the ledger are the events of the outbox, and a transaction that creates *)
(* an invoice or settles an attempt commits its change and its deliveries  *)
(* in one step (create_invoice, finalize_payment_attempt, enqueue_event).  *)
(***************************************************************************)
EXTENDS PaymentLedger, Integers, FiniteSets

CONSTANTS Replicas, Endpoints, BatchSize, MaxAttempts, Backoff, PostTimeout,
          Horizon, Faults, MaxFaults

\* The assumptions of the dispatcher, for the events of the ledger.
ASSUME NotificationsAssumption ==
  /\ IsFiniteSet(Replicas) /\ IsFiniteSet(Events) /\ IsFiniteSet(Endpoints)
  /\ BatchSize \in Nat \ {0}
  /\ MaxAttempts \in Nat \ {0}
  /\ Horizon \in Nat
  /\ Backoff \in [1 .. MaxAttempts - 1 -> 0 .. Horizon]
  /\ PostTimeout \in Nat
  /\ MaxFaults \in Nat

VARIABLES endpoints, event, addressed, rows, held, writes, age, phase, batch,
          reply, spent, posts, accepted, rested, faults

Hooks == INSTANCE WebhookDispatcher

hooks == <<endpoints, event, addressed, rows, held, writes, age, phase, batch,
           reply, spent, posts, accepted, rested, faults>>
vars == <<ledger, hooks>>

NInit == Init /\ Hooks!Init

CreatedEvent(i) == [event |-> "invoice.created", subject |-> i]
SettledEvent(a, o) == [event |-> EventOf(o), subject |-> a]

-----------------------------------------------------------------------------
(* Transactions that report an event: up to enqueue_event, then COMMIT.    *)

\* create_invoice.
BeginCreate(i) ==
  /\ invoice[i] = "absent"
  /\ Hooks!EnqueueEvent(CreatedEvent(i))
  /\ UNCHANGED ledger

CommitCreate(i) == Create(i) /\ Hooks!CommitEvent(CreatedEvent(i))

\* finalize_payment_attempt, once per attempt.
BeginSettle(a, o) ==
  /\ attempts[a].status = "pending"
  /\ \A v \in Events : v.subject = a => event[v] = "none"
  /\ Hooks!EnqueueEvent(SettledEvent(a, o))
  /\ UNCHANGED ledger

CommitSettle(a, o) == Settle(a, o) /\ Hooks!CommitEvent(SettledEvent(a, o))

Rollback == \E v \in Events : Hooks!RollbackEvent(v) /\ UNCHANGED ledger

-----------------------------------------------------------------------------
(* Steps of one of the two parts alone.                                    *)

LedgerStep ==
  /\ \E i \in Invoices : Move(i) \/ \E a \in Attempts : Claim(a, i)
  /\ UNCHANGED hooks

DispatcherStep ==
  /\ \/ \E e \in Endpoints : Hooks!RegisterWebhook(e)
     \/ \E p \in Replicas : Hooks!ReplicaStep(p) \/ Hooks!FaultStep(p)
     \/ Hooks!Tick
  /\ UNCHANGED ledger

NNext ==
  \/ \E i \in Invoices : BeginCreate(i) \/ CommitCreate(i)
  \/ \E a \in Attempts, o \in PspOutcomes : BeginSettle(a, o) \/ CommitSettle(a, o)
  \/ Rollback
  \/ LedgerStep
  \/ DispatcherStep

NSpec == NInit /\ [][NNext]_vars

\* The dispatcher's fairness, as in WebhookDispatcher.
NFairSpec ==
  /\ NSpec
  /\ WF_vars(Hooks!Tick /\ UNCHANGED ledger)
  /\ \A p \in Replicas : WF_vars(Hooks!ReplicaStep(p) /\ UNCHANGED ledger)

-----------------------------------------------------------------------------
(* Properties.                                                             *)

\* A change and its event are durable together: the deliveries of an event
\* exist from the step that makes the change, and never without it, although
\* the endpoints were looked up earlier and the transaction may have failed.
DurableWithChange ==
  \A v \in Events : \A e \in Endpoints :
    rows[<<v, e>>].status # "none" <=> v \in outbox /\ e \in addressed[v]

\* What a receiver is told is true when it is told, and stays true: it hears of
\* a payment only after the attempt succeeded, of a failure only after it
\* failed, and never both for one attempt.
HeardIsTrue ==
  \A v \in Events : \A e \in Endpoints : posts[<<v, e>>] > 0 =>
    CASE v.event = "invoice.paid" -> attempts[v.subject].status = "succeeded"
      [] v.event = "invoice.payment_failed" -> attempts[v.subject].status = "failed"
      [] OTHER -> invoice[v.subject] # "absent"

\* Once an attempt is settled, every endpoint that the settling transaction
\* found hears of it, or was tried until the attempts ran out.
SettlementIsHeard ==
  \A v \in Events : \A e \in Endpoints :
    (v.event # "invoice.created" /\ e \in addressed[v]
       /\ attempts[v.subject].status \in {"succeeded", "failed"}) ~>
      (accepted[<<v, e>>] > 0 \/ posts[<<v, e>>] >= MaxAttempts)
=============================================================================
