------------------------- MODULE PaymentLedgerProofs -------------------------
(***************************************************************************)
(* The promises of PaymentLedger hold for any number of attempts and       *)
(* invoices.                                                               *)
(***************************************************************************)
EXTENDS PaymentLedger, TLAPS

\* What makes AtMostOneSuccess inductive: two attempts on one invoice are never
\* pending together, so none is left pending when one of them succeeds ...
OnePendingPerInvoice ==
  \A a, b \in Attempts :
    (attempts[a].status = "pending" /\ attempts[b].status = "pending"
       /\ attempts[a].invoice = attempts[b].invoice) => a = b

\* ... and an invoice with a succeeded attempt has left `open` for good, so
\* nothing can be claimed on it.
SucceededIsClosed ==
  \A a \in Attempts :
    attempts[a].status = "succeeded" => invoice[attempts[a].invoice] \in Terminal

IInv == /\ TypeOK
        /\ AttemptedWasFinalized
        /\ OnePendingPerInvoice
        /\ AtMostOneSuccess
        /\ PaidBySuccess
        /\ SucceededIsClosed

USE NoneAssumption

-----------------------------------------------------------------------------
(* Facts about outcomes.                                                   *)

\* An outcome gives an attempt a final status, an allowed failure code and a
\* payment event (finalize_payment_attempt's match).
LEMMA OutcomeTypes ==
  ASSUME NEW o \in PspOutcomes
  PROVE  /\ StatusOf(o) \in {"succeeded", "failed"}
         /\ FailureCode(o) \in FailureCodes
         /\ EventOf(o) \in {"invoice.paid", "invoice.payment_failed"}
         /\ Pays(o) <=> StatusOf(o) = "succeeded"
         /\ EventOf(o) = "invoice.paid" <=> StatusOf(o) = "succeeded"
  BY DEF PspOutcomes, Succeeded, Declined, Unavailable, DeclineCodes, StatusOf,
         FailureCode, EventOf, Pays, FailureCodes

\* The invoice of an existing row.
LEMMA RowInvoice ==
  ASSUME TypeOK, NEW a \in Attempts
  PROVE  /\ attempts[a] # NoAttempt => attempts[a].invoice \in Invoices
         /\ attempts[a] # NoAttempt <=> attempts[a].status \in Statuses
  BY DEF TypeOK, Rows, NoAttempt, Statuses

\* A settled row keeps its invoice.
LEMMA SettledRow ==
  ASSUME TypeOK, NEW a \in Attempts, NEW o \in PspOutcomes, Settle(a, o)
  PROVE  /\ attempts[a] \in Rows
         /\ attempts'[a] \in Rows
         /\ attempts'[a].invoice = attempts[a].invoice
         /\ attempts'[a].status = StatusOf(o)
         /\ \A b \in Attempts \ {a} : attempts'[b] = attempts[b]
<1>1. attempts[a] \in Rows
  BY DEF TypeOK, Settle, NoAttempt
<1>2. attempts' = [attempts EXCEPT ![a] =
         [attempts[a] EXCEPT !.status = StatusOf(o), !.failure_code = FailureCode(o)]]
  BY DEF Settle
<1>3. /\ attempts'[a] = [attempts[a] EXCEPT !.status = StatusOf(o),
                                            !.failure_code = FailureCode(o)]
      /\ \A b \in Attempts \ {a} : attempts'[b] = attempts[b]
  BY <1>2 DEF TypeOK
<1>4. StatusOf(o) \in Statuses /\ FailureCode(o) \in FailureCodes
  BY OutcomeTypes DEF Statuses
<1>5. /\ attempts'[a] \in Rows
      /\ attempts'[a].invoice = attempts[a].invoice
      /\ attempts'[a].status = StatusOf(o)
  BY <1>1, <1>3, <1>4 DEF Rows
<1> QED
  BY <1>1, <1>3, <1>5

\* The row a claim inserts.
LEMMA ClaimedRow ==
  ASSUME TypeOK, NEW a \in Attempts, NEW i \in Invoices, Claim(a, i)
  PROVE  /\ attempts'[a] \in Rows
         /\ attempts'[a].invoice = i
         /\ attempts'[a].status = "pending"
         /\ \A b \in Attempts \ {a} : attempts'[b] = attempts[b]
  BY DEF TypeOK, Claim, Rows, Statuses, FailureCodes

-----------------------------------------------------------------------------
(* TypeOK.                                                                 *)

\* The tables keep their types and no attempt loses its invoice.
LEMMA TypeInductive == TypeOK /\ [Next]_ledger => TypeOK'
<1> SUFFICES ASSUME TypeOK, [Next]_ledger PROVE TypeOK'
  OBVIOUS
<1>1. ASSUME NEW i \in Invoices, Create(i) PROVE TypeOK'
  BY <1>1 DEF TypeOK, Create, States, Events
<1>2. ASSUME NEW i \in Invoices, Move(i) PROVE TypeOK'
  BY <1>2 DEF TypeOK, Move, States
<1>3. ASSUME NEW a \in Attempts, NEW i \in Invoices, Claim(a, i) PROVE TypeOK'
  BY <1>3, ClaimedRow DEF TypeOK, Claim
<1>4. ASSUME NEW a \in Attempts, NEW o \in PspOutcomes, Settle(a, o) PROVE TypeOK'
  <2>1. attempts' \in [Attempts -> Rows \cup {NoAttempt}]
    BY <1>4, SettledRow DEF TypeOK, Settle
  <2>2. invoice' \in [Invoices -> States \cup {"absent"}]
    BY <1>4 DEF TypeOK, Settle, States
  <2>3. outbox' \subseteq Events
    BY <1>4, OutcomeTypes DEF TypeOK, Settle, Events
  <2> QED
    BY <2>1, <2>2, <2>3 DEF TypeOK
<1>5. CASE UNCHANGED ledger
  BY <1>5 DEF TypeOK, ledger
<1> QED
  BY <1>1, <1>2, <1>3, <1>4, <1>5 DEF Next

-----------------------------------------------------------------------------
(* The inductive invariant.                                                *)

\* Empty tables satisfy the invariant.
LEMMA InvInit == Init => IInv
  BY DEF Init, IInv, TypeOK, AttemptedWasFinalized, OnePendingPerInvoice, AtMostOneSuccess,
         PaidBySuccess, SucceededIsClosed, NoAttempt, States

\* Creating, moving, claiming and settling keep it.
LEMMA InvInductive == IInv /\ [Next]_ledger => IInv'
<1> SUFFICES ASSUME IInv, [Next]_ledger PROVE IInv'
  OBVIOUS
<1>0. TypeOK /\ TypeOK'
  BY TypeInductive DEF IInv
<1> USE DEF AttemptedWasFinalized, OnePendingPerInvoice, AtMostOneSuccess,
            PaidBySuccess, SucceededIsClosed
<1>1. ASSUME NEW i \in Invoices, Create(i) PROVE IInv'
  BY <1>0, <1>1, RowInvoice DEF IInv, Create, Terminal, TypeOK, Statuses
<1>2. ASSUME NEW i \in Invoices, Move(i) PROVE IInv'
  <2>1. /\ attempts' = attempts
        /\ \A j \in Invoices : invoice'[j] # invoice[j] =>
             invoice[j] \notin Terminal /\ invoice'[j] \in {"open", "void", "uncollectible"}
    BY <1>0, <1>2 DEF Move, Terminal, TypeOK, CanFinalize, CanVoid, CanMarkUncollectible
  <2> QED
    BY <1>0, <2>1, RowInvoice DEF IInv, Statuses
<1>3. ASSUME NEW a \in Attempts, NEW i \in Invoices, Claim(a, i) PROVE IInv'
  <2>0. /\ attempts'[a].invoice = i /\ attempts'[a].status = "pending"
        /\ \A b \in Attempts \ {a} : attempts'[b] = attempts[b]
    BY <1>0, <1>3, ClaimedRow
  <2>1. /\ attempts'[a].invoice = i /\ attempts'[a].status = "pending"
        /\ \A b \in Attempts \ {a} : attempts'[b] = attempts[b]
        /\ attempts[a].status = "none"
        /\ invoice[i] = "open" /\ invoice' = invoice
        /\ \A b \in Attempts : ~(attempts[b].status = "pending" /\ attempts[b].invoice = i)
    BY <1>3, <2>0 DEF Claim, Claimable, CanAcceptPayment, PendingOn, NoAttempt
  <2>2. OnePendingPerInvoice'
    BY <2>1 DEF IInv
  <2>3. AtMostOneSuccess'
    BY <2>1 DEF IInv, Terminal
  <2>4. PaidBySuccess'
    BY <2>1 DEF IInv
  <2>5. SucceededIsClosed' /\ AttemptedWasFinalized'
    BY <2>1 DEF IInv
  <2> QED
    BY <1>0, <2>2, <2>3, <2>4, <2>5 DEF IInv
<1>4. ASSUME NEW a \in Attempts, NEW o \in PspOutcomes, Settle(a, o) PROVE IInv'
  <2> DEFINE i == attempts[a].invoice
  <2>1. /\ attempts'[a].invoice = i /\ attempts'[a].status = StatusOf(o)
        /\ \A b \in Attempts \ {a} : attempts'[b] = attempts[b]
        /\ attempts[a].status = "pending" /\ attempts[a] # NoAttempt
        /\ i = attempts[a].invoice /\ i \in Invoices
    <3>1. attempts[a].status = "pending"
      BY <1>4 DEF Settle
    <3>2. attempts[a] # NoAttempt /\ i \in Invoices
      BY <1>0, <3>1, RowInvoice DEF Statuses
    <3> QED
      BY <1>0, <1>4, <3>1, <3>2, SettledRow
  <2>2. /\ StatusOf(o) \in {"succeeded", "failed"}
        /\ Pays(o) <=> StatusOf(o) = "succeeded"
    BY OutcomeTypes
  <2>3. /\ \A j \in Invoices : invoice'[j] # invoice[j] =>
                j = i /\ invoice'[j] = "paid" /\ Pays(o) /\ invoice[j] = "open"
        /\ Pays(o) => invoice'[i] # "open"
    BY <1>0, <1>4, <2>1 DEF Settle, TypeOK
  <2>4. Pays(o) => invoice'[i] \in Terminal
    BY <1>0, <2>1, <2>3 DEF IInv, TypeOK, States, Terminal
  <2> HIDE DEF i
  <2>5. OnePendingPerInvoice'
    BY <2>1, <2>2 DEF IInv
  <2>6. AtMostOneSuccess'
    BY <2>1, <2>2 DEF IInv
  <2>7. PaidBySuccess'
    BY <2>1, <2>2, <2>3 DEF IInv
  <2>8. SucceededIsClosed'
    BY <1>0, <2>1, <2>2, <2>3, <2>4, RowInvoice DEF IInv, Terminal, Statuses
  <2>9. AttemptedWasFinalized'
    BY <1>0, <2>1, <2>3, RowInvoice DEF IInv
  <2> QED
    BY <1>0, <2>5, <2>6, <2>7, <2>8, <2>9 DEF IInv
<1>5. CASE UNCHANGED ledger
  BY <1>0, <1>5 DEF IInv, ledger
<1> QED
  BY <1>1, <1>2, <1>3, <1>4, <1>5 DEF Next

\* The rows always satisfy the CHECK constraints of the schema.
THEOREM LedgerTypes == Spec => []TypeOK
<1>1. IInv => TypeOK
  BY DEF IInv
<1> QED
  BY <1>1, InvInit, InvInductive, PTL DEF Spec

\* Only finalized invoices are attempted.
THEOREM LedgerFinalized == Spec => []AttemptedWasFinalized
<1>1. IInv => AttemptedWasFinalized
  BY DEF IInv
<1> QED
  BY <1>1, InvInit, InvInductive, PTL DEF Spec

\* An invoice is charged successfully at most once.
THEOREM LedgerOneSuccess == Spec => []AtMostOneSuccess
<1>1. IInv => AtMostOneSuccess
  BY DEF IInv
<1> QED
  BY <1>1, InvInit, InvInductive, PTL DEF Spec

\* A paid invoice has a succeeded attempt.
THEOREM LedgerPaidBySuccess == Spec => []PaidBySuccess
<1>1. IInv => PaidBySuccess
  BY DEF IInv
<1> QED
  BY <1>1, InvInit, InvInductive, PTL DEF Spec

-----------------------------------------------------------------------------
(* The outbox.                                                             *)

\* A step keeps the outbox in agreement with the attempts.
LEMMA OutboxInductive ==
  TypeOK /\ OutboxTellsAttempts /\ [Next]_ledger => OutboxTellsAttempts'
<1> SUFFICES ASSUME TypeOK, OutboxTellsAttempts, [Next]_ledger
             PROVE  OutboxTellsAttempts'
  OBVIOUS
<1> DEFINE Told(a) == {e \in outbox : e.event # "invoice.created" /\ e.subject = a}
           Due(a) ==
             CASE attempts[a].status = "succeeded" ->
                    {[event |-> "invoice.paid", subject |-> a]}
               [] attempts[a].status = "failed" ->
                    {[event |-> "invoice.payment_failed", subject |-> a]}
               [] OTHER -> {}
<1>0. \A b \in Attempts : Told(b) = Due(b)
  BY DEF OutboxTellsAttempts
<1> SUFFICES ASSUME NEW b \in Attempts PROVE Told(b)' = Due(b)'
  BY DEF OutboxTellsAttempts
<1>1. ASSUME NEW i \in Invoices, Create(i) PROVE Told(b)' = Due(b)'
  <2>1. Told(b)' = Told(b)
    BY <1>1 DEF Create
  <2>2. Due(b)' = Due(b)
    BY <1>1 DEF Create
  <2> QED
    BY <1>0, <2>1, <2>2
<1>2. ASSUME NEW i \in Invoices, Move(i) PROVE Told(b)' = Due(b)'
  BY <1>0, <1>2 DEF Move
<1>3. ASSUME NEW a \in Attempts, NEW i \in Invoices, Claim(a, i)
      PROVE  Told(b)' = Due(b)'
  <2>1. Due(b)' = Due(b)
    BY <1>3, ClaimedRow DEF Claim, NoAttempt
  <2>2. Told(b)' = Told(b)
    BY <1>3 DEF Claim
  <2> QED
    BY <1>0, <2>1, <2>2
<1>4. ASSUME NEW a \in Attempts, NEW o \in PspOutcomes, Settle(a, o)
      PROVE  Told(b)' = Due(b)'
  <2>1. outbox' = outbox \cup {[event |-> EventOf(o), subject |-> a]}
    BY <1>4 DEF Settle
  <2>2. CASE b # a
    <3>1. Told(b)' = Told(b)
      BY <2>1, <2>2
    <3>2. Due(b)' = Due(b)
      BY <1>4, <2>2, SettledRow
    <3> QED
      BY <1>0, <3>1, <3>2
  <2>3. CASE b = a
    <3>1. Told(b) = {}
      BY <1>0, <1>4, <2>3 DEF Settle
    <3>2. Told(b)' = {[event |-> EventOf(o), subject |-> b]}
      BY <2>1, <2>3, <3>1, OutcomeTypes
    <3>3. Due(b)' = {[event |-> EventOf(o), subject |-> b]}
      BY <1>4, <2>3, SettledRow, OutcomeTypes
    <3> QED
      BY <3>2, <3>3
  <2> QED
    BY <2>2, <2>3
<1>5. CASE UNCHANGED ledger
  BY <1>0, <1>5 DEF ledger
<1> QED
  BY <1>1, <1>2, <1>3, <1>4, <1>5 DEF Next

\* Every settled attempt is reported by exactly one event, the right one.
THEOREM LedgerOutbox == Spec => []OutboxTellsAttempts
<1>1. Init => OutboxTellsAttempts
  BY DEF Init, OutboxTellsAttempts, NoAttempt
<1>2. Init => TypeOK
  BY InvInit DEF IInv
<1> QED
  BY <1>1, <1>2, TypeInductive, OutboxInductive, PTL DEF Spec

-----------------------------------------------------------------------------
(* Steps.                                                                  *)

\* No step leaves a terminal state or changes a settled attempt.
THEOREM LedgerSettledIsFinal == Spec => SettledIsFinal
<1> DEFINE Final == /\ \A i \in Invoices : invoice[i] \in Terminal => invoice'[i] = invoice[i]
                    /\ \A a \in Attempts : attempts[a].status \in {"succeeded", "failed"} =>
                                              attempts'[a] = attempts[a]
<1>1. ASSUME TypeOK, Next PROVE Final
  <2>1. ASSUME NEW i \in Invoices, Create(i) PROVE Final
    BY <1>1, <2>1 DEF Create, Terminal, TypeOK
  <2>2. ASSUME NEW i \in Invoices, Move(i) PROVE Final
    BY <1>1, <2>2 DEF Move, Terminal, TypeOK, CanFinalize, CanVoid, CanMarkUncollectible
  <2>3. ASSUME NEW a \in Attempts, NEW i \in Invoices, Claim(a, i) PROVE Final
    BY <1>1, <2>3, ClaimedRow DEF Claim, NoAttempt
  <2>4. ASSUME NEW a \in Attempts, NEW o \in PspOutcomes, Settle(a, o) PROVE Final
    <3>1. \A i \in Invoices : invoice[i] \in Terminal => invoice'[i] = invoice[i]
      BY <1>1, <2>4 DEF Settle, Terminal, TypeOK
    <3>2. \A b \in Attempts : attempts[b].status \in {"succeeded", "failed"} =>
                                attempts'[b] = attempts[b]
      BY <1>1, <2>4, SettledRow DEF Settle
    <3> QED
      BY <3>1, <3>2
  <2> QED
    BY <1>1, <2>1, <2>2, <2>3, <2>4 DEF Next
<1>2. TypeOK /\ [Next]_ledger => [Final]_ledger
  BY <1>1
<1>3. Init => TypeOK
  BY InvInit DEF IInv
<1> QED
  BY <1>2, <1>3, TypeInductive, PTL DEF Spec, SettledIsFinal
=============================================================================
