--------------------------- MODULE PaymentsProofs ---------------------------
(***************************************************************************)
(* Payments keeps its safety properties for any number of requests, keys,  *)
(* invoices and tokens and under every combination of faults.              *)
(***************************************************************************)
EXTENDS Payments, TLAPS

-----------------------------------------------------------------------------
(* The inductive invariant, in named parts.                                *)

\* A running handler has read its request.
Named == \A r \in Requests : pc[r] \in Running => input[r] # NoInput

\* What a handler has not done yet: before its claim commits it has no attempt,
\* before it spawns the task there is none.
NotYet ==
  \A r \in Requests :
    /\ pc[r] \in {"idle", "lookup", "reserve", "claim", "insert"} => attempts[r] = NoAttempt
    /\ pc[r] \in {"idle", "lookup", "reserve", "claim", "insert", "spawn"} => task[r] = "none"
    /\ pc[r] = "spawn" => attempts[r].status = "pending"

\* An attempt is on the invoice its request names.
OnOwnInvoice ==
  \A r \in Requests : attempts[r] # NoAttempt => attempts[r].invoice = Invoice(r)

\* The row lock of an invoice is held by the claim transaction that is about to
\* insert, and as long as it is held the invoice stays open.
Locked ==
  /\ \A r \in Requests : pc[r] = "insert" =>
        lock[Invoice(r)] = r /\ invoice[Invoice(r)] = "open"
  /\ \A i \in Invoices : lock[i] # None => pc[lock[i]] = "insert" /\ Invoice(lock[i]) = i

\* A detached task works on a pending attempt; one that settles it knows the
\* outcome.
InFlight ==
  \A r \in Requests :
    /\ task[r] \in Working => attempts[r].status = "pending"
    /\ task[r] \in {"settle", "updated"} => outcome[r] # NoOutcome

\* The unique index: at most one pending attempt per invoice.
OnePending ==
  \A r, s \in Requests :
    (attempts[r].status = "pending" /\ attempts[s].status = "pending"
       /\ attempts[r].invoice = attempts[s].invoice) => r = s

IInv == TypeOK /\ Named /\ NotYet /\ OnOwnInvoice /\ Locked /\ InFlight /\ OnePending

USE NoneIsNoId, MaxPollsAssumption

-----------------------------------------------------------------------------
(* Facts about the data.                                                   *)

\* Every answer the code can give is an answer.
LEMMA AnswerTypes ==
  /\ NoAnswer \in Answers
  /\ InternalError \in Answers
  /\ Error(400, "bad_request") \in Answers
  /\ Error(422, "idempotency_key_reused") \in Answers
  /\ Error(409, "request_in_progress") \in Answers
  /\ Error(409, "payment_attempt_in_progress") \in Answers
  /\ \A i \in Invoices : Refusal(i) \in Answers
  /\ \A r \in Requests : [status |-> 202, attempt |-> r, code |-> "pending"] \in Answers
  BY DEF Answers, Codes, NoAnswer, Error, InternalError, Refusal

\* An outcome has a final status, a failure code and an event.
LEMMA OutcomeTypes ==
  ASSUME NEW o \in PspOutcomes \cup {NoOutcome}
  PROVE  /\ StatusOf(o) \in {"succeeded", "failed"}
         /\ FailureCode(o) \in DeclineCodes \cup {"none", "psp_unavailable"}
         /\ EventOf(o) \in {"invoice.paid", "invoice.payment_failed"}
  BY DEF PspOutcomes, Succeeded, Declined, Unavailable, NoOutcome, StatusOf,
         FailureCode, EventOf

\* The body of a 200 is an answer.
LEMMA PayResultType ==
  ASSUME TypeOK, NEW r \in Requests
  PROVE  PayResult(r) \in Answers
<1>1. FailureCode(outcome[r]) \in DeclineCodes \cup {"none", "psp_unavailable"}
  BY OutcomeTypes DEF TypeOK
<1> QED
  BY <1>1 DEF PayResult, Answers, Codes

\* Whatever the mock processor answers, readable or not, is an outcome.
LEMMA ReplyIsOutcome ==
  ASSUME NEW t, NEW readable \in BOOLEAN
  PROVE  Outcome(MockCharge(t), readable) \in PspOutcomes
<1>1. MockCharge(t) \in
        {[http |-> "2xx", body |-> "psp_ref"],
         [http |-> "2xx", body |-> "insufficient_funds"],
         [http |-> "2xx", body |-> "card_declined"],
         [http |-> "5xx", body |-> "simulated_network_error"],
         [http |-> "4xx", body |-> "invalid_token"]}
  BY DEF MockCharge
<1> QED
  BY <1>1 DEF Outcome, PspOutcomes, Succeeded, Declined, Unavailable, DeclineCodes

\* A running handler's input and its hash are proper values.
LEMMA InputTypes ==
  ASSUME TypeOK, NEW r \in Requests
  PROVE  /\ Hash(r) \in Hashes
         /\ input[r] # NoInput =>
              /\ Key(r) \in Keys
              /\ Invoice(r) \in Invoices
              /\ Hash(r) # NoHash
  BY DEF TypeOK, Inputs, Hashes, Hash, HashBody, Key, Invoice, NoInput, NoHash

\* The rows of payment_attempts.
LEMMA RowTypes ==
  ASSUME TypeOK, NEW r \in Requests
  PROVE  /\ attempts[r] \in Rows \cup {NoAttempt}
         /\ attempts[r] # NoAttempt => attempts[r] \in Rows /\ attempts[r].invoice \in Invoices
         /\ attempts[r] = NoAttempt <=> attempts[r].status = "none"
  BY DEF TypeOK, Rows, NoAttempt

\* A settled row.
LEMMA SettledRow ==
  ASSUME TypeOK, NEW r \in Requests, attempts[r].status = "pending", ApplySettlement(r)
  PROVE  /\ attempts' \in [Requests -> Rows \cup {NoAttempt}]
         /\ attempts'[r].invoice = attempts[r].invoice
         /\ attempts'[r].status \in {"succeeded", "failed"}
         /\ \A s \in Requests \ {r} : attempts'[s] = attempts[s]
<1>1. attempts[r] \in Rows
  BY RowTypes DEF NoAttempt
<1>2. attempts' = [attempts EXCEPT ![r] =
         [attempts[r] EXCEPT !.status = StatusOf(outcome[r]),
                             !.failure_code = FailureCode(outcome[r])]]
  BY DEF ApplySettlement
<1>3. /\ attempts'[r] = [attempts[r] EXCEPT !.status = StatusOf(outcome[r]),
                                            !.failure_code = FailureCode(outcome[r])]
      /\ \A s \in Requests \ {r} : attempts'[s] = attempts[s]
  BY <1>2 DEF TypeOK
<1>4. /\ StatusOf(outcome[r]) \in {"succeeded", "failed"}
      /\ FailureCode(outcome[r]) \in DeclineCodes \cup {"none", "psp_unavailable"}
  BY OutcomeTypes DEF TypeOK
<1>5. /\ attempts'[r] \in Rows
      /\ attempts'[r].invoice = attempts[r].invoice
      /\ attempts'[r].status = StatusOf(outcome[r])
  BY <1>1, <1>3, <1>4 DEF Rows
<1> QED
  BY <1>2, <1>3, <1>4, <1>5 DEF TypeOK

-----------------------------------------------------------------------------
(* Facts about the composite steps.                                        *)

\* Rolling back or committing a claim gives back its row lock and no other.
LEMMA UnlockEffect ==
  ASSUME IInv, NEW r \in Requests, NEW l, l # "insert",
         pc' = [pc EXCEPT ![r] = l], lock' = Unlocked(r), UNCHANGED <<invoice, input>>
  PROVE  Locked' /\ lock' \in [Invoices -> Requests \cup {None}]
<1>1. \A i \in Invoices : lock'[i] = IF lock[i] = r THEN None ELSE lock[i]
  BY DEF Unlocked
<1>2. lock' \in [Invoices -> Requests \cup {None}]
  BY DEF IInv, TypeOK, Unlocked
<1>3. ASSUME NEW s \in Requests, pc'[s] = "insert"
      PROVE  lock'[Invoice(s)] = s /\ invoice[Invoice(s)] = "open"
  <2>1. s # r /\ pc[s] = "insert"
    BY <1>3 DEF IInv, TypeOK
  <2>2. Invoice(s) \in Invoices
    BY <2>1, InputTypes DEF IInv, Named, Running, Executing
  <2> QED
    BY <1>1, <2>1, <2>2 DEF IInv, Locked
<1>4. ASSUME NEW i \in Invoices, lock'[i] # None
      PROVE  pc'[lock'[i]] = "insert" /\ Invoice(lock'[i]) = i
  BY <1>1, <1>4 DEF IInv, TypeOK, Locked
<1> QED
  BY <1>2, <1>3, <1>4 DEF Locked, Invoice

\* The INSERT of a claim adds one pending row for the invoice of the request.
LEMMA InsertEffect ==
  ASSUME IInv, NEW r \in Requests, pc[r] = "insert", InsertPending(r)
  PROVE  /\ attempts' \in [Requests -> Rows \cup {NoAttempt}]
         /\ attempts'[r] # NoAttempt
         /\ attempts'[r].status = "pending" /\ attempts'[r].invoice = Invoice(r)
         /\ \A s \in Requests \ {r} : attempts'[s] = attempts[s]
         /\ \A s \in Requests : ~(attempts[s].status = "pending"
                                    /\ attempts[s].invoice = Invoice(r))
         /\ Invoice(r) \in Invoices
<1>1. Invoice(r) \in Invoices
  BY InputTypes DEF IInv, Named, Running, Executing
<1>2. Pending(r) \in Rows /\ Pending(r) # NoAttempt
  BY <1>1 DEF Pending, Rows, NoAttempt
<1> QED
  BY <1>1, <1>2 DEF InsertPending, PendingOn, Pending, IInv, TypeOK

\* Committing a settlement changes one pending row, adds an event and moves at
\* most one invoice, which is open and whose row nobody holds.
LEMMA SettleEffect ==
  ASSUME IInv, NEW r \in Requests, task[r] = "updated", ApplySettlement(r)
  PROVE  /\ attempts[r].status = "pending"
         /\ attempts' \in [Requests -> Rows \cup {NoAttempt}]
         /\ attempts'[r].invoice = attempts[r].invoice
         /\ attempts'[r].status \in {"succeeded", "failed"}
         /\ \A s \in Requests \ {r} : attempts'[s] = attempts[s]
         /\ invoice' \in [Invoices -> States \cup {"absent"}]
         /\ \A i \in Invoices : invoice'[i] # invoice[i] => lock[i] = None
         /\ outbox' \subseteq Events
<1>1. attempts[r].status = "pending" /\ attempts[r].invoice \in Invoices
  BY RowTypes DEF IInv, InFlight, Working, NoAttempt
<1>2. /\ invoice' \in [Invoices -> States \cup {"absent"}]
      /\ \A i \in Invoices : invoice'[i] # invoice[i] => lock[i] = None
  BY <1>1 DEF ApplySettlement, RowFree, IInv, TypeOK, States
<1>3. outbox' \subseteq Events
  BY OutcomeTypes DEF ApplySettlement, IInv, TypeOK, Events
<1> QED
  BY <1>1, <1>2, <1>3, SettledRow DEF IInv

-----------------------------------------------------------------------------
(* Types.                                                                  *)

\* Storing an answer keeps the type of the keys' rows.
LEMMA FinalizeEffect ==
  ASSUME TypeOK, NEW r \in Requests, Finalize(Key(r), answer[r])
  PROVE  idem' \in [Keys -> [hash : Hashes, answer : Answers]]
<1>1. /\ idem \in [Keys -> [hash : Hashes, answer : Answers]] /\ answer[r] \in Answers
      /\ idem' = [idem EXCEPT ![Key(r)] = [idem[Key(r)] EXCEPT !.answer = answer[r]]]
  BY DEF TypeOK, Finalize
<1>2. Key(r) \in Keys =>
        [idem[Key(r)] EXCEPT !.answer = answer[r]] \in [hash : Hashes, answer : Answers]
  BY <1>1
<1> QED
  BY <1>1, <1>2

\* Every action keeps the types of the variables.
LEMMA TypeInductive == IInv /\ [Next]_vars => TypeOK'
<1> SUFFICES ASSUME IInv, [Next]_vars PROVE TypeOK'
  OBVIOUS
<1> USE DEF IInv, TypeOK, tables, handler, worker, Running, Executing, Working
<1>1. ASSUME NEW r \in Requests, Arrive(r) PROVE TypeOK'
  <2>1. input' \in [Requests -> Inputs]
    BY <1>1 DEF Arrive, Inputs
  <2> QED
    BY <1>1, <2>1 DEF Arrive, Goto
<1>2. ASSUME NEW r \in Requests, ArriveMalformed(r) PROVE TypeOK'
  BY <1>2, AnswerTypes DEF ArriveMalformed, Respond
<1>3. ASSUME NEW r \in Requests, RejectReusedKey(r) PROVE TypeOK'
  BY <1>3, AnswerTypes DEF RejectReusedKey, Respond
<1>4. ASSUME NEW r \in Requests, UseCached(r) PROVE TypeOK'
  <2>1. idem[Key(r)].answer \in Answers
    BY <1>4, InputTypes DEF UseCached, Named
  <2> QED
    BY <1>4, <2>1 DEF UseCached, Respond
<1>5. ASSUME NEW r \in Requests, PollReserved(r) PROVE TypeOK'
  BY <1>5, AnswerTypes DEF PollReserved, NextTurn, MoreTurns, Goto, Respond
<1>6. ASSUME NEW r \in Requests, SeeNoRow(r) PROVE TypeOK'
  BY <1>6 DEF SeeNoRow, Goto
<1>7. ASSUME NEW r \in Requests, Reserve(r) PROVE TypeOK'
  <2>1. [hash |-> Hash(r), answer |-> NoAnswer] \in [hash : Hashes, answer : Answers]
    BY InputTypes, AnswerTypes
  <2> QED
    BY <1>7, <2>1 DEF Reserve, InsertRow, Goto
<1>8. ASSUME NEW r \in Requests, LoseReservation(r) PROVE TypeOK'
  BY <1>8, AnswerTypes DEF LoseReservation, NextTurn, MoreTurns, Goto, Respond
<1>9. ASSUME NEW r \in Requests, LockInvoice(r) PROVE TypeOK'
  <2>1. Invoice(r) \in Invoices
    BY <1>9, InputTypes DEF LockInvoice, Named
  <2> QED
    BY <1>9, <2>1, AnswerTypes DEF LockInvoice, Goto, Return
<1>10. ASSUME NEW r \in Requests, InsertAttempt(r) PROVE TypeOK'
  <2>1. lock' \in [Invoices -> Requests \cup {None}]
    BY <1>10, UnlockEffect DEF InsertAttempt, InsertPending, Goto
  <2> QED
    BY <1>10, <2>1, InsertEffect DEF InsertAttempt, Goto
<1>11. ASSUME NEW r \in Requests, AttemptInProgress(r) PROVE TypeOK'
  BY <1>11, AnswerTypes DEF AttemptInProgress, Unlocked, Return
<1>12. ASSUME NEW r \in Requests, AbortClaim(r) PROVE TypeOK'
  BY <1>12, AnswerTypes DEF AbortClaim, Deadlocked, Unlocked, Return
<1>13. ASSUME NEW r \in Requests, SpawnTask(r) PROVE TypeOK'
  BY <1>13 DEF SpawnTask, Goto
<1>14. ASSUME NEW r \in Requests, AwaitTask(r) PROVE TypeOK'
  BY <1>14, AnswerTypes, PayResultType DEF AwaitTask, Return
<1>15. ASSUME NEW r \in Requests, SyncWaitElapsed(r) PROVE TypeOK'
  BY <1>15, AnswerTypes DEF SyncWaitElapsed, Return
<1>16. ASSUME NEW r \in Requests, StoreAnswer(r) PROVE TypeOK'
  <2>1. idem' \in [Keys -> [hash : Hashes, answer : Answers]]
    BY <1>16, FinalizeEffect DEF StoreAnswer
  <2> QED
    BY <1>16, <2>1 DEF StoreAnswer, Respond
<1>17. ASSUME NEW r \in Requests, PspDecide(r) PROVE TypeOK'
  BY <1>17 DEF PspDecide
<1>18. ASSUME NEW r \in Requests, PspReplies(r) PROVE TypeOK'
  BY <1>18, ReplyIsOutcome DEF PspReplies, GetOutcome
<1>19. ASSUME NEW r \in Requests, PspRequestFails(r) PROVE TypeOK'
  BY <1>19 DEF PspRequestFails, GetOutcome, PspOutcomes
<1>20. ASSUME NEW r \in Requests, UpdateAttempt(r) PROVE TypeOK'
  BY <1>20 DEF UpdateAttempt
<1>21. ASSUME NEW r \in Requests, SettleAttempt(r) PROVE TypeOK'
  BY <1>21, SettleEffect DEF SettleAttempt
<1>22. ASSUME NEW r \in Requests, AbortSettlement(r) PROVE TypeOK'
  BY <1>22 DEF AbortSettlement, Deadlocked
<1>23. ASSUME NEW r \in Requests, HandlerDbError(r) PROVE TypeOK'
  <2>1. lock' \in [Invoices -> Requests \cup {None}]
    BY <1>23 DEF HandlerDbError, Unlocked
  <2> QED
    BY <1>23, <2>1, AnswerTypes DEF HandlerDbError, Respond, Return
<1>24. ASSUME NEW r \in Requests, ReserveUnknown(r) PROVE TypeOK'
  <2>1. [hash |-> Hash(r), answer |-> NoAnswer] \in [hash : Hashes, answer : Answers]
    BY InputTypes, AnswerTypes
  <2> QED
    BY <1>24, <2>1, AnswerTypes DEF ReserveUnknown, InsertRow, Respond
<1>25. ASSUME NEW r \in Requests, ClaimUnknown(r) PROVE TypeOK'
  <2>1. lock' \in [Invoices -> Requests \cup {None}]
    BY <1>25, UnlockEffect DEF ClaimUnknown, InsertPending, Return
  <2> QED
    BY <1>25, <2>1, InsertEffect, AnswerTypes DEF ClaimUnknown, Return
<1>26. ASSUME NEW r \in Requests, StoreUnknown(r) PROVE TypeOK'
  <2>1. idem' \in [Keys -> [hash : Hashes, answer : Answers]]
    BY <1>26, FinalizeEffect DEF StoreUnknown
  <2> QED
    BY <1>26, <2>1, AnswerTypes DEF StoreUnknown, Respond
<1>27. ASSUME NEW r \in Requests, TaskDbError(r) PROVE TypeOK'
  BY <1>27 DEF TaskDbError
<1>28. ASSUME NEW r \in Requests, SettleUnknown(r) PROVE TypeOK'
  BY <1>28, SettleEffect DEF SettleUnknown
<1>29. ASSUME NEW r \in Requests, Disconnect(r) PROVE TypeOK'
  BY <1>29 DEF Disconnect, Goto, Unlocked
<1>30. ASSUME NEW i \in Invoices, CreateInvoice(i) PROVE TypeOK'
  BY <1>30 DEF CreateInvoice, States, Events
<1>31. ASSUME NEW i \in Invoices, FinalizeInvoice(i) PROVE TypeOK'
  BY <1>31 DEF FinalizeInvoice, Transition, States
<1>32. ASSUME NEW i \in Invoices, VoidInvoice(i) PROVE TypeOK'
  BY <1>32 DEF VoidInvoice, Transition, States
<1>33. ASSUME NEW i \in Invoices, MarkUncollectible(i) PROVE TypeOK'
  BY <1>33 DEF MarkUncollectible, Transition, States
<1>34. CASE Crash
  BY <1>34 DEF Crash
<1>35. CASE UNCHANGED vars
  BY <1>35 DEF vars
<1> QED
  BY <1>1, <1>2, <1>3, <1>4, <1>5, <1>6, <1>7, <1>8, <1>9, <1>10, <1>11, <1>12,
     <1>13, <1>14, <1>15, <1>16, <1>17, <1>18, <1>19, <1>20, <1>21, <1>22, <1>23,
     <1>24, <1>25, <1>26, <1>27, <1>28, <1>29, <1>30, <1>31, <1>32, <1>33, <1>34,
     <1>35 DEF Next, HandlerStep, TaskStep, InvoiceStep, FaultStep, Quiescent

-----------------------------------------------------------------------------
(* Control.                                                                *)

Control == Named /\ NotYet /\ OnOwnInvoice /\ Locked /\ InFlight /\ OnePending

\* A claim that commits, known to the handler or not, keeps Control.
LEMMA InsertControl ==
  ASSUME IInv, NEW r \in Requests, pc[r] = "insert", InsertPending(r),
         NEW l \in {"spawn", "store"}, pc' = [pc EXCEPT ![r] = l],
         UNCHANGED <<invoice, input, task, outcome>>
  PROVE  Control'
<1>1. Locked'
  BY UnlockEffect DEF InsertPending
<1>2. Named' /\ NotYet' /\ InFlight'
  BY InsertEffect DEF IInv, TypeOK, Named, NotYet, InFlight, Running, Executing
<1>3. OnOwnInvoice'
  BY InsertEffect DEF IInv, OnOwnInvoice, Invoice
<1>4. OnePending'
  BY InsertEffect DEF IInv, OnePending
<1> QED
  BY <1>1, <1>2, <1>3, <1>4 DEF Control

\* A settlement that commits, known to the task or not, keeps Control.
LEMMA SettleControl ==
  ASSUME IInv, NEW r \in Requests, task[r] = "updated", ApplySettlement(r),
         NEW l \in {"done", "error"}, task' = [task EXCEPT ![r] = l],
         UNCHANGED <<pc, input, lock, outcome>>
  PROVE  Control'
<1>1. Locked'
  BY SettleEffect, InputTypes DEF IInv, Named, Locked, Running, Executing, Invoice
<1>2. Named' /\ NotYet'
  BY SettleEffect DEF IInv, TypeOK, Named, NotYet
<1>6. InFlight'
  BY SettleEffect DEF IInv, TypeOK, InFlight, Working
<1>3. attempts[r] # NoAttempt
  BY SettleEffect DEF NoAttempt
<1>4. OnOwnInvoice'
  BY <1>3, SettleEffect DEF IInv, OnOwnInvoice, Invoice
<1>5. OnePending'
  <2>1. /\ attempts'[r].status # "pending"
        /\ \A s \in Requests \ {r} : attempts'[s] = attempts[s]
    BY SettleEffect
  <2>2. \A s \in Requests : attempts'[s].status = "pending" => attempts'[s] = attempts[s]
    BY <2>1
  <2> QED
    BY <2>2 DEF IInv, OnePending
<1> QED
  BY <1>1, <1>2, <1>4, <1>5, <1>6 DEF Control

\* Every action keeps handlers, tasks, row locks and attempts in step.
LEMMA ControlInductive == IInv /\ [Next]_vars => Control'
<1> SUFFICES ASSUME IInv, [Next]_vars PROVE Control'
  OBVIOUS
<1> USE RowTypes DEF IInv, Control, TypeOK, Named, NotYet, OnOwnInvoice, Locked, InFlight,
        OnePending, tables, handler, worker, Running, Executing, Working, Invoice
<1>1. ASSUME NEW r \in Requests, Arrive(r) PROVE Control'
  BY <1>1 DEF Arrive, Goto, NoInput
<1>2. ASSUME NEW r \in Requests, ArriveMalformed(r) PROVE Control'
  BY <1>2 DEF ArriveMalformed, Respond
<1>3. ASSUME NEW r \in Requests, RejectReusedKey(r) PROVE Control'
  BY <1>3 DEF RejectReusedKey, Respond
<1>4. ASSUME NEW r \in Requests, UseCached(r) PROVE Control'
  BY <1>4 DEF UseCached, Respond
<1>5. ASSUME NEW r \in Requests, PollReserved(r) PROVE Control'
  BY <1>5 DEF PollReserved, NextTurn, Goto, Respond
<1>6. ASSUME NEW r \in Requests, SeeNoRow(r) PROVE Control'
  BY <1>6 DEF SeeNoRow, Goto
<1>7. ASSUME NEW r \in Requests, Reserve(r) PROVE Control'
  BY <1>7 DEF Reserve, Goto
<1>8. ASSUME NEW r \in Requests, LoseReservation(r) PROVE Control'
  BY <1>8 DEF LoseReservation, NextTurn, Goto, Respond
<1>9. ASSUME NEW r \in Requests, LockInvoice(r) PROVE Control'
  BY <1>9, InputTypes DEF LockInvoice, RowFree, CanAcceptPayment, Goto, Return
<1>10. ASSUME NEW r \in Requests, InsertAttempt(r) PROVE Control'
  BY <1>10, InsertControl DEF InsertAttempt, Goto
<1>11. ASSUME NEW r \in Requests, AttemptInProgress(r) PROVE Control'
  <2>1. Locked'
    BY <1>11, UnlockEffect DEF AttemptInProgress, Return
  <2> QED
    BY <1>11, <2>1 DEF AttemptInProgress, Return
<1>12. ASSUME NEW r \in Requests, AbortClaim(r) PROVE Control'
  <2>1. Locked'
    BY <1>12, UnlockEffect DEF AbortClaim, Return
  <2> QED
    BY <1>12, <2>1 DEF AbortClaim, Deadlocked, Return
<1>13. ASSUME NEW r \in Requests, SpawnTask(r) PROVE Control'
  BY <1>13 DEF SpawnTask, Goto
<1>14. ASSUME NEW r \in Requests, AwaitTask(r) PROVE Control'
  BY <1>14 DEF AwaitTask, Return
<1>15. ASSUME NEW r \in Requests, SyncWaitElapsed(r) PROVE Control'
  BY <1>15 DEF SyncWaitElapsed, Return
<1>16. ASSUME NEW r \in Requests, StoreAnswer(r) PROVE Control'
  BY <1>16 DEF StoreAnswer, Respond
<1>17. ASSUME NEW r \in Requests, PspDecide(r) PROVE Control'
  BY <1>17 DEF PspDecide
<1>18. ASSUME NEW r \in Requests, PspReplies(r) PROVE Control'
  <2>1. PICK o \in PspOutcomes : GetOutcome(r, o)
    BY <1>18, ReplyIsOutcome DEF PspReplies
  <2>2. o # NoOutcome
    BY DEF PspOutcomes, Succeeded, Declined, Unavailable, NoOutcome
  <2> QED
    BY <1>18, <2>1, <2>2 DEF PspReplies, GetOutcome
<1>19. ASSUME NEW r \in Requests, PspRequestFails(r) PROVE Control'
  BY <1>19 DEF PspRequestFails, GetOutcome, Unavailable, NoOutcome
<1>20. ASSUME NEW r \in Requests, UpdateAttempt(r) PROVE Control'
  BY <1>20 DEF UpdateAttempt
<1>21. ASSUME NEW r \in Requests, SettleAttempt(r) PROVE Control'
  BY <1>21, SettleControl DEF SettleAttempt
<1>22. ASSUME NEW r \in Requests, AbortSettlement(r) PROVE Control'
  BY <1>22 DEF AbortSettlement, Deadlocked
<1>23. ASSUME NEW r \in Requests, HandlerDbError(r) PROVE Control'
  <2>1. Locked'
    BY <1>23, UnlockEffect DEF HandlerDbError, Respond, Return
  <2> QED
    BY <1>23, <2>1 DEF HandlerDbError, Respond, Return
<1>24. ASSUME NEW r \in Requests, ReserveUnknown(r) PROVE Control'
  BY <1>24 DEF ReserveUnknown, Respond
<1>25. ASSUME NEW r \in Requests, ClaimUnknown(r) PROVE Control'
  BY <1>25, InsertControl DEF ClaimUnknown, Return
<1>26. ASSUME NEW r \in Requests, StoreUnknown(r) PROVE Control'
  BY <1>26 DEF StoreUnknown, Respond
<1>27. ASSUME NEW r \in Requests, TaskDbError(r) PROVE Control'
  BY <1>27 DEF TaskDbError
<1>28. ASSUME NEW r \in Requests, SettleUnknown(r) PROVE Control'
  BY <1>28, SettleControl DEF SettleUnknown
<1>29. ASSUME NEW r \in Requests, Disconnect(r) PROVE Control'
  <2>1. Locked'
    BY <1>29, UnlockEffect DEF Disconnect, Goto
  <2> QED
    BY <1>29, <2>1 DEF Disconnect, Goto
<1>30. ASSUME NEW i \in Invoices, CreateInvoice(i) PROVE Control'
  BY <1>30 DEF CreateInvoice
<1>31. ASSUME NEW i \in Invoices, FinalizeInvoice(i) PROVE Control'
  BY <1>31 DEF FinalizeInvoice, Transition, CanFinalize, RowFree
<1>32. ASSUME NEW i \in Invoices, VoidInvoice(i) PROVE Control'
  BY <1>32 DEF VoidInvoice, Transition, RowFree
<1>33. ASSUME NEW i \in Invoices, MarkUncollectible(i) PROVE Control'
  BY <1>33 DEF MarkUncollectible, Transition, RowFree
<1>34. CASE Crash
  BY <1>34 DEF Crash
<1>35. CASE UNCHANGED vars
  BY <1>35 DEF vars
<1> QED
  BY <1>1, <1>2, <1>3, <1>4, <1>5, <1>6, <1>7, <1>8, <1>9, <1>10, <1>11, <1>12,
     <1>13, <1>14, <1>15, <1>16, <1>17, <1>18, <1>19, <1>20, <1>21, <1>22, <1>23,
     <1>24, <1>25, <1>26, <1>27, <1>28, <1>29, <1>30, <1>31, <1>32, <1>33, <1>34,
     <1>35 DEF Next, HandlerStep, TaskStep, InvoiceStep, FaultStep, Quiescent

\* The initial state.
LEMMA InvInit == Init => IInv
  BY AnswerTypes DEF Init, IInv, TypeOK, Named, NotYet, OnOwnInvoice, Locked, InFlight,
     OnePending, States, NoRow, Hashes, Inputs, Running, Executing, Working, NoAttempt

\* IInv is inductive.
LEMMA InvInductive == IInv /\ [Next]_vars => IInv'
  BY TypeInductive, ControlInductive DEF IInv, Control

\* Payments keeps its types, and reserve_or_get its bound on turns.
THEOREM PaymentsTypes == Spec => []TypeOK
<1>1. IInv => TypeOK
  BY DEF IInv
<1> QED
  BY <1>1, InvInit, InvInductive, PTL DEF Spec

\* The processor is never asked twice concurrently for one invoice, whatever
\* crashes, disconnects, database errors and deadlocks happen.
THEOREM PaymentsNoConcurrentCharges == Spec => []NoConcurrentCharges
<1>1. IInv => NoConcurrentCharges
  <2> SUFFICES ASSUME IInv, NEW r \in Requests, NEW s \in Requests,
                      task[r] \in Working, task[s] \in Working, Invoice(r) = Invoice(s)
               PROVE  r = s
    BY DEF NoConcurrentCharges
  <2>1. attempts[r].status = "pending" /\ attempts[s].status = "pending"
    BY DEF IInv, InFlight
  <2>2. attempts[r].invoice = attempts[s].invoice
    BY <2>1 DEF IInv, OnOwnInvoice, NoAttempt
  <2> QED
    BY <2>1, <2>2 DEF IInv, OnePending
<1> QED
  BY <1>1, InvInit, InvInductive, PTL DEF Spec

-----------------------------------------------------------------------------
(* The tables only change the way PaymentLedger allows.                    *)

\* Payments starts where the ledger starts.
LEMMA LedgerInit == Init => Ledger!Init
  BY DEF Init, Ledger!Init, NoAttempt, Ledger!NoAttempt

\* A claim that commits is a Claim of the ledger: the row lock kept the invoice
\* open and the index kept other attempts out.
LEMMA InsertIsClaim ==
  ASSUME IInv, NEW r \in Requests, pc[r] = "insert", InsertPending(r),
         UNCHANGED <<invoice, outbox>>
  PROVE  Ledger!Next
<1>1. /\ attempts[r] = NoAttempt
      /\ invoice[Invoice(r)] = "open"
      /\ PendingOn(Invoice(r)) = {}
      /\ attempts' = [attempts EXCEPT ![r] = Pending(r)]
  BY DEF IInv, NotYet, Locked, InsertPending
<1>2. Invoice(r) \in Invoices
  BY InsertEffect
<1>3. Ledger!Claim(r, Invoice(r))
  BY <1>1 DEF Ledger!Claim, Ledger!Claimable, Ledger!CanAcceptPayment, Ledger!PendingOn,
              Ledger!NoAttempt, PendingOn, NoAttempt, Pending
<1> QED
  BY <1>2, <1>3 DEF Ledger!Next

\* A settlement that commits is a Settle of the ledger.
LEMMA ApplyIsSettle ==
  ASSUME IInv, NEW r \in Requests, task[r] = "updated", ApplySettlement(r)
  PROVE  Ledger!Next
<1>1. attempts[r].status = "pending" /\ outcome[r] \in PspOutcomes
  BY SettleEffect DEF IInv, TypeOK, InFlight
<1>2. Ledger!Settle(r, outcome[r])
  BY <1>1 DEF Ledger!Settle, ApplySettlement, Ledger!StatusOf, Ledger!FailureCode,
              Ledger!EventOf, Ledger!Pays, StatusOf, FailureCode, EventOf, Pays
<1>3. PspOutcomes = Ledger!PspOutcomes
  BY DEF PspOutcomes, Succeeded, Declined, Unavailable, DeclineCodes, Ledger!PspOutcomes,
         Ledger!Succeeded, Ledger!Declined, Ledger!Unavailable, Ledger!DeclineCodes
<1> QED
  BY <1>1, <1>2, <1>3 DEF Ledger!Next

\* The other handlers' steps are the ledger's own.
LEMMA InvoiceStepIsLedgerStep ==
  ASSUME NEW i \in Invoices, InvoiceStep(i)
  PROVE  Ledger!Next
<1>1. CASE CreateInvoice(i)
  BY <1>1 DEF CreateInvoice, Ledger!Create, Ledger!Next
<1>2. CASE FinalizeInvoice(i) \/ VoidInvoice(i) \/ MarkUncollectible(i)
  <2>1. Ledger!Move(i)
    BY <1>2 DEF FinalizeInvoice, VoidInvoice, MarkUncollectible, Transition, Ledger!Move,
       CanFinalize, CanVoid, CanMarkUncollectible, Ledger!CanFinalize, Ledger!CanVoid,
       Ledger!CanMarkUncollectible
  <2> QED
    BY <2>1 DEF Ledger!Next
<1> QED
  BY <1>1, <1>2 DEF InvoiceStep

\* Every step is a step of the ledger or leaves the tables alone.
LEMMA LedgerStep == IInv /\ [Next]_vars => [Ledger!Next]_Ledger!ledger
<1> SUFFICES ASSUME IInv, [Next]_vars PROVE Ledger!Next \/ UNCHANGED tables
  BY DEF Ledger!ledger, tables
<1> USE DEF tables
<1>1. ASSUME NEW r \in Requests, Arrive(r) \/ ArriveMalformed(r) PROVE UNCHANGED tables
  BY <1>1 DEF Arrive, ArriveMalformed
<1>2. ASSUME NEW r \in Requests, HandlerStep(r) PROVE Ledger!Next \/ UNCHANGED tables
  <2>1. CASE InsertAttempt(r)
    BY <2>1, InsertIsClaim DEF InsertAttempt
  <2>2. CASE \/ RejectReusedKey(r) \/ UseCached(r) \/ PollReserved(r) \/ SeeNoRow(r)
             \/ Reserve(r) \/ LoseReservation(r) \/ LockInvoice(r)
             \/ AttemptInProgress(r) \/ AbortClaim(r) \/ SpawnTask(r) \/ AwaitTask(r)
             \/ SyncWaitElapsed(r) \/ StoreAnswer(r)
    BY <2>2 DEF RejectReusedKey, UseCached, PollReserved, SeeNoRow, Reserve,
       LoseReservation, LockInvoice, AttemptInProgress, AbortClaim, SpawnTask, AwaitTask,
       SyncWaitElapsed, StoreAnswer
  <2> QED
    BY <1>2, <2>1, <2>2 DEF HandlerStep
<1>3. ASSUME NEW r \in Requests, TaskStep(r) PROVE Ledger!Next \/ UNCHANGED tables
  <2>1. CASE SettleAttempt(r)
    BY <2>1, ApplyIsSettle DEF SettleAttempt
  <2>2. CASE PspReplies(r) \/ PspRequestFails(r) \/ UpdateAttempt(r) \/ AbortSettlement(r)
    BY <2>2 DEF PspReplies, PspRequestFails, UpdateAttempt, AbortSettlement
  <2> QED
    BY <1>3, <2>1, <2>2 DEF TaskStep
<1>4. ASSUME NEW r \in Requests, PspDecide(r) PROVE UNCHANGED tables
  BY <1>4 DEF PspDecide
<1>5. ASSUME NEW r \in Requests, FaultStep(r) PROVE Ledger!Next \/ UNCHANGED tables
  <2>1. CASE ClaimUnknown(r)
    BY <2>1, InsertIsClaim DEF ClaimUnknown
  <2>2. CASE SettleUnknown(r)
    BY <2>2, ApplyIsSettle DEF SettleUnknown
  <2>3. CASE \/ HandlerDbError(r) \/ ReserveUnknown(r) \/ StoreUnknown(r)
             \/ TaskDbError(r) \/ Disconnect(r)
    BY <2>3 DEF HandlerDbError, ReserveUnknown, StoreUnknown, TaskDbError, Disconnect
  <2> QED
    BY <1>5, <2>1, <2>2, <2>3 DEF FaultStep
<1>6. CASE Crash \/ Quiescent \/ UNCHANGED vars
  BY <1>6 DEF Crash, Quiescent, vars
<1> QED
  BY <1>1, <1>2, <1>3, <1>4, <1>5, <1>6, InvoiceStepIsLedgerStep DEF Next

\* The row lock, the partial unique index and the status-conditional updates
\* make claiming and settling indivisible under every interleaving, crash,
\* disconnect, database error and deadlock.
THEOREM PaymentsImplementLedger == Spec => ImplementsLedger
  BY LedgerInit, LedgerStep, InvInit, InvInductive, PTL
     DEF Spec, ImplementsLedger, Ledger!Spec

-----------------------------------------------------------------------------
(* One Idempotency-Key, one owner.                                         *)

\* The request that got Proceed from reserve_or_get and is still at work, or
\* that has left a payment attempt behind.
Owner(r) == pc[r] \in Executing \/ attempts[r] # NoAttempt

\* An owner's key has a row, a key has one owner, the row of an owner still at
\* work has no response yet, and only an existing row has a response.
KeyInv ==
  /\ \A r \in Requests : Owner(r) => Key(r) \in Keys /\ idem[Key(r)].hash # NoHash
  /\ \A r, s \in Requests : (Owner(r) /\ Owner(s) /\ Key(r) = Key(s)) => r = s
  /\ \A r \in Requests : pc[r] \in Executing => idem[Key(r)].answer = NoAnswer
  /\ \A k \in Keys : idem[k].answer # NoAnswer => idem[k].hash # NoHash

\* A step that creates no owner and writes no key.
Quiet == /\ idem' = idem
         /\ \A r \in Requests : /\ pc'[r] \in Executing => pc[r] \in Executing
                                /\ attempts'[r] # NoAttempt => Owner(r)
                                /\ Owner(r) => input'[r] = input[r]

\* A quiet step keeps KeyInv.
LEMMA QuietKeepsKeys == KeyInv /\ Quiet => KeyInv'
  BY DEF KeyInv, Quiet, Owner, Key

\* Reserving an absent key makes its only owner.
LEMMA ReserveKeepsKeys ==
  ASSUME IInv, KeyInv, NEW r \in Requests, pc[r] = "reserve", Absent(Key(r)),
         InsertRow(Key(r), Hash(r)), NEW l \in {"claim", "done"},
         pc' = [pc EXCEPT ![r] = l], UNCHANGED <<attempts, input>>
  PROVE  KeyInv'
<1>1. Key(r) \in Keys /\ Hash(r) # NoHash
  BY InputTypes DEF IInv, Named, Running
<1>2. /\ idem'[Key(r)].hash # NoHash /\ idem'[Key(r)].answer = NoAnswer
      /\ \A k \in Keys \ {Key(r)} : idem'[k] = idem[k]
  BY <1>1 DEF InsertRow, IInv, TypeOK
<1>3. \A s \in Requests : Owner(s) => Key(s) # Key(r)
  BY DEF KeyInv, Absent
<1>4. \A s \in Requests : Owner(s)' => s = r \/ Owner(s)
  BY DEF IInv, TypeOK, Owner
<1>5. Key(r)' = Key(r) /\ \A s \in Requests : Key(s)' = Key(s)
  BY DEF Key
<1>6. \A s \in Requests : pc'[s] \in Executing => s = r \/ pc[s] \in Executing
  BY DEF IInv, TypeOK
<1> QED
  BY <1>1, <1>2, <1>3, <1>4, <1>5, <1>6 DEF KeyInv, Owner

\* Storing the answer ends the work on the key.
LEMMA StoreKeepsKeys ==
  ASSUME IInv, KeyInv, NEW r \in Requests, pc[r] = "store",
         Finalize(Key(r), answer[r]), pc' = [pc EXCEPT ![r] = "done"],
         UNCHANGED <<attempts, input>>
  PROVE  KeyInv'
<1>1. Owner(r) /\ Key(r) \in Keys /\ idem[Key(r)].hash # NoHash
  BY DEF Owner, Executing, KeyInv
<1>2. /\ idem'[Key(r)].hash = idem[Key(r)].hash
      /\ \A k \in Keys \ {Key(r)} : idem'[k] = idem[k]
  BY <1>1 DEF Finalize, IInv, TypeOK
<1>3. \A s \in Requests : /\ Owner(s)' => Owner(s)
                          /\ pc'[s] \in Executing => s # r /\ pc[s] \in Executing
                          /\ Key(s)' = Key(s)
  BY DEF IInv, TypeOK, Owner, Key, Executing
<1>4. \A s \in Requests : pc'[s] \in Executing => Key(s) # Key(r)
  BY <1>1, <1>3 DEF KeyInv, Owner
<1>5. \A k \in Keys : idem[k].hash # NoHash => idem'[k].hash # NoHash
  BY <1>1, <1>2
<1>6. \A s \in Requests : pc'[s] \in Executing => idem'[Key(s)].answer = NoAnswer
  BY <1>2, <1>3, <1>4 DEF KeyInv, Owner
<1>7. \A k \in Keys : idem'[k].answer # NoAnswer => idem'[k].hash # NoHash
  BY <1>1, <1>2 DEF KeyInv
<1> QED
  BY <1>3, <1>5, <1>6, <1>7 DEF KeyInv

\* All other steps are quiet.
LEMMA OtherStepsAreQuiet ==
  ASSUME IInv, [Next]_vars,
         ~\E r \in Requests : \/ Reserve(r) \/ ReserveUnknown(r)
                              \/ StoreAnswer(r) \/ StoreUnknown(r)
  PROVE  Quiet
<1> USE DEF Quiet, IInv, TypeOK, NotYet, Owner, Executing, Running, tables, handler, worker
<1>1. ASSUME NEW r \in Requests,
             \/ Arrive(r) \/ ArriveMalformed(r) \/ RejectReusedKey(r) \/ UseCached(r)
             \/ PollReserved(r) \/ SeeNoRow(r) \/ LoseReservation(r)
      PROVE  Quiet
  BY <1>1 DEF Arrive, ArriveMalformed, RejectReusedKey, UseCached, PollReserved,
     SeeNoRow, LoseReservation, NextTurn, Goto, Respond
<1>2. ASSUME NEW r \in Requests,
             \/ LockInvoice(r) \/ AttemptInProgress(r) \/ AbortClaim(r) \/ SpawnTask(r)
             \/ AwaitTask(r) \/ SyncWaitElapsed(r) \/ HandlerDbError(r) \/ Disconnect(r)
      PROVE  Quiet
  BY <1>2 DEF LockInvoice, AttemptInProgress, AbortClaim, Deadlocked, SpawnTask,
     AwaitTask, SyncWaitElapsed, HandlerDbError, Disconnect, Goto, Return, Respond
<1>3. ASSUME NEW r \in Requests, InsertAttempt(r) \/ ClaimUnknown(r) PROVE Quiet
  BY <1>3 DEF InsertAttempt, ClaimUnknown, InsertPending, Goto, Return
<1>4. ASSUME NEW r \in Requests,
             \/ PspDecide(r) \/ PspReplies(r) \/ PspRequestFails(r) \/ UpdateAttempt(r)
             \/ AbortSettlement(r) \/ TaskDbError(r)
      PROVE  Quiet
  BY <1>4 DEF PspDecide, PspReplies, PspRequestFails, UpdateAttempt, AbortSettlement,
     TaskDbError
<1>5. ASSUME NEW r \in Requests, SettleAttempt(r) \/ SettleUnknown(r) PROVE Quiet
  BY <1>5, SettleEffect DEF SettleAttempt, SettleUnknown, NoAttempt
<1>6. ASSUME NEW i \in Invoices, InvoiceStep(i) PROVE Quiet
  BY <1>6 DEF InvoiceStep, CreateInvoice, FinalizeInvoice, VoidInvoice,
     MarkUncollectible, Transition
<1>7. CASE Crash
  BY <1>7 DEF Crash
<1>8. CASE Quiescent \/ UNCHANGED vars
  BY <1>8 DEF Quiescent, vars
<1> QED
  BY <1>1, <1>2, <1>3, <1>4, <1>5, <1>6, <1>7, <1>8
     DEF Next, HandlerStep, TaskStep, FaultStep

-----------------------------------------------------------------------------
(* The theorems.                                                           *)

\* Initially no key has an owner.
LEMMA KeyInit == Init => KeyInv
  BY DEF Init, KeyInv, Owner, Executing, NoRow

\* KeyInv is inductive relative to IInv.
LEMMA KeyInductive == IInv /\ KeyInv /\ [Next]_vars => KeyInv'
<1> SUFFICES ASSUME IInv, KeyInv, [Next]_vars PROVE KeyInv'
  OBVIOUS
<1> USE DEF tables
<1>1. ASSUME NEW r \in Requests, Reserve(r) PROVE KeyInv'
  BY <1>1, ReserveKeepsKeys DEF Reserve, Goto
<1>2. ASSUME NEW r \in Requests, ReserveUnknown(r) PROVE KeyInv'
  BY <1>2, ReserveKeepsKeys DEF ReserveUnknown, Respond
<1>3. ASSUME NEW r \in Requests, StoreAnswer(r) PROVE KeyInv'
  BY <1>3, StoreKeepsKeys DEF StoreAnswer, Respond
<1>4. ASSUME NEW r \in Requests, StoreUnknown(r) PROVE KeyInv'
  BY <1>4, StoreKeepsKeys DEF StoreUnknown, Respond
<1> QED
  BY <1>1, <1>2, <1>3, <1>4, OtherStepsAreQuiet, QuietKeepsKeys

\* Requests that share a key make at most one payment attempt, for any number of
\* requests and keys and under every fault.
THEOREM PaymentsOneAttemptPerKey == Spec => []OneAttemptPerKey
<1>1. KeyInv => OneAttemptPerKey
  BY DEF KeyInv, OneAttemptPerKey, Owner
<1> QED
  BY <1>1, InvInit, InvInductive, KeyInit, KeyInductive, PTL DEF Spec

\* What StoredAnswerFrozen says of one step.
Frozen == \A k \in Keys : /\ idem[k].hash # NoHash => idem'[k].hash = idem[k].hash
                          /\ idem[k].answer # NoAnswer => idem'[k] = idem[k]

\* No step overwrites a response or changes a hash.
LEMMA FrozenStep == IInv /\ KeyInv /\ [Next]_vars => Frozen
<1> SUFFICES ASSUME IInv, KeyInv, [Next]_vars PROVE Frozen
  OBVIOUS
<1>1. ASSUME NEW r \in Requests, Reserve(r) \/ ReserveUnknown(r) PROVE Frozen
  BY <1>1 DEF Reserve, ReserveUnknown, IInv, TypeOK, KeyInv, Absent, InsertRow, Frozen
<1>2. ASSUME NEW r \in Requests, StoreAnswer(r) \/ StoreUnknown(r) PROVE Frozen
  BY <1>2 DEF StoreAnswer, StoreUnknown, IInv, TypeOK, KeyInv, Executing, Finalize, Frozen
<1>3. CASE Quiet
  BY <1>3 DEF Quiet, Frozen
<1> QED
  BY <1>1, <1>2, <1>3, OtherStepsAreQuiet

\* A stored response is never overwritten and a reserved key keeps its hash.
THEOREM PaymentsStoredAnswerFrozen == Spec => StoredAnswerFrozen
<1>1. IInv /\ KeyInv /\ [Next]_vars => [Frozen]_vars
  BY FrozenStep
<1>2. StoredAnswerFrozen <=> [][Frozen]_vars
  BY PTL DEF StoredAnswerFrozen, Frozen
<1> QED
  BY <1>1, <1>2, InvInit, InvInductive, KeyInit, KeyInductive, PTL DEF Spec
=============================================================================
