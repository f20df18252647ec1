------------------------ MODULE PaymentsAnswerProofs ------------------------
(***************************************************************************)
(* What clients are told: the answers are true of the attempts and of the  *)
(* card processor, a replay is verbatim, a card is charged twice only when *)
(* the processor could not be heard, and without faults no key is left     *)
(* behind.                                                                 *)
(***************************************************************************)
EXTENDS PaymentsProofs

-----------------------------------------------------------------------------
(* The inductive invariants, relative to IInv and KeyInv.                  *)

\* The handler has not sent anything to the processor.
BeforeSpawn == {"idle", "lookup", "reserve", "claim", "insert", "spawn"}

\* A settled attempt.
Settled(r) == attempts[r].status \in {"succeeded", "failed"}

\* What the tables and the task know of the charge of r is what the processor
\* did: a charge belongs to an attempt, an outcome other than Unavailable is the
\* processor's word, and a settled row is the outcome.
ChargeKnown(r) ==
  /\ psp[r] # "none" => attempts[r] # NoAttempt
  /\ pc[r] \in BeforeSpawn => psp[r] = "none" /\ outcome[r] = NoOutcome
  /\ psp[r] = "charged" => Approved(input[r].token)
  /\ psp[r] = "refused" => ~Approved(input[r].token)
  /\ outcome[r].kind = "Succeeded" => psp[r] = "charged"
  /\ outcome[r].kind = "Declined" => psp[r] = "refused"
  /\ Settled(r) => /\ outcome[r] # NoOutcome
                   /\ attempts[r].status = StatusOf(outcome[r])
                   /\ attempts[r].failure_code = FailureCode(outcome[r])
  /\ task[r] = "done" => Settled(r)
Charges == \A r \in Requests : ChargeKnown(r)

\* An answer says what is so and stays so.
IsTrue(x) ==
  /\ x.status = 200 =>
       /\ x.attempt \in Requests
       /\ \/ /\ x.code = "succeeded"
             /\ attempts[x.attempt].status = "succeeded" /\ psp[x.attempt] = "charged"
          \/ /\ x.code # "succeeded"
             /\ attempts[x.attempt].status = "failed" /\ attempts[x.attempt].failure_code = x.code
             /\ x.code # "psp_unavailable" => psp[x.attempt] = "refused"
  /\ x.status = 202 => x.attempt \in Requests /\ attempts[x.attempt] # NoAttempt

\* Who was turned away made no attempt.
TurnedAway(r) ==
  (pc[r] \in {"store", "done"} /\ answer[r].status \in {400, 404, 409, 422}) =>
    attempts[r] = NoAttempt

\* That holds of every answer given or stored.
Told == /\ \A r \in Requests : IsTrue(answer[r]) /\ TurnedAway(r)
        /\ \A k \in Keys : IsTrue(idem[k].answer)

\* A final answer is the one stored under its key, with the hash of its request;
\* the row of an owner at work has that hash already.
Replayed ==
  /\ \A r \in Requests : pc[r] \in Executing => idem[Key(r)].hash = Hash(r)
  /\ \A r \in Requests : (pc[r] = "done" /\ Final(answer[r])) =>
       /\ Key(r) \in Keys
       /\ idem[Key(r)].hash = Hash(r) /\ idem[Key(r)].answer = answer[r]

\* What is about to be stored is an answer.
Owned == /\ ReservedKeyHasOwner
         /\ \A r \in Requests : pc[r] = "store" => answer[r] # NoAnswer

-----------------------------------------------------------------------------
(* What is known of the charges.                                           *)

\* Nothing changes for a request whose rows, charge and outcome are left alone.
LEMMA ChargeStays ==
  ASSUME NEW r \in Requests, ChargeKnown(r), attempts'[r] = attempts[r], input'[r] = input[r],
         psp'[r] = psp[r], outcome'[r] = outcome[r],
         task'[r] = "done" => task[r] = "done",
         pc'[r] \in BeforeSpawn => pc[r] \in BeforeSpawn
  PROVE  ChargeKnown(r)'
  BY DEF ChargeKnown, Settled

\* The processor's word: Succeeded for a charged card, Declined for a refused one.
LEMMA ReplyIsTrue ==
  ASSUME NEW t, NEW readable \in BOOLEAN
  PROVE  /\ Outcome(MockCharge(t), readable).kind = "Succeeded" => Approved(t)
         /\ Outcome(MockCharge(t), readable).kind = "Declined" => ~Approved(t)
<1>1. MockCharge(t) \in
        {[http |-> "2xx", body |-> "psp_ref"],
         [http |-> "2xx", body |-> "insufficient_funds"],
         [http |-> "2xx", body |-> "card_declined"],
         [http |-> "5xx", body |-> "simulated_network_error"],
         [http |-> "4xx", body |-> "invalid_token"]}
  BY DEF MockCharge
<1> QED
  BY <1>1 DEF Outcome, Approved, Succeeded, Declined, Unavailable

\* A settlement writes the outcome the task got.
LEMMA SettledAsKnown ==
  ASSUME IInv, NEW r \in Requests, task[r] = "updated", ApplySettlement(r)
  PROVE  /\ attempts'[r].status = StatusOf(outcome[r])
         /\ attempts'[r].failure_code = FailureCode(outcome[r])
         /\ attempts'[r].status \in {"succeeded", "failed"} /\ attempts'[r] # NoAttempt
         /\ outcome[r] # NoOutcome /\ attempts[r] # NoAttempt
         /\ \A s \in Requests \ {r} : attempts'[s] = attempts[s]
<1>1. attempts[r].status = "pending" /\ outcome[r] # NoOutcome
  BY DEF IInv, InFlight, Working
<1>2. attempts[r] \in Rows /\ attempts[r] # NoAttempt
  BY <1>1, RowTypes DEF IInv, NoAttempt
<1>3. attempts'[r] = [attempts[r] EXCEPT !.status = StatusOf(outcome[r]),
                                         !.failure_code = FailureCode(outcome[r])]
  BY DEF ApplySettlement, IInv, TypeOK
<1>4. /\ attempts'[r].status = StatusOf(outcome[r])
      /\ attempts'[r].failure_code = FailureCode(outcome[r])
  BY <1>2, <1>3 DEF Rows
<1> QED
  BY <1>1, <1>2, <1>4, SettleEffect DEF NoAttempt

\* Initially nothing was charged.
LEMMA ChargesInit == Init => Charges
  BY DEF Init, Charges, ChargeKnown, Settled, NoAttempt, NoOutcome

\* Charges is inductive relative to IInv.
LEMMA ChargesInductive == IInv /\ Charges /\ [Next]_vars => Charges'
<1> SUFFICES ASSUME IInv, Charges, [Next]_vars PROVE Charges'
  OBVIOUS
<1> USE DEF tables, handler, worker
<1>0. TypeOK /\ \A s \in Requests : ChargeKnown(s)
  BY DEF IInv, Charges
<1>1. ASSUME NEW r \in Requests, ChargeKnown(r)',
             \A s \in Requests \ {r} :
               /\ attempts'[s] = attempts[s] /\ input'[s] = input[s] /\ psp'[s] = psp[s]
               /\ outcome'[s] = outcome[s] /\ task'[s] = task[s] /\ pc'[s] = pc[s]
      PROVE  Charges'
  BY <1>0, <1>1, ChargeStays DEF Charges
<1>2. ASSUME UNCHANGED <<attempts, input, psp, outcome>>,
             \A s \in Requests : /\ task'[s] = "done" => task[s] = "done"
                                 /\ pc'[s] \in BeforeSpawn => pc[s] \in BeforeSpawn
      PROVE  Charges'
  BY <1>0, <1>2, ChargeStays DEF Charges
<1>3. ASSUME NEW r \in Requests, Arrive(r) PROVE Charges'
  <2>1. /\ pc[r] = "idle" /\ pc' = [pc EXCEPT ![r] = "lookup"]
        /\ UNCHANGED <<attempts, psp, outcome, task>>
        /\ \A s \in Requests \ {r} : input'[s] = input[s]
    BY <1>0, <1>3 DEF Arrive, Goto, TypeOK
  <2>2. ChargeKnown(r)'
    BY <1>0, <2>1 DEF ChargeKnown, BeforeSpawn, Settled, TypeOK
  <2> QED
    BY <1>0, <1>1, <2>1, <2>2 DEF TypeOK
<1>4. ASSUME NEW r \in Requests,
             \/ ArriveMalformed(r) \/ RejectReusedKey(r) \/ UseCached(r) \/ PollReserved(r)
             \/ SeeNoRow(r) \/ Reserve(r) \/ LoseReservation(r) \/ LockInvoice(r)
             \/ AttemptInProgress(r) \/ AbortClaim(r)
      PROVE  Charges'
  BY <1>0, <1>2, <1>4
     DEF ArriveMalformed, RejectReusedKey, UseCached, PollReserved, SeeNoRow, Reserve,
         LoseReservation, NextTurn, LockInvoice, AttemptInProgress, AbortClaim, Deadlocked, Goto,
         Respond, Return, TypeOK, BeforeSpawn
<1>5. ASSUME NEW r \in Requests,
             \/ AwaitTask(r) \/ SyncWaitElapsed(r) \/ StoreAnswer(r) \/ HandlerDbError(r)
             \/ ReserveUnknown(r) \/ StoreUnknown(r) \/ Disconnect(r)
      PROVE  Charges'
  BY <1>0, <1>2, <1>5
     DEF AwaitTask, SyncWaitElapsed, StoreAnswer, HandlerDbError, ReserveUnknown, StoreUnknown,
         Disconnect, Goto, Respond, Return, TypeOK, BeforeSpawn
<1>6. ASSUME NEW r \in Requests, InsertAttempt(r) \/ ClaimUnknown(r) PROVE Charges'
  <2>1. /\ pc[r] = "insert" /\ InsertPending(r) /\ UNCHANGED <<input, psp, outcome, task>>
        /\ pc' = [pc EXCEPT ![r] = "spawn"] \/ pc' = [pc EXCEPT ![r] = "store"]
    BY <1>6 DEF InsertAttempt, ClaimUnknown, Goto, Return
  <2>2. /\ attempts'[r] # NoAttempt /\ attempts'[r].status = "pending"
        /\ \A s \in Requests \ {r} : attempts'[s] = attempts[s]
    BY <2>1, InsertEffect
  <2>3. psp[r] = "none" /\ outcome[r] = NoOutcome /\ task[r] = "none"
    BY <1>0, <2>1 DEF ChargeKnown, BeforeSpawn, IInv, NotYet
  <2>4. ChargeKnown(r)'
    BY <2>1, <2>2, <2>3 DEF ChargeKnown, Settled, NoOutcome
  <2> QED
    BY <1>0, <1>1, <2>1, <2>2, <2>4 DEF TypeOK
<1>7. ASSUME NEW r \in Requests, SpawnTask(r) PROVE Charges'
  <2>1. /\ pc[r] = "spawn" /\ pc' = [pc EXCEPT ![r] = "wait"]
        /\ task' = [task EXCEPT ![r] = "charging"] /\ psp' = [psp EXCEPT ![r] = "sent"]
        /\ UNCHANGED <<attempts, input, outcome>>
    BY <1>7 DEF SpawnTask, Goto
  <2>2. outcome[r] = NoOutcome /\ attempts[r].status = "pending"
    BY <1>0, <2>1 DEF ChargeKnown, BeforeSpawn, IInv, NotYet
  <2>3. ChargeKnown(r)'
    BY <1>0, <2>1, <2>2 DEF ChargeKnown, Settled, NoOutcome, NoAttempt, BeforeSpawn, TypeOK
  <2> QED
    BY <1>0, <1>1, <2>1, <2>3 DEF TypeOK
<1>8. ASSUME NEW r \in Requests, PspDecide(r) PROVE Charges'
  <2>1. /\ psp[r] = "sent" /\ UNCHANGED <<attempts, input, outcome, pc, task>>
        /\ psp' = [psp EXCEPT ![r] = IF Approved(input[r].token) THEN "charged" ELSE "refused"]
    BY <1>8 DEF PspDecide
  <2>2. ChargeKnown(r)'
    BY <1>0, <2>1 DEF ChargeKnown, Settled, TypeOK
  <2> QED
    BY <1>0, <1>1, <2>1, <2>2 DEF TypeOK
<1>9. ASSUME NEW r \in Requests, PspReplies(r) \/ PspRequestFails(r) PROVE Charges'
  <2>1. /\ task[r] = "charging" /\ UNCHANGED <<attempts, input, psp, pc>>
        /\ task' = [task EXCEPT ![r] = "settle"]
        /\ \A s \in Requests \ {r} : outcome'[s] = outcome[s]
    BY <1>0, <1>9 DEF PspReplies, PspRequestFails, GetOutcome, TypeOK
  <2>2. /\ outcome'[r].kind = "Succeeded" => psp[r] = "charged"
        /\ outcome'[r].kind = "Declined" => psp[r] = "refused"
    <3>1. CASE PspReplies(r)
      <4>1. PICK readable \in BOOLEAN :
              outcome'[r] = Outcome(MockCharge(input[r].token), readable)
        BY <1>0, <3>1 DEF PspReplies, GetOutcome, TypeOK
      <4>2. /\ outcome'[r].kind = "Succeeded" => Approved(input[r].token)
            /\ outcome'[r].kind = "Declined" => ~Approved(input[r].token)
        BY <4>1, ReplyIsTrue
      <4>3. psp[r] \in {"charged", "refused"}
        BY <3>1 DEF PspReplies
      <4> QED
        BY <1>0, <4>2, <4>3 DEF ChargeKnown
    <3>2. CASE PspRequestFails(r)
      BY <1>0, <3>2 DEF PspRequestFails, GetOutcome, Unavailable, TypeOK
    <3> QED
      BY <1>9, <3>1, <3>2
  <2>3. attempts[r].status = "pending" /\ pc[r] \notin BeforeSpawn
    BY <2>1 DEF IInv, InFlight, Working, NotYet, BeforeSpawn
  <2>4. ChargeKnown(r)'
    BY <1>0, <2>1, <2>2, <2>3 DEF ChargeKnown, Settled, TypeOK
  <2> QED
    BY <1>0, <1>1, <2>1, <2>4 DEF TypeOK
<1>10. ASSUME NEW r \in Requests, UpdateAttempt(r) \/ AbortSettlement(r) \/ TaskDbError(r)
       PROVE  Charges'
  BY <1>0, <1>2, <1>10 DEF UpdateAttempt, AbortSettlement, TaskDbError, TypeOK
<1>11. ASSUME NEW r \in Requests, SettleAttempt(r) \/ SettleUnknown(r) PROVE Charges'
  <2>1. /\ task[r] = "updated" /\ ApplySettlement(r) /\ UNCHANGED <<input, psp, outcome, pc>>
        /\ task' = [task EXCEPT ![r] = "done"] \/ task' = [task EXCEPT ![r] = "error"]
    BY <1>11 DEF SettleAttempt, SettleUnknown
  <2>2. ChargeKnown(r)'
    BY <1>0, <2>1, SettledAsKnown DEF ChargeKnown, Settled, TypeOK
  <2> QED
    BY <1>0, <1>1, <2>1, <2>2, SettledAsKnown DEF TypeOK
<1>12. ASSUME NEW i \in Invoices, InvoiceStep(i) PROVE Charges'
  BY <1>2, <1>12 DEF InvoiceStep, CreateInvoice, FinalizeInvoice, VoidInvoice, MarkUncollectible,
                     Transition
<1>13. CASE Crash
  BY <1>2, <1>13 DEF Crash, BeforeSpawn
<1>14. CASE Quiescent \/ UNCHANGED vars
  BY <1>2, <1>14 DEF Quiescent, vars
<1> QED
  BY <1>3, <1>4, <1>5, <1>6, <1>7, <1>8, <1>9, <1>10, <1>11, <1>12, <1>13, <1>14
     DEF Next, HandlerStep, TaskStep, FaultStep

-----------------------------------------------------------------------------
(* What clients are told.                                                  *)

\* IsTrue of an answer in the next state.
WillBeTrue(x) ==
  /\ x.status = 200 =>
       /\ x.attempt \in Requests
       /\ \/ /\ x.code = "succeeded"
             /\ attempts'[x.attempt].status = "succeeded" /\ psp'[x.attempt] = "charged"
          \/ /\ x.code # "succeeded"
             /\ attempts'[x.attempt].status = "failed"
             /\ attempts'[x.attempt].failure_code = x.code
             /\ x.code # "psp_unavailable" => psp'[x.attempt] = "refused"
  /\ x.status = 202 => x.attempt \in Requests /\ attempts'[x.attempt] # NoAttempt

\* A settled attempt, an attempt and the processor's decision are there for good.
LEMMA FactsLast ==
  ASSUME IInv, Charges, [Next]_vars, NEW a \in Requests
  PROVE  /\ Settled(a) => attempts'[a] = attempts[a]
         /\ attempts[a] # NoAttempt => attempts'[a] # NoAttempt
         /\ psp[a] \in {"charged", "refused"} => psp'[a] = psp[a]
<1> USE DEF tables, handler, worker
<1>0. TypeOK /\ ChargeKnown(a)
  BY DEF IInv, Charges
<1> DEFINE Written == UNCHANGED attempts \/ \E r \in Requests :
                        \/ pc[r] = "insert" /\ InsertPending(r)
                        \/ task[r] = "updated" /\ ApplySettlement(r)
           Decided == UNCHANGED psp \/ \E r \in Requests :
                        \/ pc[r] = "spawn" /\ psp' = [psp EXCEPT ![r] = "sent"]
                        \/ psp[r] = "sent" /\ \A s \in Requests \ {r} : psp'[s] = psp[s]
<1>1. Written
  <2>1. ASSUME NEW r \in Requests, HandlerStep(r) PROVE Written
    BY <2>1 DEF HandlerStep, RejectReusedKey, UseCached, PollReserved, SeeNoRow, Reserve,
                   LoseReservation, LockInvoice, InsertAttempt, AttemptInProgress, AbortClaim,
                   SpawnTask, AwaitTask, SyncWaitElapsed, StoreAnswer
  <2>2. ASSUME NEW r \in Requests, TaskStep(r) \/ PspDecide(r) PROVE Written
    BY <2>2 DEF TaskStep, PspReplies, PspRequestFails, UpdateAttempt, SettleAttempt,
                   AbortSettlement, PspDecide
  <2>3. ASSUME NEW r \in Requests, FaultStep(r) PROVE Written
    BY <2>3 DEF FaultStep, HandlerDbError, ReserveUnknown, ClaimUnknown, StoreUnknown,
                   TaskDbError, SettleUnknown, Disconnect
  <2>4. ASSUME NEW r \in Requests, Arrive(r) \/ ArriveMalformed(r) PROVE Written
    BY <2>4 DEF Arrive, ArriveMalformed
  <2>5. ASSUME NEW i \in Invoices, InvoiceStep(i) PROVE Written
    BY <2>5 DEF InvoiceStep, CreateInvoice, FinalizeInvoice, VoidInvoice, MarkUncollectible,
                Transition
  <2>6. CASE Crash \/ Quiescent \/ UNCHANGED vars
    BY <2>6 DEF Crash, Quiescent, vars
  <2> QED
    BY <2>1, <2>2, <2>3, <2>4, <2>5, <2>6 DEF Next
<1>2. Decided
  <2>1. ASSUME NEW r \in Requests, HandlerStep(r) PROVE Decided
    BY <1>0, <2>1 DEF HandlerStep, RejectReusedKey, UseCached, PollReserved, SeeNoRow, Reserve,
                   LoseReservation, LockInvoice, InsertAttempt, AttemptInProgress, AbortClaim,
                   SpawnTask, AwaitTask, SyncWaitElapsed, StoreAnswer
  <2>2. ASSUME NEW r \in Requests, TaskStep(r) \/ PspDecide(r) PROVE Decided
    BY <1>0, <2>2 DEF TaskStep, PspReplies, PspRequestFails, UpdateAttempt, SettleAttempt,
                   AbortSettlement, PspDecide, TypeOK
  <2>3. ASSUME NEW r \in Requests, FaultStep(r) PROVE Decided
    BY <1>0, <2>3 DEF FaultStep, HandlerDbError, ReserveUnknown, ClaimUnknown, StoreUnknown,
                   TaskDbError, SettleUnknown, Disconnect
  <2>4. ASSUME NEW r \in Requests, Arrive(r) \/ ArriveMalformed(r) PROVE Decided
    BY <2>4 DEF Arrive, ArriveMalformed
  <2>5. ASSUME NEW i \in Invoices, InvoiceStep(i) PROVE Decided
    BY <2>5 DEF InvoiceStep, CreateInvoice, FinalizeInvoice, VoidInvoice, MarkUncollectible,
                Transition
  <2>6. CASE Crash \/ Quiescent \/ UNCHANGED vars
    BY <2>6 DEF Crash, Quiescent, vars
  <2> QED
    BY <2>1, <2>2, <2>3, <2>4, <2>5, <2>6 DEF Next
<1>3. /\ (Settled(a) => attempts'[a] = attempts[a])
      /\ (attempts[a] # NoAttempt => attempts'[a] # NoAttempt)
  <2>1. CASE UNCHANGED attempts
    BY <2>1
  <2>2. ASSUME NEW r \in Requests, pc[r] = "insert", InsertPending(r)
        PROVE  /\ (Settled(a) => attempts'[a] = attempts[a])
               /\ (attempts[a] # NoAttempt => attempts'[a] # NoAttempt)
    <3>1. attempts[r] = NoAttempt
      BY <2>2 DEF IInv, NotYet
    <3> QED
      BY <2>2, <3>1, InsertEffect DEF Settled, NoAttempt
  <2>3. ASSUME NEW r \in Requests, task[r] = "updated", ApplySettlement(r)
        PROVE  /\ (Settled(a) => attempts'[a] = attempts[a])
               /\ (attempts[a] # NoAttempt => attempts'[a] # NoAttempt)
    BY <2>3, SettleEffect, SettledAsKnown DEF Settled
  <2> QED
    BY <1>1, <2>1, <2>2, <2>3
<1>4. psp[a] \in {"charged", "refused"} => psp'[a] = psp[a]
  <2>1. ASSUME NEW r \in Requests, pc[r] = "spawn", psp' = [psp EXCEPT ![r] = "sent"]
        PROVE  psp[a] \in {"charged", "refused"} => psp'[a] = psp[a]
    BY <1>0, <2>1 DEF ChargeKnown, BeforeSpawn, TypeOK
  <2> QED
    BY <1>2, <2>1
<1> QED
  BY <1>3, <1>4

\* What is true stays true.
LEMMA TruthLasts ==
  ASSUME IInv, Charges, [Next]_vars, NEW x, IsTrue(x)
  PROVE  WillBeTrue(x)
  BY FactsLast DEF IsTrue, WillBeTrue, Settled

\* An answer other than 200 and 202 says nothing that could be false.
LEMMA ErrorsAreTrue ==
  /\ IsTrue(NoAnswer) /\ IsTrue(InternalError)
  /\ \A n \in {400, 404, 409, 422, 500} : \A c : IsTrue(Error(n, c))
  /\ \A i : IsTrue(Refusal(i))
  BY DEF IsTrue, NoAnswer, InternalError, Error, Refusal

\* The result of an attempt that was settled is true.
LEMMA ResultIsTrue ==
  ASSUME IInv, Charges, NEW r \in Requests, task[r] = "done"
  PROVE  IsTrue(PayResult(r)) /\ PayResult(r).status = 200
<1>1. /\ attempts[r].status \in {"succeeded", "failed"} /\ outcome[r] # NoOutcome
      /\ attempts[r].status = StatusOf(outcome[r])
      /\ attempts[r].failure_code = FailureCode(outcome[r])
      /\ outcome[r].kind = "Succeeded" => psp[r] = "charged"
      /\ outcome[r].kind = "Declined" => psp[r] = "refused"
  BY DEF Charges, ChargeKnown, Settled
<1>2. outcome[r] \in PspOutcomes
  BY <1>1 DEF IInv, TypeOK
<1>3. \/ outcome[r].kind = "Succeeded"
      \/ outcome[r].kind = "Unavailable"
      \/ outcome[r].kind = "Declined" /\ outcome[r].code \in DeclineCodes
  BY <1>2 DEF PspOutcomes, Succeeded, Unavailable, Declined
<1> QED
  BY <1>1, <1>3 DEF PayResult, IsTrue, StatusOf, FailureCode, DeclineCodes

\* Initially nobody was told anything.
LEMMA ToldInit == Init => Told
  BY ErrorsAreTrue DEF Init, Told, TurnedAway, NoRow

\* Told survives a step that gives and stores true answers only.
LEMMA ToldStep ==
  ASSUME IInv, Charges, Told, [Next]_vars,
         \A r \in Requests : answer'[r] = answer[r] \/ IsTrue(answer'[r]),
         \A k \in Keys : idem'[k].answer = idem[k].answer \/ IsTrue(idem'[k].answer),
         \A r \in Requests : TurnedAway(r)'
  PROVE  Told'
<1>1. \A r \in Requests : WillBeTrue(answer'[r])
  BY TruthLasts DEF Told
<1>2. \A k \in Keys : WillBeTrue(idem'[k].answer)
  BY TruthLasts DEF Told
<1>3. \A r \in Requests : IsTrue(answer[r])'
  BY <1>1 DEF WillBeTrue, IsTrue
<1>4. \A k \in Keys : IsTrue(idem[k].answer)'
  BY <1>2 DEF WillBeTrue, IsTrue
<1> QED
  BY <1>3, <1>4 DEF Told

\* The handler of r answers, for good or to be stored first.
LEMMA Answering ==
  ASSUME IInv, Charges, Told, [Next]_vars, NEW r \in Requests, IsTrue(answer'[r]),
         answer'[r].status \in {400, 404, 409, 422} => attempts'[r] = NoAttempt,
         \A s \in Requests \ {r} :
           pc'[s] = pc[s] /\ answer'[s] = answer[s] /\ attempts'[s] = attempts[s],
         \A k \in Keys : idem'[k].answer = idem[k].answer \/ IsTrue(idem'[k].answer)
  PROVE  Told'
<1>1. \A s \in Requests : answer'[s] = answer[s] \/ IsTrue(answer'[s])
  OBVIOUS
<1>2. \A s \in Requests : TurnedAway(s)'
  BY DEF Told, TurnedAway
<1> QED
  BY <1>1, <1>2, ToldStep

\* A step that answers nobody.
LEMMA NotAnswering ==
  ASSUME IInv, Charges, Told, [Next]_vars, UNCHANGED answer,
         \A s \in Requests : pc'[s] \in {"store", "done"} =>
           pc[s] \in {"store", "done"} /\ (attempts[s] = NoAttempt => attempts'[s] = NoAttempt),
         \A k \in Keys : idem'[k].answer = idem[k].answer \/ IsTrue(idem'[k].answer)
  PROVE  Told'
<1>1. \A s \in Requests : TurnedAway(s)'
  BY DEF Told, TurnedAway
<1> QED
  BY <1>1, ToldStep

\* Told is inductive relative to IInv and Charges.
LEMMA ToldInductive == IInv /\ KeyInv /\ Charges /\ Told /\ [Next]_vars => Told'
<1> SUFFICES ASSUME IInv, KeyInv, Charges, Told, [Next]_vars PROVE Told'
  OBVIOUS
<1> USE DEF tables, handler, worker
<1>0. TypeOK /\ \A s \in Requests : IsTrue(answer[s]) /\ TurnedAway(s)
  BY DEF IInv, Told
<1>1. ASSUME NEW r \in Requests, ArriveMalformed(r) \/ RejectReusedKey(r) PROVE Told'
  <2>1. attempts[r] = NoAttempt /\ UNCHANGED <<attempts, idem>>
    BY <1>1 DEF ArriveMalformed, RejectReusedKey, IInv, NotYet
  <2>2. PICK n \in {400, 422} : \E c \in {"bad_request", "idempotency_key_reused"} :
          pc' = [pc EXCEPT ![r] = "done"] /\ answer' = [answer EXCEPT ![r] = Error(n, c)]
    BY <1>1 DEF ArriveMalformed, RejectReusedKey, Respond
  <2> QED
    BY <1>0, <2>1, <2>2, ErrorsAreTrue, Answering DEF TypeOK
<1>2. ASSUME NEW r \in Requests, UseCached(r) PROVE Told'
  <2>1. attempts[r] = NoAttempt /\ UNCHANGED <<attempts, idem>> /\ Key(r) \in Keys
    BY <1>0, <1>2, InputTypes DEF UseCached, IInv, NotYet, Named, Running
  <2>2. IsTrue(idem[Key(r)].answer)
    BY <2>1 DEF Told
  <2> QED
    BY <1>0, <1>2, <2>1, <2>2, Answering DEF UseCached, Respond, TypeOK
<1>3. ASSUME NEW r \in Requests, PollReserved(r) \/ LoseReservation(r) PROVE Told'
  <2>1. attempts[r] = NoAttempt /\ UNCHANGED <<attempts, idem>>
    BY <1>3 DEF PollReserved, LoseReservation, IInv, NotYet
  <2>2. \/ pc' = [pc EXCEPT ![r] = "lookup"] /\ UNCHANGED answer
        \/ /\ pc' = [pc EXCEPT ![r] = "done"]
           /\ answer' = [answer EXCEPT ![r] = Error(409, "request_in_progress")]
    BY <1>3 DEF PollReserved, LoseReservation, NextTurn, Goto, Respond
  <2>3. CASE pc' = [pc EXCEPT ![r] = "lookup"] /\ UNCHANGED answer
    BY <1>0, <2>1, <2>3, NotAnswering DEF TypeOK
  <2>4. CASE /\ pc' = [pc EXCEPT ![r] = "done"]
             /\ answer' = [answer EXCEPT ![r] = Error(409, "request_in_progress")]
    BY <1>0, <2>1, <2>4, ErrorsAreTrue, Answering DEF TypeOK
  <2> QED
    BY <2>2, <2>3, <2>4
<1>4. ASSUME NEW r \in Requests, Arrive(r) \/ SeeNoRow(r) \/ SpawnTask(r) \/ Disconnect(r)
      PROVE  Told'
  BY <1>0, <1>4, NotAnswering DEF Arrive, SeeNoRow, SpawnTask, Disconnect, Goto, TypeOK
<1>5. ASSUME NEW r \in Requests, Reserve(r) PROVE Told'
  <2>1. \A k \in Keys : idem'[k].answer = idem[k].answer \/ idem'[k].answer = NoAnswer
    BY <1>0, <1>5 DEF Reserve, InsertRow, TypeOK
  <2> QED
    BY <1>0, <1>5, <2>1, ErrorsAreTrue, NotAnswering DEF Reserve, Goto, TypeOK
<1>6. ASSUME NEW r \in Requests, LockInvoice(r) PROVE Told'
  <2>1. attempts[r] = NoAttempt /\ UNCHANGED <<attempts, idem>>
    BY <1>6 DEF LockInvoice, IInv, NotYet
  <2>2. \/ pc' = [pc EXCEPT ![r] = "insert"] /\ UNCHANGED answer
        \/ /\ pc' = [pc EXCEPT ![r] = "store"]
           /\ answer' = [answer EXCEPT ![r] = Refusal(Invoice(r))]
    BY <1>6 DEF LockInvoice, Goto, Return
  <2>3. CASE pc' = [pc EXCEPT ![r] = "insert"] /\ UNCHANGED answer
    BY <1>0, <2>1, <2>3, NotAnswering DEF TypeOK
  <2>4. CASE /\ pc' = [pc EXCEPT ![r] = "store"]
             /\ answer' = [answer EXCEPT ![r] = Refusal(Invoice(r))]
    BY <1>0, <2>1, <2>4, ErrorsAreTrue, Answering DEF TypeOK
  <2> QED
    BY <2>2, <2>3, <2>4
<1>7. ASSUME NEW r \in Requests, InsertAttempt(r) PROVE Told'
  <2>1. /\ pc' = [pc EXCEPT ![r] = "spawn"] /\ UNCHANGED <<answer, idem>>
        /\ \A s \in Requests \ {r} : attempts'[s] = attempts[s]
    BY <1>7, InsertEffect DEF InsertAttempt, Goto
  <2> QED
    BY <1>0, <2>1, NotAnswering DEF TypeOK
<1>8. ASSUME NEW r \in Requests, AttemptInProgress(r) PROVE Told'
  <2>1. attempts[r] = NoAttempt /\ UNCHANGED <<attempts, idem>>
    BY <1>8 DEF AttemptInProgress, IInv, NotYet
  <2> QED
    BY <1>0, <1>8, <2>1, ErrorsAreTrue, Answering DEF AttemptInProgress, Return, TypeOK
<1>9. ASSUME NEW r \in Requests, AbortClaim(r) \/ ClaimUnknown(r) PROVE Told'
  <2>1. UNCHANGED idem /\ \A s \in Requests \ {r} : attempts'[s] = attempts[s]
    BY <1>9, InsertEffect DEF AbortClaim, ClaimUnknown
  <2>2. InternalError.status = 500
    BY DEF InternalError, Error
  <2> QED
    BY <1>0, <1>9, <2>1, <2>2, ErrorsAreTrue, Answering DEF AbortClaim, ClaimUnknown, Return, TypeOK
<1>10. ASSUME NEW r \in Requests, AwaitTask(r) PROVE Told'
  <2>1. UNCHANGED <<attempts, idem>> /\ pc' = [pc EXCEPT ![r] = "store"]
    BY <1>10 DEF AwaitTask, Return
  <2>2. CASE task[r] = "done" /\ answer' = [answer EXCEPT ![r] = PayResult(r)]
    BY <1>0, <2>1, <2>2, ResultIsTrue, Answering DEF TypeOK
  <2>3. CASE answer' = [answer EXCEPT ![r] = InternalError]
    <3>1. InternalError.status = 500
      BY DEF InternalError, Error
    <3> QED
      BY <1>0, <2>1, <2>3, <3>1, ErrorsAreTrue, Answering DEF TypeOK
  <2> QED
    BY <1>10, <2>2, <2>3 DEF AwaitTask, Return
<1>11. ASSUME NEW r \in Requests, SyncWaitElapsed(r) PROVE Told'
  <2>1. attempts[r] # NoAttempt /\ UNCHANGED <<attempts, idem>>
    BY <1>11 DEF SyncWaitElapsed, IInv, InFlight, NoAttempt
  <2>2. IsTrue([status |-> 202, attempt |-> r, code |-> "pending"])
    BY <2>1 DEF IsTrue
  <2> QED
    BY <1>0, <1>11, <2>1, <2>2, Answering DEF SyncWaitElapsed, Return, TypeOK
<1>12. ASSUME NEW r \in Requests, StoreAnswer(r) \/ StoreUnknown(r) PROVE Told'
  <2>1. /\ pc[r] = "store" /\ UNCHANGED attempts /\ Finalize(Key(r), answer[r])
        /\ pc' = [pc EXCEPT ![r] = "done"]
        /\ \/ answer' = [answer EXCEPT ![r] = answer[r]]
           \/ answer' = [answer EXCEPT ![r] = InternalError]
    BY <1>12 DEF StoreAnswer, StoreUnknown, Respond
  <2>2. \A k \in Keys : idem'[k].answer = idem[k].answer \/ idem'[k].answer = answer[r]
    BY <1>0, <2>1 DEF Finalize, TypeOK
  <2>3. \A k \in Keys : idem'[k].answer = idem[k].answer \/ IsTrue(idem'[k].answer)
    BY <1>0, <2>2
  <2>4. answer[r].status \in {400, 404, 409, 422} => attempts'[r] = NoAttempt
    BY <1>0, <2>1 DEF TurnedAway
  <2>5. InternalError.status = 500
    BY DEF InternalError, Error
  <2> QED
    BY <1>0, <2>1, <2>3, <2>4, <2>5, ErrorsAreTrue, Answering DEF TypeOK
<1>13. ASSUME NEW r \in Requests, HandlerDbError(r) \/ ReserveUnknown(r) PROVE Told'
  <2>1. /\ UNCHANGED attempts /\ answer' = [answer EXCEPT ![r] = InternalError]
        /\ pc' = [pc EXCEPT ![r] = "done"] \/ pc' = [pc EXCEPT ![r] = "store"]
    BY <1>13 DEF HandlerDbError, ReserveUnknown, Respond, Return
  <2>2. \A k \in Keys : idem'[k].answer = idem[k].answer \/ idem'[k].answer = NoAnswer
    BY <1>0, <1>13 DEF HandlerDbError, ReserveUnknown, InsertRow, TypeOK
  <2>3. \A k \in Keys : idem'[k].answer = idem[k].answer \/ IsTrue(idem'[k].answer)
    BY <2>2, ErrorsAreTrue
  <2>4. InternalError.status = 500
    BY DEF InternalError, Error
  <2> QED
    BY <1>0, <2>1, <2>3, <2>4, ErrorsAreTrue, Answering DEF TypeOK
<1>14. ASSUME NEW r \in Requests,
              \/ PspDecide(r) \/ PspReplies(r) \/ PspRequestFails(r) \/ UpdateAttempt(r)
              \/ AbortSettlement(r) \/ TaskDbError(r)
       PROVE  Told'
  BY <1>14, NotAnswering DEF PspDecide, PspReplies, PspRequestFails, UpdateAttempt,
                             AbortSettlement, TaskDbError
<1>15. ASSUME NEW r \in Requests, SettleAttempt(r) \/ SettleUnknown(r) PROVE Told'
  <2>1. /\ UNCHANGED <<pc, answer, idem>> /\ attempts[r] # NoAttempt
        /\ \A s \in Requests \ {r} : attempts'[s] = attempts[s]
    BY <1>15, SettledAsKnown DEF SettleAttempt, SettleUnknown
  <2> QED
    BY <2>1, NotAnswering
<1>16. ASSUME NEW i \in Invoices, InvoiceStep(i) PROVE Told'
  BY <1>16, NotAnswering DEF InvoiceStep, CreateInvoice, FinalizeInvoice, VoidInvoice,
                             MarkUncollectible, Transition
<1>17. CASE Crash
  BY <1>17, NotAnswering DEF Crash
<1>18. CASE Quiescent \/ UNCHANGED vars
  BY <1>18, NotAnswering DEF Quiescent, vars
<1> QED
  BY <1>1, <1>2, <1>3, <1>4, <1>5, <1>6, <1>7, <1>8, <1>9, <1>10, <1>11, <1>12, <1>13, <1>14,
     <1>15, <1>16, <1>17, <1>18 DEF Next, HandlerStep, TaskStep, FaultStep

\* A client is never told anything that is not so, for any number of requests and
\* under every fault: not of the attempt, and not of the processor.
THEOREM PaymentsAnswerIsTrue == Spec => []AnswerIsTrue
<1>1. Charges /\ Told => AnswerIsTrue
  <2> SUFFICES ASSUME Charges, Told, NEW r \in Requests, pc[r] = "done"
               PROVE  LET a == answer[r].attempt IN
                      /\ answer[r].status = 200 /\ answer[r].code = "succeeded" =>
                           attempts[a].status = "succeeded" /\ psp[a] = "charged"
                      /\ answer[r].status = 200 /\ answer[r].code # "succeeded" =>
                           /\ attempts[a].status = "failed"
                           /\ attempts[a].failure_code = answer[r].code
                           /\ answer[r].code # "psp_unavailable" => psp[a] = "refused"
                      /\ answer[r].status = 202 => attempts[a] # NoAttempt
                      /\ answer[r].status \in {400, 404, 409, 422} =>
                           attempts[r] = NoAttempt /\ psp[r] = "none"
    BY DEF AnswerIsTrue
  <2>1. IsTrue(answer[r]) /\ TurnedAway(r) /\ ChargeKnown(r)
    BY DEF Charges, Told
  <2> QED
    BY <2>1 DEF IsTrue, TurnedAway, ChargeKnown
<1> QED
  BY <1>1, InvInit, InvInductive, KeyInit, KeyInductive, ChargesInit, ChargesInductive, ToldInit,
     ToldInductive, PTL DEF Spec

-----------------------------------------------------------------------------
(* Replays.                                                                *)

\* Initially nothing is stored and nothing is answered.
LEMMA ReplayedInit == Init => Replayed
  BY DEF Init, Replayed, Executing

\* The answers about the key itself, and failures of the database, are not final.
LEMMA NotFinal ==
  /\ ~Final(InternalError) /\ ~Final(NoAnswer) /\ ~Final(Error(400, "bad_request"))
  /\ ~Final(Error(422, "idempotency_key_reused")) /\ ~Final(Error(409, "request_in_progress"))
  BY DEF Final, InternalError, NoAnswer, Error

\* A step that reserves nothing and gives no final answer.
LEMMA ReplayedStays ==
  ASSUME IInv, KeyInv, Replayed, [Next]_vars,
         \A r \in Requests : /\ pc'[r] \in Executing => pc[r] \in Executing
                             /\ pc[r] \in Executing \cup {"done"} => input'[r] = input[r]
                             /\ pc'[r] = "done" => \/ pc[r] = "done" /\ answer'[r] = answer[r]
                                                 \/ ~Final(answer'[r])
  PROVE  Replayed'
<1>1. \A k \in Keys : /\ idem[k].hash # NoHash => idem'[k].hash = idem[k].hash
                      /\ idem[k].answer # NoAnswer => idem'[k] = idem[k]
  BY FrozenStep DEF Frozen
<1>2. \A r \in Requests : pc[r] \in Executing => Key(r) \in Keys /\ idem[Key(r)].hash # NoHash
  BY DEF KeyInv, Owner
<1>3. \A r \in Requests : pc'[r] \in Executing =>
        idem'[Key(r)].hash = Hash(r) /\ input'[r] = input[r]
  BY <1>1, <1>2 DEF Replayed
<1>4. ASSUME NEW r \in Requests, pc'[r] = "done", Final(answer'[r])
      PROVE  /\ Key(r) \in Keys /\ input'[r] = input[r] /\ idem'[Key(r)].hash = Hash(r)
             /\ idem'[Key(r)].answer = answer'[r]
  <2>1. pc[r] = "done" /\ answer'[r] = answer[r] /\ Final(answer[r]) /\ input'[r] = input[r]
    BY <1>4
  <2>2. idem[Key(r)].answer # NoAnswer
    BY <2>1, NotFinal DEF Replayed
  <2> QED
    BY <1>1, <2>1, <2>2 DEF Replayed
<1>5. \A r \in Requests : Final(answer[r])' <=> Final(answer'[r])
  BY DEF Final
<1> QED
  BY <1>3, <1>4, <1>5 DEF Replayed, Key, Hash

\* A step in which only r gains an owner's work or a final answer, and its row says so.
LEMMA ReplayedMoves ==
  ASSUME IInv, KeyInv, Replayed, [Next]_vars, NEW r \in Requests, Key(r) \in Keys,
         UNCHANGED input, idem'[Key(r)].hash = Hash(r),
         pc'[r] = "done" => idem'[Key(r)].answer = answer'[r],
         \A s \in Requests \ {r} : pc'[s] = pc[s] /\ answer'[s] = answer[s]
  PROVE  Replayed'
<1>1. \A k \in Keys : /\ idem[k].hash # NoHash => idem'[k].hash = idem[k].hash
                      /\ idem[k].answer # NoAnswer => idem'[k] = idem[k]
  BY FrozenStep DEF Frozen
<1>2. ASSUME NEW s \in Requests, s # r
      PROVE  /\ pc[s] \in Executing => idem'[Key(s)].hash = Hash(s)
             /\ (pc[s] = "done" /\ Final(answer[s])) =>
                  /\ Key(s) \in Keys /\ idem'[Key(s)].hash = Hash(s)
                  /\ idem'[Key(s)].answer = answer[s]
  <2>1. CASE pc[s] \in Executing
    <3>1. Key(s) \in Keys /\ idem[Key(s)].hash # NoHash /\ idem[Key(s)].hash = Hash(s)
      BY <2>1 DEF KeyInv, Owner, Replayed
    <3> QED
      BY <1>1, <2>1, <3>1 DEF Executing
  <2>2. CASE pc[s] = "done" /\ Final(answer[s])
    <3>1. idem[Key(s)].answer # NoAnswer
      BY <2>2, NotFinal DEF Replayed
    <3> QED
      BY <1>1, <2>2, <3>1 DEF Replayed, Executing
  <2> QED
    BY <2>1, <2>2
<1>3. \A s \in Requests : /\ (Final(answer[s])' <=> Final(answer'[s]))
                           /\ Key(s)' = Key(s) /\ Hash(s)' = Hash(s)
  BY DEF Final, Key, Hash
<1>4. \A s \in Requests : pc'[s] \in Executing => idem'[Key(s)].hash = Hash(s)
  BY <1>2
<1>5. \A s \in Requests : (pc'[s] = "done" /\ Final(answer'[s])) =>
         /\ Key(s) \in Keys /\ idem'[Key(s)].hash = Hash(s) /\ idem'[Key(s)].answer = answer'[s]
  BY <1>2
<1> QED
  BY <1>3, <1>4, <1>5 DEF Replayed, Key, Hash

\* Replayed is inductive relative to IInv and KeyInv.
LEMMA ReplayedInductive == IInv /\ KeyInv /\ Replayed /\ [Next]_vars => Replayed'
<1> SUFFICES ASSUME IInv, KeyInv, Replayed, [Next]_vars PROVE Replayed'
  OBVIOUS
<1> USE DEF tables, handler, worker
<1>0. TypeOK
  BY DEF IInv
<1>1. ASSUME NEW r \in Requests, Reserve(r) PROVE Replayed'
  <2>1. Key(r) \in Keys
    BY <1>0, <1>1, InputTypes DEF Reserve, IInv, Named, Running
  <2>2. idem'[Key(r)].hash = Hash(r) /\ pc'[r] = "claim" /\ UNCHANGED <<input, answer>>
    BY <1>0, <1>1, <2>1 DEF Reserve, InsertRow, Goto, TypeOK
  <2>3. \A s \in Requests \ {r} : pc'[s] = pc[s]
    BY <1>0, <1>1 DEF Reserve, Goto, TypeOK
  <2> QED
    BY <2>1, <2>2, <2>3, ReplayedMoves
<1>2. ASSUME NEW r \in Requests, UseCached(r) PROVE Replayed'
  <2>1. Key(r) \in Keys /\ idem[Key(r)].answer # NoAnswer /\ ~Reused(Key(r), Hash(r))
    BY <1>0, <1>2, InputTypes DEF UseCached, Finished, IInv, Named, Running
  <2>2. idem[Key(r)].hash = Hash(r)
    BY <2>1 DEF KeyInv, Reused, Absent
  <2>3. /\ UNCHANGED <<idem, input>> /\ answer'[r] = idem[Key(r)].answer
        /\ \A s \in Requests \ {r} : pc'[s] = pc[s] /\ answer'[s] = answer[s]
    BY <1>0, <1>2 DEF UseCached, Respond, TypeOK
  <2> QED
    BY <2>1, <2>2, <2>3, ReplayedMoves
<1>3. ASSUME NEW r \in Requests, StoreAnswer(r) PROVE Replayed'
  <2>1. pc[r] \in Executing /\ Key(r) \in Keys /\ idem[Key(r)].hash = Hash(r)
    BY <1>3 DEF StoreAnswer, Executing, KeyInv, Owner, Replayed
  <2>2. idem'[Key(r)].hash = Hash(r) /\ idem'[Key(r)].answer = answer[r]
    BY <1>0, <1>3, <2>1 DEF StoreAnswer, Finalize, TypeOK
  <2>3. /\ UNCHANGED input /\ answer'[r] = answer[r]
        /\ \A s \in Requests \ {r} : pc'[s] = pc[s] /\ answer'[s] = answer[s]
    BY <1>0, <1>3 DEF StoreAnswer, Respond, TypeOK
  <2> QED
    BY <2>1, <2>2, <2>3, ReplayedMoves
<1> USE NotFinal DEF Executing
<1>4. ASSUME NEW r \in Requests,
             \/ Arrive(r) \/ ArriveMalformed(r) \/ RejectReusedKey(r) \/ PollReserved(r)
             \/ SeeNoRow(r) \/ LoseReservation(r) \/ ReserveUnknown(r)
      PROVE  Replayed'
  BY <1>0, <1>4, ReplayedStays
     DEF Arrive, ArriveMalformed, RejectReusedKey, PollReserved, SeeNoRow, LoseReservation,
         ReserveUnknown, NextTurn, Goto, Respond, TypeOK
<1>5. ASSUME NEW r \in Requests,
             \/ LockInvoice(r) \/ InsertAttempt(r) \/ AttemptInProgress(r) \/ AbortClaim(r)
             \/ SpawnTask(r) \/ AwaitTask(r) \/ SyncWaitElapsed(r) \/ ClaimUnknown(r)
      PROVE  Replayed'
  BY <1>0, <1>5, ReplayedStays
     DEF LockInvoice, InsertAttempt, AttemptInProgress, AbortClaim, Deadlocked, SpawnTask,
         AwaitTask, SyncWaitElapsed, ClaimUnknown, Goto, Return, TypeOK
<1>6. ASSUME NEW r \in Requests, HandlerDbError(r) \/ StoreUnknown(r) \/ Disconnect(r)
      PROVE  Replayed'
  BY <1>0, <1>6, ReplayedStays
     DEF HandlerDbError, StoreUnknown, Disconnect, Goto, Return, Respond, TypeOK
<1>7. ASSUME UNCHANGED <<pc, input, answer>> PROVE Replayed'
  BY <1>7, ReplayedStays
<1>8. CASE Crash
  BY <1>8, ReplayedStays DEF Crash, Running
<1>9. ASSUME NEW r \in Requests, PspDecide(r) \/ TaskStep(r) \/ TaskDbError(r) \/ SettleUnknown(r)
      PROVE  Replayed'
  BY <1>7, <1>9 DEF PspDecide, TaskStep, PspReplies, PspRequestFails, UpdateAttempt, SettleAttempt,
                    AbortSettlement, TaskDbError, SettleUnknown
<1>10. ASSUME NEW i \in Invoices, InvoiceStep(i) PROVE Replayed'
  BY <1>7, <1>10 DEF InvoiceStep, CreateInvoice, FinalizeInvoice, VoidInvoice, MarkUncollectible,
                     Transition
<1>11. CASE Quiescent \/ UNCHANGED vars
  BY <1>7, <1>11 DEF Quiescent, vars
<1> QED
  BY <1>1, <1>2, <1>3, <1>4, <1>5, <1>6, <1>8, <1>9, <1>10, <1>11 DEF Next, HandlerStep, FaultStep

\* All final answers under one key are one answer to one request.
THEOREM PaymentsReplayIsVerbatim == Spec => []ReplayIsVerbatim
<1>1. Replayed => ReplayIsVerbatim
  BY DEF Replayed, ReplayIsVerbatim
<1> QED
  BY <1>1, InvInit, InvInductive, KeyInit, KeyInductive, ReplayedInit, ReplayedInductive,
     PTL DEF Spec

-----------------------------------------------------------------------------
(* Charging twice.                                                         *)

\* What is proved of the ledger holds of the tables, since Payments implements
\* the ledger.
Tables == INSTANCE PaymentLedgerProofs WITH Attempts <- Requests

\* The two instances of the ledger have the same rows to write.
LEMMA SameData ==
  /\ Ledger!NoAttempt = Tables!NoAttempt
  /\ Ledger!PspOutcomes = Tables!PspOutcomes
  /\ \A i : Ledger!PendingOn(i) = Tables!PendingOn(i)
<1>1. Ledger!NoAttempt = Tables!NoAttempt
  BY DEF Ledger!NoAttempt, Tables!NoAttempt
<1>2. Ledger!PspOutcomes = Tables!PspOutcomes
  BY DEF Ledger!PspOutcomes, Ledger!Succeeded, Ledger!Declined, Ledger!Unavailable,
         Ledger!DeclineCodes, Tables!PspOutcomes, Tables!Succeeded, Tables!Declined,
         Tables!Unavailable, Tables!DeclineCodes
<1>3. \A i : Ledger!PendingOn(i) = Tables!PendingOn(i)
  BY DEF Ledger!PendingOn, Tables!PendingOn
<1> QED
  BY <1>1, <1>2, <1>3

\* The two instances of the ledger start and step alike.
LEMMA SameLedger ==
  /\ Ledger!Init => Tables!Init
  /\ [Ledger!Next]_Ledger!ledger => [Tables!Next]_Tables!ledger
<1>1. Ledger!Init => Tables!Init
  BY SameData DEF Ledger!Init, Tables!Init
<1>2. ASSUME NEW i \in Invoices, Ledger!Create(i) PROVE Tables!Next
  BY <1>2 DEF Ledger!Create, Tables!Create, Tables!Next
<1>3. ASSUME NEW i \in Invoices, Ledger!Move(i) PROVE Tables!Next
  <2>1. Tables!Move(i)
    BY <1>3 DEF Ledger!Move, Ledger!CanFinalize, Ledger!CanVoid, Ledger!CanMarkUncollectible,
                Tables!Move, Tables!CanFinalize, Tables!CanVoid, Tables!CanMarkUncollectible
  <2> QED
    BY <2>1 DEF Tables!Next
<1>4. ASSUME NEW a \in Requests, NEW i \in Invoices, Ledger!Claim(a, i) PROVE Tables!Next
  <2>1. Tables!Claim(a, i)
    BY <1>4, SameData DEF Ledger!Claim, Ledger!Claimable, Ledger!CanAcceptPayment,
                          Tables!Claim, Tables!Claimable, Tables!CanAcceptPayment
  <2> QED
    BY <2>1 DEF Tables!Next
<1>5. ASSUME NEW a \in Requests, NEW o \in Ledger!PspOutcomes, Ledger!Settle(a, o)
      PROVE  Tables!Next
  <2>1. Tables!Settle(a, o)
    BY <1>5 DEF Ledger!Settle, Ledger!StatusOf, Ledger!FailureCode, Ledger!EventOf, Ledger!Pays,
                Tables!Settle, Tables!StatusOf, Tables!FailureCode, Tables!EventOf, Tables!Pays
  <2> QED
    BY <2>1, SameData DEF Tables!Next
<1>6. Ledger!ledger = Tables!ledger
  BY DEF Ledger!ledger, Tables!ledger
<1>7. Ledger!Next => Tables!Next
  BY <1>2, <1>3, <1>4, <1>5 DEF Ledger!Next
<1>8. UNCHANGED Ledger!ledger => UNCHANGED Tables!ledger
  BY DEF Ledger!ledger, Tables!ledger
<1> QED
  BY <1>1, <1>7, <1>8

\* The invariant of the ledger holds of the tables of Payments.
LEMMA LedgerInvInit == Init => Tables!IInv
<1>1. None \notin Invoices
  BY NoneIsNoId
<1> QED
  BY <1>1, LedgerInit, SameLedger, Tables!InvInit

\* Every step of Payments keeps it, being a step of the ledger.
LEMMA LedgerInvInductive == IInv /\ Tables!IInv /\ [Next]_vars => Tables!IInv'
<1>1. None \notin Invoices
  BY NoneIsNoId
<1> QED
  BY <1>1, LedgerStep, SameLedger, Tables!InvInductive

\* A card that was charged belongs to an attempt on the request's invoice that is
\* pending, succeeded, or recorded as psp_unavailable.
LEMMA ChargedRow ==
  ASSUME IInv, Charges, NEW r \in Requests, psp[r] = "charged"
  PROVE  /\ attempts[r].invoice = Invoice(r)
         /\ \/ attempts[r].status \in {"pending", "succeeded"}
            \/ attempts[r].failure_code = "psp_unavailable"
<1>1. ChargeKnown(r) /\ TypeOK
  BY DEF IInv, Charges
<1>2. attempts[r] # NoAttempt
  BY <1>1 DEF ChargeKnown
<1>3. attempts[r].invoice = Invoice(r)
  BY <1>2 DEF IInv, OnOwnInvoice
<1>4. attempts[r].status \in {"pending", "succeeded", "failed"}
  BY <1>1, <1>2, RowTypes DEF Rows
<1>5. CASE attempts[r].status = "failed"
  <2>1. /\ outcome[r] \in PspOutcomes /\ StatusOf(outcome[r]) = "failed"
        /\ attempts[r].failure_code = FailureCode(outcome[r]) /\ outcome[r].kind # "Declined"
    BY <1>1, <1>5 DEF ChargeKnown, Settled, TypeOK
  <2>2. FailureCode(outcome[r]) = "psp_unavailable"
    BY <2>1 DEF PspOutcomes, Succeeded, Declined, Unavailable, StatusOf, FailureCode
  <2> QED
    BY <1>3, <2>1, <2>2
<1> QED
  BY <1>3, <1>4, <1>5

\* A card is charged twice for one invoice only if the result of one of the two
\* charges could not be learnt.
THEOREM PaymentsChargedTwice == Spec => []ChargedTwiceOnlyIfUnavailable
<1>1. IInv /\ Charges /\ Tables!IInv => ChargedTwiceOnlyIfUnavailable
  <2> SUFFICES ASSUME IInv, Charges, Tables!IInv, NEW r \in Requests, NEW s \in Requests, r # s,
                      psp[r] = "charged", psp[s] = "charged", Invoice(r) = Invoice(s),
                      attempts[r].failure_code # "psp_unavailable",
                      attempts[s].failure_code # "psp_unavailable"
               PROVE  FALSE
    BY DEF ChargedTwiceOnlyIfUnavailable
  <2>1. /\ attempts[r].status \in {"pending", "succeeded"}
        /\ attempts[s].status \in {"pending", "succeeded"}
        /\ attempts[r].invoice = attempts[s].invoice
    BY ChargedRow
  <2> QED
    BY <2>1 DEF Tables!IInv, Tables!OnePendingPerInvoice, Tables!AtMostOneSuccess
<1> QED
  BY <1>1, InvInit, InvInductive, ChargesInit, ChargesInductive, LedgerInvInit, LedgerInvInductive,
     PTL DEF Spec

\* The books never contradict the processor: a charge has a row that can still
\* be, or is, a success, or is recorded as psp_unavailable, and no invoice is
\* paid without a charge.
THEOREM PaymentsBooks == Spec => []BooksMatchProcessor
<1>1. IInv /\ Charges /\ Tables!IInv => BooksMatchProcessor
  <2> SUFFICES ASSUME IInv, Charges, Tables!IInv PROVE BooksMatchProcessor
    OBVIOUS
  <2>1. ASSUME NEW i \in Invoices, invoice[i] = "paid"
        PROVE  \E r \in Requests : /\ attempts[r].invoice = i /\ attempts[r].status = "succeeded"
                                  /\ psp[r] = "charged"
    <3>1. PICK r \in Requests : attempts[r].invoice = i /\ attempts[r].status = "succeeded"
      BY <2>1 DEF Tables!IInv, Tables!PaidBySuccess
    <3>2. outcome[r] \in PspOutcomes /\ StatusOf(outcome[r]) = "succeeded"
      BY <3>1 DEF Charges, ChargeKnown, Settled, IInv, TypeOK
    <3>3. outcome[r].kind = "Succeeded"
      BY <3>2 DEF StatusOf
    <3> QED
      BY <3>1, <3>3 DEF Charges, ChargeKnown
  <2> QED
    BY <2>1, ChargedRow DEF BooksMatchProcessor
<1> QED
  BY <1>1, InvInit, InvInductive, ChargesInit, ChargesInductive, LedgerInvInit, LedgerInvInductive,
     PTL DEF Spec

\* What the ledger promises, Payments keeps under every interleaving and fault:
\* an invoice is charged successfully at most once and paid only by a success,
\* the outbox tells what became of every attempt, and what is settled stays so.
THEOREM PaymentsKeepPromises ==
  Spec => /\ [](/\ Ledger!AtMostOneSuccess /\ Ledger!PaidBySuccess
               /\ Ledger!AttemptedWasFinalized
               /\ Ledger!OutboxTellsAttempts)
          /\ Ledger!SettledIsFinal
<1> DEFINE Promises == /\ Ledger!AtMostOneSuccess /\ Ledger!PaidBySuccess
                       /\ Ledger!AttemptedWasFinalized
                       /\ Ledger!OutboxTellsAttempts
<1>1. Spec => Tables!Spec
  BY SameLedger, PaymentsImplementLedger, PTL DEF ImplementsLedger, Ledger!Spec, Tables!Spec
<1>2. None \notin Invoices
  BY NoneIsNoId
<1>3. /\ Tables!Spec => []Tables!AtMostOneSuccess
      /\ Tables!Spec => []Tables!PaidBySuccess
      /\ Tables!Spec => []Tables!AttemptedWasFinalized
      /\ Tables!Spec => []Tables!OutboxTellsAttempts
      /\ Tables!Spec => Tables!SettledIsFinal
  BY <1>2, Tables!LedgerOneSuccess, Tables!LedgerPaidBySuccess,
     Tables!LedgerFinalized, Tables!LedgerOutbox, Tables!LedgerSettledIsFinal
<1>4. /\ Tables!AtMostOneSuccess /\ Tables!PaidBySuccess
      /\ Tables!AttemptedWasFinalized /\ Tables!OutboxTellsAttempts
      => Promises
  BY SameData DEF Tables!AtMostOneSuccess, Tables!PaidBySuccess,
     Tables!AttemptedWasFinalized, Tables!OutboxTellsAttempts,
     Ledger!AtMostOneSuccess, Ledger!PaidBySuccess, Ledger!AttemptedWasFinalized,
     Ledger!OutboxTellsAttempts
<1>5. Tables!SettledIsFinal => Ledger!SettledIsFinal
  BY PTL DEF Tables!SettledIsFinal, Ledger!SettledIsFinal, Tables!ledger, Ledger!ledger,
     Tables!Terminal, Ledger!Terminal
<1> QED
  BY <1>1, <1>3, <1>4, <1>5, PTL

-----------------------------------------------------------------------------
(* Without faults of the environment.                                      *)

\* A step that writes no key and leaves every owner at work.
LEMMA OwnedStays ==
  ASSUME Owned, idem' = idem,
         \A r \in Requests : pc[r] \in Executing =>
           pc'[r] \in Executing /\ input'[r] = input[r],
         \A r \in Requests : pc'[r] = "store" => answer'[r] # NoAnswer
  PROVE  Owned'
  BY DEF Owned, ReservedKeyHasOwner, Reserved, Key, Hash

\* Initially no key is reserved.
LEMMA OwnedInit == Init => Owned
  BY DEF Init, Owned, ReservedKeyHasOwner, Reserved, NoRow

\* Owned is inductive as long as the environment injects no fault.
LEMMA OwnedInductive ==
  ASSUME Faults = {}
  PROVE  IInv /\ KeyInv /\ Owned /\ [Next]_vars => Owned'
<1> SUFFICES ASSUME IInv, KeyInv, Owned, [Next]_vars PROVE Owned'
  OBVIOUS
<1> USE DEF tables, handler, worker
<1>0. TypeOK
  BY DEF IInv
<1>1. ASSUME UNCHANGED <<pc, input, answer, idem>> PROVE Owned'
  BY <1>1, OwnedStays DEF Owned
<1>2. ASSUME NEW r \in Requests, idem' = idem, input' = input, pc[r] \notin Executing,
             NEW l \in {"lookup", "reserve", "done"}, pc' = [pc EXCEPT ![r] = l],
             \/ answer' = answer
             \/ \E x : answer' = [answer EXCEPT ![r] = x]
      PROVE  Owned'
  <2>1. \A s \in Requests : pc[s] \in Executing => pc'[s] \in Executing /\ input'[s] = input[s]
    BY <1>0, <1>2 DEF TypeOK, Goto
  <2>2. \A s \in Requests : pc'[s] = "store" => answer'[s] # NoAnswer
    BY <1>0, <1>2 DEF TypeOK, Owned, Goto
  <2> QED
    BY <1>2, <2>1, <2>2, OwnedStays
<1>3. ASSUME NEW r \in Requests, Arrive(r) PROVE Owned'
  <2>1. \A s \in Requests : pc[s] \in Executing => pc'[s] \in Executing /\ input'[s] = input[s]
    BY <1>0, <1>3 DEF TypeOK, Arrive, Goto, Executing
  <2>2. \A s \in Requests : pc'[s] = "store" => answer'[s] # NoAnswer
    BY <1>0, <1>3 DEF TypeOK, Owned, Arrive, Goto
  <2> QED
    BY <1>3, <2>1, <2>2, OwnedStays DEF Arrive
<1>4. ASSUME NEW r \in Requests,
             \/ ArriveMalformed(r) \/ RejectReusedKey(r) \/ UseCached(r) \/ SeeNoRow(r)
             \/ PollReserved(r) \/ LoseReservation(r)
      PROVE  Owned'
  BY <1>2, <1>4 DEF ArriveMalformed, RejectReusedKey, UseCached, SeeNoRow, PollReserved,
                    LoseReservation, NextTurn, Respond, Goto, Executing
<1>5. ASSUME NEW r \in Requests, Reserve(r) PROVE Owned'
  <2>1. Key(r) \in Keys /\ pc[r] = "reserve"
    BY <1>5, InputTypes DEF Reserve, IInv, Named, Running
  <2>2. /\ idem'[Key(r)].hash = Hash(r)
        /\ \A k \in Keys \ {Key(r)} : idem'[k] = idem[k]
    BY <1>0, <1>5, <2>1 DEF Reserve, InsertRow, TypeOK
  <2>3. /\ pc'[r] = "claim" /\ input' = input /\ answer' = answer
        /\ \A s \in Requests \ {r} : pc'[s] = pc[s]
    BY <1>0, <1>5 DEF Reserve, Goto, TypeOK
  <2>4. ReservedKeyHasOwner'
    BY <2>1, <2>2, <2>3 DEF Owned, ReservedKeyHasOwner, Reserved, Key, Hash, Executing
  <2>5. \A s \in Requests : pc'[s] = "store" => answer'[s] # NoAnswer
    BY <2>3 DEF Owned
  <2> QED
    BY <2>4, <2>5 DEF Owned
<1>6. ASSUME NEW r \in Requests, StoreAnswer(r) PROVE Owned'
  <2>1. /\ pc[r] = "store" /\ Key(r) \in Keys /\ answer[r] # NoAnswer
    BY <1>6 DEF StoreAnswer, KeyInv, Owner, Executing, Owned
  <2>2. /\ idem'[Key(r)].answer = answer[r]
        /\ \A k \in Keys \ {Key(r)} : idem'[k] = idem[k]
    BY <1>0, <1>6, <2>1 DEF StoreAnswer, Finalize, TypeOK
  <2>3. /\ input' = input /\ pc'[r] = "done"
        /\ \A s \in Requests \ {r} : pc'[s] = pc[s] /\ answer'[s] = answer[s]
    BY <1>0, <1>6 DEF StoreAnswer, Respond, TypeOK
  <2>4. ReservedKeyHasOwner'
    BY <2>1, <2>2, <2>3 DEF Owned, ReservedKeyHasOwner, Reserved, Key, Hash
  <2>5. \A s \in Requests : pc'[s] = "store" => answer'[s] # NoAnswer
    BY <2>3 DEF Owned
  <2> QED
    BY <2>4, <2>5 DEF Owned
<1>7. ASSUME NEW r \in Requests, idem' = idem, input' = input, NEW x \in Answers,
             x # NoAnswer, Return(r, x)
      PROVE  Owned'
  <2>1. \A s \in Requests : pc[s] \in Executing => pc'[s] \in Executing /\ input'[s] = input[s]
    BY <1>0, <1>7 DEF TypeOK, Return, Executing
  <2>2. \A s \in Requests : pc'[s] = "store" => answer'[s] # NoAnswer
    BY <1>0, <1>7 DEF TypeOK, Owned, Return
  <2> QED
    BY <1>7, <2>1, <2>2, OwnedStays
<1>8. ASSUME NEW r \in Requests, idem' = idem, input' = input,
             NEW l \in {"insert", "spawn", "wait"}, Goto(r, l)
      PROVE  Owned'
  <2>1. \A s \in Requests : pc[s] \in Executing => pc'[s] \in Executing /\ input'[s] = input[s]
    BY <1>0, <1>8 DEF TypeOK, Goto, Executing
  <2>2. \A s \in Requests : pc'[s] = "store" => answer'[s] # NoAnswer
    BY <1>0, <1>8 DEF TypeOK, Owned, Goto
  <2> QED
    BY <1>8, <2>1, <2>2, OwnedStays
<1>9. ASSUME NEW r \in Requests, LockInvoice(r) PROVE Owned'
  <2>1. CASE Goto(r, "insert")
    BY <1>8, <1>9, <2>1 DEF LockInvoice
  <2>2. CASE Return(r, Refusal(Invoice(r)))
    <3>1. Refusal(Invoice(r)) \in Answers /\ Refusal(Invoice(r)) # NoAnswer
      BY DEF Refusal, Error, NoAnswer, Answers, Codes
    <3> QED
      BY <1>7, <1>9, <2>2, <3>1 DEF LockInvoice
  <2> QED
    BY <1>9, <2>1, <2>2 DEF LockInvoice
<1>10. ASSUME NEW r \in Requests, InsertAttempt(r) \/ SpawnTask(r) PROVE Owned'
  BY <1>8, <1>10 DEF InsertAttempt, SpawnTask
<1>11. ASSUME NEW r \in Requests, AttemptInProgress(r) \/ AbortClaim(r) PROVE Owned'
  <2>1. /\ InternalError \in Answers /\ InternalError # NoAnswer
        /\ Error(409, "payment_attempt_in_progress") \in Answers
        /\ Error(409, "payment_attempt_in_progress") # NoAnswer
    BY AnswerTypes DEF InternalError, Error, NoAnswer
  <2> QED
    BY <1>7, <1>11, <2>1 DEF AttemptInProgress, AbortClaim
<1>12. ASSUME NEW r \in Requests, AwaitTask(r) PROVE Owned'
  <2>1. InternalError \in Answers /\ InternalError # NoAnswer
    BY AnswerTypes DEF InternalError, Error, NoAnswer
  <2>2. PayResult(r) \in Answers /\ PayResult(r) # NoAnswer
    BY <1>0, PayResultType DEF PayResult, NoAnswer
  <2> QED
    BY <1>7, <1>12, <2>1, <2>2 DEF AwaitTask
<1>13. ASSUME NEW r \in Requests, SyncWaitElapsed(r) PROVE Owned'
  <2>1. /\ [status |-> 202, attempt |-> r, code |-> "pending"] \in Answers
        /\ [status |-> 202, attempt |-> r, code |-> "pending"] # NoAnswer
    BY AnswerTypes DEF NoAnswer
  <2> QED
    BY <1>7, <1>13, <2>1 DEF SyncWaitElapsed
<1>14. ASSUME NEW r \in Requests, PspDecide(r) \/ TaskStep(r) PROVE Owned'
  BY <1>1, <1>14 DEF PspDecide, TaskStep, PspReplies, PspRequestFails, UpdateAttempt,
                     SettleAttempt, AbortSettlement
<1>15. ASSUME NEW i \in Invoices, InvoiceStep(i) PROVE Owned'
  BY <1>1, <1>15 DEF InvoiceStep, CreateInvoice, FinalizeInvoice, VoidInvoice, MarkUncollectible,
                     Transition
<1>16. CASE Quiescent \/ UNCHANGED vars
  BY <1>1, <1>16 DEF Quiescent, vars
<1>17. ~Crash /\ \A r \in Requests : ~FaultStep(r)
  BY DEF Crash, FaultStep, HandlerDbError, ReserveUnknown, ClaimUnknown, StoreUnknown, TaskDbError,
         SettleUnknown, Disconnect
<1> QED
  BY <1>3, <1>4, <1>5, <1>6, <1>9, <1>10, <1>11, <1>12, <1>13, <1>14, <1>15, <1>16, <1>17
     DEF Next, HandlerStep

\* Without faults a reserved key has a handler that will finish it: every early
\* return of pay_invoice stores an answer.
THEOREM PaymentsReservedKeyHasOwner ==
  ASSUME Faults = {}
  PROVE  Spec => []ReservedKeyHasOwner
<1>1. Owned => ReservedKeyHasOwner
  BY DEF Owned
<1>2. IInv /\ KeyInv /\ Owned /\ [Next]_vars => Owned'
  BY OwnedInductive
<1> QED
  BY <1>1, <1>2, InvInit, InvInductive, KeyInit, KeyInductive, OwnedInit, PTL DEF Spec

\* PendingHasOwner is inductive as long as the environment injects no fault: the
\* claim hands the attempt to the handler, the handler to the task, and the task
\* lets go of it only by settling it or with an error.
LEMMA PendingInductive ==
  ASSUME Faults = {}
  PROVE  IInv /\ PendingHasOwner /\ [Next]_vars => PendingHasOwner'
<1> SUFFICES ASSUME IInv, PendingHasOwner, [Next]_vars PROVE PendingHasOwner'
  OBVIOUS
<1> USE DEF tables, handler, worker
<1>0. TypeOK
  BY DEF IInv
<1>1. ASSUME UNCHANGED <<attempts, task, pc>> PROVE PendingHasOwner'
  BY <1>1 DEF PendingHasOwner
<1>2. ASSUME NEW r \in Requests, UNCHANGED <<attempts, task>>, pc[r] # "spawn",
             NEW l, pc' = [pc EXCEPT ![r] = l]
      PROVE  PendingHasOwner'
  BY <1>0, <1>2 DEF PendingHasOwner, TypeOK
<1>3. ASSUME NEW r \in Requests, UNCHANGED <<attempts, pc>>,
             NEW t \in Working \cup {"error"}, task' = [task EXCEPT ![r] = t]
      PROVE  PendingHasOwner'
  BY <1>0, <1>3 DEF PendingHasOwner, TypeOK
<1>4. ASSUME NEW r \in Requests, InsertAttempt(r) PROVE PendingHasOwner'
  <2>1. /\ pc'[r] = "spawn" /\ task' = task
        /\ \A s \in Requests \ {r} : pc'[s] = pc[s]
    BY <1>0, <1>4 DEF InsertAttempt, Goto, TypeOK
  <2>2. \A s \in Requests \ {r} : attempts'[s] = attempts[s]
    BY <1>4, InsertEffect DEF InsertAttempt
  <2> QED
    BY <2>1, <2>2 DEF PendingHasOwner
<1>5. ASSUME NEW r \in Requests, SpawnTask(r) PROVE PendingHasOwner'
  <2>1. /\ task'[r] = "charging" /\ attempts' = attempts
        /\ \A s \in Requests \ {r} : pc'[s] = pc[s] /\ task'[s] = task[s]
    BY <1>0, <1>5 DEF SpawnTask, Goto, TypeOK
  <2> QED
    BY <2>1 DEF PendingHasOwner, Working
<1>6. ASSUME NEW r \in Requests, SettleAttempt(r) PROVE PendingHasOwner'
  <2>1. /\ attempts'[r].status # "pending"
        /\ \A s \in Requests \ {r} : attempts'[s] = attempts[s]
    BY <1>6, SettleEffect DEF SettleAttempt
  <2>2. pc' = pc /\ \A s \in Requests \ {r} : task'[s] = task[s]
    BY <1>0, <1>6 DEF SettleAttempt, TypeOK
  <2> QED
    BY <2>1, <2>2 DEF PendingHasOwner
<1>7. ASSUME NEW r \in Requests,
             \/ Arrive(r) \/ ArriveMalformed(r) \/ RejectReusedKey(r) \/ UseCached(r)
             \/ PollReserved(r) \/ SeeNoRow(r) \/ Reserve(r) \/ LoseReservation(r)
      PROVE  PendingHasOwner'
  BY <1>2, <1>7 DEF Arrive, ArriveMalformed, RejectReusedKey, UseCached, PollReserved, SeeNoRow,
                    Reserve, LoseReservation, NextTurn, Goto, Respond
<1>8. ASSUME NEW r \in Requests,
             \/ LockInvoice(r) \/ AttemptInProgress(r) \/ AbortClaim(r) \/ AwaitTask(r)
             \/ SyncWaitElapsed(r) \/ StoreAnswer(r)
      PROVE  PendingHasOwner'
  BY <1>2, <1>8 DEF LockInvoice, AttemptInProgress, AbortClaim, Deadlocked, AwaitTask,
                    SyncWaitElapsed, StoreAnswer, Goto, Return, Respond
<1>9. ASSUME NEW r \in Requests,
             PspReplies(r) \/ PspRequestFails(r) \/ UpdateAttempt(r) \/ AbortSettlement(r)
      PROVE  PendingHasOwner'
  BY <1>3, <1>9 DEF PspReplies, PspRequestFails, UpdateAttempt, AbortSettlement, GetOutcome,
                    Working
<1>10. ASSUME NEW r \in Requests, PspDecide(r) PROVE PendingHasOwner'
  BY <1>1, <1>10 DEF PspDecide
<1>11. ASSUME NEW i \in Invoices, InvoiceStep(i) PROVE PendingHasOwner'
  BY <1>1, <1>11 DEF InvoiceStep, CreateInvoice, FinalizeInvoice, VoidInvoice,
                      MarkUncollectible, Transition
<1>12. CASE Quiescent \/ UNCHANGED vars
  BY <1>1, <1>12 DEF Quiescent, vars
<1>13. ~Crash /\ \A r \in Requests : ~FaultStep(r)
  BY DEF Crash, FaultStep, HandlerDbError, ReserveUnknown, ClaimUnknown, StoreUnknown, TaskDbError,
         SettleUnknown, Disconnect
<1> QED
  BY <1>4, <1>5, <1>6, <1>7, <1>8, <1>9, <1>10, <1>11, <1>12, <1>13 DEF Next, HandlerStep, TaskStep

\* Without faults a pending attempt is never out of everybody's hands: neither
\* the way from the claim to the task nor a 202 drops it.
THEOREM PaymentsPendingHasOwner ==
  ASSUME Faults = {}
  PROVE  Spec => []PendingHasOwner
<1>1. Init => PendingHasOwner
  BY DEF Init, PendingHasOwner, NoAttempt
<1>2. IInv /\ PendingHasOwner /\ [Next]_vars => PendingHasOwner'
  BY PendingInductive
<1> QED
  BY <1>1, <1>2, InvInit, InvInductive, PTL DEF Spec
=============================================================================
