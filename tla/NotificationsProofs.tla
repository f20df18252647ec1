------------------------ MODULE NotificationsProofs ------------------------
(***************************************************************************)
(* The ledger and the dispatcher composed.  Each part behaves as it does   *)
(* alone, so what is proved of one part holds of the composition; what     *)
(* ties the two together has an invariant of its own.                      *)
(***************************************************************************)
EXTENDS Notifications, PaymentLedgerProofs, Sequences

Dispatcher == INSTANCE WebhookDispatcherProofs

-----------------------------------------------------------------------------
(* Each part alone.                                                        *)

\* A step of the composition is a step of the ledger, or leaves it alone.
LEMMA LedgerPart == [NNext]_vars => [Next]_ledger
<1> SUFFICES ASSUME [NNext]_vars PROVE [Next]_ledger
  OBVIOUS
<1>1. ASSUME NEW i \in Invoices, BeginCreate(i) \/ CommitCreate(i) PROVE [Next]_ledger
  BY <1>1 DEF BeginCreate, CommitCreate, Next
<1>2. ASSUME NEW a \in Attempts, NEW o \in PspOutcomes, BeginSettle(a, o) \/ CommitSettle(a, o)
      PROVE  [Next]_ledger
  BY <1>2 DEF BeginSettle, CommitSettle, Next
<1>3. CASE Rollback
  BY <1>3 DEF Rollback
<1>4. CASE LedgerStep
  BY <1>4 DEF LedgerStep, Next
<1>5. CASE DispatcherStep
  BY <1>5 DEF DispatcherStep
<1>6. CASE UNCHANGED vars
  BY <1>6 DEF vars
<1> QED
  BY <1>1, <1>2, <1>3, <1>4, <1>5, <1>6 DEF NNext

\* The outbox side of a step: the same actions under the names of the proofs.
LEMMA SameOutbox ==
  ASSUME NEW v
  PROVE  /\ Hooks!EnqueueEvent(v) <=> Dispatcher!EnqueueEvent(v)
         /\ Hooks!CommitEvent(v) <=> Dispatcher!CommitEvent(v)
         /\ Hooks!RollbackEvent(v) <=> Dispatcher!RollbackEvent(v)
<1> USE DEF Hooks!txVars, Hooks!replicaVars, Hooks!receiverVars, Hooks!Deliveries,
            Dispatcher!txVars, Dispatcher!replicaVars, Dispatcher!receiverVars,
            Dispatcher!Deliveries
<1>1. Hooks!EnqueueEvent(v) <=> Dispatcher!EnqueueEvent(v)
  BY DEF Hooks!EnqueueEvent, Dispatcher!EnqueueEvent
<1>2. Hooks!CommitEvent(v) <=> Dispatcher!CommitEvent(v)
  BY DEF Hooks!CommitEvent, Dispatcher!CommitEvent
<1>3. Hooks!RollbackEvent(v) <=> Dispatcher!RollbackEvent(v)
  BY DEF Hooks!RollbackEvent, Dispatcher!RollbackEvent
<1> QED
  BY <1>1, <1>2, <1>3

\* The same for the replicas, the faults and the clock.
LEMMA SameReplica ==
  ASSUME NEW p
  PROVE  /\ Hooks!TakeBatch(p) <=> Dispatcher!TakeBatch(p)
         /\ Hooks!Post(p) <=> Dispatcher!Post(p)
         /\ Hooks!RecordOutcome(p) <=> Dispatcher!RecordOutcome(p)
         /\ Hooks!CommitBatch(p) <=> Dispatcher!CommitBatch(p)
         /\ Hooks!AbandonBatch(p) <=> Dispatcher!AbandonBatch(p)
         /\ Hooks!FaultStep(p) <=> Dispatcher!FaultStep(p)
<1> USE DEF Hooks!txVars, Hooks!replicaVars, Hooks!receiverVars, Hooks!outboxVars,
            Dispatcher!txVars, Dispatcher!replicaVars, Dispatcher!receiverVars,
            Dispatcher!outboxVars, Hooks!Deliveries, Dispatcher!Deliveries,
            Hooks!NoRow, Dispatcher!NoRow, Hooks!Connected, Dispatcher!Connected,
            Hooks!EndTransaction, Dispatcher!EndTransaction,
            Hooks!BackToTicker, Dispatcher!BackToTicker
<1>1. Hooks!TakeBatch(p) <=> Dispatcher!TakeBatch(p)
  <2>1. Hooks!Batches = Dispatcher!Batches
    BY Zenon DEF Hooks!Batches, Dispatcher!Batches, Hooks!Due, Dispatcher!Due, Hooks!Unlocked,
                 Dispatcher!Unlocked, Hooks!Cardinality, Dispatcher!Cardinality
  <2> QED
    BY <2>1 DEF Hooks!TakeBatch, Dispatcher!TakeBatch
<1>2. Hooks!Post(p) <=> Dispatcher!Post(p)
  BY DEF Hooks!Post, Dispatcher!Post, Hooks!IsSuccess, Dispatcher!IsSuccess
<1>3. Hooks!RecordOutcome(p) <=> Dispatcher!RecordOutcome(p)
  BY DEF Hooks!RecordOutcome, Dispatcher!RecordOutcome, Hooks!Succeeded, Dispatcher!Succeeded,
         Hooks!Failed, Dispatcher!Failed, Hooks!Exhausts, Dispatcher!Exhausts
<1>4. Hooks!CommitBatch(p) <=> Dispatcher!CommitBatch(p)
  BY DEF Hooks!CommitBatch, Dispatcher!CommitBatch
<1>5. Hooks!AbandonBatch(p) <=> Dispatcher!AbandonBatch(p)
  BY DEF Hooks!AbandonBatch, Dispatcher!AbandonBatch
<1>6. Hooks!FaultStep(p) <=> Dispatcher!FaultStep(p)
  BY DEF Hooks!FaultStep, Dispatcher!FaultStep, Hooks!LoseConnection, Dispatcher!LoseConnection,
         Hooks!Crash, Dispatcher!Crash, Hooks!Fault, Dispatcher!Fault
<1> QED
  BY <1>1, <1>2, <1>3, <1>4, <1>5, <1>6

\* The clock of one instance is the clock of the other.
LEMMA SameTick == Hooks!Tick <=> Dispatcher!Tick
  BY DEF Hooks!Tick, Dispatcher!Tick, Hooks!WithinTimeout, Dispatcher!WithinTimeout, Hooks!Later,
         Dispatcher!Later, Hooks!Connected, Dispatcher!Connected, Hooks!Deliveries,
         Dispatcher!Deliveries, Hooks!outboxVars, Dispatcher!outboxVars

\* So is the registration of an endpoint.
LEMMA SameRegister == ASSUME NEW e PROVE Hooks!RegisterWebhook(e) <=> Dispatcher!RegisterWebhook(e)
  BY DEF Hooks!RegisterWebhook, Dispatcher!RegisterWebhook, Hooks!txVars, Hooks!replicaVars,
         Hooks!receiverVars, Dispatcher!txVars, Dispatcher!replicaVars, Dispatcher!receiverVars

\* The two instances of the dispatcher start alike.
LEMMA SameInit == Hooks!Init <=> Dispatcher!Init
  BY DEF Hooks!Init, Dispatcher!Init, Hooks!Deliveries, Dispatcher!Deliveries, Hooks!NoRow,
         Dispatcher!NoRow

\* The events that the transactions report are events of the ledger.
LEMMA ReportedEvents ==
  /\ \A i \in Invoices : CreatedEvent(i) \in Events
  /\ \A a \in Attempts, o \in PspOutcomes : SettledEvent(a, o) \in Events
  BY OutcomeTypes DEF CreatedEvent, SettledEvent, Events

\* A step of the composition is a step of the dispatcher, or leaves it alone.
LEMMA DispatcherPart == [NNext]_vars => [Hooks!Next]_hooks
<1> SUFFICES ASSUME [NNext]_vars PROVE [Hooks!Next]_hooks
  OBVIOUS
<1>1. ASSUME NEW i \in Invoices, BeginCreate(i) \/ CommitCreate(i) PROVE Hooks!Next
  BY <1>1, ReportedEvents DEF BeginCreate, CommitCreate, Hooks!Next
<1>2. ASSUME NEW a \in Attempts, NEW o \in PspOutcomes, BeginSettle(a, o) \/ CommitSettle(a, o)
      PROVE  Hooks!Next
  BY <1>2, ReportedEvents DEF BeginSettle, CommitSettle, Hooks!Next
<1>3. CASE Rollback
  BY <1>3 DEF Rollback, Hooks!Next
<1>4. CASE LedgerStep
  BY <1>4 DEF LedgerStep
<1>5. CASE DispatcherStep
  BY <1>5 DEF DispatcherStep, Hooks!Next
<1>6. CASE UNCHANGED vars
  BY <1>6 DEF vars
<1> QED
  BY <1>1, <1>2, <1>3, <1>4, <1>5, <1>6 DEF NNext

\* The dispatcher's next-state relation under the name of the proofs.
LEMMA SameNext == Hooks!Next <=> Dispatcher!Next
  BY SameRegister, SameOutbox, SameReplica, SameTick
     DEF Hooks!Next, Dispatcher!Next, Hooks!ReplicaStep, Dispatcher!ReplicaStep

\* The constants are what the dispatcher's proofs assume of them.
LEMMA Assumptions ==
  /\ Dispatcher!IsFiniteSet(Replicas) /\ Dispatcher!IsFiniteSet(Events)
  /\ Dispatcher!IsFiniteSet(Endpoints)
  BY NotificationsAssumption DEF IsFiniteSet, Dispatcher!IsFiniteSet

\* The invariant of the dispatcher survives every step of the composition.
LEMMA QueueInvKept == Dispatcher!QueueInv /\ [NNext]_vars => Dispatcher!QueueInv'
<1>1. Dispatcher!QueueInv /\ [Dispatcher!Next]_(Dispatcher!vars) => Dispatcher!QueueInv'
  BY Dispatcher!QueueInductive, Assumptions, NotificationsAssumption
<1>2. (UNCHANGED hooks) => UNCHANGED Dispatcher!vars
  BY DEF hooks, Dispatcher!vars, Dispatcher!outboxVars, Dispatcher!txVars, Dispatcher!replicaVars,
         Dispatcher!receiverVars
<1> QED
  BY <1>1, <1>2, DispatcherPart, SameNext
-----------------------------------------------------------------------------
(* What ties the two parts together.                                       *)

\* A row of the outbox exists.
Exists(d) == rows[d].status # "none"

\* An event is part of the ledger's history when its transaction has committed.
Committed == \A v \in Events : event[v] = "committed" <=> v \in outbox

\* Only rows that exist are sent, with or without a transaction.
SentExists ==
  /\ \A p \in Replicas : \A k \in 1 .. Len(batch[p]) : Exists(batch[p][k])
  /\ \A d \in Dispatcher!Deliveries : posts[d] > 0 => Exists(d)

\* Only an invoice that exists was reported as created.
CreatedExists == \A i \in Invoices : CreatedEvent(i) \in outbox => invoice[i] # "absent"

NInv == /\ TypeOK /\ OutboxTellsAttempts /\ CreatedExists
        /\ Dispatcher!QueueInv /\ SentExists
        /\ Committed /\ DurableWithChange

\* The dispatcher on its own neither makes nor removes a row.
LEMMA RowsStay ==
  ASSUME Dispatcher!QueueInv, DispatcherStep, NEW d \in Dispatcher!Deliveries
  PROVE  Exists(d)' <=> Exists(d)
<1>1. CASE UNCHANGED rows
  BY <1>1 DEF Exists
<1>2. ASSUME NEW p \in Replicas, Hooks!CommitBatch(p) PROVE Exists(d)' <=> Exists(d)
  <2>1. Dispatcher!CommitBatch(p)
    BY <1>2, SameReplica
  <2>2. \/ rows'[d] = rows[d]
        \/ rows'[d] \in Dispatcher!Rows /\ rows[d].status = "pending"
    BY <2>1, Dispatcher!CommittedRows, Assumptions, NotificationsAssumption
  <2> QED
    BY <2>2 DEF Exists, Dispatcher!Rows, Dispatcher!Statuses
<1>3. CASE Hooks!Tick
  <2>1. rows'[d] = Dispatcher!Later(rows[d])
    BY <1>3, SameTick DEF Dispatcher!Tick
  <2>2. rows[d] \in Dispatcher!Rows \cup {Dispatcher!NoRow}
    BY DEF Dispatcher!QueueInv, Dispatcher!TypeOK
  <2>3. rows'[d].status = rows[d].status
    BY <2>1, <2>2, Dispatcher!LaterRow, Assumptions, NotificationsAssumption
  <2> QED
    BY <2>3 DEF Exists
<1> QED
  BY <1>1, <1>2, <1>3
     DEF DispatcherStep, Hooks!RegisterWebhook, Hooks!ReplicaStep, Hooks!FaultStep,
         Hooks!TakeBatch, Hooks!Post, Hooks!RecordOutcome, Hooks!AbandonBatch,
         Hooks!LoseConnection, Hooks!Crash

\* A row that exists is there for good, and events change nothing a replica holds.
LEMMA RowsRemain ==
  ASSUME NInv, NNext, NEW d \in Dispatcher!Deliveries, Exists(d)
  PROVE  Exists(d)'
<1>1. CASE UNCHANGED rows
  BY <1>1 DEF Exists
<1>2. ASSUME NEW v, Hooks!CommitEvent(v) PROVE Exists(d)'
  BY <1>2 DEF Hooks!CommitEvent, Exists, Hooks!Deliveries, Dispatcher!Deliveries
<1>3. CASE DispatcherStep
  BY <1>3, RowsStay DEF NInv
<1> QED
  BY <1>1, <1>2, <1>3
     DEF NNext, BeginCreate, CommitCreate, BeginSettle, CommitSettle, Rollback, LedgerStep, hooks,
         Hooks!EnqueueEvent, Hooks!RollbackEvent

\* What a replica sends is, and stays, a row of the outbox.
LEMMA SendingStep ==
  ASSUME NInv, NNext
  PROVE  SentExists'
<1> USE DEF NInv
<1>0. /\ posts \in [Dispatcher!Deliveries -> Nat]
      /\ batch \in [Replicas -> Seq(Dispatcher!Deliveries)]
      /\ phase \in [Replicas -> {"idle", "post", "record", "commit"}]
  BY DEF Dispatcher!QueueInv, Dispatcher!TypeOK
<1>1. \A d \in Dispatcher!Deliveries : rows[d].status # "none" => rows'[d].status # "none"
  BY RowsRemain DEF Exists
<1>2. ASSUME NEW p \in Replicas, NEW k \in 1 .. Len(batch[p])
      PROVE  batch[p][k] \in Dispatcher!Deliveries /\ rows[batch[p][k]].status # "none"
  <2>1. batch[p] \in Seq(Dispatcher!Deliveries)
    BY <1>0
  <2> QED
    BY <1>2, <2>1 DEF SentExists, Exists
<1>3. \A d \in Dispatcher!Deliveries : posts[d] > 0 => rows[d].status # "none"
  BY DEF SentExists, Exists
<1>4. ASSUME \A d \in Dispatcher!Deliveries : (posts'[d] > 0) =>
               (posts[d] > 0 \/ rows[d].status # "none"),
             \A p \in Replicas : \A k \in 1 .. Len(batch'[p]) :
               \/ \E m \in 1 .. Len(batch[p]) : batch'[p][k] = batch[p][m]
               \/ batch'[p][k] \in Dispatcher!Deliveries /\ rows[batch'[p][k]].status # "none"
      PROVE  SentExists'
  <2>1. \A p \in Replicas : \A k \in 1 .. Len(batch'[p]) : rows'[batch'[p][k]].status # "none"
    BY <1>1, <1>2, <1>4
  <2>2. \A d \in Dispatcher!Deliveries : posts'[d] > 0 => rows'[d].status # "none"
    BY <1>1, <1>3, <1>4
  <2> QED
    BY <2>1, <2>2 DEF SentExists, Exists
<1>5. CASE UNCHANGED <<posts, batch>>
  BY <1>4, <1>5
<1>6. ASSUME NEW p \in Replicas, Hooks!TakeBatch(p) PROVE SentExists'
  <2>1. PICK s \in Dispatcher!Batches : batch' = [batch EXCEPT ![p] = s]
    BY <1>6, SameReplica DEF Dispatcher!TakeBatch
  <2>2. \A k \in 1 .. Len(s) : s[k] \in Dispatcher!Deliveries /\ rows[s[k]].status = "pending"
    BY <2>1, Dispatcher!BatchElements, Assumptions, NotificationsAssumption DEF Dispatcher!Due
  <2>3. UNCHANGED posts
    BY <1>6 DEF Hooks!TakeBatch, Hooks!receiverVars
  <2>4. \A q \in Replicas : batch'[q] = IF q = p THEN s ELSE batch[q]
    BY <1>0, <2>1
  <2> QED
    BY <1>4, <2>2, <2>3, <2>4
<1>7. ASSUME NEW p \in Replicas, Hooks!Post(p) PROVE SentExists'
  <2>1. phase[p] = "post" /\ UNCHANGED batch /\ posts' = [posts EXCEPT ![Head(batch[p])] = @ + 1]
    BY <1>7 DEF Hooks!Post
  <2>2. batch[p] \in Seq(Dispatcher!Deliveries) /\ batch[p] # <<>>
    BY <1>0, <2>1 DEF Dispatcher!QueueInv, Dispatcher!Phases
  <2>3. Head(batch[p]) = batch[p][1] /\ 1 \in 1 .. Len(batch[p])
    BY <2>2
  <2>4. rows[Head(batch[p])].status # "none"
    BY <1>2, <2>3
  <2>5. \A d \in Dispatcher!Deliveries : (posts'[d] > 0) =>
          (posts[d] > 0 \/ rows[d].status # "none")
    BY <1>0, <2>1, <2>4
  <2> QED
    BY <1>4, <2>1, <2>5
<1>8. ASSUME NEW p \in Replicas, Hooks!RecordOutcome(p) PROVE SentExists'
  <2>1. /\ phase[p] = "record" /\ UNCHANGED posts /\ batch' = [batch EXCEPT ![p] = Tail(@)]
    BY <1>8 DEF Hooks!RecordOutcome, Hooks!receiverVars
  <2>2. batch[p] \in Seq(Dispatcher!Deliveries) /\ batch[p] # <<>>
    BY <1>0, <2>1 DEF Dispatcher!QueueInv, Dispatcher!Phases
  <2>3. \A k \in 1 .. Len(Tail(batch[p])) :
          k + 1 \in 1 .. Len(batch[p]) /\ Tail(batch[p])[k] = batch[p][k + 1]
    BY <2>2, Dispatcher!TailOfBatch, Assumptions, NotificationsAssumption
  <2>4. \A q \in Replicas : batch'[q] = IF q = p THEN Tail(batch[p]) ELSE batch[q]
    BY <1>0, <2>1
  <2> QED
    BY <1>4, <2>1, <2>3, <2>4
<1>9. ASSUME NEW p \in Replicas, Hooks!BackToTicker(p), UNCHANGED posts PROVE SentExists'
  <2>1. \A q \in Replicas : batch'[q] = IF q = p THEN <<>> ELSE batch[q]
    BY <1>0, <1>9 DEF Hooks!BackToTicker
  <2> QED
    BY <1>4, <1>9, <2>1
<1> USE DEF Hooks!replicaVars, Hooks!receiverVars
<1>10. CASE DispatcherStep
  <2>1. ASSUME NEW p \in Replicas, Hooks!ReplicaStep(p) \/ Hooks!FaultStep(p) PROVE SentExists'
    BY <1>5, <1>6, <1>7, <1>8, <1>9, <2>1
       DEF Hooks!ReplicaStep, Hooks!FaultStep, Hooks!CommitBatch, Hooks!AbandonBatch,
           Hooks!LoseConnection, Hooks!Crash
  <2>2. ASSUME NEW e \in Endpoints, Hooks!RegisterWebhook(e) PROVE SentExists'
    BY <1>5, <2>2 DEF Hooks!RegisterWebhook
  <2>3. CASE Hooks!Tick
    BY <1>5, <2>3 DEF Hooks!Tick
  <2> QED
    BY <1>10, <2>1, <2>2, <2>3 DEF DispatcherStep
<1>11. ASSUME NEW v, Hooks!EnqueueEvent(v) \/ Hooks!CommitEvent(v) \/ Hooks!RollbackEvent(v)
       PROVE  SentExists'
  BY <1>5, <1>11 DEF Hooks!EnqueueEvent, Hooks!CommitEvent, Hooks!RollbackEvent
<1>12. CASE LedgerStep
  BY <1>5, <1>12 DEF LedgerStep, hooks
<1> QED
  BY <1>10, <1>11, <1>12 DEF NNext, BeginCreate, CommitCreate, BeginSettle, CommitSettle, Rollback

\* Who was created exists.
LEMMA CreatedStep == ASSUME TypeOK, CreatedExists, [Next]_ledger PROVE CreatedExists'
<1>1. ASSUME NEW i \in Invoices, Create(i) PROVE CreatedExists'
  BY <1>1 DEF Create, CreatedExists, CreatedEvent, TypeOK
<1>2. ASSUME NEW i \in Invoices, Move(i) PROVE CreatedExists'
  BY <1>2 DEF Move, CreatedExists, TypeOK
<1>3. ASSUME NEW a \in Attempts, NEW i \in Invoices, Claim(a, i) PROVE CreatedExists'
  BY <1>3 DEF Claim, CreatedExists
<1>4. ASSUME NEW a \in Attempts, NEW o \in PspOutcomes, Settle(a, o) PROVE CreatedExists'
  <2>1. \A i \in Invoices : CreatedEvent(i) # [event |-> EventOf(o), subject |-> a]
    BY OutcomeTypes DEF CreatedEvent
  <2>2. \A i \in Invoices : invoice'[i] = invoice[i] \/ invoice'[i] = "paid"
    BY <1>4 DEF Settle, TypeOK
  <2> QED
    BY <1>4, <2>1, <2>2 DEF Settle, CreatedExists
<1>5. CASE UNCHANGED ledger
  BY <1>5 DEF ledger, CreatedExists
<1> QED
  BY <1>1, <1>2, <1>3, <1>4, <1>5 DEF Next

\* The COMMIT of a transaction that reports v: its change, and its deliveries.
LEMMA CommitStep ==
  ASSUME NInv, NEW v \in Events, Hooks!CommitEvent(v), outbox' = outbox \cup {v}
  PROVE  Committed' /\ DurableWithChange'
<1> USE DEF NInv
<1>1. /\ event[v] = "open" /\ event' = [event EXCEPT ![v] = "committed"] /\ UNCHANGED addressed
      /\ event \in [Events -> {"none", "open", "committed"}]
  BY DEF Hooks!CommitEvent, Dispatcher!QueueInv, Dispatcher!TypeOK
<1>2. Committed'
  BY <1>1 DEF Committed
<1>3. ASSUME NEW w \in Events, NEW e \in Endpoints
      PROVE  /\ (w = v /\ e \in addressed[v]) => rows'[<<w, e>>].status = "pending"
             /\ ~(w = v /\ e \in addressed[v]) => rows'[<<w, e>>] = rows[<<w, e>>]
  BY DEF Hooks!CommitEvent, Hooks!Deliveries
<1>4. v \notin outbox
  BY <1>1 DEF Committed
<1> QED
  BY <1>1, <1>2, <1>3, <1>4 DEF DurableWithChange

\* No other step touches what is durable.
LEMMA OtherSteps ==
  ASSUME NInv, UNCHANGED outbox,
         \/ UNCHANGED hooks
         \/ \E v \in Events : Hooks!EnqueueEvent(v) \/ Hooks!RollbackEvent(v)
         \/ DispatcherStep
  PROVE  Committed' /\ DurableWithChange'
<1> USE DEF NInv
<1>1. CASE UNCHANGED hooks
  BY <1>1 DEF hooks, Committed, DurableWithChange
<1>2. ASSUME NEW v \in Events, Hooks!EnqueueEvent(v) \/ Hooks!RollbackEvent(v)
      PROVE  Committed' /\ DurableWithChange'
  <2>1. /\ event[v] \in {"none", "open"} /\ event'[v] \in {"none", "open"} /\ UNCHANGED rows
        /\ \A w \in Events \ {v} : event'[w] = event[w] /\ addressed'[w] = addressed[w]
    BY <1>2 DEF Hooks!EnqueueEvent, Hooks!RollbackEvent, Dispatcher!QueueInv, Dispatcher!TypeOK
  <2>2. v \notin outbox
    BY <2>1 DEF Committed
  <2> QED
    BY <2>1, <2>2 DEF Committed, DurableWithChange
<1>3. CASE DispatcherStep
  <2>1. UNCHANGED <<event, addressed>>
    BY <1>3 DEF DispatcherStep, Hooks!RegisterWebhook, Hooks!ReplicaStep, Hooks!FaultStep,
                Hooks!TakeBatch, Hooks!Post, Hooks!RecordOutcome, Hooks!CommitBatch,
                Hooks!AbandonBatch, Hooks!LoseConnection, Hooks!Crash, Hooks!Tick, Hooks!outboxVars
  <2>2. \A w \in Events, e \in Endpoints :
          (rows'[<<w, e>>].status # "none") <=> (rows[<<w, e>>].status # "none")
    BY <1>3, RowsStay DEF Exists, Dispatcher!Deliveries
  <2> QED
    BY <2>1, <2>2 DEF Committed, DurableWithChange
<1> QED
  BY <1>1, <1>2, <1>3

\* Initially nothing has happened and nothing was heard.
LEMMA NotificationsInitial == NInit => NInv
<1> SUFFICES ASSUME NInit PROVE NInv
  OBVIOUS
<1>1. TypeOK /\ OutboxTellsAttempts /\ CreatedExists
  BY InvInit DEF NInit, IInv, Init, OutboxTellsAttempts, NoAttempt, CreatedExists
<1>2. Dispatcher!QueueInv
  BY SameInit, Dispatcher!QueueInitial, Assumptions, NotificationsAssumption DEF NInit
<1>3. SentExists /\ Committed /\ DurableWithChange
  BY DEF NInit, Init, Hooks!Init, Hooks!Deliveries, Hooks!NoRow, Dispatcher!Deliveries, SentExists,
         Exists, Committed, DurableWithChange
<1> QED
  BY <1>1, <1>2, <1>3 DEF NInv

\* One step per action of the composition.
LEMMA NotificationsInductive == NInv /\ [NNext]_vars => NInv'
<1> SUFFICES ASSUME NInv, [NNext]_vars PROVE NInv'
  OBVIOUS
<1>1. (TypeOK /\ OutboxTellsAttempts /\ CreatedExists)'
  BY LedgerPart, TypeInductive, OutboxInductive, CreatedStep DEF NInv
<1>2. Dispatcher!QueueInv'
  BY QueueInvKept DEF NInv
<1>3. CASE UNCHANGED vars
  <2>1. SentExists' /\ UNCHANGED <<outbox, hooks>>
    BY <1>3 DEF vars, ledger, hooks, SentExists, Exists, NInv
  <2> QED
    BY <1>1, <1>2, <2>1, OtherSteps DEF NInv
<1>4. CASE NNext
  <2>1. SentExists'
    BY <1>4, SendingStep
  <2> SUFFICES Committed' /\ DurableWithChange'
    BY <1>1, <1>2, <2>1 DEF NInv
  <2>2. ASSUME NEW i \in Invoices, BeginCreate(i) PROVE Committed' /\ DurableWithChange'
    BY <2>2, ReportedEvents, OtherSteps DEF BeginCreate, ledger
  <2>3. ASSUME NEW i \in Invoices, CommitCreate(i) PROVE Committed' /\ DurableWithChange'
    BY <2>3, ReportedEvents, CommitStep DEF CommitCreate, Create, CreatedEvent
  <2>4. ASSUME NEW a \in Attempts, NEW o \in PspOutcomes, BeginSettle(a, o)
        PROVE  Committed' /\ DurableWithChange'
    BY <2>4, ReportedEvents, OtherSteps DEF BeginSettle, ledger
  <2>5. ASSUME NEW a \in Attempts, NEW o \in PspOutcomes, CommitSettle(a, o)
        PROVE  Committed' /\ DurableWithChange'
    BY <2>5, ReportedEvents, CommitStep DEF CommitSettle, Settle, SettledEvent
  <2>6. CASE Rollback
    BY <2>6, OtherSteps DEF Rollback, ledger
  <2>7. CASE LedgerStep
    BY <2>7, OtherSteps DEF LedgerStep, Move, Claim
  <2>8. CASE DispatcherStep
    BY <2>8, OtherSteps DEF DispatcherStep, ledger
  <2> QED
    BY <1>4, <2>2, <2>3, <2>4, <2>5, <2>6, <2>7, <2>8 DEF NNext
<1> QED
  BY <1>3, <1>4

-----------------------------------------------------------------------------
(* Theorems.                                                               *)

\* In the composition the ledger and the dispatcher each behave as they do alone,
\* so everything proved of the one and of the other holds of both together.
THEOREM PartsBehave == NSpec => Spec /\ Hooks!Spec
<1>1. NInit => Init /\ Hooks!Init
  BY DEF NInit
<1>2. (UNCHANGED hooks) => UNCHANGED Hooks!vars
  BY DEF hooks, Hooks!vars, Hooks!outboxVars, Hooks!txVars, Hooks!replicaVars, Hooks!receiverVars
<1>3. [NNext]_vars => [Next]_ledger /\ [Hooks!Next]_(Hooks!vars)
  BY <1>2, LedgerPart, DispatcherPart
<1> QED
  BY <1>1, <1>3, PTL DEF NSpec, Spec, Hooks!Spec

\* The deliveries of an event exist exactly when its change is durable.
THEOREM ChangeAndEventTogether == NSpec => []DurableWithChange
<1>1. NInv => DurableWithChange
  BY DEF NInv
<1> QED
  BY <1>1, NotificationsInitial, NotificationsInductive, PTL DEF NSpec

\* No receiver is ever told something that is not so.
THEOREM ReceiversHearTheTruth == NSpec => []HeardIsTrue
<1>1. NInv => HeardIsTrue
  <2> SUFFICES ASSUME NInv, NEW v \in Events, NEW e \in Endpoints, posts[<<v, e>>] > 0
               PROVE  CASE v.event = "invoice.paid" -> attempts[v.subject].status = "succeeded"
                        [] v.event = "invoice.payment_failed" ->
                             attempts[v.subject].status = "failed"
                        [] OTHER -> invoice[v.subject] # "absent"
    BY DEF HeardIsTrue
  <2>1. v \in outbox
    BY DEF NInv, SentExists, Exists, DurableWithChange, Dispatcher!Deliveries
  <2>2. CASE v.event = "invoice.created"
    <3>1. v.subject \in Invoices /\ v = CreatedEvent(v.subject)
      BY <2>2 DEF Events, CreatedEvent
    <3>2. invoice[v.subject] # "absent"
      BY <2>1, <3>1 DEF NInv, CreatedExists
    <3> QED
      BY <2>2, <3>2
  <2>3. CASE v.event # "invoice.created"
    <3>1. v.subject \in Attempts /\ v.event \in {"invoice.paid", "invoice.payment_failed"}
      BY <2>3 DEF Events
    <3>2. v \in {w \in outbox : w.event # "invoice.created" /\ w.subject = v.subject}
      BY <2>1, <2>3
    <3>3. \/ attempts[v.subject].status = "succeeded" /\ v.event = "invoice.paid"
          \/ attempts[v.subject].status = "failed" /\ v.event = "invoice.payment_failed"
      BY <3>1, <3>2 DEF NInv, OutboxTellsAttempts
    <3> QED
      BY <3>1, <3>3
  <2> QED
    BY <2>2, <2>3
<1> QED
  BY <1>1, NotificationsInitial, NotificationsInductive, PTL DEF NSpec
=============================================================================
