---------------------- MODULE WebhookDispatcherProofs ----------------------
(***************************************************************************)
(* The safety properties of the webhook dispatcher, for any number of      *)
(* replicas, events, endpoints and faults, any batch size, any limit of    *)
(* attempts and any table of delays.                                       *)
(***************************************************************************)
EXTENDS WebhookDispatcher, FiniteSetTheorems, SequenceTheorems, TLAPS

-----------------------------------------------------------------------------
(* The inductive invariant, in parts.                                      *)

\* A replica has something to send while it sends, and no transaction while it
\* waits.
Phases ==
  \A p \in Replicas : /\ phase[p] = "idle" => held[p] = {}
                      /\ phase[p] \in {"post", "record"} => batch[p] # <<>>

\* A delivery is in the transaction of one replica at a time ...
OneReplicaPerDelivery ==
  \A p, q \in Replicas : p # q => held[p] \cap held[q] = {}

\* ... and pending until it commits.
Locks == /\ OneReplicaPerDelivery
         /\ \A p \in Replicas : \A d \in held[p] : rows[d].status = "pending"

\* While its transaction lives, a replica's batch is what it has locked and not
\* yet written.
Batched ==
  \A p \in Replicas : Connected(p) =>
    /\ \A i \in 1 .. Len(batch[p]) : /\ batch[p][i] \in held[p]
                                     /\ writes[p][batch[p][i]] = NoRow
    /\ \A i, j \in 1 .. Len(batch[p]) : i # j => batch[p][i] # batch[p][j]

\* Rows exist once their event is committed; a pending one has attempts left, and
\* one that was given up has none.
Counted ==
  \A d \in Deliveries :
    /\ event[d[1]] # "committed" => rows[d] = NoRow
    /\ rows[d].status = "pending" => rows[d].count < MaxAttempts
    /\ rows[d].status = "failed_exhausted" => rows[d].count = MaxAttempts

\* What a transaction may make of a row: one outcome.
Outcome(row, w) ==
  \/ w.status = "succeeded" /\ w.count = row.count
  \/ /\ w.count = row.count + 1
     /\ w.status = IF w.count = MaxAttempts THEN "failed_exhausted" ELSE "pending"

\* Only locked rows are written, and each with one outcome.
Written ==
  \A p \in Replicas : \A d \in Deliveries : writes[p][d] # NoRow =>
    d \in held[p] /\ Outcome(rows[d], writes[p][d])

QueueInv == TypeOK /\ Phases /\ Locks /\ Batched /\ Counted /\ Written

\* The receiver has accepted d, or refused it more often than its row tells.
Happened(ok, d) == IF ok THEN accepted[d] > 0 ELSE rows[d].count + 1 + accepted[d] <= posts[d]

\* What is about to be committed, or written, is true too.
Truth ==
  /\ RowTellsTheTruth
  /\ \A p \in Replicas : \A d \in Deliveries : writes[p][d] # NoRow =>
       Happened(writes[p][d].status = "succeeded", d)
  /\ \A p \in Replicas : (phase[p] = "record" /\ Connected(p)) =>
       Happened(reply[p] = "ok", Head(batch[p]))

\* A row comes due no earlier than its delay after the batch in which it failed,
\* as far as times are told apart.
Spaced(row, t) == t >= Backoff[row.count] - row.due \/ t = Horizon
Times ==
  /\ SpacedByBackoff
  /\ \A d \in Deliveries : (rows[d].status = "pending" /\ rows[d].count > 0) =>
       Spaced(rows[d], rested[d])
  /\ \A p \in Replicas : \A d \in Deliveries : writes[p][d].status = "pending" =>
       Spaced(writes[p][d], age[p])

\* A replica that has lost its connection and will find out only after one POST.
Doomed(p, d) == ~Connected(p) /\ phase[p] = "post" /\ Head(batch[p]) = d

Dooms(d) == {p \in Replicas : Doomed(p, d)}

\* The replicas that will commit what came of a POST of d.
Open(d) == {p \in Replicas : Unsettled(p, d)}

\* Every POST beyond what the rows tell, made or about to be made without a
\* transaction, is paid for by a fault.
Balanced(d) ==
  posts[d] + Cardinality(Dooms(d)) <= Recorded(rows[d]) + Cardinality(Open(d)) + faults
Repeats == \A d \in Deliveries : Balanced(d)

-----------------------------------------------------------------------------
(* Facts about batches and rows.                                           *)

USE DispatcherAssumption

\* What is left of a batch when its first delivery is done.
LEMMA TailOfBatch ==
  ASSUME NEW s \in Seq(Deliveries), s # <<>>
  PROVE  /\ Head(s) \in Deliveries /\ Head(s) = s[1]
         /\ Len(s) \in Nat /\ Len(s) >= 1
         /\ Tail(s) \in Seq(Deliveries) /\ Len(Tail(s)) = Len(s) - 1
         /\ \A i \in 1 .. Len(Tail(s)) : Tail(s)[i] = s[i + 1] /\ i + 1 \in 1 .. Len(s)
<1>1. Len(s) \in Nat /\ Len(s) >= 1
  BY EmptySeq, LenProperties
<1> QED
  BY <1>1, HeadTailProperties, ElementOfSeq

\* What the polling query returns: a sequence of different rows that are due and
\* that no replica has locked.
LEMMA BatchElements ==
  ASSUME NEW s \in Batches
  PROVE  /\ s \in Seq(Deliveries) /\ DOMAIN s = 1 .. Len(s)
         /\ \A i \in 1 .. Len(s) : s[i] \in Deliveries /\ Due(s[i]) /\ Unlocked(s[i])
         /\ \A i, j \in 1 .. Len(s) : i # j => s[i] # s[j]
<1> DEFINE S == {d \in Deliveries : Due(d) /\ Unlocked(d)}
           n == IF Cardinality(S) < BatchSize THEN Cardinality(S) ELSE BatchSize
<1>1. IsFiniteSet(Deliveries)
  BY FS_Product DEF Deliveries
<1>2. Cardinality(S) \in Nat
  <2>1. IsFiniteSet(S)
    BY <1>1, FS_Subset
  <2> QED
    BY <2>1, FS_CardinalityType
<1>3. n \in Nat
  BY <1>2
<1>4. s \in [1 .. n -> S] /\ \A i, j \in 1 .. n : i < j => s[i] # s[j]
  BY DEF Batches
<1> HIDE DEF n
<1>5. s \in Seq(Deliveries) /\ Len(s) = n
  BY <1>3, <1>4, IsASeq, LenProperties
<1>6. \A i \in 1 .. n : s[i] \in Deliveries /\ Due(s[i]) /\ Unlocked(s[i])
  BY <1>4
<1>7. \A i, j \in 1 .. n : i # j => s[i] # s[j]
  BY <1>3, <1>4
<1> QED
  BY <1>4, <1>5, <1>6, <1>7

\* Time changes nothing of a row but `due`, and that only by one and within bounds.
LEMMA LaterRow ==
  ASSUME NEW row \in Rows \cup {NoRow}
  PROVE  /\ Later(row) \in Rows \cup {NoRow}
         /\ Later(row).status = row.status /\ Later(row).count = row.count
         /\ Later(row) = NoRow <=> row = NoRow
         /\ row.status = "pending" => \/ Later(row).due = row.due - 1
                                      \/ Later(row).due = row.due /\ row.due = -Horizon
  BY DEF Later, Rows, NoRow, Statuses

\* A row that exists has one of the three statuses.
LEMMA RowStatus ==
  ASSUME NEW row \in Rows \cup {NoRow}
  PROVE  /\ row = NoRow <=> row.status = "none"
         /\ row.status \in Statuses \cup {"none"}
         /\ row.count \in 0 .. MaxAttempts
         /\ row.due \in -Horizon .. Horizon
  BY DEF Rows, NoRow, Statuses

\* What send_and_record writes is an outcome of the row.
LEMMA OutcomeRow ==
  ASSUME NEW row \in Rows, row.count < MaxAttempts, NEW t \in 0 .. Horizon
  PROVE  /\ Succeeded(row) \in Rows /\ Failed(row, t) \in Rows
         /\ Outcome(row, Succeeded(row)) /\ Outcome(row, Failed(row, t))
         /\ Failed(row, t).count = row.count + 1
         /\ Failed(row, t).status # "succeeded"
         /\ Succeeded(row).status = "succeeded"
         /\ Failed(row, t).status = "pending" => Failed(row, t).due = Backoff[row.count + 1] - t
<1>1. Succeeded(row) \in Rows /\ Outcome(row, Succeeded(row)) /\ Succeeded(row).status = "succeeded"
  BY DEF Succeeded, Rows, Outcome, Statuses
<1>2. CASE row.count + 1 >= MaxAttempts
  <2>1. row.count + 1 = MaxAttempts
    BY <1>2 DEF Rows
  <2> QED
    BY <1>1, <2>1 DEF Failed, Exhausts, Rows, Outcome, Statuses
<1>3. CASE row.count + 1 < MaxAttempts
  <2>1. row.count + 1 \in 1 .. MaxAttempts - 1
    BY <1>3 DEF Rows
  <2>2. Backoff[row.count + 1] \in 0 .. Horizon
    BY <2>1
  <2>3. Failed(row, t) = [status |-> "pending", count |-> row.count + 1,
                          due |-> Backoff[row.count + 1] - t]
    BY <2>1, <1>3 DEF Failed, Exhausts
  <2> QED
    BY <1>1, <1>3, <2>1, <2>2, <2>3 DEF Rows, Outcome, Statuses
<1> QED
  BY <1>2, <1>3 DEF Rows

-----------------------------------------------------------------------------
(* Types, locks, batches and outcomes.                                     *)

\* Initially there is no row and no replica at work.
LEMMA QueueInitial == Init => QueueInv
<1> SUFFICES ASSUME Init PROVE QueueInv
  OBVIOUS
<1>1. TypeOK
  BY EmptySeq DEF Init, TypeOK
<1>2. Phases /\ Locks /\ Batched /\ Written
  BY DEF Init, Phases, Locks, OneReplicaPerDelivery, Batched, Connected, Written
<1>3. Counted
  BY DEF Init, Counted, NoRow, Deliveries
<1> QED
  BY <1>1, <1>2, <1>3 DEF QueueInv

\* Reporting an event changes no row that a replica may have locked.
LEMMA OutboxKeeps ==
  ASSUME QueueInv, NEW v \in Events, EnqueueEvent(v) \/ CommitEvent(v) \/ RollbackEvent(v)
  PROVE  QueueInv' /\ \A p \in Replicas : \A d \in held[p] : rows'[d] = rows[d]
<1> USE DEF QueueInv
<1>0. UNCHANGED <<txVars, replicaVars, receiverVars, faults>>
  BY DEF EnqueueEvent, CommitEvent, RollbackEvent
<1>1. CASE EnqueueEvent(v) \/ RollbackEvent(v)
  <2>1. /\ event[v] # "committed" /\ rows' = rows
        /\ event' \in [Events -> {"none", "open", "committed"}]
        /\ \A w \in Events : event'[w] # "committed" <=> event[w] # "committed"
    BY <1>1 DEF EnqueueEvent, RollbackEvent, TypeOK
  <2>2. TypeOK'
    BY <1>0, <1>1, <2>1
       DEF EnqueueEvent, RollbackEvent, TypeOK, txVars, replicaVars, receiverVars
  <2>3. Counted'
    BY <2>1 DEF Counted, Deliveries
  <2> QED
    BY <1>0, <2>1, <2>2, <2>3 DEF Phases, Locks, OneReplicaPerDelivery, Batched, Connected, Written,
       txVars, replicaVars
<1>2. CASE CommitEvent(v)
  <2>1. PICK lag \in 0 .. Horizon :
          rows' = [d \in Deliveries |->
                     IF d[1] = v /\ d[2] \in addressed[v]
                     THEN [status |-> "pending", count |-> 0, due |-> -lag] ELSE rows[d]]
    BY <1>2 DEF CommitEvent
  <2>2. /\ event[v] = "open" /\ event' = [event EXCEPT ![v] = "committed"]
        /\ UNCHANGED <<endpoints, addressed>>
    BY <1>2 DEF CommitEvent
  <2>3. [status |-> "pending", count |-> 0, due |-> -lag] \in Rows
    BY DEF Rows, Statuses
  <2>4. TypeOK'
    BY <1>0, <2>1, <2>2, <2>3 DEF TypeOK, txVars, replicaVars, receiverVars
  <2>5. \A d \in Deliveries : rows'[d] # rows[d] =>
          d[1] = v /\ rows[d] = NoRow /\ rows'[d].status = "pending" /\ rows'[d].count = 0
    BY <2>1, <2>2 DEF Counted
  <2>6. Counted'
    <3> SUFFICES ASSUME NEW d \in Deliveries
                 PROVE  /\ event'[d[1]] # "committed" => rows'[d] = NoRow
                        /\ rows'[d].status = "pending" => rows'[d].count < MaxAttempts
                        /\ rows'[d].status = "failed_exhausted" => rows'[d].count = MaxAttempts
      BY DEF Counted
    <3>1. d[1] \in Events
      BY DEF Deliveries
    <3>2. CASE rows'[d] = rows[d]
      BY <2>2, <3>1, <3>2 DEF Counted, TypeOK
    <3>3. CASE rows'[d] # rows[d]
      BY <2>2, <2>5, <3>1, <3>3 DEF TypeOK
    <3> QED
      BY <3>2, <3>3
  <2>7. \A p \in Replicas : \A d \in held[p] : rows'[d] = rows[d]
    BY <2>5 DEF Locks, TypeOK, NoRow
  <2> QED
    BY <1>0, <2>4, <2>6, <2>7 DEF Phases, Locks, OneReplicaPerDelivery, Batched, Connected, Written,
       txVars, replicaVars
<1> QED
  BY <1>1, <1>2

\* Taking a batch locks rows that nobody has locked.
LEMMA TakeKeeps ==
  ASSUME QueueInv, NEW p \in Replicas, TakeBatch(p)
  PROVE  /\ QueueInv'
         /\ \A q \in Replicas : \A d \in held'[q] : d \in held[q] \/ (q = p /\ Due(d))
<1> USE DEF QueueInv
<1>1. PICK s \in Batches : /\ s # <<>> /\ batch' = [batch EXCEPT ![p] = s]
                           /\ held' = [held EXCEPT ![p] = {s[i] : i \in DOMAIN s}]
  BY DEF TakeBatch
<1>2. /\ phase[p] = "idle" /\ age' = [age EXCEPT ![p] = 0]
      /\ phase' = [phase EXCEPT ![p] = "post"]
      /\ UNCHANGED <<endpoints, event, addressed, rows, writes, reply, spent, posts, accepted,
                     rested, faults>>
  BY DEF TakeBatch, outboxVars, receiverVars
<1>3. /\ s \in Seq(Deliveries) /\ DOMAIN s = 1 .. Len(s)
      /\ \A i \in 1 .. Len(s) : s[i] \in Deliveries /\ Due(s[i]) /\ Unlocked(s[i])
      /\ \A i, j \in 1 .. Len(s) : i # j => s[i] # s[j]
  BY BatchElements
<1>4. /\ held'[p] = {s[i] : i \in 1 .. Len(s)} /\ batch'[p] = s /\ held[p] = {}
      /\ \A q \in Replicas \ {p} : held'[q] = held[q] /\ batch'[q] = batch[q]
  BY <1>1, <1>2, <1>3 DEF TypeOK, Phases
<1>5. TypeOK'
  <2>1. held' \in [Replicas -> SUBSET Deliveries]
    BY <1>1, <1>3 DEF TypeOK
  <2>2. batch' \in [Replicas -> Seq(Deliveries)]
    BY <1>1, <1>3 DEF TypeOK
  <2>3. /\ age' \in [Replicas -> 0 .. Horizon]
        /\ phase' \in [Replicas -> {"idle", "post", "record", "commit"}]
    BY <1>2 DEF TypeOK
  <2> QED
    BY <1>2, <2>1, <2>2, <2>3 DEF TypeOK
<1>6. \A q \in Replicas : \A d \in held'[q] : d \in held[q] \/ (q = p /\ Due(d) /\ Unlocked(d))
  <2>1. \A d \in held'[p] : Due(d) /\ Unlocked(d)
    BY <1>3, <1>4
  <2>2. \A q \in Replicas \ {p} : held'[q] = held[q]
    BY <1>4
  <2> QED
    BY <2>1, <2>2
<1>7. Phases'
  BY <1>1, <1>2, <1>4 DEF Phases, TypeOK
<1>8. Locks'
  <2>1. OneReplicaPerDelivery'
    BY <1>6 DEF Locks, OneReplicaPerDelivery, Unlocked
  <2>2. \A q \in Replicas : \A d \in held'[q] : rows'[d].status = "pending"
    BY <1>2, <1>6 DEF Locks, Due
  <2> QED
    BY <2>1, <2>2 DEF Locks
<1>9. Batched'
  <2>1. \A d \in Deliveries : writes[p][d] = NoRow
    BY <1>4 DEF Written
  <2>2. \A i \in 1 .. Len(s) : s[i] \in held'[p] /\ writes[p][s[i]] = NoRow
    BY <1>3, <1>4, <2>1
  <2>3. \A q \in Replicas \ {p} : Connected(q)' =>
          /\ \A i \in 1 .. Len(batch'[q]) : /\ batch'[q][i] \in held'[q]
                                            /\ writes'[q][batch'[q][i]] = NoRow
          /\ \A i, j \in 1 .. Len(batch'[q]) : i # j => batch'[q][i] # batch'[q][j]
    <3> SUFFICES ASSUME NEW q \in Replicas \ {p}, Connected(q)'
                 PROVE  /\ \A i \in 1 .. Len(batch'[q]) : /\ batch'[q][i] \in held'[q]
                                                          /\ writes'[q][batch'[q][i]] = NoRow
                        /\ \A i, j \in 1 .. Len(batch'[q]) : i # j => batch'[q][i] # batch'[q][j]
      OBVIOUS
    <3>1. held'[q] = held[q] /\ batch'[q] = batch[q] /\ writes'[q] = writes[q] /\ Connected(q)
      BY <1>2, <1>4 DEF Connected
    <3> QED
      BY <3>1 DEF Batched
  <2>4. \A i \in 1 .. Len(batch'[p]) : /\ batch'[p][i] \in held'[p]
                                        /\ writes'[p][batch'[p][i]] = NoRow
    BY <1>2, <1>4, <2>2
  <2>5. \A i, j \in 1 .. Len(batch'[p]) : i # j => batch'[p][i] # batch'[p][j]
    BY <1>3, <1>4
  <2> QED
    BY <2>3, <2>4, <2>5 DEF Batched
<1>10. Counted'
  BY <1>2 DEF Counted
<1>11. Written'
  BY <1>2, <1>4 DEF Written
<1> QED
  BY <1>5, <1>6, <1>7, <1>8, <1>9, <1>10, <1>11

\* Posting changes only what the receiver has seen.
LEMMA PostKeeps ==
  ASSUME QueueInv, NEW p \in Replicas, Post(p)
  PROVE  QueueInv' /\ Head(batch[p]) \in Deliveries
<1> USE DEF QueueInv
<1>1. Head(batch[p]) \in Deliveries
  <2>1. batch[p] \in Seq(Deliveries) /\ batch[p] # <<>>
    BY DEF TypeOK, Phases, Post
  <2> QED
    BY <2>1, TailOfBatch
<1>2. /\ UNCHANGED <<endpoints, event, addressed, rows, held, writes, age, batch, rested, faults>>
      /\ phase' = [phase EXCEPT ![p] = "record"] /\ phase[p] = "post"
      /\ spent' = [spent EXCEPT ![p] = 0]
      /\ posts' = [posts EXCEPT ![Head(batch[p])] = @ + 1]
  BY DEF Post, outboxVars, txVars
<1>3. /\ reply' \in [Replicas -> {"none", "ok", "failed"}]
      /\ accepted' \in [Deliveries -> Nat]
  <2>1. PICK x \in {"ok", "failed"} : reply' = [reply EXCEPT ![p] = x]
    BY DEF Post
  <2>2. reply' \in [Replicas -> {"none", "ok", "failed"}]
    BY <2>1 DEF TypeOK
  <2>3. accepted' = accepted \/ accepted' = [accepted EXCEPT ![Head(batch[p])] = @ + 1]
    BY DEF Post
  <2>4. accepted \in [Deliveries -> Nat]
    BY DEF TypeOK
  <2>5. accepted' \in [Deliveries -> Nat]
    BY <1>1, <2>3, <2>4
  <2> QED
    BY <2>2, <2>5
<1>4. TypeOK'
  <2>1. posts' \in [Deliveries -> Nat]
    BY <1>1, <1>2 DEF TypeOK
  <2>2. spent' \in [Replicas -> 0 .. PostTimeout]
    BY <1>2 DEF TypeOK
  <2> QED
    BY <1>2, <1>3, <2>1, <2>2 DEF TypeOK
<1>5. Phases'
  BY <1>2 DEF Phases, TypeOK
<1>6. Locks' /\ Counted' /\ Written'
  BY <1>2 DEF Locks, OneReplicaPerDelivery, Counted, Written
<1>7. Batched'
  BY <1>2 DEF Batched, Connected
<1> QED
  BY <1>1, <1>4, <1>5, <1>6, <1>7

\* What RecordOutcome writes: one outcome of a row that it holds.
LEMMA RecordedOutcome ==
  ASSUME QueueInv, NEW p \in Replicas, RecordOutcome(p), NEW d, d = Head(batch[p])
  PROVE  /\ d \in held[p] /\ d \in Deliveries
         /\ rows[d] \in Rows /\ rows[d].count < MaxAttempts /\ age[p] \in 0 .. Horizon
         /\ writes'[p][d] = IF reply[p] = "ok" THEN Succeeded(rows[d]) ELSE Failed(rows[d], age[p])
         /\ writes'[p][d] \in Rows /\ Outcome(rows[d], writes'[p][d])
         /\ \A q \in Replicas, e \in Deliveries :
              (q # p \/ e # d) => writes'[q][e] = writes[q][e]
         /\ writes' \in [Replicas -> [Deliveries -> Rows \cup {NoRow}]]
<1> USE DEF QueueInv
<1>1. batch[p] \in Seq(Deliveries) /\ batch[p] # <<>> /\ Connected(p)
  BY DEF TypeOK, Phases, RecordOutcome
<1>2. d \in Deliveries /\ d = batch[p][1] /\ Len(batch[p]) \in Nat /\ Len(batch[p]) >= 1
  BY <1>1, TailOfBatch
<1>3. d \in held[p]
  BY <1>1, <1>2 DEF Batched
<1>4. rows[d] \in Rows /\ rows[d].count < MaxAttempts
  BY <1>2, <1>3 DEF TypeOK, Locks, Counted, NoRow
<1>5. age[p] \in 0 .. Horizon
  BY DEF TypeOK
<1> DEFINE w == IF reply[p] = "ok" THEN Succeeded(rows[d]) ELSE Failed(rows[d], age[p])
<1>6. w \in Rows /\ Outcome(rows[d], w)
  BY <1>4, <1>5, OutcomeRow
<1>7. writes' = [writes EXCEPT ![p][d] = w]
  BY DEF RecordOutcome
<1> HIDE DEF w
<1>8. /\ writes'[p][d] = w
      /\ \A q \in Replicas, e \in Deliveries : (q # p \/ e # d) => writes'[q][e] = writes[q][e]
      /\ writes' \in [Replicas -> [Deliveries -> Rows \cup {NoRow}]]
  BY <1>2, <1>6, <1>7 DEF TypeOK
<1> QED
  BY <1>2, <1>3, <1>4, <1>5, <1>6, <1>8 DEF w

\* Recording the outcome of a POST inside the open transaction.
LEMMA RecordKeeps ==
  ASSUME QueueInv, NEW p \in Replicas, RecordOutcome(p)
  PROVE  QueueInv'
<1> USE DEF QueueInv
<1> DEFINE d == Head(batch[p])
<1>0. /\ d \in held[p] /\ d \in Deliveries
      /\ writes'[p][d] \in Rows /\ Outcome(rows[d], writes'[p][d])
      /\ \A q \in Replicas, e \in Deliveries : (q # p \/ e # d) => writes'[q][e] = writes[q][e]
      /\ writes' \in [Replicas -> [Deliveries -> Rows \cup {NoRow}]]
  BY RecordedOutcome
<1>1. batch[p] \in Seq(Deliveries) /\ batch[p] # <<>>
  BY DEF TypeOK, Phases, RecordOutcome
<1>2. /\ d = batch[p][1]
      /\ Len(batch[p]) \in Nat /\ Len(batch[p]) >= 1
      /\ Tail(batch[p]) \in Seq(Deliveries) /\ Len(Tail(batch[p])) = Len(batch[p]) - 1
      /\ \A i \in 1 .. Len(Tail(batch[p])) :
           Tail(batch[p])[i] = batch[p][i + 1] /\ i + 1 \in 1 .. Len(batch[p])
  BY <1>1, TailOfBatch
<1>3. /\ batch' = [batch EXCEPT ![p] = Tail(batch[p])]
      /\ phase[p] = "record" /\ Connected(p)
      /\ reply' = [reply EXCEPT ![p] = "none"] /\ spent' = [spent EXCEPT ![p] = 0]
      /\ phase' = [phase EXCEPT ![p] = IF Len(batch[p]) > 1 THEN "post" ELSE "commit"]
      /\ UNCHANGED <<endpoints, event, addressed, rows, held, age, posts, accepted, rested, faults>>
  BY DEF RecordOutcome, outboxVars, receiverVars
<1> HIDE DEF d
<1>4. TypeOK'
  <2>1. batch' \in [Replicas -> Seq(Deliveries)]
    BY <1>2, <1>3 DEF TypeOK
  <2>2. /\ reply' \in [Replicas -> {"none", "ok", "failed"}]
        /\ phase' \in [Replicas -> {"idle", "post", "record", "commit"}]
        /\ spent' \in [Replicas -> 0 .. PostTimeout]
    BY <1>3 DEF TypeOK
  <2> QED
    BY <1>0, <1>3, <2>1, <2>2 DEF TypeOK
<1>5. batch'[p] = Tail(batch[p]) /\ \A q \in Replicas \ {p} : batch'[q] = batch[q]
  BY <1>3 DEF TypeOK
<1>6. Phases'
  <2>1. phase'[p] = "post" => Tail(batch[p]) # <<>>
    <3>1. phase'[p] = "post" => Len(Tail(batch[p])) >= 1
      BY <1>2, <1>3 DEF TypeOK
    <3>2. \A t : t = <<>> => ~(Len(t) >= 1)
      OBVIOUS
    <3> QED
      BY <3>1, <3>2
  <2>2. phase'[p] \in {"post", "commit"} /\ \A q \in Replicas \ {p} : phase'[q] = phase[q]
    BY <1>3 DEF TypeOK
  <2> QED
    BY <1>3, <1>5, <2>1, <2>2 DEF Phases
<1>7. Locks' /\ Counted'
  BY <1>3 DEF Locks, OneReplicaPerDelivery, Counted
<1>8. Batched'
  <2> SUFFICES ASSUME NEW q \in Replicas, Connected(q)'
               PROVE  /\ \A i \in 1 .. Len(batch'[q]) : /\ batch'[q][i] \in held'[q]
                                                        /\ writes'[q][batch'[q][i]] = NoRow
                      /\ \A i, j \in 1 .. Len(batch'[q]) : i # j => batch'[q][i] # batch'[q][j]
    BY DEF Batched
  <2>0. /\ Connected(q) /\ held'[q] = held[q] /\ held[q] \subseteq Deliveries
        /\ \A i \in 1 .. Len(batch[q]) : batch[q][i] \in held[q] /\ writes[q][batch[q][i]] = NoRow
        /\ \A i, j \in 1 .. Len(batch[q]) : i # j => batch[q][i] # batch[q][j]
    BY <1>3 DEF Connected, Batched, TypeOK
  <2>1. CASE q # p
    BY <1>0, <1>5, <2>0, <2>1
  <2>2. CASE q = p
    <3>0. ASSUME NEW i \in 1 .. Len(batch[p]) - 1
          PROVE  /\ batch'[p][i] = batch[p][i + 1] /\ i + 1 \in 1 .. Len(batch[p]) /\ i + 1 # 1
                 /\ 1 \in 1 .. Len(batch[p])
      BY <1>2, <1>5
    <3>1. \A i \in 1 .. Len(batch[p]) - 1 : batch'[p][i] = batch[p][i + 1] /\ batch[p][i + 1] # d
      BY <1>2, <2>0, <2>2, <3>0
    <3>2. \A i \in 1 .. Len(batch[p]) - 1 :
            batch'[p][i] \in held[p] /\ writes'[p][batch'[p][i]] = NoRow
      <4> SUFFICES ASSUME NEW i \in 1 .. Len(batch[p]) - 1
                   PROVE  batch'[p][i] \in held[p] /\ writes'[p][batch'[p][i]] = NoRow
        OBVIOUS
      <4> DEFINE e == batch[p][i + 1]
      <4>1. /\ e \in held[p] /\ e \in Deliveries /\ writes[p][e] = NoRow
            /\ batch'[p][i] = e /\ e # d
        BY <2>0, <2>2, <3>0, <3>1
      <4> HIDE DEF e
      <4>2. writes'[p][e] = NoRow
        BY <1>0, <4>1
      <4> QED
        BY <4>1, <4>2
    <3>3. \A i, j \in 1 .. Len(batch[p]) - 1 : i # j => batch'[p][i] # batch'[p][j]
      <4> SUFFICES ASSUME NEW i \in 1 .. Len(batch[p]) - 1, NEW j \in 1 .. Len(batch[p]) - 1, i # j
                   PROVE  batch'[p][i] # batch'[p][j]
        OBVIOUS
      <4>1. i + 1 # j + 1
        BY <1>2
      <4> QED
        BY <2>0, <2>2, <3>0, <4>1
    <3>4. Len(batch'[p]) = Len(batch[p]) - 1 /\ held'[p] = held[p]
      BY <1>2, <1>3, <1>5
    <3> QED
      BY <2>2, <3>2, <3>3, <3>4
  <2> QED
    BY <2>1, <2>2
<1>9. Written'
  <2> SUFFICES ASSUME NEW q \in Replicas, NEW e \in Deliveries, writes'[q][e] # NoRow
               PROVE  e \in held'[q] /\ Outcome(rows'[e], writes'[q][e])
    BY DEF Written
  <2>1. CASE q = p /\ e = d
    BY <1>0, <1>3, <2>1
  <2>2. CASE q # p \/ e # d
    BY <1>0, <1>3, <2>2 DEF Written
  <2> QED
    BY <2>1, <2>2
<1> QED
  BY <1>4, <1>6, <1>7, <1>8, <1>9

\* The end of a transaction, whatever has become of its replica.
LEMMA EndKeeps ==
  ASSUME QueueInv, NEW p \in Replicas, EndTransaction(p),
         BackToTicker(p) \/ UNCHANGED replicaVars,
         phase[p] # "idle"
  PROVE  /\ held' \in [Replicas -> SUBSET Deliveries]
         /\ writes' \in [Replicas -> [Deliveries -> Rows \cup {NoRow}]]
         /\ age' \in [Replicas -> 0 .. Horizon]
         /\ phase' \in [Replicas -> {"idle", "post", "record", "commit"}]
         /\ batch' \in [Replicas -> Seq(Deliveries)]
         /\ reply' \in [Replicas -> {"none", "ok", "failed"}]
         /\ spent' \in [Replicas -> 0 .. PostTimeout]
         /\ held'[p] = {} /\ \A d \in Deliveries : writes'[p][d] = NoRow
         /\ \A q \in Replicas \ {p} : /\ held'[q] = held[q] /\ writes'[q] = writes[q]
                                      /\ batch'[q] = batch[q] /\ phase'[q] = phase[q]
                                      /\ reply'[q] = reply[q] /\ age'[q] = age[q]
         /\ Phases' /\ Batched' /\ OneReplicaPerDelivery'
<1> USE DEF QueueInv
<1>1. /\ held' \in [Replicas -> SUBSET Deliveries]
      /\ writes' \in [Replicas -> [Deliveries -> Rows \cup {NoRow}]]
      /\ age' \in [Replicas -> 0 .. Horizon]
      /\ held'[p] = {} /\ \A d \in Deliveries : writes'[p][d] = NoRow
      /\ \A q \in Replicas \ {p} : held'[q] = held[q] /\ writes'[q] = writes[q] /\ age'[q] = age[q]
  BY DEF EndTransaction, TypeOK
<1>2. /\ phase' \in [Replicas -> {"idle", "post", "record", "commit"}]
      /\ batch' \in [Replicas -> Seq(Deliveries)]
      /\ reply' \in [Replicas -> {"none", "ok", "failed"}]
      /\ spent' \in [Replicas -> 0 .. PostTimeout]
      /\ \A q \in Replicas \ {p} :
           batch'[q] = batch[q] /\ phase'[q] = phase[q] /\ reply'[q] = reply[q]
      /\ phase'[p] = "idle" \/ (phase'[p] = phase[p] /\ batch'[p] = batch[p])
  <2>1. CASE BackToTicker(p)
    BY <2>1, EmptySeq DEF BackToTicker, TypeOK
  <2>2. CASE UNCHANGED replicaVars
    BY <2>2 DEF replicaVars, TypeOK
  <2> QED
    BY <2>1, <2>2
<1>3. Phases'
  <2> SUFFICES ASSUME NEW q \in Replicas
               PROVE  /\ phase'[q] = "idle" => held'[q] = {}
                      /\ phase'[q] \in {"post", "record"} => batch'[q] # <<>>
    BY DEF Phases
  <2>1. CASE q = p
    BY <1>1, <1>2, <2>1 DEF Phases
  <2>2. CASE q # p
    BY <1>1, <1>2, <2>2 DEF Phases
  <2> QED
    BY <2>1, <2>2
<1>4. OneReplicaPerDelivery'
  BY <1>1 DEF Locks, OneReplicaPerDelivery
<1>5. Batched'
  <2> SUFFICES ASSUME NEW q \in Replicas, Connected(q)'
               PROVE  /\ \A i \in 1 .. Len(batch'[q]) : /\ batch'[q][i] \in held'[q]
                                                        /\ writes'[q][batch'[q][i]] = NoRow
                      /\ \A i, j \in 1 .. Len(batch'[q]) : i # j => batch'[q][i] # batch'[q][j]
    BY DEF Batched
  <2>1. q # p
    BY <1>1 DEF Connected
  <2>2. /\ held'[q] = held[q] /\ writes'[q] = writes[q] /\ batch'[q] = batch[q] /\ Connected(q)
    BY <1>1, <1>2, <2>1 DEF Connected
  <2> QED
    BY <2>2 DEF Batched
<1> QED
  BY <1>1, <1>2, <1>3, <1>4, <1>5

\* The commit applies to every written row one outcome, and leaves the rows that
\* other replicas hold alone.
LEMMA CommittedRows ==
  ASSUME QueueInv, NEW p \in Replicas, CommitBatch(p)
  PROVE  /\ rows' \in [Deliveries -> Rows \cup {NoRow}]
         /\ \A d \in Deliveries : writes[p][d] = NoRow => rows'[d] = rows[d]
         /\ \A d \in Deliveries : writes[p][d] # NoRow =>
              /\ rows'[d] = writes[p][d] /\ writes[p][d] \in Rows
              /\ d \in held[p] /\ rows[d].status = "pending" /\ Outcome(rows[d], writes[p][d])
         /\ \A q \in Replicas \ {p} : \A d \in held[q] : rows'[d] = rows[d]
<1> USE DEF QueueInv
<1>1. rows' = [d \in Deliveries |-> IF writes[p][d] = NoRow THEN rows[d] ELSE writes[p][d]]
  BY DEF CommitBatch
<1>2. writes[p] \in [Deliveries -> Rows \cup {NoRow}] /\ rows \in [Deliveries -> Rows \cup {NoRow}]
  BY DEF TypeOK
<1>3. rows' \in [Deliveries -> Rows \cup {NoRow}]
  BY <1>1, <1>2
<1>4. \A d \in Deliveries : writes[p][d] # NoRow =>
        d \in held[p] /\ rows[d].status = "pending" /\ Outcome(rows[d], writes[p][d])
  BY DEF Written, Locks
<1>5. \A q \in Replicas \ {p} : \A d \in held[q] : d \in Deliveries /\ d \notin held[p]
  BY DEF Locks, OneReplicaPerDelivery, TypeOK
<1> QED
  BY <1>1, <1>2, <1>3, <1>4, <1>5

\* The commit of a batch publishes its writes and lets its rows go.
LEMMA CommitKeeps ==
  ASSUME QueueInv, NEW p \in Replicas, CommitBatch(p)
  PROVE  QueueInv'
<1> USE DEF QueueInv
<1>0. /\ phase[p] = "commit" /\ EndTransaction(p) /\ BackToTicker(p)
      /\ UNCHANGED <<endpoints, event, addressed, posts, accepted, faults>>
  BY DEF CommitBatch, outboxVars
<1>1. /\ held' \in [Replicas -> SUBSET Deliveries]
      /\ held'[p] = {} /\ \A d \in Deliveries : writes'[p][d] = NoRow
      /\ \A q \in Replicas \ {p} : held'[q] = held[q] /\ writes'[q] = writes[q]
      /\ Phases' /\ Batched' /\ OneReplicaPerDelivery'
  BY <1>0, EndKeeps
<1>2. /\ rows' \in [Deliveries -> Rows \cup {NoRow}]
      /\ \A d \in Deliveries : writes[p][d] = NoRow => rows'[d] = rows[d]
      /\ \A d \in Deliveries : writes[p][d] # NoRow =>
           /\ rows'[d] = writes[p][d] /\ writes[p][d] \in Rows
           /\ rows[d].status = "pending" /\ Outcome(rows[d], writes[p][d])
      /\ \A q \in Replicas \ {p} : \A d \in held[q] : rows'[d] = rows[d]
  BY CommittedRows
<1>3. TypeOK'
  <2>1. rested' \in [Deliveries -> 0 .. Horizon]
    BY DEF CommitBatch, TypeOK
  <2>2. /\ writes' \in [Replicas -> [Deliveries -> Rows \cup {NoRow}]]
        /\ age' \in [Replicas -> 0 .. Horizon]
        /\ phase' \in [Replicas -> {"idle", "post", "record", "commit"}]
        /\ batch' \in [Replicas -> Seq(Deliveries)]
        /\ reply' \in [Replicas -> {"none", "ok", "failed"}]
        /\ spent' \in [Replicas -> 0 .. PostTimeout]
    BY <1>0, EndKeeps
  <2> QED
    BY <1>0, <1>1, <1>2, <2>1, <2>2 DEF TypeOK
<1>4. Locks'
  <2>1. \A q \in Replicas : \A d \in held'[q] : q # p /\ d \in held[q]
    BY <1>1
  <2>2. \A q \in Replicas : \A d \in held'[q] : rows'[d].status = "pending"
    BY <1>2, <2>1 DEF Locks
  <2> QED
    BY <1>1, <2>2 DEF Locks
<1>5. Counted'
  <2> SUFFICES ASSUME NEW d \in Deliveries
               PROVE  /\ event'[d[1]] # "committed" => rows'[d] = NoRow
                      /\ rows'[d].status = "pending" => rows'[d].count < MaxAttempts
                      /\ rows'[d].status = "failed_exhausted" => rows'[d].count = MaxAttempts
    BY DEF Counted
  <2>1. CASE writes[p][d] = NoRow
    BY <1>0, <1>2, <2>1 DEF Counted
  <2>2. CASE writes[p][d] # NoRow
    <3>1. /\ rows'[d] \in Rows /\ Outcome(rows[d], rows'[d]) /\ rows[d].status = "pending"
      BY <1>2, <2>2
    <3>2. rows[d] # NoRow
      BY <3>1 DEF NoRow
    <3> QED
      BY <1>0, <3>1, <3>2 DEF Counted, Outcome, Rows
  <2> QED
    BY <2>1, <2>2
<1>6. Written'
  <2> SUFFICES ASSUME NEW q \in Replicas, NEW d \in Deliveries, writes'[q][d] # NoRow
               PROVE  d \in held'[q] /\ Outcome(rows'[d], writes'[q][d])
    BY DEF Written
  <2>1. q # p
    BY <1>1
  <2>2. /\ d \in held[q] /\ Outcome(rows[d], writes[q][d])
        /\ held'[q] = held[q] /\ writes'[q] = writes[q]
    BY <1>1, <2>1 DEF Written
  <2> QED
    BY <1>2, <2>1, <2>2
<1> QED
  BY <1>1, <1>3, <1>4, <1>5, <1>6

\* Faults and failed statements lose what is not committed, and nothing else.
LEMMA FaultsKeep ==
  ASSUME QueueInv, NEW p \in Replicas, AbandonBatch(p) \/ LoseConnection(p) \/ Crash(p)
  PROVE  QueueInv'
<1> USE DEF QueueInv
<1>1. CASE LoseConnection(p) \/ Crash(p)
  <2>0. /\ phase[p] # "idle"
        /\ UNCHANGED <<endpoints, event, addressed, rows, posts, accepted, rested>>
        /\ faults < MaxFaults /\ faults' = faults + 1
    BY <1>1 DEF LoseConnection, Crash, Fault, outboxVars, receiverVars, Phases, Connected
  <2>1. /\ EndTransaction(p)
        /\ BackToTicker(p) \/ UNCHANGED replicaVars
    BY <1>1 DEF LoseConnection, Crash
  <2>2. /\ held' \in [Replicas -> SUBSET Deliveries]
        /\ writes' \in [Replicas -> [Deliveries -> Rows \cup {NoRow}]]
        /\ age' \in [Replicas -> 0 .. Horizon]
        /\ phase' \in [Replicas -> {"idle", "post", "record", "commit"}]
        /\ batch' \in [Replicas -> Seq(Deliveries)]
        /\ reply' \in [Replicas -> {"none", "ok", "failed"}]
        /\ spent' \in [Replicas -> 0 .. PostTimeout]
        /\ held'[p] = {} /\ \A d \in Deliveries : writes'[p][d] = NoRow
        /\ \A q \in Replicas \ {p} : held'[q] = held[q] /\ writes'[q] = writes[q]
        /\ Phases' /\ Batched' /\ OneReplicaPerDelivery'
    BY <2>0, <2>1, EndKeeps
  <2>3. TypeOK'
    BY <2>0, <2>2 DEF TypeOK
  <2>4. Locks' /\ Counted'
    BY <2>0, <2>2 DEF Locks, Counted
  <2>5. Written'
    BY <2>0, <2>2 DEF Written
  <2> QED
    BY <2>2, <2>3, <2>4, <2>5
<1>2. CASE AbandonBatch(p)
  <2>1. /\ ~Connected(p) /\ BackToTicker(p)
        /\ UNCHANGED <<endpoints, event, addressed, rows, held, writes, age, posts, accepted,
                       rested, faults>>
    BY <1>2 DEF AbandonBatch, outboxVars, txVars, receiverVars
  <2>2. /\ phase' \in [Replicas -> {"idle", "post", "record", "commit"}]
        /\ batch' \in [Replicas -> Seq(Deliveries)]
        /\ reply' \in [Replicas -> {"none", "ok", "failed"}]
        /\ spent' \in [Replicas -> 0 .. PostTimeout]
        /\ phase'[p] = "idle"
        /\ \A q \in Replicas \ {p} : batch'[q] = batch[q] /\ phase'[q] = phase[q]
    BY <2>1, EmptySeq DEF BackToTicker, TypeOK
  <2>3. TypeOK'
    BY <2>1, <2>2 DEF TypeOK
  <2>4. Phases'
    BY <2>1, <2>2 DEF Phases, Connected
  <2>5. Batched'
    <3> SUFFICES ASSUME NEW q \in Replicas, Connected(q)'
                 PROVE  /\ \A i \in 1 .. Len(batch'[q]) : /\ batch'[q][i] \in held'[q]
                                                          /\ writes'[q][batch'[q][i]] = NoRow
                        /\ \A i, j \in 1 .. Len(batch'[q]) : i # j => batch'[q][i] # batch'[q][j]
      BY DEF Batched
    <3>1. batch'[q] = batch[q] /\ Connected(q)
      BY <2>1, <2>2 DEF Connected
    <3> QED
      BY <2>1, <3>1 DEF Batched
  <2>6. Locks' /\ Counted' /\ Written'
    BY <2>1 DEF Locks, OneReplicaPerDelivery, Counted, Written
  <2> QED
    BY <2>3, <2>4, <2>5, <2>6
<1> QED
  BY <1>1, <1>2

\* Time moves only `due`, `age`, `spent` and `rested`.
LEMMA TickRows ==
  ASSUME QueueInv, Tick
  PROVE  /\ rows' \in [Deliveries -> Rows \cup {NoRow}]
         /\ writes' \in [Replicas -> [Deliveries -> Rows \cup {NoRow}]]
         /\ age' \in [Replicas -> 0 .. Horizon]
         /\ spent' \in [Replicas -> 0 .. PostTimeout]
         /\ rested' \in [Deliveries -> 0 .. Horizon]
         /\ \A d \in Deliveries : rows'[d] = Later(rows[d])
         /\ \A p \in Replicas, d \in Deliveries : writes'[p][d] = Later(writes[p][d])
<1> USE DEF QueueInv
<1>1. /\ rows' = [d \in Deliveries |-> Later(rows[d])]
      /\ writes' = [p \in Replicas |-> [d \in Deliveries |-> Later(writes[p][d])]]
  BY DEF Tick
<1>2. /\ rows \in [Deliveries -> Rows \cup {NoRow}]
      /\ writes \in [Replicas -> [Deliveries -> Rows \cup {NoRow}]]
  BY DEF TypeOK
<1>3. rows' \in [Deliveries -> Rows \cup {NoRow}] /\ \A d \in Deliveries : rows'[d] = Later(rows[d])
  BY <1>1, <1>2, LaterRow
<1>4. \A p \in Replicas, d \in Deliveries : Later(writes[p][d]) \in Rows \cup {NoRow}
  BY <1>2, LaterRow
<1>5. /\ writes' \in [Replicas -> [Deliveries -> Rows \cup {NoRow}]]
      /\ \A p \in Replicas, d \in Deliveries : writes'[p][d] = Later(writes[p][d])
  BY <1>1, <1>4
<1>6. age' \in [Replicas -> 0 .. Horizon]
  BY DEF Tick, TypeOK
<1>7. spent' \in [Replicas -> 0 .. PostTimeout]
  <2>1. \A p \in Replicas : /\ phase[p] = "record" => spent[p] < PostTimeout
                            /\ spent[p] \in 0 .. PostTimeout
    BY DEF Tick, WithinTimeout, TypeOK
  <2>2. spent' = [p \in Replicas |-> IF phase[p] = "record" THEN spent[p] + 1 ELSE spent[p]]
    BY DEF Tick
  <2> QED
    BY <2>1, <2>2
<1>8. rested' \in [Deliveries -> 0 .. Horizon]
  <2>1. \A d \in Deliveries : rested[d] \in 0 .. Horizon
    BY DEF TypeOK
  <2>2. rested' = [d \in Deliveries |->
                     IF rows[d].status = "pending" /\ rows[d].count > 0 /\ rested[d] < Horizon
                     THEN rested[d] + 1 ELSE rested[d]]
    BY DEF Tick
  <2> QED
    BY <2>1, <2>2
<1> QED
  BY <1>3, <1>5, <1>6, <1>7, <1>8

\* Time passes for rows and transactions alike.
LEMMA TickKeeps ==
  ASSUME QueueInv, Tick
  PROVE  QueueInv'
<1> USE DEF QueueInv
<1>0. UNCHANGED <<endpoints, event, addressed, held, phase, batch, reply, posts, accepted, faults>>
  BY DEF Tick, outboxVars
<1>1. TypeOK'
  BY <1>0, TickRows DEF TypeOK
<1>2. /\ \A d \in Deliveries : /\ rows'[d].status = rows[d].status /\ rows'[d].count = rows[d].count
                               /\ rows'[d] = NoRow <=> rows[d] = NoRow
      /\ \A p \in Replicas, d \in Deliveries :
           /\ writes'[p][d].status = writes[p][d].status
           /\ writes'[p][d].count = writes[p][d].count
           /\ writes'[p][d] = NoRow <=> writes[p][d] = NoRow
  <2>1. /\ \A d \in Deliveries : rows[d] \in Rows \cup {NoRow}
        /\ \A p \in Replicas, d \in Deliveries : writes[p][d] \in Rows \cup {NoRow}
    BY DEF TypeOK
  <2> QED
    BY <2>1, TickRows, LaterRow
<1>3. Phases' /\ OneReplicaPerDelivery'
  BY <1>0 DEF Phases, Locks, OneReplicaPerDelivery
<1>4. Locks'
  BY <1>0, <1>2, <1>3 DEF Locks, TypeOK
<1>5. Counted'
  BY <1>0, <1>2 DEF Counted
<1>6. Written'
  BY <1>0, <1>2 DEF Written, Outcome
<1>7. Batched'
  <2> SUFFICES ASSUME NEW q \in Replicas, Connected(q)'
               PROVE  /\ \A i \in 1 .. Len(batch[q]) : /\ batch[q][i] \in held[q]
                                                       /\ writes'[q][batch[q][i]] = NoRow
                      /\ \A i, j \in 1 .. Len(batch[q]) : i # j => batch[q][i] # batch[q][j]
    BY <1>0 DEF Batched
  <2>1. /\ \A i \in 1 .. Len(batch[q]) : batch[q][i] \in held[q] /\ writes[q][batch[q][i]] = NoRow
        /\ \A i, j \in 1 .. Len(batch[q]) : i # j => batch[q][i] # batch[q][j]
        /\ held[q] \subseteq Deliveries
    BY <1>0 DEF Batched, Connected, TypeOK
  <2> QED
    BY <1>2, <2>1
<1> QED
  BY <1>1, <1>3, <1>4, <1>5, <1>6, <1>7

\* Every step of the dispatcher keeps QueueInv.
LEMMA QueueInductive == QueueInv /\ [Next]_vars => QueueInv'
<1> SUFFICES ASSUME QueueInv, [Next]_vars PROVE QueueInv'
  OBVIOUS
<1>1. ASSUME NEW e \in Endpoints, RegisterWebhook(e) PROVE QueueInv'
  <2>1. /\ endpoints' \subseteq Endpoints
        /\ UNCHANGED <<event, addressed, rows, txVars, replicaVars, receiverVars, faults>>
    BY <1>1 DEF RegisterWebhook, QueueInv, TypeOK
  <2>2. TypeOK'
    BY <2>1 DEF QueueInv, TypeOK, txVars, replicaVars, receiverVars
  <2>3. (Phases /\ Locks /\ Batched /\ Counted /\ Written)'
    BY <2>1 DEF QueueInv, Phases, Locks, OneReplicaPerDelivery, Batched, Connected, Counted,
       Written, txVars, replicaVars
  <2> QED
    BY <2>2, <2>3 DEF QueueInv
<1>2. CASE UNCHANGED vars
  <2>1. UNCHANGED <<outboxVars, rows, txVars, replicaVars, receiverVars, faults>>
    BY <1>2 DEF vars
  <2>2. TypeOK'
    BY <2>1 DEF QueueInv, TypeOK, outboxVars, txVars, replicaVars, receiverVars
  <2>3. (Phases /\ Locks /\ Batched /\ Counted /\ Written)'
    BY <2>1 DEF QueueInv, Phases, Locks, OneReplicaPerDelivery, Batched, Connected, Counted,
       Written, outboxVars, txVars, replicaVars
  <2> QED
    BY <2>2, <2>3 DEF QueueInv
<1> QED
  BY <1>1, <1>2, OutboxKeeps, TakeKeeps, PostKeeps, RecordKeeps, CommitKeeps, FaultsKeep, TickKeeps
     DEF Next, ReplicaStep, FaultStep

\* Every variable keeps its type.
THEOREM DispatcherTypes == Spec => []TypeOK
<1>1. QueueInv => TypeOK
  BY DEF QueueInv
<1> QED
  BY <1>1, QueueInitial, QueueInductive, PTL DEF Spec

\* A delivery is POSTed after it was settled only by a replica that has lost its
\* transaction: one that still has it has kept the delivery locked and pending.
LEMMA SentIsPending ==
  ASSUME QueueInv, NEW d \in Deliveries, Next, posts'[d] # posts[d]
  PROVE  \/ rows[d].status = "pending"
         \/ \E p \in Replicas : phase[p] = "post" /\ ~Connected(p) /\ Head(batch[p]) = d
<1>1. PICK p \in Replicas : Post(p)
  BY DEF Next, RegisterWebhook, EnqueueEvent, CommitEvent, RollbackEvent, ReplicaStep, FaultStep,
     TakeBatch, RecordOutcome, CommitBatch, AbandonBatch, LoseConnection, Crash, Tick, receiverVars
<1>2. phase[p] = "post" /\ d = Head(batch[p])
  <2>1. posts' = [posts EXCEPT ![Head(batch[p])] = @ + 1]
    BY <1>1 DEF Post
  <2>2. \A e \in Deliveries \ {Head(batch[p])} : posts'[e] = posts[e]
    BY <2>1 DEF QueueInv, TypeOK
  <2> QED
    BY <1>1, <2>2 DEF Post
<1>3. batch[p] \in Seq(Deliveries) /\ batch[p] # <<>>
  BY <1>2 DEF QueueInv, TypeOK, Phases
<1>4. CASE Connected(p)
  <2>1. 1 \in 1 .. Len(batch[p]) /\ batch[p][1] = d
    BY <1>2, <1>3
  <2>2. d \in held[p]
    BY <1>4, <2>1 DEF QueueInv, Batched
  <2> QED
    BY <2>2 DEF QueueInv, Locks
<1> QED
  BY <1>2, <1>4

\* No replica that still has its transaction sends what another one has settled.
THEOREM SettledIsNotSent == Spec => SentWhilePending
<1> DEFINE Pending == \A d \in Deliveries : posts'[d] # posts[d] =>
             \/ rows[d].status = "pending"
             \/ \E p \in Replicas : phase[p] = "post" /\ ~Connected(p) /\ Head(batch[p]) = d
<1>1. QueueInv /\ Next => Pending
  BY SentIsPending
<1> HIDE DEF Pending
<1>2. QueueInv /\ [Next]_vars => [Pending]_vars
  BY <1>1
<1>3. Spec => [][Pending]_vars
  BY <1>2, QueueInitial, QueueInductive, PTL DEF Spec
<1> QED
  BY <1>3 DEF SentWhilePending, Pending

-----------------------------------------------------------------------------
(* The refinement.                                                         *)

\* The row as DeliveryQueue sees it.
Entry(d) == [status |-> rows[d].status, count |-> rows[d].count]

\* What a step may do to a row is a step of its entry.
LEMMA RowsStep ==
  ASSUME QueueInv, Next
  PROVE  \A d \in Deliveries : Entry(d)' \in {Entry(d)} \cup Queue!Successors(Entry(d))
<1> USE DEF Entry
<1>0. \A d \in Deliveries : rows[d] \in Rows \cup {NoRow}
  BY DEF QueueInv, TypeOK
<1>1. CASE UNCHANGED rows
  BY <1>1
<1>2. ASSUME NEW v \in Events, CommitEvent(v)
      PROVE  \A d \in Deliveries : Entry(d)' \in {Entry(d)} \cup Queue!Successors(Entry(d))
  <2>1. \A d \in Deliveries : rows'[d] # rows[d] =>
          rows[d] = NoRow /\ rows'[d].status = "pending" /\ rows'[d].count = 0
    BY <1>2 DEF CommitEvent, QueueInv, Counted
  <2> QED
    BY <2>1 DEF Queue!Successors, Queue!Absent, Queue!Queued, NoRow
<1>3. ASSUME NEW p \in Replicas, CommitBatch(p)
      PROVE  \A d \in Deliveries : Entry(d)' \in {Entry(d)} \cup Queue!Successors(Entry(d))
  <2> SUFFICES ASSUME NEW d \in Deliveries
               PROVE  Entry(d)' \in {Entry(d)} \cup Queue!Successors(Entry(d))
    OBVIOUS
  <2>1. CASE writes[p][d] = NoRow
    BY <1>3, <2>1, CommittedRows
  <2>2. CASE writes[p][d] # NoRow
    <3>1. /\ rows'[d] \in Rows /\ Outcome(rows[d], rows'[d]) /\ rows[d].status = "pending"
      BY <1>3, <2>2, CommittedRows
    <3>2. Queue!Successors(Entry(d)) =
            {[status |-> "succeeded", count |-> rows[d].count],
             [status |-> IF rows[d].count + 1 = MaxAttempts THEN "failed_exhausted" ELSE "pending",
              count |-> rows[d].count + 1]}
      BY <3>1 DEF Queue!Successors, Queue!Absent
    <3> QED
      BY <3>1, <3>2 DEF Outcome
  <2> QED
    BY <2>1, <2>2
<1>4. CASE Tick
  BY <1>0, <1>4, TickRows, LaterRow
<1> QED
  BY <1>1, <1>2, <1>3, <1>4
     DEF Next, ReplicaStep, FaultStep, RegisterWebhook, EnqueueEvent, RollbackEvent, TakeBatch,
         Post, RecordOutcome, AbandonBatch, LoseConnection, Crash

\* The dispatcher implements the queue: the committed rows move only the way
\* DeliveryQueue allows.
THEOREM DispatcherImplementsQueue == Spec => ImplementsQueue
<1> DEFINE queue == [d \in Deliveries |-> [status |-> rows[d].status, count |-> rows[d].count]]
<1>1. Init => Queue!Init
  BY DEF Init, Queue!Init, Queue!Absent, NoRow
<1>2. QueueInv /\ QueueInv' /\ [Next]_vars => [Queue!Next]_queue
  <2>1. ASSUME QueueInv, QueueInv', Next PROVE Queue!Next
    <3>1. queue' \in [Deliveries -> Queue!Entries]
      BY <2>1 DEF QueueInv, TypeOK, Rows, NoRow, Statuses, Queue!Entries
    <3>2. \A d \in Deliveries : queue'[d] \in {queue[d]} \cup Queue!Successors(queue[d])
      BY <2>1, RowsStep DEF Entry
    <3> QED
      BY <3>1, <3>2 DEF Queue!Next
  <2>2. ASSUME UNCHANGED vars PROVE UNCHANGED queue
    BY <2>2 DEF vars
  <2> QED
    BY <2>1, <2>2
<1> QED
  BY <1>1, <1>2, QueueInitial, QueueInductive, PTL DEF Spec, ImplementsQueue, Queue!Spec

-----------------------------------------------------------------------------
(* Rows tell the truth.                                                    *)

\* Where a connected replica is recording, it records a row of its own.
LEMMA Recording ==
  ASSUME QueueInv, NEW p \in Replicas, phase[p] = "record", Connected(p)
  PROVE  Head(batch[p]) \in Deliveries /\ Head(batch[p]) \in held[p]
<1>1. batch[p] \in Seq(Deliveries) /\ batch[p] # <<>>
  BY DEF QueueInv, TypeOK, Phases
<1> QED
  BY <1>1, TailOfBatch DEF QueueInv, Batched

\* Initially nothing was posted.
LEMMA TruthInitial == Init => Truth
  BY DEF Init, Truth, RowTellsTheTruth, NoRow

\* A step that changes no count of a row, and neither posts nor starts a
\* recording, keeps Truth.
LEMMA TruthUntouched ==
  ASSUME QueueInv, Truth,
         UNCHANGED <<posts, accepted>>,
         \A d \in Deliveries : rows'[d].count = rows[d].count /\
           (rows'[d].status \in {"succeeded", "failed_exhausted"} =>
              rows'[d].status = rows[d].status),
         \A p \in Replicas, d \in Deliveries : writes'[p][d] # NoRow =>
           writes[p][d] # NoRow /\ writes'[p][d].status = writes[p][d].status,
         \A p \in Replicas : (phase'[p] = "record" /\ Connected(p)') =>
           /\ phase[p] = "record" /\ Connected(p)
           /\ reply'[p] = reply[p] /\ batch'[p] = batch[p]
  PROVE  Truth'
<1>1. RowTellsTheTruth'
  BY DEF Truth, RowTellsTheTruth
<1>2. \A p \in Replicas : \A d \in Deliveries : writes'[p][d] # NoRow =>
        Happened(writes[p][d].status = "succeeded", d)'
  BY DEF Truth, Happened
<1>3. \A p \in Replicas : (phase'[p] = "record" /\ Connected(p)') =>
        Happened(reply[p] = "ok", Head(batch[p]))'
  BY Recording DEF Truth, Happened
<1> QED
  BY <1>1, <1>2, <1>3 DEF Truth

\* Every step keeps rows and receivers in agreement.
LEMMA TruthInductive == QueueInv /\ Truth /\ [Next]_vars => Truth'
<1> SUFFICES ASSUME QueueInv, Truth, [Next]_vars PROVE Truth'
  OBVIOUS
<1>0. /\ TypeOK
      /\ \A d \in Deliveries : posts[d] \in Nat /\ accepted[d] \in Nat /\ rows[d].count \in Nat
  BY RowStatus DEF QueueInv, TypeOK
<1>1. ASSUME NEW e \in Endpoints, RegisterWebhook(e) PROVE Truth'
  BY <1>1, TruthUntouched DEF RegisterWebhook, txVars, replicaVars, receiverVars, Connected
<1>2. ASSUME NEW v \in Events, EnqueueEvent(v) \/ CommitEvent(v) \/ RollbackEvent(v) PROVE Truth'
  <2>1. UNCHANGED <<posts, accepted, writes, held, phase, reply, batch>>
    BY <1>2 DEF EnqueueEvent, CommitEvent, RollbackEvent, txVars, replicaVars, receiverVars
  <2>2. \A d \in Deliveries : rows'[d] = rows[d] \/ (rows[d] = NoRow /\ rows'[d].status = "pending"
                                                     /\ rows'[d].count = 0)
    BY <1>2 DEF EnqueueEvent, CommitEvent, RollbackEvent, QueueInv, Counted
  <2>3. \A d \in Deliveries : rows'[d].count = rows[d].count /\
          (rows'[d].status \in {"succeeded", "failed_exhausted"} =>
             rows'[d].status = rows[d].status)
    BY <2>2 DEF NoRow
  <2> QED
    BY <2>1, <2>3, TruthUntouched DEF Connected
<1>3. ASSUME NEW p \in Replicas, TakeBatch(p) PROVE Truth'
  <2>1. /\ UNCHANGED <<posts, accepted, rows, writes, reply>>
        /\ phase' = [phase EXCEPT ![p] = "post"]
        /\ \A q \in Replicas \ {p} : held'[q] = held[q] /\ batch'[q] = batch[q]
    BY <1>0, <1>3 DEF TakeBatch, receiverVars, TypeOK
  <2>2. phase'[p] = "post" /\ \A q \in Replicas \ {p} : phase'[q] = phase[q]
    BY <1>0, <2>1 DEF TypeOK
  <2> QED
    BY <2>1, <2>2, TruthUntouched DEF Connected
<1>4. ASSUME NEW p \in Replicas, Post(p) PROVE Truth'
  <2>0. PICK d \in Deliveries : d = Head(batch[p])
    BY <1>4, PostKeeps
  <2>1. PICK answer \in {"2xx", "other", "error"} :
          /\ reply' = [reply EXCEPT ![p] = IF IsSuccess(answer) THEN "ok" ELSE "failed"]
          /\ accepted' = IF answer = "2xx" THEN [accepted EXCEPT ![d] = @ + 1] ELSE accepted
    BY <1>4, <2>0 DEF Post
  <2>2. /\ posts' = [posts EXCEPT ![d] = @ + 1]
        /\ phase' = [phase EXCEPT ![p] = "record"]
        /\ UNCHANGED <<rows, held, writes, batch>>
    BY <1>4, <2>0 DEF Post, txVars
  <2>3. /\ posts'[d] = posts[d] + 1
        /\ accepted'[d] = IF answer = "2xx" THEN accepted[d] + 1 ELSE accepted[d]
        /\ \A e \in Deliveries \ {d} : posts'[e] = posts[e] /\ accepted'[e] = accepted[e]
        /\ reply'[p] = IF answer = "2xx" THEN "ok" ELSE "failed"
        /\ \A q \in Replicas \ {p} : reply'[q] = reply[q] /\ phase'[q] = phase[q]
    BY <1>0, <2>1, <2>2 DEF TypeOK, IsSuccess
  <2>4. \A e \in Deliveries : /\ accepted'[e] >= accepted[e]
                              /\ posts'[e] - accepted'[e] >= posts[e] - accepted[e]
                              /\ posts'[e] >= posts[e]
                              /\ posts'[e] \in Nat /\ accepted'[e] \in Nat
    <3> SUFFICES ASSUME NEW e \in Deliveries
                 PROVE  /\ accepted'[e] >= accepted[e]
                        /\ posts'[e] - accepted'[e] >= posts[e] - accepted[e]
                        /\ posts'[e] >= posts[e]
                        /\ posts'[e] \in Nat /\ accepted'[e] \in Nat
      OBVIOUS
    <3>1. CASE e = d
      BY <1>0, <2>3, <3>1
    <3>2. CASE e # d
      BY <1>0, <2>3, <3>2
    <3> QED
      BY <3>1, <3>2
  <2>5. \A e \in Deliveries : \A ok \in BOOLEAN : Happened(ok, e) => Happened(ok, e)'
    <3> SUFFICES ASSUME NEW e \in Deliveries, NEW ok \in BOOLEAN, Happened(ok, e)
                 PROVE  Happened(ok, e)'
      OBVIOUS
    <3>1. CASE ok
      BY <1>0, <2>4, <3>1 DEF Happened
    <3>2. CASE ~ok
      <4>1. /\ rows[e].count \in Nat /\ posts[e] \in Nat /\ accepted[e] \in Nat
            /\ posts'[e] \in Nat /\ accepted'[e] \in Nat
            /\ posts'[e] - accepted'[e] >= posts[e] - accepted[e]
        BY <1>0, <2>4
      <4>2. rows[e].count + 1 + accepted[e] <= posts[e]
        BY <3>2 DEF Happened
      <4>3. rows[e].count + 1 + accepted'[e] <= posts'[e]
        BY <4>1, <4>2
      <4> QED
        BY <2>2, <3>2, <4>3 DEF Happened
    <3> QED
      BY <3>1, <3>2
  <2>6. RowTellsTheTruth'
    <3> SUFFICES ASSUME NEW e \in Deliveries
                 PROVE  /\ rows'[e].status = "succeeded" => accepted'[e] > 0
                        /\ rows'[e].status = "failed_exhausted" => posts'[e] >= MaxAttempts
                        /\ rows'[e].count + accepted'[e] <= posts'[e]
      BY DEF RowTellsTheTruth
    <3>1. /\ rows[e].status = "succeeded" => accepted[e] > 0
          /\ rows[e].status = "failed_exhausted" => posts[e] >= MaxAttempts
          /\ rows[e].count + accepted[e] <= posts[e]
      BY DEF Truth, RowTellsTheTruth
    <3>2. /\ rows'[e] = rows[e]
          /\ posts[e] \in Nat /\ accepted[e] \in Nat /\ rows[e].count \in Nat
          /\ accepted'[e] \in Nat /\ posts'[e] \in Nat
      BY <1>0, <2>2, <2>4
    <3>3. /\ accepted'[e] >= accepted[e] /\ posts'[e] >= posts[e]
          /\ posts'[e] - accepted'[e] >= posts[e] - accepted[e]
      BY <2>4
    <3> QED
      BY <3>1, <3>2, <3>3
  <2>7. Happened(reply[p] = "ok", d)'
    <3>1. rows[d].count + accepted[d] <= posts[d]
      BY DEF Truth, RowTellsTheTruth
    <3>2. CASE answer = "2xx"
      <4>1. accepted'[d] > 0 /\ reply'[p] = "ok"
        BY <1>0, <2>3, <3>2
      <4> QED
        BY <4>1 DEF Happened
    <3>3. CASE answer # "2xx"
      <4>1. rows'[d].count + 1 + accepted'[d] <= posts'[d] /\ reply'[p] # "ok"
        BY <1>0, <2>2, <2>3, <3>1, <3>3
      <4> QED
        BY <4>1 DEF Happened
    <3> QED
      BY <3>2, <3>3
  <2>8. \A q \in Replicas : \A e \in Deliveries : writes'[q][e] # NoRow =>
          Happened(writes[q][e].status = "succeeded", e)'
    BY <2>2, <2>5 DEF Truth, Happened
  <2>9. ASSUME NEW q \in Replicas, phase'[q] = "record", Connected(q)'
        PROVE  Happened(reply[q] = "ok", Head(batch[q]))'
    <3>1. CASE q = p
      BY <2>0, <2>2, <2>7, <3>1 DEF Happened
    <3>2. CASE q # p
      <4>1. phase[q] = "record" /\ Connected(q) /\ reply'[q] = reply[q]
        BY <2>2, <2>3, <2>9, <3>2 DEF Connected
      <4>2. Head(batch[q]) \in Deliveries /\ Happened(reply[q] = "ok", Head(batch[q]))
        BY <4>1, Recording DEF Truth
      <4> QED
        BY <2>2, <2>5, <4>1, <4>2 DEF Happened
    <3> QED
      BY <3>1, <3>2
  <2> QED
    BY <2>6, <2>8, <2>9 DEF Truth
<1>5. ASSUME NEW p \in Replicas, RecordOutcome(p) PROVE Truth'
  <2> DEFINE d == Head(batch[p])
  <2>1. /\ phase[p] = "record" /\ Connected(p)
        /\ phase' = [phase EXCEPT ![p] = IF Len(batch[p]) > 1 THEN "post" ELSE "commit"]
        /\ reply' = [reply EXCEPT ![p] = "none"]
        /\ batch' = [batch EXCEPT ![p] = Tail(@)]
        /\ UNCHANGED <<rows, held, posts, accepted>>
    BY <1>5 DEF RecordOutcome, receiverVars
  <2>2. /\ phase'[p] # "record"
        /\ \A q \in Replicas \ {p} :
             phase'[q] = phase[q] /\ reply'[q] = reply[q] /\ batch'[q] = batch[q]
    BY <1>0, <2>1 DEF TypeOK
  <2>3. Happened(reply[p] = "ok", d)
    BY <2>1 DEF Truth
  <2>4. /\ rows[d] \in Rows /\ rows[d].count < MaxAttempts /\ age[p] \in 0 .. Horizon
        /\ writes'[p][d] = IF reply[p] = "ok" THEN Succeeded(rows[d]) ELSE Failed(rows[d], age[p])
        /\ \A q \in Replicas, e \in Deliveries : (q # p \/ e # d) => writes'[q][e] = writes[q][e]
    BY <1>5, RecordedOutcome
  <2>5. writes'[p][d].status = "succeeded" <=> reply[p] = "ok"
    BY <2>4, OutcomeRow
  <2>6. RowTellsTheTruth'
    BY <2>1 DEF Truth, RowTellsTheTruth
  <2>7. Happened(writes'[p][d].status = "succeeded", d)
    BY <2>3, <2>5 DEF Happened
  <2> HIDE DEF d
  <2>8. \A q \in Replicas : \A e \in Deliveries : writes'[q][e] # NoRow =>
          Happened(writes'[q][e].status = "succeeded", e)
    BY <2>4, <2>7 DEF Truth
  <2>9. \A q \in Replicas : (phase'[q] = "record" /\ Connected(q)') =>
          Happened(reply'[q] = "ok", Head(batch'[q]))
    BY <2>1, <2>2 DEF Truth, Connected
  <2> QED
    BY <2>1, <2>6, <2>8, <2>9 DEF Truth, Happened
<1>6. ASSUME NEW p \in Replicas, CommitBatch(p) PROVE Truth'
  <2>0. /\ UNCHANGED <<posts, accepted>>
        /\ EndTransaction(p) /\ BackToTicker(p) /\ phase[p] = "commit"
    BY <1>6 DEF CommitBatch
  <2>1. /\ held'[p] = {} /\ \A d \in Deliveries : writes'[p][d] = NoRow
        /\ \A q \in Replicas \ {p} : /\ held'[q] = held[q] /\ writes'[q] = writes[q]
                                     /\ batch'[q] = batch[q] /\ phase'[q] = phase[q]
                                     /\ reply'[q] = reply[q]
    BY <2>0, EndKeeps
  <2>2. RowTellsTheTruth'
    <3> SUFFICES ASSUME NEW d \in Deliveries
                 PROVE  /\ rows'[d].status = "succeeded" => accepted[d] > 0
                        /\ rows'[d].status = "failed_exhausted" => posts[d] >= MaxAttempts
                        /\ rows'[d].count + accepted[d] <= posts[d]
      BY <2>0 DEF RowTellsTheTruth
    <3>1. CASE writes[p][d] = NoRow
      BY <1>6, <3>1, CommittedRows DEF Truth, RowTellsTheTruth
    <3>2. CASE writes[p][d] # NoRow
      <4>1. /\ rows'[d] \in Rows /\ Outcome(rows[d], rows'[d]) /\ rows'[d] = writes[p][d]
        BY <1>6, <3>2, CommittedRows
      <4>2. Happened(rows'[d].status = "succeeded", d)
        BY <3>2, <4>1 DEF Truth
      <4>3. rows[d].count + accepted[d] <= posts[d]
        BY DEF Truth, RowTellsTheTruth
      <4> QED
        BY <1>0, <4>1, <4>2, <4>3 DEF Outcome, Happened, Rows
    <3> QED
      BY <3>1, <3>2
  <2>3. ASSUME NEW q \in Replicas, NEW d \in Deliveries, writes'[q][d] # NoRow
        PROVE  Happened(writes[q][d].status = "succeeded", d)'
    <3>1. q # p /\ writes'[q] = writes[q]
      BY <2>1, <2>3
    <3>2. d \in held[q] /\ Happened(writes[q][d].status = "succeeded", d)
      BY <2>3, <3>1 DEF Truth, QueueInv, Written
    <3>3. rows'[d] = rows[d]
      BY <1>6, <3>1, <3>2, CommittedRows
    <3> QED
      BY <2>0, <3>1, <3>2, <3>3 DEF Happened
  <2>4. ASSUME NEW q \in Replicas, phase'[q] = "record", Connected(q)'
        PROVE  Happened(reply[q] = "ok", Head(batch[q]))'
    <3>1. /\ q # p /\ phase[q] = "record" /\ Connected(q)
          /\ batch'[q] = batch[q] /\ reply'[q] = reply[q]
      BY <2>1, <2>4 DEF Connected
    <3>2. /\ Head(batch[q]) \in held[q] /\ Happened(reply[q] = "ok", Head(batch[q]))
      BY <3>1, Recording DEF Truth
    <3>3. rows'[Head(batch[q])] = rows[Head(batch[q])]
      BY <1>6, <3>1, <3>2, CommittedRows
    <3> QED
      BY <2>0, <3>1, <3>2, <3>3 DEF Happened
  <2> QED
    BY <2>2, <2>3, <2>4 DEF Truth
<1>7. ASSUME NEW p \in Replicas, AbandonBatch(p) PROVE Truth'
  <2>1. /\ UNCHANGED <<posts, accepted, rows, writes, held>> /\ BackToTicker(p)
    BY <1>7 DEF AbandonBatch, txVars, receiverVars
  <2>2. /\ phase'[p] = "idle"
        /\ \A q \in Replicas \ {p} :
             phase'[q] = phase[q] /\ reply'[q] = reply[q] /\ batch'[q] = batch[q]
    BY <1>0, <2>1 DEF BackToTicker, TypeOK
  <2> QED
    BY <2>1, <2>2, TruthUntouched DEF Connected
<1>8. ASSUME NEW p \in Replicas, LoseConnection(p) \/ Crash(p) PROVE Truth'
  <2>1. /\ UNCHANGED <<posts, accepted, rows>> /\ EndTransaction(p)
        /\ BackToTicker(p) \/ UNCHANGED replicaVars
        /\ phase[p] # "idle"
    BY <1>8 DEF LoseConnection, Crash, receiverVars, QueueInv, Phases, Connected
  <2>2. /\ held'[p] = {} /\ \A d \in Deliveries : writes'[p][d] = NoRow
        /\ \A q \in Replicas \ {p} : /\ held'[q] = held[q] /\ writes'[q] = writes[q]
                                     /\ batch'[q] = batch[q] /\ phase'[q] = phase[q]
                                     /\ reply'[q] = reply[q]
    BY <2>1, EndKeeps
  <2> QED
    BY <2>1, <2>2, TruthUntouched DEF Connected
<1>9. CASE Tick
  <2>1. UNCHANGED <<posts, accepted, held, phase, reply, batch>>
    BY <1>9 DEF Tick
  <2>2. \A d \in Deliveries : rows'[d].count = rows[d].count /\ rows'[d].status = rows[d].status
    BY <1>0, <1>9, TickRows, LaterRow DEF TypeOK
  <2>3. \A p \in Replicas, d \in Deliveries : writes'[p][d] # NoRow =>
          writes[p][d] # NoRow /\ writes'[p][d].status = writes[p][d].status
    BY <1>0, <1>9, TickRows, LaterRow DEF TypeOK
  <2> QED
    BY <2>1, <2>2, <2>3, TruthUntouched DEF Connected
<1>10. CASE UNCHANGED vars
  BY <1>10, TruthUntouched DEF vars, txVars, replicaVars, receiverVars, Connected
<1> QED
  BY <1>1, <1>2, <1>3, <1>4, <1>5, <1>6, <1>7, <1>8, <1>9, <1>10 DEF Next, ReplicaStep, FaultStep

\* A row is marked succeeded only after a 2xx and given up only after MaxAttempts
\* POSTs, however replicas, batches and faults interleave.
THEOREM RowsAreTrue == Spec => []RowTellsTheTruth
<1>1. Truth => RowTellsTheTruth
  BY DEF Truth
<1> QED
  BY <1>1, QueueInitial, QueueInductive, TruthInitial, TruthInductive, PTL DEF Spec

-----------------------------------------------------------------------------
(* Deliveries are spaced by their delays.                                  *)

\* Initially no row waits for a retry.
LEMMA TimesInitial == Init => Times
  BY DEF Init, Times, SpacedByBackoff, NoRow

\* The delay after the n-th failure of a pending row.
LEMMA DelayOf ==
  ASSUME QueueInv, NEW row \in Rows, row.status = "pending", row.count > 0,
         row.count < MaxAttempts
  PROVE  Backoff[row.count] \in 0 .. Horizon /\ row.due \in -Horizon .. Horizon
<1>1. row.count \in 1 .. MaxAttempts - 1
  BY DEF Rows
<1> QED
  BY <1>1 DEF Rows

\* A step that releases locks and drops writes, at most, keeps Times.
LEMMA TimesUntouched ==
  ASSUME QueueInv, Times,
         UNCHANGED rested,
         \A d \in Deliveries : rows'[d] = rows[d] \/ rows'[d].count = 0,
         \A p \in Replicas : \A d \in held'[p] : d \in held[p] /\ rows'[d] = rows[d],
         \A p \in Replicas, d \in Deliveries : writes'[p][d] # NoRow =>
           writes'[p][d] = writes[p][d] /\ age'[p] = age[p]
  PROVE  Times'
<1>1. SpacedByBackoff'
  BY DEF Times, SpacedByBackoff
<1>2. \A d \in Deliveries : (rows'[d].status = "pending" /\ rows'[d].count > 0) =>
        Spaced(rows'[d], rested'[d])
  BY DEF Times
<1>3. \A p \in Replicas : \A d \in Deliveries : writes'[p][d].status = "pending" =>
        Spaced(writes'[p][d], age'[p])
  BY DEF Times, NoRow
<1> QED
  BY <1>1, <1>2, <1>3 DEF Times, Spaced

\* Every step keeps the retries apart.
LEMMA TimesInductive == QueueInv /\ Times /\ [Next]_vars => Times'
<1> SUFFICES ASSUME QueueInv, Times, [Next]_vars PROVE Times'
  OBVIOUS
<1>0. TypeOK
  BY DEF QueueInv
<1>1. ASSUME NEW e \in Endpoints, RegisterWebhook(e) PROVE Times'
  BY <1>1, TimesUntouched DEF RegisterWebhook, txVars, receiverVars
<1>2. ASSUME NEW v \in Events, EnqueueEvent(v) \/ CommitEvent(v) \/ RollbackEvent(v) PROVE Times'
  <2>1. UNCHANGED <<held, writes, age, rested>>
    BY <1>2 DEF EnqueueEvent, CommitEvent, RollbackEvent, txVars, receiverVars
  <2>2. \A d \in Deliveries : rows'[d] = rows[d] \/ rows'[d].count = 0
    BY <1>2 DEF EnqueueEvent, CommitEvent, RollbackEvent
  <2>3. \A p \in Replicas : \A d \in held[p] : rows'[d] = rows[d]
    BY <1>2, OutboxKeeps
  <2> QED
    BY <2>1, <2>2, <2>3, TimesUntouched
<1>3. ASSUME NEW p \in Replicas, TakeBatch(p) PROVE Times'
  <2>1. /\ UNCHANGED <<rows, writes, rested>> /\ phase[p] = "idle"
        /\ age' = [age EXCEPT ![p] = 0]
    BY <1>3 DEF TakeBatch, receiverVars
  <2>2. \A q \in Replicas : \A d \in held'[q] : d \in Deliveries /\ (d \in held[q] \/ Due(d))
    BY <1>3, TakeKeeps DEF QueueInv, TypeOK
  <2>3. ASSUME NEW d \in Deliveries, Due(d), rows[d].count > 0
        PROVE  rested[d] >= Backoff[rows[d].count]
    <3>1. rows[d] \in Rows /\ rows[d].status = "pending" /\ rows[d].count < MaxAttempts
      BY <1>0, <2>3 DEF Due, TypeOK, NoRow, QueueInv, Counted
    <3>2. Backoff[rows[d].count] \in 0 .. Horizon /\ rows[d].due \in -Horizon .. Horizon
      BY <2>3, <3>1, DelayOf
    <3>3. rows[d].due <= 0 /\ rested[d] \in 0 .. Horizon
      BY <1>0, <2>3 DEF Due, TypeOK
    <3>4. rested[d] >= Backoff[rows[d].count] - rows[d].due \/ rested[d] = Horizon
      BY <2>3, <3>1 DEF Times, Spaced
    <3> QED
      BY <3>2, <3>3, <3>4
  <2>4. SpacedByBackoff'
    BY <2>1, <2>2, <2>3 DEF Times, SpacedByBackoff
  <2>5. \A d \in Deliveries : writes[p][d] = NoRow
    BY <2>1 DEF QueueInv, Written, Phases
  <2>6. \A q \in Replicas \ {p} : age'[q] = age[q]
    BY <1>0, <2>1 DEF TypeOK
  <2>7. \A q \in Replicas : \A d \in Deliveries : writes'[q][d].status = "pending" =>
          Spaced(writes'[q][d], age'[q])
    BY <2>1, <2>5, <2>6 DEF Times, NoRow
  <2>8. \A d \in Deliveries : (rows'[d].status = "pending" /\ rows'[d].count > 0) =>
          Spaced(rows'[d], rested'[d])
    BY <2>1 DEF Times
  <2> QED
    BY <2>4, <2>7, <2>8 DEF Times, Spaced
<1>4. ASSUME NEW p \in Replicas, Post(p) PROVE Times'
  BY <1>4, TimesUntouched DEF Post, txVars
<1>5. ASSUME NEW p \in Replicas, RecordOutcome(p) PROVE Times'
  <2>1. UNCHANGED <<rows, held, age, rested>>
    BY <1>5 DEF RecordOutcome, receiverVars
  <2>2. PICK d \in Deliveries :
        /\ rows[d] \in Rows /\ rows[d].count < MaxAttempts /\ age[p] \in 0 .. Horizon
        /\ writes'[p][d] = IF reply[p] = "ok" THEN Succeeded(rows[d]) ELSE Failed(rows[d], age[p])
        /\ \A q \in Replicas, e \in Deliveries : (q # p \/ e # d) => writes'[q][e] = writes[q][e]
    BY <1>5, RecordedOutcome
  <2>3. writes'[p][d].status = "pending" => Spaced(writes'[p][d], age[p])
    <3>1. SUFFICES ASSUME writes'[p][d].status = "pending" PROVE Spaced(writes'[p][d], age[p])
      OBVIOUS
    <3>2. /\ writes'[p][d] \in Rows
          /\ writes'[p][d].count = rows[d].count + 1
          /\ writes'[p][d].due = Backoff[rows[d].count + 1] - age[p]
      BY <2>2, <3>1, OutcomeRow
    <3>3. writes'[p][d].count > 0 /\ writes'[p][d].count < MaxAttempts
      <4>1. rows[d].count \in Nat
        BY <2>2 DEF Rows
      <4>2. rows[d].count + 1 # MaxAttempts
        BY <2>2, <3>1, <4>1 DEF Failed, Exhausts, Succeeded
      <4> QED
        BY <2>2, <3>2, <4>1, <4>2
    <3>4. Backoff[rows[d].count + 1] \in 0 .. Horizon
      BY <3>1, <3>2, <3>3, DelayOf
    <3>5. Backoff[writes'[p][d].count] - writes'[p][d].due = age[p] /\ age[p] \in 0 .. Horizon
      BY <2>2, <3>2, <3>4
    <3> QED
      BY <3>5 DEF Spaced
  <2>4. \A q \in Replicas : \A e \in Deliveries : writes'[q][e].status = "pending" =>
          Spaced(writes'[q][e], age'[q])
    BY <2>1, <2>2, <2>3 DEF Times
  <2>5. /\ SpacedByBackoff'
        /\ \A e \in Deliveries : (rows'[e].status = "pending" /\ rows'[e].count > 0) =>
             Spaced(rows'[e], rested'[e])
    BY <2>1 DEF Times, SpacedByBackoff
  <2> QED
    BY <2>4, <2>5 DEF Times, Spaced
<1>6. ASSUME NEW p \in Replicas, CommitBatch(p) PROVE Times'
  <2>0. /\ EndTransaction(p) /\ BackToTicker(p) /\ phase[p] = "commit"
        /\ \A d \in Deliveries : rested'[d] = IF writes[p][d].status = "pending" THEN age[p]
                                              ELSE rested[d]
    BY <1>6 DEF CommitBatch
  <2>1. /\ held'[p] = {} /\ \A d \in Deliveries : writes'[p][d] = NoRow
        /\ \A q \in Replicas \ {p} :
           held'[q] = held[q] /\ writes'[q] = writes[q] /\ age'[q] = age[q]
    BY <2>0, EndKeeps
  <2>2. SpacedByBackoff'
    <3> SUFFICES ASSUME NEW q \in Replicas, NEW d \in held'[q], rows'[d].count > 0
                 PROVE  rested'[d] >= Backoff[rows'[d].count]
      BY DEF SpacedByBackoff
    <3>1. q # p /\ d \in held[q] /\ d \in Deliveries
      BY <1>0, <2>1 DEF TypeOK
    <3>2. rows'[d] = rows[d]
      BY <1>6, <3>1, CommittedRows
    <3>3. writes[p][d] = NoRow
      BY <3>1 DEF QueueInv, Written, Locks, OneReplicaPerDelivery
    <3>4. rested'[d] = rested[d]
      BY <2>0, <3>1, <3>3 DEF NoRow
    <3> QED
      BY <3>1, <3>2, <3>4 DEF Times, SpacedByBackoff
  <2>3. ASSUME NEW d \in Deliveries, rows'[d].status = "pending", rows'[d].count > 0
        PROVE  Spaced(rows'[d], rested'[d])
    <3>1. CASE writes[p][d] = NoRow
      <4>1. rows'[d] = rows[d] /\ rested'[d] = rested[d]
        BY <1>6, <2>0, <3>1, CommittedRows DEF NoRow
      <4> QED
        BY <2>3, <4>1 DEF Times
    <3>2. CASE writes[p][d] # NoRow
      <4>1. rows'[d] = writes[p][d]
        BY <1>6, <3>2, CommittedRows
      <4>2. rested'[d] = age[p]
        BY <2>0, <2>3, <4>1
      <4> QED
        BY <2>3, <4>1, <4>2 DEF Times
    <3> QED
      BY <3>1, <3>2
  <2>4. \A q \in Replicas : \A d \in Deliveries : writes'[q][d].status = "pending" =>
          Spaced(writes'[q][d], age'[q])
    BY <2>1 DEF Times, NoRow
  <2> QED
    BY <2>2, <2>3, <2>4 DEF Times, Spaced
<1>7. ASSUME NEW p \in Replicas, AbandonBatch(p) PROVE Times'
  BY <1>7, TimesUntouched DEF AbandonBatch, txVars, receiverVars
<1>8. ASSUME NEW p \in Replicas, LoseConnection(p) \/ Crash(p) PROVE Times'
  <2>1. /\ UNCHANGED <<rows, rested>> /\ EndTransaction(p)
        /\ BackToTicker(p) \/ UNCHANGED replicaVars
        /\ phase[p] # "idle"
    BY <1>8 DEF LoseConnection, Crash, receiverVars, QueueInv, Phases, Connected
  <2>2. /\ held'[p] = {} /\ \A d \in Deliveries : writes'[p][d] = NoRow
        /\ \A q \in Replicas \ {p} :
           held'[q] = held[q] /\ writes'[q] = writes[q] /\ age'[q] = age[q]
    BY <2>1, EndKeeps
  <2> QED
    BY <2>1, <2>2, TimesUntouched
<1>9. CASE Tick
  <2>0. /\ \A d \in Deliveries : rows'[d] = Later(rows[d])
        /\ \A p \in Replicas, d \in Deliveries : writes'[p][d] = Later(writes[p][d])
        /\ UNCHANGED held
    BY <1>9, TickRows DEF Tick
  <2>1. \A d \in Deliveries : /\ rested[d] \in 0 .. Horizon
                              /\ rested'[d] \in {rested[d], rested[d] + 1}
                              /\ (rows[d].status = "pending" /\ rows[d].count > 0) =>
                                   \/ rested[d] < Horizon /\ rested'[d] = rested[d] + 1
                                   \/ rested'[d] = Horizon
    BY <1>0, <1>9 DEF Tick, TypeOK
  <2>2. \A p \in Replicas : /\ age[p] \in 0 .. Horizon
                            /\ Connected(p) => \/ age[p] < Horizon /\ age'[p] = age[p] + 1
                                              \/ age'[p] = Horizon
    BY <1>0, <1>9 DEF Tick, TypeOK
  <2>3. ASSUME NEW row \in Rows, row.status = "pending", row.count > 0, row.count < MaxAttempts,
               NEW t \in 0 .. Horizon, Spaced(row, t), NEW u,
               (t < Horizon /\ u = t + 1) \/ u = Horizon
        PROVE  Spaced(Later(row), u)
    <3>1. /\ Later(row).count = row.count
          /\ Later(row).due = row.due - 1 \/ (Later(row).due = row.due /\ row.due = -Horizon)
      BY <2>3, LaterRow
    <3>2. Backoff[row.count] \in 0 .. Horizon /\ row.due \in -Horizon .. Horizon
      BY <2>3, DelayOf
    <3> QED
      BY <2>3, <3>1, <3>2 DEF Spaced
  <2>4. SpacedByBackoff'
    <3> SUFFICES ASSUME NEW p \in Replicas, NEW d \in held[p], rows'[d].count > 0
                 PROVE  rested'[d] >= Backoff[rows'[d].count]
      BY <2>0 DEF SpacedByBackoff
    <3>1. /\ d \in Deliveries /\ rows[d] \in Rows /\ rows[d].status = "pending"
          /\ rows[d].count < MaxAttempts
      BY <1>0 DEF QueueInv, TypeOK, Locks, Counted, NoRow
    <3>2. rows'[d].count = rows[d].count
      BY <2>0, <3>1, LaterRow
    <3>3. Backoff[rows[d].count] \in 0 .. Horizon /\ rested[d] >= Backoff[rows[d].count]
      <4>1. rows[d].count > 0
        BY <3>2
      <4>2. Backoff[rows[d].count] \in 0 .. Horizon
        BY <3>1, <4>1, DelayOf
      <4> QED
        BY <4>1, <4>2 DEF Times, SpacedByBackoff
    <3>4. rested[d] \in 0 .. Horizon /\ rested'[d] \in {rested[d], rested[d] + 1}
      BY <2>1, <3>1
    <3> QED
      BY <3>2, <3>3, <3>4
  <2>5. ASSUME NEW d \in Deliveries, rows'[d].status = "pending", rows'[d].count > 0
        PROVE  Spaced(rows'[d], rested'[d])
    <3>1. rows'[d].status = rows[d].status /\ rows'[d].count = rows[d].count
      BY <1>0, <2>0, LaterRow DEF TypeOK
    <3>2. rows[d] \in Rows /\ rows[d].count < MaxAttempts /\ Spaced(rows[d], rested[d])
      BY <1>0, <2>5, <3>1 DEF TypeOK, NoRow, QueueInv, Counted, Times
    <3>3. /\ rested[d] \in 0 .. Horizon
          /\ \/ rested[d] < Horizon /\ rested'[d] = rested[d] + 1
             \/ rested'[d] = Horizon
      BY <2>1, <2>5, <3>1
    <3> QED
      BY <2>0, <2>3, <2>5, <3>1, <3>2, <3>3
  <2>6. ASSUME NEW p \in Replicas, NEW d \in Deliveries, writes'[p][d].status = "pending"
        PROVE  Spaced(writes'[p][d], age'[p])
    <3>0. writes[p][d] \in Rows \cup {NoRow} /\ rows[d] \in Rows \cup {NoRow}
      BY <1>0 DEF TypeOK
    <3>1. writes[p][d].status = "pending"
      BY <2>0, <2>6, <3>0, LaterRow
    <3>2. writes[p][d] \in Rows /\ writes[p][d] # NoRow
      BY <3>0, <3>1 DEF NoRow
    <3>3. /\ d \in held[p] /\ writes[p][d].count = rows[d].count + 1
          /\ writes[p][d].count # MaxAttempts
      BY <3>1, <3>2 DEF QueueInv, Written, Outcome
    <3>4. writes[p][d].count > 0 /\ writes[p][d].count < MaxAttempts
      <4>1. writes[p][d].count \in 0 .. MaxAttempts
        BY <3>2 DEF Rows
      <4>2. rows[d].count \in Nat
        BY <3>0, RowStatus
      <4> QED
        BY <3>3, <4>1, <4>2
    <3>5. /\ Spaced(writes[p][d], age[p]) /\ age[p] \in 0 .. Horizon
          /\ (age[p] < Horizon /\ age'[p] = age[p] + 1) \/ age'[p] = Horizon
      <4>1. Connected(p)
        BY <3>3 DEF Connected
      <4> QED
        BY <2>2, <3>1, <4>1 DEF Times
    <3> QED
      BY <2>0, <2>3, <3>1, <3>2, <3>4, <3>5
  <2> QED
    BY <2>4, <2>5, <2>6 DEF Times, Spaced
<1>10. CASE UNCHANGED vars
  BY <1>10, TimesUntouched DEF vars, txVars, receiverVars
<1> QED
  BY <1>1, <1>2, <1>3, <1>4, <1>5, <1>6, <1>7, <1>8, <1>9, <1>10 DEF Next, ReplicaStep, FaultStep

\* Between two batches that send one delivery lies its delay, whichever replicas
\* take it and whatever fails in between.
THEOREM RetriesAreSpaced == Spec => []SpacedByBackoff
<1>1. Times => SpacedByBackoff
  BY DEF Times
<1> QED
  BY <1>1, QueueInitial, QueueInductive, TimesInitial, TimesInductive, PTL DEF Spec

-----------------------------------------------------------------------------
(* Repeated POSTs are paid for by faults.                                  *)

\* How much one replica counts in a set of them.
Share(p, S) == IF p \in S THEN 1 ELSE 0

\* What the step of p adds to the POSTs of d, it adds to what accounts for them.
PaidFor(p, d) ==
  posts'[d] + Share(p, Dooms(d)') + Recorded(rows[d]) + Share(p, Open(d)) + faults
    <= posts[d] + Share(p, Dooms(d)) + Recorded(rows[d])' + Share(p, Open(d)') + faults'

\* The cardinality of a set of replicas, with the share of one of them taken out.
LEMMA CountOne ==
  ASSUME NEW S \in SUBSET Replicas, NEW p \in Replicas
  PROVE  /\ Cardinality(S) \in Nat /\ Cardinality(S \ {p}) \in Nat
         /\ Cardinality(S) = Cardinality(S \ {p}) + Share(p, S)
<1>1. IsFiniteSet(S) /\ IsFiniteSet(S \ {p})
  BY FS_Subset
<1>2. Cardinality(S) \in Nat /\ Cardinality(S \ {p}) \in Nat
  BY <1>1, FS_CardinalityType
<1>3. Cardinality(S \ {p}) = IF p \in S THEN Cardinality(S) - 1 ELSE Cardinality(S)
  BY <1>1, FS_RemoveElement
<1> QED
  BY <1>2, <1>3 DEF Share

\* Doomed and Unsettled look at the replica itself only.
LEMMA OwnState ==
  ASSUME NEW q \in Replicas, NEW d \in Deliveries,
         held'[q] = held[q], phase'[q] = phase[q], batch'[q] = batch[q],
         (writes'[q][d] = NoRow) <=> (writes[q][d] = NoRow)
  PROVE  (Doomed(q, d)' <=> Doomed(q, d)) /\ (Unsettled(q, d)' <=> Unsettled(q, d))
  BY DEF Doomed, Unsettled, Connected

\* What a row records, and the other terms of the balance, are numbers.
LEMMA BalanceTypes ==
  ASSUME TypeOK, NEW d \in Deliveries
  PROVE  Recorded(rows[d]) \in Nat /\ posts[d] \in Nat /\ faults \in Nat
<1>1. rows[d].count \in Nat
  BY RowStatus DEF TypeOK
<1> QED
  BY <1>1 DEF Recorded, TypeOK

\* A step of one replica keeps the balance of d when its own terms do.
LEMMA OneReplicaMoves ==
  ASSUME TypeOK, TypeOK', NEW d \in Deliveries, NEW p \in Replicas, Balanced(d),
         \A q \in Replicas \ {p} : /\ (Doomed(q, d)' <=> Doomed(q, d))
                                   /\ (Unsettled(q, d)' <=> Unsettled(q, d))
  PROVE  PaidFor(p, d) => Balanced(d)'
<1> SUFFICES ASSUME PaidFor(p, d) PROVE Balanced(d)'
  OBVIOUS
<1>0. posts'[d] + Share(p, Dooms(d)') + Recorded(rows[d]) + Share(p, Open(d)) + faults
        <= posts[d] + Share(p, Dooms(d)) + Recorded(rows[d])' + Share(p, Open(d)') + faults'
  BY DEF PaidFor
<1>1. /\ Dooms(d) \in SUBSET Replicas /\ Dooms(d)' \in SUBSET Replicas
      /\ Open(d) \in SUBSET Replicas /\ Open(d)' \in SUBSET Replicas
  BY DEF Dooms, Open
<1>2. /\ Dooms(d)' \ {p} = Dooms(d) \ {p}
      /\ Open(d)' \ {p} = Open(d) \ {p}
  BY DEF Dooms, Open
<1>3. Recorded(rows[d]) \in Nat /\ posts[d] \in Nat /\ faults \in Nat
  BY BalanceTypes
<1>4. Recorded(rows[d])' \in Nat /\ posts'[d] \in Nat /\ faults' \in Nat
  <2>1. /\ rows'[d] \in Rows \cup {NoRow} /\ posts'[d] \in Nat
        /\ faults' \in 0 .. MaxFaults /\ MaxFaults \in Nat
    BY DispatcherAssumption DEF TypeOK
  <2>2. rows'[d].count \in Nat
    BY <2>1, RowStatus, DispatcherAssumption
  <2>3. Recorded(rows'[d]) \in Nat
    BY <2>2 DEF Recorded
  <2> QED
    BY <2>1, <2>3 DEF Recorded
<1>5. posts[d] + Cardinality(Dooms(d)) <= Recorded(rows[d]) + Cardinality(Open(d)) + faults
  BY DEF Balanced
<1>6. /\ Share(p, Dooms(d)) \in Nat /\ Share(p, Dooms(d)') \in Nat
      /\ Share(p, Open(d)) \in Nat /\ Share(p, Open(d)') \in Nat
  BY DEF Share
<1>7. /\ Cardinality(Dooms(d) \ {p}) \in Nat
      /\ Cardinality(Dooms(d)) = Cardinality(Dooms(d) \ {p}) + Share(p, Dooms(d))
      /\ Cardinality(Dooms(d)') = Cardinality(Dooms(d) \ {p}) + Share(p, Dooms(d)')
  BY <1>1, <1>2, CountOne
<1>8. /\ Cardinality(Open(d) \ {p}) \in Nat
      /\ Cardinality(Open(d)) = Cardinality(Open(d) \ {p}) + Share(p, Open(d))
      /\ Cardinality(Open(d)') = Cardinality(Open(d) \ {p}) + Share(p, Open(d)')
  BY <1>1, <1>2, CountOne
<1>9. posts'[d] + Cardinality(Dooms(d)') <= Recorded(rows[d])' + Cardinality(Open(d)') + faults'
  <2> DEFINE c == Cardinality(Dooms(d) \ {p})
             u == Cardinality(Open(d) \ {p})
  <2>1. posts[d] + (c + Share(p, Dooms(d))) <= Recorded(rows[d]) + (u + Share(p, Open(d))) + faults
    BY <1>5, <1>7, <1>8
  <2>2. c \in Nat /\ u \in Nat
    BY <1>7, <1>8
  <2> HIDE DEF c, u
  <2>3. posts'[d] + (c + Share(p, Dooms(d)'))
          <= Recorded(rows[d])' + (u + Share(p, Open(d)')) + faults'
    <3> DEFINE n == posts[d]  n2 == posts'[d]  f == faults  f2 == faults'
               r == Recorded(rows[d])  r2 == Recorded(rows[d])'
               s == Share(p, Dooms(d))  s2 == Share(p, Dooms(d)')
               t == Share(p, Open(d))  t2 == Share(p, Open(d)')
    <3>1. /\ n \in Nat /\ n2 \in Nat /\ r \in Nat /\ r2 \in Nat /\ f \in Nat /\ f2 \in Nat
          /\ s \in Nat /\ s2 \in Nat /\ t \in Nat /\ t2 \in Nat
      BY <1>3, <1>4, <1>6
    <3>2. n + (c + s) <= r + (u + t) + f
      BY <2>1
    <3>3. n2 + s2 + r + t + f <= n + s + r2 + t2 + f2
      BY <1>0
    <3> HIDE DEF n, n2, r, r2, s, s2, t, t2, f, f2
    <3>4. n2 + (c + s2) <= r2 + (u + t2) + f2
      BY <2>2, <3>1, <3>2, <3>3
    <3> QED
      BY <3>4 DEF n, n2, r, r2, s, s2, t, t2, f, f2
  <2> QED
    BY <2>3, <1>7, <1>8 DEF c, u
<1> QED
  BY <1>9 DEF Balanced

\* A step that moves no replica keeps it too.
LEMMA NobodyMoves ==
  ASSUME NEW d \in Deliveries, Balanced(d),
         \A q \in Replicas : /\ held'[q] = held[q] /\ phase'[q] = phase[q] /\ batch'[q] = batch[q]
                             /\ ((writes'[q][d] = NoRow) <=> (writes[q][d] = NoRow)),
         Recorded(rows[d])' = Recorded(rows[d]), UNCHANGED <<posts, faults>>
  PROVE  Balanced(d)'
<1>1. \A q \in Replicas : /\ (Doomed(q, d)' <=> Doomed(q, d))
                          /\ (Unsettled(q, d)' <=> Unsettled(q, d))
  BY OwnState
<1>2. Dooms(d)' = Dooms(d) /\ Open(d)' = Open(d)
  BY <1>1 DEF Dooms, Open
<1> QED
  BY <1>2 DEF Balanced

\* What pays for a step of p: nothing to pay; a POST that will be recorded, or was
\* paid for when the connection went; an outcome that becomes part of the row; a
\* fault, which voids one POST made or one still to come, never both.
LEMMA StepIsPaidFor ==
  ASSUME TypeOK, NEW d \in Deliveries, NEW p \in Replicas,
         \/ /\ posts'[d] = posts[d] /\ Recorded(rows[d])' = Recorded(rows[d]) /\ faults' = faults
            /\ (Doomed(p, d)' => Doomed(p, d)) /\ (Unsettled(p, d) => Unsettled(p, d)')
         \/ /\ posts'[d] = posts[d] + 1 /\ Recorded(rows[d])' = Recorded(rows[d])
             /\ faults' = faults
            /\ ~Doomed(p, d)' /\ ~Unsettled(p, d) /\ (Doomed(p, d) \/ Unsettled(p, d)')
         \/ /\ posts'[d] = posts[d] /\ Recorded(rows[d])' = Recorded(rows[d]) + 1
             /\ faults' = faults
            /\ ~Doomed(p, d)'
         \/ /\ posts'[d] = posts[d] /\ Recorded(rows[d])' = Recorded(rows[d])
             /\ faults' = faults + 1
            /\ ~(Doomed(p, d)' /\ Unsettled(p, d))
  PROVE  PaidFor(p, d)
<1> DEFINE n == posts[d]  n2 == posts'[d]  f == faults  f2 == faults'
           r == Recorded(rows[d])  r2 == Recorded(rows[d])'
           s == Share(p, Dooms(d))  s2 == Share(p, Dooms(d)')
           t == Share(p, Open(d))  t2 == Share(p, Open(d)')
<1>1. r \in Nat /\ n \in Nat /\ f \in Nat
  BY BalanceTypes
<1>2. /\ s = (IF Doomed(p, d) THEN 1 ELSE 0) /\ s2 = (IF Doomed(p, d)' THEN 1 ELSE 0)
      /\ t = (IF Unsettled(p, d) THEN 1 ELSE 0) /\ t2 = (IF Unsettled(p, d)' THEN 1 ELSE 0)
  BY DEF Share, Dooms, Open
<1>3. \/ /\ n2 = n /\ r2 = r /\ f2 = f
         /\ (Doomed(p, d)' => Doomed(p, d)) /\ (Unsettled(p, d) => Unsettled(p, d)')
      \/ /\ n2 = n + 1 /\ r2 = r /\ f2 = f
         /\ ~Doomed(p, d)' /\ ~Unsettled(p, d) /\ (Doomed(p, d) \/ Unsettled(p, d)')
      \/ n2 = n /\ r2 = r + 1 /\ f2 = f /\ ~Doomed(p, d)'
      \/ n2 = n /\ r2 = r /\ f2 = f + 1 /\ ~(Doomed(p, d)' /\ Unsettled(p, d))
  OBVIOUS
<1> HIDE DEF n, n2, r, r2, s, s2, t, t2, f, f2
<1>4. s \in {0, 1} /\ s2 \in {0, 1} /\ t \in {0, 1} /\ t2 \in {0, 1}
  BY <1>2
<1>5. n2 + s2 + r + t + f <= n + s + r2 + t2 + f2
  <2>1. CASE n2 = n /\ r2 = r /\ f2 = f /\ s2 <= s /\ t <= t2
    BY <1>1, <1>4, <2>1
  <2>2. CASE n2 = n + 1 /\ r2 = r /\ f2 = f /\ s2 = 0 /\ t = 0 /\ (s = 1 \/ t2 = 1)
    BY <1>1, <1>4, <2>2
  <2>3. CASE n2 = n /\ r2 = r + 1 /\ f2 = f /\ s2 = 0
    BY <1>1, <1>4, <2>3
  <2>4. CASE n2 = n /\ r2 = r /\ f2 = f + 1 /\ (s2 = 0 \/ t = 0)
    BY <1>1, <1>4, <2>4
  <2>5. /\ (Doomed(p, d)' => Doomed(p, d)) => s2 <= s
        /\ (Unsettled(p, d) => Unsettled(p, d)') => t <= t2
    BY <1>2
  <2>6. /\ ~Doomed(p, d)' => s2 = 0
        /\ ~Unsettled(p, d) => t = 0
        /\ Doomed(p, d) => s = 1
        /\ Unsettled(p, d)' => t2 = 1
    BY <1>2
  <2> QED
    BY <1>3, <2>1, <2>2, <2>3, <2>4, <2>5, <2>6
<1> QED
  BY <1>5 DEF PaidFor, n, n2, r, r2, s, s2, t, t2, f, f2

\* Initially nothing was POSTed.
LEMMA RepeatsInitial == Init => Repeats
<1> SUFFICES ASSUME Init, NEW d \in Deliveries PROVE Balanced(d)
  BY DEF Repeats
<1>1. Dooms(d) = {} /\ Open(d) = {}
  BY DEF Init, Dooms, Open, Doomed, Unsettled
<1>2. Cardinality({}) = 0
  BY FS_EmptySet
<1>3. posts[d] = 0 /\ Recorded(rows[d]) = 0 /\ faults = 0
  BY DEF Init, Recorded, NoRow
<1> QED
  BY <1>1, <1>2, <1>3 DEF Balanced

\* The balance survives a step of one replica that is paid for.
LEMMA ReplicaKeepsBalance ==
  ASSUME TypeOK, TypeOK', Repeats, NEW p \in Replicas,
         \A q \in Replicas \ {p} :
           held'[q] = held[q] /\ phase'[q] = phase[q] /\ batch'[q] = batch[q]
               /\ writes'[q] = writes[q],
         \A d \in Deliveries : PaidFor(p, d)
  PROVE  Repeats'
<1> SUFFICES ASSUME NEW d \in Deliveries PROVE Balanced(d)'
  BY DEF Repeats
<1>1. \A q \in Replicas \ {p} : /\ (Doomed(q, d)' <=> Doomed(q, d))
                                 /\ (Unsettled(q, d)' <=> Unsettled(q, d))
  BY OwnState
<1> QED
  BY <1>1, OneReplicaMoves DEF Repeats

\* Every step is paid for.
LEMMA RepeatsInductive == QueueInv /\ QueueInv' /\ Repeats /\ [Next]_vars => Repeats'
<1> SUFFICES ASSUME QueueInv, QueueInv', Repeats, [Next]_vars PROVE Repeats'
  OBVIOUS
<1>0. TypeOK /\ TypeOK'
  BY DEF QueueInv
<1>1. ASSUME UNCHANGED <<posts, faults>>, UNCHANGED <<held, phase, batch>>,
             \A d \in Deliveries : Recorded(rows[d])' = Recorded(rows[d]),
             \A q \in Replicas, d \in Deliveries :
               (writes'[q][d] = NoRow) <=> (writes[q][d] = NoRow)
      PROVE  Repeats'
  BY <1>1, NobodyMoves DEF Repeats
<1>2. ASSUME NEW e \in Endpoints, RegisterWebhook(e) PROVE Repeats'
  BY <1>1, <1>2 DEF RegisterWebhook, txVars, replicaVars, receiverVars, Recorded
<1>3. ASSUME NEW v \in Events, EnqueueEvent(v) \/ CommitEvent(v) \/ RollbackEvent(v) PROVE Repeats'
  <2>1. UNCHANGED <<posts, faults, writes, held, phase, batch>>
    BY <1>3 DEF EnqueueEvent, CommitEvent, RollbackEvent, txVars, replicaVars, receiverVars
  <2>2. \A d \in Deliveries : rows'[d] = rows[d] \/ (rows[d] = NoRow /\ rows'[d].status = "pending"
                                                     /\ rows'[d].count = 0)
    BY <1>3 DEF EnqueueEvent, CommitEvent, RollbackEvent, QueueInv, Counted
  <2>3. \A d \in Deliveries : Recorded(rows[d])' = Recorded(rows[d])
    BY <2>2 DEF NoRow, Recorded
  <2> QED
    BY <1>1, <2>1, <2>3
<1>4. ASSUME NEW p \in Replicas, TakeBatch(p) PROVE Repeats'
  <2>1. /\ UNCHANGED <<posts, faults, rows, writes>> /\ phase[p] = "idle" /\ phase'[p] = "post"
        /\ \A q \in Replicas \ {p} :
           held'[q] = held[q] /\ phase'[q] = phase[q] /\ batch'[q] = batch[q]
    BY <1>0, <1>4 DEF TakeBatch, receiverVars, TypeOK
  <2>2. held[p] = {} /\ held'[p] # {}
    <3>1. held[p] = {}
      BY <2>1 DEF QueueInv, Phases
    <3>2. PICK s \in Batches : s # <<>> /\ held' = [held EXCEPT ![p] = {s[i] : i \in DOMAIN s}]
      BY <1>4 DEF TakeBatch
    <3>3. 1 \in DOMAIN s
      BY <3>2, BatchElements, TailOfBatch
    <3> QED
      BY <1>0, <3>1, <3>2, <3>3 DEF TypeOK
  <2>3. \A d \in Deliveries : ~Doomed(p, d)' /\ ~Unsettled(p, d)
    BY <2>2 DEF Doomed, Unsettled, Connected
  <2>4. \A d \in Deliveries : PaidFor(p, d)
    BY <1>0, <2>1, <2>3, StepIsPaidFor DEF Recorded
  <2> QED
    BY <1>0, <2>1, <2>4, ReplicaKeepsBalance
<1>5. ASSUME NEW p \in Replicas, Post(p) PROVE Repeats'
  <2>1. /\ UNCHANGED <<faults, rows, writes, held, batch>> /\ phase[p] = "post"
        /\ phase'[p] = "record"
        /\ \A q \in Replicas \ {p} : phase'[q] = phase[q]
        /\ posts' = [posts EXCEPT ![Head(batch[p])] = @ + 1]
    BY <1>0, <1>5 DEF Post, txVars, TypeOK
  <2>2. /\ Head(batch[p]) \in Deliveries
        /\ Connected(p) => (Head(batch[p]) \in held[p] /\ writes[p][Head(batch[p])] = NoRow)
    <3>1. batch[p] \in Seq(Deliveries) /\ batch[p] # <<>>
      BY <1>0, <2>1 DEF QueueInv, TypeOK, Phases
    <3>2. Head(batch[p]) \in Deliveries /\ Head(batch[p]) = batch[p][1] /\ 1 \in 1 .. Len(batch[p])
      BY <3>1, TailOfBatch
    <3> QED
      BY <3>2 DEF QueueInv, Batched
  <2>3. ASSUME NEW d \in Deliveries PROVE PaidFor(p, d)
    <3>1. Recorded(rows[d])' = Recorded(rows[d]) /\ faults' = faults
      BY <2>1 DEF Recorded
    <3>2. ~Doomed(p, d)'
      BY <2>1 DEF Doomed
    <3>3. CASE d # Head(batch[p])
      <4>1. posts'[d] = posts[d] /\ (Unsettled(p, d) => Unsettled(p, d)')
        BY <1>0, <2>1, <3>3 DEF TypeOK, Unsettled
      <4> QED
        BY <1>0, <3>1, <3>2, <4>1, StepIsPaidFor
    <3>4. CASE d = Head(batch[p])
      <4>1. posts'[d] = posts[d] + 1
        BY <1>0, <2>1, <3>4 DEF TypeOK
      <4>2. ~Unsettled(p, d) /\ (Doomed(p, d) \/ Unsettled(p, d)')
        BY <2>1, <2>2, <3>4 DEF Unsettled, Doomed, Connected
      <4> QED
        BY <1>0, <3>1, <3>2, <4>1, <4>2, StepIsPaidFor
    <3> QED
      BY <3>3, <3>4
  <2> QED
    BY <1>0, <2>1, <2>3, ReplicaKeepsBalance
<1>6. ASSUME NEW p \in Replicas, RecordOutcome(p) PROVE Repeats'
  <2>1. /\ UNCHANGED <<faults, rows, posts, held>> /\ phase[p] = "record" /\ held[p] # {}
        /\ \A q \in Replicas \ {p} : phase'[q] = phase[q] /\ batch'[q] = batch[q]
    BY <1>0, <1>6 DEF RecordOutcome, receiverVars, TypeOK, Connected
  <2>2. /\ writes'[p][Head(batch[p])] \in Rows
        /\ \A q \in Replicas, d \in Deliveries :
             (q # p \/ d # Head(batch[p])) => writes'[q][d] = writes[q][d]
    BY <1>6, RecordedOutcome
  <2>3. writes'[p][Head(batch[p])] # NoRow
    BY <2>2 DEF NoRow, Rows, Statuses
  <2>4. \A q \in Replicas \ {p} : writes'[q] = writes[q]
    BY <1>0, <1>6 DEF RecordOutcome, TypeOK
  <2>5. ASSUME NEW d \in Deliveries PROVE PaidFor(p, d)
    <3>1. ~Doomed(p, d)' /\ (Unsettled(p, d) => Unsettled(p, d)')
      BY <2>1, <2>2, <2>3 DEF Doomed, Connected, Unsettled
    <3>2. posts'[d] = posts[d] /\ Recorded(rows[d])' = Recorded(rows[d]) /\ faults' = faults
      BY <2>1 DEF Recorded
    <3> QED
      BY <1>0, <3>1, <3>2, StepIsPaidFor
  <2> QED
    BY <1>0, <2>1, <2>5, <2>4, ReplicaKeepsBalance
<1>7. ASSUME NEW p \in Replicas, CommitBatch(p) PROVE Repeats'
  <2>1. /\ UNCHANGED <<faults, posts>> /\ phase[p] = "commit" /\ phase'[p] = "idle"
        /\ \A q \in Replicas \ {p} : /\ held'[q] = held[q] /\ phase'[q] = phase[q]
                                      /\ batch'[q] = batch[q] /\ writes'[q] = writes[q]
    BY <1>0, <1>7 DEF CommitBatch, EndTransaction, BackToTicker, TypeOK
  <2>2. ASSUME NEW d \in Deliveries PROVE PaidFor(p, d)
    <3>1. ~Doomed(p, d)' /\ posts'[d] = posts[d] /\ faults' = faults
      BY <2>1 DEF Doomed
    <3>2. CASE writes[p][d] = NoRow
      <4>1. ~Unsettled(p, d) /\ Recorded(rows[d])' = Recorded(rows[d])
        BY <1>7, <2>1, <3>2, CommittedRows DEF Unsettled, Recorded
      <4> QED
        BY <1>0, <3>1, <4>1, StepIsPaidFor
    <3>3. CASE writes[p][d] # NoRow
      <4>1. /\ rows'[d] = writes[p][d] /\ rows[d].status = "pending"
            /\ Outcome(rows[d], writes[p][d])
        BY <1>7, <3>3, CommittedRows
      <4>2. rows[d].count \in Nat
        BY <1>0, RowStatus DEF TypeOK
      <4>3. Recorded(rows[d])' = Recorded(rows[d]) + 1
        BY <4>1, <4>2 DEF Recorded, Outcome
      <4> QED
        BY <1>0, <3>1, <4>3, StepIsPaidFor
    <3> QED
      BY <3>2, <3>3
  <2> QED
    BY <1>0, <2>1, <2>2, ReplicaKeepsBalance
<1>8. ASSUME NEW p \in Replicas, AbandonBatch(p) PROVE Repeats'
  <2>1. /\ UNCHANGED <<faults, posts, rows, held, writes>> /\ held[p] = {} /\ phase'[p] = "idle"
        /\ \A q \in Replicas \ {p} : phase'[q] = phase[q] /\ batch'[q] = batch[q]
    BY <1>0, <1>8 DEF AbandonBatch, BackToTicker, TypeOK, txVars, receiverVars, Connected
  <2>2. ASSUME NEW d \in Deliveries PROVE PaidFor(p, d)
    <3>1. ~Doomed(p, d)' /\ ~Unsettled(p, d)
      BY <2>1 DEF Doomed, Unsettled
    <3>2. posts'[d] = posts[d] /\ Recorded(rows[d])' = Recorded(rows[d]) /\ faults' = faults
      BY <2>1 DEF Recorded
    <3> QED
      BY <1>0, <3>1, <3>2, StepIsPaidFor
  <2> QED
    BY <1>0, <2>1, <2>2, ReplicaKeepsBalance
<1>9. ASSUME NEW p \in Replicas, FaultStep(p) PROVE Repeats'
  <2>1. /\ faults' = faults + 1 /\ UNCHANGED <<posts, rows>>
        /\ \A q \in Replicas \ {p} : /\ held'[q] = held[q] /\ phase'[q] = phase[q]
                                      /\ batch'[q] = batch[q] /\ writes'[q] = writes[q]
    <3>1. /\ faults' = faults + 1 /\ UNCHANGED <<posts, rows>> /\ EndTransaction(p)
          /\ UNCHANGED <<phase, batch>> \/ BackToTicker(p)
      BY <1>9 DEF FaultStep, LoseConnection, Crash, Fault, replicaVars, receiverVars
    <3>2. \A q \in Replicas \ {p} : held'[q] = held[q] /\ writes'[q] = writes[q]
      BY <1>0, <3>1 DEF EndTransaction, TypeOK
    <3>3. \A q \in Replicas \ {p} : phase'[q] = phase[q] /\ batch'[q] = batch[q]
      BY <1>0, <3>1 DEF BackToTicker, TypeOK
    <3> QED
      BY <3>1, <3>2, <3>3
  <2>2. ASSUME NEW d \in Deliveries, Doomed(p, d)', Unsettled(p, d) PROVE FALSE
    <3>1. phase'[p] = "post" /\ Head(batch'[p]) = d
      BY <2>2 DEF Doomed
    <3>2. phase[p] = "post" /\ Head(batch[p]) = d
      BY <1>0, <1>9, <3>1 DEF FaultStep, LoseConnection, Crash, BackToTicker, replicaVars, TypeOK
    <3>3. Connected(p) /\ writes[p][d] # NoRow
      BY <2>2, <3>2 DEF Unsettled, Connected
    <3>4. batch[p] \in Seq(Deliveries) /\ batch[p] # <<>>
      BY <1>0, <3>2 DEF QueueInv, TypeOK, Phases
    <3>5. d = batch[p][1] /\ 1 \in 1 .. Len(batch[p])
      BY <3>2, <3>4, TailOfBatch
    <3> QED
      BY <3>3, <3>5 DEF QueueInv, Batched
  <2>3. ASSUME NEW d \in Deliveries PROVE PaidFor(p, d)
    <3>1. posts'[d] = posts[d] /\ Recorded(rows[d])' = Recorded(rows[d]) /\ faults' = faults + 1
      BY <2>1 DEF Recorded
    <3> QED
      BY <1>0, <2>2, <3>1, StepIsPaidFor
  <2> QED
    BY <1>0, <2>1, <2>3, ReplicaKeepsBalance
<1>10. CASE Tick
  <2>1. UNCHANGED <<posts, faults, held, phase, batch>>
    BY <1>10 DEF Tick
  <2>2. /\ \A d \in Deliveries : rows'[d] = Later(rows[d])
        /\ \A q \in Replicas, d \in Deliveries : writes'[q][d] = Later(writes[q][d])
    BY <1>10 DEF Tick
  <2>3. \A d \in Deliveries : Recorded(rows[d])' = Recorded(rows[d])
    BY <1>0, <2>2, LaterRow DEF Recorded, TypeOK
  <2>4. \A q \in Replicas, d \in Deliveries :
          writes[q][d] \in Rows \cup {NoRow} /\ writes'[q][d] = Later(writes[q][d])
    BY <1>0, <2>2 DEF TypeOK
  <2>5. \A q \in Replicas, d \in Deliveries : (writes'[q][d] = NoRow) <=> (writes[q][d] = NoRow)
    BY <2>4, LaterRow
  <2> QED
    BY <1>1, <2>1, <2>3, <2>5
<1>11. CASE UNCHANGED vars
  BY <1>1, <1>11 DEF vars, txVars, replicaVars, receiverVars, Recorded
<1> QED
  BY <1>2, <1>3, <1>4, <1>5, <1>6, <1>7, <1>8, <1>9, <1>10, <1>11 DEF Next, ReplicaStep

\* A delivery is POSTed more often than its row tells at most once for every crash
\* and every lost connection, and never without one.
THEOREM RepeatsArePaidFor == Spec => []RepeatedOnlyByFaults
<1>1. QueueInv /\ Repeats => RepeatedOnlyByFaults
  <2> SUFFICES ASSUME QueueInv, Repeats, NEW d \in Deliveries
               PROVE  posts[d] <= Recorded(rows[d]) + Cardinality(Open(d)) + faults
    BY DEF RepeatedOnlyByFaults, Open
  <2>1. Dooms(d) \in SUBSET Replicas /\ Open(d) \in SUBSET Replicas
    BY DEF Dooms, Open
  <2>2. Cardinality(Dooms(d)) \in Nat /\ Cardinality(Open(d)) \in Nat
    BY <2>1, FS_Subset, FS_CardinalityType
  <2>3. Recorded(rows[d]) \in Nat /\ posts[d] \in Nat /\ faults \in Nat
    BY BalanceTypes DEF QueueInv
  <2>4. posts[d] + Cardinality(Dooms(d)) <= Recorded(rows[d]) + Cardinality(Open(d)) + faults
    BY DEF Repeats, Balanced
  <2> QED
    BY <2>2, <2>3, <2>4
<1> QED
  BY <1>1, QueueInitial, QueueInductive, RepeatsInitial, RepeatsInductive, PTL DEF Spec
=============================================================================
