# Invoice & Payment Service: TLA+ model

A verification project for the invoice and payment service: an HTTP API over
PostgreSQL (`invoice-service`), a card processor it calls (`mock-psp`) and a
webhook outbox. Paths below are relative to the repository.

## The system

| Component | State | Operations | Talks to |
|---|---|---|---|
| state machine (`state_machine.rs`) | – | `can_finalize`, `can_void`, `can_mark_uncollectible`, `can_accept_payment` | called by the handlers |
| payments (`handlers/payments.rs`) | `payment_attempts`, the detached tasks | `pay_invoice`: reserve the key, claim, spawn the charge, wait, store the answer; the task: charge, settle | idempotency, PSP client, invoices, outbox |
| idempotency (`idempotency.rs`) | `idempotency_keys` | `reserve_or_get` (a polling loop), `finalize` | payments |
| PSP client (`psp_client.rs`), mock PSP (`mock-psp/src/main.rs`) | the charges the processor made | `charge` | HTTP |
| invoice handlers (`handlers/invoices.rs`) | `invoices`, `invoice_line_items` | create, finalize, void, mark-uncollectible, get, list | outbox |
| webhooks (`webhook_dispatcher.rs`, `handlers/webhooks.rs`) | `webhook_deliveries`, `webhook_endpoints` | `enqueue_event`, `run_dispatcher`, register | receivers over HTTP |
| tenancy (`auth.rs`, `handlers/business.rs`, `handlers/customers.rs`) | `businesses`, `api_keys`, `customers` | create, authenticate, list | – |
| boot (`main.rs`, `lib.rs`, `config.rs`) | the connection pool | connect with retry, migrate, route | – |

Handlers, detached payment tasks and the dispatcher share the database and the pool
of connections to it, and nothing else. What is hard is the payment path: it is two
transactions and a remote call that are not atomic together, it runs in a handler
that may be dropped at any await and in a task nobody joins, and it races retries of
itself, other payers and the handlers that close invoices. The dispatcher is the other
hard part: replicas of it share one table, and each sends several deliveries inside
one transaction that a crash or a broken connection undoes.
Properties that make each part correct:

* payments: one charge at a time per invoice, at most one success, paid only by
  a success, every attempt resolved, the answer true of attempt and processor;
* idempotency: one attempt per key, verbatim replay, no key reserved for ever;
* invoices: terminal states are final; the total is the exact sum;
* webhooks: one event per state change, durable with it; no delivery sent again once it
  is settled, repeated only by a fault, retried after its back-off, resolved in the
  end; nothing heard that is not true;
* tenancy: a caller reaches only rows of its own business;
* pool: nobody who holds a connection waits for another, and no wait is for ever.

`PROJECT.json` lists under `hazards` what is hard to test here, line by line.

## Modules

| Module | Models |
|---|---|
| `InvoiceState` | `state_machine.rs`: states and legality predicates |
| `Psp` | the processor's reply per token, `PspClient::charge`'s mapping of a reply to a `PspOutcome`, and what `finalize_payment_attempt` derives from an outcome |
| `Idempotency` | the table `idempotency_keys`: what the SELECT of `reserve_or_get` finds, its INSERT, `finalize`, the loop bound |
| `PaymentLedger` | abstract specification: the tables `invoices`, `payment_attempts` and the outbox, changed only by indivisible steps Create, Move, Claim, Settle |
| `Payments` | the payment path and everything it races against, composed from the three first modules; shown to implement `PaymentLedger` |
| `DeliveryQueue` | abstract specification: status and attempt count of the rows of `webhook_deliveries` |
| `WebhookDispatcher` | `webhook_dispatcher.rs`: the outbox, replicas, batches, POSTs, back-off, faults and time; shown to implement `DeliveryQueue` |
| `Notifications` | `PaymentLedger` and `WebhookDispatcher` composed: the ledger's events are the dispatcher's |
| `Tenancy` | `auth.rs`, `handlers/business.rs`, `customers.rs`, `webhooks.rs` and the reads of `invoices.rs` and `payments.rs`, on top of `PaymentLedger` |
| `InvoiceTotal` | `create_invoice`: validation, line items and total in fixed-width arithmetic, the CHECK constraints, the amount charged |
| `ConnectionPool` | the shared pool: when each part takes and returns a connection, waits for a row meanwhile, or gives up waiting |
| `MCPayments`, `MCWebhookDispatcher`, `MCNotifications`, `MCTenancy` | values of constants and symmetry sets for TLC |
| `PaymentLedgerProofs`, `PaymentsProofs`, `PaymentsAnswerProofs`, `WebhookDispatcherProofs`, `NotificationsProofs`, `TenancyProofs`, `ConnectionPoolProofs`, `InvoiceTotalProofs` | theorems |

### `Payments` and the code

One action is one database round trip or one await. A request makes at most one
attempt, so attempt ids are request ids.

* `pc[r]` is where the handler is: `lookup` and `reserve` (the SELECT and the
  INSERT of `reserve_or_get`), `claim` (`SELECT ... FOR UPDATE`), `insert` (the
  INSERT and COMMIT of the claim, holding the row lock), `spawn`
  (`fetch_total_cents` and `tokio::spawn`), `wait` (`tokio::time::timeout`),
  `store` (`idempotency::finalize`), `done`, and `gone` for a future that was
  dropped.
* `task[r]` is the detached task: `charging`, `settle` (outcome known, before the
  UPDATE of the attempt), `updated` (attempt row written, not committed), `done`,
  `error`, or `lost` in a crash.
* `psp[r]` is the charge as the processor sees it; it decides by itself
  (`PspDecide`), before or after the client gave up.
* `lock[i]` is the row lock of an invoice held by a claim. A settlement that pays,
  a void, a write-off and other claims wait for it. `IndexBusy` is the other wait:
  an INSERT of a pending attempt waits for a transaction that has rewritten the
  index entry of the same invoice. The two waits form a cycle (`Deadlocked`), which
  PostgreSQL breaks by aborting one of the transactions (`AbortClaim`,
  `AbortSettlement`).
* Transactions that cannot wait in the middle are one action: `transition`,
  `create_invoice`, and the settlement from its second UPDATE to its COMMIT (with
  the event it enqueues).
* Faults are switched on by the constant `Faults`: `"crash"` loses all handlers,
  tasks and open transactions; `"disconnect"` drops one handler; `"db"` makes a
  statement fail without effect (`HandlerDbError`, `TaskDbError`) or commit without
  the service knowing (`ReserveUnknown`, `ClaimUnknown`, `StoreUnknown`,
  `SettleUnknown`).
* Data: the digest of a request is the pair it digests; the outbox is the set of
  events handed to `enqueue_event`; amounts, ids and texts are left out.
  `"absent"` is an id for which the business has no invoice.

`UpdateAttempt` keeps the branch for an attempt that is no longer pending
(`payments.rs:292`); the proofs show it is never taken (`InFlight`).

### `WebhookDispatcher` and the code

* `rows` are the committed rows. `held[p]` and `writes[p]` are the row locks and the
  uncommitted updates of a replica's transaction; they live in the database. `phase`,
  `batch`, `reply` and `spent` live in the replica's process. `LoseConnection` takes
  away the first kind only: the replica goes on POSTing and finds out at its next
  statement (`AbandonBatch`). `Crash` takes both. A COMMIT whose acknowledgement is
  lost is a `CommitBatch`: the replica goes back to its ticker either way.
* `EnqueueEvent` is the SELECT of the endpoints inside the caller's transaction,
  `CommitEvent` the caller's COMMIT that makes the rows visible, some time after the
  `now()` that is their `next_attempt_at`.
* `TakeBatch` is BEGIN and the polling SELECT; a poll that finds nothing changes nothing.
  `Post`, `RecordOutcome` and `CommitBatch` follow `send_and_record` and the loop.
* Time is relative: `due` is `next_attempt_at` minus the present, `age` the time since the
  transaction began. Values beyond `Horizon` are not told apart; it is at least the
  longest delay of the instance. `Tick` lets time pass except while a POST would outlast
  its timeout or a replica is between two statements it executes at once.
* `posts`, `accepted` and `rested` only record history for the properties.
* No code sets `disabled_at`, so every endpoint is enabled.

`Notifications` splits each transaction that reports an event at `enqueue_event`: before
it the endpoints are read, at COMMIT the ledger's step and the dispatcher's
`CommitEvent` are one step. `Rollback` undoes the first half.

### `Tenancy`, `InvoiceTotal`, `ConnectionPool` and the code

* `Tenancy`: a request authenticates (`Authenticate`, all of `from_request_parts`) and later
  runs one handler with any ids. A secret is a model value with a prefix; `apiKeys` is
  indexed by prefix because `key_prefix` is UNIQUE, and argon2 accepts exactly the
  secret that was hashed. A row of `response` is what an answer showed, and to whom.
  `issued` remembers which business a secret was handed out to, independently of the
  table the code looks at, so that the properties speak of people and not of lookups.
  Handlers are one step here. Line items belong to their invoice and are shown with it.
* `InvoiceTotal`: the steps of the transaction of `create_invoice`; a request that fails
  validation has no effect. `Rollback` is any failing statement. Integers are
  `-Half .. Half - 1`, with `Half` 2^63 in the code; an operation wraps around as a release
  build does. `RunningSums` is the column of partial totals of the code's loop, `ExactSums`
  the same without wrapping.
* `ConnectionPool`: a client is a caller of the API, a settlement task or a dispatcher. `use[c]`
  is what it takes a connection for, `Ops` what it does with it, `Then` what may come next:
  the uses of `pay_invoice` in their order, finalize, void and write-off as `transition`, and
  every other statement or transaction as `query` (any number of them, as in `list_invoices`).
  `Start` is among what may come next after any use, since a request may be answered, refused
  or dropped there. A connection in use is known by its user and the step it was taken for.
  sqlx serves waiters in their order. `GiveUp` is its acquire timeout (30 s, which
  `connect_with_retry` leaves at the default) or a client that hangs up; `AfterTimeout` is
  what the code does about the error: `pay_invoice` stores it under the key it has reserved, a
  settlement ends and is not tried again. What that leaves behind is the fault `"db"` of
  `Payments`.

## Runs

Deadlock checking is on in every run: `Quiescent` of `Payments` stutters only when nothing
runs, and the others always have a step, so a wait that nobody ends is an error.

| Run | Instance | Shows |
|---|---|---|
| `notifications` | 2 attempts, 1 invoice, 1 endpoint, 1 replica, batches of 1, a crash, fairness | the promises of the abstract ledger; events durable with their change, true when heard, settlements heard |
| `payments_faults` | 2 requests, 2 keys, 1 invoice, 3 tokens, all faults | types, refinement of the ledger, no concurrent charges, one attempt per key, verbatim replay, true answers, a second charge only after an unknown result, books that agree with the processor, stored answers frozen |
| `payments_liveness` | 2 requests, 2 keys, 2 tokens, no faults, fairness | every request answered, every attempt settled or its task in error, no ownerless reservation, no ownerless pending attempt |
| `dispatcher` | 2 replicas, 2 endpoints, batches of 2, 3 attempts, 2 faults, fairness | refinement of `DeliveryQueue`, truthful rows, repetition only by faults, nothing settled sent by a replica that has its transaction, back-off counted from the batch, every delivery resolved |
| `tenancy` | 2 businesses, 3 secrets (2 with one prefix), 2 customers, 1 invoice, 1 attempt, 1 endpoint | only own rows shown, changed, billed and notified |
| `total_release` | 3-bit integers, up to 3 lines | rows and total agree; overflow up to twice the range is refused |
| `pool` | 2 callers of the whole API, a settlement, a dispatcher, 2 connections, fairness | no hold-and-wait, every wait for a connection ends |
| `wrapped_total` | 3-bit integers, up to 3 lines | **violated**: the stored total is not the sum |
| `void_during_payment` | 2 requests, no faults | **violated**: a succeeded attempt on a void invoice |
| `claim_settle_deadlock` | 2 requests, no faults, fairness | **violated**: a charged attempt stays pending after a deadlock |
| `crash_before_claim` | 2 requests, crash | **violated**: a key stays reserved for good |
| `lost_reply` | 2 requests, no faults | **violated**: the reply is lost, the retry charges again |

The violated properties state what the documentation or a comment says; the `findings`
of `PROJECT.json` quote it. Two comments of `webhook_dispatcher.rs` promise more than the
properties that hold. Lines 97-99 say a delivery is never sent twice;
`RepeatedOnlyByFaults` is what is true: a crash or a lost connection between a POST and
the COMMIT of its batch repeats every delivery of the batch sent so far, once per fault.
`SentWhilePending` adds who sends what is settled: only a replica whose transaction is gone.
Lines 4-5 say that 30 s pass between a first failure and the next attempt;
`SpacedByBackoff` is what is true: the delay is counted from the BEGIN
of the batch, so after 20 receivers that use up 5 s each it is over before the last failure
is written.

**Bounds.** Every property of `Payments` is about one invoice: no statement of the payment
path reads or locks rows of another one, so one invoice is enough. All pairwise races
need two requests. Two keys give the same key and different keys. `MaxPolls = 2` (15 in
the code) has a first, a last and an off-by-one turn; more turns only repeat the lookup.
The tokens cover an approved charge, a decline and a 5xx; with an unreadable or lost
reply they reach every shape of outcome. The ledger's promises are checked with two
attempts on one invoice and proved for any number.

Dispatcher: two replicas give every race for a row, two deliveries in a batch a batch that
is undone half-way, three attempts a first, a middle and a last failure. The first
delay (2 ticks) is longer than a POST (1) and not longer than a batch of them, as in the
code. Batches smaller than what is due are in `notifications` (three events, batches of
one); there an attempt is final after one POST, and the retries are in `dispatcher`.
Tenancy: one request at a time is enough, since handlers read the tables anew and what
is kept from authentication can only be outdated by a revocation, which may come between.
Pool: four clients and two connections let both connections be held by clients that wait
for the row or for a receiver while the others queue, in every order.
Totals: with 3-bit integers three lines reach sums of 27 against a range of 8, so products,
partial sums and totals wrap once and several times.

**Fairness.** Weak fairness of every handler and of every task: tokio polls every
ready future, the row lock and the index wait are released by transactions that
are themselves fair or aborted by PostgreSQL's detector, and the client's hard
timeout (`PspClient::new`) ends every charge. Nothing is assumed of clients, of the
processor or of faults. Requests are finite in an instance, so waiting for a row
lock under an endless stream of other payers is not covered.

Dispatcher: weak fairness of each replica (a loop on a one-second ticker; a POST ends by its
5 s timeout) and of time. Receivers, faults and the callers of `enqueue_event` are free.
Pool: weak fairness of granting and of ending a transaction, strong fairness of the row
lock, because PostgreSQL queues the waiters of a row. Clients are not obliged to ask, and no
waiter to give up: `WaitEnds` does not rest on the acquire timeout.

## Proofs

Every safety invariant, action property and refinement that a passing run checks is also
proved for every value of the constants. The runs check
the inductive invariants' consequences on small instances; the invariants themselves were
checked with TLC on the same instances before they were proved.

**Assumptions.** Sets of requests, keys, invoices, tokens, businesses, replicas and clients are
arbitrary, and so is `Faults`. Bounds are positive naturals (`MaxPolls`, `MaxAttempts`,
`BatchSize`, `MaxConnections`, `Half`) or naturals, and `Backoff` is any table of delays up to
`Horizon`. `None` is no id. Ids of different tables differ (UUIDs) in `Tenancy`. The
dispatcher's replicas, events and endpoints are finite sets, which the count of POSTs per
fault needs; `Notifications` assumes the same of the ledger's events. Only
`PaymentsReservedKeyHasOwner` and `PaymentsPendingHasOwner` have a further hypothesis,
`Faults = {}`: a crash leaves an ownerless key behind, as the run `crash_before_claim`
shows, and an attempt nobody will settle (so does a client that hangs up, or a failing
`fetch_total_cents`, between the claim and the spawn).

* `PaymentLedgerProofs`. The ledger's invariant adds `SucceededIsClosed` (an invoice
  with a succeeded attempt is terminal), `OnePendingPerInvoice` and `AttemptedWasFinalized`
  to the promises: without them a second success on an invoice could not be excluded. From
  it follow at most one success and paid-by-success; the outbox and the
  finality of terminal states are proved on top.
* `PaymentsProofs`. The inductive invariant `IInv` ties the program counters to the
  tables: a handler at `insert` holds the row lock and the invoice is open (`Locked`);
  before the claim commits there is no attempt and before the spawn no task
  (`NotYet`); a working task has a pending attempt on its request's invoice and, when
  it settles, an outcome (`InFlight`, `OnOwnInvoice`); one pending attempt per invoice
  (`OnePending`). It gives the types, `NoConcurrentCharges` and, because an INSERT then
  is a `Claim` and a committed settlement a `Settle`, the refinement
  `Spec => ImplementsLedger`. `KeyInv` says that a request which won its reservation is the only
  owner of the key and that an owner at work finds the row without a response. It gives
  `OneAttemptPerKey` and `StoredAnswerFrozen`.
* `PaymentsAnswerProofs`. `Charges` relates a task's outcome and a settled row to what the
  processor did. `Told` says that every answer, given or stored, is true (`IsTrue`), and
  that who was turned away has no attempt; truth lasts because settled rows and decided
  charges never change (`TruthLasts`). This gives `AnswerIsTrue`. `Replayed` ties a final
  answer to the row of its key and gives `ReplayIsVerbatim`. A charged card has an attempt
  that is pending, succeeded or recorded as `psp_unavailable` (`ChargedRow`); two of the
  first kinds on one invoice contradict the *ledger's* invariant, which holds here by the
  refinement: `ChargedTwiceOnlyIfUnavailable`. `ChargedRow` and the ledger's `PaidBySuccess`
  give `BooksMatchProcessor`. `PaymentsKeepPromises` carries the ledger's other theorems
  over. `Owned` adds that an answer about to be stored is one, and gives
  `ReservedKeyHasOwner`; `PendingHasOwner` is inductive by itself on top of `IInv`.
* `WebhookDispatcherProofs`. `QueueInv`: an open transaction has locked the deliveries of its
  batch and what it wrote (`Batched`, `Written`), a delivery is locked by one replica
  (`OneReplicaPerDelivery`) and stays pending meanwhile (`Locks`), a pending row has attempts
  left (`Counted`). With it a COMMIT is a set of `DeliveryQueue` steps, one for each row: the
  refinement; and a replica with a transaction sends only what is pending
  (`SettledIsNotSent`). `Truth` adds
  what is written but not committed, and the reply a replica has in hand; `Times` the age
  of the open batches. `Balanced` counts for each delivery the POSTs made, the replicas that
  will make one more without a transaction and those that will still commit one, against
  rows and faults; every step keeps the balance.
* `NotificationsProofs` instantiates the proofs of the dispatcher with the events of the
  ledger. Each part behaves as it does alone (`PartsBehave`), so its theorems carry over;
  `NInv` ties an event to its change and a POST to a committed row.
* `TenancyProofs`. `TenancyInv`: a row of `api_keys`, a session and a stored answer belong to the
  business the secret was issued to, rows with an owner exist, attempts are on invoices
  with an owner, deliveries and customers are of the same owner as their invoice. The
  handlers are first sorted by what they do (`HandlerKinds`). `TenancyIsALedger` carries
  the ledger's theorems over.
* `ConnectionPoolProofs`. `Progress` reads off a client's place in its use of the pool what it
  has: nothing before an acquire, one connection after it, the row only just before the
  release. It rests on the shape of the uses (`Unnested`) and on the queue naming nobody twice
  (`Orderly`), which leaving it in the middle does not change (`Withdrawn`).
* `InvoiceTotalProofs`. Sums over the lines of an invoice are recursive functions, and what
  they compute needs an induction over the lines. The library's induction theorems take
  an operator as a parameter, which the provers cannot instantiate, so the induction is
  done with sets: `NatLessThanWellFounded` gives a least member of any set of naturals
  (`LeastMember`), hence a set of line numbers that has 0 and the successor of each of its
  members has all (`LineByLine`), and a recursion over line numbers has a solution
  (`Iteration`), so both sums satisfy their equations. Wrapping early or late is the same
  (`SumsWrap`): the code's running sum is the exact sum wrapped once. The invariant `TInv`
  then relates the rows inserted so far to the totals computed before. It gives
  `RowsAgree`, `ExactBelowTwiceRange` (the sign check refuses every single overflow) and
  `TotalIsSumModuloRange`: what the stored total can differ from the true one by is a
  multiple of the range, which is the exact truth behind the violation of `wrapped_total`.

**Checked by TLC only.** Liveness, which is out of the prover's reach: `Answered`,
`AttemptsEnd`, `SettlementIsHeard`, `Resolved` and `WaitEnds`. The safety half of `AttemptsEnd`,
`PendingHasOwner`, is proved.

## Not modelled

Left out for good: cryptography (`sign`, argon2, the generation of keys and secrets), start-up
(`main`, migrations, the retry of the first connection) and configuration, names,
descriptions, currency and due dates, the wording of errors and logs. Nothing in the
service deletes a row, disables an endpoint or revokes a key; revocation is an action of an
operator in `Tenancy`, the other two do not occur. The pool's acquire timeout has no clock:
a waiter may give up at any moment.
