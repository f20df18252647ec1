------------------------------ MODULE Tenancy ------------------------------
(***************************************************************************)
(* Who may see and change what: API keys and the business they stand for   *)
(* (auth.rs), the handlers that create, show and list rows, and the        *)
(* business_id that scopes their queries, on top of the payment ledger.    *)
(*                                                                         *)
(* A request authenticates in one step and runs its handler in a later     *)
(* one, and may name any id and present any key.  A handler's statements   *)
(* are one step here; Payments.tla takes the payment path apart.           *)
(***************************************************************************)
EXTENDS PaymentLedger

CONSTANTS Businesses,
          Keys,            \* secrets of API keys, issued or made up
          PrefixOf,        \* the first twelve digits of a secret
          Customers,
          Endpoints,       \* ids of webhook endpoints
          IdempotencyKeys,
          Requests

Owned == Customers \cup Invoices \cup Endpoints

\* Rows of different tables are different rows.
ASSUME TenancyAssumption ==
  /\ None \notin Businesses \cup Keys \cup Customers
  /\ Attempts \cap Owned = {}
  /\ Customers \cap Invoices = {}
  /\ Endpoints \cap (Customers \cup Invoices) = {}

VARIABLES
  apiKeys,     \* api_keys by key_prefix: whose it is, the secret it is a hash of
  issued,      \* the business a secret was handed out to
  owner,       \* business_id of customers, invoices and webhook_endpoints
  customer,    \* invoices.customer_id
  deliveries,  \* webhook_deliveries: endpoint and event
  answers,     \* idempotency_keys by business and key
  session,     \* a request between its authentication and its handler
  response     \* what the last answer showed, and to the holder of which key

accounts == <<apiKeys, issued>>
tables == <<owner, customer, deliveries, answers>>
tvars == <<ledger, accounts, tables, session, response>>

Prefixes == {PrefixOf[k] : k \in Keys}
NoKey == [business |-> None, hash |-> None, revoked |-> FALSE]
NoAnswer == [invoice |-> None, rows |-> {}]
NoSession == [key |-> None, business |-> None]
NoResponse == [key |-> None, rows |-> {}]

TInit ==
  /\ Init
  /\ apiKeys = [p \in Prefixes |-> NoKey]
  /\ issued = [k \in Keys |-> None]
  /\ owner = [x \in Owned |-> None]
  /\ customer = [i \in Invoices |-> None]
  /\ deliveries = {}
  /\ answers = [b \in Businesses |-> [k \in IdempotencyKeys |-> NoAnswer]]
  /\ session = [r \in Requests |-> NoSession]
  /\ response = [r \in Requests |-> NoResponse]

-----------------------------------------------------------------------------
(* Businesses and their keys.                                              *)

\* create_business: both INSERTs or, when the prefix is taken, none of them
\* (key_prefix is UNIQUE), and the secret is shown to its caller.
CreateBusiness(b, k) ==
  /\ \A j \in Keys : issued[j] # b
  /\ issued[k] = None
  /\ apiKeys[PrefixOf[k]] = NoKey
  /\ apiKeys' = [apiKeys EXCEPT ![PrefixOf[k]] =
                   [business |-> b, hash |-> k, revoked |-> FALSE]]
  /\ issued' = [issued EXCEPT ![k] = b]
  /\ UNCHANGED <<ledger, tables, session, response>>

\* An operator sets revoked_at; no handler does.
RevokeKey(p) ==
  /\ apiKeys[p] # NoKey
  /\ apiKeys' = [apiKeys EXCEPT ![p].revoked = TRUE]
  /\ UNCHANGED <<ledger, issued, tables, session, response>>

\* Mutant: the prefix alone authenticates.
PrefixSuffices(k, row) == row # NoKey

\* verify_secret.
VerifySecret(k, row) == row.hash = k

Accepts(k, row) == row # NoKey /\ ~row.revoked /\ VerifySecret(k, row)

\* AuthedBusiness: the key's row is looked up by its prefix.
Authenticate(r, k) ==
  LET row == apiKeys[PrefixOf[k]] IN
  /\ session[r] = NoSession
  /\ \/ /\ Accepts(k, row)
        /\ session' = [session EXCEPT ![r] = [key |-> k, business |-> row.business]]
        /\ UNCHANGED response
     \/ /\ ~Accepts(k, row)
        /\ response' = [response EXCEPT ![r] = [key |-> k, rows |-> {}]]
        /\ UNCHANGED session
  /\ UNCHANGED <<ledger, accounts, tables>>

-----------------------------------------------------------------------------
(* Handlers.                                                               *)

\* The answer shows these rows and ends the request.
Respond(r, rows) ==
  /\ response' = [response EXCEPT ![r] = [key |-> session[r].key, rows |-> rows]]
  /\ session' = [session EXCEPT ![r] = NoSession]
  /\ UNCHANGED accounts

\* Mutant: the query forgets the business.
UnscopedQuery(r, x) == owner[x] # None

\* The row exists and WHERE ... AND business_id = $2 finds it.
Scoped(r, x) == owner[x] # None /\ owner[x] = session[r].business

Own(r, S) == {x \in S : Scoped(r, x)}

\* One INSERT for the caller.
Insert(r, x) ==
  /\ owner[x] = None
  /\ owner' = [owner EXCEPT ![x] = session[r].business]
  /\ Respond(r, {x})
  /\ UNCHANGED <<ledger, customer, deliveries, answers>>

CreateCustomer(r, c) == Insert(r, c)
RegisterWebhook(r, e) == Insert(r, e)

\* A handler that only reads.
Show(r, rows) == Respond(r, rows) /\ UNCHANGED <<ledger, tables>>

\* The row or a 404.
GetCustomer(r, c) == Show(r, Own(r, {c}))
GetInvoice(r, i) == Show(r, Own(r, {i}))

ListCustomers(r) == Show(r, Own(r, Customers))

\* list_invoices, of one state or of all.
ListInvoices(r, states) == Show(r, {i \in Own(r, Invoices) : invoice[i] \in states})

\* get_payment_attempt: the attempt has to be on the invoice of the path.
GetPaymentAttempt(r, i, a) ==
  Show(r, IF attempts[a].invoice = i /\ Scoped(r, i) THEN {a} ELSE {})

\* Mutant: every endpoint hears of every event.
AllEndpoints(b) == {e \in Endpoints : owner[e] # None}

\* enqueue_event's SELECT (no code disables an endpoint).
EndpointsOf(b) == {e \in Endpoints : owner[e] = b}

EnqueueEvent(b, v) == deliveries' = deliveries \cup {<<e, v>> : e \in EndpointsOf(b)}

\* Mutant: the customer of a new invoice is looked up without the business.
AnyCustomer(r, c) == owner[c] # None

CustomerExists(r, c) == Scoped(r, c)

CreateInvoice(r, i, c) ==
  \/ /\ CustomerExists(r, c)
     /\ Create(i)
     /\ owner' = [owner EXCEPT ![i] = session[r].business]
     /\ customer' = [customer EXCEPT ![i] = c]
     /\ EnqueueEvent(session[r].business, [event |-> "invoice.created", subject |-> i])
     /\ Respond(r, {i})
     /\ UNCHANGED answers
  \/ ~CustomerExists(r, c) /\ Show(r, {})

\* finalize, void and mark-uncollectible: the changed invoice, or a 404 or a 409
\* (every state refuses one of the three).
Transition(r, i) ==
  \/ Scoped(r, i) /\ Move(i) /\ Respond(r, {i}) /\ UNCHANGED tables
  \/ Show(r, {})

\* Mutant: the idempotency keys of all businesses are one name space.
AnswerOfAnyone(r, k) ==
  LET B == {b \in Businesses : answers[b][k] # NoAnswer}
  IN IF B = {} THEN NoAnswer ELSE answers[CHOOSE b \in B : TRUE][k]

\* reserve_or_get looks under (business_id, idempotency_key).
AnswerOf(r, k) == answers[session[r].business][k]

Store(r, k, i, rows) ==
  answers' = [answers EXCEPT ![session[r].business][k] = [invoice |-> i, rows |-> rows]]

\* pay_invoice with a new key: the claim, or the refusal that is stored too.
Pay(r, i, a, k) ==
  /\ AnswerOf(r, k) = NoAnswer
  /\ \/ Scoped(r, i) /\ Claim(a, i) /\ Store(r, k, i, {a}) /\ Respond(r, {a})
     \/ /\ Scoped(r, i) => ~Claimable(i)
        /\ Store(r, k, i, {}) /\ Respond(r, {})
        /\ UNCHANGED ledger
  /\ UNCHANGED <<owner, customer, deliveries>>

\* pay_invoice with a used key: the stored answer, or a 422 for another body.
PayAgain(r, i, k) ==
  /\ AnswerOf(r, k) # NoAnswer
  /\ Show(r, IF AnswerOf(r, k).invoice = i THEN AnswerOf(r, k).rows ELSE {})

\* finalize_payment_attempt: the business is looked up from the invoice.
SettlePayment(a, o) ==
  /\ Settle(a, o)
  /\ EnqueueEvent(owner[attempts[a].invoice], [event |-> EventOf(o), subject |-> a])
  /\ UNCHANGED <<accounts, owner, customer, answers, session, response>>

-----------------------------------------------------------------------------
Handle(r) ==
  /\ session[r] # NoSession
  /\ \/ \E c \in Customers : CreateCustomer(r, c) \/ GetCustomer(r, c)
     \/ ListCustomers(r)
     \/ \E e \in Endpoints : RegisterWebhook(r, e)
     \/ \E states \in {{s} : s \in States} \cup {States} : ListInvoices(r, states)
     \/ \E i \in Invoices : \/ GetInvoice(r, i) \/ Transition(r, i)
                            \/ \E c \in Customers : CreateInvoice(r, i, c)
                            \/ \E a \in Attempts : GetPaymentAttempt(r, i, a)
                            \/ \E k \in IdempotencyKeys :
                                 \/ PayAgain(r, i, k)
                                 \/ \E a \in Attempts : Pay(r, i, a, k)

TNext ==
  \/ \E b \in Businesses, k \in Keys : CreateBusiness(b, k)
  \/ \E p \in Prefixes : RevokeKey(p)
  \/ \E r \in Requests : Handle(r) \/ \E k \in Keys : Authenticate(r, k)
  \/ \E a \in Attempts, o \in PspOutcomes : SettlePayment(a, o)

TSpec == TInit /\ [][TNext]_tvars

-----------------------------------------------------------------------------
(* Properties.                                                             *)

\* Every variable keeps its type.
TenancyTypeOK ==
  /\ TypeOK
  /\ apiKeys \in [Prefixes -> [business : Businesses \cup {None}, hash : Keys \cup {None},
                               revoked : BOOLEAN]]
  /\ issued \in [Keys -> Businesses \cup {None}]
  /\ owner \in [Owned -> Businesses \cup {None}]
  /\ customer \in [Invoices -> Customers \cup {None}]
  /\ deliveries \subseteq Endpoints \X Events
  /\ answers \in [Businesses -> [IdempotencyKeys ->
                    [invoice : Invoices \cup {None}, rows : SUBSET Attempts]]]
  /\ session \in [Requests -> [key : Keys \cup {None}, business : Businesses \cup {None}]]
  /\ response \in [Requests -> [key : Keys \cup {None}, rows : SUBSET (Owned \cup Attempts)]]

OwnerOf(x) == IF x \in Attempts THEN owner[attempts[x].invoice] ELSE owner[x]

\* "No endpoint can return another business's row by guessing an id": whatever
\* keys, ids and idempotency keys requests present, and however keys collide in
\* their prefix, an answer shows only rows of the business that the presented
\* secret was handed out to.
OnlyOwnRowsShown ==
  \A r \in Requests : \A x \in response[r].rows : OwnerOf(x) = issued[response[r].key]

\* The request that ends in this step was made with a key of business b.
ActsFor(r, b) == /\ session[r] # NoSession /\ session'[r] = NoSession
                 /\ issued[session[r].key] = b

\* An invoice leaves its state by hand, and is charged, only by a request with
\* a key of the business it belongs to, and no row changes hands.
OnlyOwnRowsChanged ==
  [][/\ \A i \in Invoices :
          (invoice[i] # "absent" /\ invoice'[i] \notin {invoice[i], "paid"}) =>
             \E r \in Requests : ActsFor(r, owner[i])
     /\ \A a \in Attempts : (attempts[a] = NoAttempt /\ attempts'[a] # NoAttempt) =>
             \E r \in Requests : ActsFor(r, owner[attempts'[a].invoice])
     /\ \A x \in Owned : owner[x] # None => owner'[x] = owner[x]]_tvars

\* An event is delivered only to endpoints of the business whose invoice it is
\* about, although a settlement runs outside any request.
EventsStayHome ==
  \A d \in deliveries :
    owner[d[1]] = IF d[2].event = "invoice.created" THEN owner[d[2].subject]
                  ELSE owner[attempts[d[2].subject].invoice]

\* A business bills only its own customers.
BilledToOwnCustomer ==
  \A i \in Invoices : customer[i] # None => owner[customer[i]] = owner[i]
=============================================================================
