--------------------------- MODULE TenancyProofs ---------------------------
(***************************************************************************)
(* No business sees, changes or hears of another one's rows, for any       *)
(* number of businesses, keys, requests and rows and any collisions of key *)
(* prefixes.                                                               *)
(*                                                                         *)
(* The argument: what a row says of its owner never changes once the row   *)
(* exists (Grows), and everything that refers to rows, from the session of *)
(* a request over stored answers to queued deliveries, refers to existing  *)
(* rows of one business (TenancyInv).                                      *)
(***************************************************************************)
EXTENDS Tenancy, PaymentLedgerProofs

\* x is an existing row of business b.
Mine(b, x) ==
  IF x \in Attempts THEN attempts[x] # NoAttempt /\ owner[attempts[x].invoice] = b
                    ELSE x \in Owned /\ owner[x] = b

\* A key's row names the business that its secret was handed out to.
KeyRowsTrue ==
  \A p \in Prefixes : apiKeys[p] # NoKey =>
    /\ apiKeys[p].hash \in Keys
    /\ apiKeys[p].business \in Businesses
    /\ issued[apiKeys[p].hash] = apiKeys[p].business

\* A session stands for the business of the key it was opened with.
SessionsTrue ==
  \A r \in Requests : session[r] # NoSession =>
    /\ session[r].key \in Keys
    /\ session[r].business \in Businesses
    /\ issued[session[r].key] = session[r].business

\* The answers stored for a business show its own attempts.
AnswersOwn ==
  \A b \in Businesses, k \in IdempotencyKeys : \A a \in answers[b][k].rows : Mine(b, a)

\* What was shown belongs to the key's business, and still exists.
ShownOwn ==
  \A r \in Requests : \A x \in response[r].rows :
    /\ response[r].key \in Keys
    /\ issued[response[r].key] \in Businesses
    /\ Mine(issued[response[r].key], x)

\* An invoice has an owner only once it exists.
OwnedExists == \A i \in Invoices : owner[i] # None => invoice[i] # "absent"

\* Attempts are made on invoices that have an owner.
AttemptsOwned ==
  \A a \in Attempts : attempts[a] # NoAttempt => owner[attempts[a].invoice] \in Businesses

\* A queued delivery is for an endpoint of the business its subject belongs to.
DeliveriesHome ==
  \A d \in deliveries : /\ owner[d[1]] \in Businesses
                        /\ Mine(owner[d[1]], d[2].subject)

\* The customer of an invoice, and the invoice, have the same owner.
CustomersOwn ==
  \A i \in Invoices : customer[i] # None =>
    owner[i] \in Businesses /\ owner[customer[i]] = owner[i]

TenancyInv ==
  /\ TenancyTypeOK
  /\ KeyRowsTrue
  /\ SessionsTrue
  /\ AnswersOwn
  /\ ShownOwn
  /\ OwnedExists
  /\ AttemptsOwned
  /\ DeliveriesHome
  /\ CustomersOwn

\* Rows and keys never change hands.
Grows ==
  /\ \A x \in Owned : owner[x] # None => owner'[x] = owner[x]
  /\ \A k \in Keys : issued[k] # None => issued'[k] = issued[k]
  /\ \A a \in Attempts : attempts[a] # NoAttempt =>
       attempts'[a] # NoAttempt /\ attempts'[a].invoice = attempts[a].invoice

USE TenancyAssumption

-----------------------------------------------------------------------------
(* A handler's step is one of six kinds.                                   *)

\* A new customer or endpoint.
Inserted(r) == \E x \in Customers \cup Endpoints : Insert(r, x)

\* A handler that changes no table and shows rows of the caller.
Read(r) == \E rows \in SUBSET (Owned \cup Attempts) :
             /\ \A x \in rows : Mine(session[r].business, x)
             /\ Show(r, rows)

\* A new invoice.
Invoiced(r, i, c) ==
  /\ Scoped(r, c)
  /\ Create(i)
  /\ owner' = [owner EXCEPT ![i] = session[r].business]
  /\ customer' = [customer EXCEPT ![i] = c]
  /\ EnqueueEvent(session[r].business, [event |-> "invoice.created", subject |-> i])
  /\ Respond(r, {i})
  /\ UNCHANGED answers

\* A transition by hand.
Moved(r, i) == Scoped(r, i) /\ Move(i) /\ Respond(r, {i}) /\ UNCHANGED tables

\* A payment that is claimed, and one that is refused.
Claimed(r, i, a, k) ==
  /\ Scoped(r, i) /\ Claim(a, i) /\ Store(r, k, i, {a}) /\ Respond(r, {a})
  /\ UNCHANGED <<owner, customer, deliveries>>
Refused(r, i, k) ==
  /\ Store(r, k, i, {}) /\ Respond(r, {})
  /\ UNCHANGED <<ledger, owner, customer, deliveries>>

\* The routes behind authentication, by what they do.
LEMMA HandlerKinds ==
  ASSUME TenancyInv, NEW r \in Requests, Handle(r)
  PROVE  /\ session[r] # NoSession
         /\ \/ Inserted(r) \/ Read(r)
            \/ \E i \in Invoices, c \in Customers : Invoiced(r, i, c)
            \/ \E i \in Invoices : Moved(r, i)
            \/ \E i \in Invoices, a \in Attempts, k \in IdempotencyKeys : Claimed(r, i, a, k)
            \/ \E i \in Invoices, k \in IdempotencyKeys : Refused(r, i, k)
<1>1. /\ session[r] # NoSession
      /\ session[r].business \in Businesses
  BY DEF Handle, TenancyInv, SessionsTrue
<1>2. \A x \in Owned : Scoped(r, x) => Mine(session[r].business, x)
  BY DEF Scoped, Mine, Owned
<1>3. ASSUME NEW rows \in SUBSET Owned, Show(r, Own(r, rows)) PROVE Read(r)
  BY <1>2, <1>3 DEF Own, Read
<1>4. ASSUME NEW c \in Customers, CreateCustomer(r, c) \/ GetCustomer(r, c)
      PROVE  Inserted(r) \/ Read(r)
  BY <1>3, <1>4 DEF CreateCustomer, GetCustomer, Inserted, Owned
<1>5. CASE ListCustomers(r)
  BY <1>1, <1>3, <1>5 DEF ListCustomers, Owned
<1>6. ASSUME NEW e \in Endpoints, RegisterWebhook(r, e) PROVE Inserted(r)
  BY <1>6 DEF RegisterWebhook, Inserted
<1>7. ASSUME NEW states, ListInvoices(r, states) PROVE Read(r)
  <2>1. {i \in Own(r, Invoices) : invoice[i] \in states} \in SUBSET (Owned \cup Attempts)
    BY DEF Own, Owned
  <2> QED
    BY <1>2, <1>7, <2>1 DEF ListInvoices, Read, Own, Owned
<1>8. ASSUME NEW i \in Invoices, GetInvoice(r, i) PROVE Read(r)
  BY <1>3, <1>8 DEF GetInvoice, Owned
<1>9. ASSUME NEW i \in Invoices, Transition(r, i) PROVE Moved(r, i) \/ Read(r)
  BY <1>9 DEF Transition, Moved, Read
<1>10. ASSUME NEW i \in Invoices, NEW c \in Customers, CreateInvoice(r, i, c)
       PROVE  Invoiced(r, i, c) \/ Read(r)
  BY <1>10 DEF CreateInvoice, CustomerExists, Invoiced, Read
<1>11. ASSUME NEW i \in Invoices, NEW a \in Attempts, GetPaymentAttempt(r, i, a)
       PROVE  Read(r)
  <2>1. CASE attempts[a].invoice = i /\ Scoped(r, i)
    <3>1. Mine(session[r].business, a)
      BY <2>1, NoneAssumption DEF Mine, Scoped, NoAttempt
    <3> QED
      BY <1>11, <2>1, <3>1 DEF GetPaymentAttempt, Read
  <2>2. CASE ~(attempts[a].invoice = i /\ Scoped(r, i))
    BY <1>11, <2>2 DEF GetPaymentAttempt, Read
  <2> QED
    BY <2>1, <2>2
<1>12. ASSUME NEW i \in Invoices, NEW k \in IdempotencyKeys, PayAgain(r, i, k)
       PROVE  Read(r)
  <2>1. /\ AnswerOf(r, k).rows \in SUBSET Attempts
        /\ \A a \in AnswerOf(r, k).rows : Mine(session[r].business, a)
    BY <1>1 DEF AnswerOf, TenancyInv, TenancyTypeOK, AnswersOwn
  <2> QED
    BY <1>12, <2>1 DEF PayAgain, Read
<1>13. ASSUME NEW i \in Invoices, NEW a \in Attempts, NEW k \in IdempotencyKeys, Pay(r, i, a, k)
       PROVE  Claimed(r, i, a, k) \/ Refused(r, i, k)
  BY <1>13 DEF Pay, Claimed, Refused
<1> QED
  BY <1>1, <1>4, <1>5, <1>6, <1>7, <1>8, <1>9, <1>10, <1>11, <1>12, <1>13 DEF Handle

-----------------------------------------------------------------------------
(* The ledger below.                                                       *)

\* Every step of Tenancy is a step of the ledger or leaves it alone.
LEMMA LedgerStep ==
  ASSUME TenancyInv, [TNext]_tvars
  PROVE  [Next]_ledger
<1>1. ASSUME NEW b \in Businesses, NEW k \in Keys, CreateBusiness(b, k) PROVE UNCHANGED ledger
  BY <1>1 DEF CreateBusiness
<1>2. ASSUME NEW p \in Prefixes, RevokeKey(p) PROVE UNCHANGED ledger
  BY <1>2 DEF RevokeKey
<1>3. ASSUME NEW r \in Requests, NEW k \in Keys, Authenticate(r, k) PROVE UNCHANGED ledger
  BY <1>3 DEF Authenticate
<1>4. ASSUME NEW r \in Requests, Handle(r) PROVE [Next]_ledger
  BY <1>4, HandlerKinds DEF Inserted, Insert, Read, Show, Invoiced, Moved, Claimed, Refused, Next
<1>5. ASSUME NEW a \in Attempts, NEW o \in PspOutcomes, SettlePayment(a, o) PROVE Next
  BY <1>5 DEF SettlePayment, Next
<1>6. CASE UNCHANGED tvars
  BY <1>6 DEF tvars
<1> QED
  BY <1>1, <1>2, <1>3, <1>4, <1>5, <1>6 DEF TNext

\* Rows and keys never change hands.
LEMMA GrowsStep ==
  ASSUME TenancyInv, [TNext]_tvars
  PROVE  Grows
<1>0. TypeOK /\ TenancyTypeOK
  BY DEF TenancyInv, TenancyTypeOK
<1>1. \A a \in Attempts : attempts[a] # NoAttempt =>
        attempts'[a] # NoAttempt /\ attempts'[a].invoice = attempts[a].invoice
  <2>1. CASE UNCHANGED attempts
    BY <2>1
  <2>2. ASSUME NEW a \in Attempts, NEW i \in Invoices, Claim(a, i)
        PROVE  \A b \in Attempts \ {a} : attempts'[b] = attempts[b]
    BY <1>0, <2>2, ClaimedRow
  <2>3. ASSUME NEW a \in Attempts, NEW i \in Invoices, Claim(a, i)
        PROVE  attempts[a] = NoAttempt
    BY <2>3 DEF Claim
  <2>4. ASSUME NEW a \in Attempts, NEW o \in PspOutcomes, Settle(a, o)
        PROVE  /\ attempts'[a] \in Rows
               /\ attempts'[a].invoice = attempts[a].invoice
               /\ \A b \in Attempts \ {a} : attempts'[b] = attempts[b]
    BY <1>0, <2>4, SettledRow
  <2>5. NoAttempt \notin Rows
    BY NoneAssumption DEF NoAttempt, Rows
  <2>6. \/ UNCHANGED attempts
        \/ \E a \in Attempts, i \in Invoices : Claim(a, i)
        \/ \E a \in Attempts, o \in PspOutcomes : Settle(a, o)
    BY LedgerStep DEF Next, ledger, Create, Move
  <2> QED
    BY <2>1, <2>2, <2>3, <2>4, <2>5, <2>6
<1>2. \A x \in Owned : owner[x] # None => owner'[x] = owner[x]
  <2>1. CASE UNCHANGED owner
    BY <2>1
  <2>2. ASSUME NEW r \in Requests, Inserted(r)
        PROVE  \A x \in Owned : owner[x] # None => owner'[x] = owner[x]
    BY <1>0, <2>2 DEF Inserted, Insert, TenancyTypeOK
  <2>3. ASSUME NEW r \in Requests, NEW i \in Invoices, NEW c \in Customers, Invoiced(r, i, c)
        PROVE  \A x \in Owned : owner[x] # None => owner'[x] = owner[x]
    <3>1. invoice[i] = "absent"
      BY <2>3 DEF Invoiced, Create
    <3>2. owner[i] = None
      BY <3>1 DEF TenancyInv, OwnedExists
    <3> QED
      BY <1>0, <2>3, <3>2 DEF Invoiced, TenancyTypeOK
  <2>4. ASSUME NEW r \in Requests, Handle(r)
        PROVE  \/ UNCHANGED owner \/ Inserted(r)
               \/ \E i \in Invoices, c \in Customers : Invoiced(r, i, c)
    BY <2>4, HandlerKinds DEF Read, Show, Moved, Claimed, Refused, tables
  <2> QED
    BY <2>1, <2>2, <2>3, <2>4
       DEF TNext, tvars, tables, CreateBusiness, RevokeKey, Authenticate, SettlePayment
<1>3. \A k \in Keys : issued[k] # None => issued'[k] = issued[k]
  <2>1. CASE UNCHANGED issued
    BY <2>1
  <2>2. ASSUME NEW b \in Businesses, NEW k \in Keys, CreateBusiness(b, k)
        PROVE  \A j \in Keys : issued[j] # None => issued'[j] = issued[j]
    BY <1>0, <2>2 DEF CreateBusiness, TenancyTypeOK
  <2>3. ASSUME NEW r \in Requests, Handle(r) PROVE UNCHANGED issued
    BY <2>3, HandlerKinds DEF Inserted, Insert, Read, Show, Invoiced, Moved, Claimed,
       Refused, Respond, accounts
  <2> QED
    BY <2>1, <2>2, <2>3 DEF TNext, tvars, accounts, RevokeKey, Authenticate, SettlePayment
<1> QED
  BY <1>1, <1>2, <1>3 DEF Grows

\* An existing row stays with its business.
LEMMA MineStable ==
  ASSUME TenancyTypeOK, AttemptsOwned, Grows, NEW b \in Businesses, NEW x, Mine(b, x)
  PROVE  Mine(b, x)'
<1>1. CASE x \in Attempts
  <2>1. attempts[x].invoice \in Owned
    BY <1>1, RowInvoice DEF TenancyTypeOK, Mine, Owned
  <2> QED
    BY <1>1, <2>1 DEF Mine, Grows
<1>2. CASE x \notin Attempts
  BY <1>2 DEF Mine, Grows
<1> QED
  BY <1>1, <1>2

-----------------------------------------------------------------------------
(* The invariant.                                                          *)

\* A table that a step does not write stays right: what it refers to keeps its
\* owner.
LEMMA Kept ==
  ASSUME TenancyInv, [TNext]_tvars
  PROVE  /\ UNCHANGED apiKeys => KeyRowsTrue'
         /\ UNCHANGED session => SessionsTrue'
         /\ UNCHANGED answers => AnswersOwn'
         /\ UNCHANGED response => ShownOwn'
         /\ UNCHANGED owner => OwnedExists'
         /\ UNCHANGED attempts => AttemptsOwned'
         /\ UNCHANGED deliveries => DeliveriesHome'
         /\ UNCHANGED customer => CustomersOwn'
<1>0. TenancyTypeOK /\ AttemptsOwned /\ Grows
  BY GrowsStep DEF TenancyInv
<1>1. ASSUME UNCHANGED apiKeys PROVE KeyRowsTrue'
  BY <1>0, <1>1 DEF TenancyInv, KeyRowsTrue, Grows
<1>2. ASSUME UNCHANGED session PROVE SessionsTrue'
  BY <1>0, <1>2 DEF TenancyInv, SessionsTrue, Grows
<1>3. ASSUME UNCHANGED answers PROVE AnswersOwn'
  BY <1>0, <1>3, MineStable DEF TenancyInv, AnswersOwn
<1>4. ASSUME UNCHANGED response PROVE ShownOwn'
  <2> SUFFICES ASSUME NEW r \in Requests, NEW x \in response[r].rows
               PROVE  /\ response[r].key \in Keys
                      /\ issued'[response[r].key] \in Businesses
                      /\ Mine(issued[response[r].key], x)'
    BY <1>4 DEF ShownOwn
  <2>1. /\ response[r].key \in Keys
        /\ issued[response[r].key] \in Businesses
        /\ Mine(issued[response[r].key], x)
    BY DEF TenancyInv, ShownOwn
  <2>2. issued'[response[r].key] = issued[response[r].key]
    BY <1>0, <2>1 DEF Grows
  <2>3. \A b \in Businesses : Mine(b, x) => Mine(b, x)'
    BY <1>0, MineStable
  <2> QED
    BY <1>4, <2>1, <2>2, <2>3 DEF Mine
<1>5. ASSUME UNCHANGED owner PROVE OwnedExists'
  <2>1. \A i \in Invoices : invoice[i] # "absent" => invoice'[i] # "absent"
    BY <1>0, LedgerStep DEF TenancyTypeOK, TypeOK, Next, ledger, Create, Move, Claim, Settle
  <2> QED
    BY <1>5, <2>1 DEF TenancyInv, OwnedExists
<1>6. ASSUME UNCHANGED attempts PROVE AttemptsOwned'
  BY <1>0, <1>6, RowInvoice DEF TenancyTypeOK, AttemptsOwned, Grows, Owned
<1>7. ASSUME UNCHANGED deliveries PROVE DeliveriesHome'
  <2> SUFFICES ASSUME NEW d \in deliveries
               PROVE  owner'[d[1]] \in Businesses /\ Mine(owner[d[1]], d[2].subject)'
    BY <1>7 DEF DeliveriesHome
  <2>1. d[1] \in Owned /\ owner[d[1]] \in Businesses /\ Mine(owner[d[1]], d[2].subject)
    BY <1>0 DEF TenancyInv, DeliveriesHome, TenancyTypeOK, Owned
  <2>2. owner'[d[1]] = owner[d[1]]
    BY <1>0, <2>1 DEF Grows
  <2>3. \A b \in Businesses : Mine(b, d[2].subject) => Mine(b, d[2].subject)'
    BY <1>0, MineStable
  <2> QED
    BY <2>1, <2>2, <2>3 DEF Mine
<1>8. ASSUME UNCHANGED customer PROVE CustomersOwn'
  BY <1>0, <1>8 DEF TenancyInv, TenancyTypeOK, CustomersOwn, Grows, Owned
<1> QED
  BY <1>1, <1>2, <1>3, <1>4, <1>5, <1>6, <1>7, <1>8

\* The types of what Respond writes.
RequestTypes ==
  /\ apiKeys \in [Prefixes -> [business : Businesses \cup {None}, hash : Keys \cup {None},
                               revoked : BOOLEAN]]
  /\ issued \in [Keys -> Businesses \cup {None}]
  /\ session \in [Requests -> [key : Keys \cup {None}, business : Businesses \cup {None}]]
  /\ response \in [Requests -> [key : Keys \cup {None}, rows : SUBSET (Owned \cup Attempts)]]

\* An answer that shows rows of the caller's business is right.
LEMMA RespondKeeps ==
  ASSUME TenancyInv, [TNext]_tvars, NEW r \in Requests, session[r] # NoSession,
         NEW b \in Businesses, session[r].business = b,
         NEW rows \in SUBSET (Owned \cup Attempts), \A x \in rows : Mine(b, x)',
         Respond(r, rows)
  PROVE  RequestTypes' /\ KeyRowsTrue' /\ SessionsTrue' /\ ShownOwn'
<1>0. TenancyTypeOK /\ AttemptsOwned /\ Grows /\ RequestTypes
  BY GrowsStep DEF TenancyInv, TenancyTypeOK, RequestTypes
<1>1. /\ session[r].key \in Keys /\ issued[session[r].key] = b
      /\ UNCHANGED apiKeys /\ UNCHANGED issued
  BY DEF Respond, accounts, TenancyInv, SessionsTrue
<1>2. /\ session' \in [Requests -> [key : Keys \cup {None}, business : Businesses \cup {None}]]
      /\ session'[r] = NoSession
      /\ \A q \in Requests : session'[q] \in {session[q], NoSession}
  BY <1>0 DEF Respond, RequestTypes, NoSession
<1>3. /\ response' \in [Requests -> [key : Keys \cup {None}, rows : SUBSET (Owned \cup Attempts)]]
      /\ response'[r] = [key |-> session[r].key, rows |-> rows]
      /\ \A q \in Requests \ {r} : response'[q] = response[q]
  BY <1>0, <1>1 DEF Respond, RequestTypes
<1>4. RequestTypes' /\ KeyRowsTrue'
  BY <1>0, <1>1, <1>2, <1>3, Kept DEF RequestTypes
<1>5. SessionsTrue'
  BY <1>1, <1>2 DEF TenancyInv, SessionsTrue
<1>6. ShownOwn'
  <2> SUFFICES ASSUME NEW q \in Requests, NEW x \in response'[q].rows
               PROVE  /\ response'[q].key \in Keys
                      /\ issued'[response'[q].key] \in Businesses
                      /\ Mine(issued[response[q].key], x)'
    BY DEF ShownOwn
  <2>1. CASE q = r
    BY <1>1, <1>3, <2>1 DEF Mine
  <2>2. CASE q # r
    <3>1. /\ response[q].key \in Keys /\ response'[q] = response[q]
          /\ issued[response[q].key] \in Businesses
          /\ Mine(issued[response[q].key], x)
      BY <1>3, <2>2 DEF TenancyInv, ShownOwn
    <3>2. \A c \in Businesses : Mine(c, x) => Mine(c, x)'
      BY <1>0, MineStable
    <3> QED
      BY <1>1, <3>1, <3>2 DEF Mine
  <2> QED
    BY <2>1, <2>2
<1> QED
  BY <1>4, <1>5, <1>6

\* An event enqueued for the business of its subject stays home.
LEMMA EnqueueKeeps ==
  ASSUME TenancyInv, [TNext]_tvars, NEW b \in Businesses, NEW v \in Events,
         Mine(b, v.subject)', EnqueueEvent(b, v)
  PROVE  deliveries' \subseteq Endpoints \X Events /\ DeliveriesHome'
<1>0. TenancyTypeOK /\ AttemptsOwned /\ Grows
  BY GrowsStep DEF TenancyInv
<1>1. \A d \in deliveries' : d \in deliveries \/ \E e \in EndpointsOf(b) : d = <<e, v>>
  BY DEF EnqueueEvent
<1>2. deliveries' \subseteq Endpoints \X Events
  BY <1>0, <1>1 DEF TenancyTypeOK, EndpointsOf
<1>3. ASSUME NEW d \in deliveries'
      PROVE  owner'[d[1]] \in Businesses /\ Mine(owner[d[1]], d[2].subject)'
  <2>1. CASE d \in deliveries
    <3>1. d[1] \in Owned /\ owner[d[1]] \in Businesses /\ Mine(owner[d[1]], d[2].subject)
      BY <1>0, <2>1 DEF TenancyInv, DeliveriesHome, TenancyTypeOK, Owned
    <3>2. owner'[d[1]] = owner[d[1]]
      BY <1>0, <3>1 DEF Grows
    <3>3. \A c \in Businesses : Mine(c, d[2].subject) => Mine(c, d[2].subject)'
      BY <1>0, MineStable
    <3> QED
      BY <3>1, <3>2, <3>3 DEF Mine
  <2>2. ASSUME NEW e \in EndpointsOf(b), d = <<e, v>>
        PROVE  owner'[d[1]] \in Businesses /\ Mine(owner[d[1]], d[2].subject)'
    <3>1. e \in Owned /\ owner[e] = b
      BY DEF EndpointsOf, Owned
    <3>2. owner'[e] = b
      BY <1>0, <3>1 DEF Grows
    <3> QED
      BY <2>2, <3>2 DEF Mine
  <2> QED
    BY <1>1, <2>1, <2>2
<1>4. DeliveriesHome'
  BY <1>3 DEF DeliveriesHome
<1> QED
  BY <1>2, <1>4

\* Initially there is no row and no answer.
LEMMA TenancyInitial == TInit => TenancyInv
<1> SUFFICES ASSUME TInit PROVE TenancyInv
  OBVIOUS
<1>1. TypeOK /\ \A a \in Attempts : attempts[a] = NoAttempt
  BY InvInit DEF TInit, IInv, Init
<1>2. TenancyTypeOK
  BY <1>1 DEF TInit, TenancyTypeOK, NoKey, NoAnswer, NoSession, NoResponse
<1>3. KeyRowsTrue /\ SessionsTrue /\ OwnedExists /\ AttemptsOwned /\ DeliveriesHome /\ CustomersOwn
  BY <1>1 DEF TInit, KeyRowsTrue, SessionsTrue, OwnedExists, AttemptsOwned, DeliveriesHome,
              CustomersOwn, Owned
<1>4. AnswersOwn /\ ShownOwn
  BY DEF TInit, AnswersOwn, ShownOwn, NoAnswer, NoResponse
<1> QED
  BY <1>2, <1>3, <1>4 DEF TenancyInv

\* The types of the tables.
TableTypes ==
  /\ owner \in [Owned -> Businesses \cup {None}]
  /\ customer \in [Invoices -> Customers \cup {None}]
  /\ deliveries \subseteq Endpoints \X Events
  /\ answers \in [Businesses -> [IdempotencyKeys ->
                    [invoice : Invoices \cup {None}, rows : SUBSET Attempts]]]

\* The parts of the invariant that are about tables, and about requests.
TableInv == /\ TableTypes /\ AnswersOwn /\ OwnedExists
            /\ AttemptsOwned /\ DeliveriesHome /\ CustomersOwn
RequestInv == RequestTypes /\ KeyRowsTrue /\ SessionsTrue /\ ShownOwn

\* Handlers keep the invariant.
LEMMA HandlersKeep ==
  ASSUME TenancyInv, [TNext]_tvars, NEW r \in Requests, Handle(r)
  PROVE  TableInv' /\ RequestInv'
<1>0. TenancyTypeOK /\ TypeOK /\ TableTypes /\ AttemptsOwned /\ Grows
  BY GrowsStep DEF TenancyInv, TenancyTypeOK, TableTypes
<1>1. PICK b \in Businesses : b # None /\ session[r].business = b /\ session[r] # NoSession
  BY HandlerKinds DEF TenancyInv, SessionsTrue
<1>2. ASSUME NEW rows \in SUBSET (Owned \cup Attempts), \A x \in rows : Mine(b, x)',
             Respond(r, rows)
      PROVE  RequestInv'
  BY <1>1, <1>2, RespondKeeps DEF RequestInv
<1>3. \A x \in Owned : Scoped(r, x) => owner[x] = b /\ owner'[x] = b /\ Mine(b, x)'
  BY <1>0, <1>1 DEF Scoped, Grows, Mine
<1>4. CASE Inserted(r)
  <2> PICK x \in Customers \cup Endpoints : Insert(r, x)
    BY <1>4 DEF Inserted
  <2>1. /\ owner[x] = None /\ owner' = [owner EXCEPT ![x] = b] /\ Respond(r, {x})
        /\ UNCHANGED <<invoice, attempts, customer, deliveries, answers>>
    BY <1>1 DEF Insert, ledger
  <2>2. x \in Owned /\ x \notin Attempts
    BY DEF Owned
  <2>3. TableTypes'
    BY <1>0, <1>1, <2>1, <2>2 DEF TableTypes
  <2>4. OwnedExists'
    <3>1. \A i \in Invoices : owner'[i] = owner[i]
      BY <1>0, <2>1 DEF TableTypes, Owned
    <3> QED
      BY <2>1, <3>1 DEF TenancyInv, OwnedExists
  <2>5. Mine(b, x)'
    BY <1>0, <2>1, <2>2 DEF TableTypes, Mine
  <2>6. RequestInv'
    BY <1>2, <2>1, <2>2, <2>5
  <2> QED
    BY <2>1, <2>3, <2>4, <2>6, Kept DEF TableInv
<1>5. CASE Read(r)
  <2> PICK rows \in SUBSET (Owned \cup Attempts) :
             (\A x \in rows : Mine(b, x)) /\ Show(r, rows)
    BY <1>1, <1>5 DEF Read
  <2>1. Respond(r, rows) /\ UNCHANGED <<invoice, attempts, owner, customer, deliveries, answers>>
    BY DEF Show, ledger, tables
  <2>2. \A x \in rows : Mine(b, x)'
    BY <1>0, <1>1, MineStable
  <2>3. TableTypes'
    BY <1>0, <2>1 DEF TableTypes
  <2> QED
    BY <1>2, <2>1, <2>2, <2>3, Kept DEF TableInv
<1>6. ASSUME NEW i \in Invoices, NEW c \in Customers, Invoiced(r, i, c)
      PROVE  TableInv' /\ RequestInv'
  <2> DEFINE v == [event |-> "invoice.created", subject |-> i]
  <2>1. /\ Scoped(r, c) /\ invoice' = [invoice EXCEPT ![i] = "draft"]
        /\ owner' = [owner EXCEPT ![i] = b]
        /\ customer' = [customer EXCEPT ![i] = c]
        /\ EnqueueEvent(b, v) /\ Respond(r, {i})
        /\ UNCHANGED <<attempts, answers>>
    BY <1>1, <1>6 DEF Invoiced, Create
  <2>2. i \in Owned /\ i \notin Attempts /\ c \in Owned /\ v \in Events
    BY DEF Owned, Events
  <2>3. owner' \in [Owned -> Businesses \cup {None}] /\ owner'[i] = b /\ Mine(b, i)'
    BY <1>0, <1>1, <2>1, <2>2 DEF TableTypes, Mine
  <2>4. deliveries' \subseteq Endpoints \X Events /\ DeliveriesHome'
    BY <1>1, <2>1, <2>2, <2>3, EnqueueKeeps
  <2>5. TableTypes'
    BY <1>0, <2>1, <2>3, <2>4 DEF TableTypes
  <2>6. OwnedExists'
    BY <1>0, <2>1 DEF TenancyInv, OwnedExists, TypeOK, TableTypes, Owned
  <2>7. CustomersOwn'
    <3>1. owner'[c] = b
      BY <1>3, <2>1, <2>2
    <3>2. \A j \in Invoices \ {i} : customer'[j] = customer[j]
      BY <1>0, <2>1 DEF TableTypes
    <3>3. \A j \in Invoices \ {i} : customer[j] # None =>
            owner'[j] \in Businesses /\ owner'[customer[j]] = owner'[j]
      BY <1>0 DEF TenancyInv, TableTypes, CustomersOwn, Grows, Owned
    <3>4. customer'[i] = c
      BY <1>0, <2>1 DEF TableTypes
    <3> QED
      BY <1>1, <2>3, <3>1, <3>2, <3>3, <3>4 DEF CustomersOwn
  <2>8. RequestInv'
    BY <1>2, <2>1, <2>2, <2>3
  <2> QED
    BY <2>1, <2>4, <2>5, <2>6, <2>7, <2>8, Kept DEF TableInv
<1>7. ASSUME NEW i \in Invoices, Moved(r, i) PROVE TableInv' /\ RequestInv'
  <2>1. /\ Scoped(r, i) /\ Respond(r, {i})
        /\ UNCHANGED <<attempts, owner, customer, deliveries, answers>>
    BY <1>7 DEF Moved, Move, tables
  <2>2. TableTypes'
    BY <1>0, <2>1 DEF TableTypes
  <2>3. RequestInv'
    BY <1>2, <1>3, <2>1 DEF Owned
  <2> QED
    BY <2>1, <2>2, <2>3, Kept DEF TableInv
<1>8. ASSUME NEW i \in Invoices, NEW a \in Attempts, NEW k \in IdempotencyKeys,
             Claimed(r, i, a, k)
      PROVE  TableInv' /\ RequestInv'
  <2>1. /\ Scoped(r, i) /\ Claim(a, i) /\ Respond(r, {a})
        /\ answers' = [answers EXCEPT ![b][k] = [invoice |-> i, rows |-> {a}]]
        /\ UNCHANGED <<owner, customer, deliveries>>
    BY <1>1, <1>8 DEF Claimed, Store
  <2>2. /\ attempts'[a].invoice = i /\ attempts'[a] \in Rows
        /\ \A d \in Attempts \ {a} : attempts'[d] = attempts[d]
    BY <1>0, <2>1, ClaimedRow
  <2>3. owner'[i] = b /\ Mine(b, a)'
    <3>1. attempts'[a] # NoAttempt
      BY <2>2, NoneAssumption DEF Rows, NoAttempt
    <3> QED
      BY <1>3, <2>1, <2>2, <3>1 DEF Mine, Owned
  <2>4. TableTypes'
    BY <1>0, <1>1, <2>1 DEF TableTypes
  <2>5. AnswersOwn'
    <3>1. \A d \in Businesses, j \in IdempotencyKeys :
            answers'[d][j].rows = IF d = b /\ j = k THEN {a} ELSE answers[d][j].rows
      BY <1>0, <1>1, <2>1 DEF TableTypes
    <3>2. \A d \in Businesses, j \in IdempotencyKeys : \A x \in answers[d][j].rows : Mine(d, x)'
      BY <1>0, MineStable DEF TenancyInv, AnswersOwn
    <3> QED
      BY <2>3, <3>1, <3>2 DEF AnswersOwn
  <2>6. AttemptsOwned'
    BY <1>0, <1>1, <2>1, <2>2, <2>3 DEF AttemptsOwned
  <2>7. RequestInv'
    BY <1>2, <2>1, <2>3
  <2> QED
    BY <2>1, <2>4, <2>5, <2>6, <2>7, Kept DEF TableInv
<1>9. ASSUME NEW i \in Invoices, NEW k \in IdempotencyKeys, Refused(r, i, k)
      PROVE  TableInv' /\ RequestInv'
  <2>1. /\ Respond(r, {})
        /\ answers' = [answers EXCEPT ![b][k] = [invoice |-> i, rows |-> {}]]
        /\ UNCHANGED <<invoice, attempts, owner, customer, deliveries>>
    BY <1>1, <1>9 DEF Refused, Store, ledger
  <2>2. TableTypes'
    BY <1>0, <1>1, <2>1 DEF TableTypes
  <2>3. AnswersOwn'
    <3>1. \A d \in Businesses, j \in IdempotencyKeys :
            answers'[d][j].rows \subseteq answers[d][j].rows
      BY <1>0, <1>1, <2>1 DEF TableTypes
    <3>2. \A d \in Businesses, j \in IdempotencyKeys : \A x \in answers[d][j].rows : Mine(d, x)'
      BY <1>0, MineStable DEF TenancyInv, AnswersOwn
    <3> QED
      BY <3>1, <3>2 DEF AnswersOwn
  <2>4. RequestInv'
    BY <1>2, <2>1
  <2> QED
    BY <2>1, <2>2, <2>3, <2>4, Kept DEF TableInv
<1> QED
  BY <1>4, <1>5, <1>6, <1>7, <1>8, <1>9, HandlerKinds

\* Every step of every handler keeps the rows with their business.
LEMMA TenancyInductive == TenancyInv /\ [TNext]_tvars => TenancyInv'
<1> SUFFICES ASSUME TenancyInv, [TNext]_tvars PROVE TenancyInv'
  OBVIOUS
<1>0. TenancyTypeOK /\ TypeOK /\ TableTypes /\ RequestTypes /\ AttemptsOwned /\ Grows
  BY GrowsStep DEF TenancyInv, TenancyTypeOK, TableTypes, RequestTypes
<1>1. ASSUME NEW b \in Businesses, NEW k \in Keys, CreateBusiness(b, k)
      PROVE  TableInv' /\ RequestInv'
  <2>1. /\ PrefixOf[k] \in Prefixes
        /\ apiKeys' = [apiKeys EXCEPT ![PrefixOf[k]] =
                         [business |-> b, hash |-> k, revoked |-> FALSE]]
        /\ issued' = [issued EXCEPT ![k] = b] /\ issued[k] = None
        /\ UNCHANGED <<invoice, attempts, owner, customer, deliveries, answers, session, response>>
    BY <1>1 DEF CreateBusiness, ledger, tables, Prefixes
  <2>2. TableTypes' /\ RequestTypes'
    BY <1>0, <2>1 DEF TableTypes, RequestTypes
  <2>3. KeyRowsTrue'
    <3>1. /\ apiKeys'[PrefixOf[k]] = [business |-> b, hash |-> k, revoked |-> FALSE]
          /\ \A p \in Prefixes \ {PrefixOf[k]} : apiKeys'[p] = apiKeys[p]
      BY <1>0, <2>1 DEF RequestTypes
    <3>2. issued'[k] = b /\ \A j \in Keys \ {k} : issued'[j] = issued[j]
      BY <1>0, <2>1 DEF RequestTypes
    <3>3. \A p \in Prefixes : apiKeys[p] # NoKey => apiKeys[p].hash # k
      BY <2>1 DEF TenancyInv, KeyRowsTrue
    <3> QED
      BY <3>1, <3>2, <3>3 DEF TenancyInv, KeyRowsTrue
  <2> QED
    BY <2>1, <2>2, <2>3, Kept DEF TableInv, RequestInv
<1>2. ASSUME NEW p \in Prefixes, RevokeKey(p) PROVE TableInv' /\ RequestInv'
  <2>1. /\ apiKeys[p] # NoKey /\ apiKeys' = [apiKeys EXCEPT ![p].revoked = TRUE]
        /\ UNCHANGED <<invoice, attempts, issued, owner, customer, deliveries, answers, session,
                       response>>
    BY <1>2 DEF RevokeKey, ledger, tables
  <2>2. TableTypes'
    BY <1>0, <2>1 DEF TableTypes
  <2>4. RequestTypes'
    BY <1>0, <2>1 DEF RequestTypes
  <2>3. KeyRowsTrue'
    <3>1. /\ apiKeys'[p].business = apiKeys[p].business /\ apiKeys'[p].hash = apiKeys[p].hash
          /\ \A q \in Prefixes \ {p} : apiKeys'[q] = apiKeys[q]
      BY <1>0, <2>1 DEF RequestTypes
    <3> QED
      BY <2>1, <3>1 DEF TenancyInv, KeyRowsTrue
  <2> QED
    BY <2>1, <2>2, <2>3, <2>4, Kept DEF TableInv, RequestInv
<1>3. ASSUME NEW r \in Requests, NEW k \in Keys, Authenticate(r, k)
      PROVE  TableInv' /\ RequestInv'
  <2> DEFINE row == apiKeys[PrefixOf[k]]
  <2>1. UNCHANGED <<invoice, attempts, apiKeys, issued, owner, customer, deliveries, answers>>
    BY <1>3 DEF Authenticate, ledger, tables, accounts
  <2>2. TableTypes' /\ PrefixOf[k] \in Prefixes
    BY <1>0, <2>1 DEF TableTypes, Prefixes
  <2>3. CASE /\ Accepts(k, row)
             /\ session' = [session EXCEPT ![r] = [key |-> k, business |-> row.business]]
             /\ UNCHANGED response
    <3>1. issued[k] = row.business /\ row.business \in Businesses
      BY <2>2, <2>3 DEF Accepts, VerifySecret, TenancyInv, KeyRowsTrue
    <3>2. RequestTypes'
      BY <1>0, <2>1, <2>3, <3>1 DEF RequestTypes
    <3>3. SessionsTrue'
      <4>1. /\ session'[r] = [key |-> k, business |-> row.business]
            /\ \A q \in Requests \ {r} : session'[q] = session[q]
        BY <1>0, <2>3 DEF RequestTypes
      <4> HIDE DEF row
      <4> QED
        BY <2>1, <3>1, <4>1 DEF TenancyInv, SessionsTrue
    <3> QED
      BY <2>1, <2>2, <2>3, <3>2, <3>3, Kept DEF TableInv, RequestInv
  <2>4. CASE /\ response' = [response EXCEPT ![r] = [key |-> k, rows |-> {}]]
             /\ UNCHANGED session
    <3>1. RequestTypes'
      BY <1>0, <2>1, <2>4 DEF RequestTypes
    <3>2. ShownOwn'
      <4>1. /\ response'[r].rows = {}
            /\ \A q \in Requests \ {r} : response'[q] = response[q]
        BY <1>0, <2>4 DEF RequestTypes
      <4>2. owner' = owner /\ attempts' = attempts /\ issued' = issued
        BY <2>1
      <4> QED
        BY <4>1, <4>2 DEF TenancyInv, ShownOwn, Mine
    <3> QED
      BY <2>1, <2>2, <2>4, <3>1, <3>2, Kept DEF TableInv, RequestInv
  <2> QED
    BY <1>3, <2>3, <2>4 DEF Authenticate
<1>4. ASSUME NEW r \in Requests, Handle(r) PROVE TableInv' /\ RequestInv'
  BY <1>4, HandlersKeep
<1>5. ASSUME NEW a \in Attempts, NEW o \in PspOutcomes, SettlePayment(a, o)
      PROVE  TableInv' /\ RequestInv'
  <2>1. /\ Settle(a, o)
        /\ EnqueueEvent(owner[attempts[a].invoice], [event |-> EventOf(o), subject |-> a])
        /\ UNCHANGED <<apiKeys, issued, owner, customer, answers, session, response>>
    BY <1>5 DEF SettlePayment, accounts
  <2>2. /\ attempts[a] # NoAttempt /\ attempts[a].invoice \in Invoices
        /\ attempts'[a].invoice = attempts[a].invoice /\ attempts'[a] # NoAttempt
        /\ \A b \in Attempts \ {a} : attempts'[b] = attempts[b]
    <3>1. attempts[a].status = "pending"
      BY <2>1 DEF Settle
    <3>2. attempts[a] # NoAttempt /\ attempts[a].invoice \in Invoices
      BY <1>0, <3>1, RowInvoice DEF Statuses
    <3> QED
      BY <1>0, <2>1, <3>2, SettledRow DEF Grows
  <2>3. PICK b \in Businesses : owner[attempts[a].invoice] = b
    BY <1>0, <2>2 DEF AttemptsOwned
  <2>4. [event |-> EventOf(o), subject |-> a] \in Events
    BY OutcomeTypes DEF Events
  <2>5. Mine(b, a)'
    BY <2>1, <2>2, <2>3 DEF Mine
  <2>6. deliveries' \subseteq Endpoints \X Events /\ DeliveriesHome'
    BY <2>1, <2>3, <2>4, <2>5, EnqueueKeeps
  <2>7. TableTypes' /\ RequestTypes'
    BY <1>0, <2>1, <2>6 DEF TableTypes, RequestTypes
  <2>8. AttemptsOwned'
    BY <1>0, <2>1, <2>2 DEF AttemptsOwned
  <2> QED
    BY <2>1, <2>6, <2>7, <2>8, Kept DEF TableInv, RequestInv
<1>6. ASSUME UNCHANGED tvars PROVE TableInv' /\ RequestInv'
  <2>1. UNCHANGED <<invoice, attempts, apiKeys, issued, owner, customer, deliveries, answers,
                    session, response>>
    BY <1>6 DEF tvars, ledger, accounts, tables
  <2>2. TableTypes' /\ RequestTypes'
    BY <1>0, <2>1 DEF TableTypes, RequestTypes
  <2> QED
    BY <2>1, <2>2, Kept DEF TableInv, RequestInv
<1>7. TypeOK'
  BY <1>0, LedgerStep, TypeInductive
<1>8. TableInv' /\ RequestInv'
  BY <1>1, <1>2, <1>3, <1>4, <1>5, <1>6 DEF TNext
<1> QED
  BY <1>7, <1>8 DEF TenancyInv, TenancyTypeOK, TableInv, RequestInv, TableTypes, RequestTypes

-----------------------------------------------------------------------------
(* What is proved.                                                         *)

\* The tables and requests keep their types.
THEOREM TenancyTypes == TSpec => []TenancyTypeOK
<1>1. TenancyInv => TenancyTypeOK
  BY DEF TenancyInv
<1> QED
  BY <1>1, TenancyInitial, TenancyInductive, PTL DEF TSpec

\* Below the handlers lies the ledger: everything PaymentLedgerProofs shows of it
\* holds for the rows of many businesses at once.
THEOREM TenancyIsALedger == TSpec => Spec
<1>1. TInit => Init
  BY DEF TInit
<1>2. TenancyInv /\ [TNext]_tvars => [Next]_ledger
  BY LedgerStep
<1> QED
  BY <1>1, <1>2, TenancyInitial, TenancyInductive, PTL DEF TSpec, Spec

\* No answer of any handler shows a row of another business than the one that
\* the presented secret was issued to.
THEOREM OwnRowsShown == TSpec => []OnlyOwnRowsShown
<1>1. TenancyInv => OnlyOwnRowsShown
  BY DEF TenancyInv, ShownOwn, OnlyOwnRowsShown, OwnerOf, Mine
<1> QED
  BY <1>1, TenancyInitial, TenancyInductive, PTL DEF TSpec

\* Events reach only endpoints of the business they are about.
THEOREM EventsHome == TSpec => []EventsStayHome
<1>1. TenancyInv => EventsStayHome
  <2> SUFFICES ASSUME TenancyInv, NEW d \in deliveries
               PROVE  owner[d[1]] = IF d[2].event = "invoice.created" THEN owner[d[2].subject]
                                    ELSE owner[attempts[d[2].subject].invoice]
    BY DEF EventsStayHome
  <2>1. d[2] \in Events /\ Mine(owner[d[1]], d[2].subject)
    BY DEF TenancyInv, TenancyTypeOK, DeliveriesHome
  <2>2. CASE d[2].event = "invoice.created"
    <3>1. d[2].subject \in Invoices
      BY <2>1, <2>2 DEF Events
    <3>2. d[2].subject \notin Attempts
      BY <3>1 DEF Owned
    <3> QED
      BY <2>1, <2>2, <3>2 DEF Mine
  <2>3. CASE d[2].event # "invoice.created"
    <3>1. d[2].subject \in Attempts
      BY <2>1, <2>3 DEF Events
    <3> QED
      BY <2>1, <2>3, <3>1 DEF Mine
  <2> QED
    BY <2>2, <2>3
<1> QED
  BY <1>1, TenancyInitial, TenancyInductive, PTL DEF TSpec

\* An invoice and its customer have one owner.
THEOREM OwnCustomers == TSpec => []BilledToOwnCustomer
<1>1. TenancyInv => BilledToOwnCustomer
  BY DEF TenancyInv, CustomersOwn, BilledToOwnCustomer
<1> QED
  BY <1>1, TenancyInitial, TenancyInductive, PTL DEF TSpec

\* The steps by hand and the charges on an invoice are made with keys of its
\* owner.
THEOREM OwnRowsChanged == TSpec => OnlyOwnRowsChanged
<1> DEFINE ByOwner ==
      /\ \A i \in Invoices :
           (invoice[i] # "absent" /\ invoice'[i] \notin {invoice[i], "paid"}) =>
              \E r \in Requests : ActsFor(r, owner[i])
      /\ \A a \in Attempts : (attempts[a] = NoAttempt /\ attempts'[a] # NoAttempt) =>
              \E r \in Requests : ActsFor(r, owner[attempts'[a].invoice])
      /\ \A x \in Owned : owner[x] # None => owner'[x] = owner[x]
<1>1. ASSUME TenancyInv, TNext PROVE ByOwner
  <2>0. TypeOK /\ TenancyTypeOK /\ Grows
    BY <1>1, GrowsStep DEF TenancyInv, TenancyTypeOK
  <2>1. CASE UNCHANGED <<invoice, attempts>>
    BY <2>0, <2>1 DEF Grows
  <2>2. ASSUME NEW a \in Attempts, NEW o \in PspOutcomes, SettlePayment(a, o) PROVE ByOwner
    <3>1. Settle(a, o)
      BY <2>2 DEF SettlePayment
    <3>2. \A i \in Invoices : invoice'[i] \in {invoice[i], "paid"}
      BY <2>0, <3>1 DEF Settle, TypeOK
    <3>3. \A d \in Attempts : attempts[d] = NoAttempt => attempts'[d] = NoAttempt
      <4>1. \A d \in Attempts \ {a} : attempts'[d] = attempts[d]
        BY <2>0, <3>1, SettledRow
      <4>2. attempts[a] # NoAttempt
        BY <3>1 DEF Settle, NoAttempt
      <4> QED
        BY <4>1, <4>2
    <3> QED
      BY <2>0, <3>2, <3>3 DEF Grows
  <2>3. ASSUME NEW r \in Requests, Handle(r) PROVE ByOwner
    <3>1. /\ session[r] # NoSession /\ session[r].key \in Keys
          /\ session[r].business = issued[session[r].key]
      BY <1>1, <2>3, HandlerKinds DEF TenancyInv, SessionsTrue
    <3>2. ASSUME NEW i \in Invoices, NEW rows, Scoped(r, i), Respond(r, rows)
          PROVE  ActsFor(r, owner[i])
      BY <2>0, <3>1, <3>2 DEF ActsFor, Scoped, Respond, TenancyTypeOK
    <3>3. ASSUME NEW i \in Invoices, NEW c \in Customers, Invoiced(r, i, c) PROVE ByOwner
      BY <2>0, <3>3 DEF Invoiced, Create, TypeOK, Grows
    <3>4. ASSUME NEW i \in Invoices, Moved(r, i) PROVE ByOwner
      <4>1. /\ ActsFor(r, owner[i]) /\ UNCHANGED attempts
            /\ \A j \in Invoices \ {i} : invoice'[j] = invoice[j]
        BY <2>0, <3>2, <3>4 DEF Moved, Move, TypeOK
      <4> QED
        BY <2>0, <4>1 DEF Grows
    <3>5. ASSUME NEW i \in Invoices, NEW a \in Attempts, NEW k \in IdempotencyKeys,
                 Claimed(r, i, a, k)
          PROVE  ByOwner
      <4>1. ActsFor(r, owner[i]) /\ Claim(a, i) /\ UNCHANGED invoice
        BY <3>2, <3>5 DEF Claimed, Claim
      <4>2. attempts'[a].invoice = i /\ \A d \in Attempts \ {a} : attempts'[d] = attempts[d]
        BY <2>0, <4>1, ClaimedRow
      <4> QED
        BY <2>0, <4>1, <4>2 DEF Grows
    <3> QED
      BY <1>1, <2>1, <2>3, <3>3, <3>4, <3>5, HandlerKinds
         DEF Inserted, Insert, Read, Show, Refused, ledger
  <2> QED
    BY <1>1, <2>1, <2>2, <2>3 DEF TNext, CreateBusiness, RevokeKey, Authenticate, ledger
<1>2. TenancyInv /\ [TNext]_tvars => [ByOwner]_tvars
  BY <1>1
<1> QED
  BY <1>2, TenancyInitial, TenancyInductive, PTL DEF TSpec, OnlyOwnRowsChanged
=============================================================================
