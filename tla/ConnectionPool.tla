--------------------------- MODULE ConnectionPool ---------------------------
(***************************************************************************)
(* The pool of database connections that every part of the service shares  *)
(* (connect_with_retry in lib.rs): handlers, settlements and the webhook   *)
(* dispatcher take one connection for each transaction or statement, some  *)
(* wait for the row of an invoice while they have it, and the dispatcher   *)
(* keeps one for as long as its receivers take.  Whoever waits too long    *)
(* for a connection gets an error (the acquire timeout of sqlx).           *)
(*                                                                         *)
(* All payments and transitions here are of one invoice, where the         *)
(* contention is worst.  A claim and a settlement that block each other    *)
(* (Payments.tla) end when PostgreSQL aborts one of them, which is a       *)
(* Release like any other.                                                 *)
(***************************************************************************)
EXTENDS Naturals, SequencesExt, FiniteSets

CONSTANTS Handlers,        \* clients of the API, one request after the other
          Settlers,        \* tasks that run finalize_payment_attempt
          Dispatchers,     \* run_dispatcher
          MaxConnections   \* max_connections (20 in the code)

ASSUME PoolAssumption ==
  /\ MaxConnections \in Nat \ {0}
  /\ Handlers \cap Settlers = {} /\ Dispatchers \cap (Handlers \cup Settlers) = {}

Clients == Handlers \cup Settlers \cup Dispatchers

VARIABLES use,     \* what a client uses the pool for, or will use it for next
          pc,      \* how far it is in that use
          conns,   \* the connections handed out
          queue,   \* the clients that wait for one, in order
          row      \* the client whose transaction has locked the invoice

vars == <<use, pc, conns, queue, row>>

\* "query" is any statement or transaction that waits for no row.
Uses == {"authenticate", "query", "lookup", "reserve", "claim", "total", "store",
         "transition", "settle", "batch"}

\* Mutant: the claim reads the total before it commits, through the pool.
TotalInsideClaim(u) ==
  CASE u = "claim" -> <<"acquire", "lock", "acquire", "release", "release">>
    [] u \in {"transition", "settle"} -> <<"acquire", "lock", "release">>
    [] OTHER -> <<"acquire", "release">>

\* A statement on the pool, or a transaction of its own; three of them take the
\* row of the invoice.
Ops(u) == IF u \in {"claim", "transition", "settle"}
          THEN <<"acquire", "lock", "release">>
          ELSE <<"acquire", "release">>

\* Where a client begins.  Every request authenticates, but that for a new business.
Start(c) == CASE c \in Handlers -> {"authenticate", "query"}
              [] c \in Settlers -> {"settle"}
              [] OTHER -> {"batch"}

\* What follows a use in the same request: pay_invoice looks its key up and
\* reserves it, perhaps many times over, claims, reads the total and stores its
\* answer, which may be that the claim was refused.
Follow(u) == CASE u = "authenticate" -> {"query", "transition", "lookup"}
               [] u = "query" -> {"query"}
               [] u = "lookup" -> {"lookup", "reserve"}
               [] u = "reserve" -> {"lookup", "claim"}
               [] u = "claim" -> {"total", "store"}
               [] u = "total" -> {"store"}
               [] OTHER -> {}

\* A request may be answered, refused or dropped after any use of the pool.
Then(c) == Follow(use[c]) \cup Start(c)

\* What follows a use that got no connection.  pay_invoice stores the error under
\* the key it has reserved, the others return it; no settlement is tried again.
AfterTimeout(c) == IF use[c] \in {"claim", "total"} THEN {"store"} \cup Start(c) ELSE Start(c)

Op(c) == Ops(use[c])[pc[c]]

Goto(c, S) == /\ \E u \in S : use' = [use EXCEPT ![c] = u]
              /\ pc' = [pc EXCEPT ![c] = 1]

Advance(c) ==
  \/ /\ pc[c] < Len(Ops(use[c]))
     /\ pc' = [pc EXCEPT ![c] = @ + 1]
     /\ UNCHANGED use
  \/ /\ pc[c] = Len(Ops(use[c]))
     /\ Goto(c, Then(c))

Init == /\ use \in [Clients -> Uses] /\ \A c \in Clients : use[c] \in Start(c)
        /\ pc = [c \in Clients |-> 1]
        /\ conns = {}
        /\ queue = <<>>
        /\ row = {}

-----------------------------------------------------------------------------
Waiting(c) == \E j \in DOMAIN queue : queue[j] = c

\* pool.begin() or a statement on the pool.
Acquire(c) ==
  /\ Op(c) = "acquire" /\ ~Waiting(c)
  /\ queue' = Append(queue, c)
  /\ UNCHANGED <<use, pc, conns, row>>

Withdraw(c) == \E j \in DOMAIN queue : queue[j] = c /\ queue' = RemoveAt(queue, j)

\* A waiter gives up: sqlx's acquire timeout has passed (30 s, connect_with_retry
\* leaves the default), or the client has hung up.
GiveUp(c) ==
  /\ Withdraw(c)
  /\ Goto(c, AfterTimeout(c))
  /\ UNCHANGED <<conns, row>>

\* A connection is named after its user and the step for which it was taken.
Connections == [user : Clients, taken : Nat]
Held(c) == {x \in conns : x.user = c}

InUse == Cardinality(conns)

\* Mutant: one connection more than the limit.
BelowOrAtLimit == InUse <= MaxConnections

BelowLimit == InUse < MaxConnections

HandOver(c) == /\ conns' = conns \cup {[user |-> c, taken |-> pc[c]]}
               /\ Advance(c)
               /\ UNCHANGED row

\* Mutant: whoever comes along is served, whatever the order.
GrantAnyWaiter(c) ==
  /\ BelowLimit
  /\ Withdraw(c)
  /\ HandOver(c)

\* The pool serves waiters in the order in which they came.
Grant(c) ==
  /\ queue # <<>> /\ Head(queue) = c /\ BelowLimit
  /\ queue' = Tail(queue)
  /\ HandOver(c)

\* SELECT ... FOR UPDATE, or the UPDATE of the invoice.
LockRow(c) ==
  /\ Op(c) = "lock" /\ row = {}
  /\ row' = {c}
  /\ Advance(c)
  /\ UNCHANGED <<conns, queue>>

\* The row is not taken: the statement fails, there is no such invoice, or the
\* charge failed and the settlement leaves the invoice alone.
PassRow(c) ==
  /\ Op(c) = "lock"
  /\ Advance(c)
  /\ UNCHANGED <<conns, queue, row>>

\* COMMIT, ROLLBACK or the end of a statement: the connection goes back.
Release(c) ==
  /\ Op(c) = "release"
  /\ \E x \in Held(c) : /\ conns' = conns \ {x}
                         /\ row' = IF Held(c) = {x} THEN row \ {c} ELSE row
  /\ Advance(c)
  /\ UNCHANGED queue

Next == \E c \in Clients :
          Acquire(c) \/ GiveUp(c) \/ Grant(c) \/ LockRow(c) \/ PassRow(c) \/ Release(c)

Spec == Init /\ [][Next]_vars

\* The pool hands out what it has, a transaction ends (a POST has its timeout),
\* and PostgreSQL lets everyone who waits for a row have it in the end.
\* Nothing makes a client ask again, and nothing makes a waiter give up.
Fairness == \A c \in Clients : /\ WF_vars(Grant(c))
                               /\ SF_vars(LockRow(c))
                               /\ WF_vars(Release(c))

FairSpec == Spec /\ Fairness

-----------------------------------------------------------------------------
(* Properties.                                                             *)

\* Every variable keeps its type, and the pool its limit.
TypeOK ==
  /\ use \in [Clients -> Uses]
  /\ pc \in [Clients -> Nat] /\ \A c \in Clients : pc[c] \in 1 .. Len(Ops(use[c]))
  /\ conns \subseteq Connections /\ InUse <= MaxConnections
  /\ queue \in Seq(Clients)
  /\ row \subseteq Clients

\* Nobody waits for a connection while it has one, and so none that holds the
\* row of an invoice does: with every connection in use there is still someone
\* who can finish.  pay_invoice uses the pool six times or more, never nested.
NoHoldAndWait == \A c \in Clients : Waiting(c) => Held(c) = {} /\ c \notin row

\* Whoever asks for a connection gets one or gets an error: no load on one invoice
\* and no dispatcher leaves a request or a settlement waiting for ever.  It does
\* not take the acquire timeout, of which nothing is assumed here; but with it a
\* settlement may get the error instead, and its attempt then stays pending.
WaitEnds == \A c \in Clients : Waiting(c) ~> ~Waiting(c)
=============================================================================
