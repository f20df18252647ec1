------------------------ MODULE ConnectionPoolProofs ------------------------
(***************************************************************************)
(* The pool keeps its limit and nobody holds a connection while waiting    *)
(* for one, for any number of clients and connections.                     *)
(***************************************************************************)
EXTENDS ConnectionPool, FiniteSetTheorems, SequenceTheorems, TLAPS

USE PoolAssumption

-----------------------------------------------------------------------------
(* The inductive invariant.                                                *)

\* Where a client is in its use of the pool says what it has: nothing before it
\* asks, one connection until it releases it, and the row only just before that.
Progress ==
  \A c \in Clients :
    /\ Op(c) = "acquire" => Held(c) = {}
    /\ Op(c) # "acquire" => \E x \in Held(c) : Held(c) = {x}
    /\ c \in row => Op(c) = "release"

\* Whoever waits is about to acquire, and waits once.
Orderly ==
  /\ \A j \in 1 .. Len(queue) : Op(queue[j]) = "acquire"
  /\ \A j, k \in 1 .. Len(queue) : queue[j] = queue[k] => j = k

IInv == /\ TypeOK
        /\ IsFiniteSet(conns)
        /\ Progress
        /\ Orderly

-----------------------------------------------------------------------------
(* The uses of the pool.                                                   *)

\* A use asks for one connection, may take the row and ends with the release.
LEMMA Unnested ==
  ASSUME NEW u \in Uses
  PROVE  LET s == Ops(u)
         IN /\ Len(s) \in {2, 3} /\ s[1] = "acquire" /\ s[Len(s)] = "release"
            /\ Len(s) = 3 => s[2] = "lock"
<1>1. CASE u \in {"claim", "transition", "settle"}
  BY <1>1 DEF Ops
<1>2. CASE u \notin {"claim", "transition", "settle"}
  BY <1>2 DEF Ops
<1> QED
  BY <1>1, <1>2

\* What follows a use is a use.
LEMMA UsesFollow ==
  ASSUME TypeOK, NEW c \in Clients
  PROVE  Start(c) \subseteq Uses /\ Then(c) \subseteq Uses /\ AfterTimeout(c) \subseteq Uses
<1>1. Start(c) \subseteq Uses
  BY DEF Start, Uses
<1>2. Follow(use[c]) \subseteq Uses
  BY DEF Follow, Uses
<1> QED
  BY <1>1, <1>2 DEF Then, AfterTimeout, Uses

-----------------------------------------------------------------------------
(* The invariant is inductive.                                             *)

\* Initially nobody has or wants anything.
LEMMA InvInit == Init => IInv
<1> SUFFICES ASSUME Init PROVE IInv
  OBVIOUS
<1>1. IsFiniteSet(conns) /\ Cardinality(conns) = 0
  BY FS_EmptySet DEF Init
<1>2. \A c \in Clients : pc[c] = 1 /\ Len(Ops(use[c])) \in {2, 3} /\ Op(c) = "acquire"
  BY Unnested DEF Init, Op
<1>3. TypeOK
  BY <1>1, <1>2 DEF Init, TypeOK, InUse
<1>4. Progress
  BY <1>2 DEF Init, Progress, Held
<1>5. Orderly
  BY DEF Init, Orderly
<1> QED
  BY <1>1, <1>3, <1>4, <1>5 DEF IInv

\* The parts of TypeOK that a client's place in its use concerns.
Placed == /\ use \in [Clients -> Uses]
          /\ pc \in [Clients -> Nat] /\ \A c \in Clients : pc[c] \in 1 .. Len(Ops(use[c]))

\* A client that turns to another use is about to acquire, the others stay.
LEMMA Turned ==
  ASSUME TypeOK, NEW c \in Clients, NEW S \in SUBSET Uses, Goto(c, S)
  PROVE  /\ Placed'
         /\ Op(c)' = "acquire"
         /\ \A d \in Clients \ {c} : Op(d)' = Op(d)
<1>1. PICK u \in S : use' = [use EXCEPT ![c] = u]
  BY DEF Goto
<1>2. /\ use' \in [Clients -> Uses] /\ use'[c] = u
      /\ \A d \in Clients \ {c} : use'[d] = use[d]
  BY <1>1 DEF TypeOK
<1>3. /\ pc' \in [Clients -> Nat] /\ pc'[c] = 1
      /\ \A d \in Clients \ {c} : pc'[d] = pc[d]
  BY DEF TypeOK, Goto
<1>4. Len(Ops(u)) \in {2, 3} /\ Ops(u)[1] = "acquire"
  BY Unnested
<1>5. \A d \in Clients : pc'[d] \in 1 .. Len(Ops(use'[d]))
  <2>1. pc'[c] \in 1 .. Len(Ops(use'[c]))
    BY <1>2, <1>3, <1>4
  <2>2. ASSUME NEW d \in Clients \ {c} PROVE pc'[d] \in 1 .. Len(Ops(use'[d]))
    BY <1>2, <1>3, <2>2 DEF TypeOK
  <2> QED
    BY <2>1, <2>2
<1>6. Op(c)' = "acquire" /\ \A d \in Clients \ {c} : Op(d)' = Op(d)
  BY <1>2, <1>3, <1>4 DEF Op
<1> QED
  BY <1>2, <1>3, <1>5, <1>6 DEF Placed

\* A client that goes on does the next thing of its use or turns to another one.
LEMMA Advanced ==
  ASSUME TypeOK, NEW c \in Clients, Advance(c)
  PROVE  /\ Placed'
         /\ Op(c) \in {"acquire", "lock", "release"}
         /\ Op(c) = "acquire" => Op(c)' \in {"lock", "release"}
         /\ Op(c) = "lock" => Op(c)' = "release"
         /\ Op(c) = "release" => Op(c)' = "acquire"
         /\ \A d \in Clients \ {c} : Op(d)' = Op(d)
<1> DEFINE s == Ops(use[c])
<1>1. /\ Len(s) \in {2, 3} /\ s[1] = "acquire" /\ s[Len(s)] = "release"
      /\ Len(s) = 3 => s[2] = "lock"
      /\ pc[c] \in 1 .. Len(s)
  BY Unnested DEF TypeOK
<1>2. Op(c) = s[pc[c]]
  BY DEF Op
<1>3. CASE pc[c] < Len(s) /\ pc' = [pc EXCEPT ![c] = @ + 1] /\ UNCHANGED use
  <2>1. /\ pc' \in [Clients -> Nat] /\ pc'[c] = pc[c] + 1
        /\ \A d \in Clients \ {c} : pc'[d] = pc[d]
    BY <1>1, <1>3 DEF TypeOK
  <2>2. Op(c)' = s[pc[c] + 1] /\ \A d \in Clients \ {c} : Op(d)' = Op(d)
    BY <1>3, <2>1 DEF Op
  <2>3. \A d \in Clients : pc'[d] \in 1 .. Len(Ops(use'[d]))
    BY <1>1, <1>3, <2>1 DEF TypeOK
  <2>4. Placed'
    BY <1>3, <2>1, <2>3 DEF Placed, TypeOK
  <2> HIDE DEF s
  <2>5. \/ pc[c] = 1 /\ Len(s) = 2 /\ Op(c) = "acquire" /\ Op(c)' = "release"
        \/ pc[c] = 1 /\ Len(s) = 3 /\ Op(c) = "acquire" /\ Op(c)' = "lock"
        \/ pc[c] = 2 /\ Len(s) = 3 /\ Op(c) = "lock" /\ Op(c)' = "release"
    BY <1>1, <1>2, <1>3, <2>2
  <2> QED
    BY <2>2, <2>4, <2>5
<1>4. CASE pc[c] = Len(s) /\ Goto(c, Then(c))
  <2>1. Op(c) = "release"
    BY <1>1, <1>2, <1>4
  <2> QED
    BY <1>4, <2>1, UsesFollow, Turned
<1> QED
  BY <1>3, <1>4 DEF Advance

\* Asking for a connection.
LEMMA AcquireKeeps == ASSUME IInv, NEW c \in Clients, Acquire(c) PROVE IInv'
<1>1. /\ queue \in Seq(Clients) /\ queue' = Append(queue, c) /\ Op(c) = "acquire"
      /\ \A j \in 1 .. Len(queue) : queue[j] # c
  BY DEF IInv, TypeOK, Acquire, Waiting
<1>2. /\ queue' \in Seq(Clients) /\ Len(queue') = Len(queue) + 1
      /\ queue'[Len(queue) + 1] = c
      /\ \A j \in 1 .. Len(queue) : queue'[j] = queue[j]
  BY <1>1
<1>3. TypeOK' /\ IsFiniteSet(conns)'
  BY <1>2 DEF IInv, TypeOK, Acquire, InUse
<1>4. Progress'
  BY DEF IInv, Acquire, Progress, Op, Held
<1>5. \A d : Op(d)' = Op(d)
  BY DEF Acquire, Op
<1>6. Orderly'
  BY <1>1, <1>2, <1>5 DEF IInv, Orderly
<1> QED
  BY <1>3, <1>4, <1>6 DEF IInv

\* A queue followed by another: its length and its members.
LEMMA Joined ==
  ASSUME NEW s \in Seq(Clients), NEW t \in Seq(Clients)
  PROVE  /\ s \o t \in Seq(Clients)
         /\ Len(s \o t) = Len(s) + Len(t)
         /\ \A k \in 1 .. Len(s) + Len(t) :
              (s \o t)[k] = IF k <= Len(s) THEN s[k] ELSE t[k - Len(s)]
  BY ConcatProperties

\* The queue without its j-th member.
LEMMA Withdrawn ==
  ASSUME NEW q \in Seq(Clients), NEW j \in 1 .. Len(q)
  PROVE  LET r == RemoveAt(q, j)
         IN /\ r \in Seq(Clients) /\ Len(r) = Len(q) - 1
            /\ \A k \in 1 .. Len(q) - 1 : r[k] = IF k < j THEN q[k] ELSE q[k + 1]
<1> DEFINE s == SubSeq(q, 1, j - 1)
           t == SubSeq(q, j + 1, Len(q))
<1>1. Len(q) \in Nat /\ j \in Nat
  OBVIOUS
<1>2. /\ s \in Seq(Clients) /\ Len(s) = j - 1
      /\ \A k \in 1 .. j - 1 : s[k] = q[k]
  BY <1>1, SubSeqProperties
<1>3. /\ t \in Seq(Clients) /\ Len(t) = Len(q) - j
      /\ \A k \in 1 .. Len(q) - j : t[k] = q[j + k]
  BY <1>1, SubSeqProperties
<1>4. RemoveAt(q, j) = s \o t
  BY DEF RemoveAt
<1> HIDE DEF s, t
<1>5. /\ s \o t \in Seq(Clients) /\ Len(s \o t) = Len(s) + Len(t)
      /\ \A k \in 1 .. Len(s) + Len(t) : (s \o t)[k] = IF k <= Len(s) THEN s[k] ELSE t[k - Len(s)]
  BY <1>2, <1>3, Joined, Zenon
<1> DEFINE r == s \o t
<1>6. r \in Seq(Clients) /\ Len(r) = Len(q) - 1
  BY <1>1, <1>2, <1>3, <1>5
<1>7. ASSUME NEW k \in 1 .. Len(q) - 1
      PROVE  r[k] = IF k < j THEN q[k] ELSE q[k + 1]
  <2>1. r[k] = IF k <= Len(s) THEN s[k] ELSE t[k - Len(s)]
    BY <1>1, <1>2, <1>3, <1>5
  <2> HIDE DEF r
  <2>2. CASE k < j
    BY <1>1, <1>2, <2>1, <2>2
  <2>3. CASE ~(k < j)
    <3>1. k - Len(s) \in 1 .. Len(q) - j /\ j + (k - Len(s)) = k + 1
      BY <1>1, <1>2, <2>3
    <3> QED
      BY <1>1, <1>2, <1>3, <2>1, <2>3, <3>1
  <2> QED
    BY <2>2, <2>3
<1> QED
  BY <1>4, <1>6, <1>7

\* A waiter that gives up leaves the queue as it was for the others.
LEMMA GiveUpKeeps == ASSUME IInv, NEW c \in Clients, GiveUp(c) PROVE IInv'
<1>0. TypeOK /\ Progress /\ Orderly /\ queue \in Seq(Clients)
  BY DEF IInv, TypeOK
<1>1. PICK j \in 1 .. Len(queue) : queue[j] = c /\ queue' = RemoveAt(queue, j)
  BY <1>0 DEF GiveUp, Withdraw
<1>2. /\ queue' \in Seq(Clients) /\ Len(queue') = Len(queue) - 1
      /\ \A k \in 1 .. Len(queue) - 1 : queue'[k] = IF k < j THEN queue[k] ELSE queue[k + 1]
  BY <1>0, <1>1, Withdrawn
<1>3. /\ Placed' /\ Op(c)' = "acquire" /\ \A d \in Clients \ {c} : Op(d)' = Op(d)
      /\ conns' = conns /\ row' = row
  BY <1>0, UsesFollow, Turned DEF GiveUp
<1>4. Op(c) = "acquire"
  BY <1>0, <1>1 DEF Orderly
<1>5. TypeOK' /\ IsFiniteSet(conns)'
  BY <1>0, <1>2, <1>3 DEF IInv, TypeOK, Placed, InUse
<1>6. \A d \in Clients : Held(d)' = Held(d) /\ Op(d)' = Op(d)
  BY <1>3, <1>4 DEF Held
<1>7. Progress'
  BY <1>0, <1>3, <1>6 DEF Progress
<1>8. Orderly'
  <2> DEFINE from(k) == IF k < j THEN k ELSE k + 1
  <2>0. /\ \A k \in 1 .. Len(queue') : from(k) \in 1 .. Len(queue) /\ queue'[k] = queue[from(k)]
        /\ \A k, l \in 1 .. Len(queue') : from(k) = from(l) => k = l
    BY <1>0, <1>2
  <2> HIDE DEF from
  <2>1. \A k \in 1 .. Len(queue') : queue'[k] \in Clients /\ Op(queue'[k]) = "acquire"
    BY <1>0, <2>0 DEF Orderly
  <2>2. ASSUME NEW k \in 1 .. Len(queue') PROVE Op(queue[k])' = "acquire"
    <3>1. PICK d \in Clients : d = queue'[k]
      BY <2>1
    <3>2. Op(d)' = "acquire"
      BY <1>6, <2>1, <3>1
    <3> QED
      BY <3>1, <3>2 DEF Op
  <2>3. \A k, l \in 1 .. Len(queue') : queue'[k] = queue'[l] => k = l
    BY <1>0, <2>0 DEF Orderly
  <2> QED
    BY <2>2, <2>3 DEF Orderly
<1> QED
  BY <1>5, <1>7, <1>8 DEF IInv

\* The first in the queue gets a connection and has no other.
LEMMA GrantKeeps == ASSUME IInv, NEW c \in Clients, Grant(c) PROVE IInv'
<1> DEFINE x == [user |-> c, taken |-> pc[c]]
<1>0. TypeOK /\ IsFiniteSet(conns) /\ Progress /\ Orderly
  BY DEF IInv
<1>1. /\ queue \in Seq(Clients) /\ Len(queue) \in Nat \ {0} /\ queue[1] = c
      /\ queue' = Tail(queue)
  BY <1>0 DEF TypeOK, Grant
<1>2. Op(c) = "acquire" /\ Held(c) = {} /\ c \notin row
  BY <1>0, <1>1 DEF Orderly, Progress
<1>3. /\ x \in Connections /\ x.user = c /\ x \notin conns
      /\ conns' = conns \cup {x} /\ row' = row /\ Advance(c)
  BY <1>0, <1>2 DEF TypeOK, Connections, Grant, HandOver, Held
<1> HIDE DEF x
<1>4. /\ IsFiniteSet(conns') /\ Cardinality(conns') = Cardinality(conns) + 1
      /\ Cardinality(conns) \in Nat
  BY <1>0, <1>3, FS_AddElement, FS_CardinalityType
<1>5. /\ queue' \in Seq(Clients) /\ Len(queue') = Len(queue) - 1
      /\ \A j \in 1 .. Len(queue) - 1 : queue'[j] = queue[j + 1]
  BY <1>1
<1>6. TypeOK'
  <2>1. Cardinality(conns') <= MaxConnections
    BY <1>4 DEF Grant, BelowLimit, InUse
  <2> QED
    BY <1>0, <1>3, <1>5, <2>1, Advanced DEF TypeOK, Placed, InUse
<1>7. Progress'
  <2>1. Held(c)' = {x} /\ \A d \in Clients \ {c} : Held(d)' = Held(d)
    BY <1>2, <1>3 DEF Held
  <2>2. Op(c)' \in {"lock", "release"} /\ \A d \in Clients \ {c} : Op(d)' = Op(d)
    BY <1>0, <1>2, <1>3, Advanced
  <2> QED
    BY <1>0, <1>2, <1>3, <2>1, <2>2 DEF Progress
<1>8. Orderly'
  <2>1. \A j \in 1 .. Len(queue') : queue'[j] \in Clients \ {c} /\ Op(queue'[j]) = "acquire"
    BY <1>0, <1>1, <1>5 DEF Orderly
  <2>2. \A d \in Clients \ {c} : Op(d)' = Op(d)
    BY <1>0, <1>3, Advanced
  <2>3. \A j, k \in 1 .. Len(queue') : queue'[j] = queue'[k] => j = k
    BY <1>0, <1>1, <1>5 DEF Orderly
  <2>4. \A j \in 1 .. Len(queue') : Op(queue[j])' = "acquire"
    BY <2>1, <2>2
  <2> QED
    BY <2>3, <2>4 DEF Orderly
<1> QED
  BY <1>4, <1>6, <1>7, <1>8 DEF IInv

\* The row is taken, if at all, by a client with a connection, just before it
\* releases both.
LEMMA RowKeeps == ASSUME IInv, NEW c \in Clients, LockRow(c) \/ PassRow(c) PROVE IInv'
<1>0. TypeOK /\ Progress /\ Orderly
  BY DEF IInv
<1>1. /\ Op(c) = "lock" /\ Advance(c) /\ conns' = conns /\ queue' = queue
      /\ queue \in Seq(Clients) /\ row' \in {{c}, row}
  BY <1>0 DEF LockRow, PassRow, TypeOK
<1>2. Op(c)' = "release" /\ \A d \in Clients \ {c} : Op(d)' = Op(d)
  BY <1>0, <1>1, Advanced
<1>3. TypeOK' /\ IsFiniteSet(conns)'
  BY <1>0, <1>1, Advanced DEF IInv, TypeOK, Placed, InUse
<1>4. \A d \in Clients : Held(d)' = Held(d)
  BY <1>1 DEF Held
<1>5. Progress'
  BY <1>0, <1>1, <1>2, <1>4 DEF Progress
<1>6. \A j \in 1 .. Len(queue) : queue[j] \in Clients \ {c}
  BY <1>0, <1>1 DEF Orderly
<1>7. \A j \in 1 .. Len(queue) : Op(queue[j])' = "acquire"
  BY <1>0, <1>1, <1>2, <1>6 DEF Orderly
<1>8. Orderly'
  BY <1>0, <1>1, <1>7 DEF Orderly
<1> QED
  BY <1>3, <1>5, <1>8 DEF IInv

\* The connection goes back, and with it the row.
LEMMA ReleaseKeeps == ASSUME IInv, NEW c \in Clients, Release(c) PROVE IInv'
<1>0. TypeOK /\ IsFiniteSet(conns) /\ Progress /\ Orderly
  BY DEF IInv
<1>1. Op(c) = "release" /\ Advance(c) /\ queue' = queue /\ queue \in Seq(Clients)
  BY <1>0 DEF Release, TypeOK
<1>2. PICK x \in Held(c) : /\ conns' = conns \ {x}
                           /\ row' = IF Held(c) = {x} THEN row \ {c} ELSE row
  BY DEF Release
<1>3. Held(c) = {x} /\ row' = row \ {c} /\ x \in conns /\ x.user = c
  BY <1>0, <1>1, <1>2 DEF Progress, Held
<1>4. Op(c)' = "acquire" /\ \A d \in Clients \ {c} : Op(d)' = Op(d)
  BY <1>0, <1>1, Advanced
<1>5. /\ IsFiniteSet(conns') /\ Cardinality(conns') = Cardinality(conns) - 1
      /\ Cardinality(conns) \in Nat
  BY <1>0, <1>2, <1>3, FS_RemoveElement, FS_CardinalityType
<1>6. TypeOK'
  BY <1>0, <1>1, <1>2, <1>3, <1>5, Advanced DEF TypeOK, Placed, InUse
<1>7. Held(c)' = {} /\ \A d \in Clients \ {c} : Held(d)' = Held(d)
  BY <1>2, <1>3 DEF Held
<1>8. Progress'
  BY <1>0, <1>3, <1>4, <1>7 DEF Progress
<1>9. \A j \in 1 .. Len(queue) : queue[j] \in Clients \ {c}
  BY <1>0, <1>1 DEF Orderly
<1>10. \A j \in 1 .. Len(queue) : Op(queue[j])' = "acquire"
  BY <1>0, <1>1, <1>4, <1>9 DEF Orderly
<1>11. Orderly'
  BY <1>0, <1>1, <1>10 DEF Orderly
<1> QED
  BY <1>5, <1>6, <1>8, <1>11 DEF IInv

\* One step per action.
LEMMA InvInductive == IInv /\ [Next]_vars => IInv'
<1> SUFFICES ASSUME IInv, [Next]_vars PROVE IInv'
  OBVIOUS
<1>1. CASE UNCHANGED vars
  BY <1>1 DEF vars, IInv, TypeOK, InUse, Progress, Orderly, Op, Held
<1>2. ASSUME NEW c \in Clients,
             Acquire(c) \/ GiveUp(c) \/ Grant(c) \/ LockRow(c) \/ PassRow(c) \/ Release(c)
      PROVE  IInv'
  BY <1>2, AcquireKeeps, GiveUpKeeps, GrantKeeps, RowKeeps, ReleaseKeeps
<1> QED
  BY <1>1, <1>2 DEF Next

-----------------------------------------------------------------------------
(* The theorems.                                                           *)

\* Every variable keeps its type and no more than max_connections connections
\* are in use.
THEOREM PoolTypes == Spec => []TypeOK
<1>1. IInv => TypeOK
  BY DEF IInv
<1> QED
  BY <1>1, InvInit, InvInductive, PTL DEF Spec

\* Nobody waits for a connection while it has one or holds an invoice's row.
THEOREM PoolNoHoldAndWait == Spec => []NoHoldAndWait
<1>1. IInv => NoHoldAndWait
  <2> SUFFICES ASSUME IInv, NEW c \in Clients, Waiting(c) PROVE Held(c) = {} /\ c \notin row
    BY DEF NoHoldAndWait
  <2>1. queue \in Seq(Clients) /\ Orderly
    BY DEF IInv, TypeOK
  <2>2. PICK j \in 1 .. Len(queue) : queue[j] = c
    BY <2>1 DEF Waiting
  <2>3. Op(c) = "acquire"
    BY <2>1, <2>2 DEF Orderly
  <2> QED
    BY <2>3 DEF IInv, Progress
<1> QED
  BY <1>1, InvInit, InvInductive, PTL DEF Spec
=============================================================================
