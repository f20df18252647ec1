------------------------- MODULE InvoiceTotalProofs -------------------------
EXTENDS InvoiceTotal, WellFoundedInduction, SequenceTheorems, TLAPS

-----------------------------------------------------------------------------
(* Induction over the lines of a request.                                  *)

\* A set of naturals that is not empty has a least member.
LEMMA LeastMember ==
  ASSUME NEW T, T \subseteq Nat, T # {}
  PROVE  \E m \in T : \A n \in T : m <= n
<1> DEFINE Less == {ss \in Nat \X Nat : ss[1] < ss[2]}
<1>1. IsWellFoundedOn(Less, Nat)
  BY NatLessThanWellFounded DEF OpToRel
<1> HIDE DEF Less
<1>2. PICK m \in T : \A n \in T : <<n, m>> \notin Less
  BY <1>1, WFMin
<1>3. ASSUME NEW n \in T, n < m PROVE FALSE
  <2>1. <<n, m>> \in Nat \X Nat /\ <<n, m>>[1] < <<n, m>>[2]
    BY <1>3
  <2>2. <<n, m>> \in Less
    BY <2>1 DEF Less
  <2> QED
    BY <1>2, <2>2
<1> QED
  BY <1>2, <1>3

\* What holds before the first line, and after a line if it held before it,
\* holds after every line.
LEMMA LineByLine ==
  ASSUME NEW m \in Nat, NEW T, 0 \in T, \A n \in 0 .. m - 1 : n \in T => n + 1 \in T
  PROVE  \A n \in 0 .. m : n \in T
<1> DEFINE Missing == (0 .. m) \ T
<1> SUFFICES ASSUME Missing # {} PROVE FALSE
  OBVIOUS
<1>0. Missing \subseteq Nat
  OBVIOUS
<1> HIDE DEF Missing
<1>1. PICK k \in Missing : \A l \in Missing : k <= l
  BY <1>0, LeastMember
<1> USE DEF Missing
<1>2. k # 0 /\ k - 1 \in 0 .. m - 1
  OBVIOUS
<1>3. k - 1 \in T
  BY <1>1, <1>2
<1> QED
  BY <1>1, <1>2, <1>3

\* f holds the numbers that m steps compute from 0.
Solves(f, step, m) == /\ f \in [0 .. m -> Int]
                      /\ f[0] = 0
                      /\ \A n \in 1 .. m : f[n] = step[n][f[n - 1]]

\* Numbers that are computed one from the other exist.
LEMMA Iteration ==
  ASSUME NEW m \in Nat, NEW step, \A n \in 1 .. m, x \in Int : step[n][x] \in Int
  PROVE  \E f : Solves(f, step, m)
<1> DEFINE T == {l \in 0 .. m : \E f : Solves(f, step, l)}
<1>1. 0 \in T
  <2>1. Solves([n \in 0 .. 0 |-> 0], step, 0)
    BY DEF Solves
  <2>2. \E f : Solves(f, step, 0)
    BY <2>1
  <2> QED
    BY <2>2
<1>2. ASSUME NEW l \in 0 .. m - 1, l \in T PROVE l + 1 \in T
  <2>1. PICK f : Solves(f, step, l)
    BY <1>2
  <2> USE DEF Solves
  <2> DEFINE last == step[l + 1][f[l]]
             g == [n \in 0 .. l + 1 |-> IF n = l + 1 THEN last ELSE f[n]]
  <2>2. last \in Int
    BY <2>1
  <2> HIDE DEF last
  <2>3. g \in [0 .. l + 1 -> Int]
    BY <2>1, <2>2
  <2>4. g[0] = 0
    BY <2>1
  <2>5. \A n \in 0 .. l : g[n] = f[n]
    OBVIOUS
  <2>6. g[l + 1] = step[l + 1][g[l]]
    BY <2>5 DEF last
  <2> HIDE DEF g
  <2>7. \A n \in 1 .. l : g[n] = step[n][g[n - 1]]
    BY <2>1, <2>5
  <2>8. ASSUME NEW n \in 1 .. l + 1 PROVE g[n] = step[n][g[n - 1]]
    <3>1. CASE n = l + 1
      <4>1. n - 1 = l
        BY <3>1
      <4> QED
        BY <2>6, <3>1, <4>1
    <3>2. CASE n # l + 1
      BY <2>7, <3>2
    <3> QED
      BY <3>1, <3>2
  <2>9. Solves(g, step, l + 1)
    BY <2>3, <2>4, <2>8
  <2> HIDE DEF Solves
  <2>10. \E h : Solves(h, step, l + 1)
    BY <2>9
  <2> QED
    BY <2>10
<1> HIDE DEF T
<1>3. \A l \in 0 .. m - 1 : l \in T => l + 1 \in T
  BY <1>2
<1>4. \A l \in 0 .. m : l \in T
  BY <1>1, <1>3, LineByLine
<1> QED
  BY <1>4 DEF T

\* What the two recursive functions of the specification compute.
LEMMA RunningSumsDef ==
  ASSUME NEW ns \in Seq(Int)
  PROVE  /\ RunningSums(ns)[0] = 0
         /\ \A n \in 1 .. Len(ns) : RunningSums(ns)[n] = Wrap(RunningSums(ns)[n - 1] + ns[n])
<1> DEFINE m == Len(ns)
           step == [n \in 1 .. m |-> [x \in Int |-> Wrap(x + ns[n])]]
<1>1. m \in Nat
  OBVIOUS
<1>2. \A n \in 1 .. m : ns[n] \in Int
  OBVIOUS
<1> HIDE DEF m
<1>3. \A x \in Int, n \in 1 .. m : Wrap(x + ns[n]) \in Int
  BY <1>1, <1>2, TotalAssumption DEF Wrap
<1>5. \A x \in Int, n \in 1 .. m : step[n][x] = Wrap(x + ns[n])
  OBVIOUS
<1> HIDE DEF step
<1>4. \E f : Solves(f, step, m)
  BY <1>1, <1>3, <1>5, Iteration
<1>6. PICK f \in [0 .. m -> Int] : f[0] = 0 /\ \A n \in 1 .. m : f[n] = step[n][f[n - 1]]
  BY <1>4 DEF Solves
<1>7. ASSUME NEW n \in 1 .. m PROVE f[n - 1] \in Int
  <2>1. n - 1 \in 0 .. m
    BY <1>1
  <2> QED
    BY <2>1
<1>8. \A n \in 0 .. m : f[n] = IF n = 0 THEN 0 ELSE Wrap(f[n - 1] + ns[n])
  <2>1. \A n \in 1 .. m : f[n] = Wrap(f[n - 1] + ns[n])
    BY <1>5, <1>6, <1>7
  <2> QED
    BY <1>1, <1>6, <2>1
<1>9. f = [n \in 0 .. m |-> IF n = 0 THEN 0 ELSE Wrap(f[n - 1] + ns[n])]
  BY <1>6, <1>8
<1> DEFINE sums == RunningSums(ns)
<1>10. sums = [n \in 0 .. m |-> IF n = 0 THEN 0 ELSE Wrap(sums[n - 1] + ns[n])]
  BY <1>9 DEF RunningSums, m
<1> HIDE DEF sums
<1>11. sums[0] = 0 /\ \A n \in 1 .. m : sums[n] = Wrap(sums[n - 1] + ns[n])
  BY <1>1, <1>10
<1> QED
  BY <1>11 DEF sums, m

LEMMA ExactSumsDef ==
  ASSUME NEW ns \in Seq(Int)
  PROVE  /\ ExactSums(ns)[0] = 0
         /\ \A n \in 1 .. Len(ns) : ExactSums(ns)[n] = ExactSums(ns)[n - 1] + ns[n]
<1> DEFINE m == Len(ns)
           step == [n \in 1 .. m |-> [x \in Int |-> x + ns[n]]]
<1>1. m \in Nat
  OBVIOUS
<1>2. \A n \in 1 .. m : ns[n] \in Int
  OBVIOUS
<1> HIDE DEF m
<1>3. \A x \in Int, n \in 1 .. m : x + ns[n] \in Int
  BY <1>1, <1>2
<1>5. \A x \in Int, n \in 1 .. m : step[n][x] = x + ns[n]
  OBVIOUS
<1> HIDE DEF step
<1>4. \E f : Solves(f, step, m)
  BY <1>1, <1>3, <1>5, Iteration
<1>6. PICK f \in [0 .. m -> Int] : f[0] = 0 /\ \A n \in 1 .. m : f[n] = step[n][f[n - 1]]
  BY <1>4 DEF Solves
<1>7. ASSUME NEW n \in 1 .. m PROVE f[n - 1] \in Int
  <2>1. n - 1 \in 0 .. m
    BY <1>1
  <2> QED
    BY <2>1
<1>8. \A n \in 0 .. m : f[n] = IF n = 0 THEN 0 ELSE f[n - 1] + ns[n]
  <2>1. \A n \in 1 .. m : f[n] = f[n - 1] + ns[n]
    BY <1>5, <1>6, <1>7
  <2> QED
    BY <1>1, <1>6, <2>1
<1>9. f = [n \in 0 .. m |-> IF n = 0 THEN 0 ELSE f[n - 1] + ns[n]]
  BY <1>6, <1>8
<1> DEFINE sums == ExactSums(ns)
<1>10. sums = [n \in 0 .. m |-> IF n = 0 THEN 0 ELSE sums[n - 1] + ns[n]]
  BY <1>9 DEF ExactSums, m
<1> HIDE DEF sums
<1>11. sums[0] = 0 /\ \A n \in 1 .. m : sums[n] = sums[n - 1] + ns[n]
  BY <1>1, <1>10
<1> QED
  BY <1>11 DEF sums, m

-----------------------------------------------------------------------------
(* Wrapping.                                                               *)

\* A wrapped number is an integer that differs by a multiple of the range.
LEMMA WrapIsCongruent ==
  ASSUME NEW n \in Int
  PROVE  /\ Wrap(n) \in Ints
         /\ \E k \in Int : n = Wrap(n) + k * (2 * Half)
<1> DEFINE M == 2 * Half
           s == n + Half
<1>1. M \in Nat \ {0}
  BY TotalAssumption
<1>2. s \in Int
  BY TotalAssumption
<1>6. Wrap(n) = (s % M) - Half
  BY DEF Wrap
<1> HIDE DEF M, s
<1>3. s % M \in 0 .. M - 1
  BY <1>1, <1>2
<1>4. s = (s \div M) * M + (s % M)
  BY <1>1, <1>2
<1>5. s \div M \in Int
  BY <1>1, <1>2
<1>7. Wrap(n) \in Ints
  BY <1>3, <1>6, TotalAssumption DEF M, Ints
<1>8. n = Wrap(n) + (s \div M) * M
  <2>1. (s \div M) * M \in Int
    BY <1>1, <1>5
  <2> QED
    BY <1>3, <1>4, <1>6, <2>1, TotalAssumption DEF s
<1> QED
  BY <1>5, <1>7, <1>8 DEF M

\* No two integers differ by a multiple of the range.
LEMMA WrapIsUnique ==
  ASSUME NEW a \in Ints, NEW k \in Int, NEW n \in Int, n = a + k * (2 * Half)
  PROVE  Wrap(n) = a
<1>1. PICK j \in Int : n = Wrap(n) + j * (2 * Half)
  BY WrapIsCongruent
<1>2. Wrap(n) \in Ints
  BY WrapIsCongruent
<1> DEFINE M == 2 * Half
           w == Wrap(n)
<1>3. M \in Nat \ {0} /\ w \in Int /\ a \in Int
  BY <1>2, TotalAssumption DEF Ints
<1>4. w - a < M /\ a - w < M
  BY <1>2, TotalAssumption DEF Ints
<1>5. w - a = (k - j) * M
  <2>1. a + k * M = w + j * M
    BY <1>1
  <2> HIDE DEF M, w
  <2> QED
    BY <1>3, <2>1
<1> HIDE DEF M, w
<1>6. CASE k = j
  BY <1>3, <1>5, <1>6 DEF w
<1>7. CASE k > j
  <2>1. (k - j) * M >= M
    BY <1>3, <1>7
  <2> QED
    BY <1>3, <1>4, <1>5, <2>1
<1>8. CASE k < j
  <2>1. (j - k) * M >= M
    BY <1>3, <1>8
  <2>2. a - w = (j - k) * M
    BY <1>3, <1>5
  <2> QED
    BY <1>3, <1>4, <2>1, <2>2
<1> QED
  BY <1>6, <1>7, <1>8

\* In range, nothing wraps.
LEMMA WrapInRange ==
  ASSUME NEW a \in Ints
  PROVE  Wrap(a) = a
<1>1. a \in Int /\ a = a + 0 * (2 * Half)
  BY TotalAssumption DEF Ints
<1> QED
  BY <1>1, WrapIsUnique

\* Wrapping early or late makes no difference to a sum.
LEMMA WrapAbsorbs ==
  ASSUME NEW m \in Int, NEW n \in Int
  PROVE  Wrap(Wrap(m) + Wrap(n)) = Wrap(m + n)
<1>1. PICK j \in Int : m = Wrap(m) + j * (2 * Half)
  BY WrapIsCongruent
<1>2. PICK k \in Int : n = Wrap(n) + k * (2 * Half)
  BY WrapIsCongruent
<1>3. PICK l \in Int : Wrap(m) + Wrap(n) = Wrap(Wrap(m) + Wrap(n)) + l * (2 * Half)
  BY WrapIsCongruent DEF Ints
<1>4. Wrap(Wrap(m) + Wrap(n)) \in Ints /\ Wrap(m) \in Int /\ Wrap(n) \in Int
  BY WrapIsCongruent, TotalAssumption DEF Ints
<1>5. m + n = Wrap(Wrap(m) + Wrap(n)) + (l + j + k) * (2 * Half)
  BY <1>1, <1>2, <1>3, <1>4, TotalAssumption DEF Ints
<1> QED
  BY <1>4, <1>5, WrapIsUnique

-----------------------------------------------------------------------------
(* Totals.                                                                 *)

\* The wrapped sum of wrapped numbers is the wrapped exact sum, whichever of
\* the products and partial sums overflow.
LEMMA SumsWrap ==
  ASSUME NEW ps \in Seq(Int), NEW ns \in Seq(Int), Len(ns) = Len(ps),
         \A j \in 1 .. Len(ps) : ns[j] = Wrap(ps[j])
  PROVE  \A n \in 0 .. Len(ps) : /\ ExactSums(ps)[n] \in Int
                                 /\ RunningSums(ns)[n] = Wrap(ExactSums(ps)[n])
<1> DEFINE T == {n \in 0 .. Len(ps) : /\ ExactSums(ps)[n] \in Int
                                      /\ RunningSums(ns)[n] = Wrap(ExactSums(ps)[n])}
<1>0. Len(ps) \in Nat
  OBVIOUS
<1>1. 0 \in T
  <2>1. Wrap(0) = 0
    BY WrapInRange, TotalAssumption DEF Ints
  <2> QED
    BY <1>0, <2>1, RunningSumsDef, ExactSumsDef
<1>2. ASSUME NEW n \in 0 .. Len(ps) - 1, n \in T PROVE n + 1 \in T
  <2>1. n + 1 \in 1 .. Len(ps) /\ (n + 1) - 1 = n
    BY <1>0
  <2>2. ps[n + 1] \in Int /\ ns[n + 1] = Wrap(ps[n + 1])
    BY <2>1
  <2>3. ExactSums(ps)[n + 1] = ExactSums(ps)[n] + ps[n + 1]
    BY <2>1, ExactSumsDef
  <2>4. RunningSums(ns)[n + 1] = Wrap(RunningSums(ns)[n] + ns[n + 1])
    BY <2>1, RunningSumsDef
  <2>5. ExactSums(ps)[n] \in Int /\ RunningSums(ns)[n] = Wrap(ExactSums(ps)[n])
    BY <1>2
  <2>6. RunningSums(ns)[n + 1] = Wrap(ExactSums(ps)[n + 1])
    BY <2>2, <2>3, <2>4, <2>5, WrapAbsorbs
  <2> QED
    BY <2>1, <2>2, <2>3, <2>5, <2>6
<1> HIDE DEF T
<1>3. \A n \in 0 .. Len(ps) - 1 : n \in T => n + 1 \in T
  BY <1>2
<1>4. \A n \in 0 .. Len(ps) : n \in T
  BY <1>0, <1>1, <1>3, LineByLine
<1> QED
  BY <1>4 DEF T

\* Nothing is subtracted from a total.
LEMMA SumsOfNaturals ==
  ASSUME NEW ps \in Seq(Nat)
  PROVE  \A n \in 0 .. Len(ps) : ExactSums(ps)[n] \in Nat
<1> DEFINE T == {n \in 0 .. Len(ps) : ExactSums(ps)[n] \in Nat}
<1>0. Len(ps) \in Nat /\ ps \in Seq(Int)
  OBVIOUS
<1>1. 0 \in T
  BY <1>0, ExactSumsDef
<1>2. ASSUME NEW n \in 0 .. Len(ps) - 1, n \in T PROVE n + 1 \in T
  <2>1. n + 1 \in 1 .. Len(ps) /\ (n + 1) - 1 = n
    BY <1>0
  <2>2. ExactSums(ps)[n + 1] = ExactSums(ps)[n] + ps[n + 1]
    BY <1>0, <2>1, ExactSumsDef
  <2> QED
    BY <1>2, <2>1, <2>2
<1> HIDE DEF T
<1>3. \A n \in 0 .. Len(ps) - 1 : n \in T => n + 1 \in T
  BY <1>2
<1>4. \A n \in 0 .. Len(ps) : n \in T
  BY <1>0, <1>1, <1>3, LineByLine
<1> QED
  BY <1>4 DEF T

\* The amount of a line is an integer, and its true value not below zero if the
\* line passed validation.
LEMMA LineTypes ==
  ASSUME NEW item \in LineItems
  PROVE  /\ Product(item) \in Int
         /\ Amount(item) \in Ints
         /\ item.quantity > 0 /\ item.unit_amount_cents >= 0 => Product(item) \in Nat
<1> DEFINE q == item.quantity
           u == item.unit_amount_cents
<1>1. q \in Int /\ u \in Int
  BY TotalAssumption DEF LineItems, Ints
<1>2. Product(item) = q * u
  BY DEF Product
<1> HIDE DEF q, u
<1>3. Product(item) \in Int
  BY <1>1, <1>2
<1>4. q > 0 /\ u >= 0 => Product(item) \in Nat
  BY <1>1, <1>2
<1> QED
  BY <1>3, <1>4, WrapIsCongruent DEF Amount, q, u

\* The total of no lines.
LEMMA EmptyTotal == ExactTotal(<<>>) = 0 /\ RunningSums(<<>>)[0] = 0
<1>1. <<>> \in Seq(Int) /\ Len(<<>>) = 0
  OBVIOUS
<1>2. Products(<<>>) = <<>>
  BY DEF Products
<1> QED
  BY <1>1, <1>2, RunningSumsDef, ExactSumsDef DEF ExactTotal

\* The total the service computes is the true total, wrapped.
LEMMA TotalIsWrapped ==
  ASSUME NEW items \in Seq(LineItems)
  PROVE  /\ Amounts(items) \in Seq(Ints) /\ Len(Amounts(items)) = Len(items)
         /\ ExactTotal(items) \in Int
         /\ Total(items) = Wrap(ExactTotal(items))
<1>1. Len(items) \in Nat
  OBVIOUS
<1>2. ASSUME NEW j \in 1 .. Len(items)
      PROVE  Product(items[j]) \in Int /\ Amount(items[j]) \in Ints
  BY LineTypes
<1>3. Products(items) \in Seq(Int) /\ Len(Products(items)) = Len(items)
  BY <1>1, <1>2 DEF Products
<1>4. Amounts(items) \in Seq(Ints) /\ Len(Amounts(items)) = Len(items)
  BY <1>1, <1>2 DEF Amounts
<1>5. Amounts(items) \in Seq(Int)
  BY <1>4, TotalAssumption DEF Ints
<1>6. \A j \in 1 .. Len(items) : Amounts(items)[j] = Wrap(Products(items)[j])
  BY DEF Amounts, Products, Amount
<1> QED
  BY <1>1, <1>3, <1>4, <1>5, <1>6, SumsWrap DEF Total, ExactTotal

\* The true total of a request that passed validation is not negative.
LEMMA ValidTotal ==
  ASSUME NEW items \in Seq(LineItems), Valid(items)
  PROVE  ExactTotal(items) \in Nat
<1>1. Len(items) \in Nat
  OBVIOUS
<1>2. ASSUME NEW j \in 1 .. Len(items) PROVE Product(items[j]) \in Nat
  BY LineTypes DEF Valid
<1>3. Products(items) \in Seq(Nat) /\ Len(Products(items)) = Len(items)
  BY <1>1, <1>2 DEF Products
<1> QED
  BY <1>1, <1>3, SumsOfNaturals DEF ExactTotal

-----------------------------------------------------------------------------
(* The invariant of the transaction of create_invoice.                     *)

\* What the transaction works on passed validation and its total was computed
\* from it.  Past the INSERT of the invoice the total passed its CHECK, and the
\* rows so far are those of the first lines.
Working ==
  pc # "idle" =>
    /\ request \in Seq(LineItems) /\ Valid(request)
    /\ total = Total(request)
    /\ pc = "lines" =>
         /\ total >= 0
         /\ Len(amounts) <= Len(request)
         /\ \A j \in 1 .. Len(amounts) : amounts[j] = Amount(request[j])

\* So was the committed invoice; a payment of it charged its total.
Committed ==
  created # NoInvoice =>
    /\ created.request \in Seq(LineItems) /\ Valid(created.request)
    /\ created.total = Total(created.request) /\ created.total >= 0
    /\ created.amounts = Amounts(created.request)

Paid == charged = NoCharge \/ (created # NoInvoice /\ charged = created.total)

TInv == /\ pc \in {"idle", "invoice", "lines"}
        /\ amounts \in Seq(Ints)
        /\ pc # "lines" => amounts = <<>>
        /\ Working /\ Committed /\ Paid

LEMMA TInvInit == Init => TInv
  BY DEF Init, TInv, Working, Committed, Paid

\* Every step of create_invoice and of a payment keeps the invariant.
LEMMA TInvInductive == TInv /\ [Next]_vars => TInv'
<1> SUFFICES ASSUME TInv, [Next]_vars PROVE TInv'
  OBVIOUS
<1>1. CASE CreateInvoice
  <2>1. PICK n \in 0 .. MaxLines : \E items \in [1 .. n -> LineItems] :
          Valid(items) /\ request' = items /\ total' = Total(items)
    BY <1>1 DEF CreateInvoice
  <2>2. request' \in Seq(LineItems) /\ Valid(request') /\ total' = Total(request')
    BY <2>1, TotalAssumption
  <2>3. Working'
    BY <1>1, <2>2 DEF CreateInvoice, Working
  <2> QED
    BY <1>1, <2>3 DEF CreateInvoice, TInv, Committed, Paid
<1>2. CASE InsertInvoice
  BY <1>2 DEF InsertInvoice, CheckCents, TInv, Working, Committed, Paid
<1>3. CASE InsertLine
  <2> DEFINE k == Len(amounts) + 1
  <2>1. /\ pc = "lines" /\ Len(amounts) < Len(request)
        /\ amounts' = Append(amounts, Amount(request[k]))
        /\ UNCHANGED <<pc, request, total, created, charged>>
    BY <1>3 DEF InsertLine
  <2>2. request \in Seq(LineItems) /\ k \in 1 .. Len(request)
    BY <2>1 DEF TInv, Working
  <2>3. Amount(request[k]) \in Ints
    BY <2>2, LineTypes
  <2>4. amounts' \in Seq(Ints) /\ Len(amounts') = k
    BY <2>1, <2>3 DEF TInv
  <2>5. \A j \in 1 .. k : amounts'[j] = Amount(request[j])
    BY <2>1 DEF TInv, Working
  <2>6. Working'
    BY <2>1, <2>2, <2>4, <2>5 DEF TInv, Working
  <2> QED
    BY <2>1, <2>4, <2>6 DEF TInv, Committed, Paid
<1>4. CASE Commit
  <2>1. /\ pc = "lines" /\ Len(amounts) = Len(request)
        /\ created' = [request |-> request, total |-> total, amounts |-> amounts]
        /\ charged' = NoCharge
        /\ pc' = "idle" /\ amounts' = <<>>
    BY <1>4 DEF Commit, EndTransaction
  <2>2. amounts = Amounts(request)
    <3>1. amounts = [j \in 1 .. Len(amounts) |-> amounts[j]]
      BY DEF TInv
    <3> QED
      BY <2>1, <3>1 DEF TInv, Working, Amounts
  <2>3. Committed'
    BY <2>1, <2>2 DEF TInv, Working, Committed
  <2> QED
    BY <2>1, <2>3 DEF TInv, Working, Paid
<1>5. CASE Rollback
  BY <1>5 DEF Rollback, EndTransaction, TInv, Working, Committed, Paid
<1>6. CASE Charge
  BY <1>6 DEF Charge, TInv, Working, Committed, Paid
<1>7. CASE UNCHANGED vars
  BY <1>7 DEF vars, TInv, Working, Committed, Paid
<1> QED
  BY <1>1, <1>2, <1>3, <1>4, <1>5, <1>6, <1>7 DEF Next

\* The recorded lines of an invoice add up to its total as create_invoice and
\* PostgreSQL add: one row for each line, whatever lines and failures came.
THEOREM TotalRowsAgree == Spec => []RowsAgree
<1>1. TInv => RowsAgree
  <2> SUFFICES ASSUME TInv PROVE RowsAgree
    OBVIOUS
  <2>1. CASE created = NoInvoice
    BY <2>1, EmptyTotal DEF NoInvoice, RowsAgree
  <2>2. CASE created # NoInvoice
    BY <2>2, TotalIsWrapped DEF TInv, Committed, Total, RowsAgree
  <2> QED
    BY <2>1, <2>2
<1> QED
  BY <1>1, TInvInit, TInvInductive, PTL DEF Spec

\* For any number and any size of lines, the stored total is the true total
\* reduced to the range of an integer, and it is never negative: overflows go
\* unnoticed by whole multiples of the range only.
THEOREM TotalIsSumModuloRange ==
  Spec => [](/\ created.total = Wrap(ExactTotal(created.request))
             /\ created.total \in 0 .. Half - 1)
<1>1. TInv => /\ created.total = Wrap(ExactTotal(created.request))
              /\ created.total \in 0 .. Half - 1
  <2> SUFFICES ASSUME TInv
               PROVE  /\ created.total = Wrap(ExactTotal(created.request))
                      /\ created.total \in 0 .. Half - 1
    OBVIOUS
  <2>1. CASE created = NoInvoice
    <3>1. Wrap(0) = 0
      BY WrapInRange, TotalAssumption DEF Ints
    <3> QED
      BY <2>1, <3>1, EmptyTotal, TotalAssumption DEF NoInvoice
  <2>2. CASE created # NoInvoice
    <3>1. /\ created.total = Wrap(ExactTotal(created.request))
          /\ ExactTotal(created.request) \in Int /\ created.total >= 0
      BY <2>2, TotalIsWrapped DEF TInv, Committed
    <3> QED
      BY <3>1, WrapIsCongruent, TotalAssumption DEF Ints
  <2> QED
    BY <2>1, <2>2
<1> QED
  BY <1>1, TInvInit, TInvInductive, PTL DEF Spec

\* A total below twice the range of an integer is refused or exact, and so is
\* the charge: a first overflow always shows as a negative number.
THEOREM TotalExactBelowTwiceRange == Spec => []ExactBelowTwiceRange
<1>1. TInv => ExactBelowTwiceRange
  <2> SUFFICES ASSUME TInv, ExactTotal(created.request) < 2 * Half
               PROVE  /\ created.total = ExactTotal(created.request)
                      /\ charged \in {NoCharge, ExactTotal(created.request)}
    BY DEF ExactBelowTwiceRange
  <2> DEFINE exact == ExactTotal(created.request)
  <2>1. created.total = exact
    <3>1. CASE created = NoInvoice
      BY <3>1, EmptyTotal DEF NoInvoice
    <3>2. CASE created # NoInvoice
      <4>1. created.total = Wrap(exact) /\ exact \in Nat /\ created.total >= 0
        BY <3>2, TotalIsWrapped, ValidTotal DEF TInv, Committed
      <4>2. CASE exact < Half
        <5>1. exact \in Ints
          BY <4>1, <4>2, TotalAssumption DEF Ints
        <5> QED
          BY <4>1, <5>1, WrapInRange
      <4>3. CASE exact >= Half
        <5>1. exact - 2 * Half \in Ints /\ exact - 2 * Half < 0
          BY <4>1, <4>3, TotalAssumption DEF Ints
        <5>2. exact = (exact - 2 * Half) + 1 * (2 * Half)
          BY <4>1, TotalAssumption
        <5>3. Wrap(exact) = exact - 2 * Half
          <6> HIDE DEF exact
          <6> QED
            BY <4>1, <5>1, <5>2, WrapIsUnique
        <5> QED
          BY <4>1, <5>1, <5>3, TotalAssumption
      <4> QED
        BY <4>1, <4>2, <4>3, TotalAssumption
    <3> QED
      BY <3>1, <3>2
  <2> QED
    BY <2>1 DEF TInv, Paid
<1> QED
  BY <1>1, TInvInit, TInvInductive, PTL DEF Spec
=============================================================================
