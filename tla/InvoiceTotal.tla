---------------------------- MODULE InvoiceTotal ----------------------------
(***************************************************************************)
(* The total of an invoice: how create_invoice computes it from the line   *)
(* items, what the CHECK constraints let through, and what a payment then  *)
(* charges.  Products and sums of an i64 wrap, as in the release build     *)
(* that Dockerfile.invoice ships (a build with overflow checks panics      *)
(* instead, which refuses the request).                                    *)
(***************************************************************************)
EXTENDS Integers, Sequences

CONSTANTS Half,      \* half the number of integers: they are -Half .. Half - 1
                     \* (2^63 in the code)
          MaxLines   \* bound: line items of a request

ASSUME TotalAssumption == Half \in Nat \ {0} /\ MaxLines \in Nat

VARIABLES pc,        \* the transaction of create_invoice: idle, invoice, lines
          request,   \* the line items of the request it works on
          total,     \* total_cents, once computed
          amounts,   \* amount_cents of the line rows inserted so far
          created,   \* the invoice committed last: request, total and amounts
          charged    \* the amount a payment of it sent to the PSP

vars == <<pc, request, total, amounts, created, charged>>

Ints == -Half .. Half - 1

LineItems == [quantity : Ints, unit_amount_cents : Ints]

NoInvoice == [request |-> <<>>, total |-> 0, amounts |-> <<>>]
NoCharge == -1

Init == /\ pc = "idle"
        /\ request = <<>>
        /\ total = 0
        /\ amounts = <<>>
        /\ created = NoInvoice
        /\ charged = NoCharge

-----------------------------------------------------------------------------
\* The value an integer expression has after overflow.
Wrap(n) == ((n + Half) % (2 * Half)) - Half

Product(item) == item.quantity * item.unit_amount_cents

Amount(item) == Wrap(Product(item))

\* What the iterator's sum() has added up after each number, and the true sums.
RunningSums(ns) ==
  LET sum[n \in 0 .. Len(ns)] == IF n = 0 THEN 0 ELSE Wrap(sum[n - 1] + ns[n])
  IN  sum

ExactSums(ns) ==
  LET sum[n \in 0 .. Len(ns)] == IF n = 0 THEN 0 ELSE sum[n - 1] + ns[n]
  IN  sum

Amounts(items) == [j \in 1 .. Len(items) |-> Amount(items[j])]

Total(items) == RunningSums(Amounts(items))[Len(items)]

Products(items) == [j \in 1 .. Len(items) |-> Product(items[j])]

ExactTotal(items) == ExactSums(Products(items))[Len(items)]

\* The checks of create_invoice before its transaction.
Valid(items) == /\ items # <<>>
                /\ \A j \in DOMAIN items : /\ items[j].quantity > 0
                                           /\ items[j].unit_amount_cents >= 0

-----------------------------------------------------------------------------
\* A request that is refused changes no table.  One invoice is
\* enough: nothing of an invoice is used for another one.
CreateInvoice ==
  /\ pc = "idle" /\ created = NoInvoice
  /\ \E n \in 0 .. MaxLines : \E items \in [1 .. n -> LineItems] :
       /\ Valid(items)
       /\ request' = items
       /\ total' = Total(items)
  /\ pc' = "invoice"
  /\ UNCHANGED <<amounts, created, charged>>

\* Mutant: the CHECK constraint is missing.
NoCheck(cents) == TRUE

\* CHECK (total_cents >= 0) and CHECK (amount_cents >= 0).
CheckCents(cents) == cents >= 0

InsertInvoice ==
  /\ pc = "invoice"
  /\ CheckCents(total)
  /\ pc' = "lines"
  /\ UNCHANGED <<request, total, amounts, created, charged>>

\* Mutant: a row that fails its CHECK is skipped, the others are kept.
SkipBadLine ==
  LET item == request[Len(amounts) + 1] IN
  /\ pc = "lines" /\ Len(amounts) < Len(request)
  /\ amounts' = Append(amounts, IF CheckCents(Amount(item)) THEN Amount(item) ELSE 0)
  /\ UNCHANGED <<pc, request, total, created, charged>>

InsertLine ==
  LET item == request[Len(amounts) + 1] IN
  /\ pc = "lines" /\ Len(amounts) < Len(request)
  /\ CheckCents(Amount(item))
  /\ amounts' = Append(amounts, Amount(item))
  /\ UNCHANGED <<pc, request, total, created, charged>>

EndTransaction == pc' = "idle" /\ request' = <<>> /\ total' = 0 /\ amounts' = <<>>

Commit ==
  /\ pc = "lines" /\ Len(amounts) = Len(request)
  /\ created' = [request |-> request, total |-> total, amounts |-> amounts]
  /\ charged' = NoCharge
  /\ EndTransaction

\* A CHECK or any other statement fails, or the connection does.
Rollback ==
  /\ pc # "idle"
  /\ EndTransaction
  /\ UNCHANGED <<created, charged>>

\* fetch_total_cents and PspClient::charge.
Charge ==
  /\ created # NoInvoice
  /\ charged' = created.total
  /\ UNCHANGED <<pc, request, total, amounts, created>>

Next == \/ CreateInvoice \/ InsertInvoice \/ InsertLine \/ Commit \/ Rollback
        \/ Charge

Spec == Init /\ [][Next]_vars

-----------------------------------------------------------------------------
(* Properties.                                                             *)

\* Every committed invoice has one row for each requested line, and its total
\* and its rows agree in wrapping arithmetic, however lines and failures mix.
RowsAgree ==
  /\ Len(created.amounts) = Len(created.request)
  /\ created.total = RunningSums(created.amounts)[Len(created.amounts)]

\* Up to twice the range of an integer every overflow ends up negative and a
\* CHECK constraint refuses it, whichever of the products or the sum overflows:
\* a total that was committed for such lines is exact, and so is the charge.
ExactBelowTwiceRange ==
  ExactTotal(created.request) < 2 * Half =>
    /\ created.total = ExactTotal(created.request)
    /\ charged \in {NoCharge, ExactTotal(created.request)}

\* openapi.yaml: total_cents is the "Server-computed sum of line items".
TotalIsSum == created.total = ExactTotal(created.request)
=============================================================================
