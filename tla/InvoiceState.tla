---------------------------- MODULE InvoiceState ----------------------------
(***************************************************************************)
(* invoice-service/src/state_machine.rs: the states of an invoice and the  *)
(* predicates that decide which transition is legal.  "absent" stands for  *)
(* an id for which the caller's business has no row in `invoices`.         *)
(***************************************************************************)

States == {"draft", "open", "paid", "void", "uncollectible"}

Terminal == {"paid", "void", "uncollectible"}

CanFinalize(s) == s = "draft"

\* Mutant: a void that is also accepted on a paid invoice.
CanVoidPaid(s) == s \in {"draft", "open", "paid"}

CanVoid(s) == s \in {"draft", "open"}

CanMarkUncollectible(s) == s = "open"

\* Mutant: forgets that a paid invoice takes no further payment.
CanAcceptPaymentTwice(s) == s \in {"open", "paid"}

CanAcceptPayment(s) == s = "open"
=============================================================================
