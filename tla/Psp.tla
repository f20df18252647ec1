-------------------------------- MODULE Psp --------------------------------
(***************************************************************************)
(* The card processor's answer to POST /charges (mock-psp/src/main.rs) and *)
(* how psp_client.rs turns an answer into a PspOutcome.  A body is reduced *)
(* to the field the client looks at: "psp_ref" for an approved charge,     *)
(* otherwise the code (or error) the processor names.                      *)
(***************************************************************************)

\* mock-psp `charge`: the reply is a function of the card token alone.
MockCharge(token) ==
  CASE token \in {"tok_success", "tok_timeout"} ->
                               [http |-> "2xx", body |-> "psp_ref"]
    [] token = "tok_insufficient_funds" ->
                               [http |-> "2xx", body |-> "insufficient_funds"]
    [] token = "tok_card_declined" ->
                               [http |-> "2xx", body |-> "card_declined"]
    [] token = "tok_network_error" ->
                               [http |-> "5xx", body |-> "simulated_network_error"]
    [] OTHER ->                [http |-> "4xx", body |-> "invalid_token"]

\* The processor took the money.
Approved(token) == MockCharge(token).body = "psp_ref"

-----------------------------------------------------------------------------
DeclineCodes == {"insufficient_funds", "card_declined", "invalid_token",
                 "psp_rejected_request"}

Succeeded == [kind |-> "Succeeded", code |-> "none"]
Declined(code) == [kind |-> "Declined", code |-> code]
Unavailable == [kind |-> "Unavailable", code |-> "none"]
NoOutcome == [kind |-> "none", code |-> "none"]

PspOutcomes == {Succeeded, Unavailable} \cup {Declined(c) : c \in DeclineCodes}

\* Mutant: an unreadable 2xx body is taken for a refusal by the processor.
OutcomeGuessesDecline(reply, readable) ==
  CASE reply.http = "5xx" -> Unavailable
    [] reply.http = "4xx" /\ readable -> Declined(reply.body)
    [] ~readable -> Declined("psp_rejected_request")
    [] OTHER -> IF reply.body = "psp_ref" THEN Succeeded
                                          ELSE Declined(reply.body)

\* PspClient::charge after an HTTP reply arrived.  `readable` is FALSE when
\* reading or parsing the body fails.
Outcome(reply, readable) ==
  CASE reply.http = "5xx" -> Unavailable
    [] reply.http = "4xx" -> IF readable THEN Declined(reply.body)
                             ELSE Declined("psp_rejected_request")
    [] OTHER -> IF ~readable THEN Unavailable
                ELSE IF reply.body = "psp_ref" THEN Succeeded
                ELSE Declined(reply.body)

(* What finalize_payment_attempt writes into payment_attempts.status and   *)
(* payment_attempts.failure_code for an outcome, whether it moves the      *)
(* invoice, and the event it enqueues.                                     *)

\* Mutant: the name of the outcome instead of the value the column allows.
StatusIsKind(o) == o.kind

StatusOf(o) == IF o.kind = "Succeeded" THEN "succeeded" ELSE "failed"

FailureCode(o) ==
  CASE o.kind = "Declined" -> o.code
    [] o.kind = "Unavailable" -> "psp_unavailable"
    [] OTHER -> "none"

\* Mutant: any outcome moves the invoice to paid.
PaysAlways(o) == TRUE

\* invoice_target_state is Some("paid").
Pays(o) == o.kind = "Succeeded"

\* Mutant: every settled attempt is reported as invoice.paid.
EventAlwaysPaid(o) == "invoice.paid"

EventOf(o) == IF o.kind = "Succeeded" THEN "invoice.paid"
                                      ELSE "invoice.payment_failed"
=============================================================================
