---------------------------- MODULE MCLateAnswers ----------------------------
(***************************************************************************)
(* The calls whose answers may be late or lost, on small instances: the    *)
(* anchors that createMandate and revokeMandate write on chain while they  *)
(* hold the lock of the store (MandateAnchoring), and the paid requests to *)
(* the merchant, one of whose routes is slower than the client waits       *)
(* (VendorExchange).  The two share no state; which one a behaviour is     *)
(* about is chosen in its initial state.                                   *)
(***************************************************************************)
EXTENDS MandateAnchoring

CONSTANTS Payments, Slow, MerchantFaults, MaxRestarts

VARIABLES call, client, handler, paid, records, booked, restarts, thrown,
          unasked, misjudged

Vendor == INSTANCE VendorExchange WITH Faults <- MerchantFaults

ASSUME VendorAssumption == Vendor!ExchangeAssumption

vendorVars ==
    <<client, handler, paid, records, booked, restarts, thrown, unasked, misjudged>>
answerVars == <<call, anchorVars, vendorVars>>

AnswersInit ==
    /\ call \in {"anchor", "vendor"}
    /\ Init /\ Vendor!Init
    /\ call = "vendor" => configured

OnChain(step) == call = "anchor" /\ step /\ UNCHANGED <<call, vendorVars>>
AtVendor(step) == call = "vendor" /\ step /\ UNCHANGED <<call, anchorVars>>

AnswersNext == OnChain(Next) \/ AtVendor(Vendor!Next)

\* A handler goes on as long as its process runs; requests end by their
\* time-out and the merchant's handlers end.  The reconciliation worker asks
\* again and again, and the facilitator answers it something; that it ever
\* calls a payment invalid is not assumed.
AnswersFairness ==
    /\ WF_answerVars(OnChain(OpStep))
    /\ \A p \in Payments :
         /\ WF_answerVars(AtVendor(Vendor!ClientStep(p)))
         /\ WF_answerVars(AtVendor(Vendor!MerchantStep(p)))
         /\ WF_answerVars(AtVendor(Vendor!ReadStatus(p)))

AnswersSpec == AnswersInit /\ [][AnswersNext]_answerVars /\ AnswersFairness

-----------------------------------------------------------------------------
\* Definite results of a vendor call are true (see VendorExchange).
DefiniteResultsAreTrue == Vendor!DefiniteResultsAreTrue

\* A request that was cut off after its payment was signed and sent is
\* reconciled: the merchant goes on with it, and its status endpoint then
\* knows the payment by its identifier, unless the merchant turned the payment
\* away, had no data for it, or was restarted.
SignedPaymentsAreReconciled ==
    \A p \in Payments : client[p] = "unknown_signed" ~> Vendor!Reconciled(p)
=============================================================================
