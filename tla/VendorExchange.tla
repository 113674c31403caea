----------------------------- MODULE VendorExchange -----------------------------
(***************************************************************************)
(* One paid request between postToVendor (payments.ts), the merchant of    *)
(* main.go and the facilitator, and the status request that reconciles it. *)
(* ExecutionWorker treats all of this as a vendor that charges or refuses. *)
(*                                                                         *)
(* The x402 middleware of the merchant is a library: it answers a request  *)
(* without payment with 402, verifies a payment before the handler runs    *)
(* and settles it after a handler that succeeded.  A handler records the   *)
(* payment before it is settled, in memory.                                *)
(***************************************************************************)
EXTENDS FiniteSets, Naturals

CONSTANTS
    Payments,        \* payment identifiers
    Slow,            \* those for /research, which answers after nine seconds
    Faults,          \* what may go wrong, of FaultKinds
    MaxRestarts      \* bound on restarts of the merchant

\* network: a request takes more than eight seconds; reset: it fails at once;
\* unasked, declined: the vendor answers without asking for a payment, with
\* success or an error; verdict: the facilitator calls a payment invalid.
FaultKinds == {"network", "reset", "unasked", "declined", "signing", "provider",
               "verification", "settlement", "verdict"}

ExchangeAssumption == Slow \subseteq Payments /\ Faults \subseteq FaultKinds

VARIABLES
    client,       \* per payment: how far postToVendor is, then its result
    handler,      \* per payment: how far the merchant is with the paid request
    paid,         \* the payments that the facilitator has settled
    records,      \* paymentStore: the payments it holds, all of them succeeded
    booked,       \* per payment: what reconciliation has made of an unknown one
    restarts,
    thrown,       \* history: those whose paid request ended by another error,
    unasked,      \* those that succeeded without having been asked for,
    misjudged     \* and those booked as failed that were not refused before

histories == <<thrown, unasked, misjudged>>
exchangeVars == <<client, handler, paid, records, booked, restarts, histories>>

Init ==
    /\ client = [p \in Payments |-> "idle"]
    /\ handler = [p \in Payments |-> "none"]
    /\ paid = {}
    /\ records = {}
    /\ booked = [p \in Payments |-> "open"]
    /\ restarts = 0
    /\ thrown = {} /\ unasked = {} /\ misjudged = {}

ClientAt(p, where) == client' = [client EXCEPT ![p] = where]
HandlerAt(p, where) == handler' = [handler EXCEPT ![p] = where]

-----------------------------------------------------------------------------
(***************************************************************************)
(* postToVendor                                                            *)
(***************************************************************************)

SendRequest(p) ==
    /\ client[p] = "idle"
    /\ ClientAt(p, "first")
    /\ UNCHANGED <<handler, paid, records, booked, restarts, histories>>

\* Any other answer to the first request is final: success needs no payment.
ReceiveUnasked(p) ==
    /\ client[p] = "first"
    /\ \/ "unasked" \in Faults /\ ClientAt(p, "succeeded") /\ unasked' = unasked \cup {p}
       \/ "declined" \in Faults /\ ClientAt(p, "failed") /\ UNCHANGED unasked
    /\ UNCHANGED <<handler, paid, records, booked, restarts, thrown, misjudged>>

\* The merchant asks for a payment.
Receive402(p) ==
    /\ client[p] = "first"
    /\ ClientAt(p, "signing")
    /\ UNCHANGED <<handler, paid, records, booked, restarts, histories>>

\* The payment is signed and sent with the request.
SendPayment(p) ==
    /\ client[p] = "signing"
    /\ ClientAt(p, "second")
    /\ HandlerAt(p, "received")
    /\ UNCHANGED <<paid, records, booked, restarts, histories>>

\* No requirement can be met or read, or no signature be made.
SigningThrows(p) ==
    /\ client[p] = "signing" /\ "signing" \in Faults
    /\ ClientAt(p, "failed")
    /\ UNCHANGED <<handler, paid, records, booked, restarts, histories>>

ReceiveResponse(p) ==
    /\ client[p] = "second"
    /\ \/ /\ handler[p] = "granted" /\ p \notin Slow
          /\ ClientAt(p, "succeeded")
       \/ /\ handler[p] \in {"rejected", "refused", "unsettled"}
          /\ ClientAt(p, "failed")
    /\ UNCHANGED <<handler, paid, records, booked, restarts, histories>>

\* Eight seconds pass: the network is slow, or the handler sleeps for nine.
IsLate(p) ==
    \/ "network" \in Faults
    \/ p \in Slow /\ handler[p] \in {"recorded", "granted"}

\* Mutant: a time-out is taken for a failure.
TimeOutFails(p) ==
    /\ client[p] \in {"first", "second"}
    /\ IsLate(p)
    /\ ClientAt(p, "failed")
    /\ UNCHANGED <<handler, paid, records, booked, restarts, histories>>

\* The abort after VENDOR_REQUEST_TIMEOUT_MS; with a signed payment at hand
\* its payload is kept for the facilitator.
RequestTimesOut(p) ==
    /\ client[p] \in {"first", "second"}
    /\ IsLate(p)
    /\ ClientAt(p, IF client[p] = "first" THEN "unknown" ELSE "unknown_signed")
    /\ UNCHANGED <<handler, paid, records, booked, restarts, histories>>

\* Any other error.
RequestThrows(p) ==
    /\ client[p] \in {"first", "second"} /\ "reset" \in Faults
    /\ ClientAt(p, "failed")
    /\ thrown' = IF client[p] = "second" THEN thrown \cup {p} ELSE thrown
    /\ UNCHANGED <<handler, paid, records, booked, restarts, unasked, misjudged>>

-----------------------------------------------------------------------------
(***************************************************************************)
(* The merchant                                                            *)
(***************************************************************************)
VerifyPayment(p) ==
    /\ handler[p] = "received"
    /\ \/ HandlerAt(p, "running")
       \/ "verification" \in Faults /\ HandlerAt(p, "rejected")
    /\ UNCHANGED <<client, paid, records, booked, restarts, histories>>

\* fetchMarketData returns an error: no key, no answer, or nothing in it.
ProviderFails == "provider" \in Faults

\* The handler fetches its data and records the payment; without data it
\* answers 502.
RunHandler(p) ==
    /\ handler[p] = "running"
    /\ \/ HandlerAt(p, "recorded") /\ records' = records \cup {p}
       \/ ProviderFails /\ HandlerAt(p, "refused") /\ UNCHANGED records
    /\ UNCHANGED <<client, paid, booked, restarts, histories>>

\* After the handler; if the settlement fails or its outcome is lost, the answer
\* is dropped and the record stays.
SettlePayment(p) ==
    /\ handler[p] = "recorded"
    /\ \/ HandlerAt(p, "granted") /\ paid' = paid \cup {p}
       \/ /\ "settlement" \in Faults /\ HandlerAt(p, "unsettled")
          /\ paid' = paid \/ paid' = paid \cup {p}
    /\ UNCHANGED <<client, records, booked, restarts, histories>>

Restart ==
    /\ restarts < MaxRestarts
    /\ restarts' = restarts + 1
    /\ records' = {}
    /\ handler' = [p \in Payments |->
         IF handler[p] \in {"received", "running", "recorded"} THEN "lost" ELSE handler[p]]
    /\ UNCHANGED <<client, paid, booked, histories>>

\* The connection breaks with the merchant; for the client, an error at once.
NoticeRestart(p) ==
    /\ client[p] = "second" /\ handler[p] = "lost"
    /\ ClientAt(p, "failed")
    /\ UNCHANGED <<handler, paid, records, booked, restarts, histories>>

-----------------------------------------------------------------------------
(***************************************************************************)
(* correlateAttemptStatus and serveStatus                                  *)
(***************************************************************************)
\* Mutant: a payment is looked up by the reference of its charge, which the
\* client of an unknown payment never got.
FoundByCharge(p) == p \in records /\ client[p] = "succeeded"

\* paymentStore.get: by the identifier of the payment.
Found(p) == p \in records

IsUnknown(p) == client[p] \in {"unknown", "unknown_signed"} /\ booked[p] = "open"

\* The status endpoint knows the payment, and knows only payments that
\* succeeded; the facilitator was not asked, found it valid, or gave no verdict.
\* Any other answer of the endpoint is an error, after which it is asked again.
ReadStatus(p) ==
    /\ IsUnknown(p) /\ Found(p)
    /\ booked' = [booked EXCEPT ![p] = "succeeded"]
    /\ UNCHANGED <<client, handler, paid, records, restarts, histories>>

\* The facilitator, asked first for a signed payment, calls it invalid, for
\* whatever reason: also because it has expired or has been settled.
FacilitatorRefuses(p) ==
    /\ IsUnknown(p) /\ client[p] = "unknown_signed"
    /\ "verdict" \in Faults
    /\ booked' = [booked EXCEPT ![p] = "failed"]
    /\ misjudged' = IF handler[p] = "rejected" THEN misjudged ELSE misjudged \cup {p}
    /\ UNCHANGED <<client, handler, paid, records, restarts, thrown, unasked>>

ClientStep(p) ==
    \/ SendRequest(p) \/ ReceiveUnasked(p) \/ Receive402(p) \/ SendPayment(p)
    \/ SigningThrows(p) \/ ReceiveResponse(p) \/ RequestTimesOut(p) \/ RequestThrows(p)
    \/ NoticeRestart(p)

MerchantStep(p) == VerifyPayment(p) \/ RunHandler(p) \/ SettlePayment(p)
Reconcile(p) == ReadStatus(p) \/ FacilitatorRefuses(p)

Next ==
    \/ \E p \in Payments : ClientStep(p) \/ MerchantStep(p) \/ Reconcile(p)
    \/ Restart

Spec == Init /\ [][Next]_exchangeVars

-----------------------------------------------------------------------------
(***************************************************************************)
(* Properties.                                                             *)
(***************************************************************************)
MayStillPay(p) == p \in paid \/ handler[p] \in {"received", "running", "recorded"}

\* A definite result is true: what succeeded has been paid, and of what failed
\* nothing is paid or will be, however long the merchant still works on it.
\* The exceptions are named: a vendor that asked for no payment, a paid request
\* that broke by an error that is no time-out, a settlement whose outcome the
\* merchant never learnt, and a payment that the facilitator calls invalid although
\* it was not refused before.  What reconciliation books as succeeded
\* the merchant has recorded, and it is paid unless the merchant has yet to
\* settle it, failed to, or was restarted before.
DefiniteResultsAreTrue ==
    \A p \in Payments :
      /\ client[p] = "succeeded" /\ p \notin unasked => p \in paid
      /\ client[p] = "failed" /\ p \notin thrown /\ handler[p] # "unsettled"
           => ~ MayStillPay(p)
      /\ booked[p] = "failed" /\ p \notin misjudged => ~ MayStillPay(p)
      /\ booked[p] = "succeeded"
           => p \in paid \/ handler[p] \in {"recorded", "unsettled", "lost"}

\* A request that was cut off after its payment was signed and sent is
\* reconciled: the merchant goes on with it, and its status endpoint then
\* knows the payment by its identifier, unless the merchant turned the payment
\* away ("rejected"), had no data for it ("refused"), or was restarted.
Reconciled(p) ==
    \/ booked[p] # "open"
    \/ handler[p] \in {"rejected", "refused"}
    \/ restarts > 0
=============================================================================
