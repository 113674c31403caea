------------------------- MODULE LateAnswersProofs -------------------------
(***************************************************************************)
(* Proofs about the calls whose answers may be late or lost, for any       *)
(* number of mandates, payments, transactions and faults.                  *)
(*                                                                         *)
(*   - A definite result of a paid request is true (VendorExchange):       *)
(*     ExchangeInv says where the merchant can be when the client has      *)
(*     ended.                                                              *)
(*   - The chain is never behind the store (MandateAnchoring): ChainInv    *)
(*     says what the transactions under way can still do, so that even a   *)
(*     reverted one proves what its caller takes it for.                   *)
(***************************************************************************)
EXTENDS MCLateAnswers, SequenceTheorems, TLAPS

-----------------------------------------------------------------------------
(***************************************************************************)
(* Paid requests.                                                          *)
(***************************************************************************)
\* Where the merchant may be, given where the client is.
HandlerFits(p) ==
    /\ client[p] \in {"idle", "first", "signing", "unknown"} => handler[p] = "none"
    /\ client[p] = "succeeded" => p \in unasked \/ handler[p] = "granted"
    /\ client[p] = "failed"
         => p \in thrown
            \/ handler[p] \in {"none", "rejected", "refused", "unsettled", "lost"}
    /\ booked[p] = "failed" => p \in misjudged \/ handler[p] = "rejected"
    /\ booked[p] = "succeeded" => handler[p] \in {"recorded", "granted", "unsettled", "lost"}
    /\ p \in records => handler[p] \in {"recorded", "granted", "unsettled"}
    /\ handler[p] = "granted" => p \in paid
    /\ p \in paid => handler[p] \in {"granted", "unsettled"}

ExchangeInv ==
    /\ client \in [Payments -> {"idle", "first", "signing", "second", "succeeded",
                                "failed", "unknown", "unknown_signed"}]
    /\ handler \in [Payments -> {"none", "received", "running", "recorded", "granted",
                                 "rejected", "refused", "unsettled", "lost"}]
    /\ booked \in [Payments -> {"open", "succeeded", "failed"}]
    /\ \A p \in Payments : HandlerFits(p)

\* A step that is about payment p alone.
LEMMA PaymentMoves ==
    ASSUME ExchangeInv, NEW p \in Payments,
           \A q \in Payments \ {p} :
             /\ client'[q] = client[q] /\ handler'[q] = handler[q]
             /\ booked'[q] = booked[q]
             /\ q \in paid' <=> q \in paid
             /\ q \in records' <=> q \in records
             /\ q \in thrown => q \in thrown'
             /\ q \in unasked => q \in unasked'
             /\ q \in misjudged => q \in misjudged',
           HandlerFits(p)'
    PROVE  \A q \in Payments : HandlerFits(q)'
  BY DEF ExchangeInv, HandlerFits

LEMMA ClientKeeps ==
    ASSUME ExchangeInv, NEW p \in Payments, Vendor!ClientStep(p)
    PROVE  ExchangeInv'
  <1> USE DEF Vendor!ClientAt, Vendor!HandlerAt, Vendor!histories
  <1>1. /\ client' \in [Payments -> {"idle", "first", "signing", "second", "succeeded",
                                     "failed", "unknown", "unknown_signed"}]
        /\ handler' \in [Payments -> {"none", "received", "running", "recorded", "granted",
                                      "rejected", "refused", "unsettled", "lost"}]
        /\ booked' \in [Payments -> {"open", "succeeded", "failed"}]
    BY DEF ExchangeInv, Vendor!ClientStep, Vendor!SendRequest, Vendor!ReceiveUnasked,
           Vendor!Receive402, Vendor!SendPayment, Vendor!SigningThrows, Vendor!ReceiveResponse,
           Vendor!RequestTimesOut, Vendor!RequestThrows, Vendor!NoticeRestart
  <1>2. \A q \in Payments \ {p} :
          /\ client'[q] = client[q] /\ handler'[q] = handler[q]
          /\ booked'[q] = booked[q]
          /\ q \in paid' <=> q \in paid
          /\ q \in records' <=> q \in records
          /\ q \in thrown => q \in thrown'
          /\ q \in unasked => q \in unasked'
          /\ q \in misjudged => q \in misjudged'
    BY DEF ExchangeInv, Vendor!ClientStep, Vendor!SendRequest, Vendor!ReceiveUnasked,
           Vendor!Receive402, Vendor!SendPayment, Vendor!SigningThrows, Vendor!ReceiveResponse,
           Vendor!RequestTimesOut, Vendor!RequestThrows, Vendor!NoticeRestart
  <1>3. HandlerFits(p)'
    <2>1. HandlerFits(p) /\ client[p] \in {"idle", "first", "signing", "second", "succeeded",
                                     "failed", "unknown", "unknown_signed"}
      BY DEF ExchangeInv
    <2>2. CASE Vendor!SendRequest(p) \/ Vendor!Receive402(p) \/ Vendor!SigningThrows(p)
              \/ Vendor!ReceiveUnasked(p)
      BY <2>1, <2>2
      DEF ExchangeInv, HandlerFits, Vendor!SendRequest, Vendor!Receive402,
          Vendor!SigningThrows, Vendor!ReceiveUnasked
    <2>3. CASE Vendor!SendPayment(p)
      BY <2>1, <2>3 DEF ExchangeInv, HandlerFits, Vendor!SendPayment
    <2>4. CASE Vendor!ReceiveResponse(p) \/ Vendor!NoticeRestart(p)
      BY <2>1, <2>4
      DEF ExchangeInv, HandlerFits, Vendor!ReceiveResponse, Vendor!NoticeRestart
    <2>5. CASE Vendor!RequestTimesOut(p) \/ Vendor!RequestThrows(p)
      BY <2>1, <2>5
      DEF ExchangeInv, HandlerFits, Vendor!RequestTimesOut, Vendor!RequestThrows
    <2>6. QED
      BY <2>2, <2>3, <2>4, <2>5 DEF Vendor!ClientStep
  <1>4. QED
    BY <1>1, <1>2, <1>3, PaymentMoves DEF ExchangeInv

LEMMA MerchantKeeps ==
    ASSUME ExchangeInv, NEW p \in Payments, Vendor!MerchantStep(p) \/ Vendor!Reconcile(p)
    PROVE  ExchangeInv'
  <1> USE DEF Vendor!HandlerAt, Vendor!histories
  <1>1. /\ client' \in [Payments -> {"idle", "first", "signing", "second", "succeeded",
                                     "failed", "unknown", "unknown_signed"}]
        /\ handler' \in [Payments -> {"none", "received", "running", "recorded", "granted",
                                      "rejected", "refused", "unsettled", "lost"}]
        /\ booked' \in [Payments -> {"open", "succeeded", "failed"}]
    BY DEF ExchangeInv, Vendor!MerchantStep, Vendor!Reconcile, Vendor!VerifyPayment,
           Vendor!RunHandler, Vendor!SettlePayment, Vendor!ReadStatus,
           Vendor!FacilitatorRefuses
  <1>2. \A q \in Payments \ {p} :
          /\ client'[q] = client[q] /\ handler'[q] = handler[q]
          /\ booked'[q] = booked[q]
          /\ q \in paid' <=> q \in paid
          /\ q \in records' <=> q \in records
          /\ q \in thrown => q \in thrown'
          /\ q \in unasked => q \in unasked'
          /\ q \in misjudged => q \in misjudged'
    BY DEF ExchangeInv, Vendor!MerchantStep, Vendor!Reconcile, Vendor!VerifyPayment,
           Vendor!RunHandler, Vendor!SettlePayment, Vendor!ReadStatus,
           Vendor!FacilitatorRefuses
  <1>3. HandlerFits(p)'
    <2>1. HandlerFits(p)
      BY DEF ExchangeInv
    <2>2. CASE Vendor!MerchantStep(p)
      BY <2>1, <2>2
      DEF ExchangeInv, HandlerFits, Vendor!MerchantStep, Vendor!VerifyPayment,
          Vendor!RunHandler, Vendor!SettlePayment
    <2>3. CASE Vendor!Reconcile(p)
      BY <2>1, <2>3
      DEF ExchangeInv, HandlerFits, Vendor!Reconcile, Vendor!ReadStatus,
          Vendor!FacilitatorRefuses, Vendor!IsUnknown, Vendor!Found
    <2>4. QED
      BY <2>2, <2>3
  <1>4. QED
    BY <1>1, <1>2, <1>3, PaymentMoves DEF ExchangeInv

LEMMA ExchangeStep == ExchangeInv /\ [Vendor!Next]_vendorVars => ExchangeInv'
  <1> SUFFICES ASSUME ExchangeInv, [Vendor!Next]_vendorVars PROVE ExchangeInv'
    OBVIOUS
  <1>1. ASSUME NEW p \in Payments,
               Vendor!ClientStep(p) \/ Vendor!MerchantStep(p) \/ Vendor!Reconcile(p)
        PROVE  ExchangeInv'
    BY <1>1, ClientKeeps, MerchantKeeps
  <1>2. CASE Vendor!Restart
    BY <1>2 DEF Vendor!Restart, Vendor!histories, ExchangeInv, HandlerFits
  <1>3. CASE UNCHANGED vendorVars
    BY <1>3 DEF vendorVars, ExchangeInv, HandlerFits
  <1>4. QED
    BY <1>1, <1>2, <1>3 DEF Vendor!Next

\* Whatever is slow, lost or restarted, a definite result is true, with the
\* exceptions that the property names.
THEOREM DefiniteResultsStayTrue == AnswersSpec => []DefiniteResultsAreTrue
  <1>1. AnswersInit => ExchangeInv
    BY DEF AnswersInit, Vendor!Init, ExchangeInv, HandlerFits
  <1>2. ExchangeInv /\ [AnswersNext]_answerVars => ExchangeInv'
    <2>1. [AnswersNext]_answerVars => [Vendor!Next]_vendorVars
      BY DEF AnswersNext, OnChain, AtVendor, answerVars
    <2>2. QED
      BY <2>1, ExchangeStep
  <1>3. ExchangeInv => DefiniteResultsAreTrue
    BY DEF ExchangeInv, HandlerFits, DefiniteResultsAreTrue, Vendor!DefiniteResultsAreTrue,
           Vendor!MayStillPay
  <1>4. QED
    BY <1>1, <1>2, <1>3, PTL DEF AnswersSpec

-----------------------------------------------------------------------------
(***************************************************************************)
(* Anchors.                                                                *)
(***************************************************************************)
Actions == {"issue", "revoke"}
Receipts == {"pending", "succeeded", "reverted"}
SentRecords == [tx : Nat \ {0}, action : Actions, mandate : Mandates]
OpRecords ==
    [stage : {"anchor", "wait", "anchored"}, action : Actions, mandate : Mandates,
     valid : BOOLEAN, ref : Int]

AnchorTypeOK ==
    /\ stored \in [Mandates -> {"none", "issued", "revoked"}]
    /\ anchor \in [Mandates -> [issue : Int, revoke : Int]]
    /\ registry \in [Mandates -> {"Unissued", "Active", "Revoked"}]
    /\ receipt \in Seq(Receipts)
    /\ mempool \in Seq(SentRecords)
    /\ op = NoOp \/ op \in OpRecords
    /\ used \subseteq Mandates

\* A transaction that was sent is pending until it is mined, and no two share
\* a number.
SentArePending ==
    /\ \A k \in 1 .. Len(mempool) :
         mempool[k].tx \in 1 .. Len(receipt) /\ receipt[mempool[k].tx] = "pending"
    /\ \A j, k \in 1 .. Len(mempool) : mempool[j].tx = mempool[k].tx => j = k

\* An identifier is made once, and issued at most once: while its issue is
\* under way nothing else is that could change its status.
IssuesSucceed ==
    /\ \A m \in Mandates : m \notin used => stored[m] = "none" /\ registry[m] = "Unissued"
    /\ \A k \in 1 .. Len(mempool) :
         /\ mempool[k].mandate \in used
         /\ mempool[k].action = "issue" => registry[mempool[k].mandate] = "Unissued"
         /\ mempool[k].action = "revoke" => registry[mempool[k].mandate] # "Unissued"
    /\ \A j, k \in 1 .. Len(mempool) :
         /\ mempool[j].action = "issue" /\ mempool[k].action = "issue"
         /\ mempool[j].mandate = mempool[k].mandate
         => j = k

\* What the receipt of the running transaction will prove.
OpFits ==
    op # NoOp =>
      /\ op.mandate \in used
      /\ op.action = "revoke" => stored[op.mandate] = "issued"
      /\ op.stage = "anchor" /\ op.action = "issue"
           => /\ registry[op.mandate] = "Unissued"
              /\ \A k \in 1 .. Len(mempool) : mempool[k].mandate # op.mandate
      /\ op.stage \in {"wait", "anchored"}
           => /\ op.ref \in 1 .. Len(receipt)
              /\ \A k \in 1 .. Len(mempool) :
                   mempool[k].tx = op.ref
                     => mempool[k].action = op.action /\ mempool[k].mandate = op.mandate
              /\ receipt[op.ref] = "pending"
                   => \E k \in 1 .. Len(mempool) : mempool[k].tx = op.ref
              /\ receipt[op.ref] # "pending"
                   => IF op.action = "issue"
                        THEN registry[op.mandate] # "Unissued" /\ receipt[op.ref] = "succeeded"
                        ELSE registry[op.mandate] = "Revoked"
      /\ op.stage = "anchored" => receipt[op.ref] # "pending"

\* What the store names has been done on chain.
StoreFits ==
    \A m \in Mandates :
      /\ stored[m] # "none"
           => /\ registry[m] # "Unissued"
              /\ anchor[m].issue \in 1 .. Len(receipt)
              /\ receipt[anchor[m].issue] = "succeeded"
      /\ stored[m] = "revoked" => registry[m] = "Revoked"

ChainInv ==
    /\ AnchorTypeOK
    /\ SentArePending
    /\ IssuesSucceed
    /\ OpFits
    /\ StoreFits

\* Without a configuration nothing is on chain and nothing is claimed of it.
AnchorInv == configured => ChainInv

LEMMA SentTail ==
    ASSUME AnchorTypeOK, mempool # << >>
    PROVE  /\ 1 \in 1 .. Len(mempool) /\ Head(mempool) = mempool[1]
           /\ mempool[1] \in SentRecords
           /\ Tail(mempool) \in Seq(SentRecords)
           /\ \A k \in 1 .. Len(Tail(mempool)) :
                k + 1 \in 1 .. Len(mempool) /\ k + 1 # 1 /\ Tail(mempool)[k] = mempool[k + 1]
           /\ \A k \in 1 .. Len(mempool) :
                k = 1 \/ (k - 1 \in 1 .. Len(Tail(mempool))
                            /\ Tail(mempool)[k - 1] = mempool[k])
  <1>1. mempool \in Seq(SentRecords) /\ Len(mempool) \in Nat
    BY DEF AnchorTypeOK
  <1>2. Len(mempool) # 0
    BY <1>1, EmptySeq
  <1>3. /\ Tail(mempool) \in Seq(SentRecords)
        /\ Len(Tail(mempool)) = Len(mempool) - 1
        /\ \A k \in 1 .. Len(Tail(mempool)) : Tail(mempool)[k] = mempool[k + 1]
    BY <1>1, HeadTailProperties
  <1>4. QED
    BY <1>1, <1>2, <1>3

\* The identifiers, receipts and transactions after one was sent.
LEMMA SentAppend ==
    ASSUME AnchorTypeOK, op # NoOp, Send
    PROVE  /\ registry' = registry
           /\ receipt' \in Seq(Receipts) /\ mempool' \in Seq(SentRecords)
           /\ Len(receipt) + 1 \in 1 .. Len(receipt')
           /\ receipt'[Len(receipt) + 1] = "pending"
           /\ \A t \in 1 .. Len(receipt) :
                t \in 1 .. Len(receipt') /\ receipt'[t] = receipt[t] /\ t # Len(receipt) + 1
           /\ Len(mempool) + 1 \in 1 .. Len(mempool')
           /\ mempool'[Len(mempool) + 1] =
                [tx |-> Len(receipt) + 1, action |-> op.action, mandate |-> op.mandate]
           /\ \A k \in 1 .. Len(mempool') :
                \/ k \in 1 .. Len(mempool) /\ mempool'[k] = mempool[k]
                \/ k = Len(mempool) + 1
  <1> DEFINE sent == [tx |-> Len(receipt) + 1, action |-> op.action, mandate |-> op.mandate]
  <1>1. receipt \in Seq(Receipts) /\ mempool \in Seq(SentRecords) /\ op \in OpRecords
        /\ Len(receipt) \in Nat /\ Len(mempool) \in Nat
    BY DEF AnchorTypeOK
  <1>2. sent \in SentRecords /\ "pending" \in Receipts
    BY <1>1 DEF SentRecords, OpRecords, Receipts
  <1>3. receipt' = Append(receipt, "pending") /\ mempool' = Append(mempool, sent)
        /\ registry' = registry
    BY DEF Send
  <1> HIDE DEF sent
  <1>4. /\ receipt' \in Seq(Receipts) /\ Len(receipt') = Len(receipt) + 1
        /\ receipt'[Len(receipt) + 1] = "pending"
        /\ \A t \in 1 .. Len(receipt) : receipt'[t] = receipt[t]
    BY <1>1, <1>2, <1>3, AppendProperties
  <1>5. /\ mempool' \in Seq(SentRecords) /\ Len(mempool') = Len(mempool) + 1
        /\ mempool'[Len(mempool) + 1] = sent
        /\ \A k \in 1 .. Len(mempool) : mempool'[k] = mempool[k]
    BY <1>1, <1>2, <1>3, AppendProperties
  <1>6. QED
    BY <1>1, <1>3, <1>4, <1>5 DEF sent

\* The transaction of the store ends and nothing else changes.
LEMMA ThrowInv ==
    ASSUME ChainInv, Throw, UNCHANGED <<storeVars, chainVars, used>>
    PROVE  ChainInv'
  BY DEF ChainInv, AnchorTypeOK, SentArePending, IssuesSucceed, OpFits, StoreFits, Throw,
         storeVars, chainVars

LEMMA BeginInv ==
    ASSUME ChainInv, NEW m \in Mandates,
           (\E vendorsOk \in BOOLEAN : BeginIssue(m, vendorsOk)) \/ BeginRevoke(m)
    PROVE  ChainInv'
  <1>1. UNCHANGED <<storeVars, chainVars>>
    BY DEF BeginIssue, BeginRevoke
  <1>2. PICK action \in Actions, valid \in BOOLEAN :
          op' = [stage |-> "anchor", action |-> action, mandate |-> m, valid |-> valid,
                 ref |-> -1]
          /\ \/ action = "issue" /\ m \notin used /\ used' = used \cup {m}
             \/ action = "revoke" /\ stored[m] = "issued" /\ used' = used
    BY DEF BeginIssue, BeginRevoke, Actions
  <1>3. /\ op' \in OpRecords /\ op'.stage = "anchor" /\ op'.action = action /\ op'.mandate = m
    BY <1>2 DEF OpRecords
  <1>4. m \in used' /\ used \subseteq used' /\ used' \subseteq Mandates
    BY <1>2 DEF ChainInv, AnchorTypeOK, IssuesSucceed
  <1>5. AnchorTypeOK'
    BY <1>1, <1>3, <1>4 DEF ChainInv, AnchorTypeOK, storeVars, chainVars
  <1>6. SentArePending' /\ StoreFits'
    BY <1>1 DEF ChainInv, SentArePending, StoreFits, storeVars, chainVars
  <1>7. IssuesSucceed'
    BY <1>1, <1>4 DEF ChainInv, IssuesSucceed, storeVars, chainVars
  <1>8. action = "issue" => /\ registry[m] = "Unissued"
                            /\ \A k \in 1 .. Len(mempool) : mempool[k].mandate # m
    BY <1>2 DEF ChainInv, IssuesSucceed
  <1>9. OpFits'
    BY <1>1, <1>2, <1>3, <1>4, <1>8 DEF OpFits, storeVars, chainVars
  <1>10. QED
    BY <1>5, <1>6, <1>7, <1>9 DEF ChainInv

\* A transaction is sent; its sender waits for it, or gives up.
LEMMA SendInv ==
    ASSUME ChainInv, op # NoOp, op.stage = "anchor", Send, UNCHANGED <<storeVars, used>>,
           \/ op' = [op EXCEPT !.stage = "wait", !.ref = Len(receipt) + 1]
           \/ Throw
    PROVE  ChainInv'
  <1> DEFINE L == Len(receipt)
             n == Len(mempool) + 1
  <1>1. /\ AnchorTypeOK /\ op \in OpRecords /\ op.mandate \in used /\ op.mandate \in Mandates
        /\ op.action \in Actions /\ L \in Nat
    BY DEF ChainInv, AnchorTypeOK, OpRecords, OpFits
  <1>2. /\ registry' = registry
        /\ receipt' \in Seq(Receipts) /\ mempool' \in Seq(SentRecords)
        /\ L + 1 \in 1 .. Len(receipt') /\ receipt'[L + 1] = "pending"
        /\ \A t \in 1 .. L : t \in 1 .. Len(receipt') /\ receipt'[t] = receipt[t] /\ t # L + 1
        /\ n \in 1 .. Len(mempool')
        /\ mempool'[n].tx = L + 1 /\ mempool'[n].action = op.action
        /\ mempool'[n].mandate = op.mandate
        /\ \A k \in 1 .. Len(mempool') :
             (k \in 1 .. Len(mempool) /\ mempool'[k] = mempool[k]) \/ k = n
    BY <1>1, SentAppend
  <1>3. /\ op.action = "issue" => /\ registry[op.mandate] = "Unissued"
                                  /\ \A k \in 1 .. Len(mempool) : mempool[k].mandate # op.mandate
        /\ op.action = "revoke" => registry[op.mandate] # "Unissued"
    BY <1>1 DEF ChainInv, OpFits, StoreFits
  <1>4. \A k \in 1 .. Len(mempool) : mempool[k].tx \in 1 .. L /\ mempool[k].tx # L + 1
    BY <1>1 DEF ChainInv, SentArePending
  <1>5. stored' = stored /\ anchor' = anchor /\ used' = used
    BY DEF storeVars
  <1> HIDE DEF L, n
  <1>6. \/ op' = NoOp
        \/ /\ op' \in OpRecords /\ op'.stage = "wait" /\ op'.ref = L + 1
           /\ op'.action = op.action /\ op'.mandate = op.mandate
    <2>1. CASE op' = [op EXCEPT !.stage = "wait", !.ref = L + 1]
      <3>1. op' = [stage |-> "wait", action |-> op.action, mandate |-> op.mandate,
                   valid |-> op.valid, ref |-> L + 1]
        BY <1>1, <2>1 DEF OpRecords
      <3>2. op.valid \in BOOLEAN /\ L + 1 \in Int
        BY <1>1 DEF OpRecords
      <3>3. op' \in OpRecords
        BY <1>1, <3>1, <3>2 DEF OpRecords
      <3>4. QED
        BY <3>1, <3>3
    <2>2. QED
      BY <2>1 DEF Throw, L
  <1>7. AnchorTypeOK'
    BY <1>1, <1>2, <1>5, <1>6 DEF AnchorTypeOK
  <1>8. SentArePending'
    <2>1. SentArePending
      BY DEF ChainInv
    <2>2. ASSUME NEW k \in 1 .. Len(mempool')
          PROVE  mempool'[k].tx \in 1 .. Len(receipt') /\ receipt'[mempool'[k].tx] = "pending"
      BY <1>2, <1>4, <2>1 DEF SentArePending
    <2>3. ASSUME NEW j \in 1 .. Len(mempool'), NEW k \in 1 .. Len(mempool'),
                 mempool'[j].tx = mempool'[k].tx
          PROVE  j = k
      <3>1. CASE j = n \/ k = n
        BY <1>2, <1>4, <2>3, <3>1
      <3>2. CASE j # n /\ k # n
        BY <1>2, <2>1, <2>3, <3>2 DEF SentArePending
      <3>3. QED
        BY <3>1, <3>2
    <2>4. QED
      BY <2>2, <2>3 DEF SentArePending
  <1>9. IssuesSucceed'
    <2>1. \A k \in 1 .. Len(mempool) :
            /\ mempool[k].mandate \in used
            /\ mempool[k].action = "issue" => registry[mempool[k].mandate] = "Unissued"
            /\ mempool[k].action = "revoke" => registry[mempool[k].mandate] # "Unissued"
            /\ \A j \in 1 .. Len(mempool) :
                 /\ mempool[j].action = "issue" /\ mempool[k].action = "issue"
                 /\ mempool[j].mandate = mempool[k].mandate
                 => j = k
      BY DEF ChainInv, IssuesSucceed
    <2>2. \A m \in Mandates : m \notin used' => stored'[m] = "none" /\ registry'[m] = "Unissued"
      BY <1>2, <1>5 DEF ChainInv, IssuesSucceed
    <2>3. ASSUME NEW k \in 1 .. Len(mempool')
          PROVE  /\ mempool'[k].mandate \in used'
                 /\ mempool'[k].action = "issue" => registry'[mempool'[k].mandate] = "Unissued"
                 /\ mempool'[k].action = "revoke" => registry'[mempool'[k].mandate] # "Unissued"
      <3>1. CASE k \in 1 .. Len(mempool) /\ mempool'[k] = mempool[k]
        BY <1>2, <1>5, <2>1, <3>1
      <3>2. CASE k = n
        BY <1>1, <1>2, <1>3, <1>5, <3>2
      <3>3. QED
        BY <1>2, <3>1, <3>2
    <2>4. ASSUME NEW j \in 1 .. Len(mempool'), NEW k \in 1 .. Len(mempool'),
                 mempool'[j].action = "issue", mempool'[k].action = "issue",
                 mempool'[j].mandate = mempool'[k].mandate
          PROVE  j = k
      <3>1. CASE j = n /\ k # n
        BY <1>2, <1>3, <2>4, <3>1
      <3>2. CASE k = n /\ j # n
        BY <1>2, <1>3, <2>4, <3>2
      <3>3. CASE j # n /\ k # n
        BY <1>2, <2>1, <2>4, <3>3
      <3>4. QED
        BY <3>1, <3>2, <3>3
    <2>5. QED
      BY <2>2, <2>3, <2>4 DEF IssuesSucceed
  <1>10. OpFits'
    <2> SUFFICES ASSUME op' # NoOp PROVE OpFits'
      BY DEF OpFits
    <2>1. \A k \in 1 .. Len(mempool') : mempool'[k].tx = L + 1 => k = n
      BY <1>2, <1>4
    <2>2. op'.action = "revoke" => stored'[op'.mandate] = "issued"
      BY <1>5, <1>6 DEF ChainInv, OpFits
    <2>3. QED
      BY <1>1, <1>2, <1>5, <1>6, <2>1, <2>2 DEF OpFits
  <1>11. StoreFits'
    BY <1>2, <1>5 DEF ChainInv, StoreFits, L
  <1>12. QED
    BY <1>7, <1>8, <1>9, <1>10, <1>11 DEF ChainInv


\* The store takes its mandate's new status, and a receipt of whichever kind.
LEMMA RecordInv ==
    ASSUME ChainInv, op # NoOp, op.stage = "anchored", Record, Throw,
           UNCHANGED <<chainVars, used>>
    PROVE  ChainInv'
  <1> DEFINE m == op.mandate
             status == IF op.action = "issue" THEN "issued" ELSE "revoked"
  <1>1. /\ AnchorTypeOK /\ op \in OpRecords /\ m \in Mandates /\ m \in used
        /\ op.action \in Actions /\ op.ref \in Int
        /\ op.ref \in 1 .. Len(receipt) /\ receipt[op.ref] # "pending"
        /\ op.action = "issue" => registry[m] # "Unissued" /\ receipt[op.ref] = "succeeded"
        /\ op.action = "revoke" => registry[m] = "Revoked" /\ stored[m] = "issued"
    BY DEF ChainInv, AnchorTypeOK, OpRecords, OpFits, Actions
  <1>2. /\ registry' = registry /\ receipt' = receipt /\ mempool' = mempool /\ used' = used
        /\ op' = NoOp
    BY DEF chainVars, Throw
  <1>3. /\ stored' = [stored EXCEPT ![m] = status]
        /\ anchor' = [anchor EXCEPT ![m][op.action] = op.ref]
    BY DEF Record
  <1>4. /\ stored' \in [Mandates -> {"none", "issued", "revoked"}]
        /\ stored'[m] = status /\ \A q \in Mandates \ {m} : stored'[q] = stored[q]
    BY <1>1, <1>3 DEF AnchorTypeOK
  <1>5. /\ anchor' \in [Mandates -> [issue : Int, revoke : Int]]
        /\ op.action = "issue" => anchor'[m].issue = op.ref
        /\ op.action = "revoke" => anchor'[m].issue = anchor[m].issue
        /\ \A q \in Mandates \ {m} : anchor'[q] = anchor[q]
    <2>1. anchor \in [Mandates -> [issue : Int, revoke : Int]]
      BY <1>1 DEF AnchorTypeOK
    <2>2. CASE op.action = "issue"
      BY <1>1, <1>3, <2>1, <2>2
    <2>3. CASE op.action = "revoke"
      BY <1>1, <1>3, <2>1, <2>3
    <2>4. QED
      BY <1>1, <2>2, <2>3 DEF Actions
  <1> HIDE DEF m
  <1>6. AnchorTypeOK' /\ SentArePending' /\ OpFits'
    BY <1>1, <1>2, <1>4, <1>5 DEF ChainInv, AnchorTypeOK, SentArePending, OpFits
  <1>7. IssuesSucceed'
    BY <1>1, <1>2, <1>4 DEF ChainInv, IssuesSucceed
  <1>8. StoreFits'
    <2>1. \A q \in Mandates \ {m} :
            /\ stored'[q] = stored[q] /\ anchor'[q] = anchor[q]
      BY <1>4, <1>5
    <2>2. CASE op.action = "issue"
      BY <1>1, <1>2, <1>4, <1>5, <2>1, <2>2 DEF ChainInv, StoreFits
    <2>3. CASE op.action = "revoke"
      <3>1. StoreFits /\ stored[m] = "issued" /\ registry[m] = "Revoked"
        BY <1>1, <2>3 DEF ChainInv
      <3>2. anchor'[m].issue = anchor[m].issue
        BY <1>5, <2>3
      <3> SUFFICES ASSUME NEW q \in Mandates
                   PROVE  /\ stored'[q] # "none"
                                => /\ registry'[q] # "Unissued"
                                   /\ anchor'[q].issue \in 1 .. Len(receipt')
                                   /\ receipt'[anchor'[q].issue] = "succeeded"
                          /\ stored'[q] = "revoked" => registry'[q] = "Revoked"
        BY DEF StoreFits
      <3>3. CASE q = m
        BY <1>1, <1>2, <3>1, <3>2, <3>3 DEF StoreFits
      <3>4. CASE q # m
        BY <1>2, <2>1, <3>1, <3>4 DEF StoreFits
      <3>5. QED
        BY <3>3, <3>4
    <2>4. QED
      BY <1>1, <2>2, <2>3 DEF Actions
  <1>9. QED
    BY <1>6, <1>7, <1>8 DEF ChainInv

LEMMA ReceiptInv == ASSUME ChainInv, op # NoOp, ReceiveReceipt PROVE ChainInv'
  <1>1. op \in OpRecords /\ op.stage = "wait" /\ receipt[op.ref] # "pending"
    BY DEF ReceiveReceipt, ChainInv, AnchorTypeOK
  <1>2. /\ op' \in OpRecords /\ op'.stage = "anchored" /\ op'.action = op.action
        /\ op'.mandate = op.mandate /\ op'.ref = op.ref
    BY <1>1 DEF ReceiveReceipt, OpRecords
  <1>3. UNCHANGED <<storeVars, chainVars, used>>
    BY DEF ReceiveReceipt
  <1>4. OpFits'
    BY <1>1, <1>2, <1>3 DEF ChainInv, OpFits, storeVars, chainVars
  <1>5. QED
    BY <1>2, <1>3, <1>4
    DEF ChainInv, AnchorTypeOK, SentArePending, IssuesSucceed, StoreFits, storeVars, chainVars

\* Mining the next transaction leaves its mandate in the status it asks for:
\* an issue succeeds, and a revocation reverts only where the mandate was
\* revoked before.
LEMMA MineDoes ==
    ASSUME ChainInv, Mine, NEW sent, sent = mempool[1]
    PROVE  /\ sent.mandate \in Mandates /\ sent.mandate \in used /\ sent.action \in Actions
           /\ sent.tx \in 1 .. Len(receipt)
           /\ registry' = [registry EXCEPT ![sent.mandate] = After(sent.action)]
           /\ \E result \in {"succeeded", "reverted"} :
                /\ receipt' = [receipt EXCEPT ![sent.tx] = result]
                /\ sent.action = "issue" => result = "succeeded"
  <1>1. /\ 1 \in 1 .. Len(mempool) /\ Head(mempool) = sent /\ sent \in SentRecords
        /\ registry \in [Mandates -> {"Unissued", "Active", "Revoked"}]
    BY SentTail DEF Mine, ChainInv, AnchorTypeOK
  <1>2. /\ sent.mandate \in Mandates /\ sent.mandate \in used /\ sent.action \in Actions
        /\ sent.tx \in 1 .. Len(receipt)
        /\ sent.action = "issue" => registry[sent.mandate] = "Unissued"
        /\ sent.action = "revoke" => registry[sent.mandate] # "Unissued"
    BY <1>1 DEF ChainInv, IssuesSucceed, SentArePending, SentRecords
  <1>3. CASE Permitted(sent.action, sent.mandate)
    BY <1>1, <1>2, <1>3 DEF Mine
  <1>4. CASE ~ Permitted(sent.action, sent.mandate)
    <2>1. sent.action = "revoke" /\ registry[sent.mandate] = "Revoked"
      BY <1>1, <1>2, <1>4 DEF Permitted, Actions
    <2>2. registry' = [registry EXCEPT ![sent.mandate] = After(sent.action)]
      BY <1>1, <1>2, <1>4, <2>1 DEF Mine, After
    <2>3. receipt' = [receipt EXCEPT ![sent.tx] = "reverted"]
      BY <1>1, <1>4 DEF Mine
    <2>4. QED
      BY <1>2, <2>1, <2>2, <2>3
  <1>5. QED
    BY <1>3, <1>4

LEMMA MineInv == ASSUME ChainInv, Mine PROVE ChainInv'
  <1> DEFINE sent == mempool[1]
             m == sent.mandate
             rest == Tail(mempool)
  <1>1. /\ m \in Mandates /\ m \in used /\ sent.action \in Actions
        /\ sent.tx \in 1 .. Len(receipt)
        /\ registry' = [registry EXCEPT ![m] = After(sent.action)]
    BY MineDoes
  <1>2. PICK result \in {"succeeded", "reverted"} :
          /\ receipt' = [receipt EXCEPT ![sent.tx] = result]
          /\ sent.action = "issue" => result = "succeeded"
    BY MineDoes
  <1>3. /\ mempool' = rest /\ stored' = stored /\ anchor' = anchor /\ op' = op /\ used' = used
        /\ mempool # << >> /\ AnchorTypeOK
    BY DEF Mine, storeVars, ChainInv
  <1>4. /\ 1 \in 1 .. Len(mempool)
        /\ rest \in Seq(SentRecords)
        /\ \A k \in 1 .. Len(rest) :
             k + 1 \in 1 .. Len(mempool) /\ k + 1 # 1 /\ rest[k] = mempool[k + 1]
        /\ \A k \in 1 .. Len(mempool) :
             k = 1 \/ (k - 1 \in 1 .. Len(rest) /\ rest[k - 1] = mempool[k])
    BY <1>3, SentTail
  <1>5. /\ sent.action = "issue" => registry[m] = "Unissued"
        /\ sent.action = "revoke" => registry[m] # "Unissued"
        /\ receipt[sent.tx] = "pending"
    BY <1>4 DEF ChainInv, IssuesSucceed, SentArePending
  <1>6. /\ receipt' \in Seq(Receipts) /\ Len(receipt') = Len(receipt)
        /\ receipt'[sent.tx] = result /\ result # "pending"
        /\ \A t \in 1 .. Len(receipt) : t # sent.tx => receipt'[t] = receipt[t]
    <2>1. receipt \in Seq(Receipts) /\ result \in Receipts
      BY <1>3 DEF AnchorTypeOK, Receipts
    <2>2. QED
      BY <1>1, <1>2, <2>1, ExceptSeq
  <1>7. /\ registry' \in [Mandates -> {"Unissued", "Active", "Revoked"}]
        /\ registry'[m] = After(sent.action)
        /\ \A q \in Mandates \ {m} : registry'[q] = registry[q]
    BY <1>1, <1>3 DEF AnchorTypeOK, After
  <1>8. \A q \in Mandates :
          /\ registry[q] # "Unissued" => registry'[q] # "Unissued"
          /\ registry[q] = "Revoked" => registry'[q] = "Revoked"
    BY <1>1, <1>5, <1>7 DEF After, Actions
  <1> HIDE DEF sent, m, rest
  <1>9. AnchorTypeOK'
    BY <1>3, <1>4, <1>6, <1>7 DEF AnchorTypeOK
  <1>10. SentArePending'
    <2>1. \A k \in 1 .. Len(mempool) : k # 1 => mempool[k].tx # sent.tx
      BY <1>4 DEF ChainInv, SentArePending, sent
    <2>2. ASSUME NEW j \in 1 .. Len(rest), NEW k \in 1 .. Len(rest), rest[j].tx = rest[k].tx
          PROVE  j = k
      <3>1. /\ j + 1 \in 1 .. Len(mempool) /\ k + 1 \in 1 .. Len(mempool)
            /\ mempool[j + 1].tx = mempool[k + 1].tx
        BY <1>4, <2>2
      <3>2. j + 1 = k + 1
        BY <3>1 DEF ChainInv, SentArePending
      <3>3. QED
        BY <3>2
    <2>3. \A k \in 1 .. Len(rest) :
            rest[k].tx \in 1 .. Len(receipt) /\ receipt[rest[k].tx] = "pending"
            /\ rest[k].tx # sent.tx
      BY <1>4, <2>1 DEF ChainInv, SentArePending
    <2>4. QED
      BY <1>3, <1>6, <2>2, <2>3 DEF SentArePending
  <1>11. IssuesSucceed'
    <2>1. \A k \in 1 .. Len(rest) :
            /\ rest[k].mandate \in used
            /\ rest[k].mandate \in Mandates
            /\ rest[k].action = "issue" => registry[rest[k].mandate] = "Unissued"
            /\ rest[k].action = "revoke" => registry[rest[k].mandate] # "Unissued"
            /\ rest[k].action = "issue" /\ sent.action = "issue" => rest[k].mandate # m
      <3>1. used \subseteq Mandates /\ IssuesSucceed
        BY DEF ChainInv, AnchorTypeOK
      <3>2. 1 \in 1 .. Len(mempool)
        BY <1>4
      <3> SUFFICES ASSUME NEW k \in 1 .. Len(rest)
                   PROVE  /\ rest[k].mandate \in used
                          /\ rest[k].action = "issue"
                               => registry[rest[k].mandate] = "Unissued"
                          /\ rest[k].action = "revoke"
                               => registry[rest[k].mandate] # "Unissued"
                          /\ rest[k].action = "issue" /\ sent.action = "issue"
                               => rest[k].mandate # m
        BY <3>1
      <3>3. k + 1 \in 1 .. Len(mempool) /\ k + 1 # 1 /\ rest[k] = mempool[k + 1]
        BY <1>4
      <3> QED
        BY <3>1, <3>2, <3>3 DEF IssuesSucceed, sent, m
    <2>2. ASSUME NEW j \in 1 .. Len(rest), NEW k \in 1 .. Len(rest),
                 rest[j].action = "issue", rest[k].action = "issue",
                 rest[j].mandate = rest[k].mandate
          PROVE  j = k
      <3>1. /\ j + 1 \in 1 .. Len(mempool) /\ k + 1 \in 1 .. Len(mempool)
            /\ mempool[j + 1].action = "issue" /\ mempool[k + 1].action = "issue"
            /\ mempool[j + 1].mandate = mempool[k + 1].mandate
        BY <1>4, <2>2
      <3>2. j + 1 = k + 1
        BY <3>1 DEF ChainInv, IssuesSucceed
      <3>3. QED
        BY <3>2
    <2>3. \A k \in 1 .. Len(rest) :
            rest[k].action = "issue" => registry'[rest[k].mandate] = "Unissued"
      BY <1>1, <1>5, <1>7, <2>1 DEF Actions
    <2>4. \A q \in Mandates : q \notin used => stored[q] = "none" /\ registry'[q] = "Unissued"
      BY <1>1, <1>7 DEF ChainInv, IssuesSucceed
    <2>5. QED
      BY <1>3, <1>8, <2>1, <2>2, <2>3, <2>4 DEF IssuesSucceed
  <1>12. OpFits'
    <2> SUFFICES ASSUME op # NoOp PROVE OpFits'
      BY <1>3 DEF OpFits
    <2>1. /\ op.mandate \in used /\ op.mandate \in Mandates /\ op.action \in Actions
          /\ op.action = "revoke" => stored[op.mandate] = "issued"
      BY <1>3 DEF ChainInv, OpFits, AnchorTypeOK, OpRecords
    <2>2. ASSUME op.stage = "anchor" /\ op.action = "issue"
          PROVE  /\ registry'[op.mandate] = "Unissued"
                 /\ \A k \in 1 .. Len(rest) : rest[k].mandate # op.mandate
      <3>1. /\ registry[op.mandate] = "Unissued"
            /\ \A k \in 1 .. Len(mempool) : mempool[k].mandate # op.mandate
        BY <2>2 DEF ChainInv, OpFits
      <3>2. ASSUME NEW k \in 1 .. Len(rest) PROVE rest[k].mandate # op.mandate
        <4>1. k + 1 \in 1 .. Len(mempool) /\ rest[k] = mempool[k + 1]
          BY <1>4
        <4>2. QED
          BY <3>1, <4>1
      <3>3. m # op.mandate
        BY <1>4, <3>1 DEF sent, m
      <3>4. QED
        BY <1>7, <2>1, <3>1, <3>2, <3>3
    <2>3. ASSUME op.stage \in {"wait", "anchored"}
          PROVE  /\ op.ref \in 1 .. Len(receipt')
                 /\ \A k \in 1 .. Len(rest) :
                      rest[k].tx = op.ref
                        => rest[k].action = op.action /\ rest[k].mandate = op.mandate
                 /\ receipt'[op.ref] = "pending" => \E k \in 1 .. Len(rest) : rest[k].tx = op.ref
                 /\ receipt'[op.ref] # "pending"
                      => IF op.action = "issue"
                           THEN registry'[op.mandate] # "Unissued"
                                /\ receipt'[op.ref] = "succeeded"
                           ELSE registry'[op.mandate] = "Revoked"
      <3>1. /\ op.ref \in 1 .. Len(receipt)
            /\ \A k \in 1 .. Len(mempool) :
                 mempool[k].tx = op.ref
                   => mempool[k].action = op.action /\ mempool[k].mandate = op.mandate
            /\ receipt[op.ref] = "pending" => \E k \in 1 .. Len(mempool) : mempool[k].tx = op.ref
            /\ receipt[op.ref] # "pending"
                 => IF op.action = "issue"
                      THEN registry[op.mandate] # "Unissued" /\ receipt[op.ref] = "succeeded"
                      ELSE registry[op.mandate] = "Revoked"
        BY <2>3 DEF ChainInv, OpFits
      <3>2. \A k \in 1 .. Len(rest) :
              rest[k].tx = op.ref => rest[k].action = op.action /\ rest[k].mandate = op.mandate
        <4> SUFFICES ASSUME NEW k \in 1 .. Len(rest), rest[k].tx = op.ref
                     PROVE  rest[k].action = op.action /\ rest[k].mandate = op.mandate
          OBVIOUS
        <4>1. k + 1 \in 1 .. Len(mempool) /\ rest[k] = mempool[k + 1]
          BY <1>4
        <4>2. QED
          BY <3>1, <4>1
      <3>3. CASE op.ref = sent.tx
        <4>1. sent.action = op.action /\ m = op.mandate
          BY <1>4, <3>1, <3>3 DEF sent, m
        <4>2. QED
          BY <1>2, <1>6, <1>7, <2>1, <3>1, <3>2, <3>3, <4>1 DEF After, Actions
      <3>4. CASE op.ref # sent.tx
        <4>1. receipt'[op.ref] = receipt[op.ref]
          BY <1>6, <3>1, <3>4
        <4>2. receipt[op.ref] = "pending" => \E k \in 1 .. Len(rest) : rest[k].tx = op.ref
          <5>1. SUFFICES ASSUME receipt[op.ref] = "pending"
                         PROVE  \E k \in 1 .. Len(rest) : rest[k].tx = op.ref
            OBVIOUS
          <5>2. PICK k \in 1 .. Len(mempool) : mempool[k].tx = op.ref
            BY <3>1, <5>1
          <5>3. k # 1
            BY <3>4, <5>2 DEF sent
          <5>4. k - 1 \in 1 .. Len(rest) /\ rest[k - 1].tx = op.ref
            BY <1>4, <5>2, <5>3
          <5>5. QED
            BY <5>4
        <4>3. receipt[op.ref] # "pending"
                => IF op.action = "issue"
                     THEN registry'[op.mandate] # "Unissued" /\ receipt[op.ref] = "succeeded"
                     ELSE registry'[op.mandate] = "Revoked"
          BY <1>8, <2>1, <3>1
        <4>4. op.ref \in 1 .. Len(receipt')
          BY <1>6, <3>1
        <4>5. QED
          BY <3>2, <4>1, <4>2, <4>3, <4>4
      <3>5. QED
        BY <3>3, <3>4
    <2>4. op.stage = "anchored" => receipt'[op.ref] # "pending"
      <3>1. SUFFICES ASSUME op.stage = "anchored" PROVE receipt'[op.ref] # "pending"
        OBVIOUS
      <3>2. op.ref \in 1 .. Len(receipt) /\ receipt[op.ref] # "pending"
        BY <3>1 DEF ChainInv, OpFits
      <3>3. QED
        BY <1>6, <3>2
    <2>5. QED
      BY <1>3, <2>1, <2>2, <2>3, <2>4 DEF OpFits
  <1>13. StoreFits'
    <2>1. \A q \in Mandates : stored[q] # "none"
            => /\ anchor[q].issue \in 1 .. Len(receipt)
               /\ receipt[anchor[q].issue] = "succeeded" /\ anchor[q].issue # sent.tx
      BY <1>5 DEF ChainInv, StoreFits
    <2>2. QED
      BY <1>3, <1>6, <1>8, <2>1 DEF ChainInv, StoreFits
  <1>14. QED
    BY <1>9, <1>10, <1>11, <1>12, <1>13 DEF ChainInv

LEMMA AnchorStep == AnchorInv /\ [Next]_anchorVars => AnchorInv'
  <1> SUFFICES ASSUME AnchorInv, [Next]_anchorVars, configured' PROVE ChainInv'
    BY DEF AnchorInv
  <1> USE DEF NoOp
  <1>1. configured' = configured
    BY DEF Next, OpStep, BeginIssue, BeginRevoke, AnchorDemo, Submit, SubmitFails, ReceiveReceipt,
           WaitTimesOut, RejectVendors, Commit, CommitFails, Crash, Mine, anchorVars
  <1>2. configured /\ ChainInv
    BY <1>1 DEF AnchorInv
  <1>3. ASSUME NEW m \in Mandates,
               (\E vendorsOk \in BOOLEAN : BeginIssue(m, vendorsOk)) \/ BeginRevoke(m)
        PROVE  ChainInv'
    BY <1>2, <1>3, BeginInv
  <1>4. CASE AnchorDemo
    BY <1>2, <1>4 DEF AnchorDemo
  <1>5. CASE Submit \/ SubmitFails
    <2>1. op # NoOp /\ op.stage = "anchor" /\ UNCHANGED <<storeVars, used>>
      <3>1. op.stage = "anchor" /\ UNCHANGED <<storeVars, used>>
        BY <1>5 DEF Submit, SubmitFails
      <3>2. QED
        BY <3>1
    <2>2. CASE Throw /\ UNCHANGED chainVars
      BY <1>2, <2>1, <2>2, ThrowInv
    <2>3. CASE Send /\ Throw
      BY <1>2, <2>1, <2>3, SendInv
    <2>4. CASE Send /\ op' = [op EXCEPT !.stage = "wait", !.ref = Len(receipt) + 1]
      BY <1>2, <2>1, <2>4, SendInv
    <2>5. QED
      BY <1>5, <2>2, <2>3, <2>4 DEF Submit, SubmitFails
  <1>6. CASE ReceiveReceipt
    BY <1>2, <1>6, ReceiptInv DEF ReceiveReceipt
  <1>7. CASE WaitTimesOut \/ RejectVendors \/ Crash
    BY <1>2, <1>7, ThrowInv DEF WaitTimesOut, RejectVendors, Crash
  <1>8. CASE Commit \/ CommitFails
    <2>1. op # NoOp /\ op.stage = "anchored" /\ Throw /\ UNCHANGED <<chainVars, used>>
      <3>1. op.stage = "anchored" /\ Throw /\ UNCHANGED <<chainVars, used>>
        BY <1>8 DEF Commit, CommitFails
      <3>2. QED
        BY <3>1
    <2>2. CASE Record
      BY <1>2, <2>1, <2>2, RecordInv
    <2>3. CASE UNCHANGED storeVars
      BY <1>2, <2>1, <2>3, ThrowInv
    <2>4. QED
      BY <1>8, <2>2, <2>3 DEF Commit, CommitFails
  <1>9. CASE Mine
    BY <1>2, <1>9, MineInv
  <1>10. CASE UNCHANGED anchorVars
    <2>1. UNCHANGED <<stored, anchor, registry, mempool, receipt, op, used>>
      BY <1>10 DEF anchorVars, storeVars, chainVars
    <2>2. AnchorTypeOK' /\ SentArePending' /\ IssuesSucceed'
      BY <1>2, <2>1 DEF ChainInv, AnchorTypeOK, SentArePending, IssuesSucceed
    <2>3. OpFits' /\ StoreFits'
      BY <1>2, <2>1 DEF ChainInv, OpFits, StoreFits
    <2>4. QED
      BY <2>2, <2>3 DEF ChainInv
  <1>11. QED
    BY <1>3, <1>4, <1>5, <1>6, <1>7, <1>8, <1>9, <1>10 DEF Next, OpStep

\* The store never calls a mandate issued or revoked that the chain does not,
\* although a reverted transaction is taken for an anchor, an answer of the
\* node or of the database may be lost and the process may stop in between.
THEOREM StoreNeverAheadOfChain == AnswersSpec => []StoreFollowsChain
  <1>1. AnswersInit => AnchorInv
    BY DEF AnswersInit, Init, AnchorInv, ChainInv, AnchorTypeOK, SentArePending, IssuesSucceed,
           OpFits, StoreFits
  <1>2. AnchorInv /\ [AnswersNext]_answerVars => AnchorInv'
    <2>1. [AnswersNext]_answerVars => [Next]_anchorVars
      BY DEF AnswersNext, OnChain, AtVendor, answerVars
    <2>2. QED
      BY <2>1, AnchorStep
  <1>3. AnchorInv => StoreFollowsChain
    BY DEF AnchorInv, ChainInv, StoreFits, StoreFollowsChain
  <1>4. QED
    BY <1>1, <1>2, <1>3, PTL DEF AnswersSpec
=============================================================================
