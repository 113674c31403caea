--------------------------- MODULE PaymentLedger ---------------------------
(***************************************************************************)
(* What the runtime promises about money, without workers, queues, leases  *)
(* or vendors: an authority (a mandate) is opened with a limit and may be  *)
(* closed for good; a payment holds a part of the limit of an open         *)
(* authority, once, and the hold ends in exactly one of two ways: it is    *)
(* settled for at most the held amount, or returned in full.  A payment    *)
(* that is denied never holds anything.                                    *)
(***************************************************************************)
EXTENDS Integers

CONSTANTS Authorities, Payments, Limits

VARIABLES authority,    \* per authority: unopened, open or closed
          limit,        \* per authority: the most that may ever be spent
          held,         \* per authority: the amount on hold
          spent,        \* per authority: the amount settled so far
          payment       \* per payment: none, denied, held, settled, returned

ledger == <<authority, limit, held, spent, payment>>

Init ==
    /\ authority = [m \in Authorities |-> "unopened"]
    /\ limit = [m \in Authorities |-> 0]
    /\ held = [m \in Authorities |-> 0]
    /\ spent = [m \in Authorities |-> 0]
    /\ payment = [a \in Payments |-> "none"]

Open(m) ==
    /\ authority[m] = "unopened"
    /\ \E cap \in Limits : limit' = [limit EXCEPT ![m] = cap]
    /\ authority' = [authority EXCEPT ![m] = "open"]
    /\ UNCHANGED <<held, spent, payment>>

\* Closing does not touch a hold: what was promised is still settled or returned.
Close(m) ==
    /\ authority[m] = "open"
    /\ authority' = [authority EXCEPT ![m] = "closed"]
    /\ UNCHANGED <<limit, held, spent, payment>>

\* A denial may discover that the authority has run out and close it.
Deny(a) ==
    /\ payment[a] = "none"
    /\ payment' = [payment EXCEPT ![a] = "denied"]
    /\ \/ UNCHANGED authority
       \/ \E m \in Authorities :
            /\ authority[m] = "open"
            /\ authority' = [authority EXCEPT ![m] = "closed"]
    /\ UNCHANGED <<limit, held, spent>>

Hold(a, m) ==
    /\ payment[a] = "none"
    /\ authority[m] = "open"
    /\ held[m] = 0
    /\ \E amount \in 1 .. (limit[m] - spent[m]) :
         held' = [held EXCEPT ![m] = amount]
    /\ payment' = [payment EXCEPT ![a] = "held"]
    /\ UNCHANGED <<authority, limit, spent>>

Settle(a, m) ==
    /\ payment[a] = "held"
    /\ held[m] > 0
    /\ \E final \in 0 .. held[m] :
         spent' = [spent EXCEPT ![m] = spent[m] + final]
    /\ held' = [held EXCEPT ![m] = 0]
    /\ payment' = [payment EXCEPT ![a] = "settled"]
    /\ UNCHANGED <<authority, limit>>

Return(a, m) ==
    /\ payment[a] = "held"
    /\ held[m] > 0
    /\ held' = [held EXCEPT ![m] = 0]
    /\ payment' = [payment EXCEPT ![a] = "returned"]
    /\ UNCHANGED <<authority, limit, spent>>

Next ==
    \/ \E m \in Authorities : Open(m) \/ Close(m)
    \/ \E a \in Payments :
         \/ Deny(a)
         \/ \E m \in Authorities : Hold(a, m) \/ Settle(a, m) \/ Return(a, m)

Spec == Init /\ [][Next]_ledger
=============================================================================
