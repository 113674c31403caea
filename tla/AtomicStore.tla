----------------------------- MODULE AtomicStore -----------------------------
(***************************************************************************)
(* What withStoreLock promises its callers: their callbacks run one at a   *)
(* time, each on the store that the one before it left, and a caller that  *)
(* is told of success has its result stored.  MandateLedger and the        *)
(* modules above it rely on this and make a callback one action.  A call   *)
(* that fails usually has no effect; it has one if the answer to its       *)
(* commit is lost.                                                         *)
(*                                                                         *)
(* This module is the contract of the two stores, not a translation.       *)
(***************************************************************************)
CONSTANTS
    Calls,             \* calls of withStoreLock
    Seed,              \* the store at first
    Throws(_, _),      \* whether the callback of a call throws on a store
    Result(_, _)       \* the store that the callback of a call makes of one

VARIABLES
    stored,            \* the store
    applied,           \* the calls whose callback is in the store
    answer             \* what each caller has been told

vars == <<stored, applied, answer>>

Init ==
    /\ stored = Seed
    /\ applied = {}
    /\ answer = [call \in Calls |-> "none"]

Apply(call) ==
    /\ call \notin applied
    /\ answer[call] = "none"
    /\ ~ Throws(call, stored)
    /\ stored' = Result(call, stored)
    /\ applied' = applied \cup {call}

Tell(call, what) ==
    /\ answer[call] = "none"
    /\ answer' = [answer EXCEPT ![call] = what]

Succeed(call) ==
    \/ Apply(call) /\ Tell(call, "returned")
    \/ call \in applied /\ Tell(call, "returned") /\ UNCHANGED <<stored, applied>>

Fail(call) ==
    /\ Tell(call, "failed")
    /\ UNCHANGED <<stored, applied>>

ApplyUntold(call) == Apply(call) /\ UNCHANGED answer

Next == \E call \in Calls : Succeed(call) \/ Fail(call) \/ ApplyUntold(call)

Spec == Init /\ [][Next]_vars
=============================================================================
