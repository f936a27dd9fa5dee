----------------------------- MODULE CreditOnce -----------------------------
(***************************************************************************)
(* What the money path promises, with nothing said about how it is kept.   *)
(*                                                                         *)
(* An item is something a user can be charged for: one top-up link, or one *)
(* monthly cycle of a subscription.  Razorpay charges it or does not; the  *)
(* account receives its credits at most once, and only after the charge.   *)
(* "Confirm a payment and credit it AT MOST ONCE" (payments.verify_topup). *)
(* TopUp and Subscription are shown to implement this specification.       *)
(***************************************************************************)
EXTENDS Naturals

CONSTANT Item

VARIABLES
    charged,    \* the items the provider has taken the money for
    credits     \* credits[i]: how many times item i was added to the balance

vars == <<charged, credits>>

Init ==
    /\ charged = {}
    /\ credits = [i \in Item |-> 0]

Charge(i) ==
    /\ i \notin charged
    /\ charged' = charged \union {i}
    /\ UNCHANGED credits

\* A charge may cover several items and a grant may pay several out at once (a
\* subscription credits every cycle it missed in a single write), so a step
\* credits a set of items.
Credit(S) ==
    /\ S \subseteq charged
    /\ \A i \in S : credits[i] = 0
    /\ credits' = [i \in Item |-> IF i \in S THEN 1 ELSE credits[i]]
    /\ UNCHANGED charged

Next ==
    \/ \E i \in Item : Charge(i)
    \/ \E S \in SUBSET Item : S # {} /\ Credit(S)

Spec == Init /\ [][Next]_vars

=============================================================================
