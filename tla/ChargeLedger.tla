---------------------------- MODULE ChargeLedger ----------------------------
(***************************************************************************)
(* What the payments of the orders promise to who pays and to who counts   *)
(* the money, with no status, line, shift or lock: a charge key buys one   *)
(* payment and no more, a payment can be undone once, and a method never   *)
(* gives back more of an order than it still holds of it.                  *)
(***************************************************************************)
EXTENDS Integers

CONSTANTS Keys, Orders, Methods, NoEntry,
          MaxAmount  \* bound: largest amount collected at once

VARIABLES fate,       \* of each key: "unused", "live" or "voided"
          entry,      \* what it bought
          collected,  \* money of an order held by method, voided payments out
          returned    \* money of an order given back by method

vars == <<fate, entry, collected, returned>>

Init ==
    /\ fate = [k \in Keys |-> "unused"]
    /\ entry = [k \in Keys |-> NoEntry]
    /\ collected = [o \in Orders |-> [m \in Methods |-> 0]]
    /\ returned = [o \in Orders |-> [m \in Methods |-> 0]]

\* A key that bought nothing buys a payment.
Collect(k, o, m, amount) ==
    /\ fate[k] = "unused"
    /\ fate' = [fate EXCEPT ![k] = "live"]
    /\ entry' = [entry EXCEPT ![k] = [order |-> o, method |-> m, amount |-> amount]]
    /\ collected' = [collected EXCEPT ![o][m] = @ + amount]
    /\ UNCHANGED returned

\* A payment is undone for good, if what its method gave back stays covered.
Void(k) ==
    /\ fate[k] = "live"
    /\ LET e == entry[k] IN
       /\ returned[e.order][e.method] <= collected[e.order][e.method] - e.amount
       /\ collected' = [collected EXCEPT ![e.order][e.method] = @ - e.amount]
    /\ fate' = [fate EXCEPT ![k] = "voided"]
    /\ UNCHANGED <<entry, returned>>

\* Money of one order goes back, from what each method still holds of it.
GiveBack(o) ==
    /\ returned' \in [Orders -> [Methods -> Nat]]
    /\ \A p \in Orders \ {o} : returned'[p] = returned[p]
    /\ \A m \in Methods : returned'[o][m] \in returned[o][m] .. collected[o][m]
    /\ UNCHANGED <<fate, entry, collected>>

Next ==
    \/ \E k \in Keys, o \in Orders, m \in Methods, amount \in 1..MaxAmount : Collect(k, o, m, amount)
    \/ \E k \in Keys : Void(k)
    \/ \E o \in Orders : GiveBack(o)

Spec == Init /\ [][Next]_vars
=============================================================================
