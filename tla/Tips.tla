-------------------------------- MODULE Tips --------------------------------
(***************************************************************************)
(* The tips of the staff, from the payments that bring them to the hands   *)
(* they are given to: payouts from the drawer, tips given back with a      *)
(* cancelled order, and what a close leaves in the drawer for the next     *)
(* shift of the same register (server/internal/app/tips.go, the close of   *)
(* backoffice.go and queries/tips.sql).                                    *)
(*                                                                         *)
(* An order gives back all its tips or none (SplitCancellationRefund), so  *)
(* a refund takes from each of its payments the whole tip.                 *)
(***************************************************************************)
EXTENDS Naturals, Sequences, FiniteSets

CONSTANTS
    Registers,    \* cash registers of the branch
    FirstToSell,  \* the one that sells at first
    Orders,
    Payments,     \* payments with a tip
    OrderOf,      \* the order each is of
    CashPayments, \* those in cash, which enter and leave the drawer
    Tip,          \* their tip_amount
    Tablets,      \* who hands tips out
    MaxShifts     \* bound: shifts opened

ASSUME TipsAssumption ==
    /\ FirstToSell \in Registers
    /\ OrderOf \in [Payments -> Orders]
    /\ CashPayments \subseteq Payments
    /\ Tip \in [Payments -> Nat \ {0}]
    /\ MaxShifts \in Nat

VARIABLES
    sells,   \* the register with is_primary
    regOf,   \* the register of each session opened so far
    last,    \* the last session opened on each register, 0 when none
    stage,   \* where the last session of each register is
    ends,    \* the sessions whose closing transaction has begun, in that order
    fate,    \* "unused", "live" in order_payments, "voided"
    home,    \* the session of each payment
    handed,  \* what was handed out of it
    used,    \* and in which session
    carry,   \* tip_carryovers: what each session left of each payment
    given,   \* "no", "held" by a refund that has not committed, "back"
    after,   \* the sessions whose close had begun when the refund of the order did
    paying   \* the session a payout has read, 0 when none

shiftVars   == <<sells, regOf, last, stage, ends>>
paymentVars == <<fate, home>>
tipVars     == <<handed, used, carry>>
refundVars  == <<given, after>>
vars == <<shiftVars, paymentVars, tipVars, refundVars, paying>>
-----------------------------------------------------------------------------
Shifts == 1..MaxShifts

\* What may be taken of a payment.
Amounts == UNION {0..Tip[p] : p \in Payments}

Latest(S) == IF S = {} THEN 0 ELSE CHOOSE s \in S : \A x \in S : x <= s

\* InheritedTipSources: the session of the same register that opened last before this one.
Prev(s) == Latest({x \in 1..(s - 1) : regOf[x] = regOf[s]})

Minus(a, b) == IF a > b THEN a - b ELSE 0

\* FOR SHARE and FOR UPDATE of the session are granted: it is open and no close holds it.
Free(r) == stage[r] \in {"open", "begun"}

\* Slip: whoever waited for a close does not look whether the session is still open.
SlipIsFree(s) == s # 0 /\ stage[regOf[s]] # "read"

IsFree(s) == s # 0 /\ Free(regOf[s]) /\ last[regOf[s]] = s

\* TipPaymentsForSession and InheritedTipSources.
Own(s) == {p \in Payments : fate[p] = "live" /\ home[p] = s}

Inherited(s) == IF Prev(s) = 0 THEN {} ELSE {p \in Payments : carry[Prev(s)][p] > 0}

\* TipRefundsAfter: given back by a transaction that began after the close of s did.
BackSince(s, p) == given[OrderOf[p]] = "back" /\ s \in after[OrderOf[p]]

\* What session s left of p for the next of its register.
Left(s, p) == IF BackSince(s, p) THEN 0 ELSE carry[s][p]

\* tipSources.
Available(s, p) ==
    IF p \in Inherited(s) THEN Minus(Left(Prev(s), p), used[s][p])
    ELSE IF p \in Own(s) /\ given[OrderOf[p]] # "back" THEN Minus(Tip[p], handed[p])
    ELSE 0

\* The order AllocateTipSources takes them in.
Rank(s, p) == IF p \in Inherited(s) THEN 0 ELSE IF p \in CashPayments THEN 1 ELSE 2

Init ==
    /\ sells = FirstToSell
    /\ regOf = <<>>
    /\ last = [r \in Registers |-> 0]
    /\ stage = [r \in Registers |-> "closed"]
    /\ ends = <<>>
    /\ fate = [p \in Payments |-> "unused"]
    /\ home = [p \in Payments |-> 0]
    /\ handed = [p \in Payments |-> 0]
    /\ used = [s \in Shifts |-> [p \in Payments |-> 0]]
    /\ carry = [s \in Shifts |-> [p \in Payments |-> 0]]
    /\ given = [o \in Orders |-> "no"]
    /\ after = [o \in Orders |-> {}]
    /\ paying = [t \in Tablets |-> 0]
-----------------------------------------------------------------------------
\* A payment with a tip, under the lock of its order and of the open session.
Charge(p) ==
    /\ fate[p] = "unused"
    /\ given[OrderOf[p]] = "no"
    /\ Free(sells)
    /\ fate' = [fate EXCEPT ![p] = "live"]
    /\ home' = [home EXCEPT ![p] = last[sells]]
    /\ UNCHANGED <<shiftVars, tipVars, refundVars, paying>>

\* VoidPayment: only in its shift, and a payment whose tip was handed out is referenced by
\* tip_payout_sources, which restricts its deletion.
VoidPayment(p) ==
    /\ fate[p] = "live"
    /\ given[OrderOf[p]] = "no"
    /\ IsFree(home[p])
    /\ handed[p] = 0
    /\ fate' = [fate EXCEPT ![p] = "voided"]
    /\ UNCHANGED <<shiftVars, home, tipVars, refundVars, paying>>

LivePayments(o) == {p \in Payments : fate[p] = "live" /\ OrderOf[p] = o}

\* The closes that had begun when a refund that is being booked did: all, or all but the last,
\* when it has waited for it.
BegunBefore ==
    {{ends[i] : i \in 1..n} : n \in {Len(ends)} \cup {Minus(Len(ends), 1)}}

\* cancelarEnTx gives the tips back in the open shift.
CancelWithRefund(o, closes) ==
    /\ given[o] = "no" /\ LivePayments(o) # {}
    /\ Free(sells)
    /\ given' = [given EXCEPT ![o] = "back"]
    /\ after' = [after EXCEPT ![o] = closes]
    /\ UNCHANGED <<shiftVars, paymentVars, tipVars, paying>>

\* With no shift open only what is not cash: it keeps its order until it commits.
CancelNoShift(o, closes) ==
    /\ given[o] = "no" /\ LivePayments(o) # {}
    /\ LivePayments(o) \cap CashPayments = {}
    /\ stage[sells] = "closed"
    /\ given' = [given EXCEPT ![o] = "held"]
    /\ after' = [after EXCEPT ![o] = closes]
    /\ UNCHANGED <<shiftVars, paymentVars, tipVars, paying>>

EndNoShift(o, commits) ==
    /\ given[o] = "held"
    /\ given' = [given EXCEPT ![o] = IF commits THEN "back" ELSE "no"]
    /\ after' = [after EXCEPT ![o] = IF commits THEN @ ELSE {}]
    /\ UNCHANGED <<shiftVars, paymentVars, tipVars, paying>>
-----------------------------------------------------------------------------
\* Payout reads the open session of its register.
PayoutRead(t, r) ==
    /\ paying[t] = 0
    /\ stage[r] # "closed"
    /\ paying' = [paying EXCEPT ![t] = last[r]]
    /\ UNCHANGED <<shiftVars, paymentVars, tipVars, refundVars>>

\* Something of what is available of each payment.
Takes(available) ==
    {take \in [Payments -> Amounts] :
        /\ \A p \in Payments : take[p] <= available[p]
        /\ \E p \in Payments : take[p] > 0}

\* LockSessionForTips, the sources, and one movement for each person: what they add up to is
\* taken from the sources in order.
PayoutCommit(t) ==
    LET s == paying[t]
        available == [p \in Payments |-> Available(s, p)]
    IN  /\ IsFree(s)
        /\ \E take \in Takes(available) :
              /\ \A p, q \in Payments :
                    take[q] > 0 /\ Rank(s, p) < Rank(s, q) => take[p] = available[p]
              /\ handed' = [p \in Payments |-> handed[p] + take[p]]
              /\ used' = [used EXCEPT ![s] = [p \in Payments |-> @[p] + take[p]]]
        /\ paying' = [paying EXCEPT ![t] = 0]
        /\ UNCHANGED <<shiftVars, paymentVars, carry, refundVars>>

\* Refused, because the session was closed or there is not so much, or failed.
PayoutRollback(t) ==
    /\ paying[t] # 0
    /\ paying' = [paying EXCEPT ![t] = 0]
    /\ UNCHANGED <<shiftVars, paymentVars, tipVars, refundVars>>
-----------------------------------------------------------------------------
OpenSession(r) ==
    /\ stage[r] = "closed"
    /\ Len(regOf) < MaxShifts
    /\ regOf' = Append(regOf, r)
    /\ last' = [last EXCEPT ![r] = Len(regOf) + 1]
    /\ stage' = [stage EXCEPT ![r] = "open"]
    /\ UNCHANGED <<sells, ends, paymentVars, tipVars, refundVars, paying>>

MoveSales(r) ==
    /\ r # sells
    /\ stage[r] = "closed" /\ stage[sells] = "closed"
    /\ sells' = r
    /\ UNCHANGED <<regOf, last, stage, ends, paymentVars, tipVars, refundVars, paying>>

\* The transaction of CloseSession begins: that moment will be its closed_at.
CloseBegin(r) ==
    /\ stage[r] = "open"
    /\ stage' = [stage EXCEPT ![r] = "begun"]
    /\ ends' = Append(ends, last[r])
    /\ UNCHANGED <<sells, regOf, last, paymentVars, tipVars, refundVars, paying>>

\* carryOver: what is left of each payment, when the tips stay in the drawer.
CarryOver(s, p) == Available(s, p)

\* LockSessionForClose, the checks and the sources: what holds the session has ended, and what
\* does not need it might as well have committed before the lock.
CloseTips(r) ==
    /\ stage[r] = "begun"
    /\ stage' = [stage EXCEPT ![r] = "read"]
    /\ carry' = [carry EXCEPT ![last[r]] = [p \in Payments |-> CarryOver(last[r], p)]]
    /\ UNCHANGED <<sells, regOf, last, ends, paymentVars, handed, used, refundVars, paying>>

CloseCommit(r) ==
    /\ stage[r] = "read"
    /\ stage' = [stage EXCEPT ![r] = "closed"]
    /\ UNCHANGED <<sells, regOf, last, ends, paymentVars, tipVars, refundVars, paying>>

\* Refused, for one because somebody has to decide what to do with the tips, or failed.
CloseRollback(r) ==
    /\ stage[r] \in {"begun", "read"}
    /\ stage' = [stage EXCEPT ![r] = "open"]
    /\ ends' = SelectSeq(ends, LAMBDA s : s # last[r])
    /\ after' = [o \in Orders |-> after[o] \ {last[r]}]
    /\ carry' = [carry EXCEPT ![last[r]] = [p \in Payments |-> 0]]
    /\ UNCHANGED <<sells, regOf, last, paymentVars, handed, used, given, paying>>
-----------------------------------------------------------------------------
Next ==
    \/ \E p \in Payments : Charge(p) \/ VoidPayment(p)
    \/ \E o \in Orders :
        \/ \E closes \in BegunBefore : CancelWithRefund(o, closes) \/ CancelNoShift(o, closes)
        \/ \E commits \in BOOLEAN : EndNoShift(o, commits)
    \/ \E t \in Tablets :
        \/ \E r \in Registers : PayoutRead(t, r)
        \/ PayoutCommit(t) \/ PayoutRollback(t)
    \/ \E r \in Registers :
        \/ OpenSession(r) \/ MoveSales(r)
        \/ CloseBegin(r) \/ CloseTips(r) \/ CloseCommit(r) \/ CloseRollback(r)

Spec == Init /\ [][Next]_vars
-----------------------------------------------------------------------------
TypeOK ==
    /\ sells \in Registers
    /\ regOf \in Seq(Registers) /\ Len(regOf) <= MaxShifts
    /\ last \in [Registers -> 0..Len(regOf)]
    /\ stage \in [Registers -> {"closed", "open", "begun", "read"}]
    /\ ends \in Seq(DOMAIN regOf)
    /\ fate \in [Payments -> {"unused", "live", "voided"}]
    /\ home \in [Payments -> 0..Len(regOf)]
    /\ \A p \in Payments : handed[p] \in 0..Tip[p]
    /\ \A s \in Shifts, p \in Payments : used[s][p] \in 0..Tip[p] /\ carry[s][p] \in 0..Tip[p]
    /\ given \in [Orders -> {"no", "held", "back"}]
    /\ after \in [Orders -> SUBSET (DOMAIN regOf)]
    /\ paying \in [Tablets -> 0..Len(regOf)]

\* What of p waits to be handed out in the drawer of r, by its open session or by the next.
WaitsIn(r, p) ==
    IF last[r] = 0 THEN 0
    ELSE IF stage[r] = "closed" THEN Left(last[r], p)
    ELSE Available(last[r], p)

\* The register p waits in is the one that sold it.
Waits(p) == WaitsIn(regOf[home[p]], p)

\* The refund of the order of p began after every close that left something of it.  One that
\* began before such a close, and waited for it, is older than it: TipRefundsAfter misses it.
InTime(p) == \A s \in DOMAIN regOf : carry[s][p] > 0 => s \in after[OrderOf[p]]

\* A tip is handed out once or waits for it in the drawer that took it, whatever payouts, voids,
\* closes and openings cross: no peso of it is handed out twice, lost at a close or inherited by
\* another register.  Once given back nothing of it waits any more, and that of a voided
\* payment was never handed out (LockSessionForTips, tipSources, carryOver).
TipsConserved ==
    \A p \in Payments :
        CASE fate[p] = "unused" -> handed[p] = 0
          [] fate[p] = "voided" -> handed[p] = 0 /\ \A r \in Registers : WaitsIn(r, p) = 0
          [] OTHER ->
                /\ \A r \in Registers \ {regOf[home[p]]} : WaitsIn(r, p) = 0
                /\ handed[p] + Waits(p) <= Tip[p]
                /\ given[OrderOf[p]] # "back" => handed[p] + Waits(p) = Tip[p]
                /\ given[OrderOf[p]] = "back" /\ InTime(p) => Waits(p) = 0
=============================================================================
