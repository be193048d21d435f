------------------------------ MODULE TipsProofs ------------------------------
(***************************************************************************)
(* Theorem about Tips, for every value of its constants: each peso of a    *)
(* tip is handed out once, given back or waits in the register that took   *)
(* it.  The sessions of a register are a chain, and what is left of a      *)
(* payment is always in the last one of its own.                           *)
(***************************************************************************)
EXTENDS Tips, SequenceTheorems, TLAPS

Stages == {"closed", "open", "begun", "read"}

\* The types the proof needs.
Typed ==
    /\ sells \in Registers
    /\ regOf \in Seq(Registers) /\ Len(regOf) <= MaxShifts
    /\ last \in [Registers -> Nat]
    /\ stage \in [Registers -> Stages]
    /\ fate \in [Payments -> {"unused", "live", "voided"}]
    /\ home \in [Payments -> Nat]
    /\ handed \in [Payments -> Nat]
    /\ used \in [Shifts -> [Payments -> Nat]]
    /\ carry \in [Shifts -> [Payments -> Nat]]
    /\ given \in [Orders -> {"no", "held", "back"}]
    /\ paying \in [Tablets -> 0..Len(regOf)]

\* The session the last one of a register inherits from.
Before(r) == Prev(last[r])

\* The sessions of each register, in the order they opened; who is open is the last.
Chain ==
    /\ \A r \in Registers : last[r] # 0 => last[r] \in 1..Len(regOf) /\ regOf[last[r]] = r
    /\ \A s \in 1..Len(regOf) : s <= last[regOf[s]]
    /\ \A r \in Registers : stage[r] # "closed" => last[r] # 0
    /\ \A r \in Registers : last[r] # 0 => Before(r) \in 0..(last[r] - 1) /\ (Before(r) # 0 => regOf[Before(r)] = r)

\* A session leaves tips of its register, of payments that stand and are not later, once it has
\* counted them; and the sessions to come have used nothing.
CarryFits ==
    /\ \A s \in Shifts, p \in Payments : carry[s][p] > 0 =>
          fate[p] = "live" /\ s <= Len(regOf) /\ home[p] <= s /\ regOf[s] = regOf[home[p]]
    /\ \A r \in Registers : stage[r] \in {"open", "begun"} => \A p \in Payments : carry[last[r]][p] = 0
    /\ \A s \in Shifts : s > Len(regOf) => \A p \in Payments : used[s][p] = 0
    /\ \A p \in Payments : fate[p] # "live" => handed[p] = 0

\* What the last session of a register inherited of a payment.
From(r, p) == IF Before(r) = 0 THEN 0 ELSE carry[Before(r)][p]

\* What is left of a payment in the last session of its register, had nobody given it back.
LeftNow(r, p) ==
    IF From(r, p) > 0 THEN Minus(From(r, p), used[last[r]][p])
    ELSE IF home[p] = last[r] THEN Minus(Tip[p], handed[p]) ELSE 0

Back(p) == given[OrderOf[p]] = "back"

\* An amount that with what was handed out is the tip, or is no more once it was given back.
Completes(p, amount) == handed[p] + amount <= Tip[p] /\ (~Back(p) => handed[p] + amount = Tip[p])

\* What is left of a payment, in the session or where it left it.
LiveFits(p) ==
    fate[p] = "live" =>
        /\ home[p] \in 1..Len(regOf)
        /\ stage[regOf[home[p]]] \in {"closed", "read"} => Completes(p, carry[last[regOf[home[p]]]][p])
        /\ stage[regOf[home[p]]] # "closed" => Completes(p, LeftNow(regOf[home[p]], p))

TipsInv == Typed /\ Chain /\ CarryFits /\ \A p \in Payments : LiveFits(p)
-----------------------------------------------------------------------------
\* The greatest of a set is the latest.
LEMMA LatestIs ==
    ASSUME NEW S \in SUBSET Nat, NEW m \in S, \A x \in S : x <= m
    PROVE  Latest(S) = m
  <1>1. \A y \in S : (\A x \in S : x <= y) => y = m
    BY SMT
  <1> QED  BY <1>1 DEF Latest

\* It holds at first.
LEMMA TipsInitially == Init => TipsInv
  <1> SUFFICES ASSUME Init PROVE TipsInv
    OBVIOUS
  <1>1. regOf = <<>> /\ regOf \in Seq(Registers) /\ Len(regOf) = 0
    BY DEF Init
  <1>2. Typed
    BY <1>1, TipsAssumption DEF Init, Typed, Stages
  <1>3. Chain
    BY <1>1 DEF Init, Chain
  <1>4. CarryFits
    BY DEF Init, CarryFits
  <1>5. \A p \in Payments : LiveFits(p)
    BY DEF Init, LiveFits
  <1> QED  BY <1>2, <1>3, <1>4, <1>5 DEF TipsInv

\* The last session of a register that has one.
LEMMA LastIs ==
    ASSUME TipsInv, NEW r \in Registers, last[r] # 0
    PROVE  /\ last[r] \in 1..Len(regOf) /\ last[r] \in Shifts /\ regOf[last[r]] = r
           /\ Before(r) \in 0..(last[r] - 1)
           /\ Before(r) # 0 => Before(r) \in Shifts /\ regOf[Before(r)] = r
  <1>1. /\ last[r] \in 1..Len(regOf) /\ regOf[last[r]] = r /\ Before(r) \in 0..(last[r] - 1)
        /\ Before(r) # 0 => regOf[Before(r)] = r
    BY DEF TipsInv, Chain
  <1>2. Len(regOf) \in Nat /\ Len(regOf) <= MaxShifts /\ MaxShifts \in Nat
    BY TipsAssumption DEF TipsInv, Typed
  <1> QED  BY <1>1, <1>2 DEF Shifts

\* The register of a payment that stands.
LEMMA HomeIs ==
    ASSUME TipsInv, NEW p \in Payments, fate[p] = "live"
    PROVE  /\ regOf[home[p]] \in Registers /\ home[p] \in 1..Len(regOf)
           /\ home[p] <= last[regOf[home[p]]] /\ last[regOf[home[p]]] # 0
  <1>1. home[p] \in 1..Len(regOf) /\ regOf \in Seq(Registers)
    BY DEF TipsInv, LiveFits, Typed
  <1>2. regOf[home[p]] \in Registers /\ home[p] <= last[regOf[home[p]]]
    BY <1>1 DEF TipsInv, Chain
  <1>3. last[regOf[home[p]]] \in Nat
    BY <1>2 DEF TipsInv, Typed
  <1> QED  BY <1>1, <1>2, <1>3

\* What may be handed out of a payment in an open session: what is left of those of its register,
\* unless it was given back, and nothing of the others.
LEMMA AvailableIs ==
    ASSUME TipsInv, NEW r \in Registers, last[r] # 0, NEW p \in Payments
    PROVE  /\ Available(last[r], p) \in Nat
           /\ fate[p] = "live" /\ regOf[home[p]] = r =>
                 /\ Available(last[r], p) <= LeftNow(r, p)
                 /\ ~Back(p) => Available(last[r], p) = LeftNow(r, p)
           /\ ~(fate[p] = "live" /\ regOf[home[p]] = r) => Available(last[r], p) = 0 /\ From(r, p) = 0
  <1> DEFINE s == last[r]
             b == Before(r)
  <1>1. /\ s \in Shifts /\ s # 0 /\ regOf[s] = r /\ b \in Nat /\ (b # 0 => b \in Shifts /\ regOf[b] = r)
    BY LastIs
  <1>2. /\ used[s][p] \in Nat /\ Tip[p] \in Nat /\ handed[p] \in Nat /\ (b # 0 => carry[b][p] \in Nat)
        /\ From(r, p) \in Nat
    BY <1>1, TipsAssumption DEF TipsInv, Typed, From
  <1>3. p \in Inherited(s) <=> From(r, p) > 0
    BY <1>1, <1>2 DEF Inherited, From, Before
  <1>4. p \in Own(s) <=> fate[p] = "live" /\ home[p] = s
    BY DEF Own
  <1>5. From(r, p) > 0 => /\ fate[p] = "live" /\ regOf[home[p]] = r
                          /\ Left(b, p) \in {0, From(r, p)} /\ (~Back(p) => Left(b, p) = From(r, p))
    BY <1>1, <1>2 DEF From, TipsInv, CarryFits, Left, BackSince, Back
  <1>6. Available(s, p) =
           IF From(r, p) > 0 THEN Minus(Left(b, p), used[s][p])
           ELSE IF fate[p] = "live" /\ home[p] = s
                THEN (IF Back(p) THEN 0 ELSE Minus(Tip[p], handed[p])) ELSE 0
    BY <1>3, <1>4 DEF Available, Before, Back
  <1>7. LeftNow(r, p) =
           IF From(r, p) > 0 THEN Minus(From(r, p), used[s][p])
           ELSE IF home[p] = s THEN Minus(Tip[p], handed[p]) ELSE 0
    BY DEF LeftNow
  <1>8. home[p] = s => regOf[home[p]] = r
    BY <1>1
  <1>9. From(r, p) = 0 \/ From(r, p) > 0
    BY <1>2
  <1> HIDE DEF s, b
  <1>10. CASE From(r, p) > 0
    BY <1>2, <1>5, <1>6, <1>7, <1>10 DEF Minus, s, b
  <1>11. CASE From(r, p) = 0
    BY <1>2, <1>6, <1>7, <1>8, <1>11 DEF Minus, s
  <1> QED  BY <1>9, <1>10, <1>11

\* The property follows: what waits is what is left.
LEMMA ConservedThen == TipsInv => TipsConserved
  <1> SUFFICES ASSUME TipsInv, NEW p \in Payments
               PROVE  CASE fate[p] = "unused" -> handed[p] = 0
                        [] fate[p] = "voided" -> handed[p] = 0 /\ \A r \in Registers : WaitsIn(r, p) = 0
                        [] OTHER ->
                              /\ \A r \in Registers \ {regOf[home[p]]} : WaitsIn(r, p) = 0
                              /\ handed[p] + Waits(p) <= Tip[p]
                              /\ given[OrderOf[p]] # "back" => handed[p] + Waits(p) = Tip[p]
                              /\ given[OrderOf[p]] = "back" /\ InTime(p) => Waits(p) = 0
    BY DEF TipsConserved
  <1>1. ASSUME NEW r \in Registers, ~(fate[p] = "live" /\ regOf[home[p]] = r)
        PROVE  WaitsIn(r, p) = 0
    <2>1. CASE last[r] = 0
      BY <2>1 DEF WaitsIn
    <2>2. CASE last[r] # 0 /\ stage[r] = "closed"
      <3>1. last[r] \in Shifts /\ regOf[last[r]] = r
        BY <2>2, LastIs
      <3>2. carry[last[r]][p] \in Nat /\ ~(carry[last[r]][p] > 0)
        BY <1>1, <3>1 DEF TipsInv, Typed, CarryFits
      <3>3. carry[last[r]][p] = 0
        BY <3>2
      <3> QED  BY <2>2, <3>3 DEF WaitsIn, Left
    <2>3. CASE last[r] # 0 /\ stage[r] # "closed"
      BY <1>1, <2>3, AvailableIs DEF WaitsIn
    <2> QED  BY <2>1, <2>2, <2>3
  <1>2. CASE fate[p] # "live"
    <2>1. handed[p] = 0 /\ fate[p] \in {"unused", "voided"}
      BY <1>2 DEF TipsInv, CarryFits, Typed
    <2> QED  BY <1>1, <1>2, <2>1
  <1>3. CASE fate[p] = "live"
    <2> DEFINE r == regOf[home[p]]
    <2>1. r \in Registers /\ last[r] # 0
      BY <1>3, HomeIs
    <2>2. /\ last[r] \in Shifts /\ last[r] \in 1..Len(regOf) /\ Before(r) \in Nat
          /\ Before(r) # 0 => Before(r) \in Shifts
      BY <2>1, LastIs
    <2>3. /\ stage[r] \in {"closed", "read"} => Completes(p, carry[last[r]][p])
          /\ stage[r] # "closed" => Completes(p, LeftNow(r, p))
      BY <1>3 DEF TipsInv, LiveFits
    <2>4. Waits(p) = WaitsIn(r, p)
      BY DEF Waits
    <2>5. handed[p] \in Nat /\ Tip[p] \in Nat /\ carry[last[r]][p] \in Nat
      BY <2>2, TipsAssumption DEF TipsInv, Typed
    <2>6. \A q \in Registers \ {r} : WaitsIn(q, p) = 0
      BY <1>1
    <2>7. CASE stage[r] = "closed"
      <3>1. Waits(p) = IF BackSince(last[r], p) THEN 0 ELSE carry[last[r]][p]
        BY <2>1, <2>4, <2>7 DEF WaitsIn, Left
      <3>2. Completes(p, carry[last[r]][p])
        BY <2>3, <2>7
      <3>3. ~Back(p) => ~BackSince(last[r], p)
        BY DEF Back, BackSince
      <3>4. Back(p) /\ InTime(p) => BackSince(last[r], p) \/ carry[last[r]][p] = 0
        <4>1. last[r] \in DOMAIN regOf
          BY <2>2 DEF TipsInv, Typed
        <4> QED  BY <2>5, <4>1 DEF Back, InTime, BackSince
      <3> HIDE DEF r
      <3> QED  BY <1>3, <2>5, <2>6, <3>1, <3>2, <3>3, <3>4 DEF Completes, Back, r
    <2>8. CASE stage[r] # "closed"
      <3>1. Waits(p) = Available(last[r], p)
        BY <2>1, <2>4, <2>8 DEF WaitsIn
      <3>2. /\ Available(last[r], p) \in Nat /\ Available(last[r], p) <= LeftNow(r, p)
            /\ ~Back(p) => Available(last[r], p) = LeftNow(r, p)
        BY <1>3, <2>1, AvailableIs
      <3>3. Completes(p, LeftNow(r, p))
        BY <2>3, <2>8
      <3>4. Back(p) /\ InTime(p) => Available(last[r], p) = 0
        <4> SUFFICES ASSUME Back(p), InTime(p) PROVE Available(last[r], p) = 0
          OBVIOUS
        <4>1. CASE p \in Inherited(last[r])
          <5>1. Before(r) # 0 /\ carry[Before(r)][p] > 0 /\ Before(r) \in DOMAIN regOf
            <6>1. Before(r) # 0 /\ carry[Before(r)][p] > 0
              BY <4>1 DEF Inherited, Before
            <6>2. Before(r) <= Len(regOf)
              BY <2>2, <6>1 DEF TipsInv, CarryFits
            <6> QED  BY <2>2, <6>1, <6>2 DEF TipsInv, Typed
          <5>2. Left(Before(r), p) = 0
            BY <5>1 DEF InTime, Left, BackSince, Back
          <5>3. used[last[r]][p] \in Nat
            BY <2>2 DEF TipsInv, Typed
          <5> QED  BY <4>1, <5>2, <5>3 DEF Available, Before, Minus
        <4>2. CASE p \notin Inherited(last[r])
          BY <4>2 DEF Available, Back
        <4> QED  BY <4>1, <4>2
      <3>5. LeftNow(r, p) \in Nat
        BY <2>2, <2>5 DEF LeftNow, From, Minus, TipsInv, Typed
      <3> HIDE DEF r
      <3> QED  BY <1>3, <2>5, <2>6, <3>1, <3>2, <3>3, <3>4, <3>5 DEF Completes, Back, r
    <2> QED  BY <2>7, <2>8
  <1> QED  BY <1>2, <1>3
-----------------------------------------------------------------------------
\* While no session opens the chain stays, if who is open stays so.
LEMMA ChainStays ==
    ASSUME TipsInv, regOf' = regOf, last' = last,
           \A r \in Registers : stage'[r] # "closed" => stage[r] # "closed"
    PROVE  Chain' /\ \A r \in Registers : Before(r)' = Before(r)
  <1>1. \A r \in Registers : Before(r)' = Before(r)
    BY DEF Before, Prev
  <1>2. Chain'
    BY <1>1 DEF TipsInv, Chain
  <1> QED  BY <1>1, <1>2

\* While nothing of a payment moves what is left of it stays, and a tip given back stays so.
LEMMA LiveStays ==
    ASSUME TipsInv, NEW p \in Payments,
           regOf' = regOf, last' = last, stage' = stage, carry' = carry, used' = used,
           home'[p] = home[p], handed'[p] = handed[p], fate'[p] = "live" => fate[p] = "live",
           Back(p) => Back(p)'
    PROVE  LiveFits(p)'
  <1>1. \A r \in Registers : Before(r)' = Before(r)
    BY ChainStays
  <1>2. \A r \in Registers : LeftNow(r, p)' = LeftNow(r, p)
    BY <1>1 DEF LeftNow, From
  <1>3. \A n : Completes(p, n) => Completes(p, n)'
    BY DEF Completes
  <1> SUFFICES ASSUME fate'[p] = "live" PROVE LiveFits(p)'
    BY DEF LiveFits
  <1>4. fate[p] = "live" /\ LiveFits(p) /\ regOf[home[p]] \in Registers
    BY HomeIs DEF TipsInv
  <1> QED  BY <1>2, <1>3, <1>4 DEF LiveFits

\* Refunds, payouts that read and closes that begin move no tip.
LEMMA RefundKeeps ==
    ASSUME TipsInv, UNCHANGED <<shiftVars, paymentVars, tipVars>>, paying' \in [Tablets -> 0..Len(regOf)],
           given' \in [Orders -> {"no", "held", "back"}],
           \A o \in Orders : given[o] = "back" => given'[o] = "back"
    PROVE  TipsInv'
  <1> USE DEF shiftVars, paymentVars, tipVars
  <1>1. Typed'
    BY DEF TipsInv, Typed
  <1>2. Chain'
    BY ChainStays
  <1>3. CarryFits'
    BY DEF TipsInv, CarryFits
  <1>4. ASSUME NEW p \in Payments PROVE LiveFits(p)'
    <2>1. Back(p) => Back(p)'
      BY TipsAssumption DEF Back
    <2> QED  BY <2>1, LiveStays
  <1> QED  BY <1>1, <1>2, <1>3, <1>4 DEF TipsInv

\* The stage of a register that does not decide what is left moves none either: sales are moved,
\* a close begins, or commits.
LEMMA StageKeeps ==
    ASSUME TipsInv, UNCHANGED <<regOf, last, paymentVars, tipVars, given, paying>>,
           sells' \in Registers, stage' \in [Registers -> Stages],
           \A r \in Registers : stage'[r] = stage[r] \/ <<stage[r], stage'[r]>> \in {<<"open", "begun">>, <<"read", "closed">>}
    PROVE  TipsInv'
  <1> USE DEF paymentVars, tipVars
  <1>1. Typed'
    BY DEF TipsInv, Typed
  <1>2. Chain' /\ \A r \in Registers : Before(r)' = Before(r)
    BY ChainStays
  <1>3. CarryFits'
    BY DEF TipsInv, CarryFits
  <1>4. ASSUME NEW p \in Payments, fate[p] = "live" PROVE LiveFits(p)'
    <2>1. regOf[home[p]] \in Registers /\ LiveFits(p)
      BY <1>4, HomeIs DEF TipsInv
    <2>2. LeftNow(regOf[home[p]], p)' = LeftNow(regOf[home[p]], p)
      BY <1>2, <2>1 DEF LeftNow, From
    <2>3. \A n : Completes(p, n)' = Completes(p, n)
      BY DEF Completes, Back
    <2> QED  BY <1>4, <2>1, <2>2, <2>3 DEF LiveFits
  <1>5. \A p \in Payments : LiveFits(p)'
    BY <1>4 DEF LiveFits
  <1> QED  BY <1>1, <1>2, <1>3, <1>5 DEF TipsInv

\* A payment is charged: all its tip is left in the open session.
LEMMA ChargeKeeps ==
    ASSUME TipsInv, NEW p \in Payments, Charge(p)
    PROVE  TipsInv'
  <1> USE DEF shiftVars, tipVars, refundVars
  <1>1. /\ sells \in Registers /\ last[sells] # 0 /\ last[sells] \in 1..Len(regOf) /\ last[sells] \in Shifts
        /\ regOf[last[sells]] = sells /\ Before(sells) \in Nat /\ (Before(sells) # 0 => Before(sells) \in Shifts)
    <2>1. sells \in Registers /\ last[sells] # 0
      BY DEF TipsInv, Typed, Chain, Charge, Free
    <2> QED  BY <2>1, LastIs
  <1>2. /\ handed[p] = 0 /\ \A s \in Shifts : carry[s][p] = 0
    <2>1. fate[p] # "live"
      BY DEF Charge
    <2>2. \A s \in Shifts : carry[s][p] \in Nat
      BY DEF TipsInv, Typed
    <2> QED  BY <2>1, <2>2 DEF TipsInv, CarryFits
  <1>3. /\ fate' \in [Payments -> {"unused", "live", "voided"}] /\ fate'[p] = "live"
        /\ home' \in [Payments -> Nat] /\ home'[p] = last[sells]
        /\ \A q \in Payments \ {p} : fate'[q] = fate[q] /\ home'[q] = home[q]
    BY <1>1 DEF TipsInv, Typed, Charge
  <1>4. Typed'
    BY <1>3 DEF TipsInv, Typed, Charge
  <1>5. Chain' /\ \A r \in Registers : Before(r)' = Before(r)
    BY ChainStays DEF Charge
  <1>6. CarryFits'
    BY <1>2, <1>3 DEF TipsInv, CarryFits, Charge
  <1>7. LiveFits(p)'
    <2>1. regOf'[home'[p]] = sells /\ stage'[sells] \notin {"closed", "read"} /\ home'[p] \in 1..Len(regOf')
      BY <1>1, <1>3 DEF Charge, Free
    <2>2. From(regOf[home[p]], p)' = 0
      BY <1>1, <1>2, <1>5, <2>1 DEF From, Charge
    <2>3. LeftNow(regOf[home[p]], p)' = Tip[p] /\ handed'[p] = 0 /\ Tip[p] \in Nat
      BY <1>2, <1>3, <2>1, <2>2, TipsAssumption DEF LeftNow, Minus, Charge
    <2>4. Completes(p, LeftNow(regOf[home[p]], p))'
      BY <2>3 DEF Completes
    <2> QED  BY <2>1, <2>4 DEF LiveFits
  <1>8. ASSUME NEW q \in Payments \ {p} PROVE LiveFits(q)'
    BY <1>3, LiveStays DEF Charge, Back
  <1> QED  BY <1>4, <1>5, <1>6, <1>7, <1>8 DEF TipsInv

\* A payment is voided in its own session, which has left nothing yet.
LEMMA VoidKeeps ==
    ASSUME TipsInv, NEW p \in Payments, VoidPayment(p)
    PROVE  TipsInv'
  <1> USE DEF shiftVars, tipVars, refundVars
  <1> DEFINE r == regOf[home[p]]
  <1>1. r \in Registers /\ home[p] \in 1..Len(regOf) /\ last[r] = home[p] /\ stage[r] \in {"open", "begun"} /\ handed[p] = 0
    BY HomeIs DEF VoidPayment, IsFree, Free
  <1>2. ASSUME NEW s \in Shifts PROVE carry[s][p] = 0
    <2>1. SUFFICES ASSUME carry[s][p] > 0 PROVE FALSE
      BY DEF TipsInv, Typed
    <2>2. s <= Len(regOf) /\ home[p] <= s /\ regOf[s] = r
      BY <2>1 DEF TipsInv, CarryFits
    <2>3. s <= last[r]
      BY <2>2 DEF TipsInv, Chain, Shifts
    <2>4. s = home[p]
      BY <1>1, <2>2, <2>3 DEF Shifts
    <2> QED  BY <1>1, <2>1, <2>4 DEF TipsInv, CarryFits
  <1>3. /\ fate' \in [Payments -> {"unused", "live", "voided"}] /\ fate'[p] = "voided"
        /\ \A q \in Payments \ {p} : fate'[q] = fate[q]
    BY DEF TipsInv, Typed, VoidPayment
  <1> HIDE DEF r
  <1>4. Typed'
    BY <1>3 DEF TipsInv, Typed, VoidPayment
  <1>5. Chain'
    BY ChainStays DEF VoidPayment
  <1>6. CarryFits'
    BY <1>1, <1>2, <1>3 DEF TipsInv, CarryFits, VoidPayment
  <1>7. ASSUME NEW q \in Payments PROVE LiveFits(q)'
    <2>1. fate'[q] = "live" => fate[q] = "live"
      BY <1>3
    <2> QED  BY <2>1, LiveStays DEF VoidPayment, Back
  <1> QED  BY <1>4, <1>5, <1>6, <1>7 DEF TipsInv

\* A cancellation gives back what nobody had, and a tip given back stays so.
LEMMA CancelKeeps ==
    ASSUME TipsInv, NEW o \in Orders, NEW closes, CancelWithRefund(o, closes) \/ CancelNoShift(o, closes)
    PROVE  TipsInv'
  <1>1. given[o] = "no" /\ (given' = [given EXCEPT ![o] = "back"] \/ given' = [given EXCEPT ![o] = "held"])
    BY DEF CancelWithRefund, CancelNoShift
  <1>2. given' \in [Orders -> {"no", "held", "back"}] /\ \A x \in Orders : given[x] = "back" => given'[x] = "back"
    BY <1>1 DEF TipsInv, Typed
  <1>3. UNCHANGED <<shiftVars, paymentVars, tipVars>> /\ paying' \in [Tablets -> 0..Len(regOf)]
    BY DEF CancelWithRefund, CancelNoShift, TipsInv, Typed
  <1> QED  BY <1>2, <1>3, RefundKeeps

\* The same when one with no shift ends.
LEMMA EndKeeps ==
    ASSUME TipsInv, NEW o \in Orders, NEW commits \in BOOLEAN, EndNoShift(o, commits)
    PROVE  TipsInv'
  <1>1. /\ given[o] = "held"
        /\ given' = [given EXCEPT ![o] = IF commits THEN "back" ELSE "no"]
    BY DEF EndNoShift
  <1>2. given' \in [Orders -> {"no", "held", "back"}] /\ \A x \in Orders : given[x] = "back" => given'[x] = "back"
    BY <1>1 DEF TipsInv, Typed
  <1>3. UNCHANGED <<shiftVars, paymentVars, tipVars>> /\ paying' \in [Tablets -> 0..Len(regOf)]
    BY DEF EndNoShift, TipsInv, Typed
  <1> QED  BY <1>2, <1>3, RefundKeeps

\* A payout that reads its session, or is given up, takes nothing.
LEMMA ReadKeeps ==
    ASSUME TipsInv, NEW t \in Tablets, PayoutRollback(t) \/ \E r \in Registers : PayoutRead(t, r)
    PROVE  TipsInv'
  <1>1. PICK n \in 0..Len(regOf) : paying' = [paying EXCEPT ![t] = n]
    <2>1. CASE PayoutRollback(t)
      <3>1. 0 \in 0..Len(regOf)
        BY DEF TipsInv, Typed
      <3> QED  BY <2>1, <3>1 DEF PayoutRollback
    <2>2. CASE \E r \in Registers : PayoutRead(t, r)
      <3>1. PICK r \in Registers : PayoutRead(t, r)
        BY <2>2
      <3>2. last[r] \in 0..Len(regOf)
        BY DEF TipsInv, Typed, Chain
      <3> QED  BY <3>1, <3>2 DEF PayoutRead
    <2> QED  BY <2>1, <2>2
  <1>2. paying' \in [Tablets -> 0..Len(regOf)]
    BY <1>1 DEF TipsInv, Typed
  <1>3. UNCHANGED <<shiftVars, paymentVars, tipVars, given>>
    BY DEF PayoutRollback, PayoutRead, refundVars
  <1>4. given' \in [Orders -> {"no", "held", "back"}] /\ \A x \in Orders : given[x] = "back" => given'[x] = "back"
    BY <1>3 DEF TipsInv, Typed
  <1> QED  BY <1>2, <1>3, <1>4, RefundKeeps

\* Sales move to another register, a close begins or commits.
LEMMA QuietShiftKeeps ==
    ASSUME TipsInv, NEW r \in Registers, MoveSales(r) \/ CloseBegin(r) \/ CloseCommit(r)
    PROVE  TipsInv'
  <1>1. UNCHANGED <<regOf, last, paymentVars, tipVars, given, paying>>
    BY DEF MoveSales, CloseBegin, CloseCommit, refundVars
  <1>2. sells' \in Registers
    BY DEF MoveSales, CloseBegin, CloseCommit, TipsInv, Typed
  <1>3. \/ stage' = stage
        \/ stage[r] = "open" /\ stage' = [stage EXCEPT ![r] = "begun"]
        \/ stage[r] = "read" /\ stage' = [stage EXCEPT ![r] = "closed"]
    BY DEF MoveSales, CloseBegin, CloseCommit
  <1>4. /\ stage' \in [Registers -> Stages]
        /\ \A q \in Registers : stage'[q] = stage[q] \/ <<stage[q], stage'[q]>> \in {<<"open", "begun">>, <<"read", "closed">>}
    BY <1>3 DEF TipsInv, Typed, Stages
  <1> QED  BY <1>1, <1>2, <1>4, StageKeeps
-----------------------------------------------------------------------------
\* What a payout takes of a payment is left of it no more, and is handed out.
LEMMA TakenIs ==
    ASSUME NEW from \in Nat, NEW spent \in Nat, NEW take \in Nat, take <= Minus(from, spent)
    PROVE  Minus(from, spent) = take + Minus(from, spent + take)
  BY DEF Minus

\* What a payout takes in a session.
Pays(n, take) ==
    /\ take \in Takes([p \in Payments |-> Available(n, p)])
    /\ handed' = [p \in Payments |-> handed[p] + take[p]]
    /\ used' = [used EXCEPT ![n] = [p \in Payments |-> @[p] + take[p]]]

\* A payout of the tips takes from what is left of the payments of its register.
LEMMA PayoutKeeps ==
    ASSUME TipsInv, NEW t \in Tablets, PayoutCommit(t)
    PROVE  TipsInv'
  <1> USE DEF shiftVars, paymentVars, refundVars
  <1>0. PICK s \in 0..Len(regOf) : s = paying[t]
    BY DEF TipsInv, Typed
  <1>a. s # 0 /\ s \in 1..Len(regOf)
    BY <1>0 DEF PayoutCommit, IsFree, TipsInv, Typed
  <1>b. PICK r \in Registers : r = regOf[s]
    BY <1>a DEF TipsInv, Typed
  <1>1. s # 0 /\ Free(r) /\ last[r] = s
    BY <1>0, <1>b DEF PayoutCommit, IsFree
  <1>2. r \in Registers /\ s \in 1..Len(regOf) /\ r = regOf[s]
    BY <1>a, <1>b
  <1>3. /\ last[r] # 0 /\ s \in Shifts /\ Before(r) \in Nat /\ Before(r) # s
        /\ (Before(r) # 0 => Before(r) \in Shifts)
    BY <1>1, <1>2, LastIs
  <1>c. PICK take : Pays(s, take)
    <2>1. \E take : Pays(paying[t], take)
      BY DEF PayoutCommit, Pays
    <2> QED  BY <1>0, <2>1
  <1>4. /\ take \in Takes([p \in Payments |-> Available(s, p)])
        /\ handed' = [p \in Payments |-> handed[p] + take[p]]
        /\ used' = [used EXCEPT ![s] = [p \in Payments |-> @[p] + take[p]]]
    BY <1>c DEF Pays
  <1>5. ASSUME NEW p \in Payments
        PROVE  /\ take[p] \in Nat /\ handed[p] \in Nat /\ used[s][p] \in Nat /\ carry[s][p] \in Nat
               /\ Tip[p] \in Nat /\ (Before(r) # 0 => carry[Before(r)][p] \in Nat)
               /\ take[p] <= Available(s, p)
    <2>1. /\ handed[p] \in Nat /\ used[s][p] \in Nat /\ carry[s][p] \in Nat /\ Tip[p] \in Nat
          /\ Before(r) # 0 => carry[Before(r)][p] \in Nat
      BY <1>3, TipsAssumption DEF TipsInv, Typed
    <2>2. take \in [Payments -> Amounts] /\ take[p] <= Available(s, p)
      BY <1>4 DEF Takes
    <2>3. Amounts \in SUBSET Nat
      BY TipsAssumption DEF Amounts
    <2> QED  BY <2>1, <2>2, <2>3
  <1>6. ASSUME NEW p \in Payments
        PROVE  /\ handed'[p] = handed[p] + take[p] /\ used'[s][p] = used[s][p] + take[p]
               /\ \A x \in Shifts \ {s} : used'[x][p] = used[x][p]
    BY <1>3, <1>4 DEF TipsInv, Typed
  <1>7. Typed'
    <2>1. handed' \in [Payments -> Nat]
      BY <1>4, <1>5
    <2>2. [p \in Payments |-> used[s][p] + take[p]] \in [Payments -> Nat]
      BY <1>5
    <2>3. used' \in [Shifts -> [Payments -> Nat]]
      BY <1>3, <1>4, <2>2 DEF TipsInv, Typed
    <2>4. paying' \in [Tablets -> 0..Len(regOf)]
      BY DEF TipsInv, Typed, PayoutCommit
    <2> QED  BY <2>1, <2>3, <2>4 DEF TipsInv, Typed, PayoutCommit
  <1>8. Chain' /\ \A q \in Registers : Before(q)' = Before(q)
    BY ChainStays DEF PayoutCommit
  <1>9. ASSUME NEW p \in Payments, ~(fate[p] = "live" /\ regOf[home[p]] = r)
        PROVE  take[p] = 0 /\ handed'[p] = handed[p] /\ used'[s][p] = used[s][p]
    <2>1. Available(s, p) = 0
      BY <1>1, <1>2, <1>3, <1>9, AvailableIs
    <2>2. take[p] = 0
      BY <1>5, <2>1
    <2> QED  BY <1>5, <1>6, <2>2
  <1>10. CarryFits'
    <2>1. \A p \in Payments : fate[p] # "live" => handed'[p] = 0
      BY <1>9 DEF TipsInv, CarryFits
    <2>2. \A x \in Shifts : x > Len(regOf) => \A p \in Payments : used'[x][p] = 0
      BY <1>2, <1>6 DEF TipsInv, CarryFits
    <2> QED  BY <2>1, <2>2 DEF TipsInv, CarryFits, PayoutCommit
  <1>11. ASSUME NEW p \in Payments, fate[p] = "live", regOf[home[p]] = r PROVE LiveFits(p)'
    <2>0. Available(s, p) \in Nat /\ Available(s, p) <= LeftNow(r, p)
      BY <1>1, <1>2, <1>3, <1>11, AvailableIs
    <2>1. take[p] <= LeftNow(r, p)
      <3>1. LeftNow(r, p) \in Nat
        BY <1>1, <1>3, <1>5 DEF LeftNow, From, Minus
      <3> QED  BY <1>5, <2>0, <3>1
    <2>2. From(r, p)' = From(r, p) /\ From(r, p) \in Nat
      BY <1>2, <1>5, <1>8 DEF From, PayoutCommit
    <2>3. LeftNow(r, p) = take[p] + LeftNow(r, p)'
      <3>1. CASE From(r, p) > 0
        BY <1>1, <1>2, <1>5, <1>6, <2>1, <2>2, <3>1, TakenIs DEF LeftNow, PayoutCommit
      <3>2. CASE From(r, p) = 0
        BY <1>1, <1>2, <1>5, <1>6, <2>1, <2>2, <3>2, TakenIs DEF LeftNow, PayoutCommit
      <3> QED  BY <2>2, <3>1, <3>2
    <2>4. LeftNow(r, p)' \in Nat
      BY <1>5, <1>6, <1>1, <1>2, <2>2 DEF LeftNow, Minus, PayoutCommit
    <2>5. Completes(p, LeftNow(r, p)) /\ stage[r] \in {"open", "begun"} /\ home[p] \in 1..Len(regOf)
      BY <1>1, <1>11 DEF TipsInv, LiveFits, Free
    <2>6. Completes(p, LeftNow(r, p))'
      BY <1>5, <1>6, <2>3, <2>4, <2>5 DEF Completes, Back, PayoutCommit
    <2> QED  BY <1>11, <2>5, <2>6 DEF LiveFits, PayoutCommit
  <1>12. ASSUME NEW p \in Payments, fate[p] = "live", regOf[home[p]] # r PROVE LiveFits(p)'
    <2>1. regOf[home[p]] \in Registers /\ LiveFits(p)
      BY <1>12, HomeIs DEF TipsInv
    <2>a. PICK q \in Registers : q = regOf[home[p]] /\ last[q] # 0
      BY <1>12, <2>1, HomeIs
    <2>2. last[q] \in Shifts /\ regOf[last[q]] = q
      BY <2>a, LastIs
    <2>3. used'[last[q]][p] = used[last[q]][p] /\ handed'[p] = handed[p]
      BY <1>2, <1>6, <1>9, <1>12, <2>a, <2>2
    <2>4. LeftNow(q, p)' = LeftNow(q, p)
      BY <1>8, <2>a, <2>3 DEF LeftNow, From, PayoutCommit
    <2>5. \A n : Completes(p, n)' = Completes(p, n)
      BY <2>3 DEF Completes, Back, PayoutCommit
    <2> QED  BY <1>12, <2>1, <2>a, <2>4, <2>5 DEF LiveFits, PayoutCommit
  <1>13. ASSUME NEW p \in Payments PROVE LiveFits(p)'
    <2>1. CASE fate[p] # "live"
      BY <2>1 DEF LiveFits, PayoutCommit
    <2> QED  BY <1>11, <1>12, <2>1
  <1> QED  BY <1>7, <1>8, <1>10, <1>13 DEF TipsInv
-----------------------------------------------------------------------------
\* A close counts what is left of each payment, and leaves it.
LEMMA CountKeeps ==
    ASSUME TipsInv, NEW r \in Registers, CloseTips(r)
    PROVE  TipsInv'
  <1> USE DEF paymentVars, refundVars
  <1>1. /\ stage[r] = "begun" /\ stage' = [stage EXCEPT ![r] = "read"] /\ regOf' = regOf /\ last' = last
        /\ last[r] # 0 /\ last[r] \in 1..Len(regOf) /\ last[r] \in Shifts /\ regOf[last[r]] = r
    <2>1. stage[r] = "begun" /\ stage' = [stage EXCEPT ![r] = "read"] /\ regOf' = regOf /\ last' = last
      BY DEF CloseTips
    <2>2. last[r] # 0
      BY <2>1 DEF TipsInv, Chain
    <2> QED  BY <2>1, <2>2, LastIs
  <1>2. PICK s \in Shifts : s = last[r]
    BY <1>1
  <1>3. /\ stage' \in [Registers -> Stages] /\ stage'[r] = "read"
        /\ \A q \in Registers \ {r} : stage'[q] = stage[q]
    BY <1>1 DEF TipsInv, Typed, Stages
  <1>4. ASSUME NEW p \in Payments
        PROVE  /\ Available(s, p) \in Nat
               /\ fate[p] = "live" /\ regOf[home[p]] = r =>
                     Available(s, p) <= LeftNow(r, p) /\ (~Back(p) => Available(s, p) = LeftNow(r, p))
               /\ ~(fate[p] = "live" /\ regOf[home[p]] = r) => Available(s, p) = 0
    BY <1>1, <1>2, AvailableIs
  <1>5. /\ carry' \in [Shifts -> [Payments -> Nat]]
        /\ \A p \in Payments : carry'[s][p] = Available(s, p)
        /\ \A x \in Shifts \ {s}, p \in Payments : carry'[x][p] = carry[x][p]
    <2>1. carry' = [carry EXCEPT ![s] = [p \in Payments |-> Available(s, p)]]
      BY <1>2 DEF CloseTips, CarryOver
    <2>2. [p \in Payments |-> Available(s, p)] \in [Payments -> Nat]
      BY <1>4
    <2> QED  BY <2>1, <2>2 DEF TipsInv, Typed
  <1>6. Typed'
    BY <1>3, <1>5 DEF TipsInv, Typed, CloseTips
  <1>7. Chain' /\ \A q \in Registers : Before(q)' = Before(q)
    BY <1>1, <1>3, ChainStays
  <1>8. ASSUME NEW q \in Registers, last[q] # 0
        PROVE  /\ Before(q) # s /\ (Before(q) # 0 => Before(q) \in Shifts) /\ last[q] \in Shifts
               /\ (q # r => last[q] # s)
    <2>1. /\ Before(q) \in 0..(last[q] - 1) /\ last[q] \in 1..Len(regOf) /\ last[q] \in Shifts /\ regOf[last[q]] = q
          /\ (Before(q) # 0 => Before(q) \in Shifts /\ regOf[Before(q)] = q)
      BY <1>8, LastIs
    <2> QED  BY <1>1, <1>2, <2>1 DEF Shifts
  <1>9. CarryFits'
    <2>1. ASSUME NEW x \in Shifts, NEW p \in Payments, carry'[x][p] > 0
          PROVE  fate[p] = "live" /\ x <= Len(regOf) /\ home[p] <= x /\ regOf[x] = regOf[home[p]]
      <3>1. CASE x # s
        BY <1>5, <2>1, <3>1 DEF TipsInv, CarryFits
      <3>2. CASE x = s
        <4>1. Available(s, p) > 0
          BY <1>5, <2>1, <3>2
        <4>2. fate[p] = "live" /\ regOf[home[p]] = r
          BY <1>4, <4>1
        <4>3. home[p] <= last[regOf[home[p]]]
          BY <4>2, HomeIs
        <4> QED  BY <1>1, <1>2, <3>2, <4>2, <4>3
      <3> QED  BY <3>1, <3>2
    <2>2. ASSUME NEW q \in Registers, stage'[q] \in {"open", "begun"}, NEW p \in Payments
          PROVE  carry'[last[q]][p] = 0
      <3>1. q # r /\ stage[q] \in {"open", "begun"} /\ last[q] # 0
        BY <1>3, <2>2 DEF TipsInv, Chain
      <3>2. carry[last[q]][p] = 0
        BY <3>1 DEF TipsInv, CarryFits
      <3> QED  BY <1>5, <1>8, <3>1, <3>2
    <2> QED  BY <1>1, <2>1, <2>2 DEF TipsInv, CarryFits, CloseTips
  <1>10. ASSUME NEW p \in Payments, fate[p] = "live" PROVE LiveFits(p)'
    <2>1. regOf[home[p]] \in Registers /\ LiveFits(p) /\ home[p] \in 1..Len(regOf)
      BY <1>10, HomeIs DEF TipsInv
    <2>2. PICK q \in Registers : q = regOf[home[p]] /\ last[q] # 0
      BY <1>10, <2>1, HomeIs
    <2>3. LeftNow(q, p)' = LeftNow(q, p)
      <3>1. From(q, p)' = From(q, p)
        BY <1>5, <1>7, <1>8, <2>2 DEF From
      <3> QED  BY <3>1 DEF LeftNow, CloseTips
    <2>4. \A n : Completes(p, n)' = Completes(p, n)
      BY DEF Completes, Back, CloseTips
    <2>5. CASE q # r
      <3>1. carry'[last[q]][p] = carry[last[q]][p] /\ stage'[q] = stage[q]
        BY <1>3, <1>5, <1>8, <2>2, <2>5
      <3> QED  BY <1>1, <1>10, <2>1, <2>2, <2>3, <2>4, <3>1 DEF LiveFits, CloseTips
    <2>6. CASE q = r
      <3>1. Completes(p, LeftNow(q, p))
        BY <1>1, <1>10, <2>1, <2>2, <2>6 DEF LiveFits
      <3>2. /\ Available(s, p) \in Nat /\ LeftNow(r, p) \in Nat /\ Tip[p] \in Nat /\ handed[p] \in Nat
            /\ Available(s, p) <= LeftNow(r, p) /\ (~Back(p) => Available(s, p) = LeftNow(r, p))
        <4>1. Tip[p] \in Nat /\ handed[p] \in Nat /\ used[last[r]][p] \in Nat /\ From(r, p) \in Nat
          BY <1>1, <1>8, TipsAssumption DEF TipsInv, Typed, From
        <4>2. LeftNow(r, p) \in Nat
          BY <4>1 DEF LeftNow, Minus
        <4> QED  BY <1>4, <1>10, <2>2, <2>6, <4>1, <4>2
      <3>3. Completes(p, carry'[last[q]][p])
        BY <1>2, <1>5, <2>6, <3>1, <3>2 DEF Completes
      <3> QED  BY <1>1, <1>3, <1>10, <2>1, <2>2, <2>3, <2>4, <2>6, <3>1, <3>3 DEF LiveFits, CloseTips
    <2> QED  BY <2>5, <2>6
  <1>11. \A p \in Payments : LiveFits(p)'
    BY <1>10 DEF LiveFits, CloseTips
  <1> QED  BY <1>6, <1>7, <1>9, <1>11 DEF TipsInv

\* A close given up leaves nothing: it goes on in its session.
LEMMA GiveUpKeeps ==
    ASSUME TipsInv, NEW r \in Registers, CloseRollback(r)
    PROVE  TipsInv'
  <1> USE DEF paymentVars
  <1>1. /\ stage[r] \in {"begun", "read"} /\ stage' = [stage EXCEPT ![r] = "open"] /\ regOf' = regOf /\ last' = last
        /\ last[r] # 0 /\ last[r] \in 1..Len(regOf) /\ last[r] \in Shifts /\ regOf[last[r]] = r
    <2>1. stage[r] \in {"begun", "read"} /\ stage' = [stage EXCEPT ![r] = "open"] /\ regOf' = regOf /\ last' = last
      BY DEF CloseRollback
    <2>2. last[r] # 0
      BY <2>1 DEF TipsInv, Chain
    <2> QED  BY <2>1, <2>2, LastIs
  <1>2. PICK s \in Shifts : s = last[r]
    BY <1>1
  <1>3. /\ stage' \in [Registers -> Stages] /\ stage'[r] = "open"
        /\ \A q \in Registers \ {r} : stage'[q] = stage[q]
    BY <1>1 DEF TipsInv, Typed, Stages
  <1>4. /\ carry' \in [Shifts -> [Payments -> Nat]]
        /\ \A p \in Payments : carry'[s][p] = 0
        /\ \A x \in Shifts \ {s}, p \in Payments : carry'[x][p] = carry[x][p]
    <2>1. carry' = [carry EXCEPT ![s] = [p \in Payments |-> 0]]
      BY <1>2 DEF CloseRollback
    <2> QED  BY <2>1 DEF TipsInv, Typed
  <1>5. Typed'
    BY <1>3, <1>4 DEF TipsInv, Typed, CloseRollback
  <1>6. Chain' /\ \A q \in Registers : Before(q)' = Before(q)
    BY <1>1, <1>3, ChainStays
  <1>7. ASSUME NEW q \in Registers, last[q] # 0
        PROVE  /\ Before(q) # s /\ (Before(q) # 0 => Before(q) \in Shifts) /\ last[q] \in Shifts
               /\ (q # r => last[q] # s)
    <2>1. /\ Before(q) \in 0..(last[q] - 1) /\ last[q] \in 1..Len(regOf) /\ last[q] \in Shifts /\ regOf[last[q]] = q
          /\ (Before(q) # 0 => Before(q) \in Shifts /\ regOf[Before(q)] = q)
      BY <1>7, LastIs
    <2> QED  BY <1>1, <1>2, <2>1 DEF Shifts
  <1>8. CarryFits'
    <2>1. ASSUME NEW x \in Shifts, NEW p \in Payments, carry'[x][p] > 0
          PROVE  fate[p] = "live" /\ x <= Len(regOf) /\ home[p] <= x /\ regOf[x] = regOf[home[p]]
      <3>1. x # s
        BY <1>4, <2>1
      <3> QED  BY <1>4, <2>1, <3>1 DEF TipsInv, CarryFits
    <2>2. ASSUME NEW q \in Registers, stage'[q] \in {"open", "begun"}, NEW p \in Payments
          PROVE  carry'[last[q]][p] = 0
      <3>1. CASE q = r
        BY <1>2, <1>4, <3>1
      <3>2. CASE q # r
        <4>1. stage[q] \in {"open", "begun"} /\ last[q] # 0
          BY <1>3, <2>2, <3>2 DEF TipsInv, Chain
        <4>2. carry[last[q]][p] = 0
          BY <4>1 DEF TipsInv, CarryFits
        <4> QED  BY <1>4, <1>7, <3>2, <4>1, <4>2
      <3> QED  BY <3>1, <3>2
    <2> QED  BY <1>1, <2>1, <2>2 DEF TipsInv, CarryFits, CloseRollback
  <1>9. ASSUME NEW p \in Payments, fate[p] = "live" PROVE LiveFits(p)'
    <2>1. regOf[home[p]] \in Registers /\ LiveFits(p) /\ home[p] \in 1..Len(regOf)
      BY <1>9, HomeIs DEF TipsInv
    <2>2. PICK q \in Registers : q = regOf[home[p]] /\ last[q] # 0
      BY <1>9, <2>1, HomeIs
    <2>3. LeftNow(q, p)' = LeftNow(q, p)
      <3>1. From(q, p)' = From(q, p)
        BY <1>4, <1>6, <1>7, <2>2 DEF From
      <3> QED  BY <3>1 DEF LeftNow, CloseRollback
    <2>4. \A n : Completes(p, n)' = Completes(p, n)
      BY DEF Completes, Back, CloseRollback
    <2>5. CASE q # r
      <3>1. carry'[last[q]][p] = carry[last[q]][p] /\ stage'[q] = stage[q]
        BY <1>3, <1>4, <1>7, <2>2, <2>5
      <3> QED  BY <1>1, <1>9, <2>1, <2>2, <2>3, <2>4, <3>1 DEF LiveFits, CloseRollback
    <2>6. CASE q = r
      <3>1. Completes(p, LeftNow(q, p))
        BY <1>1, <1>9, <2>1, <2>2, <2>6 DEF LiveFits
      <3> QED  BY <1>1, <1>3, <1>9, <2>1, <2>2, <2>3, <2>4, <2>6, <3>1 DEF LiveFits, CloseRollback
    <2> QED  BY <2>5, <2>6
  <1>10. \A p \in Payments : LiveFits(p)'
    BY <1>9 DEF LiveFits, CloseRollback
  <1> QED  BY <1>5, <1>6, <1>8, <1>10 DEF TipsInv

\* A session opens: it inherits from the last one of its register, and has handed nothing out.
LEMMA OpenKeeps ==
    ASSUME TipsInv, NEW r \in Registers, OpenSession(r)
    PROVE  TipsInv'
  <1> USE DEF paymentVars, tipVars, refundVars
  <1>0. PICK n \in Nat : n = Len(regOf)
    BY DEF TipsInv, Typed
  <1>1. /\ n = Len(regOf) /\ n \in Nat /\ n + 1 <= MaxShifts /\ MaxShifts \in Nat /\ n + 1 \in Shifts
        /\ regOf' \in Seq(Registers) /\ Len(regOf') = n + 1 /\ regOf'[n + 1] = r
        /\ \A x \in 1..n : regOf'[x] = regOf[x]
    <2>1. /\ n \in Nat /\ n < MaxShifts /\ MaxShifts \in Nat /\ regOf \in Seq(Registers) /\ regOf' = Append(regOf, r)
      BY <1>0, TipsAssumption DEF TipsInv, Typed, OpenSession
    <2> QED  BY <1>0, <2>1 DEF Shifts
  <1>2. /\ stage[r] = "closed" /\ stage' \in [Registers -> Stages] /\ stage'[r] = "open"
        /\ \A q \in Registers \ {r} : stage'[q] = stage[q]
        /\ last' \in [Registers -> Nat] /\ last'[r] = n + 1 /\ \A q \in Registers \ {r} : last'[q] = last[q]
    BY <1>1 DEF OpenSession, TipsInv, Typed, Stages
  <1>3. Typed'
    BY <1>1, <1>2 DEF OpenSession, TipsInv, Typed
  <1>4. ASSUME NEW q \in Registers \ {r}, last[q] # 0
        PROVE  Before(q)' = Before(q)
    <2>1. last'[q] = last[q] /\ last[q] \in 1..n
      BY <1>1, <1>2, <1>4, LastIs
    <2>2. {x \in 1..(last[q] - 1) : regOf'[x] = regOf'[last[q]]} = {x \in 1..(last[q] - 1) : regOf[x] = regOf[last[q]]}
      BY <1>1, <2>1
    <2> QED  BY <2>1, <2>2 DEF Before, Prev
  <1>5. Before(r)' = last[r]
    <2>1. Before(r)' = Latest({x \in 1..n : regOf[x] = r})
      <3>1. Before(r)' = Latest({x \in 1..(last'[r] - 1) : regOf'[x] = regOf'[last'[r]]})
        BY DEF Before, Prev
      <3>2. {x \in 1..(last'[r] - 1) : regOf'[x] = regOf'[last'[r]]} = {x \in 1..n : regOf[x] = r}
        BY <1>1, <1>2
      <3> QED  BY <3>1, <3>2
    <2>2. \A x \in 1..n : regOf[x] = r => x <= last[r]
      BY <1>1 DEF TipsInv, Chain
    <2>3. CASE last[r] = 0
      <3>1. {x \in 1..n : regOf[x] = r} = {}
        BY <1>1, <2>2, <2>3
      <3> QED  BY <2>1, <2>3, <3>1 DEF Latest
    <2>4. CASE last[r] # 0
      <3>1. last[r] \in {x \in 1..n : regOf[x] = r}
        BY <1>1, <2>4, LastIs
      <3>2. {x \in 1..n : regOf[x] = r} \in SUBSET Nat
        BY <1>1
      <3> QED  BY <2>1, <2>2, <3>1, <3>2, LatestIs
    <2> QED  BY <2>3, <2>4
  <1>6. last[r] \in 0..n /\ (last[r] # 0 => last[r] \in 1..n /\ last[r] \in Shifts /\ regOf[last[r]] = r)
    BY <1>1, LastIs
  <1>7. Chain'
    <2>1. ASSUME NEW q \in Registers, last'[q] # 0
          PROVE  /\ last'[q] \in 1..(n + 1) /\ regOf'[last'[q]] = q
                 /\ Before(q)' \in 0..(last'[q] - 1) /\ (Before(q)' # 0 => regOf'[Before(q)'] = q)
      <3>1. CASE q = r
        BY <1>1, <1>2, <1>5, <1>6, <3>1
      <3>2. CASE q # r
        <4>1. last'[q] = last[q] /\ last[q] # 0 /\ Before(q)' = Before(q)
          BY <1>2, <1>4, <2>1, <3>2
        <4>2. /\ last[q] \in 1..n /\ regOf[last[q]] = q
              /\ Before(q) \in 0..(last[q] - 1) /\ (Before(q) # 0 => regOf[Before(q)] = q)
          BY <1>1, <4>1, LastIs
        <4> QED  BY <1>1, <4>1, <4>2
      <3> QED  BY <3>1, <3>2
    <2>2. ASSUME NEW x \in 1..(n + 1) PROVE x <= last'[regOf'[x]]
      <3>1. CASE x = n + 1
        BY <1>1, <1>2, <3>1
      <3>2. CASE x \in 1..n
        <4>0. x \in 1..Len(regOf) /\ regOf \in Seq(Registers)
          BY <1>1, <3>2 DEF TipsInv, Typed
        <4>1. x <= last[regOf[x]] /\ regOf[x] \in Registers /\ regOf'[x] = regOf[x]
          BY <1>1, <3>2, <4>0 DEF TipsInv, Chain
        <4> QED  BY <1>1, <1>2, <3>2, <4>1
      <3> QED  BY <1>1, <3>1, <3>2
    <2>3. ASSUME NEW q \in Registers, stage'[q] # "closed" PROVE last'[q] # 0
      BY <1>1, <1>2, <2>3 DEF TipsInv, Chain
    <2> QED  BY <1>1, <2>1, <2>2, <2>3 DEF Chain
  <1>8. ASSUME NEW p \in Payments
        PROVE  /\ carry[n + 1][p] = 0 /\ used[n + 1][p] = 0
    <2>1. carry[n + 1][p] \in Nat /\ ~(carry[n + 1][p] > 0)
      BY <1>1 DEF TipsInv, Typed, CarryFits
    <2> QED  BY <1>1, <2>1 DEF TipsInv, CarryFits
  <1>9. CarryFits'
    <2>1. ASSUME NEW x \in Shifts, NEW p \in Payments, carry[x][p] > 0
          PROVE  /\ fate[p] = "live" /\ x <= n + 1 /\ home[p] <= x /\ regOf'[x] = regOf'[home[p]]
      <3>1. /\ fate[p] = "live" /\ x <= n /\ home[p] <= x /\ regOf[x] = regOf[home[p]]
        BY <1>1, <2>1 DEF TipsInv, CarryFits
      <3>2. home[p] \in 1..n
        BY <1>1, <3>1, HomeIs
      <3> QED  BY <1>1, <3>1, <3>2 DEF Shifts
    <2>2. ASSUME NEW q \in Registers, stage'[q] \in {"open", "begun"}, NEW p \in Payments
          PROVE  carry[last'[q]][p] = 0
      BY <1>2, <1>8, <2>2 DEF TipsInv, CarryFits
    <2>3. \A x \in Shifts : x > n + 1 => \A p \in Payments : used[x][p] = 0
      BY <1>1 DEF TipsInv, CarryFits, Shifts
    <2>4. carry' = carry /\ used' = used /\ fate' = fate /\ home' = home /\ handed' = handed
      BY DEF OpenSession
    <2> QED  BY <1>1, <2>1, <2>2, <2>3, <2>4 DEF TipsInv, CarryFits
  <1>10. ASSUME NEW p \in Payments, fate[p] = "live" PROVE LiveFits(p)'
    <2>1. regOf[home[p]] \in Registers /\ LiveFits(p) /\ home[p] \in 1..n
      BY <1>1, <1>10, HomeIs DEF TipsInv
    <2>2. PICK q \in Registers : q = regOf[home[p]] /\ last[q] # 0
      BY <1>10, <2>1, HomeIs
    <2>3. regOf'[home'[p]] = q /\ home'[p] = home[p] /\ home[p] \in 1..Len(regOf')
      BY <1>1, <2>1, <2>2 DEF OpenSession
    <2>4. \A x : Completes(p, x)' = Completes(p, x)
      BY DEF Completes, Back, OpenSession
    <2>5. CASE q # r
      <3>1. LeftNow(q, p)' = LeftNow(q, p)
        <4>1. From(q, p)' = From(q, p)
          BY <1>4, <2>2, <2>5 DEF From, OpenSession
        <4> QED  BY <1>2, <2>5, <4>1 DEF LeftNow, OpenSession
      <3>2. last'[q] = last[q] /\ stage'[q] = stage[q] /\ carry' = carry
        BY <1>2, <2>5 DEF OpenSession
      <3> QED  BY <1>10, <2>1, <2>2, <2>3, <2>4, <3>1, <3>2 DEF LiveFits
    <2>6. CASE q = r
      <3>1. LeftNow(q, p)' = carry[last[r]][p]
        <4>1. From(q, p)' = carry[last[r]][p] /\ carry[last[r]][p] \in Nat
          BY <1>5, <1>6, <2>2, <2>6 DEF From, OpenSession, TipsInv, Typed
        <4>2. home'[p] # last'[q] /\ used'[last'[q]][p] = 0
          BY <1>1, <1>2, <1>8, <2>1, <2>6 DEF OpenSession
        <4> QED  BY <4>1, <4>2 DEF LeftNow, Minus
      <3>2. Completes(p, carry[last[r]][p])
        BY <1>2, <1>10, <2>1, <2>2, <2>6 DEF LiveFits
      <3>3. stage'[q] = "open"
        BY <1>2, <2>6
      <3> QED  BY <2>3, <2>4, <3>1, <3>2, <3>3 DEF LiveFits
    <2> QED  BY <2>5, <2>6
  <1>11. \A p \in Payments : LiveFits(p)'
    BY <1>10 DEF LiveFits, OpenSession
  <1> QED  BY <1>3, <1>7, <1>9, <1>11 DEF TipsInv
-----------------------------------------------------------------------------
\* Every step keeps it.
LEMMA TipsSteps == TipsInv /\ [Next]_vars => TipsInv'
  <1> SUFFICES ASSUME TipsInv, [Next]_vars PROVE TipsInv'
    OBVIOUS
  <1>1. ASSUME NEW p \in Payments, Charge(p) \/ VoidPayment(p) PROVE TipsInv'
    BY <1>1, ChargeKeeps, VoidKeeps
  <1>2. ASSUME NEW o \in Orders, NEW closes, CancelWithRefund(o, closes) \/ CancelNoShift(o, closes)
        PROVE  TipsInv'
    BY <1>2, CancelKeeps
  <1>3. ASSUME NEW o \in Orders, NEW commits \in BOOLEAN, EndNoShift(o, commits) PROVE TipsInv'
    BY <1>3, EndKeeps
  <1>4. ASSUME NEW t \in Tablets, PayoutCommit(t) \/ PayoutRollback(t) \/ \E r \in Registers : PayoutRead(t, r)
        PROVE  TipsInv'
    BY <1>4, PayoutKeeps, ReadKeeps
  <1>5. ASSUME NEW r \in Registers, OpenSession(r) \/ CloseTips(r) \/ CloseRollback(r) PROVE TipsInv'
    BY <1>5, OpenKeeps, CountKeeps, GiveUpKeeps
  <1>6. ASSUME NEW r \in Registers, MoveSales(r) \/ CloseBegin(r) \/ CloseCommit(r) PROVE TipsInv'
    BY <1>6, QuietShiftKeeps
  <1>7. CASE UNCHANGED vars
    <2>1. /\ UNCHANGED <<shiftVars, paymentVars, tipVars>> /\ given' = given /\ paying' = paying
      BY <1>7 DEF vars, refundVars
    <2>2. paying' \in [Tablets -> 0..Len(regOf)] /\ given' \in [Orders -> {"no", "held", "back"}]
      BY <2>1 DEF TipsInv, Typed
    <2> QED  BY <2>1, <2>2, RefundKeeps
  <1> QED  BY <1>1, <1>2, <1>3, <1>4, <1>5, <1>6, <1>7 DEF Next

\* No peso of a tip is handed out twice, lost at a close or inherited by another register, with
\* any number of payments, shifts, registers and tablets (TipsConserved): LockSessionForTips
\* keeps payouts out of a shift that is being counted, and CloseSession leaves to the next shift
\* of its register what tipSources found.
THEOREM TipsAddUp == Spec => []TipsConserved
  <1>1. Spec => []TipsInv
    BY TipsInitially, TipsSteps, PTL DEF Spec
  <1> QED  BY <1>1, ConservedThen, PTL
=============================================================================
