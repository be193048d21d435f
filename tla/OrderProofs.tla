---------------------------- MODULE OrderProofs ----------------------------
(***************************************************************************)
(* Theorems about OrderAccount, for every value of its constants: its      *)
(* types; its money, which implements ChargeLedger; the totals its closes  *)
(* sign; the bills and the stock of its pieces; what its cancelled orders  *)
(* keep; and that shifts and orders hold the same money.                   *)
(***************************************************************************)
EXTENDS OrderAccount, SumProofs

\* The number of payments an order ever had is a natural number.
LEMMA PaymentsEverCounted ==
    ASSUME NEW o \in Orders
    PROVE  IsFiniteSet(PaymentsEver(o)) /\ Cardinality(PaymentsEver(o)) \in Nat
  <1>1. PaymentsEver(o) \subseteq Keys
    BY DEF PaymentsEver
  <1> QED  BY <1>1, FiniteAssumption, FS_Subset, FS_CardinalityType

\* What is left of an amount is never negative.
LEMMA MinusType ==
    ASSUME NEW x \in Int, NEW y \in Int
    PROVE  Minus(x, y) \in Nat
  BY DEF Minus

\* The steps of an order alone keep every variable in its type.
LEMMA OrderStepTyped ==
    ASSUME TypeOK, NEW o \in Orders, OrderStep(o)
    PROVE  TypeOK'
  <1> USE SetsAssumption, AmountsAssumption
  <1> USE DEF TypeOK, orderVars, moneyVars, refundVars, shiftVars, flightVars
  <1>1. CASE CreateRead(o)
    <2>1. OrdersTyped' /\ MoneyTyped' /\ RefundsTyped' /\ ShiftTyped'
      BY <1>1 DEF CreateRead, OrdersTyped, MoneyTyped, RefundsTyped, ShiftTyped
    <2>2. FlightTyped'
      BY <1>1 DEF CreateRead, FlightTyped, ShiftTyped
    <2> QED  BY <2>1, <2>2
  <1>2. ASSUME NEW L \in SUBSET Lines, NEW d \in 0..MaxDiscount, CreateInsert(o, L, d)
        PROVE  TypeOK'
    <2>1. MoneyTyped' /\ RefundsTyped' /\ ShiftTyped'
      BY <1>2 DEF CreateInsert, MoneyTyped, RefundsTyped, ShiftTyped
    <2>2. FlightTyped'
      BY <1>2 DEF CreateInsert, FlightTyped
    <2>3. OrdersTyped'
      BY <1>2 DEF CreateInsert, Storable, OrdersTyped, FlightTyped, Statuses
    <2> QED  BY <2>1, <2>2, <2>3
  <1>3. ASSUME NEW L \in SUBSET Lines, AddLines(o, L) PROVE TypeOK'
    <2>1. MoneyTyped' /\ RefundsTyped' /\ ShiftTyped' /\ FlightTyped'
      BY <1>3 DEF AddLines, MoneyTyped, RefundsTyped, ShiftTyped, FlightTyped
    <2>2. OrdersTyped'
      BY <1>3 DEF AddLines, Storable, OrdersTyped, Statuses
    <2> QED  BY <2>1, <2>2
  <1>4. ASSUME NEW l \in Lines, DeliverLine(o, l) PROVE TypeOK'
    <2>1. MoneyTyped' /\ RefundsTyped' /\ ShiftTyped' /\ FlightTyped'
      BY <1>4 DEF DeliverLine, MoneyTyped, RefundsTyped, ShiftTyped, FlightTyped
    <2>2. OrdersTyped'
      BY <1>4 DEF DeliverLine, OrdersTyped, Statuses
    <2> QED  BY <2>1, <2>2
  <1>5. CASE DeliverAll(o)
    <2>1. MoneyTyped' /\ RefundsTyped' /\ ShiftTyped' /\ FlightTyped'
      BY <1>5 DEF DeliverAll, MoneyTyped, RefundsTyped, ShiftTyped, FlightTyped
    <2>2. OrdersTyped'
      BY <1>5 DEF DeliverAll, Delivered, OrdersTyped, Statuses
    <2> QED  BY <2>1, <2>2
  <1>6. ASSUME NEW next \in Asked, SetStatusRead(o, next) PROVE TypeOK'
    <2>1. OrdersTyped' /\ MoneyTyped' /\ RefundsTyped' /\ ShiftTyped'
      BY <1>6 DEF SetStatusRead, OrdersTyped, MoneyTyped, RefundsTyped, ShiftTyped
    <2>2. FlightTyped'
      BY <1>6 DEF SetStatusRead, FlightTyped
    <2> QED  BY <2>1, <2>2
  <1>7. CASE SetStatusWrite(o)
    <2>1. MoneyTyped' /\ RefundsTyped' /\ ShiftTyped'
      BY <1>7 DEF SetStatusWrite, MoneyTyped, RefundsTyped, ShiftTyped
    <2>2. OrdersTyped' /\ FlightTyped'
      BY <1>7 DEF SetStatusWrite, OrdersTyped, FlightTyped, Statuses
    <2> QED  BY <2>1, <2>2
  <1>8. ASSUME NEW S \in SUBSET Lines, TakeOff(o, S) PROVE TypeOK'
    <2>1. MoneyTyped' /\ RefundsTyped' /\ ShiftTyped' /\ FlightTyped'
      BY <1>8 DEF TakeOff, MoneyTyped, RefundsTyped, ShiftTyped, FlightTyped
    <2>2. OrdersTyped'
      BY <1>8 DEF TakeOff, Storable, OrdersTyped, Statuses
    <2> QED  BY <2>1, <2>2
  <1>9. ASSUME NEW l \in Lines, RemovePieces(o, l) PROVE TypeOK'
    BY <1>8, <1>9 DEF RemovePieces
  <1>10. CASE CancelPending(o)
    <2>1. Pending(line[o]) \in SUBSET Lines
      BY DEF Pending
    <2> QED  BY <1>8, <1>10, <2>1 DEF CancelPending
  <1>11. CASE CancelEmpty(o)
    <2>1. MoneyTyped' /\ RefundsTyped' /\ ShiftTyped' /\ FlightTyped'
      BY <1>11 DEF CancelEmpty, MoneyTyped, RefundsTyped, ShiftTyped, FlightTyped
    <2>2. OrdersTyped'
      BY <1>11 DEF CancelEmpty, OrdersTyped, Statuses
    <2> QED  BY <2>1, <2>2
  <1>12. CASE DiscountRead(o)
    <2>1. OrdersTyped' /\ MoneyTyped' /\ RefundsTyped' /\ ShiftTyped'
      BY <1>12 DEF DiscountRead, OrdersTyped, MoneyTyped, RefundsTyped, ShiftTyped
    <2>2. FlightTyped'
      BY <1>12 DEF DiscountRead, FlightTyped
    <2> QED  BY <2>1, <2>2
  <1>13. ASSUME NEW d \in 0..MaxDiscount, DiscountWrite(o, d) PROVE TypeOK'
    <2>1. MoneyTyped' /\ RefundsTyped' /\ ShiftTyped' /\ FlightTyped'
      BY <1>13 DEF DiscountWrite, MoneyTyped, RefundsTyped, ShiftTyped, FlightTyped
    <2>2. OrdersTyped'
      BY <1>13 DEF DiscountWrite, Storable, OrdersTyped
    <2> QED  BY <2>1, <2>2
  <1>14. CASE WriteOff(o)
    <2>1. MoneyTyped' /\ RefundsTyped' /\ ShiftTyped' /\ FlightTyped'
      BY <1>14 DEF WriteOff, MoneyTyped, RefundsTyped, ShiftTyped, FlightTyped
    <2>2. OrdersTyped'
      BY <1>14 DEF WriteOff, OrdersTyped
    <2> QED  BY <2>1, <2>2
  <1> HIDE DEF TypeOK
  <1>15. (MaxDiscount > 0 /\ DiscountRead(o)) => TypeOK'
    BY <1>12
  <1> QED
    BY <1>1, <1>2, <1>3, <1>4, <1>5, <1>6, <1>7, <1>9, <1>10, <1>11, <1>13, <1>14, <1>15, Zenon
       DEF OrderStep

\* What a refund may take from an order, in amounts and in tips, is money.
LEMMA LeftTyped ==
    ASSUME TypeOK, NEW o \in Orders
    PROVE  AmountLeft(o) \in Money /\ TipLeft(o) \in Money
  <1>1. \A m \in Methods : /\ paidBy[o][m] \in Int /\ refundedBy[o][m] \in Int
                           /\ tipBy[o][m] \in Int /\ tipRefundedBy[o][m] \in Int
    BY DEF TypeOK, MoneyTyped, RefundsTyped, Money
  <1> QED  BY <1>1, MinusType DEF AmountLeft, TipLeft, MontoDevolvible, Money

\* What a refund adds to the sums of its order keeps them money.
LEMMA GiveBackTyped ==
    ASSUME RefundsTyped, NEW o \in Orders, NEW l, NEW given \in Nat,
           NEW p \in Money, NEW q \in Money, GiveBack(o, l, given, p, q)
    PROVE  /\ refundedBy' \in [Orders -> Money]
           /\ tipRefundedBy' \in [Orders -> Money]
           /\ lineBack' \in [Orders -> [Lines -> Nat]]
  BY DEF RefundsTyped, GiveBack, Money

\* So does booking it in the open shift.
LEMMA BookInShiftTyped ==
    ASSUME RefundsTyped, ShiftTyped, ShiftOpen, NEW p \in Money, NEW q \in Money,
           BookInShift(p, q)
    PROVE  back' \in [Shifts -> Money] /\ orphan' \in [0..MaxShifts -> Money]
  BY AmountsAssumption DEF RefundsTyped, ShiftTyped, ShiftOpen, BookInShift, Money, Shifts

\* Cancelling writes a status and a stock of their type.
LEMMA CancelEffectTyped ==
    ASSUME OrdersTyped, NEW o \in Orders, CancelEffect(o)
    PROVE  OrdersTyped'
  BY DEF OrdersTyped, CancelEffect, Statuses

\* The part of a refund of some amount given by each method is money, and it adds up to a
\* natural number.
LEMMA SplitTyped ==
    ASSUME NEW free, NEW amount \in Nat, NEW p \in Splits(free, amount)
    PROVE  p \in Money /\ Sum(p) \in 0..amount /\ \A m \in Methods : p[m] <= free[m]
  BY DEF Splits, Money

\* The steps that move money keep every variable in its type.
LEMMA MoneyStepTyped ==
    ASSUME TypeOK, NEW o \in Orders, MoneyStep(o)
    PROVE  TypeOK'
  <1> USE SetsAssumption, AmountsAssumption
  <1> USE DEF TypeOK, orderVars, moneyVars, refundVars, shiftVars, flightVars
  <1> DEFINE Line0 == Lines \cup {NoLine}
  <1>0. NoMoney \in Money
    BY DEF NoMoney, Money
  <1>1. ASSUME NEW k \in Keys, NEW m \in Methods, NEW amount \in 1..MaxAmount,
               NEW tip \in 0..MaxTip, NEW S \in SUBSET Lines,
               Charge(o, k, m, amount, tip, S)
        PROVE  TypeOK'
    <2>1. RefundsTyped' /\ ShiftTyped' /\ FlightTyped'
      BY <1>1 DEF Charge, RefundsTyped, ShiftTyped, FlightTyped
    <2>2. OrdersTyped'
      BY <1>1 DEF Charge, Delivered, OrdersTyped, Statuses
    <2>3. cur \in Shifts
      BY <1>1 DEF Charge, ShiftOpen, ShiftTyped, Shifts
    <2>4. row'[k] \in Row /\ row' = [row EXCEPT ![k] = row'[k]]
      BY <1>1, <2>3, PaymentsEverCounted DEF Charge, MoneyTyped, Row
    <2>5. fate' \in [Keys -> {"unused", "live", "voided"}] /\ row' \in [Keys -> Row \cup {NoRow}]
      BY <1>1, <2>4 DEF Charge, MoneyTyped
    <2>6. \A j \in Keys : fate'[j] # "unused" => row'[j] \in Row
      BY <1>1, <2>4 DEF Charge, MoneyTyped
    <2>7. paidBy' \in [Orders -> Money] /\ tipBy' \in [Orders -> [Methods -> Int]]
      BY <1>1 DEF Charge, MoneyTyped, Money
    <2> QED  BY <2>1, <2>2, <2>5, <2>6, <2>7 DEF MoneyTyped
  <1>2. ASSUME NEW l \in Line0, NEW amount \in 1..MaxAmount, Devolver(o, l, amount)
        PROVE  TypeOK'
    <2>1. OrdersTyped' /\ MoneyTyped' /\ ShiftTyped' /\ FlightTyped'
      BY <1>2 DEF Devolver, OrdersTyped, MoneyTyped, ShiftTyped, FlightTyped
    <2>2. PICK p \in Splits(AmountLeft(o), amount) :
             GiveBack(o, l, Sum(p), p, NoMoney) /\ BookInShift(p, NoMoney)
      BY <1>2 DEF Devolver
    <2>3. p \in Money /\ Sum(p) \in Nat
      BY SplitTyped
    <2>4. RefundsTyped'
      BY <1>0, <1>2, <2>2, <2>3, GiveBackTyped, BookInShiftTyped DEF Devolver, RefundsTyped
    <2> QED  BY <2>1, <2>4
  <1>3. ASSUME NEW l \in Line0, NEW amount \in 1..MaxAmount, NEW g \in 0..MaxShifts,
               DevolverNoShift(o, l, amount, g)
        PROVE  TypeOK'
    <2>1. OrdersTyped' /\ MoneyTyped' /\ RefundsTyped' /\ ShiftTyped'
      BY <1>3 DEF DevolverNoShift, OrdersTyped, MoneyTyped, RefundsTyped, ShiftTyped
    <2>2. PICK p \in Splits(AmountLeft(o), amount) :
             holding' = [holding EXCEPT ![o] =
               [line |-> l, given |-> Sum(p), amounts |-> p, tips |-> NoMoney,
                gap |-> g, cancels |-> FALSE]]
      BY <1>3 DEF DevolverNoShift
    <2>3. p \in Money /\ Sum(p) \in Nat
      BY SplitTyped
    <2>4. FlightTyped'
      BY <1>0, <1>3, <2>2, <2>3 DEF DevolverNoShift, FlightTyped, Hold
    <2> QED  BY <2>1, <2>4
  <1>4. CASE CancelUnpaid(o)
    <2>1. MoneyTyped' /\ RefundsTyped' /\ ShiftTyped' /\ FlightTyped'
      BY <1>4 DEF CancelUnpaid, MoneyTyped, RefundsTyped, ShiftTyped, FlightTyped
    <2> QED  BY <1>4, <2>1, CancelEffectTyped DEF CancelUnpaid
  <1>5. CASE CancelWithRefund(o)
    <2>1. MoneyTyped' /\ ShiftTyped' /\ FlightTyped'
      BY <1>5 DEF CancelWithRefund, MoneyTyped, ShiftTyped, FlightTyped
    <2>2. OrdersTyped'
      BY <1>5, CancelEffectTyped DEF CancelWithRefund
    <2>3. RefundsTyped'
      BY <1>5, LeftTyped, GiveBackTyped, BookInShiftTyped DEF CancelWithRefund, RefundsTyped
    <2> QED  BY <2>1, <2>2, <2>3
  <1>6. ASSUME NEW g \in 0..MaxShifts, CancelNoShift(o, g) PROVE TypeOK'
    <2>1. OrdersTyped' /\ MoneyTyped' /\ RefundsTyped' /\ ShiftTyped'
      BY <1>6 DEF CancelNoShift, OrdersTyped, MoneyTyped, RefundsTyped, ShiftTyped
    <2>2. FlightTyped'
      BY <1>6, LeftTyped DEF CancelNoShift, FlightTyped, Hold
    <2> QED  BY <2>1, <2>2
  <1>7. CASE CommitNoShift(o)
    <2> DEFINE h == holding[o]
    <2>1. h \in Hold
      BY <1>7 DEF CommitNoShift, FlightTyped
    <2>2. MoneyTyped' /\ ShiftTyped'
      BY <1>7 DEF CommitNoShift, MoneyTyped, ShiftTyped
    <2>3. OrdersTyped'
      BY <1>7, CancelEffectTyped DEF CommitNoShift, OrdersTyped
    <2>4. FlightTyped'
      BY <1>7 DEF CommitNoShift, FlightTyped
    <2>5. GiveBack(o, h.line, h.given, h.amounts, h.tips) /\ h.given \in Nat
          /\ h.amounts \in Money /\ h.tips \in Money /\ h.gap \in 0..MaxShifts
      BY <1>7, <2>1 DEF CommitNoShift, Hold
    <2>6. orphan' \in [0..MaxShifts -> Money]
      <3> DEFINE sum == [m \in Methods |-> orphan[h.gap][m] + h.amounts[m] + h.tips[m]]
      <3>1. orphan' = [orphan EXCEPT ![h.gap] = sum]
        BY <1>7 DEF CommitNoShift
      <3> HIDE DEF h
      <3>2. \A m \in Methods : orphan[h.gap][m] \in Nat /\ h.amounts[m] \in Nat /\ h.tips[m] \in Nat
        BY <2>5 DEF RefundsTyped, Money
      <3>3. sum \in Money
        BY <3>2 DEF Money
      <3> HIDE DEF sum
      <3> QED  BY <2>5, <3>1, <3>3 DEF RefundsTyped
    <2>7. /\ refundedBy' \in [Orders -> Money] /\ tipRefundedBy' \in [Orders -> Money]
          /\ lineBack' \in [Orders -> [Lines -> Nat]]
      BY <2>5, GiveBackTyped
    <2>8. RefundsTyped'
      BY <1>7, <2>6, <2>7 DEF CommitNoShift, RefundsTyped
    <2> QED  BY <2>2, <2>3, <2>4, <2>8
  <1>8. CASE AbortNoShift(o)
    <2>1. OrdersTyped' /\ MoneyTyped' /\ RefundsTyped' /\ ShiftTyped'
      BY <1>8 DEF AbortNoShift, OrdersTyped, MoneyTyped, RefundsTyped, ShiftTyped
    <2>2. FlightTyped'
      BY <1>8 DEF AbortNoShift, FlightTyped
    <2> QED  BY <2>1, <2>2
  <1>9. CASE CancelDelivered(o)
    <2>1. MoneyTyped' /\ RefundsTyped' /\ ShiftTyped' /\ FlightTyped'
      BY <1>9 DEF CancelDelivered, MoneyTyped, RefundsTyped, ShiftTyped, FlightTyped
    <2>2. OrdersTyped'
      BY <1>9 DEF CancelDelivered, OrdersTyped, Statuses
    <2> QED  BY <2>1, <2>2
  <1> HIDE DEF TypeOK
  <1> QED
    BY <1>1, <1>2, <1>3, <1>4, <1>5, <1>6, <1>7, <1>8, <1>9 DEF MoneyStep

\* A voided payment leaves the sums of its order in their types.
LEMMA VoidPaymentTyped ==
    ASSUME TypeOK, NEW k \in Keys, VoidPayment(k)
    PROVE  TypeOK'
  <1> USE DEF TypeOK, orderVars, moneyVars, refundVars, shiftVars, flightVars
  <1>1. OrdersTyped' /\ RefundsTyped' /\ ShiftTyped' /\ FlightTyped'
    BY DEF VoidPayment, OrdersTyped, RefundsTyped, ShiftTyped, FlightTyped
  <1>2. row[k] \in Row
    BY DEF VoidPayment, StillPaid, MoneyTyped
  <1>3. paidBy' \in [Orders -> Money]
    <2>1. refundedBy[row[k].order][row[k].method] <= paidBy[row[k].order][row[k].method] - row[k].amount
      BY DEF VoidPayment, VoidKeepsRefunds
    <2>2. paidBy[row[k].order][row[k].method] - row[k].amount \in Nat
      BY <1>2, <2>1 DEF MoneyTyped, RefundsTyped, Row, Money
    <2> QED  BY <1>2, <2>2 DEF VoidPayment, AmountOf, MoneyTyped, Money, Row
  <1>4. tipBy' \in [Orders -> [Methods -> Int]]
    BY <1>2 DEF VoidPayment, MoneyTyped, Row
  <1>5. MoneyTyped'
    BY <1>2, <1>3, <1>4 DEF VoidPayment, MoneyTyped
  <1> QED  BY <1>1, <1>5

\* Opening and closing a shift keep every variable in its type.
LEMMA ShiftStepTyped ==
    ASSUME TypeOK, ShiftStep
    PROVE  TypeOK'
  <1> USE AmountsAssumption
  <1> USE DEF TypeOK, orderVars, moneyVars, refundVars, shiftVars, flightVars
  <1>1. CASE OpenSession
    <2>1. OrdersTyped' /\ MoneyTyped' /\ FlightTyped'
      BY <1>1 DEF OpenSession, OrdersTyped, MoneyTyped, FlightTyped
    <2>2. cur + 1 \in Shifts
      BY <1>1 DEF OpenSession, ShiftTyped, Shifts
    <2>3. ShiftTyped'
      BY <1>1, <2>2 DEF OpenSession, ShiftTyped, Shifts
    <2>4. RefundsTyped'
      BY <1>1, <2>2 DEF OpenSession, RefundsTyped, ShiftTyped, Unclaimed, NoMoney, Money
    <2> QED  BY <2>1, <2>3, <2>4
  <1>2. ASSUME CloseLock \/ CloseCheckOrders \/ CloseCheckOwing \/ CloseTotals
               \/ CloseCommit \/ CloseRollback
        PROVE  TypeOK'
    <2>1. OrdersTyped' /\ MoneyTyped' /\ RefundsTyped' /\ FlightTyped'
      BY <1>2 DEF CloseLock, CloseCheckOrders, CloseCheckOwing, CloseTotals, CloseCommit,
                  CloseRollback, OrdersTyped, MoneyTyped, RefundsTyped, FlightTyped
    <2>2. cur' \in 0..MaxShifts /\ phase' \in {"none", "open", "closed"} \cup HeldPhases
          /\ (phase' = "none" <=> cur' = 0)
      BY <1>2 DEF CloseLock, CloseCheckOrders, CloseCheckOwing, CloseTotals, CloseCommit,
                  CloseRollback, ShiftTyped, HeldPhases
    <2>3. signed' = [s \in Shifts |-> signed'[s]]
      BY <1>2 DEF CloseLock, CloseCheckOrders, CloseCheckOwing, CloseTotals, CloseCommit,
                  CloseRollback, ShiftTyped
    <2> QED  BY <2>1, <2>2, <2>3 DEF ShiftTyped
  <1> HIDE DEF TypeOK
  <1> QED  BY <1>1, <1>2 DEF ShiftStep

\* Every step of the orders, their money and the shift keeps every variable in its type.
LEMMA TypePreserved ==
    ASSUME TypeOK, [Next]_vars
    PROVE  TypeOK'
  <1>1. CASE UNCHANGED vars
    BY <1>1 DEF vars, orderVars, moneyVars, refundVars, shiftVars, flightVars,
                TypeOK, OrdersTyped, MoneyTyped, RefundsTyped, ShiftTyped, FlightTyped
  <1>2. CASE Next
    BY <1>2, OrderStepTyped, MoneyStepTyped, VoidPaymentTyped, ShiftStepTyped DEF Next
  <1> QED  BY <1>1, <1>2

\* The empty database has its types.
LEMMA TypeInitially == Init => TypeOK
  <1> SUFFICES ASSUME Init PROVE TypeOK
    OBVIOUS
  <1>1. NoMoney \in Money
    BY DEF NoMoney, Money
  <1>2. OrdersTyped /\ FlightTyped
    BY AmountsAssumption DEF Init, OrdersTyped, FlightTyped
  <1>3. MoneyTyped /\ RefundsTyped
    BY <1>1, AmountsAssumption DEF Init, MoneyTyped, RefundsTyped, Money
  <1>4. ShiftTyped
    BY AmountsAssumption DEF Init, ShiftTyped
  <1> QED  BY <1>2, <1>3, <1>4 DEF TypeOK

\* In every behaviour of the orders service each column, sum and step in flight keeps its type:
\* no total, refund or shift leaves the values the tables accept.
THEOREM TypeCorrect == Spec => []TypeOK
  <1> QED  BY TypeInitially, TypePreserved, PTL DEF Spec
-----------------------------------------------------------------------------
(* Payments and refunds. *)
\* A refund waiting to commit with no shift still fits in what its method collected and in the
\* price of its line: the row lock it holds keeps every other refund and every void away.
HoldsCovered ==
    \A o \in Orders : holding[o] # NoHold =>
        /\ \A m \in Methods : refundedBy[o][m] + holding[o].amounts[m] <= paidBy[o][m]
        /\ \A l \in Lines : holding[o].line = l => lineBack[o][l] + holding[o].given <= Price[l]

RefundInv == TypeOK /\ RefundsCovered /\ HoldsCovered

\* The steps of an order alone move no money and end no refund.
LEMMA OrderStepMovesNoMoney ==
    ASSUME NEW o \in Orders, OrderStep(o)
    PROVE  UNCHANGED <<moneyVars, refundVars, shiftVars, holding>>
  BY DEF OrderStep, CreateRead, CreateInsert, AddLines, DeliverLine, DeliverAll, SetStatusRead,
         SetStatusWrite, RemovePieces, CancelPending, TakeOff, CancelEmpty, DiscountRead,
         DiscountWrite, WriteOff, orderVars, moneyVars, refundVars, shiftVars, flightVars

\* Opening or closing a shift moves no money of any order.
LEMMA ShiftStepMovesNoMoney ==
    ASSUME ShiftStep
    PROVE  UNCHANGED <<orderVars, moneyVars, refundedBy, tipRefundedBy, lineBack, flightVars>>
  BY DEF ShiftStep, OpenSession, CloseLock, CloseCheckOrders, CloseCheckOwing, CloseTotals,
         CloseCommit, CloseRollback, refundVars

\* A refund of the amounts p, given of which are for line l, keeps both sums of its order covered
\* when they were and p and given fit in what is left.
LEMMA GiveBackCovered ==
    ASSUME TypeOK, RefundsCovered, NEW o \in Orders, NEW l, NEW given \in Nat,
           NEW p \in Money, NEW q, GiveBack(o, l, given, p, q), UNCHANGED paidBy,
           \A m \in Methods : refundedBy[o][m] + p[m] <= paidBy[o][m],
           \A x \in Lines : l = x => lineBack[o][x] + given <= Price[x]
    PROVE  RefundsCovered'
  <1> SUFFICES ASSUME NEW r \in Orders
               PROVE  /\ \A m \in Methods : refundedBy'[r][m] <= paidBy'[r][m]
                      /\ \A x \in Lines : lineBack'[r][x] <= Price[x]
    BY DEF RefundsCovered
  <1>1. CASE r # o
    BY <1>1 DEF RefundsCovered, GiveBack, TypeOK, RefundsTyped
  <1>2. CASE r = o
    <2>1. \A m \in Methods : refundedBy'[o][m] = refundedBy[o][m] + p[m]
      BY DEF GiveBack, TypeOK, RefundsTyped
    <2>2. \A x \in Lines : lineBack'[o][x] = IF x = l THEN lineBack[o][x] + given ELSE lineBack[o][x]
      BY DEF GiveBack, TypeOK, RefundsTyped
    <2> QED  BY <1>2, <2>1, <2>2 DEF RefundsCovered
  <1> QED  BY <1>1, <1>2

\* The part of a method in what an order keeps fits in what it collected.
LEMMA LeftFits ==
    ASSUME TypeOK, RefundsCovered, NEW o \in Orders, NEW m \in Methods
    PROVE  refundedBy[o][m] + AmountLeft(o)[m] <= paidBy[o][m]
  <1>1. refundedBy[o][m] \in Nat /\ paidBy[o][m] \in Nat
    BY DEF TypeOK, MoneyTyped, RefundsTyped, Money
  <1>2. AmountLeft(o)[m] = Minus(paidBy[o][m], refundedBy[o][m])
    BY DEF AmountLeft, MontoDevolvible
  <1> QED  BY <1>1, <1>2 DEF RefundsCovered, Minus

\* A refund that the rules accept fits in what each method keeps and in the price of its line.
LEMMA RefundFits ==
    ASSUME TypeOK, RefundsCovered, NEW o \in Orders, NEW l \in Lines \cup {NoLine},
           NEW amount \in Nat, Refundable(o, l, amount),
           NEW p \in Splits(AmountLeft(o), amount)
    PROVE  /\ p \in Money /\ Sum(p) \in Nat
           /\ \A m \in Methods : refundedBy[o][m] + p[m] <= paidBy[o][m]
           /\ \A x \in Lines : l = x => lineBack[o][x] + Sum(p) <= Price[x]
  <1>1. p \in Money /\ Sum(p) \in 0..amount /\ \A m \in Methods : p[m] <= AmountLeft(o)[m]
    BY SplitTyped
  <1>2. ASSUME NEW m \in Methods PROVE refundedBy[o][m] + p[m] <= paidBy[o][m]
    <2>1. refundedBy[o][m] \in Nat /\ paidBy[o][m] \in Nat /\ p[m] \in Nat /\ AmountLeft(o)[m] \in Nat
      BY <1>1, LeftTyped DEF TypeOK, MoneyTyped, RefundsTyped, Money
    <2> QED  BY <1>1, <2>1, LeftFits
  <1>3. ASSUME NEW x \in Lines, l = x PROVE lineBack[o][x] + Sum(p) <= Price[x]
    <2>1. lineBack[o][x] \in Nat /\ Price[x] \in Nat
      BY AmountsAssumption DEF TypeOK, RefundsTyped
    <2>2. amount <= Minus(Price[x], lineBack[o][x]) /\ amount > 0
      BY <1>3, SetsAssumption DEF Refundable, MontoDevolvible
    <2> QED  BY <1>1, <2>1, <2>2 DEF Minus
  <1> QED  BY <1>1, <1>2, <1>3

\* Only a refund with no shift waits; any other step leaves those that wait as they are.
LEMMA HoldsKept ==
    ASSUME HoldsCovered, UNCHANGED <<holding, paidBy, refundedBy, lineBack>>
    PROVE  HoldsCovered'
  BY DEF HoldsCovered

\* A step on an order that no refund is waiting on leaves the others as they are.
LEMMA OtherHoldsKept ==
    ASSUME TypeOK, HoldsCovered, NEW o \in Orders, Unlocked(o), UNCHANGED holding,
           \A r \in Orders \ {o} : /\ paidBy'[r] = paidBy[r]
                                   /\ refundedBy'[r] = refundedBy[r]
                                   /\ lineBack'[r] = lineBack[r]
    PROVE  HoldsCovered'
  BY DEF HoldsCovered, Unlocked

\* The steps that move money leave every refund covered, made or waiting.
LEMMA MoneyStepCovered ==
    ASSUME RefundInv, NEW o \in Orders, MoneyStep(o)
    PROVE  RefundsCovered' /\ HoldsCovered'
  <1> USE DEF RefundInv
  <1>1. ASSUME NEW k \in Keys, NEW m \in Methods, NEW amount \in 1..MaxAmount,
               NEW tip \in 0..MaxTip, NEW S \in SUBSET Lines,
               Charge(o, k, m, amount, tip, S)
        PROVE  RefundsCovered' /\ HoldsCovered'
    <2>1. UNCHANGED <<refundedBy, lineBack, holding>> /\ Unlocked(o)
      BY <1>1 DEF Charge, refundVars, flightVars
    <2>2. \A r \in Orders, n \in Methods : paidBy[r][n] <= paidBy'[r][n]
      <3>1. \A r \in Orders, n \in Methods : paidBy[r][n] \in Nat
        BY DEF TypeOK, MoneyTyped, Money
      <3>2. /\ paidBy'[o][m] = paidBy[o][m] + amount
            /\ \A r \in Orders, n \in Methods : r # o \/ n # m => paidBy'[r][n] = paidBy[r][n]
        BY <1>1 DEF Charge, TypeOK, MoneyTyped, Money
      <3> QED  BY <3>1, <3>2, AmountsAssumption
    <2>3. \A r \in Orders \ {o} : paidBy'[r] = paidBy[r]
      BY <1>1 DEF Charge, TypeOK, MoneyTyped
    <2>4. RefundsCovered'
      <3>1. \A r \in Orders, n \in Methods : refundedBy[r][n] \in Nat /\ paidBy[r][n] \in Nat
        BY DEF TypeOK, MoneyTyped, RefundsTyped, Money
      <3>2. TypeOK'
        BY <1>1, MoneyStepTyped
      <3>3. \A r \in Orders, n \in Methods : paidBy'[r][n] \in Nat
        BY <3>2 DEF TypeOK, MoneyTyped, Money
      <3> QED  BY <2>1, <2>2, <3>1, <3>3 DEF RefundsCovered
    <2> QED  BY <2>1, <2>3, <2>4, OtherHoldsKept
  <1>2. ASSUME NEW l \in Lines \cup {NoLine}, NEW amount \in 1..MaxAmount, Devolver(o, l, amount)
        PROVE  RefundsCovered' /\ HoldsCovered'
    <2>1. PICK p \in Splits(AmountLeft(o), amount) : GiveBack(o, l, Sum(p), p, NoMoney)
      BY <1>2 DEF Devolver
    <2>2. /\ UNCHANGED <<paidBy, holding>> /\ Unlocked(o)
          /\ Refundable(o, l, amount) /\ amount \in Nat
      BY <1>2, AmountsAssumption DEF Devolver, Refundable, moneyVars, flightVars
    <2>3. RefundsCovered'
      <3>1. /\ p \in Money /\ Sum(p) \in Nat
            /\ \A m \in Methods : refundedBy[o][m] + p[m] <= paidBy[o][m]
            /\ \A x \in Lines : l = x => lineBack[o][x] + Sum(p) <= Price[x]
        BY <2>2, RefundFits
      <3> QED  BY <2>1, <2>2, <3>1, GiveBackCovered
    <2>4. \A r \in Orders \ {o} : refundedBy'[r] = refundedBy[r] /\ lineBack'[r] = lineBack[r]
      BY <2>1 DEF GiveBack, TypeOK, RefundsTyped
    <2> QED  BY <2>2, <2>3, <2>4, OtherHoldsKept
  <1>3. ASSUME NEW l \in Lines \cup {NoLine}, NEW amount \in 1..MaxAmount,
               NEW g \in 0..MaxShifts, DevolverNoShift(o, l, amount, g)
        PROVE  RefundsCovered' /\ HoldsCovered'
    <2>1. PICK p \in Splits(AmountLeft(o), amount) :
             holding' = [holding EXCEPT ![o] =
               [line |-> l, given |-> Sum(p), amounts |-> p, tips |-> NoMoney,
                gap |-> g, cancels |-> FALSE]]
      BY <1>3 DEF DevolverNoShift
    <2>2. /\ UNCHANGED <<paidBy, refundedBy, lineBack>>
          /\ Refundable(o, l, amount) /\ amount \in Nat
      BY <1>3, AmountsAssumption DEF DevolverNoShift, moneyVars, refundVars
    <2>3. RefundsCovered'
      BY <2>2 DEF RefundsCovered
    <2>4. /\ \A m \in Methods : refundedBy[o][m] + p[m] <= paidBy[o][m]
          /\ \A x \in Lines : l = x => lineBack[o][x] + Sum(p) <= Price[x]
      BY <2>2, RefundFits
    <2>5. /\ holding'[o].amounts = p /\ holding'[o].line = l /\ holding'[o].given = Sum(p)
          /\ \A r \in Orders \ {o} : holding'[r] = holding[r]
      BY <2>1 DEF TypeOK, FlightTyped
    <2>6. \A r \in Orders \ {o} : holding'[r] # NoHold =>
             /\ \A m \in Methods : refundedBy'[r][m] + holding'[r].amounts[m] <= paidBy'[r][m]
             /\ \A x \in Lines : holding'[r].line = x => lineBack'[r][x] + holding'[r].given <= Price[x]
      BY <2>2, <2>5 DEF HoldsCovered
    <2>7. /\ \A m \in Methods : refundedBy'[o][m] + holding'[o].amounts[m] <= paidBy'[o][m]
          /\ \A x \in Lines : holding'[o].line = x => lineBack'[o][x] + holding'[o].given <= Price[x]
      BY <2>2, <2>4, <2>5
    <2> QED  BY <2>3, <2>6, <2>7 DEF HoldsCovered
  <1>4. CASE CancelUnpaid(o) \/ CancelDelivered(o)
    BY <1>4, HoldsKept
       DEF CancelUnpaid, CancelDelivered, moneyVars, refundVars, flightVars, RefundsCovered
  <1>5. CASE CancelWithRefund(o)
    <2>1. /\ UNCHANGED <<paidBy, holding>> /\ Unlocked(o)
          /\ GiveBack(o, NoLine, 0, AmountLeft(o), TipLeft(o))
      BY <1>5 DEF CancelWithRefund, Cancellable, moneyVars, flightVars
    <2>2. RefundsCovered'
      <3> DEFINE p == AmountLeft(o)
                 q == TipLeft(o)
      <3>1. p \in Money /\ \A m \in Methods : refundedBy[o][m] + p[m] <= paidBy[o][m]
        BY LeftTyped, LeftFits
      <3>2. \A x \in Lines : NoLine = x => lineBack[o][x] + 0 <= Price[x]
        BY SetsAssumption
      <3>3. GiveBack(o, NoLine, 0, p, q)
        BY <2>1
      <3> HIDE DEF p, q
      <3> QED  BY <2>1, <3>1, <3>2, <3>3, GiveBackCovered
    <2>3. \A r \in Orders \ {o} : refundedBy'[r] = refundedBy[r] /\ lineBack'[r] = lineBack[r]
      BY <2>1 DEF GiveBack, TypeOK, RefundsTyped
    <2> QED  BY <2>1, <2>2, <2>3, OtherHoldsKept
  <1>6. ASSUME NEW g \in 0..MaxShifts, CancelNoShift(o, g)
        PROVE  RefundsCovered' /\ HoldsCovered'
    <2>1. /\ holding' = [holding EXCEPT ![o] =
               [line |-> NoLine, given |-> 0, amounts |-> AmountLeft(o), tips |-> TipLeft(o),
                gap |-> g, cancels |-> TRUE]]
          /\ UNCHANGED <<paidBy, refundedBy, lineBack>>
      BY <1>6 DEF CancelNoShift, moneyVars, refundVars
    <2>2. RefundsCovered'
      BY <2>1 DEF RefundsCovered
    <2>3. /\ holding'[o].amounts = AmountLeft(o) /\ holding'[o].line = NoLine
          /\ \A r \in Orders \ {o} : holding'[r] = holding[r]
      BY <2>1 DEF TypeOK, FlightTyped
    <2> QED  BY <2>1, <2>2, <2>3, LeftFits, SetsAssumption DEF HoldsCovered
  <1>7. CASE CommitNoShift(o)
    <2> DEFINE h == holding[o]
    <2>1. /\ h \in Hold /\ GiveBack(o, h.line, h.given, h.amounts, h.tips)
          /\ holding' = [holding EXCEPT ![o] = NoHold] /\ UNCHANGED paidBy
      BY <1>7 DEF CommitNoShift, moneyVars, TypeOK, FlightTyped
    <2>2. h.amounts \in Money /\ h.given \in Nat
      BY <2>1 DEF Hold
    <2>3. /\ \A m \in Methods : refundedBy[o][m] + h.amounts[m] <= paidBy[o][m]
          /\ \A l \in Lines : h.line = l => lineBack[o][l] + h.given <= Price[l]
      BY <1>7 DEF CommitNoShift, HoldsCovered
    <2>4. RefundsCovered'
      BY <2>1, <2>2, <2>3, GiveBackCovered
    <2>5. holding'[o] = NoHold
          /\ \A r \in Orders \ {o} : /\ refundedBy'[r] = refundedBy[r] /\ lineBack'[r] = lineBack[r]
                                     /\ holding'[r] = holding[r]
      BY <2>1 DEF GiveBack, TypeOK, RefundsTyped, FlightTyped
    <2> QED  BY <2>1, <2>4, <2>5 DEF HoldsCovered
  <1>8. CASE AbortNoShift(o)
    <2>1. /\ holding' = [holding EXCEPT ![o] = NoHold]
          /\ UNCHANGED <<paidBy, refundedBy, lineBack>>
      BY <1>8 DEF AbortNoShift, moneyVars, refundVars
    <2> QED  BY <2>1 DEF RefundsCovered, HoldsCovered, TypeOK, FlightTyped
  <1> QED
    BY <1>1, <1>2, <1>3, <1>4, <1>5, <1>6, <1>7, <1>8 DEF MoneyStep

\* A void leaves its method with at least what it gave back, and no refund waits on its order.
LEMMA VoidPaymentCovered ==
    ASSUME RefundInv, NEW k \in Keys, VoidPayment(k)
    PROVE  RefundsCovered' /\ HoldsCovered'
  <1> USE DEF RefundInv
  <1> DEFINE o == row[k].order
             m == row[k].method
  <1>1. o \in Orders /\ m \in Methods
    BY DEF VoidPayment, StillPaid, TypeOK, MoneyTyped, Row
  <1>2. /\ paidBy' = [paidBy EXCEPT ![o][m] = @ - row[k].amount]
        /\ refundedBy[o][m] <= paidBy[o][m] - row[k].amount
        /\ Unlocked(o) /\ UNCHANGED <<refundedBy, lineBack, holding>>
    BY DEF VoidPayment, AmountOf, VoidKeepsRefunds, refundVars, flightVars
  <1> HIDE DEF o, m
  <1>3. /\ paidBy'[o][m] = paidBy[o][m] - row[k].amount
        /\ \A n \in Methods \ {m} : paidBy'[o][n] = paidBy[o][n]
        /\ \A r \in Orders \ {o} : paidBy'[r] = paidBy[r]
    BY <1>1, <1>2 DEF TypeOK, MoneyTyped, Money
  <1>4. RefundsCovered'
    BY <1>1, <1>2, <1>3 DEF RefundsCovered
  <1> QED  BY <1>1, <1>2, <1>3, <1>4, OtherHoldsKept

\* Every step keeps the refunds, made and waiting, within what was collected.
LEMMA RefundInvPreserved ==
    ASSUME RefundInv, [Next]_vars
    PROVE  RefundInv'
  <1>1. TypeOK'
    BY TypePreserved DEF RefundInv
  <1>2. ASSUME UNCHANGED <<paidBy, refundedBy, lineBack, holding>>
        PROVE  RefundsCovered' /\ HoldsCovered'
    BY <1>2, HoldsKept DEF RefundInv, RefundsCovered
  <1>3. CASE UNCHANGED vars
    BY <1>1, <1>2, <1>3 DEF RefundInv, vars, moneyVars, refundVars, flightVars
  <1>4. ASSUME NEW o \in Orders, OrderStep(o) PROVE RefundInv'
    BY <1>1, <1>2, <1>4, OrderStepMovesNoMoney DEF RefundInv, moneyVars, refundVars
  <1>5. ASSUME NEW o \in Orders, MoneyStep(o) PROVE RefundInv'
    BY <1>1, <1>5, MoneyStepCovered DEF RefundInv
  <1>6. ASSUME NEW k \in Keys, VoidPayment(k) PROVE RefundInv'
    BY <1>1, <1>6, VoidPaymentCovered DEF RefundInv
  <1>7. CASE ShiftStep
    BY <1>1, <1>2, <1>7, ShiftStepMovesNoMoney DEF RefundInv, moneyVars, flightVars
  <1> QED  BY <1>3, <1>4, <1>5, <1>6, <1>7 DEF Next

\* At first nothing is collected and nothing given back.
LEMMA RefundInvInitially == Init => RefundInv
  <1> SUFFICES ASSUME Init PROVE RefundInv
    OBVIOUS
  <1>1. RefundsCovered /\ HoldsCovered
    BY AmountsAssumption DEF Init, NoMoney, RefundsCovered, HoldsCovered
  <1> QED  BY <1>1, TypeInitially DEF RefundInv

\* Refunds, made and waiting, stay covered in every reachable state.
LEMMA RefundInvAlways == Spec => []RefundInv
  <1> QED  BY RefundInvInitially, RefundInvPreserved, PTL DEF Spec

\* Whatever the interleaving of charges, voids, partial refunds and cancellations, with or without
\* a shift, no method of an order gives back more than it holds of it and no line more than it costs.
THEOREM RefundsAlwaysCovered == Spec => []RefundsCovered
  <1>1. RefundInv => RefundsCovered
    BY DEF RefundInv
  <1> QED  BY <1>1, RefundInvAlways, PTL
-----------------------------------------------------------------------------
\* Of the steps that move money only a charge touches a key, what it bought or what is collected.
LEMMA OnlyChargeCollects ==
    ASSUME NEW o \in Orders, MoneyStep(o)
    PROVE  \/ \E k \in Keys, m \in Methods, amount \in 1..MaxAmount, tip \in 0..MaxTip,
                 S \in SUBSET Lines : Charge(o, k, m, amount, tip, S)
           \/ UNCHANGED <<fate, row, paidBy>>
  BY DEF MoneyStep, Devolver, DevolverNoShift, CancelUnpaid, CancelWithRefund, CancelNoShift,
         CommitNoShift, AbortNoShift, CancelDelivered, moneyVars

\* What each key may go through in one step.
KeyStep ==
    \A k \in Keys : fate[k] # "unused" =>
        /\ row'[k] = row[k]
        /\ fate'[k] = fate[k] \/ (fate[k] = "live" /\ fate'[k] = "voided")

\* Every step keeps what a used key bought.
LEMMA KeyStepAlways ==
    ASSUME TypeOK, [Next]_vars
    PROVE  KeyStep
  <1>1. CASE UNCHANGED <<fate, row>>
    BY <1>1 DEF KeyStep
  <1>2. ASSUME NEW o \in Orders, NEW k \in Keys, NEW m \in Methods, NEW amount \in 1..MaxAmount,
               NEW tip \in 0..MaxTip, NEW S \in SUBSET Lines, Charge(o, k, m, amount, tip, S)
        PROVE  KeyStep
    BY <1>2 DEF Charge, KeyFree, KeyStep, TypeOK, MoneyTyped
  <1>3. ASSUME NEW k \in Keys, VoidPayment(k) PROVE KeyStep
    BY <1>3 DEF VoidPayment, StillPaid, KeyStep, TypeOK, MoneyTyped
  <1>4. CASE UNCHANGED vars
    BY <1>1, <1>4 DEF vars, moneyVars
  <1>5. ASSUME NEW o \in Orders, OrderStep(o) PROVE KeyStep
    BY <1>1, <1>5, OrderStepMovesNoMoney DEF moneyVars
  <1>6. ASSUME NEW o \in Orders, MoneyStep(o) PROVE KeyStep
    BY <1>1, <1>2, <1>6, OnlyChargeCollects
  <1>7. CASE ShiftStep
    BY <1>1, <1>7, ShiftStepMovesNoMoney DEF moneyVars
  <1> QED  BY <1>3, <1>4, <1>5, <1>6, <1>7 DEF Next

\* A retried charge, answered or voided since, buys nothing again, and no payment is rewritten,
\* with any number of orders, keys and shifts.
THEOREM KeysBuyOnce == Spec => KeyBuysOnce
  <1>1. TypeOK /\ [Next]_vars => [KeyStep]_vars
    BY KeyStepAlways
  <1> QED  BY <1>1, TypeCorrect, PTL DEF Spec, KeyBuysOnce, KeyStep
-----------------------------------------------------------------------------
\* The ledger's view of a key is an entry for as long as its payment, live or voided, stays.
Entries == [k \in Keys |-> EntryOf(k)]

\* A charge collects.
LEMMA ChargeCollects ==
    ASSUME TypeOK, NEW o \in Orders, NEW k \in Keys, NEW m \in Methods,
           NEW amount \in 1..MaxAmount, NEW tip \in 0..MaxTip, NEW S \in SUBSET Lines,
           Charge(o, k, m, amount, tip, S)
    PROVE  Ledger!Collect(k, o, m, amount)
  <1>1. /\ fate[k] = "unused" /\ fate' = [fate EXCEPT ![k] = "live"]
        /\ paidBy' = [paidBy EXCEPT ![o][m] = @ + amount]
        /\ refundedBy' = refundedBy
    BY DEF Charge, KeyFree, refundVars
  <1>2. /\ row'[k].order = o /\ row'[k].method = m /\ row'[k].amount = amount
        /\ \A j \in Keys \ {k} : row'[j] = row[j]
    BY DEF Charge, TypeOK, MoneyTyped
  <1>3. Entries' = [Entries EXCEPT ![k] = [order |-> o, method |-> m, amount |-> amount]]
    BY <1>1, <1>2 DEF Entries, EntryOf, TypeOK, MoneyTyped
  <1> QED  BY <1>1, <1>3 DEF Ledger!Collect, Entries

\* A void undoes a payment whose method keeps enough for what it gave back.
LEMMA VoidVoids ==
    ASSUME TypeOK, NEW k \in Keys, VoidPayment(k)
    PROVE  Ledger!Void(k)
  <1>1. /\ fate[k] = "live" /\ fate' = [fate EXCEPT ![k] = "voided"]
        /\ UNCHANGED <<row, refundedBy>>
    BY DEF VoidPayment, StillPaid, refundVars
  <1>2. Entries' = Entries
    BY <1>1 DEF Entries, EntryOf, TypeOK, MoneyTyped
  <1>3. /\ Entries[k].order = row[k].order /\ Entries[k].method = row[k].method
        /\ Entries[k].amount = row[k].amount
    BY <1>1 DEF Entries, EntryOf
  <1>4. LET o == row[k].order
            m == row[k].method IN
        /\ refundedBy[o][m] <= paidBy[o][m] - row[k].amount
        /\ paidBy' = [paidBy EXCEPT ![o][m] = @ - row[k].amount]
    BY DEF VoidPayment, VoidKeepsRefunds, AmountOf
  <1> QED  BY <1>1, <1>2, <1>3, <1>4 DEF Ledger!Void, Entries

\* A refund gives back part of what the methods of one order hold.
LEMMA RefundGivesBack ==
    ASSUME TypeOK, NEW o \in Orders, NEW l, NEW given, NEW p \in Money, NEW q,
           GiveBack(o, l, given, p, q), TypeOK', RefundsCovered',
           UNCHANGED <<fate, row, paidBy>>
    PROVE  Ledger!GiveBack(o)
  <1>1. refundedBy' \in [Orders -> [Methods -> Nat]]
    BY DEF TypeOK, RefundsTyped, Money
  <1>2. /\ \A r \in Orders \ {o} : refundedBy'[r] = refundedBy[r]
        /\ \A m \in Methods : refundedBy'[o][m] = refundedBy[o][m] + p[m]
    BY DEF GiveBack, TypeOK, RefundsTyped
  <1>3. \A m \in Methods : refundedBy'[o][m] \in refundedBy[o][m] .. paidBy[o][m]
    <2>1. \A m \in Methods : /\ refundedBy[o][m] \in Nat /\ p[m] \in Nat
                             /\ refundedBy'[o][m] <= paidBy[o][m] /\ paidBy[o][m] \in Nat
      BY DEF TypeOK, MoneyTyped, RefundsTyped, RefundsCovered, Money
    <2> QED  BY <1>2, <2>1
  <1>4. Entries' = Entries
    BY DEF Entries, EntryOf
  <1> QED  BY <1>1, <1>2, <1>3, <1>4 DEF Ledger!GiveBack, Entries

\* Every step that moves money collects, gives back, or is unseen by the ledger.
LEMMA MoneyStepInLedger ==
    ASSUME RefundInv, RefundInv', NEW o \in Orders, MoneyStep(o)
    PROVE  [Ledger!Next]_(Ledger!vars)
  <1> USE DEF RefundInv
  <1>1. ASSUME NEW k \in Keys, NEW m \in Methods, NEW amount \in 1..MaxAmount,
               NEW tip \in 0..MaxTip, NEW S \in SUBSET Lines, Charge(o, k, m, amount, tip, S)
        PROVE  Ledger!Next
    BY <1>1, ChargeCollects DEF Ledger!Next
  <1>2. ASSUME UNCHANGED <<fate, row, paidBy, refundedBy>>
        PROVE  UNCHANGED Ledger!vars
    BY <1>2 DEF Ledger!vars, EntryOf
  <1>3. ASSUME NEW l, NEW given, NEW p \in Money, NEW q, GiveBack(o, l, given, p, q),
               UNCHANGED <<fate, row, paidBy>>
        PROVE  Ledger!Next
    BY <1>3, RefundGivesBack DEF Ledger!Next
  <1>4. ASSUME NEW l \in Lines \cup {NoLine}, NEW amount \in 1..MaxAmount, Devolver(o, l, amount)
        PROVE  Ledger!Next
    <2>1. PICK p \in Splits(AmountLeft(o), amount) : GiveBack(o, l, Sum(p), p, NoMoney)
      BY <1>4 DEF Devolver
    <2>2. p \in Money
      BY AmountsAssumption, SplitTyped
    <2> QED  BY <1>3, <1>4, <2>1, <2>2 DEF Devolver, moneyVars
  <1>5. CASE CancelWithRefund(o)
    <2>1. /\ GiveBack(o, NoLine, 0, AmountLeft(o), TipLeft(o))
          /\ UNCHANGED <<fate, row, paidBy>>
      BY <1>5 DEF CancelWithRefund, moneyVars
    <2> QED  BY <1>3, <2>1, LeftTyped
  <1>6. CASE CommitNoShift(o)
    <2>1. /\ holding[o] \in Hold /\ UNCHANGED <<fate, row, paidBy>>
          /\ GiveBack(o, holding[o].line, holding[o].given, holding[o].amounts, holding[o].tips)
      BY <1>6 DEF CommitNoShift, moneyVars, TypeOK, FlightTyped
    <2> QED  BY <1>3, <2>1 DEF Hold
  <1>7. ASSUME \/ \E l \in Lines \cup {NoLine}, amount \in 1..MaxAmount, g \in 0..MaxShifts :
                     DevolverNoShift(o, l, amount, g)
               \/ CancelUnpaid(o) \/ CancelDelivered(o) \/ AbortNoShift(o)
               \/ \E g \in 0..MaxShifts : CancelNoShift(o, g)
        PROVE  UNCHANGED <<fate, row, paidBy, refundedBy>>
    BY <1>7 DEF DevolverNoShift, CancelUnpaid, CancelDelivered, AbortNoShift, CancelNoShift,
                moneyVars, refundVars
  <1> QED
    BY <1>1, <1>2, <1>4, <1>5, <1>6, <1>7 DEF MoneyStep

\* Every step is one of the ledger's, or one it does not see.
LEMMA LedgerStep ==
    ASSUME RefundInv, RefundInv', [Next]_vars
    PROVE  [Ledger!Next]_(Ledger!vars)
  <1>1. ASSUME UNCHANGED <<fate, row, paidBy, refundedBy>>
        PROVE  UNCHANGED Ledger!vars
    BY <1>1 DEF Ledger!vars, EntryOf
  <1>2. CASE UNCHANGED vars
    BY <1>1, <1>2 DEF vars, moneyVars, refundVars
  <1>3. ASSUME NEW o \in Orders, OrderStep(o) PROVE UNCHANGED Ledger!vars
    BY <1>1, <1>3, OrderStepMovesNoMoney DEF moneyVars, refundVars
  <1>4. ASSUME NEW k \in Keys, VoidPayment(k) PROVE Ledger!Next
    BY <1>4, VoidVoids DEF Ledger!Next, RefundInv
  <1>5. CASE ShiftStep
    BY <1>1, <1>5, ShiftStepMovesNoMoney DEF moneyVars
  <1> QED  BY <1>2, <1>3, <1>4, <1>5, MoneyStepInLedger DEF Next

\* The empty database is an empty ledger.
LEMMA LedgerInitially == Init => Ledger!Init
  BY DEF Init, Ledger!Init, EntryOf, NoMoney

\* The orders service, its shifts and its races implement the ledger of charges: every step
\* collects once per key, undoes a payment once, gives back what is held, or is a stutter.
THEOREM ImplementsLedger == Spec => LedgerImplemented
  <1>1. RefundInv /\ RefundInv' /\ [Next]_vars => [Ledger!Next]_(Ledger!vars)
    BY LedgerStep
  <1> QED
    BY <1>1, LedgerInitially, RefundInvAlways, PTL DEF Spec, LedgerImplemented, Ledger!Spec
-----------------------------------------------------------------------------
\* The payments an order ever had are numbered within their count.
NumbersBelow ==
    \A k \in Keys : fate[k] # "unused" =>
        row[k].number <= Cardinality(PaymentsEver(row[k].order))

NumberInv == TypeOK /\ NumbersUnique /\ NumbersBelow

\* A charge takes the number after those of all the payments its order ever had.
LEMMA ChargeNumbers ==
    ASSUME NumberInv, NEW o \in Orders, NEW k \in Keys, NEW m, NEW amount, NEW tip, NEW S,
           Charge(o, k, m, amount, tip, S)
    PROVE  NumbersUnique' /\ NumbersBelow'
  <1> DEFINE n == Cardinality(PaymentsEver(o))
  <1>1. /\ fate[k] = "unused" /\ fate'[k] = "live"
        /\ row'[k].order = o /\ row'[k].number = n + 1
        /\ \A j \in Keys \ {k} : fate'[j] = fate[j] /\ row'[j] = row[j]
    BY DEF NumberInv, Charge, KeyFree, TypeOK, MoneyTyped
  <1>2. n \in Nat /\ IsFiniteSet(PaymentsEver(o))
    BY PaymentsEverCounted
  <1> DEFINE EverNext(r) == {j \in Keys : fate'[j] # "unused" /\ row'[j].order = r}
  <1>3. EverNext(o) = PaymentsEver(o) \cup {k} /\ k \notin PaymentsEver(o)
    BY <1>1 DEF PaymentsEver
  <1>4. Cardinality(EverNext(o)) = n + 1
    BY <1>2, <1>3, FS_AddElement
  <1>5. \A j \in Keys \ {k} : fate[j] # "unused" =>
           /\ row[j].order \in Orders
           /\ row[j].number \in Nat
           /\ row[j].number <= Cardinality(PaymentsEver(row[j].order))
    BY DEF NumberInv, NumbersBelow, TypeOK, MoneyTyped, Row
  <1>6. \A r \in Orders \ {o} : EverNext(r) = PaymentsEver(r)
    BY <1>1 DEF PaymentsEver
  <1>7. NumbersBelow'
    <2>1. (\A j \in Keys : fate'[j] # "unused" =>
              row'[j].number <= Cardinality(EverNext(row'[j].order))) => NumbersBelow'
      BY DEF NumbersBelow, PaymentsEver
    <2> HIDE DEF EverNext
    <2> SUFFICES ASSUME NEW j \in Keys, fate'[j] # "unused"
                 PROVE  row'[j].number <= Cardinality(EverNext(row'[j].order))
      BY <2>1
    <2>2. CASE j = k
      BY <1>1, <1>2, <1>4, <2>2
    <2>3. CASE j # k /\ row[j].order # o
      BY <1>1, <1>5, <1>6, <2>3
    <2>4. CASE j # k /\ row[j].order = o
      BY <1>1, <1>2, <1>4, <1>5, <2>4
    <2> QED  BY <2>2, <2>3, <2>4
  <1>8. NumbersUnique'
    <2>1. \A j \in Keys \ {k} : fate[j] # "unused" /\ row[j].order = o => row[j].number # n + 1
      BY <1>2, <1>5
    <2> QED  BY <1>1, <2>1 DEF NumberInv, NumbersUnique
  <1> QED  BY <1>7, <1>8

\* A void moves a payment but keeps its number taken; nothing else touches one.
LEMMA NumberInvPreserved ==
    ASSUME NumberInv, [Next]_vars
    PROVE  NumberInv'
  <1>1. TypeOK'
    BY TypePreserved DEF NumberInv
  <1>2. ASSUME row' = row, \A k \in Keys : fate'[k] # "unused" <=> fate[k] # "unused"
        PROVE  NumbersUnique' /\ NumbersBelow'
    <2>1. \A o : PaymentsEver(o)' = PaymentsEver(o)
      BY <1>2 DEF PaymentsEver
    <2>2. NumbersUnique'
      BY <1>2 DEF NumberInv, NumbersUnique
    <2>3. NumbersBelow'
      BY <1>2, <2>1 DEF NumberInv, NumbersBelow
    <2> QED  BY <2>2, <2>3
  <1>3. CASE UNCHANGED <<fate, row>>
    BY <1>1, <1>2, <1>3 DEF NumberInv
  <1>4. ASSUME NEW o \in Orders, OrderStep(o) PROVE NumberInv'
    BY <1>3, <1>4, OrderStepMovesNoMoney DEF moneyVars
  <1>5. ASSUME NEW o \in Orders, MoneyStep(o) PROVE NumberInv'
    BY <1>1, <1>3, <1>5, OnlyChargeCollects, ChargeNumbers DEF NumberInv
  <1>6. ASSUME NEW k \in Keys, VoidPayment(k) PROVE NumberInv'
    <2>1. row' = row /\ fate[k] = "live" /\ fate' = [fate EXCEPT ![k] = "voided"]
      BY <1>6 DEF VoidPayment, StillPaid
    <2>2. \A j \in Keys : fate'[j] # "unused" <=> fate[j] # "unused"
      BY <2>1 DEF NumberInv, TypeOK, MoneyTyped
    <2> QED  BY <1>1, <1>2, <2>1, <2>2 DEF NumberInv
  <1>7. CASE ShiftStep
    BY <1>3, <1>7, ShiftStepMovesNoMoney DEF moneyVars
  <1>8. CASE UNCHANGED vars
    BY <1>3, <1>8 DEF vars, moneyVars
  <1> QED  BY <1>4, <1>5, <1>6, <1>7, <1>8 DEF Next

\* At first no payment has a number.
LEMMA NumberInvInitially == Init => NumberInv
  BY TypeInitially DEF Init, NumberInv, NumbersUnique, NumbersBelow

\* No two payments of an order ever carry the same number, however many are voided in between.
THEOREM NumbersNeverRepeat == Spec => []NumbersUnique
  <1>1. NumberInv => NumbersUnique
    BY DEF NumberInv
  <1> QED  BY <1>1, NumberInvInitially, NumberInvPreserved, PTL DEF Spec
-----------------------------------------------------------------------------
(***************************************************************************)
(* The shifts: the totals a close signs stay those of its shift.           *)
(***************************************************************************)
\* What a key adds to what shift s took by method m.
Part(s, m, k) ==
    IF fate[k] = "live" /\ row[k].shift = s /\ row[k].method = m
      THEN row[k].amount + row[k].tip ELSE 0

\* What a shift expects depends on its own payments and refunds alone.
LEMMA ExpectedKept ==
    ASSUME NEW s \in Shifts, back'[s] = back[s],
           \A k \in Keys, m \in Methods : Part(s, m, k)' = Part(s, m, k)
    PROVE  Expected(s)' = Expected(s)
  <1>1. \A m \in Methods : [k \in Keys |-> Part(s, m, k)]' = [k \in Keys |-> Part(s, m, k)]
    OBVIOUS
  <1>2. \A m \in Methods : Taken(s, m)' = Taken(s, m)
    BY <1>1 DEF Taken, Part
  <1> QED  BY <1>2 DEF Expected

\* While the shift is open, only those before it are closed.
LEMMA OpenIsLast ==
    ASSUME TypeOK, ShiftOpen, NEW s \in Shifts, Closed(s)
    PROVE  s < cur
  BY DEF ShiftOpen, Closed

\* A step that leaves the shifts as they are and changes money of the open one alone.
LEMMA OpenShiftStep ==
    ASSUME TypeOK, SignedStands, ShiftOpen, UNCHANGED shiftVars,
           \A s \in Shifts \ {cur} :
              /\ back'[s] = back[s]
              /\ \A k \in Keys, m \in Methods : Part(s, m, k)' = Part(s, m, k)
    PROVE  SignedStands'
  <1> SUFFICES ASSUME NEW s \in Shifts, Closed(s)' PROVE signed'[s] = Expected(s)'
    BY DEF SignedStands
  <1>1. Closed(s) /\ signed'[s] = signed[s]
    BY DEF Closed, shiftVars
  <1>2. s # cur
    BY <1>1, OpenIsLast DEF TypeOK, ShiftTyped, Shifts
  <1> QED  BY <1>1, <1>2, ExpectedKept DEF SignedStands

\* A step that leaves payments, refunds booked in a shift and shifts alone.
LEMMA NoShiftStep ==
    ASSUME SignedStands, UNCHANGED <<fate, row, back, shiftVars>>
    PROVE  SignedStands'
  BY DEF SignedStands, Closed, Expected, Taken, shiftVars

\* Charges and refunds are booked in the open shift or, with none open, in no shift.
LEMMA MoneyStepSigned ==
    ASSUME TypeOK, SignedStands, NEW o \in Orders, MoneyStep(o)
    PROVE  SignedStands'
  <1>1. ASSUME NEW k \in Keys, NEW m \in Methods, NEW amount \in 1..MaxAmount,
               NEW tip \in 0..MaxTip, NEW S \in SUBSET Lines, Charge(o, k, m, amount, tip, S)
        PROVE  SignedStands'
    <2>1. /\ ShiftOpen /\ UNCHANGED shiftVars /\ back' = back /\ fate[k] = "unused"
          /\ row'[k].shift = cur
          /\ \A j \in Keys \ {k} : row'[j] = row[j] /\ fate'[j] = fate[j]
      BY <1>1 DEF Charge, KeyFree, refundVars, TypeOK, MoneyTyped
    <2>2. \A s \in Shifts \ {cur}, j \in Keys, n \in Methods : Part(s, n, j)' = Part(s, n, j)
      BY <2>1 DEF Part
    <2> QED  BY <2>1, <2>2, OpenShiftStep
  <1>2. ASSUME NEW p, NEW q, ShiftOpen, BookInShift(p, q), UNCHANGED <<moneyVars, shiftVars>>
        PROVE  SignedStands'
    <2>1. \A s \in Shifts \ {cur} : back'[s] = back[s]
      BY <1>2 DEF BookInShift, TypeOK, RefundsTyped
    <2>2. \A s \in Shifts, j \in Keys, n \in Methods : Part(s, n, j)' = Part(s, n, j)
      BY <1>2 DEF Part, moneyVars
    <2> QED  BY <1>2, <2>1, <2>2, OpenShiftStep
  <1>3. CASE \E l \in Lines \cup {NoLine}, amount \in 1..MaxAmount : Devolver(o, l, amount)
    BY <1>2, <1>3 DEF Devolver
  <1>4. CASE CancelWithRefund(o)
    BY <1>2, <1>4 DEF CancelWithRefund
  <1>5. CASE CommitNoShift(o)
    BY <1>5, NoShiftStep DEF CommitNoShift, moneyVars
  <1>6. ASSUME \/ \E l \in Lines \cup {NoLine}, amount \in 1..MaxAmount, g \in 0..MaxShifts :
                     DevolverNoShift(o, l, amount, g)
               \/ CancelUnpaid(o) \/ CancelDelivered(o) \/ AbortNoShift(o)
               \/ \E g \in 0..MaxShifts : CancelNoShift(o, g)
        PROVE  SignedStands'
    BY <1>6, NoShiftStep DEF DevolverNoShift, CancelUnpaid, CancelDelivered, AbortNoShift,
                CancelNoShift, moneyVars, refundVars
  <1> QED  BY <1>1, <1>3, <1>4, <1>5, <1>6 DEF MoneyStep

\* A void takes a payment of the open shift out of it.
LEMMA VoidSigned ==
    ASSUME TypeOK, SignedStands, NEW k \in Keys, VoidPayment(k)
    PROVE  SignedStands'
  <1>1. /\ ShiftOpen /\ UNCHANGED shiftVars /\ back' = back /\ row' = row
        /\ row[k].shift = cur /\ \A j \in Keys \ {k} : fate'[j] = fate[j]
    BY DEF VoidPayment, PaymentOfOpenShift, refundVars, TypeOK, MoneyTyped
  <1>2. \A s \in Shifts \ {cur}, j \in Keys, n \in Methods : Part(s, n, j)' = Part(s, n, j)
    BY <1>1 DEF Part
  <1> QED  BY <1>1, <1>2, OpenShiftStep

\* Opening gives the next shift its refunds; closing signs what it expects while it is held.
LEMMA ShiftStepSigned ==
    ASSUME TypeOK, SignedStands, ShiftStep
    PROVE  SignedStands'
  <1>1. fate' = fate /\ row' = row
    BY ShiftStepMovesNoMoney DEF moneyVars
  <1>2. \A s \in Shifts, j \in Keys, n \in Methods : Part(s, n, j)' = Part(s, n, j)
    BY <1>1 DEF Part
  <1> SUFFICES ASSUME NEW s \in Shifts, Closed(s)' PROVE signed'[s] = Expected(s)'
    BY DEF SignedStands
  <1>3. CASE OpenSession
    <2>1. s < cur + 1 /\ cur \in Nat /\ (phase = "none" <=> cur = 0) /\ phase \in {"none", "closed"}
      BY <1>3, AmountsAssumption DEF OpenSession, NoShift, Closed, TypeOK, ShiftTyped
    <2>2. Closed(s)
      BY <2>1 DEF Closed, Shifts
    <2>3. back'[s] = back[s] /\ signed'[s] = signed[s]
      BY <1>3, <2>1 DEF OpenSession, TypeOK, RefundsTyped, Shifts
    <2> QED  BY <1>2, <2>2, <2>3, ExpectedKept DEF SignedStands
  <1>4. ASSUME CloseLock \/ CloseCheckOrders \/ CloseCheckOwing \/ CloseCommit
        PROVE  signed'[s] = Expected(s)'
    <2>1. Closed(s) /\ back' = back /\ signed' = signed
      BY <1>4 DEF CloseLock, CloseCheckOrders, CloseCheckOwing, CloseCommit, Closed, refundVars
    <2> QED  BY <1>2, <2>1, ExpectedKept DEF SignedStands
  <1>5. CASE CloseTotals
    <2>1. back' = back /\ cur' = cur /\ signed' = [signed EXCEPT ![cur] = Expected(cur)]
      BY <1>5 DEF CloseTotals, refundVars
    <2>2. Expected(s)' = Expected(s)
      BY <1>2, <2>1, ExpectedKept
    <2>3. CASE s = cur
      BY <2>1, <2>2, <2>3 DEF TypeOK, ShiftTyped
    <2>4. CASE s # cur
      <3>1. Closed(s) /\ signed'[s] = signed[s]
        BY <2>1, <2>4 DEF Closed, TypeOK, ShiftTyped
      <3> QED  BY <2>2, <3>1 DEF SignedStands
    <2> QED  BY <2>3, <2>4
  <1>6. CASE CloseRollback
    <2>1. back' = back /\ signed' = [signed EXCEPT ![cur] = NoMoney] /\ s < cur
      BY <1>6 DEF CloseRollback, Closed, refundVars
    <2>2. Closed(s) /\ signed'[s] = signed[s]
      BY <2>1, AmountsAssumption DEF Closed, TypeOK, ShiftTyped, Shifts
    <2> QED  BY <1>2, <2>1, <2>2, ExpectedKept DEF SignedStands
  <1> QED  BY <1>3, <1>4, <1>5, <1>6 DEF ShiftStep

\* Every step leaves the signed totals those of their shifts.
LEMMA SignedPreserved ==
    ASSUME TypeOK, SignedStands, [Next]_vars
    PROVE  SignedStands'
  <1>1. CASE UNCHANGED vars
    BY <1>1, NoShiftStep DEF vars, moneyVars, refundVars
  <1>2. ASSUME NEW o \in Orders, OrderStep(o) PROVE SignedStands'
    BY <1>2, OrderStepMovesNoMoney, NoShiftStep DEF moneyVars, refundVars
  <1> QED  BY <1>1, <1>2, MoneyStepSigned, VoidSigned, ShiftStepSigned DEF Next

\* At first no shift is closed.
LEMMA SignedInitially == Init => SignedStands
  BY DEF Init, SignedStands, Closed, Shifts

\* The totals a close has signed are forever those of its shift: whatever charge, void, refund or
\* opening races with it, none lands in a signed shift.
THEOREM SignedTotalsStand == Spec => []SignedStands
  <1>1. TypeOK /\ TypeOK' /\ SignedStands /\ [Next]_vars => SignedStands'
    BY SignedPreserved
  <1> QED  BY <1>1, SignedInitially, TypeCorrect, PTL DEF Spec
-----------------------------------------------------------------------------
(* The bill and the stock. *)
\* A step of one order leaves the pieces and the bill of every other as they are.
LEMMA OtherOrdersKept ==
    ASSUME TypeOK, NEW o \in Orders, OrderStep(o) \/ MoneyStep(o), NEW r \in Orders \ {o}
    PROVE  /\ status'[r] = status[r] /\ line'[r] = line[r] /\ out'[r] = out[r]
           /\ discount'[r] = discount[r] /\ total'[r] = total[r]
           /\ advancing'[r] = advancing[r] /\ discounting'[r] = discounting[r]
           /\ holding'[r] = holding[r]
  <1> USE DEF TypeOK, OrdersTyped, FlightTyped, orderVars, moneyVars, refundVars, shiftVars,
              flightVars
  <1>1. CASE OrderStep(o)
    <2>1. CASE CreateRead(o)
      BY <2>1 DEF CreateRead
    <2>2. CASE \E L \in SUBSET Lines, d \in 0..MaxDiscount : CreateInsert(o, L, d)
      BY <2>2 DEF CreateInsert
    <2>3. CASE \E L \in SUBSET Lines : AddLines(o, L)
      BY <2>3 DEF AddLines
    <2>4. CASE (\E l \in Lines : DeliverLine(o, l)) \/ DeliverAll(o) \/ CancelEmpty(o)
      BY <2>4 DEF DeliverLine, DeliverAll, CancelEmpty
    <2>5. CASE \/ \E next \in Asked : SetStatusRead(o, next)
               \/ SetStatusWrite(o)
               \/ MaxDiscount > 0 /\ DiscountRead(o)
               \/ \E d \in 0..MaxDiscount : DiscountWrite(o, d)
               \/ WriteOff(o)
      BY <2>5 DEF SetStatusRead, SetStatusWrite, DiscountRead, DiscountWrite, WriteOff
    <2>6. CASE (\E l \in Lines : RemovePieces(o, l)) \/ CancelPending(o)
      BY <2>6 DEF RemovePieces, CancelPending, TakeOff
    <2> HIDE DEF TypeOK, OrdersTyped, FlightTyped
    <2> QED  BY <1>1, <2>1, <2>2, <2>3, <2>4, <2>5, <2>6 DEF OrderStep
  <1>2. CASE MoneyStep(o)
    <2>1. CASE \E k \in Keys, m \in Methods, amount \in 1..MaxAmount, tip \in 0..MaxTip,
                  S \in SUBSET Lines : Charge(o, k, m, amount, tip, S)
      BY <2>1 DEF Charge
    <2>2. CASE \/ \E l \in Lines \cup {NoLine}, amount \in 1..MaxAmount : Devolver(o, l, amount)
               \/ \E l \in Lines \cup {NoLine}, amount \in 1..MaxAmount, g \in 0..MaxShifts :
                     DevolverNoShift(o, l, amount, g)
               \/ \E g \in 0..MaxShifts : CancelNoShift(o, g)
               \/ AbortNoShift(o)
      BY <2>2 DEF Devolver, DevolverNoShift, CancelNoShift, AbortNoShift
    <2>3. CASE CancelUnpaid(o) \/ CancelWithRefund(o) \/ CommitNoShift(o) \/ CancelDelivered(o)
      BY <2>3 DEF CancelUnpaid, CancelWithRefund, CommitNoShift, CancelDelivered, CancelEffect
    <2> QED  BY <1>2, <2>1, <2>2, <2>3 DEF MoneyStep
  <1> QED  BY <1>1, <1>2

\* Opening and closing shifts, and voiding a payment, leave every order as it is.
LEMMA OrdersKept ==
    ASSUME ShiftStep \/ \E k \in Keys : VoidPayment(k)
    PROVE  UNCHANGED <<orderVars, flightVars>>
  BY ShiftStepMovesNoMoney DEF VoidPayment
-----------------------------------------------------------------------------
\* What a step has read about an order it read from one that exists.
FlightExists ==
    \A o \in Orders : advancing[o] # "none" \/ holding[o] # NoHold => Exists(o)

BillInv == TypeOK /\ FlightExists /\ BillFollowsLines

\* Pieces that change hands without leaving the order do not change its bill.
LEMMA RecalcKept ==
    ASSUME NEW o, NEW d, NEW ls, NEW ms, Live(ls) = Live(ms)
    PROVE  RecalcTotal(o, ls, d) = RecalcTotal(o, ms, d)
  BY DEF RecalcTotal, Subtotal

\* Delivering a piece, or all of them, leaves the same pieces live.
LEMMA DeliveryKeepsLive ==
    ASSUME NEW ls \in [Lines -> {"none", "pending", "delivered", "removed"}]
    PROVE  /\ Live(Delivered(ls)) = Live(ls)
           /\ \A l \in Lines : ls[l] = "pending" => Live([ls EXCEPT ![l] = "delivered"]) = Live(ls)
  BY DEF Live, Delivered

\* One step of an order keeps its bill that of its pieces.
LEMMA BillStep ==
    ASSUME BillInv, NEW o \in Orders, OrderStep(o) \/ MoneyStep(o), Exists(o)'
    PROVE  total'[o] = RecalcTotal(o, line'[o], discount'[o])
  <1> USE DEF BillInv, TypeOK, OrdersTyped, FlightTyped
  <1> DEFINE Goal == total'[o] = RecalcTotal(o, line'[o], discount'[o])
  <1>1. Exists(o) => total[o] = RecalcTotal(o, line[o], discount[o])
    BY DEF BillFollowsLines
  <1>2. ASSUME Exists(o), total'[o] = total[o], discount'[o] = discount[o],
               Live(line'[o]) = Live(line[o])
        PROVE  Goal
    BY <1>1, <1>2, RecalcKept
  <1>3. ASSUME Exists(o), UNCHANGED <<line, discount, total>>
        PROVE  Goal
    BY <1>2, <1>3
  <1>4. ASSUME NEW L \in SUBSET Lines, NEW d \in 0..MaxDiscount, CreateInsert(o, L, d)
        PROVE  Goal
    BY <1>4 DEF CreateInsert
  <1>5. ASSUME NEW L \in SUBSET Lines, AddLines(o, L) PROVE Goal
    BY <1>5 DEF AddLines
  <1>6. ASSUME NEW l \in Lines, DeliverLine(o, l) PROVE Goal
    <2>1. /\ line[o][l] = "pending" /\ line'[o] = [line[o] EXCEPT ![l] = "delivered"]
          /\ UNCHANGED <<discount, total>> /\ Exists(o)
      BY <1>6 DEF DeliverLine, OrderNotVoided, Exists
    <2> QED  BY <1>2, <2>1, DeliveryKeepsLive
  <1>7. CASE DeliverAll(o)
    <2>1. line'[o] = Delivered(line[o]) /\ UNCHANGED <<discount, total>> /\ Exists(o)
      BY <1>7 DEF DeliverAll, CanTransition, Exists
    <2> QED  BY <1>2, <2>1, DeliveryKeepsLive
  <1>8. ASSUME NEW S \in SUBSET Lines, TakeOff(o, S) PROVE Goal
    BY <1>8 DEF TakeOff, TotalWithout
  <1>9. CASE (\E l \in Lines : RemovePieces(o, l)) \/ CancelPending(o)
    BY <1>8, <1>9 DEF RemovePieces, CancelPending, Pending
  <1>10. ASSUME NEW d \in 0..MaxDiscount, DiscountWrite(o, d) PROVE Goal
    <2>1. Exists(o) /\ line' = line
      BY <1>10 DEF DiscountWrite, orderVars, Exists
    <2> QED  BY <1>1, <1>10, <2>1 DEF DiscountWrite
  <1>11. CASE CreateRead(o)
    BY <1>11 DEF CreateRead, orderVars, Exists
  <1>12. CASE SetStatusWrite(o)
    BY <1>3, <1>12 DEF SetStatusWrite, FlightExists
  <1>13. CASE \/ \E next \in Asked : SetStatusRead(o, next)
              \/ CancelEmpty(o) \/ (MaxDiscount > 0 /\ DiscountRead(o)) \/ WriteOff(o)
    BY <1>3, <1>13 DEF SetStatusRead, CancelEmpty, DiscountRead, WriteOff, CanTransition,
                       CanWriteOff, Exists, orderVars
  <1>14. ASSUME NEW k \in Keys, NEW m \in Methods, NEW amount \in 1..MaxAmount,
                NEW tip \in 0..MaxTip, NEW S \in SUBSET Lines, Charge(o, k, m, amount, tip, S)
         PROVE  Goal
    <2>1. /\ UNCHANGED <<discount, total>> /\ Exists(o)
          /\ line'[o] = line[o] \/ line'[o] = Delivered(line[o])
      BY <1>14 DEF Charge
    <2> QED  BY <1>2, <2>1, DeliveryKeepsLive
  <1>15. CASE \/ \E l \in Lines \cup {NoLine}, amount \in 1..MaxAmount : Devolver(o, l, amount)
              \/ \E l \in Lines \cup {NoLine}, amount \in 1..MaxAmount, g \in 0..MaxShifts :
                    DevolverNoShift(o, l, amount, g)
              \/ \E g \in 0..MaxShifts : CancelNoShift(o, g)
              \/ AbortNoShift(o)
    BY <1>3, <1>15 DEF Devolver, DevolverNoShift, CancelNoShift, AbortNoShift, orderVars, Exists
  <1>16. CASE CancelUnpaid(o) \/ CancelWithRefund(o) \/ CancelDelivered(o)
    <2>1. Exists(o)
      BY <1>16 DEF CancelUnpaid, CancelWithRefund, CancelDelivered, Cancellable, CanTransition, Exists
    <2>2. UNCHANGED <<line, discount, total>>
      BY <1>16 DEF CancelUnpaid, CancelWithRefund, CancelDelivered, CancelEffect
    <2> QED  BY <1>3, <2>1, <2>2
  <1>17. CASE CommitNoShift(o)
    BY <1>3, <1>17 DEF CommitNoShift, CancelEffect, orderVars, FlightExists
  <1> HIDE DEF BillInv, TypeOK, OrdersTyped, FlightTyped
  <1>18. CASE OrderStep(o)
    BY <1>4, <1>5, <1>6, <1>7, <1>9, <1>10, <1>11, <1>12, <1>13, <1>18 DEF OrderStep
  <1>19. CASE MoneyStep(o)
    BY <1>14, <1>15, <1>16, <1>17, <1>19 DEF MoneyStep
  <1> QED  BY <1>18, <1>19

\* A step of an order never makes it disappear, and what it leaves in flight belongs to it.
LEMMA ExistsStep ==
    ASSUME TypeOK, FlightExists, NEW o \in Orders, OrderStep(o) \/ MoneyStep(o)
    PROVE  /\ Exists(o) => Exists(o)'
           /\ advancing'[o] # "none" \/ holding'[o] # NoHold => Exists(o)'
  <1> USE DEF TypeOK, OrdersTyped, FlightTyped, Exists, orderVars, flightVars
  <1>1. advancing[o] # "none" \/ holding[o] # NoHold => Exists(o)
    BY DEF FlightExists
  <1> DEFINE Kept == UNCHANGED <<advancing, holding>> /\ (Exists(o) => Exists(o)')
  <1>2. CASE Kept
    BY <1>1, <1>2
  <1>3. CASE \/ CreateRead(o)
             \/ \E L \in SUBSET Lines, d \in 0..MaxDiscount : CreateInsert(o, L, d)
             \/ \E L \in SUBSET Lines : AddLines(o, L)
    BY <1>2, <1>3 DEF CreateRead, CreateInsert, AddLines
  <1>4. CASE (\E l \in Lines : DeliverLine(o, l)) \/ DeliverAll(o) \/ CancelEmpty(o)
    BY <1>2, <1>4 DEF DeliverLine, DeliverAll, CancelEmpty
  <1>5. CASE \E next \in Asked : SetStatusRead(o, next)
    BY <1>1, <1>5 DEF SetStatusRead
  <1>6. CASE SetStatusWrite(o)
    BY <1>1, <1>6 DEF SetStatusWrite
  <1>7. CASE \/ MaxDiscount > 0 /\ DiscountRead(o)
             \/ \E d \in 0..MaxDiscount : DiscountWrite(o, d)
             \/ WriteOff(o)
    BY <1>2, <1>7 DEF DiscountRead, DiscountWrite, WriteOff
  <1>8. CASE (\E l \in Lines : RemovePieces(o, l)) \/ CancelPending(o)
    BY <1>2, <1>8 DEF RemovePieces, CancelPending, TakeOff
  <1>9. CASE \E k \in Keys, m \in Methods, amount \in 1..MaxAmount, tip \in 0..MaxTip,
                S \in SUBSET Lines : Charge(o, k, m, amount, tip, S)
    BY <1>2, <1>9 DEF Charge
  <1>10. CASE \E l \in Lines \cup {NoLine}, amount \in 1..MaxAmount : Devolver(o, l, amount)
    BY <1>2, <1>10 DEF Devolver
  <1>11. CASE \/ \E l \in Lines \cup {NoLine}, amount \in 1..MaxAmount, g \in 0..MaxShifts :
                    DevolverNoShift(o, l, amount, g)
              \/ \E g \in 0..MaxShifts : CancelNoShift(o, g)
    <2>1. Exists(o) /\ UNCHANGED <<status, advancing>>
      BY <1>11 DEF DevolverNoShift, Refundable, CancelNoShift, Cancellable, CanTransition
    <2> QED  BY <2>1
  <1>12. CASE CommitNoShift(o) \/ AbortNoShift(o)
    <2>1. Exists(o) /\ advancing' = advancing
      BY <1>1, <1>12 DEF CommitNoShift, AbortNoShift
    <2>2. Exists(o)'
      BY <2>1, <1>12 DEF CommitNoShift, AbortNoShift, CancelEffect
    <2> QED  BY <2>1, <2>2
  <1>13. CASE CancelUnpaid(o) \/ CancelWithRefund(o) \/ CancelDelivered(o)
    BY <1>2, <1>13 DEF CancelUnpaid, CancelWithRefund, CancelDelivered, CancelEffect
  <1> HIDE DEF TypeOK, OrdersTyped, FlightTyped, Exists
  <1>14. CASE OrderStep(o)
    BY <1>3, <1>4, <1>5, <1>6, <1>7, <1>8, <1>14 DEF OrderStep
  <1>15. CASE MoneyStep(o)
    BY <1>9, <1>10, <1>11, <1>12, <1>13, <1>15 DEF MoneyStep
  <1> QED  BY <1>14, <1>15

\* What is in flight always belongs to an order that exists.
LEMMA FlightExistsStep ==
    ASSUME TypeOK, FlightExists, NEW o \in Orders, OrderStep(o) \/ MoneyStep(o)
    PROVE  FlightExists'
  BY ExistsStep, OtherOrdersKept DEF FlightExists, Exists

\* Every step keeps every bill that of its pieces.
LEMMA BillInvPreserved ==
    ASSUME BillInv, [Next]_vars
    PROVE  BillInv'
  <1>1. TypeOK'
    BY TypePreserved DEF BillInv
  <1>2. ASSUME UNCHANGED <<orderVars, flightVars>> PROVE BillInv'
    BY <1>1, <1>2 DEF BillInv, FlightExists, BillFollowsLines, Exists, orderVars, flightVars
  <1>3. ASSUME NEW o \in Orders, OrderStep(o) \/ MoneyStep(o) PROVE BillInv'
    <2>1. FlightExists'
      BY <1>3, FlightExistsStep DEF BillInv
    <2>2. \A r \in Orders \ {o} : Exists(r)' => total'[r] = RecalcTotal(r, line'[r], discount'[r])
      BY <1>3, OtherOrdersKept DEF BillInv, BillFollowsLines, Exists
    <2>3. BillFollowsLines'
      BY <1>3, <2>2, BillStep DEF BillFollowsLines
    <2> QED  BY <1>1, <2>1, <2>3 DEF BillInv
  <1> QED  BY <1>2, <1>3, OrdersKept DEF Next, vars

\* At first there is no order to bill.
LEMMA BillInvInitially == Init => BillInv
  BY TypeInitially DEF Init, BillInv, FlightExists, BillFollowsLines, Exists

\* Adding, delivering, removing or cancelling pieces and setting discounts, in any interleaving,
\* leave every order with the total its live pieces, its discount and its fee make.
THEOREM BillAlwaysFollows == Spec => []BillFollowsLines
  <1>1. BillInv => BillFollowsLines
    BY DEF BillInv
  <1> QED  BY <1>1, BillInvInitially, BillInvPreserved, PTL DEF Spec
-----------------------------------------------------------------------------
\* Where each piece is decides what it keeps of the stock, in an order of status st.
StockOf(st, ln, ot, l) ==
    /\ ln = "none" => ot = 0
    /\ ln = "delivered" => ot = 1
    /\ ln = "removed" => ot = IF l \in NeedsPrep THEN 1 ELSE 0
    /\ ln = "pending" => /\ ot \in {0, 1}
                         /\ l \in NeedsPrep \/ st # "cancelada" => ot = 1

StockKept == \A o \in Orders, l \in Lines : StockOf(status[o], line[o][l], out[o][l], l)

\* A cancellation waiting to commit holds an order with nothing handed over.
HoldCancels ==
    \A o \in Orders : holding[o] # NoHold /\ holding[o].cancels =>
        /\ status[o] \in {"abierta", "lista"}
        /\ \A l \in Lines : line[o][l] # "delivered"

StockInv == TypeOK /\ StockKept /\ HoldCancels

\* Cancelling an order with nothing handed over gives back its live pieces that need no cooking.
LEMMA CancelEffectStock ==
    ASSUME TypeOK, StockKept, NEW o \in Orders, CancelEffect(o),
           status[o] \in {"abierta", "lista"}, \A l \in Lines : line[o][l] # "delivered"
    PROVE  \A l \in Lines : StockOf(status'[o], line'[o][l], out'[o][l], l)
  <1> TAKE l \in Lines
  <1>1. /\ status'[o] = "cancelada" /\ line'[o][l] = line[o][l]
        /\ out'[o][l] = IF line[o][l] = "pending" /\ l \notin NeedsPrep
                          THEN out[o][l] - 1 ELSE out[o][l]
    BY DEF CancelEffect, ToRestock, Live, ReponeInventario, TypeOK, OrdersTyped
  <1>2. StockOf(status[o], line[o][l], out[o][l], l) /\ out[o][l] \in Int
    BY DEF StockKept, TypeOK, OrdersTyped
  <1> QED  BY <1>1, <1>2 DEF StockOf

\* The steps of an order alone keep the stock of its pieces.
LEMMA OrderStepStock ==
    ASSUME StockInv, NEW o \in Orders, OrderStep(o)
    PROVE  \A l \in Lines : StockOf(status'[o], line'[o][l], out'[o][l], l)
  <1> TAKE l \in Lines
  <1> USE DEF StockInv, TypeOK, OrdersTyped, orderVars
  <1>1. StockOf(status[o], line[o][l], out[o][l], l) /\ out[o][l] \in Int
        /\ line[o][l] \in {"none", "pending", "delivered", "removed"}
    BY DEF StockKept
  <1>2. CASE UNCHANGED <<status, line, out>>
    BY <1>1, <1>2
  <1>3. ASSUME NEW L \in SUBSET Lines, NEW d \in 0..MaxDiscount, CreateInsert(o, L, d)
        PROVE  StockOf(status'[o], line'[o][l], out'[o][l], l)
    BY <1>3 DEF CreateInsert, StockOf
  <1>4. ASSUME NEW L \in SUBSET Lines, AddLines(o, L)
        PROVE  StockOf(status'[o], line'[o][l], out'[o][l], l)
    <2>1. /\ l \in L => line[o][l] = "none"
          /\ line'[o][l] = IF l \in L THEN "pending" ELSE line[o][l]
          /\ out'[o][l] = IF l \in L THEN out[o][l] + 1 ELSE out[o][l]
          /\ status[o] # "cancelada" /\ status'[o] # "cancelada"
      BY <1>4 DEF AddLines, CanReceiveLines
    <2> QED  BY <1>1, <2>1 DEF StockOf
  <1>5. ASSUME NEW x \in Lines, DeliverLine(o, x)
        PROVE  StockOf(status'[o], line'[o][l], out'[o][l], l)
    <2>1. /\ line'[o][l] = IF l = x THEN "delivered" ELSE line[o][l]
          /\ l = x => line[o][l] = "pending"
          /\ out'[o][l] = out[o][l] /\ status[o] # "cancelada" /\ status'[o] # "cancelada"
      BY <1>5 DEF DeliverLine, OrderNotVoided
    <2> QED  BY <1>1, <2>1 DEF StockOf
  <1>6. CASE DeliverAll(o)
    <2>1. /\ line'[o][l] = IF line[o][l] = "pending" THEN "delivered" ELSE line[o][l]
          /\ out'[o][l] = out[o][l] /\ status[o] # "cancelada" /\ status'[o] # "cancelada"
      BY <1>6 DEF DeliverAll, CanTransition, Delivered
    <2> QED  BY <1>1, <2>1 DEF StockOf
  <1>7. CASE SetStatusWrite(o)
    <2>1. /\ line'[o] = line[o] /\ out'[o] = out[o]
          /\ status'[o] = "cancelada" <=> status[o] = "cancelada"
      BY <1>7 DEF SetStatusWrite, FlightTyped
    <2> QED  BY <1>1, <2>1 DEF StockOf
  <1>8. ASSUME NEW S \in SUBSET Lines, TakeOff(o, S), status[o] # "cancelada",
               \A x \in S : line[o][x] = "pending"
        PROVE  StockOf(status'[o], line'[o][l], out'[o][l], l)
    <2>1. /\ line'[o][l] = IF l \in S THEN "removed" ELSE line[o][l]
          /\ out'[o][l] = IF l \in S /\ l \notin NeedsPrep THEN out[o][l] - 1 ELSE out[o][l]
          /\ status'[o] # "cancelada"
      BY <1>8 DEF TakeOff, ReponeInventario
    <2> QED  BY <1>1, <1>8, <2>1 DEF StockOf
  <1>9. CASE \E x \in Lines : RemovePieces(o, x)
    BY <1>8, <1>9 DEF RemovePieces
  <1>10. CASE CancelPending(o)
    <2>1. Pending(line[o]) \in SUBSET Lines /\ \A x \in Pending(line[o]) : line[o][x] = "pending"
      BY DEF Pending
    <2>2. TakeOff(o, Pending(line[o])) /\ status[o] # "cancelada"
      BY <1>10 DEF CancelPending, OrderNotVoided
    <2> QED  BY <1>8, <2>1, <2>2
  <1>11. CASE CancelEmpty(o)
    <2>1. line'[o] = line[o] /\ out'[o] = out[o] /\ line[o][l] \notin {"pending", "delivered"}
      BY <1>11 DEF CancelEmpty, Live
    <2> QED  BY <1>1, <2>1 DEF StockOf
  <1>12. CASE \/ CreateRead(o)
              \/ \E next \in Asked : SetStatusRead(o, next)
              \/ MaxDiscount > 0 /\ DiscountRead(o)
              \/ \E d \in 0..MaxDiscount : DiscountWrite(o, d)
              \/ WriteOff(o)
    BY <1>2, <1>12 DEF CreateRead, SetStatusRead, DiscountRead, DiscountWrite, WriteOff
  <1> HIDE DEF StockInv, TypeOK, OrdersTyped
  <1> QED
    BY <1>3, <1>4, <1>5, <1>6, <1>7, <1>9, <1>10, <1>11, <1>12 DEF OrderStep

\* So do the steps that move its money, its cancellation among them.
LEMMA MoneyStepStock ==
    ASSUME StockInv, NEW o \in Orders, MoneyStep(o)
    PROVE  \A l \in Lines : StockOf(status'[o], line'[o][l], out'[o][l], l)
  <1>1. CASE UNCHANGED orderVars
    BY <1>1 DEF StockInv, StockKept, orderVars
  <1>2. ASSUME NEW k \in Keys, NEW m \in Methods, NEW amount \in 1..MaxAmount,
               NEW tip \in 0..MaxTip, NEW S \in SUBSET Lines, Charge(o, k, m, amount, tip, S),
               NEW l \in Lines
        PROVE  StockOf(status'[o], line'[o][l], out'[o][l], l)
    <2>1. StockOf(status[o], line[o][l], out[o][l], l)
      BY DEF StockInv, StockKept
    <2>2. /\ out'[o][l] = out[o][l] /\ status[o] # "cancelada" /\ status'[o] # "cancelada"
          /\ \/ line'[o][l] = line[o][l]
             \/ line[o][l] = "pending" /\ line'[o][l] = "delivered"
      BY <1>2 DEF Charge, ValidarCobro, Delivered, StockInv, TypeOK, OrdersTyped
    <2> QED  BY <2>1, <2>2 DEF StockOf
  <1>3. CASE CancelUnpaid(o) \/ CancelWithRefund(o)
    <2>1. /\ CancelEffect(o) /\ status[o] \in {"abierta", "lista"}
          /\ \A l \in Lines : line[o][l] # "delivered"
      BY <1>3 DEF CancelUnpaid, CancelWithRefund, Cancellable, CanTransition
    <2> QED  BY <2>1, CancelEffectStock DEF StockInv
  <1>4. CASE CommitNoShift(o)
    <2>1. CASE holding[o].cancels
      <3>1. /\ CancelEffect(o) /\ status[o] \in {"abierta", "lista"}
            /\ \A l \in Lines : line[o][l] # "delivered"
        BY <1>4, <2>1 DEF CommitNoShift, StockInv, HoldCancels
      <3> QED  BY <3>1, CancelEffectStock DEF StockInv
    <2>2. CASE ~holding[o].cancels
      BY <1>1, <1>4, <2>2 DEF CommitNoShift
    <2> QED  BY <2>1, <2>2
  <1>5. CASE CancelDelivered(o)
    <2> TAKE l \in Lines
    <2>1. /\ StockOf(status[o], line[o][l], out[o][l], l) /\ status[o] = "entregada"
          /\ line'[o] = line[o] /\ out'[o] = out[o]
      BY <1>5 DEF CancelDelivered, StockInv, StockKept
    <2> QED  BY <2>1 DEF StockOf
  <1>6. CASE \/ \E x \in Lines \cup {NoLine}, amount \in 1..MaxAmount : Devolver(o, x, amount)
             \/ \E x \in Lines \cup {NoLine}, amount \in 1..MaxAmount, g \in 0..MaxShifts :
                   DevolverNoShift(o, x, amount, g)
             \/ \E g \in 0..MaxShifts : CancelNoShift(o, g)
             \/ AbortNoShift(o)
    BY <1>1, <1>6 DEF Devolver, DevolverNoShift, CancelNoShift, AbortNoShift
  <1> QED  BY <1>2, <1>3, <1>4, <1>5, <1>6 DEF MoneyStep

\* While a cancellation waits, the row lock it holds keeps its order as it found it.
LEMMA HoldCancelsStep ==
    ASSUME StockInv, NEW o \in Orders, OrderStep(o) \/ MoneyStep(o)
    PROVE  HoldCancels'
  <1> USE DEF StockInv
  <1> DEFINE Own == holding'[o] # NoHold /\ holding'[o].cancels =>
                      /\ status'[o] \in {"abierta", "lista"}
                      /\ \A l \in Lines : line'[o][l] # "delivered"
  <1>1. CASE Unlocked(o) /\ holding' = holding
    BY <1>1, OtherOrdersKept DEF HoldCancels, Unlocked
  <1>2. CASE UNCHANGED <<status, line, holding>>
    BY <1>2 DEF HoldCancels
  <1>3. CASE OrderStep(o)
    <2>1. \/ Unlocked(o) /\ holding' = holding
          \/ UNCHANGED <<status, line, holding>>
          \/ \E L \in SUBSET Lines, d \in 0..MaxDiscount : CreateInsert(o, L, d)
      BY <1>3 DEF OrderStep, CreateRead, AddLines, DeliverLine, DeliverAll, SetStatusRead,
           SetStatusWrite, RemovePieces, CancelPending, TakeOff, CancelEmpty, DiscountRead,
           DiscountWrite, WriteOff, orderVars, flightVars
    <2>2. ASSUME NEW L \in SUBSET Lines, NEW d \in 0..MaxDiscount, CreateInsert(o, L, d)
          PROVE  HoldCancels'
      <3>1. ~(holding[o] # NoHold /\ holding[o].cancels) /\ holding' = holding
        BY <2>2 DEF CreateInsert, HoldCancels, Exists
      <3> QED  BY <1>3, <3>1, OtherOrdersKept DEF HoldCancels
    <2> QED  BY <1>1, <1>2, <2>1, <2>2
  <1>4. ASSUME MoneyStep(o), Own PROVE HoldCancels'
    BY <1>4, OtherOrdersKept DEF HoldCancels
  <1>5. CASE \E k \in Keys, m \in Methods, amount \in 1..MaxAmount, tip \in 0..MaxTip,
                S \in SUBSET Lines : Charge(o, k, m, amount, tip, S)
    BY <1>1, <1>5 DEF Charge, flightVars
  <1>6. CASE \/ CancelUnpaid(o) \/ CancelWithRefund(o) \/ CancelDelivered(o)
             \/ \E x \in Lines \cup {NoLine}, amount \in 1..MaxAmount : Devolver(o, x, amount)
    BY <1>1, <1>6 DEF CancelUnpaid, CancelWithRefund, CancelDelivered, Cancellable, Devolver,
                      Refundable, flightVars
  <1>7. ASSUME NEW x \in Lines \cup {NoLine}, NEW amount \in 1..MaxAmount, NEW g \in 0..MaxShifts,
               DevolverNoShift(o, x, amount, g)
        PROVE  ~holding'[o].cancels
    BY <1>7 DEF DevolverNoShift, TypeOK, FlightTyped
  <1>8. ASSUME NEW g \in 0..MaxShifts, CancelNoShift(o, g) PROVE Own
    BY <1>8 DEF CancelNoShift, Cancellable, CanTransition, orderVars
  <1>9. ASSUME CommitNoShift(o) \/ AbortNoShift(o) PROVE Own
    BY <1>9 DEF CommitNoShift, AbortNoShift, TypeOK, FlightTyped
  <1>10. CASE MoneyStep(o)
    <2>1. ASSUME NEW x \in Lines \cup {NoLine}, NEW amount \in 1..MaxAmount, NEW g \in 0..MaxShifts,
                 DevolverNoShift(o, x, amount, g)
          PROVE  HoldCancels'
      BY <1>4, <1>7, <1>10, <2>1
    <2>2. ASSUME NEW g \in 0..MaxShifts, CancelNoShift(o, g) PROVE HoldCancels'
      BY <1>4, <1>8, <1>10, <2>2
    <2>3. CASE CommitNoShift(o) \/ AbortNoShift(o)
      BY <1>4, <1>9, <1>10, <2>3
    <2> HIDE DEF StockInv
    <2> QED  BY <1>5, <1>6, <1>10, <2>1, <2>2, <2>3 DEF MoneyStep
  <1> QED  BY <1>3, <1>10

\* Every step keeps the stock of every piece, and the cancellations that wait.
LEMMA StockInvPreserved ==
    ASSUME StockInv, [Next]_vars
    PROVE  StockInv'
  <1>1. TypeOK'
    BY TypePreserved DEF StockInv
  <1>2. ASSUME UNCHANGED <<orderVars, flightVars>> PROVE StockInv'
    BY <1>1, <1>2 DEF StockInv, StockKept, HoldCancels, orderVars, flightVars
  <1>3. ASSUME NEW o \in Orders, OrderStep(o) \/ MoneyStep(o) PROVE StockInv'
    <2>1. \A l \in Lines : StockOf(status'[o], line'[o][l], out'[o][l], l)
      BY <1>3, OrderStepStock, MoneyStepStock
    <2>2. \A r \in Orders \ {o}, l \in Lines : StockOf(status'[r], line'[r][l], out'[r][l], l)
      BY <1>3, OtherOrdersKept DEF StockInv, StockKept
    <2>3. StockKept'
      BY <2>1, <2>2 DEF StockKept, StockOf
    <2> QED  BY <1>1, <1>3, <2>3, HoldCancelsStep DEF StockInv
  <1> QED  BY <1>2, <1>3, OrdersKept DEF Next, vars

\* At first no piece has taken stock.
LEMMA StockInvInitially == Init => StockInv
  BY TypeInitially DEF Init, StockInv, StockKept, StockOf, HoldCancels

\* A piece leaves the stock once and comes back at most once, whichever of removal, cancellation
\* and delivery reaches it and in whatever order; what was cooked or handed over never does.
THEOREM StockMovesOnce == Spec => []StockOnce
  <1>1. StockInv => StockOnce
    <2> SUFFICES ASSUME StockInv, NEW o \in Orders, NEW l \in Lines
                 PROVE  /\ out[o][l] \in {0, 1}
                        /\ line[o][l] = "delivered" \/ (l \in NeedsPrep /\ line[o][l] # "none")
                             => out[o][l] = 1
      BY DEF StockOnce
    <2>1. /\ StockOf(status[o], line[o][l], out[o][l], l)
          /\ line[o][l] \in {"none", "pending", "delivered", "removed"}
      BY DEF StockInv, StockKept, TypeOK, OrdersTyped
    <2> QED  BY <2>1 DEF StockOf
  <1> QED  BY <1>1, StockInvInitially, StockInvPreserved, PTL DEF Spec
-----------------------------------------------------------------------------
(* The sums: cancelled orders, payments within the bill, shifts and orders. *)
\* The sums of the orders are sums over what they are functions of.
LEMMA SumIsOver == \A f : Sum(f) = SumOver(f, DOMAIN f)
  BY DEF Sum, SumOver, FoldFunction

\* What an order collected and what it gave back are amounts.
LEMMA PaidTyped ==
    ASSUME TypeOK, NEW o \in Orders
    PROVE  /\ Paid(o) \in Nat /\ Paid(o) = SumOver(paidBy[o], Methods)
           /\ Refunded(o) \in Nat /\ Refunded(o) = SumOver(refundedBy[o], Methods)
  <1>1. paidBy[o] \in [Methods -> Nat] /\ refundedBy[o] \in [Methods -> Nat]
    BY DEF TypeOK, MoneyTyped, RefundsTyped, Money
  <1>2. /\ SumOver(paidBy[o], Methods) \in Nat
        /\ SumOver(refundedBy[o], Methods) \in Nat
    BY <1>1, SumNat, FiniteAssumption
  <1> QED  BY <1>1, <1>2, SumIsOver DEF Paid, Refunded

\* Two sums that agree, of which no part of one exceeds that of the other, agree on every part.
LEMMA SumsAgree ==
    ASSUME NEW f, NEW g, NEW S, IsFiniteSet(S),
           \A x \in S : f[x] \in Int /\ g[x] \in Int /\ f[x] <= g[x],
           SumOver(g, S) <= SumOver(f, S)
    PROVE  \A x \in S : f[x] = g[x]
  <1> TAKE x \in S
  <1>1. IsFiniteSet(S \ {x}) /\ S \ {x} \in SUBSET S
    BY FS_Subset
  <1>2. /\ SumOver(f, S \ {x}) <= SumOver(g, S \ {x})
        /\ SumOver(f, S \ {x}) \in Int /\ SumOver(g, S \ {x}) \in Int
    BY <1>1, SumLeq, SumInt
  <1>3. /\ SumOver(f, S) = f[x] + SumOver(f, S \ {x})
        /\ SumOver(g, S) = g[x] + SumOver(g, S \ {x})
    BY SumTake
  <1> QED  BY <1>2, <1>3

\* An order that gave back as much as it collected gave back all that each method collected.
LEMMA NothingKept ==
    ASSUME TypeOK, RefundsCovered, NEW o \in Orders, MontoDevolvible(Paid(o), Refunded(o)) = 0
    PROVE  paidBy[o] = refundedBy[o]
  <1> DEFINE f == refundedBy[o]
             g == paidBy[o]
  <1>1. f \in [Methods -> Nat] /\ g \in [Methods -> Nat]
    BY DEF TypeOK, MoneyTyped, RefundsTyped, Money
  <1>2. \A m \in Methods : f[m] <= g[m]
    BY DEF RefundsCovered
  <1>3. SumOver(g, Methods) <= SumOver(f, Methods)
    BY PaidTyped DEF MontoDevolvible, Minus
  <1> HIDE DEF f, g
  <1>4. \A m \in Methods : f[m] = g[m]
    BY <1>1, <1>2, <1>3, SumsAgree, FiniteAssumption
  <1>5. f = g
    BY <1>1, <1>4
  <1> QED  BY <1>5 DEF f, g

\* An order whose methods all gave back what they collected has nothing left to give back.
LEMMA NothingLeft ==
    ASSUME TypeOK, NEW o \in Orders, paidBy[o] = refundedBy[o]
    PROVE  MontoDevolvible(Paid(o), Refunded(o)) = 0
  BY PaidTyped DEF MontoDevolvible, Minus, Paid, Refunded

\* Giving back what each method has left leaves none anything.
LEMMA GivingAllBack ==
    ASSUME TypeOK, RefundsCovered, NEW o \in Orders
    PROVE  [m \in Methods |-> refundedBy[o][m] + AmountLeft(o)[m]] = paidBy[o]
  <1>1. paidBy[o] \in [Methods -> Nat] /\ refundedBy[o] \in [Methods -> Nat]
    BY DEF TypeOK, MoneyTyped, RefundsTyped, Money
  <1>2. ASSUME NEW m \in Methods PROVE refundedBy[o][m] + AmountLeft(o)[m] = paidBy[o][m]
    <2>1. AmountLeft(o)[m] = Minus(paidBy[o][m], refundedBy[o][m])
      BY DEF AmountLeft, MontoDevolvible
    <2>2. refundedBy[o][m] <= paidBy[o][m]
      BY DEF RefundsCovered
    <2> QED  BY <1>1, <2>1, <2>2 DEF Minus
  <1> QED  BY <1>1, <1>2

\* A cancellation waiting to commit gives back all its order has left, and nothing waits on an
\* order already cancelled.
HoldsEnd ==
    \A o \in Orders : holding[o] # NoHold =>
        /\ status[o] # "cancelada"
        /\ holding[o].cancels => holding[o].amounts = AmountLeft(o)

CancelledInv == RefundInv /\ HoldsEnd /\ CancelledKeepsNoSale

\* Of the steps of an order alone, one that finds nothing left cancels it; the rest revive none.
LEMMA OrderStepCancelled ==
    ASSUME CancelledInv, NEW o \in Orders, OrderStep(o)
    PROVE  /\ status[o] = "cancelada" =>
                status'[o] = "cancelada" /\ UNCHANGED <<total, writtenOff, out>>
           /\ status'[o] = "cancelada" => paidBy'[o] = refundedBy'[o] /\ holding'[o] = NoHold
  <1> USE DEF TypeOK, OrdersTyped, FlightTyped
  <1> DEFINE Goal == /\ status[o] = "cancelada" =>
                          status'[o] = "cancelada" /\ UNCHANGED <<total, writtenOff, out>>
                     /\ status'[o] = "cancelada" => paidBy'[o] = refundedBy'[o] /\ holding'[o] = NoHold
  <1> SUFFICES Goal
    OBVIOUS
  <1>0. TypeOK /\ RefundsCovered
    BY DEF CancelledInv, RefundInv
  <1>1. UNCHANGED <<paidBy, refundedBy, holding>>
    BY OrderStepMovesNoMoney DEF moneyVars, refundVars
  <1>2. status[o] = "cancelada" => paidBy[o] = refundedBy[o] /\ holding[o] = NoHold
    BY <1>0 DEF CancelledInv, CancelledKeepsNoSale, HoldsEnd
  <1>3. ASSUME status[o] # "cancelada", status'[o] # "cancelada" PROVE Goal
    BY <1>3
  <1>4. ASSUME UNCHANGED <<status, total, writtenOff, out>> PROVE Goal
    BY <1>1, <1>2, <1>4
  <1>5. CASE \/ CreateRead(o) \/ \E next \in Asked : SetStatusRead(o, next)
             \/ MaxDiscount > 0 /\ DiscountRead(o)
    BY <1>4, <1>5 DEF CreateRead, SetStatusRead, DiscountRead, orderVars
  <1>6. CASE \E L \in SUBSET Lines, d \in 0..MaxDiscount : CreateInsert(o, L, d)
    BY <1>0, <1>3, <1>6 DEF CreateInsert, Exists
  <1>7. CASE \E L \in SUBSET Lines : AddLines(o, L)
    BY <1>0, <1>3, <1>7 DEF AddLines, CanReceiveLines
  <1>8. CASE (\E l \in Lines : DeliverLine(o, l)) \/ DeliverAll(o)
    BY <1>0, <1>3, <1>8 DEF DeliverLine, DeliverAll, OrderNotVoided, CanTransition
  <1>9. CASE SetStatusWrite(o)
    BY <1>0, <1>1, <1>2, <1>9 DEF SetStatusWrite
  <1>10. CASE (\E l \in Lines : RemovePieces(o, l)) \/ CancelPending(o)
    BY <1>0, <1>3, <1>10 DEF RemovePieces, CancelPending, TakeOff, OrderNotVoided
  <1>11. CASE CancelEmpty(o)
    <2>1. paidBy[o] = refundedBy[o]
      BY <1>0, <1>11, NothingKept DEF CancelEmpty
    <2> QED  BY <1>0, <1>1, <1>11, <2>1 DEF CancelEmpty, CanTransition, Unlocked
  <1>12. CASE \E d \in 0..MaxDiscount : DiscountWrite(o, d)
    BY <1>0, <1>1, <1>2, <1>12 DEF DiscountWrite, OrderNotVoided
  <1>13. CASE WriteOff(o)
    BY <1>3, <1>13 DEF WriteOff, CanWriteOff
  <1> HIDE DEF Goal, TypeOK, OrdersTyped, FlightTyped
  <1> QED
    BY <1>5, <1>6, <1>7, <1>8, <1>9, <1>10, <1>11, <1>12, <1>13 DEF OrderStep

\* The steps that move money cancel an order only when they empty it, and move nothing of one
\* that is cancelled.
LEMMA MoneyStepCancelled ==
    ASSUME CancelledInv, NEW o \in Orders, MoneyStep(o)
    PROVE  /\ status[o] = "cancelada" =>
                status'[o] = "cancelada" /\ UNCHANGED <<total, writtenOff, out, paidBy, refundedBy>>
           /\ status'[o] = "cancelada" => paidBy'[o] = refundedBy'[o] /\ holding'[o] = NoHold
           /\ holding'[o] # NoHold /\ holding'[o].cancels => holding'[o].amounts = AmountLeft(o)'
           /\ \A r \in Orders \ {o} :
                 paidBy'[r] = paidBy[r] /\ refundedBy'[r] = refundedBy[r] /\ writtenOff'[r] = writtenOff[r]
  <1> DEFINE Revives == status[o] = "cancelada" =>
               status'[o] = "cancelada" /\ UNCHANGED <<total, writtenOff, out, paidBy, refundedBy>>
             Empties == status'[o] = "cancelada" => paidBy'[o] = refundedBy'[o] /\ holding'[o] = NoHold
             Takes == holding'[o] # NoHold /\ holding'[o].cancels => holding'[o].amounts = AmountLeft(o)'
             Others == \A r \in Orders \ {o} :
                 paidBy'[r] = paidBy[r] /\ refundedBy'[r] = refundedBy[r] /\ writtenOff'[r] = writtenOff[r]
             Goal == Revives /\ Empties /\ Takes /\ Others
  <1> SUFFICES Goal
    OBVIOUS
  <1>0. /\ TypeOK /\ RefundsCovered
        /\ status[o] = "cancelada" => paidBy[o] = refundedBy[o] /\ holding[o] = NoHold
        /\ holding[o] # NoHold /\ holding[o].cancels => holding[o].amounts = AmountLeft(o)
    BY DEF CancelledInv, RefundInv, CancelledKeepsNoSale, HoldsEnd
  <1>1. ASSUME NEW k \in Keys, NEW m \in Methods, NEW amount \in 1..MaxAmount,
               NEW tip \in 0..MaxTip, NEW S \in SUBSET Lines, Charge(o, k, m, amount, tip, S)
        PROVE  Goal
    <2>1. status[o] # "cancelada" /\ status'[o] # "cancelada" /\ holding'[o] = NoHold
      BY <1>0, <1>1 DEF Charge, ValidarCobro, Unlocked, flightVars, TypeOK, OrdersTyped
    <2>2. Others
      BY <1>0, <1>1 DEF Charge, refundVars, TypeOK, MoneyTyped
    <2> QED  BY <2>1, <2>2
  <1>2. ASSUME NEW l \in Lines \cup {NoLine}, NEW amount \in 1..MaxAmount, Devolver(o, l, amount)
        PROVE  Goal
    <2>1. /\ Refundable(o, l, amount) /\ UNCHANGED <<status, writtenOff, paidBy, holding>>
          /\ \E p : GiveBack(o, l, Sum(p), p, NoMoney)
      BY <1>2 DEF Devolver, orderVars, moneyVars, flightVars
    <2>2. status[o] # "cancelada"
      BY <1>0, <2>1, NothingLeft, AmountsAssumption DEF Refundable
    <2>3. holding'[o] = NoHold
      BY <2>1 DEF Refundable, Unlocked
    <2>4. Others
      BY <1>0, <2>1 DEF GiveBack, TypeOK, RefundsTyped
    <2> QED  BY <2>1, <2>2, <2>3, <2>4
  <1>3. ASSUME NEW l \in Lines \cup {NoLine}, NEW amount \in 1..MaxAmount, NEW g \in 0..MaxShifts,
               DevolverNoShift(o, l, amount, g)
        PROVE  Goal
    <2>1. /\ Refundable(o, l, amount) /\ UNCHANGED <<status, writtenOff, paidBy, refundedBy>>
          /\ holding'[o].cancels = FALSE
      BY <1>0, <1>3 DEF DevolverNoShift, orderVars, moneyVars, refundVars, TypeOK, FlightTyped
    <2>2. status[o] # "cancelada"
      BY <1>0, <2>1, NothingLeft, AmountsAssumption DEF Refundable
    <2> QED  BY <2>1, <2>2
  <1>4. CASE CancelUnpaid(o)
    <2>1. /\ AmountLeft(o) = NoMoney /\ Unlocked(o) /\ CanTransition(status[o], "cancelada")
          /\ UNCHANGED <<writtenOff, paidBy, refundedBy, holding>>
      BY <1>4 DEF CancelUnpaid, Cancellable, CancelEffect, moneyVars, refundVars, flightVars
    <2>2. \A m \in Methods : refundedBy[o][m] + AmountLeft(o)[m] = refundedBy[o][m]
      BY <1>0, <2>1 DEF NoMoney, TypeOK, RefundsTyped, Money
    <2>3. [m \in Methods |-> refundedBy[o][m] + AmountLeft(o)[m]] = refundedBy[o]
      BY <1>0, <2>2 DEF TypeOK, RefundsTyped, Money
    <2>4. paidBy[o] = refundedBy[o]
      BY <1>0, <2>3, GivingAllBack
    <2> QED  BY <2>1, <2>4 DEF CanTransition, Unlocked
  <1>5. CASE CancelWithRefund(o)
    <2>1. /\ GiveBack(o, NoLine, 0, AmountLeft(o), TipLeft(o))
          /\ Unlocked(o) /\ CanTransition(status[o], "cancelada")
          /\ UNCHANGED <<writtenOff, paidBy, holding>>
      BY <1>5 DEF CancelWithRefund, Cancellable, CancelEffect, moneyVars, flightVars
    <2> DEFINE p == AmountLeft(o)
               q == TipLeft(o)
    <2>2. /\ refundedBy'[o] = [m \in Methods |-> refundedBy[o][m] + p[m]]
          /\ \A r \in Orders \ {o} : refundedBy'[r] = refundedBy[r]
      <3> HIDE DEF p, q
      <3>1. GiveBack(o, NoLine, 0, p, q)
        BY <2>1 DEF p, q
      <3> QED  BY <1>0, <3>1 DEF GiveBack, TypeOK, RefundsTyped
    <2>3. refundedBy'[o] = paidBy[o]
      BY <1>0, <2>2, GivingAllBack
    <2> QED  BY <2>1, <2>2, <2>3 DEF CanTransition, Unlocked
  <1>6. ASSUME NEW g \in 0..MaxShifts, CancelNoShift(o, g) PROVE Goal
    <2>1. /\ CanTransition(status[o], "cancelada")
          /\ UNCHANGED <<status, writtenOff, paidBy, refundedBy>>
          /\ holding'[o].amounts = AmountLeft(o)
      BY <1>0, <1>6 DEF CancelNoShift, Cancellable, orderVars, moneyVars, refundVars, TypeOK, FlightTyped
    <2>2. AmountLeft(o)' = AmountLeft(o)
      BY <2>1 DEF AmountLeft
    <2> QED  BY <2>1, <2>2 DEF CanTransition
  <1>7. CASE CommitNoShift(o)
    <2> DEFINE h == holding[o]
    <2>1. /\ h # NoHold /\ GiveBack(o, h.line, h.given, h.amounts, h.tips)
          /\ h.cancels => status'[o] = "cancelada"
          /\ ~h.cancels => status'[o] = status[o]
          /\ holding'[o] = NoHold /\ UNCHANGED <<writtenOff, paidBy>>
      BY <1>0, <1>7 DEF CommitNoShift, CancelEffect, orderVars, moneyVars, TypeOK, OrdersTyped, FlightTyped
    <2>2. /\ refundedBy'[o] = [m \in Methods |-> refundedBy[o][m] + h.amounts[m]]
          /\ \A r \in Orders \ {o} : refundedBy'[r] = refundedBy[r]
      <3> HIDE DEF h
      <3> QED  BY <1>0, <2>1 DEF GiveBack, TypeOK, RefundsTyped
    <2>3. h.cancels => refundedBy'[o] = paidBy[o]
      BY <1>0, <2>1, <2>2, GivingAllBack
    <2> QED  BY <1>0, <2>1, <2>2, <2>3
  <1>8. CASE AbortNoShift(o)
    BY <1>0, <1>8 DEF AbortNoShift, orderVars, moneyVars, refundVars, TypeOK, FlightTyped
  <1>9. CASE CancelDelivered(o)
    <2>1. /\ Unlocked(o) /\ status[o] # "cancelada" /\ Paid(o) = 0
          /\ UNCHANGED <<writtenOff, paidBy, refundedBy, holding>>
      BY <1>9 DEF CancelDelivered, CanCancelDelivered, moneyVars, refundVars, flightVars
    <2>2. paidBy[o] = refundedBy[o]
      BY <1>0, <2>1, PaidTyped, NothingKept DEF MontoDevolvible, Minus
    <2> QED  BY <2>1, <2>2 DEF Unlocked
  <1> HIDE DEF Goal, Revives, Empties, Takes, Others
  <1> QED
    BY <1>1, <1>2, <1>3, <1>4, <1>5, <1>6, <1>7, <1>8, <1>9 DEF MoneyStep

\* What one step does to every order that was cancelled.
CancelledStep ==
    \A o \in Orders : status[o] = "cancelada" =>
        /\ status'[o] = "cancelada"
        /\ total'[o] = total[o] /\ writtenOff'[o] = writtenOff[o]
        /\ paidBy'[o] = paidBy[o] /\ refundedBy'[o] = refundedBy[o]
        /\ out'[o] = out[o]

\* A step of one order leaves the money of every other as it is.
LEMMA OtherMoneyKept ==
    ASSUME CancelledInv, NEW o \in Orders, OrderStep(o) \/ MoneyStep(o), NEW r \in Orders \ {o}
    PROVE  paidBy'[r] = paidBy[r] /\ refundedBy'[r] = refundedBy[r] /\ writtenOff'[r] = writtenOff[r]
  <1>1. CASE OrderStep(o)
    <2>1. UNCHANGED <<paidBy, refundedBy>>
      BY <1>1, OrderStepMovesNoMoney DEF moneyVars, refundVars
    <2>2. writtenOff'[r] = writtenOff[r]
      BY <1>1 DEF OrderStep, CreateRead, CreateInsert, AddLines, DeliverLine, DeliverAll,
                  SetStatusRead, SetStatusWrite, RemovePieces, CancelPending, TakeOff, CancelEmpty,
                  DiscountRead, DiscountWrite, WriteOff, orderVars, CancelledInv, RefundInv, TypeOK,
                  OrdersTyped
    <2> QED  BY <2>1, <2>2
  <1>2. CASE MoneyStep(o)
    BY <1>2, MoneyStepCancelled
  <1> QED  BY <1>1, <1>2

\* A void moves no order but its own, which is not cancelled.
LEMMA VoidCancelled ==
    ASSUME CancelledInv, NEW k \in Keys, VoidPayment(k)
    PROVE  /\ \A o \in Orders : status[o] = "cancelada" => paidBy'[o] = paidBy[o]
           /\ \A o \in Orders : holding[o] # NoHold => paidBy'[o] = paidBy[o]
           /\ UNCHANGED <<orderVars, refundVars, holding>>
  <1>1. row[k].order \in Orders /\ TypeOK
    BY DEF VoidPayment, StillPaid, CancelledInv, RefundInv, TypeOK, MoneyTyped, Row
  <1>2. \A o \in Orders \ {row[k].order} : paidBy'[o] = paidBy[o]
    BY <1>1 DEF VoidPayment, TypeOK, MoneyTyped
  <1>3. status[row[k].order] # "cancelada" /\ holding[row[k].order] = NoHold
    BY DEF VoidPayment, OrderNotVoided, Unlocked
  <1> QED  BY <1>2, <1>3 DEF VoidPayment, flightVars

\* What is left of an order, by method, follows its two sums.
LEMMA LeftKept ==
    ASSUME NEW o, paidBy'[o] = paidBy[o], refundedBy'[o] = refundedBy[o]
    PROVE  AmountLeft(o)' = AmountLeft(o)
  BY DEF AmountLeft

\* Every step keeps the cancelled orders empty, and leaves them as they are.
LEMMA CancelledPreserved ==
    ASSUME CancelledInv, [Next]_vars
    PROVE  CancelledInv' /\ CancelledStep
  <1>0. RefundInv'
    BY RefundInvPreserved DEF CancelledInv
  <1>1. ASSUME UNCHANGED <<orderVars, paidBy, refundedBy, holding>>
        PROVE  CancelledInv' /\ CancelledStep
    <2>1. \A o \in Orders : AmountLeft(o)' = AmountLeft(o)
      BY <1>1, LeftKept
    <2> QED  BY <1>0, <1>1, <2>1 DEF CancelledInv, CancelledStep, HoldsEnd, CancelledKeepsNoSale, orderVars
  <1>2. ASSUME NEW o \in Orders, OrderStep(o) \/ MoneyStep(o)
        PROVE  CancelledInv' /\ CancelledStep
    <2>1. TypeOK
      BY DEF CancelledInv, RefundInv
    <2>2. \A r \in Orders \ {o} :
             /\ paidBy'[r] = paidBy[r] /\ refundedBy'[r] = refundedBy[r]
             /\ writtenOff'[r] = writtenOff[r] /\ AmountLeft(r)' = AmountLeft(r)
      BY <1>2, OtherMoneyKept, LeftKept
    <2>3. \A r \in Orders \ {o} :
             /\ status'[r] = status[r] /\ out'[r] = out[r]
             /\ total'[r] = total[r] /\ holding'[r] = holding[r]
      BY <1>2, <2>1, OtherOrdersKept
    <2>4. /\ status[o] = "cancelada" =>
               /\ status'[o] = "cancelada" /\ UNCHANGED <<total, writtenOff, out, paidBy, refundedBy>>
          /\ status'[o] = "cancelada" => paidBy'[o] = refundedBy'[o] /\ holding'[o] = NoHold
          /\ holding'[o] # NoHold /\ holding'[o].cancels => holding'[o].amounts = AmountLeft(o)'
      <3>1. CASE OrderStep(o)
        <4>1. UNCHANGED <<paidBy, refundedBy, holding>>
          BY <3>1, OrderStepMovesNoMoney DEF moneyVars, refundVars
        <4>2. AmountLeft(o)' = AmountLeft(o)
          BY <4>1, LeftKept
        <4> QED  BY <3>1, <4>1, <4>2, OrderStepCancelled DEF CancelledInv, HoldsEnd
      <3>2. CASE MoneyStep(o)
        BY <3>2, MoneyStepCancelled
      <3> QED  BY <1>2, <3>1, <3>2
    <2>5. CancelledStep
      BY <2>2, <2>3, <2>4 DEF CancelledStep
    <2>6. HoldsEnd'
      BY <2>2, <2>3, <2>4 DEF HoldsEnd, CancelledInv
    <2>7. CancelledKeepsNoSale'
      BY <2>2, <2>3, <2>4 DEF CancelledKeepsNoSale, CancelledInv
    <2> QED  BY <1>0, <2>5, <2>6, <2>7 DEF CancelledInv
  <1>3. ASSUME NEW k \in Keys, VoidPayment(k) PROVE CancelledInv' /\ CancelledStep
    <2>1. /\ \A o \in Orders : status[o] = "cancelada" => paidBy'[o] = paidBy[o]
          /\ \A o \in Orders : holding[o] # NoHold => paidBy'[o] = paidBy[o]
          /\ UNCHANGED <<orderVars, refundVars, holding>>
      BY <1>3, VoidCancelled
    <2>2. UNCHANGED <<status, out, total, writtenOff, refundedBy>>
      BY <2>1 DEF orderVars, refundVars
    <2>3. \A o \in Orders : holding[o] # NoHold => AmountLeft(o)' = AmountLeft(o)
      BY <2>1, <2>2, LeftKept
    <2>4. HoldsEnd' /\ CancelledKeepsNoSale' /\ CancelledStep
      BY <2>1, <2>2, <2>3 DEF HoldsEnd, CancelledKeepsNoSale, CancelledStep, CancelledInv
    <2> QED  BY <1>0, <2>4 DEF CancelledInv
  <1>4. CASE ShiftStep
    BY <1>1, <1>4, ShiftStepMovesNoMoney DEF moneyVars, flightVars
  <1>5. CASE UNCHANGED vars
    BY <1>1, <1>5 DEF vars, moneyVars, refundVars, flightVars
  <1> QED  BY <1>2, <1>3, <1>4, <1>5 DEF Next

\* At first nothing is cancelled and nothing waits.
LEMMA CancelledInitially == Init => CancelledInv
  BY RefundInvInitially DEF Init, CancelledInv, HoldsEnd, CancelledKeepsNoSale

\* Cancelled orders stay empty in every reachable state.
LEMMA CancelledAlways == Spec => []CancelledInv
  <1>1. CancelledInv /\ [Next]_vars => CancelledInv'
    BY CancelledPreserved
  <1> QED  BY <1>1, CancelledInitially, PTL DEF Spec

\* However an order comes to be cancelled (unpaid, refunded in the shift or with none, emptied of
\* its pieces, delivered and given up) it has given back all that was collected for its pieces,
\* method by method, and whatever comes afterwards leaves it so.
THEOREM CancelledKeepNoSale == Spec => []CancelledKeepsNoSale
  <1>1. CancelledInv => CancelledKeepsNoSale
    BY DEF CancelledInv
  <1> QED  BY <1>1, CancelledAlways, PTL

\* No step read before a cancellation and applied after it revives the order or moves its bill,
\* its money or its stock.
THEOREM CancelledStaysFinal == Spec => CancelledIsFinal
  <1>1. CancelledInv /\ [Next]_vars => [CancelledStep]_vars
    BY CancelledPreserved
  <1> QED  BY <1>1, CancelledAlways, PTL DEF Spec, CancelledIsFinal, CancelledStep
-----------------------------------------------------------------------------
\* An amount more in one method is that amount more in the sum.
LEMMA SumOfMethods ==
    ASSUME NEW f \in [Methods -> Int], NEW m \in Methods, NEW x \in Int
    PROVE  /\ Sum([f EXCEPT ![m] = @ + x]) = Sum(f) + x
           /\ Sum(f) \in Int
  <1> DEFINE g == [f EXCEPT ![m] = @ + x]
  <1>1. \A n \in Methods : f[n] \in Int /\ g[n] \in Int
    OBVIOUS
  <1>2. \A n \in Methods \ {m} : f[n] = g[n]
    OBVIOUS
  <1>3. g[m] = f[m] + x /\ DOMAIN g = Methods /\ DOMAIN f = Methods
    OBVIOUS
  <1> HIDE DEF g
  <1>4. SumOver(g, Methods) = SumOver(f, Methods) + g[m] - f[m] /\ SumOver(f, Methods) \in Int
    BY <1>1, <1>2, SumPoint, SumInt, FiniteAssumption
  <1>5. Sum(g) = Sum(f) + x /\ Sum(f) \in Int
    BY <1>1, <1>3, <1>4, SumIsOver
  <1> QED  BY <1>5 DEF g

\* The price of pieces is the sum of the prices, and more pieces cost as much or more.
LEMMA SubtotalGrows ==
    ASSUME NEW ls, NEW ms, Live(ls) \subseteq Live(ms)
    PROVE  Subtotal(ls) \in Nat /\ Subtotal(ms) \in Nat /\ Subtotal(ls) <= Subtotal(ms)
  <1>1. ASSUME NEW ks PROVE Subtotal(ks) = SumOver(Price, Live(ks)) /\ Subtotal(ks) \in Nat
    <2> DEFINE S == Live(ks)
               f == [l \in S |-> Price[l]]
    <2>1. IsFiniteSet(S) /\ S \subseteq Lines
      BY FiniteAssumption, FS_Subset DEF Live
    <2>2. \A l \in S : f[l] = Price[l] /\ Price[l] \in Nat
      BY <2>1, AmountsAssumption
    <2>3. Subtotal(ks) = SumOver(f, S)
      BY SumIsOver DEF Subtotal
    <2> HIDE DEF S, f
    <2>4. SumOver(f, S) = SumOver(Price, S) /\ SumOver(Price, S) \in Nat
      BY <2>1, <2>2, SumSame, SumNat
    <2> QED  BY <2>3, <2>4 DEF S
  <1>2. IsFiniteSet(Live(ms)) /\ \A l \in Live(ms) : Price[l] \in Nat
    BY FiniteAssumption, FS_Subset, AmountsAssumption DEF Live
  <1>3. SumOver(Price, Live(ls)) <= SumOver(Price, Live(ms))
    BY <1>2, SumSubset
  <1> QED  BY <1>1, <1>3

\* More pieces under the same discount make as large a bill or a larger one.
LEMMA BillGrows ==
    ASSUME NEW o \in Orders, NEW ls, NEW ms, Live(ls) \subseteq Live(ms), NEW d \in Nat
    PROVE  RecalcTotal(o, ls, d) <= RecalcTotal(o, ms, d)
  <1>1. Subtotal(ls) \in Nat /\ Subtotal(ms) \in Nat /\ Subtotal(ls) <= Subtotal(ms)
    BY SubtotalGrows
  <1>2. Fee[o] \in Nat
    BY AmountsAssumption
  <1> QED  BY <1>1, <1>2 DEF RecalcTotal, Minus

\* An order not yet inserted has no bill.
UnbornOwesNothing == \A o \in Orders : ~Exists(o) => total[o] = 0

PaidInv == BillInv /\ UnbornOwesNothing

\* The discount of an order does not change over its payments.
NoLateDiscount(o) == Paid(o) = 0 \/ discount'[o] = discount[o]

\* What one step may do to an order that is not overpaid.
PaidStep ==
    \A o \in Orders : Paid(o) <= total[o] /\ NoLateDiscount(o) => Paid(o)' <= total'[o]

\* The sum of what an order was paid follows what each method was.
LEMMA PaidKept ==
    ASSUME NEW o, paidBy'[o] = paidBy[o]
    PROVE  Paid(o)' = Paid(o)
  BY DEF Paid

\* A step of an order alone does not take its bill below what it was paid.
LEMMA OrderStepPaid ==
    ASSUME PaidInv, NEW o \in Orders, OrderStep(o), Paid(o) <= total[o], NoLateDiscount(o)
    PROVE  Paid(o)' <= total'[o]
  <1> DEFINE Goal == Paid(o)' <= total'[o]
  <1> SUFFICES Goal
    OBVIOUS
  <1>0. TypeOK /\ Paid(o) \in Nat /\ total[o] \in Nat /\ (~Exists(o) => total[o] = 0)
    BY PaidTyped DEF PaidInv, BillInv, UnbornOwesNothing, TypeOK, OrdersTyped
  <1>1. Paid(o)' = Paid(o)
    BY OrderStepMovesNoMoney, PaidKept DEF moneyVars
  <1>2. ASSUME total' = total PROVE Goal
    BY <1>1, <1>2
  <1>3. ASSUME NEW L \in SUBSET Lines, NEW d \in 0..MaxDiscount, CreateInsert(o, L, d)
        PROVE  Goal
    <2>1. total'[o] \in Nat /\ ~Exists(o)
      BY <1>0, <1>3 DEF CreateInsert, Storable, TypeOK, OrdersTyped
    <2> QED  BY <1>0, <1>1, <2>1
  <1>4. ASSUME NEW L \in SUBSET Lines, AddLines(o, L) PROVE Goal
    <2> DEFINE ls == [l \in Lines |-> IF l \in L THEN "pending" ELSE line[o][l]]
    <2>1. total'[o] = RecalcTotal(o, ls, discount[o]) /\ Exists(o)
      BY <1>0, <1>4 DEF AddLines, TypeOK, OrdersTyped
    <2>2. total[o] = RecalcTotal(o, line[o], discount[o]) /\ discount[o] \in Nat
      BY <1>0, <2>1 DEF PaidInv, BillInv, BillFollowsLines, TypeOK, OrdersTyped
    <2>3. Live(line[o]) \subseteq Live(ls)
      BY <1>4 DEF Live
    <2>4. total'[o] \in Nat
      BY <1>0, <1>4 DEF AddLines, Storable, TypeOK, OrdersTyped
    <2> HIDE DEF ls
    <2>5. total[o] <= total'[o]
      BY <2>1, <2>2, <2>3, BillGrows
    <2> QED  BY <1>0, <1>1, <2>4, <2>5
  <1>5. CASE (\E l \in Lines : RemovePieces(o, l)) \/ CancelPending(o)
    BY <1>0, <1>1, <1>5
       DEF RemovePieces, CancelPending, TakeOff, RemovalKeepsPayments, TypeOK, OrdersTyped
  <1>6. CASE \E d \in 0..MaxDiscount : DiscountWrite(o, d)
    <2>1. PICK d \in 0..MaxDiscount : DiscountWrite(o, d)
      BY <1>6
    <2> DEFINE t == RecalcTotal(o, line[o], d)
    <2>2. \/ total'[o] = total[o]
          \/ total'[o] = t /\ discount'[o] = d /\ t \in Nat /\ Exists(o)
      BY <1>0, <2>1 DEF DiscountWrite, Storable, OrderNotVoided, Exists, TypeOK, OrdersTyped
    <2>3. Exists(o) => total[o] = RecalcTotal(o, line[o], discount[o])
      BY DEF PaidInv, BillInv, BillFollowsLines
    <2> HIDE DEF t
    <2>4. Paid(o) <= total'[o]
      BY <1>0, <2>2, <2>3 DEF NoLateDiscount, t
    <2> QED  BY <1>1, <2>4
  <1>7. CASE \/ CreateRead(o)
             \/ \E next \in Asked : SetStatusRead(o, next)
             \/ SetStatusWrite(o)
             \/ MaxDiscount > 0 /\ DiscountRead(o)
             \/ WriteOff(o)
    BY <1>2, <1>7 DEF CreateRead, SetStatusRead, SetStatusWrite, DiscountRead, WriteOff, orderVars
  <1>8. CASE (\E l \in Lines : DeliverLine(o, l)) \/ DeliverAll(o) \/ CancelEmpty(o)
    BY <1>2, <1>8 DEF DeliverLine, DeliverAll, CancelEmpty
  <1> HIDE DEF Goal
  <1> QED
    BY <1>3, <1>4, <1>5, <1>6, <1>7, <1>8 DEF OrderStep

\* A charge takes at most what is owed; no other step that moves money changes the bill or what
\* was paid.
LEMMA MoneyStepPaid ==
    ASSUME TypeOK, NEW o \in Orders, MoneyStep(o)
    PROVE  /\ Paid(o) <= total[o] => Paid(o)' <= total'[o]
           /\ \A r \in Orders \ {o} : paidBy'[r] = paidBy[r]
           /\ total' = total
  <1>1. CASE \E k \in Keys, m \in Methods, amount \in 1..MaxAmount, tip \in 0..MaxTip,
                S \in SUBSET Lines : Charge(o, k, m, amount, tip, S)
    <2>1. PICK k \in Keys, m \in Methods, amount \in 1..MaxAmount, tip \in 0..MaxTip,
               S \in SUBSET Lines : Charge(o, k, m, amount, tip, S)
      BY <1>1
    <2>2. /\ paidBy' = [paidBy EXCEPT ![o][m] = @ + amount] /\ total' = total
          /\ amount <= Minus(total[o], Paid(o)) /\ amount \in Int /\ amount > 0
      BY <2>1, AmountsAssumption DEF Charge, ValidarCobro, PorCobrar
    <2>3. paidBy[o] \in [Methods -> Int] /\ paidBy'[o] = [paidBy[o] EXCEPT ![m] = @ + amount]
          /\ \A r \in Orders \ {o} : paidBy'[r] = paidBy[r]
      BY <2>2 DEF TypeOK, MoneyTyped, Money
    <2>4. Sum([paidBy[o] EXCEPT ![m] = @ + amount]) = Sum(paidBy[o]) + amount
      BY <2>2, <2>3, SumOfMethods
    <2>5. Paid(o)' = Paid(o) + amount
      BY <2>3, <2>4 DEF Paid
    <2>6. Paid(o) \in Nat /\ total[o] \in Nat
      BY PaidTyped DEF TypeOK, OrdersTyped
    <2> QED  BY <2>2, <2>3, <2>5, <2>6 DEF Minus
  <1>2. CASE UNCHANGED paidBy
    <2>1. Paid(o)' = Paid(o)
      BY <1>2, PaidKept
    <2>2. total' = total
      BY DEF MoneyStep, Charge, Devolver, DevolverNoShift, CancelUnpaid, CancelWithRefund,
             CancelNoShift, CommitNoShift, AbortNoShift, CancelDelivered, CancelEffect, orderVars
    <2> QED  BY <1>2, <2>1, <2>2
  <1> QED  BY <1>1, <1>2, OnlyChargeCollects

\* A void takes from what its order was paid, and from no other.
LEMMA VoidPaid ==
    ASSUME TypeOK, NEW k \in Keys, VoidPayment(k), NEW o \in Orders, Paid(o) <= total[o]
    PROVE  Paid(o)' <= total'[o]
  <1> DEFINE m == row[k].method
             x == -row[k].amount
  <1>1. row[k].order \in Orders /\ m \in Methods /\ row[k].amount \in Nat
    BY DEF VoidPayment, StillPaid, TypeOK, MoneyTyped, Row
  <1>2. total' = total /\ Paid(o) \in Nat /\ total[o] \in Nat
    BY PaidTyped DEF VoidPayment, orderVars, TypeOK, OrdersTyped
  <1>3. CASE o # row[k].order
    <2>1. paidBy'[o] = paidBy[o]
      BY <1>1, <1>3 DEF VoidPayment, TypeOK, MoneyTyped
    <2> QED  BY <1>2, <2>1, PaidKept
  <1>4. CASE o = row[k].order
    <2>1. paidBy[o] \in [Methods -> Nat]
      BY DEF TypeOK, MoneyTyped, Money
    <2>2. paidBy' = [paidBy EXCEPT ![o][m] = @ - row[k].amount]
      BY <1>4 DEF VoidPayment, AmountOf
    <2>3. x \in Int /\ \A n \in Int : n - row[k].amount = n + x
      BY <1>1
    <2>4. paidBy'[o] = [paidBy[o] EXCEPT ![m] = paidBy[o][m] + x]
      BY <1>1, <2>1, <2>2, <2>3 DEF TypeOK, MoneyTyped
    <2>5. x <= 0
      BY <1>1
    <2> HIDE DEF m, x
    <2>6. Sum([paidBy[o] EXCEPT ![m] = @ + x]) = Sum(paidBy[o]) + x
      BY <1>1, <2>1, <2>3, SumOfMethods
    <2>7. Paid(o)' = Paid(o) + x
      BY <2>4, <2>6 DEF Paid
    <2> QED  BY <1>2, <2>3, <2>5, <2>7
  <1> QED  BY <1>3, <1>4

\* Every step keeps the orders not inserted without a bill, and none overpays.
LEMMA PaidPreserved ==
    ASSUME PaidInv, [Next]_vars
    PROVE  PaidInv' /\ PaidStep
  <1>0. TypeOK /\ BillInv' /\ TypeOK'
    BY BillInvPreserved, TypePreserved DEF PaidInv, BillInv
  <1>1. ASSUME UNCHANGED <<orderVars, paidBy>> PROVE PaidInv' /\ PaidStep
    <2>1. \A o \in Orders : Paid(o)' = Paid(o)
      BY <1>1, PaidKept
    <2> QED  BY <1>0, <1>1, <2>1 DEF PaidInv, PaidStep, UnbornOwesNothing, Exists, orderVars
  <1>2. ASSUME NEW o \in Orders, OrderStep(o) \/ MoneyStep(o) PROVE PaidInv' /\ PaidStep
    <2>1. \A r \in Orders \ {o} : /\ status'[r] = status[r] /\ total'[r] = total[r]
                                  /\ Paid(r)' = Paid(r)
      <3> TAKE r \in Orders \ {o}
      <3>1. paidBy'[r] = paidBy[r]
        BY <1>0, <1>2, OrderStepMovesNoMoney, MoneyStepPaid DEF moneyVars
      <3> QED  BY <1>0, <1>2, <3>1, OtherOrdersKept, PaidKept
    <2>2. Paid(o) <= total[o] /\ NoLateDiscount(o) => Paid(o)' <= total'[o]
      BY <1>0, <1>2, OrderStepPaid, MoneyStepPaid
    <2>3. ~Exists(o)' => total'[o] = 0
      <3>1. ASSUME ~Exists(o)' PROVE total'[o] = 0
        <4>1. ~Exists(o) /\ total[o] = 0
          BY <1>0, <1>2, <3>1, ExistsStep DEF PaidInv, BillInv, UnbornOwesNothing
        <4>2. CASE MoneyStep(o)
          BY <1>0, <4>1, <4>2, MoneyStepPaid
        <4>3. CASE OrderStep(o)
          <5>1. ASSUME total' = total PROVE total'[o] = 0
            BY <4>1, <5>1
          <5>2. CASE \/ CreateRead(o)
                     \/ \E next \in Asked : SetStatusRead(o, next)
                     \/ SetStatusWrite(o)
                     \/ MaxDiscount > 0 /\ DiscountRead(o)
                     \/ WriteOff(o)
            BY <5>1, <5>2 DEF CreateRead, SetStatusRead, SetStatusWrite, DiscountRead, WriteOff,
                              orderVars
          <5>3. CASE (\E l \in Lines : DeliverLine(o, l)) \/ DeliverAll(o) \/ CancelEmpty(o)
            BY <5>1, <5>3 DEF DeliverLine, DeliverAll, CancelEmpty
          <5>4. CASE \E L \in SUBSET Lines, d \in 0..MaxDiscount : CreateInsert(o, L, d)
            BY <1>0, <3>1, <5>4 DEF CreateInsert, Exists, TypeOK, OrdersTyped
          <5>5. CASE \E L \in SUBSET Lines : AddLines(o, L)
            BY <4>1, <5>5 DEF AddLines
          <5>6. CASE (\E l \in Lines : RemovePieces(o, l)) \/ CancelPending(o)
            BY <4>1, <5>6 DEF RemovePieces, CancelPending, OrderNotVoided, Exists
          <5>7. CASE \E d \in 0..MaxDiscount : DiscountWrite(o, d)
            BY <1>0, <4>1, <5>7 DEF DiscountWrite, OrderNotVoided, Exists, TypeOK, OrdersTyped
          <5> QED  BY <4>3, <5>2, <5>3, <5>4, <5>5, <5>6, <5>7 DEF OrderStep
        <4> QED  BY <1>2, <4>2, <4>3
      <3> QED  BY <3>1
    <2>4. PaidStep
      BY <2>1, <2>2 DEF PaidStep
    <2>5. UnbornOwesNothing'
      BY <2>1, <2>3 DEF UnbornOwesNothing, PaidInv, Exists
    <2> QED  BY <1>0, <2>4, <2>5 DEF PaidInv
  <1>3. ASSUME NEW k \in Keys, VoidPayment(k) PROVE PaidInv' /\ PaidStep
    <2>1. PaidStep
      BY <1>0, <1>3, VoidPaid DEF PaidStep
    <2>2. UnbornOwesNothing'
      BY <1>3 DEF VoidPayment, orderVars, UnbornOwesNothing, PaidInv, Exists
    <2> QED  BY <1>0, <2>1, <2>2 DEF PaidInv
  <1>4. CASE ShiftStep
    BY <1>1, <1>4, ShiftStepMovesNoMoney DEF moneyVars
  <1>5. CASE UNCHANGED vars
    BY <1>1, <1>5 DEF vars, moneyVars
  <1> QED  BY <1>2, <1>3, <1>4, <1>5 DEF Next

\* At first nothing is billed.
LEMMA PaidInitially == Init => PaidInv
  BY BillInvInitially DEF Init, PaidInv, UnbornOwesNothing

\* No charge, void, removal, cancellation or added piece takes an order below what it was paid,
\* whatever crosses it, nor a discount put while there are no payments; only a discount written
\* over payments that its sum, read before, did not see.
THEOREM NeverPaidBeyondTotal == Spec => NeverOverpaid
  <1>1. PaidInv /\ [Next]_vars => PaidInv'
    BY PaidPreserved
  <1>2. PaidInv /\ [Next]_vars => [PaidStep]_vars
    BY PaidPreserved
  <1> QED  BY <1>1, <1>2, PaidInitially, PTL DEF Spec, NeverOverpaid, PaidStep, NoLateDiscount
-----------------------------------------------------------------------------
\* A sum moves by what one of its values moves.
LEMMA SumMoves ==
    ASSUME NEW D, IsFiniteSet(D), NEW f, NEW g, DOMAIN f = D, DOMAIN g = D,
           \A z \in D : f[z] \in Int, NEW y \in D, NEW x \in Int,
           g[y] = f[y] + x, \A z \in D \ {y} : g[z] = f[z]
    PROVE  Sum(g) = Sum(f) + x /\ Sum(f) \in Int
  <1>1. \A z \in D : g[z] \in Int
    OBVIOUS
  <1>2. SumOver(g, D) = SumOver(f, D) + g[y] - f[y] /\ SumOver(f, D) \in Int
    BY <1>1, SumPoint, SumInt
  <1> QED  BY <1>2, SumIsOver

\* The sum of integers over a finite set is an integer.
LEMMA SumTyped ==
    ASSUME NEW D, IsFiniteSet(D), NEW f, DOMAIN f = D, \A z \in D : f[z] \in Int
    PROVE  Sum(f) \in Int
  BY SumInt, SumIsOver

\* What the shifts expect of a method, what is booked in none and what the orders keep of it.
InShifts(m) == [s \in Shifts |-> Expected(s)[m]]

Gaps == 0..MaxShifts

InNone(m) == [g \in Gaps |-> orphan[g][m]]

InOrders(m) ==
    [o \in Orders |-> paidBy[o][m] + tipBy[o][m] - refundedBy[o][m] - tipRefundedBy[o][m]]

\* A shift not opened yet has no refund of its own.
NotYetOpened == \A s \in Shifts : s > cur => back[s] = NoMoney

ReconcileInv == TypeOK /\ ShiftsReconcile /\ NotYetOpened

\* There are finitely many shifts, and gaps between them.
LEMMA ShiftsFinite == IsFiniteSet(Shifts) /\ IsFiniteSet(Gaps)
  BY FS_Interval, AmountsAssumption DEF Shifts, Gaps

\* What a key adds to a shift is an amount, and so is what a shift took.
LEMMA TakenTyped ==
    ASSUME TypeOK, NEW s, NEW m \in Methods
    PROVE  /\ \A k \in Keys : Part(s, m, k) \in Int
           /\ Taken(s, m) = Sum([k \in Keys |-> Part(s, m, k)])
           /\ Taken(s, m) \in Int
  <1>1. \A k \in Keys : Part(s, m, k) \in Int
    BY DEF Part, TypeOK, MoneyTyped, Row
  <1>2. Taken(s, m) = Sum([k \in Keys |-> Part(s, m, k)])
    BY DEF Taken, Part
  <1>3. Sum([k \in Keys |-> Part(s, m, k)]) \in Int
    <2> DEFINE f == [k \in Keys |-> Part(s, m, k)]
    <2>1. DOMAIN f = Keys /\ \A k \in Keys : f[k] \in Int
      BY <1>1
    <2> HIDE DEF f
    <2>2. Sum(f) \in Int
      BY <2>1, SumTyped, FiniteAssumption
    <2> QED  BY <2>2 DEF f
  <1> QED  BY <1>1, <1>2, <1>3

\* The three sides of the balance are sums of integers.
LEMMA SidesTyped ==
    ASSUME TypeOK, NEW m \in Methods
    PROVE  /\ \A s \in Shifts : /\ Expected(s)[m] = Taken(s, m) - back[s][m]
                                /\ Taken(s, m) \in Int /\ back[s][m] \in Int
                                /\ InShifts(m)[s] \in Int
           /\ \A g \in Gaps : InNone(m)[g] \in Int
           /\ \A o \in Orders : /\ InOrders(m)[o] \in Int
                                /\ paidBy[o][m] \in Int /\ tipBy[o][m] \in Int
                                /\ refundedBy[o][m] \in Int /\ tipRefundedBy[o][m] \in Int
           /\ Sum(InShifts(m)) \in Int /\ Sum(InNone(m)) \in Int /\ Sum(InOrders(m)) \in Int
  <1>1. \A s \in Shifts : /\ Expected(s)[m] = Taken(s, m) - back[s][m]
                          /\ Taken(s, m) \in Int /\ back[s][m] \in Int
                          /\ InShifts(m)[s] \in Int
    <2> TAKE s \in Shifts
    <2>1. Taken(s, m) \in Int
      BY TakenTyped
    <2>2. back[s][m] \in Int
      BY DEF TypeOK, RefundsTyped, Money
    <2>3. Expected(s)[m] = Taken(s, m) - back[s][m] /\ InShifts(m)[s] = Expected(s)[m]
      BY DEF Expected, InShifts
    <2> QED  BY <2>1, <2>2, <2>3
  <1>2. \A g \in Gaps : InNone(m)[g] \in Int
    <2> TAKE g \in Gaps
    <2>1. InNone(m)[g] = orphan[g][m]
      BY DEF InNone
    <2>2. orphan[g] \in Money
      BY DEF TypeOK, RefundsTyped, Gaps
    <2> QED  BY <2>1, <2>2 DEF Money
  <1>3. \A o \in Orders : /\ InOrders(m)[o] \in Int
                          /\ paidBy[o][m] \in Int /\ tipBy[o][m] \in Int
                          /\ refundedBy[o][m] \in Int /\ tipRefundedBy[o][m] \in Int
    BY DEF InOrders, TypeOK, MoneyTyped, RefundsTyped, Money
  <1>4. /\ DOMAIN InShifts(m) = Shifts /\ DOMAIN InNone(m) = Gaps
        /\ DOMAIN InOrders(m) = Orders
    BY DEF InShifts, InNone, InOrders
  <1>5. Sum(InShifts(m)) \in Int
    BY <1>1, <1>4, SumTyped, ShiftsFinite
  <1>6. Sum(InNone(m)) \in Int
    BY <1>2, <1>4, SumTyped, ShiftsFinite
  <1>7. Sum(InOrders(m)) \in Int
    BY <1>3, <1>4, SumTyped, FiniteAssumption
  <1> QED  BY <1>1, <1>2, <1>3, <1>5, <1>6, <1>7

\* One key moves what the shifts took.
LEMMA TakenMoves ==
    ASSUME TypeOK, NEW s, NEW m \in Methods, NEW k \in Keys, NEW x \in Int,
           Part(s, m, k)' = Part(s, m, k) + x,
           \A j \in Keys \ {k} : Part(s, m, j)' = Part(s, m, j)
    PROVE  Taken(s, m)' = Taken(s, m) + x
  <1> DEFINE f == [j \in Keys |-> Part(s, m, j)]
  <1>1. PICK g : g = [j \in Keys |-> Part(s, m, j)']
    OBVIOUS
  <1>2. Taken(s, m)' = Sum(g)
    BY <1>1 DEF Taken, Part
  <1>3. Taken(s, m) = Sum(f)
    BY TakenTyped
  <1>4. DOMAIN f = Keys /\ DOMAIN g = Keys /\ \A j \in Keys : f[j] \in Int
    BY <1>1, TakenTyped
  <1>5. g[k] = f[k] + x /\ \A j \in Keys \ {k} : g[j] = f[j]
    BY <1>1
  <1> HIDE DEF f
  <1>6. Sum(g) = Sum(f) + x
    BY <1>4, <1>5, SumMoves, FiniteAssumption
  <1> QED  BY <1>2, <1>3, <1>6

\* One shift moves what the shifts expect.
LEMMA ShiftsMove ==
    ASSUME TypeOK, NEW m \in Methods, NEW s \in Shifts, NEW x \in Int,
           Expected(s)'[m] = Expected(s)[m] + x,
           \A t \in Shifts \ {s} : Expected(t)'[m] = Expected(t)[m]
    PROVE  Sum(InShifts(m)') = Sum(InShifts(m)) + x
  <1>1. PICK g : g = InShifts(m)'
    OBVIOUS
  <1> DEFINE f == InShifts(m)
  <1>2. /\ DOMAIN f = Shifts /\ DOMAIN g = Shifts
        /\ g[s] = f[s] + x /\ \A t \in Shifts \ {s} : g[t] = f[t]
    BY <1>1 DEF InShifts
  <1>3. \A t \in Shifts : f[t] \in Int
    BY SidesTyped
  <1> HIDE DEF f
  <1>4. Sum(g) = Sum(f) + x
    BY <1>2, <1>3, SumMoves, ShiftsFinite
  <1> QED  BY <1>1, <1>4 DEF f

\* One gap moves what is booked in none.
LEMMA NoneMoves ==
    ASSUME TypeOK, NEW m \in Methods, NEW g \in Gaps, NEW x \in Int,
           orphan'[g][m] = orphan[g][m] + x,
           \A t \in Gaps \ {g} : orphan'[t][m] = orphan[t][m]
    PROVE  Sum(InNone(m)') = Sum(InNone(m)) + x
  <1>1. PICK h : h = InNone(m)'
    OBVIOUS
  <1> DEFINE f == InNone(m)
  <1>2. /\ DOMAIN f = Gaps /\ DOMAIN h = Gaps
        /\ h[g] = f[g] + x /\ \A t \in Gaps \ {g} : h[t] = f[t]
    BY <1>1 DEF InNone
  <1>3. \A t \in Gaps : f[t] \in Int
    BY SidesTyped
  <1> HIDE DEF f
  <1>4. Sum(h) = Sum(f) + x
    BY <1>2, <1>3, SumMoves, ShiftsFinite
  <1> QED  BY <1>1, <1>4 DEF f

\* One order moves what the orders keep.
LEMMA OrdersMove ==
    ASSUME TypeOK, NEW m \in Methods, NEW o \in Orders, NEW x \in Int,
           paidBy'[o][m] + tipBy'[o][m] - refundedBy'[o][m] - tipRefundedBy'[o][m]
             = paidBy[o][m] + tipBy[o][m] - refundedBy[o][m] - tipRefundedBy[o][m] + x,
           \A r \in Orders \ {o} : /\ paidBy'[r] = paidBy[r] /\ tipBy'[r] = tipBy[r]
                                   /\ refundedBy'[r] = refundedBy[r]
                                   /\ tipRefundedBy'[r] = tipRefundedBy[r]
    PROVE  Sum(InOrders(m)') = Sum(InOrders(m)) + x
  <1>1. PICK h : h = InOrders(m)'
    OBVIOUS
  <1> DEFINE f == InOrders(m)
  <1>2. /\ DOMAIN f = Orders /\ DOMAIN h = Orders
        /\ h[o] = f[o] + x /\ \A r \in Orders \ {o} : h[r] = f[r]
    BY <1>1 DEF InOrders
  <1>3. \A r \in Orders : f[r] \in Int
    BY SidesTyped
  <1> HIDE DEF f
  <1>4. Sum(h) = Sum(f) + x
    BY <1>2, <1>3, SumMoves, FiniteAssumption
  <1> QED  BY <1>1, <1>4 DEF f

\* The balance holds after a step whose moves balance.
LEMMA Balances ==
    ASSUME TypeOK, ShiftsReconcile,
           \A m \in Methods : \E x, y, z \in Int :
              /\ x - y = z
              /\ Sum(InShifts(m)') = Sum(InShifts(m)) + x
              /\ Sum(InNone(m)') = Sum(InNone(m)) + y
              /\ Sum(InOrders(m)') = Sum(InOrders(m)) + z
    PROVE  ShiftsReconcile'
  <1>1. \A m \in Methods : Sum(InShifts(m)) - Sum(InNone(m)) = Sum(InOrders(m))
    BY DEF ShiftsReconcile, InShifts, InNone, InOrders, Gaps
  <1>2. \A m \in Methods :
           Sum(InShifts(m)) \in Int /\ Sum(InNone(m)) \in Int /\ Sum(InOrders(m)) \in Int
    BY SidesTyped
  <1>3. \A m \in Methods : Sum(InShifts(m)') - Sum(InNone(m)') = Sum(InOrders(m)')
    BY <1>1, <1>2
  <1> QED  BY <1>3 DEF ShiftsReconcile, InShifts, InNone, InOrders, Gaps

\* What a shift expects, unfolded before and after a step.
LEMMA ExpectedIs ==
    ASSUME NEW s, NEW m \in Methods
    PROVE  /\ Expected(s)[m] = Taken(s, m) - back[s][m]
           /\ Expected(s)'[m] = Taken(s, m)' - back'[s][m]
  BY DEF Expected

\* With the payments as they are, the shifts took what they took.
LEMMA TakenKept ==
    ASSUME UNCHANGED <<fate, row>>, NEW s, NEW m
    PROVE  Taken(s, m)' = Taken(s, m)
  BY DEF Taken

\* What a side does not see does not move it.
LEMMA SidesKept ==
    ASSUME TypeOK, NEW m \in Methods
    PROVE  /\ UNCHANGED <<fate, row, back>> => Sum(InShifts(m)') = Sum(InShifts(m)) + 0
           /\ UNCHANGED orphan => Sum(InNone(m)') = Sum(InNone(m)) + 0
           /\ UNCHANGED <<paidBy, tipBy, refundedBy, tipRefundedBy>>
                 => Sum(InOrders(m)') = Sum(InOrders(m)) + 0
  <1>1. Sum(InShifts(m)) \in Int /\ Sum(InNone(m)) \in Int /\ Sum(InOrders(m)) \in Int
    BY SidesTyped
  <1>2. UNCHANGED <<fate, row, back>> => InShifts(m)' = InShifts(m)
    BY DEF InShifts, Expected, Taken
  <1>3. UNCHANGED orphan => InNone(m)' = InNone(m)
    BY DEF InNone
  <1>4. UNCHANGED <<paidBy, tipBy, refundedBy, tipRefundedBy>> => InOrders(m)' = InOrders(m)
    BY DEF InOrders
  <1> QED  BY <1>1, <1>2, <1>3, <1>4

\* A refund takes from the orders what it gives back.
LEMMA GiveBackMoves ==
    ASSUME TypeOK, NEW o \in Orders, NEW l, NEW given, NEW p \in Money, NEW q \in Money,
           GiveBack(o, l, given, p, q), UNCHANGED <<paidBy, tipBy>>, NEW m \in Methods
    PROVE  Sum(InOrders(m)') = Sum(InOrders(m)) + (0 - (p[m] + q[m]))
  <1>1. /\ refundedBy'[o][m] = refundedBy[o][m] + p[m]
        /\ tipRefundedBy'[o][m] = tipRefundedBy[o][m] + q[m]
        /\ \A r \in Orders \ {o} : /\ refundedBy'[r] = refundedBy[r]
                                   /\ tipRefundedBy'[r] = tipRefundedBy[r]
    BY DEF GiveBack, TypeOK, RefundsTyped
  <1>2. /\ paidBy[o][m] \in Int /\ tipBy[o][m] \in Int
        /\ refundedBy[o][m] \in Int /\ tipRefundedBy[o][m] \in Int
    BY SidesTyped
  <1>3. p[m] \in Int /\ q[m] \in Int
    BY DEF Money
  <1>4. paidBy'[o][m] + tipBy'[o][m] - refundedBy'[o][m] - tipRefundedBy'[o][m]
          = paidBy[o][m] + tipBy[o][m] - refundedBy[o][m] - tipRefundedBy[o][m] + (0 - (p[m] + q[m]))
    BY <1>1, <1>2, <1>3
  <1>5. 0 - (p[m] + q[m]) \in Int
    BY <1>3
  <1> QED  BY <1>1, <1>4, <1>5, OrdersMove

\* A refund booked in the open shift leaves it as it leaves its order.
LEMMA BookedBalances ==
    ASSUME TypeOK, ShiftsReconcile, ShiftOpen, NEW o \in Orders, NEW l, NEW given,
           NEW p \in Money, NEW q \in Money, GiveBack(o, l, given, p, q), BookInShift(p, q),
           UNCHANGED <<moneyVars, shiftVars>>
    PROVE  ShiftsReconcile' /\ cur \in Shifts /\ \A s \in Shifts \ {cur} : back'[s] = back[s]
  <1>1. cur \in Shifts
    BY DEF ShiftOpen, TypeOK, ShiftTyped, Shifts
  <1>0. PICK c \in Shifts : c = cur
    BY <1>1
  <1>2. \A s \in Shifts \ {c} : back'[s] = back[s]
    BY <1>0, <1>1 DEF BookInShift, TypeOK, RefundsTyped
  <1>3. ASSUME NEW m \in Methods
        PROVE  \E x, y, z \in Int :
                  /\ x - y = z
                  /\ Sum(InShifts(m)') = Sum(InShifts(m)) + x
                  /\ Sum(InNone(m)') = Sum(InNone(m)) + y
                  /\ Sum(InOrders(m)') = Sum(InOrders(m)) + z
    <2> DEFINE x == 0 - (p[m] + q[m])
    <2>1. p[m] \in Int /\ q[m] \in Int /\ x \in Int
      BY DEF Money
    <2>2. back'[c][m] = back[c][m] + p[m] + q[m]
      BY <1>0, <1>1 DEF BookInShift, TypeOK, RefundsTyped
    <2>3. \A s : Taken(s, m)' = Taken(s, m)
      BY TakenKept DEF moneyVars
    <2>4. Expected(c)'[m] = Expected(c)[m] + x
      <3>1. Taken(c, m) \in Int /\ back[c][m] \in Int
        BY SidesTyped
      <3>2. /\ Expected(c)[m] = Taken(c, m) - back[c][m]
            /\ Expected(c)'[m] = Taken(c, m) - back'[c][m]
        BY <2>3, ExpectedIs
      <3> QED  BY <2>1, <2>2, <3>1, <3>2
    <2>5. \A s \in Shifts \ {c} : Expected(s)'[m] = Expected(s)[m]
      BY <1>2, <2>3, ExpectedIs
    <2> HIDE DEF x
    <2>6. Sum(InShifts(m)') = Sum(InShifts(m)) + x
      BY <2>1, <2>4, <2>5, ShiftsMove
    <2>7. Sum(InNone(m)') = Sum(InNone(m)) + 0
      BY SidesKept DEF BookInShift
    <2>8. Sum(InOrders(m)') = Sum(InOrders(m)) + x
      BY GiveBackMoves DEF moneyVars, x
    <2> QED  BY <2>1, <2>6, <2>7, <2>8
  <1>4. ShiftsReconcile'
    BY <1>3, Balances
  <1> QED  BY <1>0, <1>2, <1>4

\* A refund booked in no shift waits for one with what it took from its order.
LEMMA OrphanBalances ==
    ASSUME TypeOK, ShiftsReconcile, NEW o \in Orders, NEW l, NEW given,
           NEW p \in Money, NEW q \in Money, GiveBack(o, l, given, p, q), NEW g \in Gaps,
           orphan' = [orphan EXCEPT ![g] = [m \in Methods |-> @[m] + p[m] + q[m]]],
           UNCHANGED <<moneyVars, back>>
    PROVE  ShiftsReconcile'
  <1>1. ASSUME NEW m \in Methods
        PROVE  \E x, y, z \in Int :
                  /\ x - y = z
                  /\ Sum(InShifts(m)') = Sum(InShifts(m)) + x
                  /\ Sum(InNone(m)') = Sum(InNone(m)) + y
                  /\ Sum(InOrders(m)') = Sum(InOrders(m)) + z
    <2> DEFINE y == p[m] + q[m]
               z == 0 - (p[m] + q[m])
    <2>1. p[m] \in Int /\ q[m] \in Int /\ y \in Int /\ z \in Int /\ 0 - y = z
      BY DEF Money
    <2>2. /\ orphan'[g][m] = orphan[g][m] + p[m] + q[m]
          /\ \A t \in Gaps \ {g} : orphan'[t][m] = orphan[t][m]
      BY DEF TypeOK, RefundsTyped, Gaps
    <2>3. orphan[g][m] \in Int
      <3>1. orphan[g] \in Money
        BY DEF TypeOK, RefundsTyped, Gaps
      <3> QED  BY <3>1 DEF Money
    <2>4. orphan'[g][m] = orphan[g][m] + y
      BY <2>1, <2>2, <2>3
    <2>5. Sum(InOrders(m)') = Sum(InOrders(m)) + z
      BY GiveBackMoves DEF moneyVars
    <2> HIDE DEF y, z
    <2>6. Sum(InNone(m)') = Sum(InNone(m)) + y
      BY <2>1, <2>2, <2>4, NoneMoves
    <2>7. Sum(InShifts(m)') = Sum(InShifts(m)) + 0
      BY SidesKept DEF moneyVars
    <2> QED  BY <2>1, <2>5, <2>6, <2>7
  <1> QED  BY <1>1, Balances

\* A payment that enters or leaves one shift moves what the shifts expect by as much.
LEMMA PaymentMoves ==
    ASSUME TypeOK, NEW c \in Shifts, NEW k \in Keys, NEW m \in Methods, NEW x \in Int,
           back' = back,
           Part(c, m, k)' = Part(c, m, k) + x,
           \A s \in Shifts \ {c} : Part(s, m, k)' = Part(s, m, k),
           \A s \in Shifts, j \in Keys \ {k} : Part(s, m, j)' = Part(s, m, j)
    PROVE  Sum(InShifts(m)') = Sum(InShifts(m)) + x
  <1>1. \A s \in Shifts : Taken(s, m) \in Int /\ back[s][m] \in Int
    BY SidesTyped
  <1>2. Taken(c, m)' = Taken(c, m) + x
    BY TakenMoves
  <1>3. ASSUME NEW s \in Shifts \ {c} PROVE Taken(s, m)' = Taken(s, m)
    <2>1. Part(s, m, k) \in Int
      BY TakenTyped
    <2>2. Part(s, m, k)' = Part(s, m, k) + 0
      BY <2>1
    <2>3. Taken(s, m)' = Taken(s, m) + 0
      BY <2>2, TakenMoves
    <2> QED  BY <1>1, <2>3
  <1>4. Expected(c)'[m] = Expected(c)[m] + x
    BY <1>1, <1>2, ExpectedIs
  <1>5. \A s \in Shifts \ {c} : Expected(s)'[m] = Expected(s)[m]
    BY <1>3, ExpectedIs
  <1> QED  BY <1>4, <1>5, ShiftsMove

\* A charge adds to the open shift what it adds to its order, tip included.
LEMMA ChargeBalances ==
    ASSUME TypeOK, ShiftsReconcile, NEW o \in Orders, NEW k \in Keys, NEW m \in Methods,
           NEW amount \in 1..MaxAmount, NEW tip \in 0..MaxTip, NEW S \in SUBSET Lines,
           Charge(o, k, m, amount, tip, S)
    PROVE  ShiftsReconcile'
  <1>0. PICK c \in Shifts : c = cur
    BY DEF Charge, ShiftOpen, TypeOK, ShiftTyped, Shifts
  <1>1. /\ fate[k] = "unused" /\ fate'[k] = "live" /\ back' = back /\ orphan' = orphan
        /\ row'[k].shift = c /\ row'[k].method = m /\ row'[k].amount = amount /\ row'[k].tip = tip
        /\ \A j \in Keys \ {k} : row'[j] = row[j] /\ fate'[j] = fate[j]
    BY <1>0 DEF Charge, KeyFree, refundVars, TypeOK, MoneyTyped
  <1>2. amount \in Int /\ tip \in Int
    BY AmountsAssumption
  <1>3. ASSUME NEW n \in Methods
        PROVE  \E x, y, z \in Int :
                  /\ x - y = z
                  /\ Sum(InShifts(n)') = Sum(InShifts(n)) + x
                  /\ Sum(InNone(n)') = Sum(InNone(n)) + y
                  /\ Sum(InOrders(n)') = Sum(InOrders(n)) + z
    <2> DEFINE x == IF n = m THEN amount + tip ELSE 0
    <2>1. x \in Int /\ x - 0 = x
      BY <1>2
    <2>2. Part(c, n, k)' = Part(c, n, k) + x
      BY <1>1, <1>2 DEF Part
    <2>3. /\ \A s \in Shifts \ {c} : Part(s, n, k)' = Part(s, n, k)
          /\ \A s \in Shifts, j \in Keys \ {k} : Part(s, n, j)' = Part(s, n, j)
      BY <1>1 DEF Part
    <2>4. /\ paidBy[o][n] \in Int /\ tipBy[o][n] \in Int
          /\ refundedBy[o][n] \in Int /\ tipRefundedBy[o][n] \in Int
      BY SidesTyped
    <2>5. /\ paidBy'[o][n] = paidBy[o][n] + (IF n = m THEN amount ELSE 0)
          /\ tipBy'[o][n] = tipBy[o][n] + (IF n = m THEN tip ELSE 0)
      BY <2>4 DEF Charge, TypeOK, MoneyTyped, Money
    <2>6. /\ refundedBy' = refundedBy /\ tipRefundedBy' = tipRefundedBy
          /\ \A r \in Orders \ {o} : paidBy'[r] = paidBy[r] /\ tipBy'[r] = tipBy[r]
      BY DEF Charge, refundVars, TypeOK, MoneyTyped
    <2>7. paidBy'[o][n] + tipBy'[o][n] - refundedBy'[o][n] - tipRefundedBy'[o][n]
            = paidBy[o][n] + tipBy[o][n] - refundedBy[o][n] - tipRefundedBy[o][n] + x
      BY <1>2, <2>4, <2>5, <2>6
    <2> HIDE DEF x
    <2>8. Sum(InShifts(n)') = Sum(InShifts(n)) + x
      BY <1>1, <2>1, <2>2, <2>3, PaymentMoves
    <2>9. Sum(InOrders(n)') = Sum(InOrders(n)) + x
      BY <2>1, <2>6, <2>7, OrdersMove
    <2>10. Sum(InNone(n)') = Sum(InNone(n)) + 0
      BY <1>1, SidesKept
    <2> QED  BY <2>1, <2>8, <2>9, <2>10
  <1> QED  BY <1>3, Balances

\* A void takes from the open shift what it takes from its order.
LEMMA VoidBalances ==
    ASSUME TypeOK, ShiftsReconcile, NEW k \in Keys, VoidPayment(k)
    PROVE  ShiftsReconcile'
  <1>0. PICK c \in Shifts, o \in Orders, m \in Methods, amount \in Nat, tip \in Nat :
           /\ c = row[k].shift /\ o = row[k].order /\ m = row[k].method
           /\ amount = row[k].amount /\ tip = row[k].tip
    BY DEF VoidPayment, StillPaid, TypeOK, MoneyTyped, Row
  <1>1. /\ fate[k] = "live" /\ fate'[k] = "voided" /\ row' = row
        /\ back' = back /\ orphan' = orphan
        /\ refundedBy' = refundedBy /\ tipRefundedBy' = tipRefundedBy
        /\ \A j \in Keys \ {k} : fate'[j] = fate[j]
    BY DEF VoidPayment, StillPaid, refundVars, TypeOK, MoneyTyped
  <1>2. /\ paidBy' = [paidBy EXCEPT ![o][m] = @ - amount]
        /\ tipBy' = [tipBy EXCEPT ![o][m] = @ - tip]
    BY <1>0 DEF VoidPayment, AmountOf
  <1>3. ASSUME NEW n \in Methods
        PROVE  \E x, y, z \in Int :
                  /\ x - y = z
                  /\ Sum(InShifts(n)') = Sum(InShifts(n)) + x
                  /\ Sum(InNone(n)') = Sum(InNone(n)) + y
                  /\ Sum(InOrders(n)') = Sum(InOrders(n)) + z
    <2> DEFINE x == IF n = m THEN 0 - (amount + tip) ELSE 0
    <2>1. x \in Int /\ x - 0 = x
      OBVIOUS
    <2>2. Part(c, n, k)' = Part(c, n, k) + x
      BY <1>0, <1>1 DEF Part
    <2>3. /\ \A s \in Shifts \ {c} : Part(s, n, k)' = Part(s, n, k)
          /\ \A s \in Shifts, j \in Keys \ {k} : Part(s, n, j)' = Part(s, n, j)
      BY <1>0, <1>1 DEF Part
    <2>4. /\ paidBy[o][n] \in Int /\ tipBy[o][n] \in Int
          /\ refundedBy[o][n] \in Int /\ tipRefundedBy[o][n] \in Int
      BY SidesTyped
    <2>5. /\ paidBy'[o][n] = paidBy[o][n] - (IF n = m THEN amount ELSE 0)
          /\ tipBy'[o][n] = tipBy[o][n] - (IF n = m THEN tip ELSE 0)
      BY <1>2, <2>4 DEF TypeOK, MoneyTyped, Money
    <2>6. \A r \in Orders \ {o} : paidBy'[r] = paidBy[r] /\ tipBy'[r] = tipBy[r]
      BY <1>2 DEF TypeOK, MoneyTyped
    <2>7. paidBy'[o][n] + tipBy'[o][n] - refundedBy'[o][n] - tipRefundedBy'[o][n]
            = paidBy[o][n] + tipBy[o][n] - refundedBy[o][n] - tipRefundedBy[o][n] + x
      BY <1>1, <2>4, <2>5
    <2> HIDE DEF x
    <2>8. Sum(InShifts(n)') = Sum(InShifts(n)) + x
      BY <1>1, <2>1, <2>2, <2>3, PaymentMoves
    <2>9. Sum(InOrders(n)') = Sum(InOrders(n)) + x
      BY <1>1, <2>1, <2>6, <2>7, OrdersMove
    <2>10. Sum(InNone(n)') = Sum(InNone(n)) + 0
      BY <1>1, SidesKept
    <2> QED  BY <2>1, <2>8, <2>9, <2>10
  <1> QED  BY <1>3, Balances

\* An opening takes over the refunds that waited for it, and nothing more.
LEMMA OpenBalances ==
    ASSUME ReconcileInv, OpenSession
    PROVE  ShiftsReconcile' /\ NotYetOpened'
  <1> USE DEF ReconcileInv
  <1>0. PICK g \in Gaps, c \in Shifts : g = cur /\ c = cur + 1
    BY AmountsAssumption DEF OpenSession, TypeOK, ShiftTyped, Gaps, Shifts
  <1>1. /\ back' = [back EXCEPT ![c] = orphan[g]]
        /\ orphan' = [orphan EXCEPT ![g] = NoMoney]
        /\ UNCHANGED <<fate, row, paidBy, tipBy, refundedBy, tipRefundedBy>> /\ cur' = c
    BY <1>0 DEF OpenSession, Unclaimed, moneyVars
  <1>2. back[c] = NoMoney
    BY <1>0, AmountsAssumption DEF NotYetOpened, TypeOK, ShiftTyped
  <1>3. ASSUME NEW m \in Methods
        PROVE  \E x, y, z \in Int :
                  /\ x - y = z
                  /\ Sum(InShifts(m)') = Sum(InShifts(m)) + x
                  /\ Sum(InNone(m)') = Sum(InNone(m)) + y
                  /\ Sum(InOrders(m)') = Sum(InOrders(m)) + z
    <2> DEFINE x == 0 - orphan[g][m]
    <2>1. x \in Int /\ x - x = 0 /\ orphan[g][m] \in Int
      <3>1. orphan[g] \in Money
        BY DEF TypeOK, RefundsTyped, Gaps
      <3> QED  BY <3>1 DEF Money
    <2>2. back'[c][m] = orphan[g][m] /\ back[c][m] = 0 /\ \A s \in Shifts \ {c} : back'[s] = back[s]
      BY <1>1, <1>2 DEF TypeOK, RefundsTyped, NoMoney
    <2>3. orphan'[g][m] = 0 /\ \A t \in Gaps \ {g} : orphan'[t][m] = orphan[t][m]
      BY <1>1 DEF TypeOK, RefundsTyped, Gaps, NoMoney
    <2>4. \A s : Taken(s, m)' = Taken(s, m)
      BY <1>1, TakenKept
    <2>5. Taken(c, m) \in Int
      BY SidesTyped
    <2>6. Expected(c)'[m] = Expected(c)[m] + x
      BY <2>1, <2>2, <2>4, <2>5, ExpectedIs
    <2>7. \A s \in Shifts \ {c} : Expected(s)'[m] = Expected(s)[m]
      BY <2>2, <2>4, ExpectedIs
    <2>8. orphan'[g][m] = orphan[g][m] + x
      BY <2>1, <2>3
    <2> HIDE DEF x
    <2>9. Sum(InShifts(m)') = Sum(InShifts(m)) + x
      BY <2>1, <2>6, <2>7, ShiftsMove
    <2>10. Sum(InNone(m)') = Sum(InNone(m)) + x
      BY <2>1, <2>3, <2>8, NoneMoves
    <2>11. Sum(InOrders(m)') = Sum(InOrders(m)) + 0
      BY <1>1, SidesKept
    <2> QED  BY <2>1, <2>9, <2>10, <2>11
  <1>4. ShiftsReconcile'
    BY <1>3, Balances
  <1>5. NotYetOpened'
    BY <1>0, <1>1, AmountsAssumption DEF NotYetOpened, TypeOK, ShiftTyped, RefundsTyped, Shifts
  <1> QED  BY <1>4, <1>5

\* With no payment or refund moved the balance stays.
LEMMA ReconcileKept ==
    ASSUME ReconcileInv, UNCHANGED <<fate, row, paidBy, tipBy, refundedBy, tipRefundedBy, back, orphan, cur>>
    PROVE  ShiftsReconcile' /\ NotYetOpened'
  BY DEF ReconcileInv, ShiftsReconcile, NotYetOpened, Expected, Taken

\* The steps that move money keep the balance.
LEMMA MoneyStepBalances ==
    ASSUME ReconcileInv, NEW o \in Orders, MoneyStep(o)
    PROVE  ShiftsReconcile' /\ NotYetOpened'
  <1> DEFINE Goal == ShiftsReconcile' /\ NotYetOpened'
  <1> SUFFICES Goal
    OBVIOUS
  <1>0. TypeOK /\ ShiftsReconcile /\ NotYetOpened /\ cur \in Int /\ cur' = cur
    BY AmountsAssumption
       DEF ReconcileInv, TypeOK, ShiftTyped, MoneyStep, Charge, Devolver, DevolverNoShift,
           CancelUnpaid, CancelWithRefund, CancelNoShift, CommitNoShift, AbortNoShift,
           CancelDelivered, shiftVars
  <1>1. ASSUME NEW k \in Keys, NEW m \in Methods, NEW amount \in 1..MaxAmount,
               NEW tip \in 0..MaxTip, NEW S \in SUBSET Lines, Charge(o, k, m, amount, tip, S)
        PROVE  Goal
    <2>1. back' = back
      BY <1>1 DEF Charge, refundVars
    <2> QED  BY <1>0, <1>1, <2>1, ChargeBalances DEF NotYetOpened
  <1>2. ASSUME NEW l, NEW given, NEW p \in Money, NEW q \in Money, ShiftOpen,
               GiveBack(o, l, given, p, q), BookInShift(p, q), UNCHANGED <<moneyVars, shiftVars>>
        PROVE  Goal
    <2>1. ShiftsReconcile' /\ cur \in Shifts /\ \A s \in Shifts \ {cur} : back'[s] = back[s]
      BY <1>0, <1>2, BookedBalances
    <2>2. NotYetOpened'
      BY <1>0, <2>1 DEF NotYetOpened
    <2> QED  BY <2>1, <2>2
  <1>3. CASE \E l \in Lines \cup {NoLine}, amount \in 1..MaxAmount : Devolver(o, l, amount)
    <2>1. PICK l \in Lines \cup {NoLine}, amount \in 1..MaxAmount : Devolver(o, l, amount)
      BY <1>3
    <2>2. PICK p \in Splits(AmountLeft(o), amount) :
             GiveBack(o, l, Sum(p), p, NoMoney) /\ BookInShift(p, NoMoney)
      BY <2>1 DEF Devolver
    <2>3. p \in Money /\ NoMoney \in Money
      BY SplitTyped, AmountsAssumption DEF NoMoney, Money
    <2>4. ShiftOpen /\ UNCHANGED <<moneyVars, shiftVars>>
      BY <2>1 DEF Devolver
    <2> QED  BY <1>2, <2>2, <2>3, <2>4
  <1>4. CASE CancelWithRefund(o)
    <2>1. PICK p, q : p = AmountLeft(o) /\ q = TipLeft(o)
      OBVIOUS
    <2>2. p \in Money /\ q \in Money
      BY <1>0, <2>1, LeftTyped
    <2>3. /\ ShiftOpen /\ GiveBack(o, NoLine, 0, p, q) /\ BookInShift(p, q)
          /\ UNCHANGED <<moneyVars, shiftVars>>
      BY <1>4, <2>1 DEF CancelWithRefund
    <2> QED  BY <1>2, <2>2, <2>3
  <1>5. CASE CommitNoShift(o)
    <2>1. PICK h \in Hold : h = holding[o]
      BY <1>0, <1>5 DEF CommitNoShift, TypeOK, FlightTyped
    <2>2. PICK p \in Money, q \in Money, g \in Gaps : p = h.amounts /\ q = h.tips /\ g = h.gap
      BY <2>1 DEF Hold, Gaps
    <2>3. /\ GiveBack(o, h.line, h.given, p, q)
          /\ orphan' = [orphan EXCEPT ![g] = [m \in Methods |-> @[m] + p[m] + q[m]]]
          /\ UNCHANGED <<moneyVars, back>>
      BY <1>5, <2>1, <2>2 DEF CommitNoShift
    <2>4. ShiftsReconcile'
      BY <1>0, <2>2, <2>3, OrphanBalances
    <2> QED  BY <1>0, <2>3, <2>4 DEF NotYetOpened
  <1>6. ASSUME \/ \E l \in Lines \cup {NoLine}, amount \in 1..MaxAmount, g \in 0..MaxShifts :
                     DevolverNoShift(o, l, amount, g)
               \/ CancelUnpaid(o) \/ CancelDelivered(o) \/ AbortNoShift(o)
               \/ \E g \in 0..MaxShifts : CancelNoShift(o, g)
        PROVE  Goal
    <2>1. UNCHANGED <<moneyVars, refundVars>>
      BY <1>6 DEF DevolverNoShift, CancelUnpaid, CancelDelivered, AbortNoShift, CancelNoShift
    <2> QED  BY <1>0, <2>1, ReconcileKept DEF moneyVars, refundVars
  <1> HIDE DEF Goal
  <1> QED  BY <1>1, <1>3, <1>4, <1>5, <1>6 DEF MoneyStep

\* Every step keeps the balance.
LEMMA ReconcilePreserved ==
    ASSUME ReconcileInv, [Next]_vars
    PROVE  ReconcileInv'
  <1>0. TypeOK'
    BY TypePreserved DEF ReconcileInv
  <1>1. ASSUME NEW o \in Orders, OrderStep(o) PROVE ShiftsReconcile' /\ NotYetOpened'
    <2>1. UNCHANGED <<moneyVars, refundVars, shiftVars>>
      BY <1>1, OrderStepMovesNoMoney
    <2> QED  BY <2>1, ReconcileKept DEF moneyVars, refundVars, shiftVars
  <1>2. ASSUME NEW k \in Keys, VoidPayment(k) PROVE ShiftsReconcile' /\ NotYetOpened'
    <2>1. ShiftsReconcile'
      BY <1>2, VoidBalances DEF ReconcileInv
    <2> QED  BY <1>2, <2>1 DEF VoidPayment, refundVars, shiftVars, ReconcileInv, NotYetOpened
  <1>3. CASE ShiftStep
    <2>1. CASE OpenSession
      BY <1>0, <2>1, OpenBalances DEF ReconcileInv
    <2>2. CASE CloseLock \/ CloseCheckOrders \/ CloseCheckOwing \/ CloseTotals
               \/ CloseCommit \/ CloseRollback
      <3>1. UNCHANGED <<moneyVars, refundVars, cur>>
        BY <2>2 DEF CloseLock, CloseCheckOrders, CloseCheckOwing, CloseTotals, CloseCommit,
                    CloseRollback
      <3> QED  BY <1>0, <3>1, ReconcileKept DEF ReconcileInv, moneyVars, refundVars
    <2> QED  BY <1>3, <2>1, <2>2 DEF ShiftStep
  <1>4. CASE UNCHANGED vars
    BY <1>0, <1>4, ReconcileKept DEF ReconcileInv, vars, moneyVars, refundVars, shiftVars
  <1> QED  BY <1>0, <1>1, <1>2, <1>3, <1>4, MoneyStepBalances DEF Next, ReconcileInv

\* At first every side is zero.
LEMMA ReconcileInitially == Init => ReconcileInv
  <1> SUFFICES ASSUME Init PROVE ReconcileInv
    OBVIOUS
  <1>0. TypeOK
    BY TypeInitially
  <1>1. ASSUME NEW m \in Methods
        PROVE  Sum(InShifts(m)) = 0 /\ Sum(InNone(m)) = 0 /\ Sum(InOrders(m)) = 0
    <2>1. \A s : \A k \in Keys : Part(s, m, k) = 0
      BY DEF Init, Part
    <2>2. ASSUME NEW s PROVE Taken(s, m) = 0
      <3> DEFINE f == [k \in Keys |-> Part(s, m, k)]
      <3>1. Taken(s, m) = Sum(f) /\ DOMAIN f = Keys /\ \A k \in Keys : f[k] = 0
        BY <1>0, <2>1, TakenTyped
      <3> HIDE DEF f
      <3> QED  BY <3>1, SumIsOver, SumZero, FiniteAssumption
    <2>3. \A s \in Shifts : InShifts(m)[s] = 0
      BY <2>2, ExpectedIs DEF Init, InShifts, NoMoney
    <2>4. \A g \in Gaps : InNone(m)[g] = 0
      BY DEF Init, InNone, NoMoney, Gaps
    <2>5. \A o \in Orders : InOrders(m)[o] = 0
      BY DEF Init, InOrders, NoMoney
    <2>6. /\ DOMAIN InShifts(m) = Shifts /\ DOMAIN InNone(m) = Gaps
          /\ DOMAIN InOrders(m) = Orders
      BY DEF InShifts, InNone, InOrders
    <2>7. Sum(InShifts(m)) = 0
      BY <2>3, <2>6, SumIsOver, SumZero, ShiftsFinite
    <2>8. Sum(InNone(m)) = 0
      BY <2>4, <2>6, SumIsOver, SumZero, ShiftsFinite
    <2>9. Sum(InOrders(m)) = 0
      BY <2>5, <2>6, SumIsOver, SumZero, FiniteAssumption
    <2> QED  BY <2>7, <2>8, <2>9
  <1>2. ShiftsReconcile
    BY <1>1 DEF ShiftsReconcile, InShifts, InNone, InOrders, Gaps
  <1> QED  BY <1>0, <1>2 DEF Init, ReconcileInv, NotYetOpened

\* With any number of shifts, every peso an order keeps is expected by one shift or waits for one:
\* charges, tips, voids, refunds with and without a shift, and openings move both sides alike.
THEOREM ShiftsAlwaysReconcile == Spec => []ShiftsReconcile
  <1>1. ReconcileInv => ShiftsReconcile
    BY DEF ReconcileInv
  <1> QED  BY <1>1, ReconcileInitially, ReconcilePreserved, PTL DEF Spec
=============================================================================
