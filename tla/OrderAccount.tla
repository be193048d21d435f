---------------------------- MODULE OrderAccount ----------------------------
(***************************************************************************)
(* The life of the orders of one branch, their payments and refunds, and   *)
(* the shift of the register that sells (server/internal/app/orders.go,    *)
(* devolucion.go and the open and close of backoffice.go).                 *)
(*                                                                         *)
(* Every handler runs in one READ COMMITTED transaction.  Those that begin *)
(* by locking the order are one action.  Those that read before they lock, *)
(* or never lock, are split in two steps, and so is a refund that finds no *)
(* open shift, because nothing orders it against the opening of the next.  *)
(* Closing a shift is split at each of its statements.                     *)
(***************************************************************************)
EXTENDS OrderRules, FiniteSets, Functions

CONSTANTS
    Orders,          \* orders, one per client_uuid of Create
    Lines,           \* the pieces each order may come to hold, one piece per line
    NoLine,          \* what a refund of the whole order has for a line
    Keys,            \* client_uuid of the charges
    NoRow,           \* what a key that bought nothing has for a payment
    NoHold,          \* what an order no refund is waiting to commit on has for one
    Methods,         \* active payment methods
    DrawerMethods,   \* those that affect the cash drawer
    PlatformMethods, \* those that belong to a delivery platform
    PlatformOrders,  \* orders of that platform
    NeedsPrep,       \* lines whose product the kitchen prepares
    Price,           \* price of each line, modifiers included
    Fee,             \* delivery fee of each order
    Asked,           \* bound: the statuses SetStatus is asked for
    MaxAmount,       \* bound: largest amount charged or refunded at once
    MaxDiscount,     \* bound: largest discount tried
    MaxTip,          \* bound: largest tip tried
    MaxShifts        \* bound: shifts opened

ASSUME SetsAssumption ==
    /\ DrawerMethods \subseteq Methods
    /\ PlatformMethods \subseteq Methods
    /\ PlatformOrders \subseteq Orders
    /\ NeedsPrep \subseteq Lines
    /\ NoLine \notin Lines
    /\ Asked \subseteq {"lista", "entregada"}

ASSUME FiniteAssumption ==
    /\ IsFiniteSet(Keys)
    /\ IsFiniteSet(Methods)
    /\ IsFiniteSet(Lines)
    /\ IsFiniteSet(Orders)

ASSUME AmountsAssumption ==
    /\ Price \in [Lines -> Nat]
    /\ Fee \in [Orders -> Nat]
    /\ MaxAmount \in Nat
    /\ MaxDiscount \in Nat
    /\ MaxTip \in Nat
    /\ MaxShifts \in Nat

VARIABLES
    status,       \* orders.status, "none" before the order is inserted
    home,         \* orders.register_session_id, 0 before the order is inserted
    line,         \* order_lines: "none", "pending", "delivered", "removed"
    out,          \* net stock a line has taken: sales less cancellations
    discount,     \* orders.discount_total
    total,        \* orders.total
    writtenOff,   \* orders.written_off_amount
    fate,         \* where a charge key is: no row, order_payments, order_payment_voids
    row,          \* the payment that key bought
    paidBy,       \* sum of the live payments of an order by method
    tipBy,        \* and of their tips
    refundedBy,   \* sum of the refunds of an order by method
    tipRefundedBy,\* and of the tips given back
    lineBack,     \* sum of the refunds of a line
    cur,          \* the last shift opened on the selling register, 0 at first
    phase,        \* where it is; everything between open and closed holds its row
    signed,       \* session totals written by the close
    back,         \* money given back in a shift by method
    orphan,       \* refunds with no shift, by the number of closes begun before them
    creating,     \* the shift a Create has read, 0 when none is in flight
    advancing,    \* the status a SetStatus is about to write, "none" when none is
    discounting,  \* a SetDiscount has read that the order has no payments
    holding       \* a refund that found no open shift and has not committed

orderVars  == <<status, home, line, out, discount, total, writtenOff>>
moneyVars  == <<fate, row, paidBy, tipBy>>
refundVars == <<refundedBy, tipRefundedBy, lineBack, back, orphan>>
shiftVars  == <<cur, phase, signed>>
flightVars == <<creating, advancing, discounting, holding>>
vars == <<orderVars, moneyVars, refundVars, shiftVars, flightVars>>
-----------------------------------------------------------------------------
Shifts == 1..MaxShifts

HeldPhases == {"locked", "swept", "cleared", "signed"}

NoMoney == [m \in Methods |-> 0]

Sum(f) == FoldFunction(+, 0, f)

\* SumOrderPayments and SumOrderRefunds: what the order has collected and given back.
Paid(o) == Sum(paidBy[o])

Refunded(o) == Sum(refundedBy[o])

Live(ls) == {l \in Lines : ls[l] \in {"pending", "delivered"}}

Pending(ls) == {l \in Lines : ls[l] = "pending"}

\* TodoEntregado: at least one live line, and nothing missing on any.
TodoEntregado(ls) == Live(ls) # {} /\ Pending(ls) = {}

Subtotal(ls) == Sum([l \in Live(ls) |-> Price[l]])

\* RecalcOrderTotals: the live lines less the discount, never below zero, plus the fee.
RecalcTotal(o, ls, d) == Minus(Subtotal(ls), d) + Fee[o]

\* The checks of table orders on the total it is about to store.
Storable(o, t) == t \in Nat /\ writtenOff[o] <= t

LivePayments(o) == {k \in Keys : fate[k] = "live" /\ row[k].order = o}

Covered(o) == UNION {row[k].covers : k \in LivePayments(o)}

\* CountOrderPaymentsForNumber: the order's payments, live and voided.
PaymentsEver(o) == {k \in Keys : fate[k] # "unused" /\ row[k].order = o}

\* What each method still has to give back, of amounts and of tips.
AmountLeft(o) == [m \in Methods |-> MontoDevolvible(paidBy[o][m], refundedBy[o][m])]

TipLeft(o) == [m \in Methods |-> MontoDevolvible(tipBy[o][m], tipRefundedBy[o][m])]

\* No transaction in flight holds the row lock of the order.
Unlocked(o) == holding[o] = NoHold

Exists(o) == status[o] # "none"

\* Slip: the shift read with no lock.
ShiftReadUnlocked == phase \in {"open"} \cup HeldPhases

\* LockOpenPrimarySession answers at once: the row is open and no close holds it.
ShiftOpen == phase = "open"

\* ... and answers that there is none.
NoShift == phase \in {"none", "closed"}
-----------------------------------------------------------------------------
(***************************************************************************)
(* Orders: creation, pieces, delivery and status.                          *)
(***************************************************************************)

\* Create reads the open shift outside its transaction.
CreateRead(o) ==
    /\ ~Exists(o) /\ creating[o] = 0
    /\ ~NoShift
    /\ creating' = [creating EXCEPT ![o] = cur]
    /\ UNCHANGED <<orderVars, moneyVars, refundVars, shiftVars, advancing, discounting, holding>>

\* createInTx inserts it in the shift that was read; the foreign key waits for a close of it.
CreateInsert(o, L, d) ==
    /\ ~Exists(o) /\ creating[o] # 0
    /\ ~(creating[o] = cur /\ phase \in HeldPhases)
    /\ L # {}
    /\ LET ls == [l \in Lines |-> IF l \in L THEN "pending" ELSE "none"] IN
       /\ d <= Subtotal(ls)
       /\ Storable(o, RecalcTotal(o, ls, d))
       /\ status' = [status EXCEPT ![o] = "abierta"]
       /\ home' = [home EXCEPT ![o] = creating[o]]
       /\ line' = [line EXCEPT ![o] = ls]
       /\ out' = [out EXCEPT ![o] = [l \in Lines |-> IF l \in L THEN 1 ELSE 0]]
       /\ discount' = [discount EXCEPT ![o] = d]
       /\ total' = [total EXCEPT ![o] = RecalcTotal(o, ls, d)]
    /\ creating' = [creating EXCEPT ![o] = 0]
    /\ UNCHANGED <<writtenOff, moneyVars, refundVars, shiftVars, advancing, discounting, holding>>

\* A batch of new pieces; a delivered order that still owes goes back to the kitchen.
AddLines(o, L) ==
    /\ Exists(o) /\ Unlocked(o)
    /\ CanReceiveLines(status[o], Paid(o), total[o], o \in PlatformOrders)
    /\ L # {} /\ \A l \in L : line[o][l] = "none"
    /\ LET ls == [l \in Lines |-> IF l \in L THEN "pending" ELSE line[o][l]]
           t  == RecalcTotal(o, ls, discount[o]) IN
       /\ Storable(o, t)
       /\ line' = [line EXCEPT ![o] = ls]
       /\ out' = [out EXCEPT ![o] = [l \in Lines |-> IF l \in L THEN @[l] + 1 ELSE @[l]]]
       /\ total' = [total EXCEPT ![o] = t]
    /\ status' = [status EXCEPT ![o] = IF @ = "entregada" THEN "abierta" ELSE @]
    /\ UNCHANGED <<home, discount, writtenOff, moneyVars, refundVars, shiftVars, flightVars>>

\* One piece handed over; the order closes with its last one.
DeliverLine(o, l) ==
    /\ Unlocked(o) /\ OrderNotVoided(status[o])
    /\ line[o][l] = "pending"
    /\ line' = [line EXCEPT ![o][l] = "delivered"]
    /\ status' = [status EXCEPT ![o] = IF TodoEntregado(line'[o]) THEN "entregada" ELSE @]
    /\ UNCHANGED <<home, out, discount, total, writtenOff,
                   moneyVars, refundVars, shiftVars, flightVars>>

Delivered(ls) == [l \in Lines |-> IF ls[l] = "pending" THEN "delivered" ELSE ls[l]]

DeliverAll(o) ==
    /\ Unlocked(o) /\ CanTransition(status[o], "entregada")
    /\ Live(line[o]) # {}
    /\ line' = [line EXCEPT ![o] = Delivered(@)]
    /\ status' = [status EXCEPT ![o] = "entregada"]
    /\ UNCHANGED <<home, out, discount, total, writtenOff,
                   moneyVars, refundVars, shiftVars, flightVars>>

\* SetStatus reads the order without a lock and checks the transition there.
SetStatusRead(o, next) ==
    /\ Exists(o) /\ advancing[o] = "none"
    /\ CanTransition(status[o], next)
    /\ advancing' = [advancing EXCEPT ![o] = next]
    /\ UNCHANGED <<orderVars, moneyVars, refundVars, shiftVars, creating, discounting, holding>>

\* Slip: no check constraint on the cancelled row.
SetStatusOverwrites(o) ==
    /\ advancing[o] # "none" /\ Unlocked(o)
    /\ status' = [status EXCEPT ![o] = advancing[o]]
    /\ advancing' = [advancing EXCEPT ![o] = "none"]
    /\ UNCHANGED <<home, line, out, discount, total, writtenOff,
                   moneyVars, refundVars, shiftVars, creating, discounting, holding>>

\* ... then writes whatever it finds; only a cancelled row refuses (its check constraint).
SetStatusWrite(o) ==
    /\ advancing[o] # "none" /\ Unlocked(o)
    /\ status' = [status EXCEPT ![o] = IF @ = "cancelada" THEN @ ELSE advancing[o]]
    /\ advancing' = [advancing EXCEPT ![o] = "none"]
    /\ UNCHANGED <<home, line, out, discount, total, writtenOff,
                   moneyVars, refundVars, shiftVars, creating, discounting, holding>>

\* Slip: the total is not recalculated.
TotalKept(o, S) == total[o]

\* RecalcOrderTotals once the pieces S are gone.
TotalWithout(o, S) ==
    RecalcTotal(o, [l \in Lines |-> IF l \in S THEN "removed" ELSE line[o][l]], discount[o])

\* Taking pieces S off the order: out of the total, back to stock when the rule says so.
TakeOff(o, S) ==
    LET ls == [l \in Lines |-> IF l \in S THEN "removed" ELSE line[o][l]]
        t  == TotalWithout(o, S) IN
    /\ S \cap Covered(o) = {}
    /\ Storable(o, t)
    /\ RemovalKeepsPayments(t, Paid(o))
    /\ line' = [line EXCEPT ![o] = ls]
    /\ out' = [out EXCEPT ![o] = [l \in Lines |->
                 IF l \in S /\ ReponeInventario(l \in NeedsPrep) THEN @[l] - 1 ELSE @[l]]]
    /\ total' = [total EXCEPT ![o] = t]
    /\ status' = [status EXCEPT ![o] = IF TodoEntregado(ls) THEN "entregada" ELSE @]
    /\ UNCHANGED <<home, discount, writtenOff, moneyVars, refundVars, shiftVars, flightVars>>

RemovePieces(o, l) ==
    /\ Unlocked(o) /\ status[o] \in {"abierta", "lista"}
    /\ line[o][l] = "pending"
    /\ TakeOff(o, {l})

CancelPending(o) ==
    /\ Unlocked(o) /\ OrderNotVoided(status[o])
    /\ Pending(line[o]) # {}
    /\ TakeOff(o, Pending(line[o]))

\* The same request on an order with nothing left closes it, if it keeps no money.
CancelEmpty(o) ==
    /\ Unlocked(o) /\ CanTransition(status[o], "cancelada")
    /\ Live(line[o]) = {}
    /\ MontoDevolvible(Paid(o), Refunded(o)) = 0
    /\ status' = [status EXCEPT ![o] = "cancelada"]
    /\ UNCHANGED <<home, line, out, discount, total, writtenOff,
                   moneyVars, refundVars, shiftVars, flightVars>>

\* SetDiscount sums the payments in the snapshot of the statement that then waits for the row.
DiscountRead(o) ==
    /\ Exists(o) /\ ~discounting[o]
    /\ Paid(o) = 0
    /\ discounting' = [discounting EXCEPT ![o] = TRUE]
    /\ UNCHANGED <<orderVars, moneyVars, refundVars, shiftVars, creating, advancing, holding>>

\* ... and holds it with that sum; the columns of the row it does see fresh.
DiscountWrite(o, d) ==
    /\ discounting[o] /\ Unlocked(o)
    /\ LET t == RecalcTotal(o, line[o], d)
           accepted == OrderNotVoided(status[o]) /\ d <= Subtotal(line[o]) /\ Storable(o, t) IN
       /\ discount' = [discount EXCEPT ![o] = IF accepted THEN d ELSE @]
       /\ total' = [total EXCEPT ![o] = IF accepted THEN t ELSE @]
    /\ discounting' = [discounting EXCEPT ![o] = FALSE]
    /\ UNCHANGED <<status, home, line, out, writtenOff,
                   moneyVars, refundVars, shiftVars, creating, advancing, holding>>

\* What is missing of a delivered, half paid counter order, given up for lost.
WriteOff(o) ==
    /\ Unlocked(o) /\ o \notin PlatformOrders
    /\ CanWriteOff(status[o], total[o] - writtenOff[o], Paid(o))
    /\ writtenOff[o] = 0
    /\ PorCobrar(total[o], Paid(o)) \in 0..total[o]   \* the checks of table orders
    /\ writtenOff' = [writtenOff EXCEPT ![o] = PorCobrar(total[o], Paid(o))]
    /\ UNCHANGED <<status, home, line, out, discount, total,
                   moneyVars, refundVars, shiftVars, flightVars>>
-----------------------------------------------------------------------------
(***************************************************************************)
(* Payments.                                                               *)
(***************************************************************************)

\* discountShare, rounded half up as Round2 does.
DiscountShare(gross, d, subtotal) ==
    IF d > 0 /\ subtotal > 0 THEN (2 * gross * d + subtotal) \div (2 * subtotal) ELSE 0

\* SelectionAmount: all the rest for whatever is owed, fewer pieces for their net price.
SelectionAmount(o, S) ==
    LET gross == Sum([l \in S |-> Price[l]]) IN
    IF Live(line[o]) \ Covered(o) \subseteq S
      THEN PorCobrar(total[o], Paid(o))
      ELSE gross - DiscountShare(gross, discount[o], Subtotal(line[o]))

\* chargeAmount: an amount typed in, or pieces nobody has paid, of an order of the open shift.
Chargeable(o, amount, S) ==
    \/ S = {}
    \/ /\ o \notin PlatformOrders
       /\ home[o] = cur
       /\ S \subseteq Live(line[o]) \ Covered(o)
       /\ amount = SelectionAmount(o, S)

\* Slip: the voids are not looked up.
KeyNotLive(k) == fate[k] # "live"

\* The key is neither in order_payments nor in order_payment_voids.
KeyFree(k) == fate[k] = "unused"

\* A charge with a key that has bought nothing; a key with a row, live or voided, changes nothing.
Charge(o, k, m, amount, tip, S) ==
    /\ Exists(o) /\ Unlocked(o)
    /\ writtenOff[o] = 0
    /\ KeyFree(k)
    /\ ShiftOpen
    /\ Chargeable(o, amount, S)
    /\ ValidarCobro(status[o], total[o], Paid(o), amount)
    /\ ValidarPropina(total[o], tip)
    /\ MetodoCorrespondeALaPlataforma(m \in PlatformMethods, o \in PlatformOrders)
    /\ fate' = [fate EXCEPT ![k] = "live"]
    /\ row' = [row EXCEPT ![k] = [order |-> o, method |-> m, amount |-> amount, tip |-> tip,
                  number |-> Cardinality(PaymentsEver(o)) + 1, shift |-> cur, covers |-> S]]
    /\ paidBy' = [paidBy EXCEPT ![o][m] = @ + amount]
    /\ tipBy' = [tipBy EXCEPT ![o][m] = @ + tip]
    /\ LET handOver == /\ PagosCubren(Paid(o) + amount, total[o])
                       /\ Live(line[o]) \cap NeedsPrep = {}
                       /\ CanTransition(status[o], "entregada") IN
       /\ line' = [line EXCEPT ![o] = IF handOver THEN Delivered(@) ELSE @]
       /\ status' = [status EXCEPT ![o] = IF handOver THEN "entregada" ELSE @]
    /\ UNCHANGED <<home, out, discount, total, writtenOff, refundVars, shiftVars, flightVars>>

\* LockSessionStatusForShare on the shift of the payment.
PaymentOfOpenShift(k) == row[k].shift = cur /\ ShiftOpen

\* Slip: a payment already voided is found again.
EverPaid(k) == fate[k] # "unused"

\* GetOrderPaymentForVoid: the payment is still in order_payments.
StillPaid(k) == fate[k] = "live"

\* Slip: the tip leaves with the amount.
AmountAndTip(k) == row[k].amount + row[k].tip

\* What the sum of payments of its method loses with the row.
AmountOf(k) == row[k].amount

\* A payment of the open shift moved to the voids, with the pieces it covered.
VoidPayment(k) ==
    /\ StillPaid(k)
    /\ PaymentOfOpenShift(k)
    /\ LET o == row[k].order
           m == row[k].method IN
       /\ Unlocked(o) /\ OrderNotVoided(status[o])
       /\ VoidKeepsRefunds(paidBy[o][m] - row[k].amount, refundedBy[o][m])
       /\ paidBy' = [paidBy EXCEPT ![o][m] = @ - AmountOf(k)]
       /\ tipBy' = [tipBy EXCEPT ![o][m] = @ - row[k].tip]
    /\ fate' = [fate EXCEPT ![k] = "voided"]
    /\ UNCHANGED <<row, orderVars, refundVars, shiftVars, flightVars>>
-----------------------------------------------------------------------------
(***************************************************************************)
(* Refunds and cancellation.                                               *)
(***************************************************************************)

\* RepartirDevolucion: one method is emptied before the next gives anything.  The methods come in
\* the order of their first created_at, the start of a transaction, so any order is possible.
Splits(free, amount) ==
    {p \in [Methods -> 0..amount] :
        /\ \A m \in Methods : p[m] <= free[m]
        /\ \A m, n \in Methods : 0 < p[m] /\ p[m] < free[m] /\ n # m => p[n] \in {0, free[n]}
        /\ Sum(p) \in 0..amount
        /\ Sum(p) # amount => p = free}

\* devolverEnTx: an amount within what the order keeps and, for a line, within its price.
Refundable(o, l, amount) ==
    /\ Exists(o) /\ Unlocked(o) /\ status[o] # "reembolsada"
    /\ amount > 0 /\ amount <= MontoDevolvible(Paid(o), Refunded(o))
    /\ l # NoLine => /\ line[o][l] \in {"pending", "delivered"}
                     /\ amount <= MontoDevolvible(Price[l], lineBack[o][l])

\* recordRefundParts and RecalcOrderRefundAmount: the amounts p and tips q leave the order;
\* given of them is for line l.
GiveBack(o, l, given, p, q) ==
    /\ refundedBy' = [refundedBy EXCEPT ![o] = [m \in Methods |-> @[m] + p[m]]]
    /\ tipRefundedBy' = [tipRefundedBy EXCEPT ![o] = [m \in Methods |-> @[m] + q[m]]]
    /\ lineBack' = [lineBack EXCEPT ![o] = [x \in Lines |-> IF x = l THEN @[x] + given ELSE @[x]]]

\* The money of a refund booked in the open shift.
BookInShift(p, q) ==
    /\ back' = [back EXCEPT ![cur] = [m \in Methods |-> @[m] + p[m] + q[m]]]
    /\ UNCHANGED orphan

\* Part of an order's money goes back, with a shift open.
Devolver(o, l, amount) ==
    /\ Refundable(o, l, amount)
    /\ ShiftOpen
    /\ \E p \in Splits(AmountLeft(o), amount) :
          GiveBack(o, l, Sum(p), p, NoMoney) /\ BookInShift(p, NoMoney)
    /\ UNCHANGED <<orderVars, moneyVars, shiftVars, flightVars>>

\* The moments a transaction that finds no shift may have begun: since the last close began,
\* or before it, when it has waited for that close to commit.
Begun == {g \in {cur - 1, cur} : g >= 0}

\* What leaves the drawer needs an open shift.
OffDrawer(p, q) == \A m \in DrawerMethods : p[m] + q[m] = 0

\* The same refund finding no open shift: it will be booked without one.
DevolverNoShift(o, l, amount, g) ==
    /\ Refundable(o, l, amount)
    /\ NoShift /\ g \in Begun
    /\ \E p \in Splits(AmountLeft(o), amount) :
          /\ OffDrawer(p, NoMoney)
          /\ holding' = [holding EXCEPT ![o] =
               [line |-> l, given |-> Sum(p), amounts |-> p, tips |-> NoMoney,
                gap |-> g, cancels |-> FALSE]]
    /\ UNCHANGED <<orderVars, moneyVars, refundVars, shiftVars, creating, advancing, discounting>>

\* cancelarEnTx, up to its money: not delivered, and no piece of it handed over.
Cancellable(o) ==
    /\ Unlocked(o) /\ CanTransition(status[o], "cancelada")
    /\ \A l \in Lines : line[o][l] # "delivered"

\* Slip: the lines removed before are listed too.
EveryLine(o) == {l \in Lines : line[o][l] # "none"}

\* ListLinesToSplit: the lines that are still live.
ToRestock(o) == Live(line[o])

\* CancelOrder and the restock of each live line that needs no preparation.
CancelEffect(o) ==
    /\ status' = [status EXCEPT ![o] = "cancelada"]
    /\ out' = [out EXCEPT ![o] = [l \in Lines |->
                 IF l \in ToRestock(o) /\ ReponeInventario(l \in NeedsPrep)
                   THEN @[l] - 1 ELSE @[l]]]
    /\ UNCHANGED <<home, line, discount, total, writtenOff>>

\* Nothing left to give back: no shift is looked for.
CancelUnpaid(o) ==
    /\ Cancellable(o)
    /\ AmountLeft(o) = NoMoney /\ TipLeft(o) = NoMoney
    /\ CancelEffect(o)
    /\ UNCHANGED <<moneyVars, refundVars, shiftVars, flightVars>>

\* SplitCancellationRefund: every method gives back what it keeps, tips included.
CancelWithRefund(o) ==
    /\ Cancellable(o)
    /\ AmountLeft(o) # NoMoney \/ TipLeft(o) # NoMoney
    /\ ShiftOpen
    /\ GiveBack(o, NoLine, 0, AmountLeft(o), TipLeft(o))
    /\ BookInShift(AmountLeft(o), TipLeft(o))
    /\ CancelEffect(o)
    /\ UNCHANGED <<moneyVars, shiftVars, flightVars>>

CancelNoShift(o, g) ==
    /\ Cancellable(o)
    /\ AmountLeft(o) # NoMoney \/ TipLeft(o) # NoMoney
    /\ NoShift /\ OffDrawer(AmountLeft(o), TipLeft(o)) /\ g \in Begun
    /\ holding' = [holding EXCEPT ![o] =
                     [line |-> NoLine, given |-> 0, amounts |-> AmountLeft(o), tips |-> TipLeft(o),
                      gap |-> g, cancels |-> TRUE]]
    /\ UNCHANGED <<orderVars, moneyVars, refundVars, shiftVars, creating, advancing, discounting>>

\* A refund that found no shift commits, stamped with the start of its transaction.
CommitNoShift(o) ==
    /\ holding[o] # NoHold
    /\ LET h == holding[o] IN
       /\ GiveBack(o, h.line, h.given, h.amounts, h.tips)
       /\ orphan' = [orphan EXCEPT ![h.gap] = [m \in Methods |-> @[m] + h.amounts[m] + h.tips[m]]]
       /\ IF h.cancels THEN CancelEffect(o) ELSE UNCHANGED orderVars
    /\ holding' = [holding EXCEPT ![o] = NoHold]
    /\ UNCHANGED <<back, moneyVars, shiftVars, creating, advancing, discounting>>

\* ... or fails, and leaves nothing.
AbortNoShift(o) ==
    /\ holding[o] # NoHold
    /\ holding' = [holding EXCEPT ![o] = NoHold]
    /\ UNCHANGED <<orderVars, moneyVars, refundVars, shiftVars, creating, advancing, discounting>>

\* cancelDeliveredOwing: a delivered order nobody paid for; nothing goes back to stock.
CancelDelivered(o) ==
    /\ Unlocked(o) /\ status[o] = "entregada"
    /\ CanCancelDelivered(total[o], Paid(o))
    /\ status' = [status EXCEPT ![o] = "cancelada"]
    /\ UNCHANGED <<home, line, out, discount, total, writtenOff,
                   moneyVars, refundVars, shiftVars, flightVars>>
-----------------------------------------------------------------------------
(***************************************************************************)
(* The shift of the selling register.                                      *)
(***************************************************************************)

\* ExpectedByMethodForSession: what a shift took, tips included, less what it gave back.
Taken(s, m) ==
    Sum([k \in Keys |-> IF fate[k] = "live" /\ row[k].shift = s /\ row[k].method = m
                          THEN row[k].amount + row[k].tip ELSE 0])

Expected(s) == [m \in Methods |-> Taken(s, m) - back[s][m]]

\* Slip: the refunds are added to the shift but not marked as its own.
LeftOver(g) == orphan[g]

\* ClaimOrphanRefunds takes them all: none of that gap stays without a shift.
Unclaimed(g) == NoMoney

\* A new shift claims the refunds without one that began after the last close began.
OpenSession ==
    /\ NoShift /\ cur < MaxShifts
    /\ cur' = cur + 1
    /\ phase' = "open"
    /\ back' = [back EXCEPT ![cur + 1] = orphan[cur]]
    /\ orphan' = [orphan EXCEPT ![cur] = Unclaimed(cur)]
    /\ UNCHANGED <<orderVars, moneyVars, refundedBy, tipRefundedBy, lineBack, signed, flightVars>>

\* CloseSession takes the row of the session: charges, voids, refunds and inserts wait.
CloseLock ==
    /\ phase = "open"
    /\ phase' = "locked"
    /\ UNCHANGED <<orderVars, moneyVars, refundVars, cur, signed, flightVars>>

\* sinPedidosPendientes: no order of this shift is still open.
CloseCheckOrders ==
    /\ phase = "locked"
    /\ \A o \in Orders : home[o] = cur => status[o] \notin {"abierta", "lista"}
    /\ phase' = "swept"
    /\ UNCHANGED <<orderVars, moneyVars, refundVars, cur, signed, flightVars>>

Owing(o) ==
    /\ status[o] = "entregada" /\ o \notin PlatformOrders
    /\ Owed(total[o], Paid(o), writtenOff[o]) > 0

\* owingOrders: no delivered counter order, of any shift, still owes.
CloseCheckOwing ==
    /\ phase = "swept"
    /\ \A o \in Orders : ~Owing(o)
    /\ phase' = "cleared"
    /\ UNCHANGED <<orderVars, moneyVars, refundVars, cur, signed, flightVars>>

\* sessionWithExpected: the totals the close saves.
CloseTotals ==
    /\ phase = "cleared"
    /\ phase' = "signed"
    /\ signed' = [signed EXCEPT ![cur] = Expected(cur)]
    /\ UNCHANGED <<orderVars, moneyVars, refundVars, cur, flightVars>>

CloseCommit ==
    /\ phase = "signed"
    /\ phase' = "closed"
    /\ UNCHANGED <<orderVars, moneyVars, refundVars, cur, signed, flightVars>>

\* A check refuses, or the transaction fails: the row is free and no total is saved.
CloseRollback ==
    /\ phase \in HeldPhases
    /\ phase' = "open"
    /\ signed' = [signed EXCEPT ![cur] = NoMoney]
    /\ UNCHANGED <<orderVars, moneyVars, refundVars, cur, flightVars>>
-----------------------------------------------------------------------------
Init ==
    /\ status = [o \in Orders |-> "none"]
    /\ home = [o \in Orders |-> 0]
    /\ line = [o \in Orders |-> [l \in Lines |-> "none"]]
    /\ out = [o \in Orders |-> [l \in Lines |-> 0]]
    /\ discount = [o \in Orders |-> 0]
    /\ total = [o \in Orders |-> 0]
    /\ writtenOff = [o \in Orders |-> 0]
    /\ fate = [k \in Keys |-> "unused"]
    /\ row = [k \in Keys |-> NoRow]
    /\ paidBy = [o \in Orders |-> NoMoney]
    /\ tipBy = [o \in Orders |-> NoMoney]
    /\ refundedBy = [o \in Orders |-> NoMoney]
    /\ tipRefundedBy = [o \in Orders |-> NoMoney]
    /\ lineBack = [o \in Orders |-> [l \in Lines |-> 0]]
    /\ cur = 0
    /\ phase = "none"
    /\ signed = [s \in Shifts |-> NoMoney]
    /\ back = [s \in Shifts |-> NoMoney]
    /\ orphan = [g \in 0..MaxShifts |-> NoMoney]
    /\ creating = [o \in Orders |-> 0]
    /\ advancing = [o \in Orders |-> "none"]
    /\ discounting = [o \in Orders |-> FALSE]
    /\ holding = [o \in Orders |-> NoHold]

OrderStep(o) ==
    \/ CreateRead(o)
    \/ \E L \in SUBSET Lines, d \in 0..MaxDiscount : CreateInsert(o, L, d)
    \/ \E L \in SUBSET Lines : AddLines(o, L)
    \/ \E l \in Lines : DeliverLine(o, l)
    \/ DeliverAll(o)
    \/ \E next \in Asked : SetStatusRead(o, next)
    \/ SetStatusWrite(o)
    \/ \E l \in Lines : RemovePieces(o, l)
    \/ CancelPending(o)
    \/ CancelEmpty(o)
    \/ MaxDiscount > 0 /\ DiscountRead(o)
    \/ \E d \in 0..MaxDiscount : DiscountWrite(o, d)
    \/ WriteOff(o)

MoneyStep(o) ==
    \/ \E k \in Keys, m \in Methods, amount \in 1..MaxAmount, tip \in 0..MaxTip, S \in SUBSET Lines :
          Charge(o, k, m, amount, tip, S)
    \/ \E l \in Lines \cup {NoLine}, amount \in 1..MaxAmount : Devolver(o, l, amount)
    \/ \E l \in Lines \cup {NoLine}, amount \in 1..MaxAmount, g \in 0..MaxShifts :
          DevolverNoShift(o, l, amount, g)
    \/ CancelUnpaid(o)
    \/ CancelWithRefund(o)
    \/ \E g \in 0..MaxShifts : CancelNoShift(o, g)
    \/ CommitNoShift(o)
    \/ AbortNoShift(o)
    \/ CancelDelivered(o)

ShiftStep ==
    \/ OpenSession
    \/ CloseLock
    \/ CloseCheckOrders
    \/ CloseCheckOwing
    \/ CloseTotals
    \/ CloseCommit
    \/ CloseRollback

Next ==
    \/ \E o \in Orders : OrderStep(o) \/ MoneyStep(o)
    \/ \E k \in Keys : VoidPayment(k)
    \/ ShiftStep

Spec == Init /\ [][Next]_vars
-----------------------------------------------------------------------------
Money == [Methods -> Nat]

Row == [order : Orders, method : Methods, amount : Nat, tip : Nat,
        number : Nat, shift : Shifts, covers : SUBSET Lines]

Hold == [line : Lines \cup {NoLine}, given : Nat, amounts : Money, tips : Money,
         gap : 0..MaxShifts, cancels : BOOLEAN]

OrdersTyped ==
    /\ status \in [Orders -> Statuses \cup {"none"}]
    /\ home \in [Orders -> 0..MaxShifts]
    /\ line \in [Orders -> [Lines -> {"none", "pending", "delivered", "removed"}]]
    /\ out \in [Orders -> [Lines -> Int]]
    /\ discount \in [Orders -> Nat]
    /\ total \in [Orders -> Nat]
    /\ writtenOff \in [Orders -> Nat]

MoneyTyped ==
    /\ fate \in [Keys -> {"unused", "live", "voided"}]
    /\ row \in [Keys -> Row \cup {NoRow}]
    /\ \A k \in Keys : fate[k] # "unused" => row[k] \in Row
    /\ paidBy \in [Orders -> Money]
    /\ tipBy \in [Orders -> [Methods -> Int]]

RefundsTyped ==
    /\ refundedBy \in [Orders -> Money]
    /\ tipRefundedBy \in [Orders -> Money]
    /\ lineBack \in [Orders -> [Lines -> Nat]]
    /\ back \in [Shifts -> Money]
    /\ orphan \in [0..MaxShifts -> Money]

\* An open shift is a shift: only before the first one is there none.
ShiftTyped ==
    /\ cur \in 0..MaxShifts
    /\ phase \in {"none", "open", "closed"} \cup HeldPhases
    /\ phase = "none" <=> cur = 0
    /\ signed = [s \in Shifts |-> signed[s]]

FlightTyped ==
    /\ creating \in [Orders -> 0..MaxShifts]
    /\ advancing \in [Orders -> {"none", "lista", "entregada"}]
    /\ discounting \in [Orders -> BOOLEAN]
    /\ holding \in [Orders -> Hold \cup {NoHold}]

\* Every column, sum and step in flight has its type: an amount the tables refuse is never
\* stored, a refund books what was collected, and a voided payment keeps its row.
TypeOK == OrdersTyped /\ MoneyTyped /\ RefundsTyped /\ ShiftTyped /\ FlightTyped
-----------------------------------------------------------------------------
(***************************************************************************)
(* What the orders and the shift promise.                                  *)
(***************************************************************************)

\* No method gives back more of an order than it collected for it, whatever is refunded, voided
\* or cancelled in between, and no line more than its price.
RefundsCovered ==
    \A o \in Orders :
        /\ \A m \in Methods : refundedBy[o][m] <= paidBy[o][m]
        /\ \A l \in Lines : lineBack[o][l] <= Price[l]

\* A charge key buys at most one payment, that payment is never rewritten, and once voided the
\* key buys nothing again: a retry of an answered, or voided, charge collects nothing.
KeyBuysOnce ==
    [][\A k \in Keys : fate[k] # "unused" =>
          /\ row'[k] = row[k]
          /\ fate'[k] = fate[k] \/ (fate[k] = "live" /\ fate'[k] = "voided")]_vars

\* No two payments of an order ever carried the same number, voided ones included.
NumbersUnique ==
    \A j, k \in Keys :
        /\ fate[j] # "unused" /\ fate[k] # "unused" /\ j # k
        /\ row[j].order = row[k].order
        => row[j].number # row[k].number

Closed(s) == s < cur \/ (s = cur /\ phase \in {"signed", "closed"})

\* The totals a close has signed stay those of the shift: no charge, void, refund or claim lands
\* in it afterwards, nor between the sums of the close and its commit.
SignedStands == \A s \in Shifts : Closed(s) => signed[s] = Expected(s)

\* Every peso an order keeps is in exactly one shift, or waits for one: what all shifts expect of
\* a method, less the refunds booked in none, is what the orders keep of it.
ShiftsReconcile ==
    \A m \in Methods :
        Sum([s \in Shifts |-> Expected(s)[m]]) - Sum([g \in 0..MaxShifts |-> orphan[g][m]])
            = Sum([o \in Orders |-> paidBy[o][m] + tipBy[o][m]
                                    - refundedBy[o][m] - tipRefundedBy[o][m]])

\* A payment never exceeds what was owed and nothing takes an order below what it was paid,
\* except a discount that changes when there are payments, which its sum read before did not see.
NeverOverpaid ==
    [][\A o \in Orders :
          Paid(o) <= total[o] /\ (Paid(o) = 0 \/ discount'[o] = discount[o])
              => Paid(o)' <= total'[o]]_vars

\* A cancelled order keeps none of what was paid for its pieces.
CancelledKeepsNoSale ==
    \A o \in Orders : status[o] = "cancelada" => paidBy[o] = refundedBy[o]

\* Nothing that was in flight when an order was cancelled revives it or moves its bill, its
\* money or its stock.
CancelledIsFinal ==
    [][\A o \in Orders : status[o] = "cancelada" =>
          /\ status'[o] = "cancelada"
          /\ total'[o] = total[o] /\ writtenOff'[o] = writtenOff[o]
          /\ paidBy'[o] = paidBy[o] /\ refundedBy'[o] = refundedBy[o]
          /\ out'[o] = out[o]]_vars

\* A piece takes stock once and gives it back at most once, whether it is removed or its order
\* is cancelled, or both; what was cooked or handed over is never given back.
StockOnce ==
    \A o \in Orders, l \in Lines :
        /\ out[o][l] \in {0, 1}
        /\ line[o][l] = "delivered" \/ (l \in NeedsPrep /\ line[o][l] # "none") => out[o][l] = 1

\* The bill is the live pieces less the discount plus the fee after any change of either.
BillFollowsLines ==
    \A o \in Orders : Exists(o) => total[o] = RecalcTotal(o, line[o], discount[o])
-----------------------------------------------------------------------------
(***************************************************************************)
(* Orders, shifts and races implement the ledger of charges.               *)
(***************************************************************************)

EntryOf(k) ==
    IF fate[k] = "unused" THEN NoRow
    ELSE [order |-> row[k].order, method |-> row[k].method, amount |-> row[k].amount]

Ledger == INSTANCE ChargeLedger WITH
            NoEntry <- NoRow,
            entry <- [k \in Keys |-> EntryOf(k)],
            collected <- paidBy,
            returned <- refundedBy

\* Whatever the interleaving, a charge key buys one payment, a payment is undone at most once, and
\* no method of an order gives back what it does not hold.
LedgerImplemented == Ledger!Spec
=============================================================================
