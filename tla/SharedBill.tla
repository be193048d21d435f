------------------------------ MODULE SharedBill ------------------------------
(***************************************************************************)
(* A bill shared by several people: paying by products, by equal parts or  *)
(* by amount, moving products to another order, removing what was not      *)
(* delivered (server/internal/domain/split_bill.go and renglon.go,         *)
(* server/internal/app/move_lines.go, orders.go and devolucion.go).        *)
(*                                                                         *)
(* Pieces are counted in halves and money in cents, so that a half of an   *)
(* odd price has to be rounded.  The shift of the orders stays open and    *)
(* nothing is refunded.                                                    *)
(***************************************************************************)
EXTENDS OrderRules, Sequences, FiniteSetsExt

CONSTANTS
    Tablets,     \* who moves products, each in one move at a time
    Orders,      \* ids of orders, those no bill has are opened by moves
    Bills,       \* how the orders may be when the sharing begins
    MoveKeys,    \* keys of the moves, a bill names those its orders may use
    MaxPieces    \* bound: halves of a line picked at once

ASSUME BillsAssumption ==
    /\ Orders \subseteq Nat \ {0}
    /\ MaxPieces \in Nat
    /\ \A b \in Bills :
          /\ b.discount \in [Orders -> Nat] /\ b.fee \in [Orders -> Nat]
          /\ b.lines \in Seq([home : Orders, qty : Nat \ {0}, unit : Nat])
          /\ b.payments \in Nat /\ b.rows \in Nat
          /\ b.parts \subseteq Nat /\ b.typed \subseteq Nat

\* A line has no more halves than its piece costs cents, unless that price is even: with less,
\* each half rounded up on its way out would leave the line below zero.
ASSUME PricesAssumption ==
    \A b \in Bills : \A i \in DOMAIN b.lines :
        b.lines[i].unit % 2 = 0 \/ b.lines[i].qty <= b.lines[i].unit

VARIABLES
    bill,    \* the bill the orders began as: discount, delivery fee, needs_prep, and its bounds
    status,  \* status of each order, "none" before it is opened
    line,    \* order_lines in the order of their ids
    pays,    \* order_payments with their order_payment_lines
    numbers, \* payments made, voided ones included
    asked,   \* what each key of a move was first sent with
    gone,    \* halves in order_line_moves of each key
    move     \* the move each tablet is waiting to make

vars == <<bill, status, line, pays, numbers, asked, gone, move>>
-----------------------------------------------------------------------------
Ids == DOMAIN line

Live(o) == {i \in Ids : line[i].home = o /\ line[i].live}

Total(f) == FoldFunction(+, 0, f)

\* a/b rounded to an integer as decimal.Round does, halves away from zero.
Rounded(a, b) == IF a >= 0 THEN (2 * a + b) \div (2 * b) ELSE -((b - 2 * a) \div (2 * b))

Subtotal(ls, o) ==
    Total([i \in {j \in DOMAIN ls : ls[j].home = o /\ ls[j].live} |-> ls[i].amount])

\* RecalcOrderTotals.
RecalcTotal(ls, o) == Minus(Subtotal(ls, o), bill.discount[o]) + bill.fee[o]

OrderTotal(o) == RecalcTotal(line, o)

PaysOf(o) == {p \in pays : p.order = o}

Paid(o) == Total([p \in PaysOf(o) |-> p.amount])

Outstanding(o) == PorCobrar(OrderTotal(o), Paid(o))

\* Pieces of a line that payments cover.
Covered(i) == Total([p \in {q \in pays : i \in DOMAIN q.covers} |-> p.covers[i].qty])

\* Slip: what is paid may go.
SlipMovable(i) == line[i].qty

\* MovablePieces: what is paid stays on the line that was charged.
Movable(i) == Minus(line[i].qty, Covered(i))

Pending(l) == l.qty - l.done

TodoEntregado(ls, o) ==
    LET live == {i \in DOMAIN ls : ls[i].home = o /\ ls[i].live}
    IN  live # {} /\ \A i \in live : Pending(ls[i]) = 0

\* cerrarSiYaSeEntregoTodo, over the lines as they are left.
CloseIfDelivered(st, ls, o) ==
    IF TodoEntregado(ls, o) THEN [st EXCEPT ![o] = "entregada"] ELSE st

Unlocked(o) == \A t \in Tablets : move[t].holds # o
-----------------------------------------------------------------------------
\* SplitLine: pending pieces go first, and delivered ones go only with all of them.
CanSplit(i, k) ==
    LET l == line[i] IN
    /\ k \in 1..Movable(i)
    /\ l.done > 0 /\ Pending(l) > 0 => (k <= Pending(l) \/ k = l.qty)

\* Slip: what stays is rounded on its own.
SlipKept(l, k) == Rounded((l.qty - k) * l.unit, 2)

\* SplitLineTotal: what stays is worth the rest.
Kept(l, k) == l.amount - Rounded(k * l.unit, 2)

\* Slip: what was delivered stays.
SlipGoesDelivered(l, k) == 0

\* Of k pieces that go, the delivered ones.
GoesDelivered(l, k) == Minus(k, Pending(l))

\* splitOrderLine: k pieces of line i of ls go to a new line of order o.
SplitOff(ls, i, k, o, live) ==
    LET l == ls[i]
        d == GoesDelivered(l, k) IN
    Append([ls EXCEPT ![i] = [@ EXCEPT !.qty = l.qty - k, !.done = l.done - d,
                                       !.amount = Kept(l, k)]],
           [l EXCEPT !.home = o, !.qty = k, !.done = d, !.live = live,
                     !.amount = Rounded(k * l.unit, 2)])

\* A whole line goes as it is: MoveOrderLineToOrder, CancelOrderLine.
WholeLine(ls, i, o, live) == [ls EXCEPT ![i] = [@ EXCEPT !.home = o, !.live = live]]

\* moveOne, or the removal of pieces, for each line of a selection by id.
TakeOut(sel, o, live) ==
    LET take(ls, i) == IF sel[i] = ls[i].qty THEN WholeLine(ls, i, o, live)
                                             ELSE SplitOff(ls, i, sel[i], o, live)
        taken[n \in 0..Len(line)] ==
            IF n = 0 THEN line
            ELSE IF n \in DOMAIN sel THEN take(taken[n - 1], n)
            ELSE taken[n - 1]
    IN  taken[Len(line)]

\* Pieces somebody may pick of an order, none that is paid.
Selections(o) ==
    LET picked(f) == {i \in DOMAIN f : f[i] > 0}
    IN  {Restrict(f, picked(f)) :
            f \in {g \in [Live(o) -> 0..MaxPieces] : /\ picked(g) # {}
                                                     /\ \A i \in Live(o) : g[i] <= Movable(i)}}

Fits(ls) == Len(ls) <= bill.rows
-----------------------------------------------------------------------------
\* discountShare, of g half cents.
HasDiscount(o) == bill.discount[o] > 0 /\ Subtotal(line, o) > 0

Share(o, g) == IF HasDiscount(o) THEN Rounded(g * bill.discount[o], 2 * Subtotal(line, o)) ELSE 0

NetOfLine(o, i, k) ==
    LET g == k * line[i].unit
        s == Subtotal(line, o) IN
    IF HasDiscount(o) THEN Rounded(g * (s - bill.discount[o]), 2 * s) ELSE Rounded(g, 2)

\* spreadOverLines: the last line takes what rounding leaves.
Spread(nets, target) ==
    LET all   == Total(nets)
        last  == Max(DOMAIN nets)
        scaled(i) == IF target < all /\ all > 0 THEN Rounded(nets[i] * target, all) ELSE nets[i]
        before == [i \in DOMAIN nets \ {last} |-> scaled(i)]
    IN  [i \in DOMAIN nets |-> IF i = last THEN target - Total(before) ELSE before[i]]

AllRemaining(o) == [i \in {j \in Live(o) : Movable(j) > 0} |-> Movable(i)]

CoversEverythingLeft(o, sel) ==
    \A i \in Live(o) : Movable(i) > 0 => i \in DOMAIN sel /\ sel[i] = Movable(i)

\* SelectionAmount: what the pieces of sel are charged.
SelectionAmount(o, sel) ==
    IF CoversEverythingLeft(o, sel) THEN Outstanding(o)
    ELSE LET gross == Total([i \in DOMAIN sel |-> sel[i] * line[i].unit])
         IN  Rounded(gross, 2) - Share(o, gross)

\* What it says each of their lines is paid; the fee is no product.
SelectionLines(o, sel) ==
    LET amount == SelectionAmount(o, sel)
        target == IF CoversEverythingLeft(o, sel) THEN Minus(amount, bill.fee[o]) ELSE amount
        paid   == Spread([i \in DOMAIN sel |-> NetOfLine(o, i, sel[i])], target)
    IN  IF sel = <<>> THEN <<>>
        ELSE [i \in DOMAIN sel |-> [qty |-> sel[i], amount |-> paid[i]]]
-----------------------------------------------------------------------------
\* Parts of a series between n already charged.
Charged(o, n) == {p.part : p \in {q \in PaysOf(o) : q.of = n}}

\* Slip: every part is of the whole bill.
SlipPartAmount(o, n) == OrderTotal(o) \div n

\* SplitPartAmount: the part of what is still owed, and the last one takes it all.
PartAmount(o, n) ==
    LET left == n - Cardinality(Charged(o, n))
    IN  IF left = 1 THEN Outstanding(o) ELSE Outstanding(o) \div left

\* What Charge does with the amount and the lines chargeAmount says.
Pay(o, amount, covers, part, n) ==
    /\ Unlocked(o)
    /\ numbers < bill.payments
    /\ ValidarCobro(status[o], OrderTotal(o), Paid(o), amount)
    /\ \A i \in DOMAIN covers : covers[i].amount >= 0
    /\ numbers' = numbers + 1
    /\ pays' = pays \cup {[number |-> numbers + 1, order |-> o, amount |-> amount,
                           covers |-> covers, part |-> part, of |-> n]}
    /\ LET handOver == /\ PagosCubren(Paid(o) + amount, OrderTotal(o))
                       /\ ~bill.needsPrep
                       /\ CanTransition(status[o], "entregada") IN
       IF handOver
       THEN /\ status' = [status EXCEPT ![o] = "entregada"]
            /\ line' = [i \in Ids |-> IF i \in Live(o) THEN [line[i] EXCEPT !.done = @ + Pending(line[i])]
                                                       ELSE line[i]]
       ELSE UNCHANGED <<status, line>>
    /\ UNCHANGED <<bill, asked, gone, move>>

Charge(o) ==
    \/ \E a \in bill.typed : Pay(o, a, <<>>, 0, 0)
    \/ \E sel \in Selections(o) \cup {AllRemaining(o)} :
          Pay(o, SelectionAmount(o, sel), SelectionLines(o, sel), 0, 0)
    \/ \E n \in bill.parts : \E part \in (1..n) \ Charged(o, n) :
          Pay(o, PartAmount(o, n), <<>>, part, n)

VoidPayment(p) ==
    /\ Unlocked(p.order)
    /\ OrderNotVoided(status[p.order])
    /\ pays' = pays \ {p}
    /\ UNCHANGED <<bill, status, line, numbers, asked, gone, move>>
-----------------------------------------------------------------------------
DeliverLine(i, k) ==
    LET o  == line[i].home
        ls == [line EXCEPT ![i].done = @ + k] IN
    /\ Unlocked(o)
    /\ OrderNotVoided(status[o])
    /\ line[i].live
    /\ k \in 1..Pending(line[i])
    /\ line' = ls
    /\ status' = CloseIfDelivered(status, ls, o)
    /\ UNCHANGED <<bill, pays, numbers, asked, gone, move>>

DeliverAll(o) ==
    /\ Unlocked(o)
    /\ CanTransition(status[o], "entregada")
    /\ Live(o) # {}
    /\ line' = [i \in Ids |-> IF i \in Live(o) THEN [line[i] EXCEPT !.done = line[i].qty] ELSE line[i]]
    /\ status' = [status EXCEPT ![o] = "entregada"]
    /\ UNCHANGED <<bill, pays, numbers, asked, gone, move>>

\* What canRemove lets go of a line: pending and not paid.
Removable(i) == Min({Pending(line[i]), Movable(i)})

\* Pieces of lines of o are cancelled, and what was paid must still fit: keepsPayments.
TakeOff(o, sel) ==
    LET ls == TakeOut(sel, o, FALSE) IN
    /\ Fits(ls)
    /\ RemovalKeepsPayments(RecalcTotal(ls, o), Paid(o))
    /\ line' = ls
    /\ status' = CloseIfDelivered(status, ls, o)
    /\ UNCHANGED <<bill, pays, numbers, asked, gone, move>>

RemovePieces(i, k) ==
    LET o == line[i].home IN
    /\ Unlocked(o)
    /\ status[o] \in {"abierta", "lista"}
    /\ line[i].live
    /\ k \in 1..Removable(i)
    /\ TakeOff(o, [j \in {i} |-> k])

CancelPending(o) ==
    LET pending == {i \in Live(o) : Pending(line[i]) > 0} IN
    /\ Unlocked(o)
    /\ OrderNotVoided(status[o])
    /\ pending # {}
    /\ \A i \in pending : Pending(line[i]) <= Movable(i)
    /\ TakeOff(o, [i \in pending |-> Pending(line[i])])

\* CancelPending of an order with no products and nothing to give back.
CancelEmpty(o) ==
    /\ Unlocked(o)
    /\ Live(o) = {}
    /\ Paid(o) = 0
    /\ CanTransition(status[o], "cancelada")
    /\ status' = [status EXCEPT ![o] = "cancelada"]
    /\ UNCHANGED <<bill, line, pays, numbers, asked, gone, move>>
-----------------------------------------------------------------------------
Idle == [holds |-> 0, waits |-> 0, key |-> 0]

\* Slip: the order that gives is locked first.
SlipLockFirst(from, to) == from

\* lockMoveOrders: ascending ids.
LockFirst(from, to) == Min({from, to})

\* A tablet sends a move, or sends again one whose answer it did not get, and locks the first
\* order of the two.  To an order of its own there is one lock, and MoveCommit waits for it.
MoveLock(t, key) ==
    LET r == asked[key]
        first == LockFirst(r.from, r.to) IN
    /\ move[t] = Idle
    /\ r.from # 0
    /\ r.to = 0 \/ Unlocked(first)
    /\ move' = [move EXCEPT ![t] =
                   IF r.to = 0 THEN [holds |-> 0, waits |-> r.from, key |-> key]
                   ELSE [holds |-> first, waits |-> IF first = r.from THEN r.to ELSE r.from, key |-> key]]
    /\ UNCHANGED <<bill, status, line, pays, numbers, asked, gone>>

Ask(key, from, to, sel) ==
    /\ asked[key].from = 0
    /\ asked' = [asked EXCEPT ![key] = [from |-> from, to |-> to, sel |-> sel]]
    /\ UNCHANGED <<bill, status, line, pays, numbers, gone, move>>

Everything(from, sel) == Live(from) = DOMAIN sel /\ \A i \in DOMAIN sel : sel[i] = line[i].qty

\* canGiveLines, canReceiveLines, planMove and keepsPayments; to = 0 is an order of its own.
CanMove(from, to, sel) ==
    /\ OrderNotVoided(status[from])
    /\ bill.discount[from] = 0
    /\ to # 0 => /\ CanReceiveLines(status[to], Paid(to), OrderTotal(to), FALSE)
                 /\ bill.discount[to] = 0
    /\ DOMAIN sel \subseteq Live(from)
    /\ \A i \in DOMAIN sel : CanSplit(i, sel[i])
    /\ Everything(from, sel) =>
          to # 0 /\ bill.fee[from] = 0 /\ status[from] \in {"abierta", "lista"}
    /\ LET ls == TakeOut(sel, to, TRUE)
       IN  Fits(ls) /\ RemovalKeepsPayments(RecalcTotal(ls, from), Paid(from))

\* Slip: a delivered order that receives pieces stays delivered.
SlipReceive(st, ls, to) == CloseIfDelivered(st, ls, to)

\* ReabreAlAgregar, or the order closes by itself.
Receive(st, ls, to) ==
    IF st[to] = "entregada" /\ ~TodoEntregado(ls, to) THEN [st EXCEPT ![to] = "abierta"]
    ELSE CloseIfDelivered(st, ls, to)

\* The lines go, both orders are closed or opened, and an order left with none is merged.
Pass(from, to, sel, key) ==
    LET ls == TakeOut(sel, to, TRUE)
        st == Receive([status EXCEPT ![to] = IF @ = "none" THEN "abierta" ELSE @], ls, to) IN
    /\ line' = ls
    /\ status' = IF Everything(from, sel) THEN [st EXCEPT ![from] = "cancelada"]
                 ELSE CloseIfDelivered(st, ls, from)
    /\ gone' = [gone EXCEPT ![key] = @ + Total(sel)]

\* Slip: a key that moved products already is not looked for.
SlipAlreadyMoved(key) == FALSE

\* GetLineMoveBatch.
AlreadyMoved(key) == gone[key] > 0

\* With both orders locked, the products move, or the move is answered as a retry or refused.
MoveCommit(t) ==
    LET key == move[t].key
        r   == asked[key]
        new == {o \in Orders : status[o] = "none"} IN
    /\ key # 0
    /\ Unlocked(move[t].waits)
    /\ IF ~AlreadyMoved(key) /\ CanMove(r.from, r.to, r.sel)
       THEN \E to \in IF r.to # 0 THEN {r.to} ELSE {o \in new : \A n \in new : o <= n} :
               Pass(r.from, to, r.sel, key)
       ELSE UNCHANGED <<status, line, gone>>
    /\ move' = [move EXCEPT ![t] = Idle]
    /\ UNCHANGED <<bill, pays, numbers, asked>>
-----------------------------------------------------------------------------
Init ==
    /\ bill \in Bills
    /\ line = [i \in DOMAIN bill.lines |->
                 LET l == bill.lines[i] IN
                 [home |-> l.home, qty |-> l.qty, unit |-> l.unit, done |-> 0, live |-> TRUE,
                  amount |-> Rounded(l.qty * l.unit, 2)]]
    /\ status = [o \in Orders |-> IF Live(o) = {} THEN "none" ELSE "abierta"]
    /\ pays = {}
    /\ numbers = 0
    /\ asked = [k \in MoveKeys |-> [from |-> 0, to |-> 0, sel |-> <<>>]]
    /\ gone = [k \in MoveKeys |-> 0]
    /\ move = [t \in Tablets |-> Idle]

AskMove(key) ==
    key \in bill.keys /\ \E from \in Orders : \E to \in {0} \cup (Orders \ {from}) : \E sel \in Selections(from) :
        /\ status[from] # "none"
        /\ to # 0 => status[to] # "none"
        /\ Ask(key, from, to, sel)

OrderStep(o) == Charge(o) \/ DeliverAll(o) \/ CancelPending(o) \/ CancelEmpty(o)

LineStep(i) ==
    \/ \E k \in 1..MaxPieces : DeliverLine(i, k)
    \/ \E k \in 1..MaxPieces : RemovePieces(i, k)

MoveStep(t) == (\E key \in MoveKeys : MoveLock(t, key)) \/ MoveCommit(t)

Next ==
    \/ \E o \in Orders : OrderStep(o)
    \/ \E p \in pays : VoidPayment(p)
    \/ \E i \in Ids : LineStep(i)
    \/ \E key \in MoveKeys : AskMove(key)
    \/ \E t \in Tablets : MoveStep(t)

Spec == Init /\ [][Next]_vars
-----------------------------------------------------------------------------
LineType == [home : Orders, qty : Nat \ {0}, unit : Nat, amount : Nat, done : Nat, live : BOOLEAN]

\* Types: no piece delivered that is not there, and every payment names lines and pieces that are.
TypeOK ==
    /\ bill \in Bills
    /\ status \in [Orders -> Statuses \cup {"none"}]
    /\ \A i \in Ids : line[i] \in LineType /\ line[i].done <= line[i].qty
    /\ \A p \in pays : /\ p.order \in Orders /\ p.amount \in Nat \ {0}
                       /\ \A i \in DOMAIN p.covers : i \in Ids /\ p.covers[i].qty \in Nat \ {0}
    /\ numbers \in 0..bill.payments
    /\ gone \in [MoveKeys -> Nat]
    /\ \A t \in Tablets : move[t].holds \in {0} \cup Orders /\ move[t].waits \in {0} \cup Orders

\* No piece is paid twice, and what a payment covers stays, alive, on the order that was paid:
\* selections are charged, moved and removed piece by piece, always under the order's lock.
PiecesPaidOnce ==
    /\ \A i \in Ids : Covered(i) <= line[i].qty
    /\ \A p \in pays : \A i \in DOMAIN p.covers : line[i].home = p.order /\ line[i].live

\* However a bill is split, moved and cut, what was paid of an order fits in its total: the
\* discount is shared in proportion, the last payment takes the rounding and the fee, and nothing
\* leaves an order that its payments need.
PaymentsFit == \A o \in Orders : Paid(o) <= OrderTotal(o)

\* Splitting lines invents and loses no cent and no piece (spec 031, D17).
NothingInvented ==
    /\ Total([i \in Ids |-> line[i].qty]) = Total([i \in DOMAIN bill.lines |-> bill.lines[i].qty])
    /\ Total([i \in Ids |-> line[i].amount]) =
          Total([i \in DOMAIN bill.lines |-> Rounded(bill.lines[i].qty * bill.lines[i].unit, 2)])

\* A move sent again moves nothing again: its key moved all it was asked, once, or nothing.
MovedOnce == \A k \in MoveKeys : gone[k] \in {0, Total(asked[k].sel)}

\* Two moves never hold an order each and wait for the other's.
NoWaitCycle ==
    \A t, u \in Tablets : ~(/\ move[t].holds # 0 /\ move[u].holds # 0
                            /\ move[t].waits = move[u].holds /\ move[u].waits = move[t].holds)

\* An order the board stopped showing has nothing pending, and one it shows has something
\* pending or no product at all: moves, removals and deliveries close and reopen both orders.
BoardShowsPending ==
    \A o \in Orders :
        /\ status[o] = "entregada" => \A i \in Live(o) : Pending(line[i]) = 0
        /\ status[o] \in {"abierta", "lista"} => ~TodoEntregado(line, o)

\* The last part charged of a series leaves the order paid, whatever was charged, voided, moved
\* or removed between one part and the next (SplitPartAmount).
LastPartSettles ==
    [][\A p \in pays' \ pays :
          p.of > 0 /\ Cardinality({q \in pays' : q.order = p.order /\ q.of = p.of}) = p.of
             => Outstanding(p.order)' = 0]_vars
=============================================================================
