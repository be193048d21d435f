----------------------------- MODULE OrderRules -----------------------------
(***************************************************************************)
(* The pure decisions of package domain that the orders service asks under *)
(* the lock of an order (src/server/internal/domain: order.go, cobro.go,   *)
(* devolucion.go, fiado.go, entrega.go, renglon.go).  Money is a natural   *)
(* number of the smallest unit: Round2 leaves such amounts alone.          *)
(***************************************************************************)
EXTENDS Integers

Statuses == {"abierta", "lista", "entregada", "cancelada", "reembolsada"}

\* x - y, floored at zero: decimal.Max(0, x - y) and its early-return forms.
Minus(x, y) == IF x > y THEN x - y ELSE 0

CanTransition(current, next) ==
    \/ current = "abierta" /\ next \in {"lista", "entregada", "cancelada"}
    \/ current = "lista"   /\ next \in {"entregada", "cancelada"}

OrderNotVoided(status) == status \in {"abierta", "lista", "entregada"}

PagosCubren(paid, total) == paid >= total

PedidoSaldado(paid, total) == total = 0 \/ (total > 0 /\ PagosCubren(paid, total))

\* What an order still owes its payments.
PorCobrar(total, paid) == Minus(total, paid)

\* What it owes once the part written off as lost is taken out.
Owed(total, paid, writtenOff) == PorCobrar(total - writtenOff, paid)

\* ValidarCobro: an amount that may be charged to an order in this status.
ValidarCobro(status, total, paid, amount) ==
    /\ status \notin {"cancelada", "reembolsada"}
    /\ amount > 0
    /\ amount <= PorCobrar(total, paid)

\* ValidarPropina: a tip never exceeds the bill.
ValidarPropina(total, tip) == tip <= total

MetodoCorrespondeALaPlataforma(platformMethod, platformOrder) ==
    platformMethod <=> platformOrder

\* CanReceiveLines: a counter order that is not over; a delivered one only while it owes.
CanReceiveLines(status, paid, total, platformOrder) ==
    /\ ~platformOrder
    /\ \/ status \in {"abierta", "lista"}
       \/ status = "entregada" /\ ~PedidoSaldado(paid, total)

\* WriteOffRemainder refuses unless the order is delivered, half paid and owing.
CanWriteOff(status, total, paid) ==
    status = "entregada" /\ PorCobrar(total, paid) > 0 /\ paid > 0

\* Slip: whatever still owes can be cancelled.
CanCancelOwing(total, paid) == PorCobrar(total, paid) > 0

\* CanCancelDelivered: only a delivered order that owes everything.
CanCancelDelivered(total, paid) == paid = 0 /\ total > 0

MontoDevolvible(collected, returned) == Minus(collected, returned)

\* Slip: the refunds of the method are forgotten.
VoidKeepsSomething(left, returned) == left >= 0

\* VoidKeepsRefunds: what the method keeps still covers what it gave back.
VoidKeepsRefunds(left, returned) == returned <= left

\* Slip: the payments are forgotten.
RemovalKeepsTotal(newTotal, paid) == newTotal >= 0

\* RemovalKeepsPayments: taking pieces away may not leave the order overpaid.
RemovalKeepsPayments(newTotal, paid) == paid <= newTotal

\* ReponeInventario, for a piece already sent to the kitchen: only what needs no preparation.
ReponeInventario(needsPrep) == ~needsPrep
=============================================================================
