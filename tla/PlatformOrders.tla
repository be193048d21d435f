---------------------------- MODULE PlatformOrders ----------------------------
(***************************************************************************)
(* The orders a delivery platform sends: the notice, sent again until it   *)
(* is confirmed; the tablets that see the order and accept it; the sale it *)
(* becomes, already paid, with or without an open shift                    *)
(* (server/internal/app/pedidos_de_plataforma.go and its queries).         *)
(*                                                                         *)
(* One branch and one selling register.  The platform is external: it      *)
(* repeats what is not confirmed, and cancels what nobody accepts.         *)
(***************************************************************************)
EXTENDS LiveStreams, FiniteSets

CONSTANTS
    Orders,     \* orders of the platform
    Notices,    \* notices, by event_id
    OrderOf,    \* the order of each notice
    MaxShifts,  \* bound: shifts opened
    MaxDay      \* bound: business days

Shifts == 1 .. MaxShifts

ASSUME PlatformAssumption ==
    /\ OrderOf \in [Notices -> Orders]
    /\ MaxShifts \in Nat /\ MaxDay \in Nat \ {0}

VARIABLES
    platform,  \* what the platform has of each order
    event,     \* platform_webhook_events: notices stored
    notice,    \* the request a notice is in, and whether the platform got its 200
    inbox,     \* state in platform_incoming_orders
    sale,      \* the orders of the POS it became, with the shift of the order and of its payment
    request,   \* the acceptance of each tablet
    shift,     \* the open shift, and how many were opened
    signed,    \* the platform payments in the count of each closed shift
    day        \* business date

ownVars == <<platform, event, notice, inbox, sale, request, shift, signed, day>>

vars == <<streamVars, ownVars>>

NoShift == 0

Pending == {o \in Orders : inbox[o] = "pendiente"}
-----------------------------------------------------------------------------
(***************************************************************************)
(* Receiving a notice (RecibirAviso, WebhookDePlataforma).                 *)
(***************************************************************************)
Waiting == [st |-> "waiting", at |-> Down]
Confirmed == [st |-> "confirmed", at |-> Down]

\* The notice is stored before anything else; one stored before is confirmed.
\* The platform never repeats one it saw confirmed.
ReceiveNotice(n) ==
    /\ notice[n] = Waiting
    /\ \E c \in Serving :
          /\ event' = event \cup {n}
          /\ notice' = [notice EXCEPT ![n] = IF n \in event THEN Confirmed ELSE [st |-> "stored", at |-> c]]
    /\ UNCHANGED <<platform, inbox, sale, request, shift, signed, day, streamVars>>

\* The detail cannot be read, or what follows fails: the notice is marked
\* failed and not confirmed.
FailNotice(n) ==
    /\ notice[n].st = "stored"
    /\ notice' = [notice EXCEPT ![n] = Waiting]
    /\ UNCHANGED <<platform, event, inbox, sale, request, shift, signed, day, streamVars>>

\* registrarPedido: one row for each order (on conflict do nothing); only who
\* inserted it publishes it.
RegisterOrder(n) ==
    LET o == OrderOf[n] IN
    /\ notice[n].st = "stored"
    /\ inbox' = [inbox EXCEPT ![o] = IF @ = "none" THEN "pendiente" ELSE @]
    /\ notice' = [notice EXCEPT ![n] = IF inbox[o] = "none" THEN [@ EXCEPT !.st = "registered"] ELSE Confirmed]
    /\ UNCHANGED <<platform, event, sale, request, shift, signed, day, streamVars>>

\* Published in this copy and confirmed, unless the answer is lost or
\* MarkWebhookEventDone fails; nobody publishes it then.
ConfirmNotice(n) ==
    /\ notice[n].st = "registered"
    /\ \/ notice' = [notice EXCEPT ![n] = Confirmed] /\ Publish(notice[n].at, <<"list">>)
       \/ notice' = [notice EXCEPT ![n] = Waiting] /\ UNCHANGED chan
    /\ UNCHANGED <<copy, handler, link, fell, fetch, shown, drops>>
    /\ UNCHANGED <<platform, event, inbox, sale, request, shift, signed, day>>
-----------------------------------------------------------------------------
(***************************************************************************)
(* Accepting an order (Aceptar).                                           *)
(***************************************************************************)
NoRequest == [st |-> "none", at |-> Down, shift |-> NoShift, date |-> 0]

\* Whether the platform confirms: what it says of an order accepted before is
\* not known.
PlatformConfirms(o) == platform[o] \in {"offered", "accepted"}

\* First the platform: one that does not confirm leaves nothing here.
AskPlatform(t, o) ==
    /\ request[o][t] = NoRequest /\ o \in shown[t] /\ inbox[o] = "pendiente"
    /\ PlatformConfirms(o)
    /\ \E c \in Serving : request' = [request EXCEPT ![o][t] = [NoRequest EXCEPT !.st = "agreed", !.at = c, !.date = day]]
    /\ platform' = [platform EXCEPT ![o] = "accepted"]
    /\ UNCHANGED <<event, notice, inbox, sale, shift, signed, day, streamVars>>

\* turnoYFolio: the open shift is looked for, and then locked.
LookShift(t, o) ==
    /\ request[o][t].st = "agreed"
    /\ request' = [request EXCEPT ![o][t] = [@ EXCEPT !.st = "looked", !.shift = shift.open]]
    /\ UNCHANGED <<platform, event, notice, inbox, sale, shift, signed, day, streamVars>>

\* The shift is not locked.
SlipShiftOf(q) == q.shift

\* LockOpenSessionForShare: a shift closed meanwhile takes nothing.
ShiftOf(q) == IF q.shift = shift.open THEN q.shift ELSE NoShift

\* The row is updated without looking at its state.
SlipWins(o) == TRUE

\* AcceptIncomingOrder: the second of two tablets undoes everything.
Wins(o) == inbox[o] = "pendiente"

CommitAccept(t, o) ==
    LET q == request[o][t]
        s == ShiftOf(q)
    IN
    /\ q.st = "looked"
    /\ \/ /\ Wins(o)
          /\ inbox' = [inbox EXCEPT ![o] = "aceptado"]
          /\ sale' = [sale EXCEPT ![o] = Append(@, [shift |-> s, paid |-> s, date |-> q.date])]
          /\ request' = [request EXCEPT ![o][t].st = "done"]
       \/ ~Wins(o) /\ request' = [request EXCEPT ![o][t] = NoRequest] /\ UNCHANGED <<inbox, sale>>
    /\ UNCHANGED <<platform, event, notice, shift, signed, day, streamVars>>

\* The tablets are told (AcceptPlatformOrder).
PublishAccept(t, o) ==
    /\ request[o][t].st = "done"
    /\ Publish(request[o][t].at, <<"other", "list">>)
    /\ request' = [request EXCEPT ![o][t] = NoRequest]
    /\ UNCHANGED <<copy, handler, link, fell, fetch, shown, drops>>
    /\ UNCHANGED <<platform, event, notice, inbox, sale, shift, signed, day>>

\* A query fails or the tablet goes away: the transaction is undone.
AbandonAccept(t, o) ==
    /\ request[o][t].st \in {"agreed", "looked"}
    /\ request' = [request EXCEPT ![o][t] = NoRequest]
    /\ UNCHANGED <<platform, event, notice, inbox, sale, shift, signed, day, streamVars>>

\* The platform cancels what nobody accepted in time; its notice is not
\* processed.
CancelOffer(o) ==
    /\ platform[o] = "offered"
    /\ platform' = [platform EXCEPT ![o] = "cancelled"]
    /\ UNCHANGED <<event, notice, inbox, sale, request, shift, signed, day, streamVars>>
-----------------------------------------------------------------------------
(***************************************************************************)
(* The shift.                                                              *)
(***************************************************************************)

\* ReclamarPedidosDePlataformaHuerfanos: the sales of the day without shift,
\* with their payments.
Claimed(a, s) == IF a.shift = NoShift /\ a.date = day THEN [a EXCEPT !.shift = s, !.paid = s] ELSE a

OpenShift ==
    LET s == shift.last + 1 IN
    /\ shift.open = NoShift /\ s \in Shifts
    /\ shift' = [open |-> s, last |-> s]
    /\ sale' = [o \in Orders |-> [i \in DOMAIN sale[o] |-> Claimed(sale[o][i], s)]]
    /\ UNCHANGED <<platform, event, notice, inbox, request, signed, day, streamVars>>

PaidIn(s) == {o \in Orders : \E i \in DOMAIN sale[o] : sale[o][i].paid = s}

\* CloseSession signs what the payments of the shift come to.
CloseShift ==
    /\ shift.open # NoShift
    /\ signed' = [signed EXCEPT ![shift.open] = PaidIn(shift.open)]
    /\ shift' = [shift EXCEPT !.open = NoShift]
    /\ UNCHANGED <<platform, event, notice, inbox, sale, request, day, streamVars>>

NextDay ==
    /\ day < MaxDay
    /\ day' = day + 1
    /\ UNCHANGED <<platform, event, notice, inbox, sale, request, shift, signed, streamVars>>
-----------------------------------------------------------------------------
\* Requests in course in a copy, besides the streams and the lists.
Busy(c) ==
    \/ \E n \in Notices : notice[n].at = c
    \/ \E o \in Orders, t \in Tablets : request[o][t].at = c

Exit(c) == ExitCopy(c, Busy(c)) /\ UNCHANGED ownVars

\* What was committed stays; the platform repeats what it did not see confirmed.
Crash(c) ==
    /\ CrashCopy(c)
    /\ notice' = [n \in Notices |-> IF notice[n].at = c THEN Waiting ELSE notice[n]]
    /\ request' = [o \in Orders |-> [t \in Tablets |->
                      IF request[o][t].at = c THEN NoRequest ELSE request[o][t]]]
    /\ UNCHANGED <<platform, event, inbox, sale, shift, signed, day>>

\* Pendientes.
AnswerPending(t) == Answer(t, Pending) /\ UNCHANGED ownVars

Init ==
    /\ StreamInit
    /\ platform = [o \in Orders |-> "offered"]
    /\ event = {}
    /\ notice = [n \in Notices |-> Waiting]
    /\ inbox = [o \in Orders |-> "none"]
    /\ sale = [o \in Orders |-> <<>>]
    /\ request = [o \in Orders |-> [t \in Tablets |-> NoRequest]]
    /\ shift = [open |-> NoShift, last |-> 0]
    /\ signed = [s \in Shifts |-> {}]
    /\ day = 1

NoticeStep(n) == FailNotice(n) \/ RegisterOrder(n) \/ ConfirmNotice(n)

AcceptStep(t, o) == LookShift(t, o) \/ CommitAccept(t, o) \/ PublishAccept(t, o) \/ AbandonAccept(t, o)

Next ==
    \/ \E n \in Notices : ReceiveNotice(n) \/ NoticeStep(n)
    \/ \E t \in Tablets : AnswerPending(t) \/ \E o \in Orders : AskPlatform(t, o) \/ AcceptStep(t, o)
    \/ \E o \in Orders : CancelOffer(o)
    \/ OpenShift \/ CloseShift \/ NextDay
    \/ \E c \in Copies : Exit(c) \/ Crash(c)
    \/ StreamStep /\ UNCHANGED ownVars

\* What a process began it goes on with: the requests a copy has in course
\* have a context with a deadline, and tablets and copies as in LiveStreams.
\* Nothing makes the platform repeat, people accept, or a shift open.
Fairness ==
    /\ StreamFairness
    /\ \A n \in Notices : WF_vars(NoticeStep(n))
    /\ \A t \in Tablets : WF_vars(AnswerPending(t)) /\ \A o \in Orders : WF_vars(AcceptStep(t, o))
    /\ \A c \in Copies : WF_vars(Exit(c))

Spec == Init /\ [][Next]_vars /\ Fairness
-----------------------------------------------------------------------------
(***************************************************************************)
(* Properties.                                                             *)
(***************************************************************************)

\* Types; a channel is never closed a second time, which would bring the API
\* down (Subscribe: "cerrarlo otra vez entra en pánico"), and never holds more
\* than its capacity.
TypeOK ==
    /\ \A c \in Copies, t \in Tablets :
          /\ chan[c][t].st \in {"none", "open", "closed"} /\ Len(chan[c][t].buf) <= Cap
          /\ handler[c][t] \in {"none", "asked", "subscribed", "streaming"}
    /\ copy \in [Copies -> {"off", "live", "stopping", "closed", "gone"}]
    /\ link \in [Tablets -> Copies \cup {Down, Failed}]
    /\ fell \in [Tablets -> BOOLEAN] /\ shown \in [Tablets -> SUBSET Orders]
    /\ inbox \in [Orders -> {"none", "pendiente", "aceptado"}]
    /\ platform \in [Orders -> {"offered", "accepted", "cancelled"}]
    /\ event \subseteq Notices /\ day \in 1 .. MaxDay

\* An order of a platform is sold once, however many tablets accept it, and
\* only when the platform took the acceptance (Aceptar: "Aceptar aquí y no
\* allá es la peor combinación posible").
SoldAsAccepted ==
    \A o \in Orders :
        /\ Len(sale[o]) = (IF inbox[o] = "aceptado" THEN 1 ELSE 0)
        /\ sale[o] # <<>> => platform[o] = "accepted"

\* The payment of a platform order is in the shift of its order, and none
\* enters a shift after its count was signed (turnoYFolio: "un cierre podía
\* firmar su esperado entre esta lectura y el pago").
PaidInItsCount ==
    /\ \A o \in Orders : \A i \in DOMAIN sale[o] : sale[o][i].paid = sale[o][i].shift
    /\ \A s \in 1 .. shift.last : s # shift.open => signed[s] = PaidIn(s)

\* Whatever happens to its stream, a tablet comes to show an order that waits
\* for a decision, and to hide one that was decided
\* (usePedidosDePlataforma: "es justo el que hay que cerrar dos veces").
ScreensFollow ==
    \A t \in Tablets, o \in Orders :
        /\ o \in Pending ~> (o \in shown[t] \/ o \notin Pending)
        /\ o \notin Pending ~> (o \notin shown[t] \/ o \in Pending)

\* A copy told to stop ends: no stream keeps it waiting (Close: "Es lo que
\* deja apagar sin esperar").
StopsInTime == \A c \in Copies : copy[c] = "stopping" ~> copy[c] = "gone"

\* A notice that was confirmed left its order registered (FR-005 of
\* specs/021-recibir-pedidos-uber/spec.md; RecibirAviso: "Un aviso confirmado
\* que en realidad falló es un pedido perdido en silencio").
ConfirmedIsRegistered == \A n \in Notices : notice[n] = Confirmed => inbox[OrderOf[n]] # "none"
=============================================================================
