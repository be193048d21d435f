---------------------------- MODULE PlatformProofs -----------------------------
(***************************************************************************)
(* Theorems about PlatformOrders, for every value of its constants: the    *)
(* channels of the live events, the sale a platform order becomes and the  *)
(* count its payment is in.                                                *)
(***************************************************************************)
EXTENDS PlatformOrders, TLAPS

Happenings == {"list", "other"}

Buffers == {b \in Seq(Happenings) : Len(b) <= Cap}

Channels == [st : {"none", "open", "closed"}, buf : Buffers]

Fetches == [st : {"idle", "asked", "told"}, at : Copies \cup {Down}, list : SUBSET Orders]

\* The types of the streams, with what the channels hold and the lists in course.
StreamsTyped ==
    /\ copy \in [Copies -> {"off", "live", "stopping", "closed", "gone"}]
    /\ chan \in [Copies -> [Tablets -> Channels]]
    /\ handler \in [Copies -> [Tablets -> {"none", "asked", "subscribed", "streaming"}]]
    /\ link \in [Tablets -> Copies \cup {Down, Failed}]
    /\ fell \in [Tablets -> BOOLEAN]
    /\ fetch \in [Tablets -> Fetches]
    /\ shown \in [Tablets -> SUBSET Orders]

SaleRows == [shift : {NoShift} \cup Shifts, paid : {NoShift} \cup Shifts, date : Nat]

Requests ==
    [st : {"none", "agreed", "looked", "done"}, at : Copies \cup {Down},
     shift : {NoShift} \cup Shifts, date : Nat]

\* The types of the orders, of the notices and of the shift.
OrdersTyped ==
    /\ platform \in [Orders -> {"offered", "accepted", "cancelled"}]
    /\ event \subseteq Notices
    /\ notice \in [Notices -> [st : {"waiting", "stored", "registered", "confirmed"}, at : Copies \cup {Down}]]
    /\ inbox \in [Orders -> {"none", "pendiente", "aceptado"}]
    /\ sale \in [Orders -> Seq(SaleRows)]
    /\ request \in [Orders -> [Tablets -> Requests]]
    /\ shift \in [open : {NoShift} \cup Shifts, last : {0} \cup Shifts]
    /\ signed \in [Shifts -> SUBSET Orders]
    /\ day \in 1 .. MaxDay

\* An order is sold when it is accepted, after the platform took it, which every request past the
\* call knows.
Sold ==
    /\ SoldAsAccepted
    /\ \A o \in Orders, t \in Tablets : request[o][t].st # "none" => platform[o] = "accepted"

\* The open shift is the last one, no payment is of a shift that is not open yet, and what was signed
\* is what was paid in it.
Counted ==
    /\ shift.open \in {NoShift, shift.last}
    /\ \A o \in Orders : \A i \in DOMAIN sale[o] : sale[o][i].paid \in {NoShift} \cup 1 .. shift.last
    /\ PaidInItsCount

PlatformInv == StreamsTyped /\ OrdersTyped /\ Sold /\ Counted
-----------------------------------------------------------------------------
(***************************************************************************)
(* The streams.                                                            *)
(***************************************************************************)
\* What is published into a channel does not pass its capacity.
LEMMA AfterFits ==
    ASSUME NEW b \in Buffers, NEW events \in Seq(Happenings)
    PROVE  After(b, events) \in Buffers
  <1> DEFINE all == b \o events
             n == IF Len(all) < Cap THEN Len(all) ELSE Cap
  <1>1. all \in Seq(Happenings) /\ Len(all) \in Nat /\ Cap \in Nat
    BY StreamsAssumption DEF Buffers
  <1>2. n \in Nat /\ n <= Len(all) /\ n <= Cap
    BY <1>1
  <1> HIDE DEF n, all
  <1>3. SubSeq(all, 1, n) \in Seq(Happenings) /\ Len(SubSeq(all, 1, n)) = n
    BY <1>1, <1>2
  <1> QED  BY <1>2, <1>3 DEF After, Buffers, all, n

\* Taking an event leaves a place.
LEMMA TailFits ==
    ASSUME NEW b \in Buffers, b # <<>>
    PROVE  Tail(b) \in Buffers
  <1>1. b \in Seq(Happenings) /\ Len(b) \in Nat /\ Cap \in Nat /\ Len(b) <= Cap
    BY StreamsAssumption DEF Buffers
  <1>2. Tail(b) \in Seq(Happenings) /\ Len(Tail(b)) = Len(b) - 1
    BY <1>1
  <1> QED  BY <1>1, <1>2 DEF Buffers

\* New and closed channels.
LEMMA ChannelsTyped ==
    /\ NoChan \in Channels /\ NewChan \in Channels
    /\ \A ch \in Channels : Unsubscribed(ch) \in Channels
  <1>1. <<>> \in Buffers
    BY StreamsAssumption DEF Buffers
  <1> QED  BY <1>1 DEF NoChan, NewChan, Channels, Unsubscribed

\* Publishing leaves channels.
LEMMA PublishTyped ==
    ASSUME StreamsTyped, NEW c \in Copies \cup {Down}, NEW events \in Seq(Happenings), Publish(c, events)
    PROVE  chan' \in [Copies -> [Tablets -> Channels]]
  <1>1. \A ch \in Channels : Told(ch, events) \in Channels
    BY AfterFits DEF Channels, Told
  <1> HIDE DEF Channels
  <1>2. CASE c \in Copies
    <2>1. [t \in Tablets |-> Told(chan[c][t], events)] \in [Tablets -> Channels]
      BY <1>1, <1>2 DEF StreamsTyped
    <2> QED  BY <2>1 DEF Publish, StreamsTyped
  <1>3. CASE c \notin Copies
    BY <1>3 DEF Publish, StreamsTyped
  <1> QED  BY <1>2, <1>3

\* A handler that ends leaves a channel.
LEMMA EndedTyped ==
    ASSUME StreamsTyped, NEW c \in Copies, NEW t \in Tablets, Ended(c, t)
    PROVE  /\ chan' \in [Copies -> [Tablets -> Channels]]
           /\ handler' \in [Copies -> [Tablets -> {"none", "asked", "subscribed", "streaming"}]]
  <1>1. \A ch \in Channels : (IF Unsubscribed(ch).st = "panic" THEN Unsubscribed(ch) ELSE NoChan) \in Channels
    BY ChannelsTyped
  <1> HIDE DEF Channels
  <1> QED  BY <1>1 DEF Ended, StreamsTyped

\* A list asked again.
LEMMA InvalidateTyped ==
    ASSUME StreamsTyped, NEW t \in Tablets, Invalidate(t)
    PROVE  fetch' \in [Tablets -> Fetches]
  <1>1. Idle \in Fetches /\ \A c \in Copies : Asked(c) \in Fetches
    BY DEF Idle, Asked, Fetches
  <1>2. \E f \in Fetches : fetch' = [fetch EXCEPT ![t] = f]
    BY <1>1 DEF Invalidate, Serving
  <1> QED  BY <1>2 DEF StreamsTyped

\* The steps of a handler keep the types.
LEMMA HandlerTyped ==
    ASSUME StreamsTyped, NEW c \in Copies, NEW t \in Tablets, HandlerStep(c, t)
    PROVE  StreamsTyped'
  <1> USE DEF StreamsTyped
  <1>0. chan[c][t] \in Channels /\ chan[c][t].buf \in Buffers
    BY DEF Channels
  <1>1. CASE Subscribe(c, t)
    <2>1. chan' \in [Copies -> [Tablets -> Channels]]
      <3>1. chan' = chan \/ chan' = [chan EXCEPT ![c][t] = NewChan]
        BY <1>1 DEF Subscribe
      <3>2. NewChan \in Channels
        BY ChannelsTyped
      <3> HIDE DEF Channels
      <3>3. CASE chan' = [chan EXCEPT ![c][t] = NewChan]
        BY <3>2, <3>3
      <3> QED  BY <3>1, <3>3
    <2>2. /\ handler' \in [Copies -> [Tablets -> {"none", "asked", "subscribed", "streaming"}]]
          /\ link' \in [Tablets -> Copies \cup {Down, Failed}]
      <3>1. \E h \in {"none", "subscribed"} : handler' = [handler EXCEPT ![c][t] = h]
        BY <1>1 DEF Subscribe
      <3>2. link' = link \/ \E d \in Copies \cup {Down, Failed} : link' = [link EXCEPT ![t] = d]
        BY <1>1 DEF Subscribe
      <3> QED  BY <3>1, <3>2
    <2> QED  BY <1>1, <2>1, <2>2 DEF Subscribe
  <1>2. ASSUME chan[c][t].buf # <<>>, chan' = [chan EXCEPT ![c][t].buf = Tail(@)]
        PROVE  chan' \in [Copies -> [Tablets -> Channels]]
    <2> DEFINE x == [chan[c][t] EXCEPT !.buf = Tail(@)]
    <2>1. x \in Channels
      BY <1>0, <1>2, TailFits DEF Channels
    <2>2. chan' = [chan EXCEPT ![c][t] = x]
      BY <1>2
    <2> HIDE DEF x, Channels
    <2> QED  BY <2>1, <2>2
  <1>3. CASE Greet(c, t)
    <2>1. CASE Ended(c, t) /\ link' = [link EXCEPT ![t] = IF @ = c THEN Failed ELSE @]
               /\ UNCHANGED <<fell, fetch, copy, shown>>
      BY <2>1, EndedTyped
    <2>2. CASE /\ handler' = [handler EXCEPT ![c][t] = "streaming"]
               /\ chan' = [chan EXCEPT ![c][t].buf = IF @ = <<>> THEN @ ELSE Tail(@)]
               /\ IF link[t] = c /\ fell[t]
                  THEN Invalidate(t) /\ fell' = [fell EXCEPT ![t] = FALSE]
                  ELSE UNCHANGED <<fell, fetch>>
               /\ UNCHANGED <<link, copy, shown>>
      <3>1. chan' \in [Copies -> [Tablets -> Channels]]
        <4>1. CASE chan[c][t].buf = <<>>
          <5> DEFINE x == [chan[c][t] EXCEPT !.buf = <<>>]
          <5>1. x \in Channels
            BY <1>0, <4>1 DEF Channels
          <5>2. chan' = [chan EXCEPT ![c][t] = x]
            BY <2>2, <4>1
          <5> HIDE DEF x, Channels
          <5> QED  BY <5>1, <5>2
        <4>2. CASE chan[c][t].buf # <<>>
          BY <1>2, <2>2, <4>2
        <4> QED  BY <4>1, <4>2
      <3>2. fetch' \in [Tablets -> Fetches] /\ fell' \in [Tablets -> BOOLEAN]
        BY <2>2, InvalidateTyped
      <3> HIDE DEF Channels
      <3> QED  BY <2>2, <3>1, <3>2
    <2> QED  BY <1>3, <2>1, <2>2 DEF Greet
  <1>4. CASE Deliver(c, t)
    <2>1. chan' \in [Copies -> [Tablets -> Channels]]
      BY <1>2, <1>4 DEF Deliver
    <2>2. fetch' \in [Tablets -> Fetches]
      BY <1>4, InvalidateTyped DEF Deliver
    <2> QED  BY <1>4, <2>1, <2>2 DEF Deliver
  <1>5. CASE EndStream(c, t)
    BY <1>5, EndedTyped DEF EndStream
  <1> QED  BY <1>1, <1>3, <1>4, <1>5 DEF HandlerStep

\* The steps of copies and tablets keep the types.
LEMMA StreamStepTyped ==
    ASSUME StreamsTyped, StreamStep
    PROVE  StreamsTyped'
  <1> USE DEF StreamsTyped
  <1>1. ASSUME NEW c \in Copies, StartCopy(c) \/ StopCopy(c) PROVE StreamsTyped'
    BY <1>1 DEF StartCopy, StopCopy
  <1>2. ASSUME NEW c \in Copies, CloseBroker(c) PROVE StreamsTyped'
    <2>1. [t \in Tablets |-> Unsubscribed(chan[c][t])] \in [Tablets -> Channels]
      BY ChannelsTyped
    <2> HIDE DEF Channels
    <2> QED  BY <1>2, <2>1 DEF CloseBroker
  <1>3. ASSUME NEW t \in Tablets, Connect(t) PROVE StreamsTyped'
    <2>1. PICK c \in Copies : /\ link' = [link EXCEPT ![t] = c]
                             /\ handler' = [handler EXCEPT ![c][t] = "asked"]
      BY <1>3 DEF Connect, Serving
    <2>2. UNCHANGED <<copy, chan, fell, fetch, shown>>
      BY <1>3 DEF Connect
    <2> QED  BY <2>1, <2>2
  <1>6. ASSUME NEW t \in Tablets, DropStream(t) PROVE StreamsTyped'
    BY <1>6 DEF DropStream
  <1>4. ASSUME NEW t \in Tablets, Poll(t) PROVE StreamsTyped'
    BY <1>4, InvalidateTyped DEF Poll
  <1>5. ASSUME NEW t \in Tablets, Show(t) PROVE StreamsTyped'
    BY <1>5 DEF Show, Idle, Fetches
  <1> QED  BY <1>1, <1>2, <1>3, <1>4, <1>5, <1>6, HandlerTyped DEF StreamStep

\* The initial state.
LEMMA PlatformInitially == Init => PlatformInv
  <1> SUFFICES ASSUME Init PROVE PlatformInv
    OBVIOUS
  <1> USE DEF Init, StreamInit
  <1>1. StreamsTyped
    BY ChannelsTyped, StreamsAssumption DEF StreamsTyped, Idle, Fetches
  <1>2. OrdersTyped
    BY PlatformAssumption DEF OrdersTyped, Waiting, NoRequest, Requests
  <1>3. Sold
    BY DEF Sold, SoldAsAccepted, NoRequest
  <1>4. Counted
    BY DEF Counted, PaidInItsCount, NoShift
  <1> QED  BY <1>1, <1>2, <1>3, <1>4 DEF PlatformInv

\* The streams keep their types.
LEMMA StreamsStep == StreamsTyped /\ OrdersTyped /\ [Next]_vars => StreamsTyped'
  <1> SUFFICES ASSUME StreamsTyped, OrdersTyped, [Next]_vars PROVE StreamsTyped'
    OBVIOUS
  <1>1. ASSUME UNCHANGED streamVars PROVE StreamsTyped'
    BY <1>1 DEF streamVars, StreamsTyped
  <1>2. ASSUME chan' \in [Copies -> [Tablets -> Channels]],
               UNCHANGED <<copy, handler, link, fell, fetch, shown, drops>>
        PROVE  StreamsTyped'
    BY <1>2 DEF StreamsTyped
  <1>3. ASSUME NEW n \in Notices, ReceiveNotice(n) \/ NoticeStep(n) PROVE StreamsTyped'
    <2>1. CASE Publish(notice[n].at, <<"list">>) /\ UNCHANGED <<copy, handler, link, fell, fetch, shown, drops>>
      <3>1. notice[n].at \in Copies \cup {Down} /\ <<"list">> \in Seq(Happenings)
        BY DEF OrdersTyped, Happenings
      <3> QED  BY <1>2, <2>1, <3>1, PublishTyped
    <2>2. CASE UNCHANGED streamVars
      BY <1>1, <2>2
    <2> QED
      BY <1>3, <2>1, <2>2
      DEF NoticeStep, ReceiveNotice, FailNotice, RegisterOrder, ConfirmNotice, streamVars
  <1>4. ASSUME NEW t \in Tablets, AnswerPending(t) PROVE StreamsTyped'
    <2>1. [st |-> "told", at |-> Down, list |-> Pending] \in Fetches
      BY DEF Fetches, Pending
    <2> QED  BY <1>4, <2>1 DEF AnswerPending, Answer, StreamsTyped
  <1>5. ASSUME NEW t \in Tablets, NEW o \in Orders, AskPlatform(t, o) \/ AcceptStep(t, o)
        PROVE  StreamsTyped'
    <2>1. CASE PublishAccept(t, o)
      <3>1. request[o][t].at \in Copies \cup {Down} /\ <<"other", "list">> \in Seq(Happenings)
        BY DEF OrdersTyped, Happenings, Requests
      <3> QED  BY <1>2, <2>1, <3>1, PublishTyped DEF PublishAccept
    <2>2. CASE UNCHANGED streamVars
      BY <1>1, <2>2
    <2> QED
      BY <1>5, <2>1, <2>2
      DEF AcceptStep, AskPlatform, LookShift, CommitAccept, AbandonAccept
  <1>6. ASSUME NEW o \in Orders, CancelOffer(o) PROVE StreamsTyped'
    BY <1>1, <1>6 DEF CancelOffer
  <1>7. CASE OpenShift \/ CloseShift \/ NextDay
    BY <1>1, <1>7 DEF OpenShift, CloseShift, NextDay
  <1>8. ASSUME NEW c \in Copies, Exit(c) PROVE StreamsTyped'
    BY <1>8 DEF Exit, ExitCopy, StreamsTyped
  <1>9. ASSUME NEW c \in Copies, Crash(c) PROVE StreamsTyped'
    <2>1. CrashCopy(c)
      BY <1>9 DEF Crash
    <2>2. copy' \in [Copies -> {"off", "live", "stopping", "closed", "gone"}]
      BY <2>1 DEF CrashCopy, StreamsTyped
    <2>3. chan' \in [Copies -> [Tablets -> Channels]]
      <3>1. NoChan \in Channels
        BY ChannelsTyped
      <3> HIDE DEF Channels
      <3>2. [t \in Tablets |-> NoChan] \in [Tablets -> Channels]
        BY <3>1
      <3> QED  BY <2>1, <3>2 DEF CrashCopy, StreamsTyped
    <2>4. /\ handler' \in [Copies -> [Tablets -> {"none", "asked", "subscribed", "streaming"}]]
          /\ link' \in [Tablets -> Copies \cup {Down, Failed}]
      BY <2>1 DEF CrashCopy, StreamsTyped
    <2>5. fell' \in [Tablets -> BOOLEAN] /\ shown' \in [Tablets -> SUBSET Orders]
      BY <2>1 DEF CrashCopy, StreamsTyped
    <2>6. fetch' \in [Tablets -> Fetches]
      <3>1. Idle \in Fetches
        BY DEF Idle, Fetches
      <3> HIDE DEF Fetches
      <3> QED  BY <2>1, <3>1 DEF CrashCopy, StreamsTyped
    <2> QED  BY <2>2, <2>3, <2>4, <2>5, <2>6 DEF StreamsTyped
  <1>10. CASE StreamStep
    BY <1>10, StreamStepTyped
  <1>11. CASE UNCHANGED vars
    BY <1>1, <1>11 DEF vars
  <1> QED
    BY <1>3, <1>4, <1>5, <1>6, <1>7, <1>8, <1>9, <1>10, <1>11 DEF Next
-----------------------------------------------------------------------------
(***************************************************************************)
(* Orders and shifts.                                                      *)
(***************************************************************************)
\* A step of a notice changes its own record, and inserts its order at most.
LEMMA NoticeLeaves ==
    ASSUME OrdersTyped, NEW n \in Notices, ReceiveNotice(n) \/ NoticeStep(n)
    PROVE  /\ UNCHANGED <<platform, sale, request, shift, signed, day>>
           /\ event' \subseteq Notices
           /\ notice' \in [Notices -> [st : {"waiting", "stored", "registered", "confirmed"},
                                       at : Copies \cup {Down}]]
           /\ inbox' \in [Orders -> {"none", "pendiente", "aceptado"}]
           /\ \A o \in Orders : inbox'[o] = "aceptado" <=> inbox[o] = "aceptado"
  <1> DEFINE N == [st : {"waiting", "stored", "registered", "confirmed"}, at : Copies \cup {Down}]
  <1>1. /\ notice[n] \in N /\ Waiting \in N /\ Confirmed \in N
        /\ \A c \in Copies : [st |-> "stored", at |-> c] \in N
    BY DEF OrdersTyped, Waiting, Confirmed
  <1>2. [notice[n] EXCEPT !.st = "registered"] \in N
    BY <1>1
  <1>3. UNCHANGED <<platform, sale, request, shift, signed, day>> /\ event' \subseteq Notices
    BY DEF OrdersTyped, NoticeStep, ReceiveNotice, FailNotice, RegisterOrder, ConfirmNotice
  <1>4. \E x \in N : notice' = [notice EXCEPT ![n] = x]
    BY <1>1, <1>2
    DEF NoticeStep, ReceiveNotice, FailNotice, RegisterOrder, ConfirmNotice, OrdersTyped, Serving
  <1>5. /\ inbox' \in [Orders -> {"none", "pendiente", "aceptado"}]
        /\ \A o \in Orders : inbox'[o] = "aceptado" <=> inbox[o] = "aceptado"
    <2>1. CASE RegisterOrder(n)
      BY <2>1, PlatformAssumption DEF RegisterOrder, OrdersTyped
    <2>2. CASE UNCHANGED inbox
      BY <2>2 DEF OrdersTyped
    <2> QED  BY <2>1, <2>2 DEF NoticeStep, ReceiveNotice, FailNotice, ConfirmNotice
  <1> QED  BY <1>3, <1>4, <1>5 DEF OrdersTyped

\* A sale is made of an order that waited, in the open shift or in none.
SaleMade(t, o) ==
    \E s \in {NoShift, shift.open}, d \in Nat :
       /\ request[o][t].st # "none" /\ inbox[o] = "pendiente"
       /\ inbox' = [inbox EXCEPT ![o] = "aceptado"]
       /\ sale' = [sale EXCEPT ![o] = Append(@, [shift |-> s, paid |-> s, date |-> d])]

\* The step of an acceptance leaves another request, and in committing it a sale.
LEMMA AcceptLeaves ==
    ASSUME OrdersTyped, NEW t \in Tablets, NEW o \in Orders, AskPlatform(t, o) \/ AcceptStep(t, o)
    PROVE  /\ UNCHANGED <<event, notice, shift, signed, day>>
           /\ request' \in [Orders -> [Tablets -> Requests]]
           /\ \A p \in Orders, u \in Tablets :
                 request'[p][u].st # "none" => request[p][u].st # "none" \/ platform'[p] = "accepted"
           /\ platform' = platform \/ platform' = [platform EXCEPT ![o] = "accepted"]
           /\ \/ UNCHANGED <<inbox, sale>>
              \/ SaleMade(t, o)
  <1>1. /\ UNCHANGED <<event, notice, shift, signed, day>>
        /\ platform' = platform \/ platform' = [platform EXCEPT ![o] = "accepted"]
    BY DEF AskPlatform, AcceptStep, LookShift, CommitAccept, PublishAccept, AbandonAccept
  <1>2. \E r \in Requests : /\ request' = [request EXCEPT ![o][t] = r]
                            /\ r.st # "none" => request[o][t].st # "none" \/ platform'[o] = "accepted"
    <2>1. /\ request[o][t] \in Requests /\ NoRequest \in Requests /\ shift.open \in {NoShift} \cup Shifts
          /\ day \in Nat /\ NoRequest.st = "none"
      BY PlatformAssumption DEF OrdersTyped, NoRequest, Requests
    <2>2. CASE AskPlatform(t, o)
      <3>1. PICK c \in Copies :
               request' = [request EXCEPT ![o][t] = [NoRequest EXCEPT !.st = "agreed", !.at = c, !.date = day]]
        BY <2>2 DEF AskPlatform, Serving
      <3>2. [NoRequest EXCEPT !.st = "agreed", !.at = c, !.date = day] \in Requests
        BY <2>1 DEF Requests
      <3>3. platform'[o] = "accepted"
        BY <2>2 DEF AskPlatform, OrdersTyped
      <3> QED  BY <3>1, <3>2, <3>3
    <2>3. CASE LookShift(t, o)
      <3> DEFINE r == [request[o][t] EXCEPT !.st = "looked", !.shift = shift.open]
      <3>1. r \in Requests
        BY <2>1 DEF Requests
      <3>2. request' = [request EXCEPT ![o][t] = r] /\ request[o][t].st # "none"
        BY <2>3 DEF LookShift
      <3> HIDE DEF r
      <3> QED  BY <3>1, <3>2
    <2>4. CASE request[o][t].st = "looked" /\ request' = [request EXCEPT ![o][t].st = "done"]
      <3> DEFINE r == [request[o][t] EXCEPT !.st = "done"]
      <3>1. r \in Requests
        BY <2>1 DEF Requests
      <3>2. request' = [request EXCEPT ![o][t] = r]
        BY <2>4
      <3> HIDE DEF r
      <3> QED  BY <2>4, <3>1, <3>2
    <2>5. CASE request' = [request EXCEPT ![o][t] = NoRequest]
      BY <2>1, <2>5
    <2> QED
      BY <2>2, <2>3, <2>4, <2>5 DEF AcceptStep, CommitAccept, PublishAccept, AbandonAccept
  <1>3. UNCHANGED <<inbox, sale>> \/ SaleMade(t, o)
    <2>1. CASE CommitAccept(t, o)
      <3>1. ShiftOf(request[o][t]) \in {NoShift, shift.open} /\ request[o][t].date \in Nat
        BY DEF ShiftOf, OrdersTyped, Requests
      <3> QED  BY <2>1, <3>1 DEF CommitAccept, Wins, SaleMade
    <2> QED  BY <2>1 DEF AskPlatform, AcceptStep, LookShift, PublishAccept, AbandonAccept
  <1>4. \A r \in Requests : request' = [request EXCEPT ![o][t] = r] =>
           /\ request' \in [Orders -> [Tablets -> Requests]]
           /\ \A p \in Orders, u \in Tablets :
                 request'[p][u] = IF p = o /\ u = t THEN r ELSE request[p][u]
    BY DEF OrdersTyped
  <1> QED  BY <1>1, <1>2, <1>3, <1>4

\* Opening a shift gives it the sales of the day that had none.
LEMMA OpenLeaves ==
    ASSUME OrdersTyped, Counted, OpenShift
    PROVE  LET s == shift.last + 1 IN
           /\ s \in Shifts /\ shift' = [open |-> s, last |-> s] /\ shift.open = NoShift
           /\ sale' \in [Orders -> Seq(SaleRows)]
           /\ \A o \in Orders :
                 /\ DOMAIN sale'[o] = DOMAIN sale[o] /\ Len(sale'[o]) = Len(sale[o])
                 /\ \A i \in DOMAIN sale[o] :
                       \/ sale'[o][i] = sale[o][i]
                       \/ sale[o][i].paid = NoShift /\ sale'[o][i].paid = s /\ sale'[o][i].shift = s
           /\ UNCHANGED <<platform, event, notice, inbox, request, signed, day>>
  <1> DEFINE s == shift.last + 1
  <1>1. s \in Shifts
    BY DEF OpenShift
  <1>2. \A o \in Orders : sale[o] \in Seq(SaleRows) /\ \A i \in DOMAIN sale[o] : sale[o][i] \in SaleRows
    BY DEF OrdersTyped
  <1>3. ASSUME NEW o \in Orders
        PROVE  /\ sale'[o] = [i \in DOMAIN sale[o] |-> Claimed(sale[o][i], s)]
               /\ sale'[o] \in Seq(SaleRows) /\ Len(sale'[o]) = Len(sale[o])
    <2>1. sale'[o] = [i \in DOMAIN sale[o] |-> Claimed(sale[o][i], s)]
      BY DEF OpenShift
    <2>2. \A a \in SaleRows : Claimed(a, s) \in SaleRows
      BY <1>1 DEF Claimed, SaleRows
    <2>3. Len(sale[o]) \in Nat /\ DOMAIN sale[o] = 1 .. Len(sale[o])
      BY <1>2
    <2> HIDE DEF s
    <2> QED  BY <1>2, <2>1, <2>2, <2>3
  <1>4. \A o \in Orders : \A i \in DOMAIN sale[o] :
           \/ Claimed(sale[o][i], s) = sale[o][i]
           \/ /\ sale[o][i].paid = NoShift
              /\ Claimed(sale[o][i], s).paid = s /\ Claimed(sale[o][i], s).shift = s
    <2> SUFFICES ASSUME NEW o \in Orders, NEW i \in DOMAIN sale[o], Claimed(sale[o][i], s) # sale[o][i]
                 PROVE  /\ sale[o][i].paid = NoShift
                        /\ Claimed(sale[o][i], s).paid = s /\ Claimed(sale[o][i], s).shift = s
      OBVIOUS
    <2>1. sale[o][i] \in SaleRows /\ sale[o][i].paid = sale[o][i].shift
      BY <1>2 DEF Counted, PaidInItsCount
    <2>2. sale[o][i].shift = NoShift /\ Claimed(sale[o][i], s) = [sale[o][i] EXCEPT !.shift = s, !.paid = s]
      BY DEF Claimed
    <2> QED  BY <2>1, <2>2 DEF SaleRows
  <1>5. sale' = [o \in Orders |-> [i \in DOMAIN sale[o] |-> Claimed(sale[o][i], s)]]
    BY DEF OpenShift
  <1>6. sale' \in [Orders -> Seq(SaleRows)]
    BY <1>3, <1>5
  <1> QED  BY <1>1, <1>3, <1>4, <1>6 DEF OpenShift

\* A crash keeps what was committed and forgets the requests in course.
LEMMA CrashLeaves ==
    ASSUME OrdersTyped, NEW c \in Copies, Crash(c)
    PROVE  /\ UNCHANGED <<platform, event, inbox, sale, shift, signed, day>>
           /\ notice' \in [Notices -> [st : {"waiting", "stored", "registered", "confirmed"},
                                       at : Copies \cup {Down}]]
           /\ request' \in [Orders -> [Tablets -> Requests]]
           /\ \A o \in Orders, t \in Tablets : request'[o][t].st # "none" => request[o][t].st # "none"
  <1>1. Waiting \in [st : {"waiting", "stored", "registered", "confirmed"}, at : Copies \cup {Down}]
    BY DEF Waiting
  <1>2. NoRequest \in Requests /\ NoRequest.st = "none"
    BY DEF NoRequest, Requests
  <1> HIDE DEF Waiting, NoRequest, Requests
  <1> QED  BY <1>1, <1>2 DEF Crash, OrdersTyped

\* The types of the orders are kept.
LEMMA OrdersStep == OrdersTyped /\ Counted /\ [Next]_vars => OrdersTyped'
  <1> SUFFICES ASSUME OrdersTyped, Counted, [Next]_vars PROVE OrdersTyped'
    OBVIOUS
  <1>1. ASSUME NEW n \in Notices, ReceiveNotice(n) \/ NoticeStep(n) PROVE OrdersTyped'
    BY <1>1, NoticeLeaves DEF OrdersTyped
  <1>2. ASSUME NEW t \in Tablets, NEW o \in Orders, AskPlatform(t, o) \/ AcceptStep(t, o)
        PROVE  OrdersTyped'
    <2>0. /\ UNCHANGED <<event, notice, shift, signed, day>> /\ request' \in [Orders -> [Tablets -> Requests]]
          /\ platform' = platform \/ platform' = [platform EXCEPT ![o] = "accepted"]
          /\ UNCHANGED <<inbox, sale>> \/ SaleMade(t, o)
      BY <1>2, AcceptLeaves
    <2>1. platform' \in [Orders -> {"offered", "accepted", "cancelled"}]
      BY <2>0 DEF OrdersTyped
    <2>2. inbox' \in [Orders -> {"none", "pendiente", "aceptado"}] /\ sale' \in [Orders -> Seq(SaleRows)]
      <3>1. CASE UNCHANGED <<inbox, sale>>
        BY <3>1 DEF OrdersTyped
      <3>2. ASSUME NEW s \in {NoShift, shift.open}, NEW d \in Nat,
                   inbox' = [inbox EXCEPT ![o] = "aceptado"],
                   sale' = [sale EXCEPT ![o] = Append(@, [shift |-> s, paid |-> s, date |-> d])]
            PROVE  inbox' \in [Orders -> {"none", "pendiente", "aceptado"}] /\ sale' \in [Orders -> Seq(SaleRows)]
        <4>1. [shift |-> s, paid |-> s, date |-> d] \in SaleRows
          BY DEF OrdersTyped, SaleRows
        <4> HIDE DEF SaleRows
        <4>2. Append(sale[o], [shift |-> s, paid |-> s, date |-> d]) \in Seq(SaleRows)
          BY <4>1 DEF OrdersTyped
        <4> QED  BY <3>2, <4>2 DEF OrdersTyped
      <3> QED  BY <2>0, <3>1, <3>2 DEF SaleMade
    <2> QED  BY <2>0, <2>1, <2>2 DEF OrdersTyped
  <1>3. ASSUME NEW o \in Orders, CancelOffer(o) PROVE OrdersTyped'
    BY <1>3 DEF CancelOffer, OrdersTyped
  <1>4. CASE OpenShift
    <2>1. shift' \in [open : {NoShift} \cup Shifts, last : {0} \cup Shifts]
      BY <1>4, OpenLeaves
    <2> QED  BY <1>4, <2>1, OpenLeaves DEF OrdersTyped
  <1>5. CASE CloseShift
    <2>1. /\ UNCHANGED <<platform, event, notice, inbox, sale, request, day>>
          /\ signed' = [signed EXCEPT ![shift.open] = PaidIn(shift.open)]
          /\ shift' = [shift EXCEPT !.open = NoShift]
      BY <1>5 DEF CloseShift
    <2>2. PaidIn(shift.open) \in SUBSET Orders
      BY DEF PaidIn
    <2>3. signed' \in [Shifts -> SUBSET Orders] /\ shift' \in [open : {NoShift} \cup Shifts, last : {0} \cup Shifts]
      BY <2>1, <2>2 DEF OrdersTyped
    <2> QED  BY <2>1, <2>3 DEF OrdersTyped
  <1>6. CASE NextDay
    BY <1>6, PlatformAssumption DEF NextDay, OrdersTyped
  <1>7. ASSUME NEW c \in Copies, Crash(c) PROVE OrdersTyped'
    BY <1>7, CrashLeaves DEF OrdersTyped
  <1>8. CASE UNCHANGED ownVars
    BY <1>8 DEF ownVars, OrdersTyped
  <1> QED
    BY <1>1, <1>2, <1>3, <1>4, <1>5, <1>6, <1>7, <1>8 DEF Next, AnswerPending, Exit, vars

\* Sales stay those of accepted orders.
LEMMA SoldStep == OrdersTyped /\ Counted /\ Sold /\ [Next]_vars => Sold'
  <1> SUFFICES ASSUME OrdersTyped, Counted, Sold, [Next]_vars PROVE Sold'
    OBVIOUS
  <1>0. ASSUME UNCHANGED platform,
               \A o \in Orders : inbox'[o] = "aceptado" <=> inbox[o] = "aceptado",
               \A o \in Orders : Len(sale'[o]) = Len(sale[o]),
               \A o \in Orders : sale'[o] # <<>> => sale[o] # <<>>,
               \A o \in Orders, t \in Tablets : request'[o][t].st # "none" => request[o][t].st # "none"
        PROVE  Sold'
    BY <1>0 DEF Sold, SoldAsAccepted
  <1>1. ASSUME NEW n \in Notices, ReceiveNotice(n) \/ NoticeStep(n) PROVE Sold'
    BY <1>0, <1>1, NoticeLeaves
  <1>2. ASSUME NEW t \in Tablets, NEW o \in Orders, AskPlatform(t, o) \/ AcceptStep(t, o) PROVE Sold'
    <2>1. \A p \in Orders : platform[p] = "accepted" => platform'[p] = "accepted"
      BY <1>2, AcceptLeaves DEF OrdersTyped
    <2>2. \A p \in Orders, u \in Tablets : request'[p][u].st # "none" => platform'[p] = "accepted"
      BY <1>2, <2>1, AcceptLeaves DEF Sold
    <2>3. SoldAsAccepted'
      <3>1. CASE UNCHANGED <<inbox, sale>>
        BY <2>1, <3>1 DEF Sold, SoldAsAccepted
      <3>2. ASSUME NEW s \in {NoShift, shift.open}, NEW d \in Nat,
                   request[o][t].st # "none", inbox[o] = "pendiente",
                   inbox' = [inbox EXCEPT ![o] = "aceptado"],
                   sale' = [sale EXCEPT ![o] = Append(@, [shift |-> s, paid |-> s, date |-> d])]
            PROVE  SoldAsAccepted'
        <4>1. platform'[o] = "accepted"
          BY <2>1, <3>2 DEF Sold
        <4>2. sale[o] \in Seq(SaleRows) /\ Len(sale[o]) = 0
          BY <3>2 DEF OrdersTyped, Sold, SoldAsAccepted
        <4>3. Len(Append(sale[o], [shift |-> s, paid |-> s, date |-> d])) = 1
          BY <4>2
        <4>4. \A p \in Orders : /\ inbox'[p] = IF p = o THEN "aceptado" ELSE inbox[p]
                                /\ p # o => sale'[p] = sale[p]
                                /\ Len(sale'[o]) = 1
          BY <3>2, <4>3 DEF OrdersTyped
        <4> QED  BY <2>1, <4>1, <4>4 DEF Sold, SoldAsAccepted
      <3>3. UNCHANGED <<inbox, sale>> \/ SaleMade(t, o)
        BY <1>2, AcceptLeaves
      <3> QED  BY <3>1, <3>2, <3>3 DEF SaleMade
    <2> QED  BY <2>2, <2>3 DEF Sold
  <1>3. ASSUME NEW o \in Orders, CancelOffer(o) PROVE Sold'
    <2>1. /\ UNCHANGED <<inbox, sale, request>>
          /\ \A p \in Orders : platform[p] = "accepted" => platform'[p] = "accepted"
      BY <1>3 DEF CancelOffer, OrdersTyped
    <2> QED  BY <2>1 DEF Sold, SoldAsAccepted
  <1>4. CASE OpenShift
    <2>1. \A o \in Orders : Len(sale'[o]) = Len(sale[o])
      BY <1>4, OpenLeaves
    <2>2. UNCHANGED <<platform, inbox, request>> /\ sale' \in [Orders -> Seq(SaleRows)]
      BY <1>4, OpenLeaves
    <2>3. \A o \in Orders : sale'[o] # <<>> => sale[o] # <<>>
      <3> SUFFICES ASSUME NEW o \in Orders, sale[o] = <<>> PROVE sale'[o] = <<>>
        OBVIOUS
      <3>1. Len(sale'[o]) = 0 /\ sale'[o] \in Seq(SaleRows)
        BY <2>1, <2>2
      <3> QED  BY <3>1
    <2> QED  BY <1>0, <2>1, <2>2, <2>3
  <1>5. CASE CloseShift \/ NextDay
    BY <1>0, <1>5 DEF CloseShift, NextDay
  <1>7. ASSUME NEW c \in Copies, Crash(c) PROVE Sold'
    BY <1>0, <1>7, CrashLeaves
  <1>8. CASE UNCHANGED ownVars
    BY <1>0, <1>8 DEF ownVars
  <1> QED
    BY <1>1, <1>2, <1>3, <1>4, <1>5, <1>7, <1>8 DEF Next, AnswerPending, Exit, vars

\* The counts stay signed as they were paid.
LEMMA CountedStep == OrdersTyped /\ Counted /\ [Next]_vars => Counted'
  <1> SUFFICES ASSUME OrdersTyped, Counted, [Next]_vars PROVE Counted'
    OBVIOUS
  <1>0. ASSUME UNCHANGED <<sale, shift, signed>> PROVE Counted'
    BY <1>0 DEF Counted, PaidInItsCount, PaidIn
  <1>1. ASSUME NEW t \in Tablets, NEW o \in Orders, AskPlatform(t, o) \/ AcceptStep(t, o) PROVE Counted'
    <2>1. ASSUME NEW s \in {NoShift, shift.open}, NEW d \in Nat,
                 sale' = [sale EXCEPT ![o] = Append(@, [shift |-> s, paid |-> s, date |-> d])]
          PROVE  Counted'
      <3> DEFINE a == [shift |-> s, paid |-> s, date |-> d]
      <3>1. UNCHANGED <<shift, signed>>
        BY <1>1, AcceptLeaves
      <3>2. /\ sale[o] \in Seq(SaleRows) /\ Len(sale[o]) \in Nat /\ shift.last \in Nat
            /\ a \in SaleRows /\ a.paid = s /\ a.shift = s
        <4>1. shift.open \in {NoShift} \cup Shifts /\ shift.last \in Nat
          BY PlatformAssumption DEF OrdersTyped, Shifts
        <4>2. a \in SaleRows
          BY <4>1 DEF SaleRows
        <4>3. sale[o] \in Seq(SaleRows)
          BY DEF OrdersTyped
        <4> QED  BY <4>1, <4>2, <4>3
      <3> HIDE DEF a
      <3>3. /\ DOMAIN sale'[o] = DOMAIN sale[o] \cup {Len(sale[o]) + 1}
            /\ \A i \in DOMAIN sale[o] : sale'[o][i] = sale[o][i]
            /\ sale'[o][Len(sale[o]) + 1] = a
            /\ \A p \in Orders : p # o => sale'[p] = sale[p]
        <4>1. sale'[o] = Append(sale[o], a) /\ \A p \in Orders : p # o => sale'[p] = sale[p]
          BY <2>1 DEF OrdersTyped, a
        <4> QED  BY <3>2, <4>1
      <3>4. s \in {NoShift} \cup 1 .. shift.last
        <4>1. NoShift = 0 /\ shift.open \in {0} \cup Shifts
          BY DEF NoShift, OrdersTyped
        <4> QED  BY <3>2, <4>1, PlatformAssumption DEF Counted, Shifts
      <3>5. \A p \in Orders : \A i \in DOMAIN sale'[p] :
               sale'[p][i].paid = sale'[p][i].shift /\ sale'[p][i].paid \in {NoShift} \cup 1 .. shift.last
        BY <3>2, <3>3, <3>4 DEF Counted, PaidInItsCount
      <3>6. \A x \in 1 .. shift.last : x # shift.open => PaidIn(x)' = PaidIn(x)
        <4> SUFFICES ASSUME NEW x \in 1 .. shift.last, x # shift.open, NEW p \in Orders
                     PROVE  (\E i \in DOMAIN sale'[p] : sale'[p][i].paid = x)
                              <=> (\E i \in DOMAIN sale[p] : sale[p][i].paid = x)
          BY DEF PaidIn
        <4>1. x # s
          BY DEF NoShift
        <4> QED  BY <3>2, <3>3, <4>1
      <3> QED  BY <3>1, <3>5, <3>6 DEF Counted, PaidInItsCount
    <2>2. CASE UNCHANGED sale
      BY <1>0, <1>1, <2>2, AcceptLeaves
    <2>3. UNCHANGED <<inbox, sale>> \/ SaleMade(t, o)
      BY <1>1, AcceptLeaves
    <2> QED  BY <2>1, <2>2, <2>3 DEF SaleMade
  <1>2. CASE OpenShift
    <2> DEFINE s == shift.last + 1
    <2>1. /\ s \in Shifts /\ shift'.open = s /\ shift'.last = s /\ shift.open = NoShift /\ signed' = signed
          /\ \A o \in Orders :
                /\ DOMAIN sale'[o] = DOMAIN sale[o]
                /\ \A i \in DOMAIN sale[o] :
                      \/ sale'[o][i] = sale[o][i]
                      \/ sale[o][i].paid = NoShift /\ sale'[o][i].paid = s /\ sale'[o][i].shift = s
      BY <1>2, OpenLeaves
    <2>2. shift.last \in Nat /\ NoShift = 0 /\ s = shift.last + 1
      BY PlatformAssumption DEF OrdersTyped, Shifts, NoShift
    <2> HIDE DEF s
    <2>3. \A o \in Orders : \A i \in DOMAIN sale'[o] :
             sale'[o][i].paid = sale'[o][i].shift /\ sale'[o][i].paid \in {NoShift} \cup 1 .. s
      BY <2>1, <2>2 DEF Counted, PaidInItsCount
    <2>4. \A x \in 1 .. shift.last : PaidIn(x)' = PaidIn(x)
      <3> SUFFICES ASSUME NEW x \in 1 .. shift.last, NEW o \in Orders
                   PROVE  (\E i \in DOMAIN sale'[o] : sale'[o][i].paid = x)
                            <=> (\E i \in DOMAIN sale[o] : sale[o][i].paid = x)
        BY DEF PaidIn
      <3>1. x # NoShift /\ x # s
        BY <2>2
      <3> QED  BY <2>1, <3>1
    <2>5. \A x \in 1 .. s : x # s => x \in 1 .. shift.last /\ x # shift.open
      BY <2>1, <2>2
    <2> QED  BY <2>1, <2>3, <2>4, <2>5 DEF Counted, PaidInItsCount
  <1>3. CASE CloseShift
    <2> DEFINE s == shift.open
    <2>1. /\ sale' = sale /\ s \in Shifts /\ s = shift.last
          /\ signed' = [signed EXCEPT ![s] = PaidIn(s)] /\ shift' = [shift EXCEPT !.open = NoShift]
      BY <1>3 DEF CloseShift, OrdersTyped, Counted
    <2>2. shift'.open = NoShift /\ shift'.last = shift.last
      BY <2>1 DEF OrdersTyped
    <2>3. \A x \in 1 .. shift.last : signed'[x] = IF x = s THEN PaidIn(s) ELSE signed[x]
      BY <2>1, PlatformAssumption DEF OrdersTyped, Shifts
    <2>4. \A x : PaidIn(x)' = PaidIn(x)
      BY <2>1 DEF PaidIn
    <2> HIDE DEF s
    <2>5. \A x \in 1 .. shift.last : signed'[x] = PaidIn(x)'
      <3> SUFFICES ASSUME NEW x \in 1 .. shift.last PROVE signed'[x] = PaidIn(x)
        BY <2>4
      <3> QED  BY <2>3 DEF Counted, PaidInItsCount, s
    <2> QED  BY <2>1, <2>2, <2>5 DEF Counted, PaidInItsCount
  <1>4. CASE UNCHANGED ownVars
    BY <1>0, <1>4 DEF ownVars
  <1>5. ASSUME NEW n \in Notices, ReceiveNotice(n) \/ NoticeStep(n) PROVE Counted'
    <2>1. UNCHANGED <<sale, shift, signed>>
      BY <1>5 DEF NoticeStep, ReceiveNotice, FailNotice, RegisterOrder, ConfirmNotice
    <2> QED  BY <1>0, <2>1
  <1>6. CASE NextDay \/ (\E o \in Orders : CancelOffer(o)) \/ (\E c \in Copies : Crash(c))
    BY <1>0, <1>6 DEF NextDay, CancelOffer, Crash
  <1> QED
    BY <1>1, <1>2, <1>3, <1>4, <1>5, <1>6 DEF Next, AnswerPending, Exit, vars

\* The invariant holds always.
LEMMA PlatformHolds == Spec => []PlatformInv
  <1>1. PlatformInv /\ [Next]_vars => PlatformInv'
    BY StreamsStep, OrdersStep, SoldStep, CountedStep DEF PlatformInv
  <1> QED  BY <1>1, PlatformInitially, PTL DEF Spec

\* Types of the streams and of the orders: a channel never holds more than its capacity and is never
\* closed a second time.
THEOREM StreamsAreTyped == Spec => []TypeOK
  <1>1. PlatformInv => TypeOK
    <2> SUFFICES ASSUME PlatformInv PROVE TypeOK
      OBVIOUS
    <2>1. \A c \in Copies, t \in Tablets :
             /\ chan[c][t].st \in {"none", "open", "closed"} /\ Len(chan[c][t].buf) <= Cap
             /\ handler[c][t] \in {"none", "asked", "subscribed", "streaming"}
      <3>1. \A c \in Copies, t \in Tablets : chan[c][t] \in Channels
        BY DEF PlatformInv, StreamsTyped
      <3> QED  BY <3>1 DEF PlatformInv, StreamsTyped, Channels, Buffers
    <2> QED  BY <2>1 DEF PlatformInv, StreamsTyped, OrdersTyped, TypeOK
  <1> QED  BY <1>1, PlatformHolds, PTL

\* An order of a platform is sold once, however many tablets accept it, and only after the platform
\* took the acceptance.
THEOREM SoldOnceAccepted == Spec => []SoldAsAccepted
  <1>1. PlatformInv => SoldAsAccepted
    BY DEF PlatformInv, Sold
  <1> QED  BY <1>1, PlatformHolds, PTL

\* The payment of a platform order is in the shift of its order, and none enters a shift after its
\* count was signed.
THEOREM PaidWhereCounted == Spec => []PaidInItsCount
  <1>1. PlatformInv => PaidInItsCount
    BY DEF PlatformInv, Counted
  <1> QED  BY <1>1, PlatformHolds, PTL
=============================================================================
