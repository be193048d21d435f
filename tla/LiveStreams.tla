----------------------------- MODULE LiveStreams ------------------------------
(***************************************************************************)
(* The live events of a company: the broker of each copy of the API, the   *)
(* streams its tablets hold open, and what a tablet asks again when an     *)
(* event, a reconnection or its timer says so                              *)
(* (server/internal/realtime/broker.go, httpapi/handlers_sse.go,           *)
(* cmd/api/main.go, web/src/features/pos/usePedidosDePlataforma.ts).       *)
(*                                                                         *)
(* An event carries nothing the tablet uses: it says that a list changed   *)
(* ("list") or is about something else ("other"), and takes a place of the *)
(* channel either way.  A deployment starts a copy and stops the one       *)
(* before; a copy may also die.                                            *)
(***************************************************************************)
EXTENDS Integers, Sequences

CONSTANTS
    Tablets,
    MaxCopies,  \* bound: copies of the API that run one after the other
    Cap,        \* events a channel holds; 16 in the code
    MaxDrops    \* bound: connections the network loses

Copies == 1 .. MaxCopies

ASSUME StreamsAssumption == MaxCopies \in Nat \ {0} /\ Cap \in Nat \ {0} /\ MaxDrops \in Nat

VARIABLES
    copy,     \* of each copy: "off", "live", "stopping", "closed" (its broker) or "gone"
    chan,     \* the channel of a tablet in the broker of a copy, and what it holds
    handler,  \* the request to /events of a tablet in a copy
    link,     \* the copy a tablet is connected to
    fell,     \* the tablet saw its stream end (cayo)
    fetch,    \* the tablet's request of its list in course
    shown,    \* the list a tablet shows
    drops     \* connections lost

streamVars == <<copy, chan, handler, link, fell, fetch, shown, drops>>

Down == 0
Failed == -1  \* an EventSource answered with an error does not connect again

NoChan == [st |-> "none", buf |-> <<>>]
NewChan == [st |-> "open", buf |-> <<>>]

Serving == {c \in Copies : copy[c] = "live"}

Running(c) == copy[c] \in {"live", "stopping", "closed"}

\* fetch
Idle == [st |-> "idle", at |-> Down, list |-> {}]
Asked(c) == [st |-> "asked", at |-> c, list |-> {}]
-----------------------------------------------------------------------------
(***************************************************************************)
(* The broker.                                                             *)
(***************************************************************************)

\* What a channel holds after some events: what does not fit is dropped.
After(buf, events) == LET all == buf \o events IN SubSeq(all, 1, IF Len(all) < Cap THEN Len(all) ELSE Cap)

\* A channel told of some events; one closed is told nothing.
Told(ch, events) == IF ch.st = "open" THEN [ch EXCEPT !.buf = After(@, events)] ELSE ch

\* Publish, some events one after the other, in the broker of a copy.
Publish(c, events) == chan' = [chan EXCEPT ![c] = [t \in Tablets |-> Told(@[t], events)]]

\* A channel is closed without looking who closed it before.
SlipUnsubscribed(ch) == [ch EXCEPT !.st = IF @ = "closed" THEN "panic" ELSE "closed"]

\* The end of a subscription: only a channel still subscribed is closed.
Unsubscribed(ch) == IF ch.st = "open" THEN [ch EXCEPT !.st = "closed"] ELSE ch

\* A handler ends, and its channel with it.
Ended(c, t) ==
    /\ handler' = [handler EXCEPT ![c][t] = "none"]
    /\ LET ch == Unsubscribed(chan[c][t]) IN
       chan' = [chan EXCEPT ![c][t] = IF ch.st = "panic" THEN ch ELSE NoChan]
-----------------------------------------------------------------------------
(***************************************************************************)
(* The copies of the API.                                                  *)
(***************************************************************************)
StartCopy(c) ==
    /\ copy[c] = "off" /\ \A d \in Copies : d < c => copy[d] # "off"
    /\ copy' = [copy EXCEPT ![c] = "live"]
    /\ UNCHANGED <<chan, handler, link, fell, fetch, shown, drops>>

\* Shutdown: nothing more is accepted.  The last copy stays.
StopCopy(c) ==
    /\ copy[c] = "live" /\ c < MaxCopies
    /\ copy' = [copy EXCEPT ![c] = "stopping"]
    /\ UNCHANGED <<chan, handler, link, fell, fetch, shown, drops>>

\* Close, which Shutdown calls aside (RegisterOnShutdown).
CloseBroker(c) ==
    /\ copy[c] = "stopping"
    /\ copy' = [copy EXCEPT ![c] = "closed"]
    /\ chan' = [chan EXCEPT ![c] = [t \in Tablets |-> Unsubscribed(@[t])]]
    /\ UNCHANGED <<handler, link, fell, fetch, shown, drops>>

\* Shutdown waits for the requests in course.
ExitCopy(c, busy) ==
    /\ copy[c] = "closed" /\ ~busy
    /\ \A t \in Tablets : handler[c][t] = "none" /\ fetch[t] # Asked(c)
    /\ copy' = [copy EXCEPT ![c] = "gone"]
    /\ UNCHANGED <<chan, handler, link, fell, fetch, shown, drops>>

\* The process dies, or its shutdown takes too long.
CrashCopy(c) ==
    /\ Running(c) /\ c < MaxCopies
    /\ copy' = [copy EXCEPT ![c] = "gone"]
    /\ chan' = [chan EXCEPT ![c] = [t \in Tablets |-> NoChan]]
    /\ handler' = [handler EXCEPT ![c] = [t \in Tablets |-> "none"]]
    /\ link' = [t \in Tablets |-> IF link[t] = c THEN Down ELSE link[t]]
    /\ fell' = [t \in Tablets |-> fell[t] \/ link[t] = c]
    /\ fetch' = [t \in Tablets |-> IF fetch[t] = Asked(c) THEN Idle ELSE fetch[t]]
    /\ UNCHANGED <<shown, drops>>
-----------------------------------------------------------------------------
(***************************************************************************)
(* A tablet asks for its list (useQuery).                                  *)
(***************************************************************************)

\* invalidateQueries: what is in course is thrown away and asked again.
Invalidate(t) ==
    \/ \E c \in Serving : fetch' = [fetch EXCEPT ![t] = Asked(c)]
    \/ Serving = {} /\ fetch' = [fetch EXCEPT ![t] = Idle]

\* The timer only runs while there are no live events.
SlipPoll(t) ==
    /\ fetch[t] = Idle /\ Serving # {} /\ link[t] = Down
    /\ Invalidate(t)
    /\ UNCHANGED <<copy, chan, handler, link, fell, shown, drops>>

\* refetchInterval, and the first request.
Poll(t) ==
    /\ fetch[t] = Idle /\ Serving # {}
    /\ Invalidate(t)
    /\ UNCHANGED <<copy, chan, handler, link, fell, shown, drops>>

\* The copy reads the list.
Answer(t, list) ==
    /\ fetch[t].st = "asked"
    /\ fetch' = [fetch EXCEPT ![t] = [st |-> "told", at |-> Down, list |-> list]]
    /\ UNCHANGED <<copy, chan, handler, link, fell, shown, drops>>

Show(t) ==
    /\ fetch[t].st = "told"
    /\ shown' = [shown EXCEPT ![t] = fetch[t].list]
    /\ fetch' = [fetch EXCEPT ![t] = Idle]
    /\ UNCHANGED <<copy, chan, handler, link, fell, drops>>
-----------------------------------------------------------------------------
(***************************************************************************)
(* The stream (EventSource on the tablet, Events in the copy).             *)
(***************************************************************************)
Connect(t) ==
    /\ link[t] = Down
    /\ \E c \in Serving :
          /\ handler[c][t] = "none"
          /\ link' = [link EXCEPT ![t] = c]
          /\ handler' = [handler EXCEPT ![c][t] = "asked"]
    /\ UNCHANGED <<copy, chan, fell, fetch, shown, drops>>

\* Who arrives after Close is subscribed all the same.
SlipSubscribe(c, t) ==
    /\ handler[c][t] = "asked"
    /\ chan' = [chan EXCEPT ![c][t] = NewChan]
    /\ handler' = [handler EXCEPT ![c][t] = "subscribed"]
    /\ UNCHANGED <<copy, link, fell, fetch, shown, drops>>

\* Subscribe: after Close the channel is born closed and the tablet is told
\* that this copy goes away (ErrShuttingDown).
Subscribe(c, t) ==
    /\ handler[c][t] = "asked"
    /\ \/ /\ copy[c] # "closed"
          /\ chan' = [chan EXCEPT ![c][t] = NewChan]
          /\ handler' = [handler EXCEPT ![c][t] = "subscribed"]
          /\ UNCHANGED link
       \/ /\ copy[c] = "closed"
          /\ handler' = [handler EXCEPT ![c][t] = "none"]
          /\ link' = [link EXCEPT ![t] = IF @ = c THEN Failed ELSE @]
          /\ UNCHANGED chan
    /\ UNCHANGED <<copy, fell, fetch, shown, drops>>

\* The first look at the channel, which loses an event already there and
\* refuses the tablet when it was closed in between, and the ping that opens
\* the stream; alReconectar.
Greet(c, t) ==
    /\ handler[c][t] = "subscribed"
    /\ \/ /\ chan[c][t].st = "closed" /\ chan[c][t].buf = <<>>
          /\ Ended(c, t)
          /\ link' = [link EXCEPT ![t] = IF @ = c THEN Failed ELSE @]
          /\ UNCHANGED <<fell, fetch>>
       \/ /\ chan[c][t].st = "open" \/ chan[c][t].buf # <<>>
          /\ handler' = [handler EXCEPT ![c][t] = "streaming"]
          /\ chan' = [chan EXCEPT ![c][t].buf = IF @ = <<>> THEN @ ELSE Tail(@)]
          /\ IF link[t] = c /\ fell[t]
             THEN Invalidate(t) /\ fell' = [fell EXCEPT ![t] = FALSE]
             ELSE UNCHANGED <<fell, fetch>>
          /\ UNCHANGED link
    /\ UNCHANGED <<copy, shown, drops>>

\* An event reaches the tablet, if it is still there.
Deliver(c, t) ==
    /\ handler[c][t] = "streaming" /\ chan[c][t].buf # <<>>
    /\ chan' = [chan EXCEPT ![c][t].buf = Tail(@)]
    /\ IF link[t] = c /\ Head(chan[c][t].buf) = "list" THEN Invalidate(t) ELSE UNCHANGED fetch
    /\ UNCHANGED <<copy, handler, link, fell, shown, drops>>

\* The channel was closed, or the tablet went away.
EndStream(c, t) ==
    /\ handler[c][t] = "streaming"
    /\ \/ chan[c][t].st = "closed" /\ chan[c][t].buf = <<>>
       \/ link[t] # c
    /\ Ended(c, t)
    /\ link' = [link EXCEPT ![t] = IF @ = c THEN Down ELSE @]
    /\ fell' = [fell EXCEPT ![t] = @ \/ link[t] = c]
    /\ UNCHANGED <<copy, fetch, shown, drops>>

\* The network loses the stream; the copy finds out later.
DropStream(t) ==
    /\ link[t] \in Copies /\ drops < MaxDrops
    /\ drops' = drops + 1
    /\ link' = [link EXCEPT ![t] = Down]
    /\ fell' = [fell EXCEPT ![t] = TRUE]
    /\ UNCHANGED <<copy, chan, handler, fetch, shown>>
-----------------------------------------------------------------------------
StreamInit ==
    /\ copy = [c \in Copies |-> IF c = 1 THEN "live" ELSE "off"]
    /\ chan = [c \in Copies |-> [t \in Tablets |-> NoChan]]
    /\ handler = [c \in Copies |-> [t \in Tablets |-> "none"]]
    /\ link = [t \in Tablets |-> Down]
    /\ fell = [t \in Tablets |-> FALSE]
    /\ fetch = [t \in Tablets |-> Idle]
    /\ shown = [t \in Tablets |-> {}]
    /\ drops = 0

\* What the goroutine of a request to /events does, a step after another.
HandlerStep(c, t) == Subscribe(c, t) \/ Greet(c, t) \/ Deliver(c, t) \/ EndStream(c, t)

\* Steps that leave alone what the streams are about.
StreamStep ==
    \/ \E c \in Copies :
          \/ StartCopy(c) \/ StopCopy(c) \/ CloseBroker(c)
          \/ \E t \in Tablets : HandlerStep(c, t)
    \/ \E t \in Tablets : Connect(t) \/ DropStream(t) \/ Poll(t) \/ Show(t)

\* A process that runs goes on, an orchestrator starts the next copy, and a
\* tablet's timers and its browser go on.
StreamFairness ==
    /\ \A c \in Copies :
          /\ WF_streamVars(StartCopy(c)) /\ WF_streamVars(CloseBroker(c))
          /\ \A t \in Tablets : WF_streamVars(HandlerStep(c, t))
    /\ \A t \in Tablets : WF_streamVars(Poll(t)) /\ WF_streamVars(Show(t))
=============================================================================
