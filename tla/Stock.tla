-------------------------------- MODULE Stock ---------------------------------
(***************************************************************************)
(* What the stock of the ingredients says against what is on the shelf:    *)
(* sales, waste that may wait for an approval or be undone, goods received *)
(* in parts, and counts captured while the rest goes on                    *)
(* (server/internal/app/waste.go, waste_reports.go, stock_counts.go,       *)
(* purchases_receive.go and their queries).                                *)
(*                                                                         *)
(* A quantity is a vector: the stock of an ingredient says how many times  *)
(* each event was counted in it, so that an error in one event cannot be   *)
(* hidden by another.  People record what happens when it happens, and     *)
(* count what is on the shelf when they send the figure.  One branch.      *)
(***************************************************************************)
EXTENDS FiniteSets, Integers

CONSTANTS
    Clerks,      \* who counts and who receives
    Items,       \* ingredients
    Sales,       \* lines of orders that take ingredients
    Losses,      \* waste records
    Deliveries,  \* parts of a purchase, received one by one
    Parts,       \* the ingredients of each event
    MaxCounts    \* bound: counts opened

Events == Sales \cup Losses \cup Deliveries

Counts == 1 .. MaxCounts

ASSUME StockAssumption ==
    /\ Parts \in [Events -> SUBSET Items \ {{}}]
    /\ IsFiniteSet(Deliveries)
    /\ Sales \cap Losses = {} /\ Losses \cap Deliveries = {} /\ Sales \cap Deliveries = {}
    /\ MaxCounts \in Nat

VARIABLES
    rec,      \* status of each event; of a waste, whether it is real, the count that covers it, and
              \* (history) whether a count that saw it closed before its record was committed
    counted,  \* times each event is in the stock of each ingredient (stock_levels)
    count,    \* stock_counts
    line,     \* stock_count_lines: the ajuste they will make, and the events recorded before them
    capture,  \* the capture each clerk sent
    view      \* what each clerk saw as received of the purchase

vars == <<rec, counted, count, line, capture, view>>

NoCount == 0
-----------------------------------------------------------------------------
Begun(e) == rec[e].status # "none"

\* What is on the shelf counts a real event from the moment it is recorded.
Happened(e) == Begun(e) /\ rec[e].real

\* Rows of stock_levels a transaction in course holds.
Locked(i) == \E e \in Events : rec[e].status = "writing" /\ i \in Parts[e]

\* lockIngredients: without waiting, whoever finds them taken tries again.
Takes(e) == \A i \in Parts[e] : ~Locked(i)

\* The movements of an event.
Move(e, by) ==
    counted' = [counted EXCEPT ![e] = [i \in Items |-> IF i \in Parts[e] THEN @[i] + by ELSE @[i]]]

Open(c) == count[c] = "open"

HasLine(c, i) == line[c][i].at

\* The line of a count that knows of an event: it was recorded before the
\* capture (recorded_at <= captured_at).
Saw(c, e) == \E i \in Parts[e] : HasLine(c, i) /\ e \in line[c][i].before
-----------------------------------------------------------------------------
(***************************************************************************)
(* Sales and waste.                                                        *)
(***************************************************************************)

\* A sale (descontarRenglon) or a waste that needs no approval (RecordWaste)
\* holds the stock of its ingredients until it commits.
RecordBegin(e, real) ==
    /\ e \in Sales \cup Losses /\ ~Begun(e)
    /\ e \in Sales => real
    /\ Takes(e)
    /\ rec' = [rec EXCEPT ![e].status = "writing", ![e].real = real]
    /\ UNCHANGED <<counted, count, line, capture, view>>

RecordCommit(e) ==
    /\ rec[e].status = "writing"
    /\ rec' = [rec EXCEPT ![e].status = "applied"]
    /\ Move(e, 1)
    /\ UNCHANGED <<count, line, capture, view>>

\* A waste whose cost passes the threshold takes nothing yet: its row has the
\* moment of the insertion (recorded_at), and is seen once it is committed.
RecordPending(e, real) ==
    /\ e \in Losses /\ ~Begun(e)
    /\ rec' = [rec EXCEPT ![e].status = "filing", ![e].real = real]
    /\ UNCHANGED <<counted, count, line, capture, view>>

CommitPending(e) ==
    /\ rec[e].status = "filing"
    /\ rec' = [rec EXCEPT ![e].status = "pending"]
    /\ UNCHANGED <<counted, count, line, capture, view>>

\* OpenCountThatSaw.
OpenCountThatSaw(e) == {c \in Counts : Open(c) /\ Saw(c, e)}

\* ApproveWaste: what an open count saw is left to it.
ApproveWaste(e) ==
    /\ rec[e].status = "pending" /\ Takes(e)
    /\ \/ /\ OpenCountThatSaw(e) = {}
          /\ rec' = [rec EXCEPT ![e].status = "applied"]
          /\ Move(e, 1)
       \/ \E c \in OpenCountThatSaw(e) :
             /\ rec' = [rec EXCEPT ![e].status = "covered", ![e].by = c]
             /\ UNCHANGED counted
    /\ UNCHANGED <<count, line, capture, view>>

RejectWaste(e) ==
    /\ rec[e].status = "pending"
    /\ rec' = [rec EXCEPT ![e].status = "rejected"]
    /\ UNCHANGED <<counted, count, line, capture, view>>

\* IngredientsCountedSince.
CountedSince(e) == \E c \in Counts : count[c] \in {"open", "closed"} /\ Saw(c, e)

\* UndoWaste, of what did not happen: a pending one took nothing, an applied
\* one is looked up in the counts before its ingredients are locked.
UndoPending(e) ==
    /\ rec[e].status = "pending" /\ ~rec[e].real
    /\ rec' = [rec EXCEPT ![e].status = "undone"]
    /\ UNCHANGED <<counted, count, line, capture, view>>

UndoCheck(e) ==
    /\ e \in Losses /\ rec[e].status = "applied" /\ ~rec[e].real
    /\ ~CountedSince(e)
    /\ rec' = [rec EXCEPT ![e].status = "undoing"]
    /\ UNCHANGED <<counted, count, line, capture, view>>

UndoCommit(e) ==
    /\ rec[e].status = "undoing"
    /\ \/ /\ Takes(e)
          /\ rec' = [rec EXCEPT ![e].status = "undone"]
          /\ Move(e, -1)
       \/ /\ ~Takes(e)
          /\ rec' = [rec EXCEPT ![e].status = "applied"]
          /\ UNCHANGED counted
    /\ UNCHANGED <<count, line, capture, view>>
-----------------------------------------------------------------------------
(***************************************************************************)
(* Receiving a purchase.                                                   *)
(***************************************************************************)
Received == {d \in Deliveries : Begun(d)}

\* What the screen of a clerk shows as applied (seenApplied).
Look(k) ==
    /\ view' = [view EXCEPT ![k] = Received]
    /\ UNCHANGED <<rec, counted, count, line, capture>>

\* ReceiveItem compares the quantity applied of the line, locked.
SameApplied(k) == Cardinality(view[k]) = Cardinality(Received)

\* A clerk receives what has arrived and is not received on the screen; the
\* same parcel may be sent again, by the network or by another clerk.
ReceiveItem(k, d) ==
    /\ d \notin view[k]
    /\ Takes(d)
    /\ SameApplied(k)
    /\ rec' = [rec EXCEPT ![d].status = "applied", ![d].real = TRUE]
    /\ Move(d, 1)
    /\ UNCHANGED <<count, line, capture, view>>
-----------------------------------------------------------------------------
(***************************************************************************)
(* Counts.                                                                 *)
(***************************************************************************)
NoLine == [at |-> FALSE, diff |-> [e \in Events |-> 0], before |-> {}]

NoCapture == [count |-> NoCount, item |-> {}, shelf |-> {}, before |-> {}]

\* Another count may be open.
SlipOpenCount(c) ==
    /\ count[c] = "none" /\ \A b \in Counts : b < c => count[b] # "none"
    /\ count' = [count EXCEPT ![c] = "open"]
    /\ UNCHANGED <<rec, counted, line, capture, view>>

\* OpenCount: one at a time (stock_counts_one_open).
OpenCount(c) ==
    /\ count[c] = "none" /\ \A b \in Counts : b < c => count[b] \in {"closed", "discarded"}
    /\ count' = [count EXCEPT ![c] = "open"]
    /\ UNCHANGED <<rec, counted, line, capture, view>>

\* A clerk sends what is on the shelf; captured_at is when the request began.
CaptureBegin(k, c, i) ==
    /\ Open(c) /\ capture[k] = NoCapture
    /\ capture' = [capture EXCEPT ![k] = [count |-> c, item |-> {i},
                      shelf |-> {e \in Events : Happened(e)}, before |-> {e \in Events : Begun(e)}]]
    /\ UNCHANGED <<rec, counted, count, line, view>>

\* Nobody waits for what is being written.
SlipLevelTaken(i) == TRUE

\* LockStockLevelForCapture waits for the sale or the waste in course.
LevelTaken(i) == ~Locked(i)

\* captureTx: the figure and what the system has, of the same moment; the
\* new reading replaces the one before.
CaptureCommit(k) ==
    LET q == capture[k] IN
    /\ q # NoCapture
    /\ \/ /\ Open(q.count)
          /\ \A i \in q.item : LevelTaken(i)
          /\ line' = [line EXCEPT ![q.count] = [i \in Items |->
                        IF i \in q.item
                        THEN [at |-> TRUE, before |-> q.before,
                              diff |-> [e \in Events |-> (IF e \in q.shelf /\ i \in Parts[e] THEN 1 ELSE 0) - counted[e][i]]]
                        ELSE @[i]]]
       \/ ~Open(q.count) /\ UNCHANGED line
    /\ capture' = [capture EXCEPT ![k] = NoCapture]
    /\ UNCHANGED <<rec, counted, count, view>>

UncaptureCount(c, i) ==
    /\ Open(c) /\ HasLine(c, i)
    /\ line' = [line EXCEPT ![c][i] = NoLine]
    /\ UNCHANGED <<rec, counted, count, capture, view>>

\* coverPendingWaste: a waste waiting for approval that the count saw.
Covers(c, e) == rec[e].status = "pending" /\ Saw(c, e)

\* PlanCountClose: an ajuste for each figure that differs.
Adjusts(c, i) == HasLine(c, i) /\ \E e \in Events : line[c][i].diff[e] # 0

\* The close reads no row that is not committed yet.
Overlooks(c, e) == rec[e].status = "filing" /\ Saw(c, e)

CloseCount(c) ==
    /\ Open(c)
    /\ \A i \in Items : Adjusts(c, i) => ~Locked(i)
    /\ count' = [count EXCEPT ![c] = "closed"]
    /\ counted' = [e \in Events |-> [i \in Items |-> counted[e][i] + line[c][i].diff[e]]]
    /\ rec' = [e \in Events |-> IF Covers(c, e) THEN [rec[e] EXCEPT !.status = "covered", !.by = c]
                              ELSE [rec[e] EXCEPT !.missed = @ \/ Overlooks(c, e)]]
    /\ UNCHANGED <<line, capture, view>>

DiscardCount(c) ==
    /\ Open(c)
    /\ count' = [count EXCEPT ![c] = "discarded"]
    /\ UNCHANGED <<rec, counted, line, capture, view>>
-----------------------------------------------------------------------------
Init ==
    /\ rec = [e \in Events |-> [status |-> "none", real |-> FALSE, by |-> NoCount, missed |-> FALSE]]
    /\ counted = [e \in Events |-> [i \in Items |-> 0]]
    /\ count = [c \in Counts |-> "none"]
    /\ line = [c \in Counts |-> [i \in Items |-> NoLine]]
    /\ capture = [k \in Clerks |-> NoCapture]
    /\ view = [k \in Clerks |-> {}]

WasteStep(e) ==
    \/ \E real \in BOOLEAN : RecordBegin(e, real) \/ RecordPending(e, real)
    \/ RecordCommit(e) \/ CommitPending(e)
    \/ ApproveWaste(e) \/ RejectWaste(e)
    \/ UndoPending(e) \/ UndoCheck(e) \/ UndoCommit(e)

CountStep(c) ==
    \/ OpenCount(c) \/ CloseCount(c) \/ DiscardCount(c)
    \/ \E i \in Items : UncaptureCount(c, i) \/ \E k \in Clerks : CaptureBegin(k, c, i)

Next ==
    \/ \E e \in Events : WasteStep(e)
    \/ \E c \in Counts : CountStep(c)
    \/ \E k \in Clerks : CaptureCommit(k) \/ Look(k) \/ \E d \in Deliveries : ReceiveItem(k, d)

Spec == Init /\ [][Next]_vars
-----------------------------------------------------------------------------
(***************************************************************************)
(* Properties.                                                             *)
(***************************************************************************)
Statuses == {"none", "writing", "filing", "pending", "applied", "rejected", "covered", "undoing", "undone"}

\* Types; one count is open at most and lines belong to counts that were
\* opened.
TypeOK ==
    /\ rec \in [Events -> [status : Statuses, real : BOOLEAN, by : {NoCount} \cup Counts, missed : BOOLEAN]]
    /\ counted \in [Events -> [Items -> Int]]
    /\ count \in [Counts -> {"none", "open", "closed", "discarded"}]
    /\ line \in [Counts -> [Items -> [at : BOOLEAN, diff : [Events -> Int], before : SUBSET Events]]]
    /\ Cardinality({c \in Counts : Open(c)}) <= 1
    /\ \A c \in Counts, i \in Items : HasLine(c, i) => count[c] # "none"
    /\ \A k \in Clerks : view[k] \subseteq Deliveries

\* Nothing is taken from the stock twice, whether by its own movement or by
\* the ajuste of a count that saw it gone (captureTx: "se restaría dos veces"),
\* and what arrives is received once, sent again or received by two clerks
\* (LockExpenseForStock: "la segunda compara contra lo ya aplicado por la
\* primera").  Only the waste whose record was committed after the close of the
\* count that saw it gone can be taken again, if it is then approved.
CountedOnce == \A e \in Events, i \in Items : ~rec[e].missed => counted[e][i] <= 1

\* A count that is discarded covers nothing (FR-013: "Un conteo descartado no
\* cubre nada").
DiscardedCoversNothing == \A e \in Losses : rec[e].status = "covered" => count[rec[e].by] # "discarded"
=============================================================================
