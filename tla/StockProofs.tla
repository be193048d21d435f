----------------------------- MODULE StockProofs ------------------------------
(***************************************************************************)
(* Theorems about Stock, for every value of its constants.                 *)
(***************************************************************************)
EXTENDS Stock, FiniteSetTheorems, TLAPS

Records == [status : Statuses, real : BOOLEAN, by : {NoCount} \cup Counts, missed : BOOLEAN]

Captures ==
    [count : {NoCount} \cup Counts, item : SUBSET Items, shelf : SUBSET Events, before : SUBSET Events]

\* The types, with those of the captures in course.
Typed ==
    /\ rec \in [Events -> Records]
    /\ counted \in [Events -> [Items -> Int]]
    /\ count \in [Counts -> {"none", "open", "closed", "discarded"}]
    /\ line \in [Counts -> [Items -> [at : BOOLEAN, diff : [Events -> Int], before : SUBSET Events]]]
    /\ capture \in [Clerks -> Captures]
    /\ view \in [Clerks -> SUBSET Deliveries]

\* Counts are opened one after the other, and lines belong to counts that were opened.
CountsInOrder ==
    /\ \A b, c \in Counts : Open(c) /\ b < c => count[b] \in {"closed", "discarded"}
    /\ \A c \in Counts, i \in Items : ~HasLine(c, i) => line[c][i] = NoLine
    /\ \A c \in Counts, i \in Items : HasLine(c, i) => count[c] # "none"

\* A clerk sees nothing received that is not, and a capture nothing that did not happen before it.
SeenFirst ==
    /\ \A k \in Clerks : view[k] \subseteq Received
    /\ \A k \in Clerks : /\ capture[k].shelf \subseteq capture[k].before
                         /\ \A e \in capture[k].before : Begun(e)

\* An open count has a line of an ingredient.
OpenLine(c, i) == Open(c) /\ HasLine(c, i)

\* What the stock of an ingredient and the line an open count has of it say of an event: what is in
\* the stock and what the line will add are once at most, and what is still to be written, or waits
\* for an approval, is not in the stock.  A waste that a close missed is left out.
Fits(e, i) ==
    ~rec[e].missed =>
    /\ counted[e][i] <= 1
    /\ \A c \in Counts : OpenLine(c, i) => counted[e][i] + line[c][i].diff[e] <= 1
    /\ rec[e].status \in {"none", "writing"} =>
          counted[e][i] = 0 /\ \A c \in Counts : OpenLine(c, i) => line[c][i].diff[e] = 0
    /\ rec[e].status \in {"filing", "pending"} =>
          /\ counted[e][i] = 0
          /\ \A c \in Counts : OpenLine(c, i) =>
                line[c][i].diff[e] \in {0, 1} /\ (line[c][i].diff[e] = 1 => e \in line[c][i].before)

\* An event of other ingredients is nowhere in the stock or the counts of one.
Absent(e, i) == counted[e][i] = 0 /\ \A c \in Counts : line[c][i].diff[e] = 0

StockFits ==
    \A e \in Events, i \in Items : IF i \in Parts[e] THEN Fits(e, i) ELSE Absent(e, i)

StockInv == Typed /\ CountsInOrder /\ SeenFirst /\ StockFits
-----------------------------------------------------------------------------
(***************************************************************************)
(* Types and the order of the counts.                                      *)
(***************************************************************************)
\* It holds at first.
LEMMA StockInitially == Init => StockInv
  <1> SUFFICES ASSUME Init PROVE StockInv
    OBVIOUS
  <1>1. NoLine \in [at : BOOLEAN, diff : [Events -> Int], before : SUBSET Events] /\ NoLine.at = FALSE
    BY DEF NoLine
  <1>2. NoCapture \in Captures /\ NoCapture.shelf = {} /\ NoCapture.before = {}
    BY DEF NoCapture, Captures
  <1>3. NoLine.diff = [e \in Events |-> 0]
    BY DEF NoLine
  <1> USE DEF Init
  <1>4. Typed
    BY <1>1, <1>2, StockAssumption DEF Typed, Records, Statuses
  <1>5. CountsInOrder
    BY <1>1 DEF CountsInOrder, Open, HasLine
  <1>6. SeenFirst
    BY <1>2 DEF SeenFirst
  <1>7. StockFits
    BY <1>1, <1>3 DEF StockFits, Fits, Absent, OpenLine, Open
  <1> QED  BY <1>4, <1>5, <1>6, <1>7 DEF StockInv

\* Every figure of a line is of the moment it was captured.
Reading(q, i) ==
    [at |-> TRUE, before |-> q.before,
     diff |-> [e \in Events |-> (IF e \in q.shelf /\ i \in Parts[e] THEN 1 ELSE 0) - counted[e][i]]]

\* The figures of a reading, one by one.
LEMMA ReadingTyped ==
    ASSUME Typed, NEW q \in Captures, NEW i \in Items
    PROVE  /\ Reading(q, i) \in [at : BOOLEAN, diff : [Events -> Int], before : SUBSET Events]
           /\ Reading(q, i).at = TRUE /\ Reading(q, i).before = q.before
           /\ \A e \in Events : Reading(q, i).diff[e] =
                 (IF e \in q.shelf /\ i \in Parts[e] THEN 1 ELSE 0) - counted[e][i]
  BY DEF Typed, Captures, Reading

\* What a capture leaves.
LEMMA CaptureLeaves ==
    ASSUME Typed, NEW k \in Clerks, CaptureCommit(k)
    PROVE  /\ capture[k] \in Captures
           /\ \A c \in Counts, i \in Items :
                 \/ line'[c][i] = line[c][i]
                 \/ /\ Open(c) /\ ~Locked(i) /\ i \in capture[k].item
                    /\ line'[c][i] = Reading(capture[k], i)
  <1> DEFINE q == capture[k]
  <1>1. q \in Captures
    BY DEF Typed
  <1>2. CASE UNCHANGED line
    BY <1>1, <1>2
  <1>3. CASE /\ Open(q.count) /\ \A i \in q.item : ~Locked(i)
             /\ line' = [line EXCEPT ![q.count] = [i \in Items |->
                           IF i \in q.item THEN Reading(q, i) ELSE @[i]]]
    <2> SUFFICES ASSUME NEW c \in Counts, NEW i \in Items, line'[c][i] # line[c][i]
                 PROVE  Open(c) /\ ~Locked(i) /\ i \in q.item /\ line'[c][i] = Reading(q, i)
      BY <1>1
    <2> HIDE DEF q
    <2>1. c = q.count /\ i \in q.item
      BY <1>3 DEF Typed
    <2> QED  BY <1>3, <2>1 DEF Typed
  <1> QED  BY <1>1, <1>2, <1>3 DEF CaptureCommit, LevelTaken, Reading

\* The step of an event changes its record, and its ingredients in the stock by one at most.
LEMMA WasteLeaves ==
    ASSUME Typed, NEW e \in Events, WasteStep(e)
    PROVE  /\ UNCHANGED <<count, line, capture, view>>
           /\ rec' \in [Events -> Records]
           /\ \A f \in Events : f # e => rec'[f] = rec[f]
           /\ counted' = counted \/ Move(e, 1) \/ Move(e, -1)
           /\ Begun(e) => rec'[e].status # "none"
           /\ rec'[e].missed = rec[e].missed
  <1> USE DEF Records
  <1>1. UNCHANGED <<count, line, capture, view>> /\ (counted' = counted \/ Move(e, 1) \/ Move(e, -1))
    BY DEF WasteStep, RecordBegin, RecordCommit, RecordPending, CommitPending, ApproveWaste, RejectWaste,
           UndoPending, UndoCheck, UndoCommit
  <1>2. PICK x \in Records :
           rec' = [rec EXCEPT ![e] = x] /\ x.status # "none" /\ x.missed = rec[e].missed
    <2>1. rec[e] \in Records
      BY DEF Typed
    <2>2. ASSUME NEW real \in BOOLEAN, RecordBegin(e, real) \/ RecordPending(e, real)
          PROVE  \E x \in Records : rec' = [rec EXCEPT ![e] = x] /\ x.status # "none" /\ x.missed = rec[e].missed
      <3>1. \A st \in {"writing", "filing"} : [rec[e] EXCEPT !.status = st, !.real = real] \in Records
        BY <2>1 DEF Statuses
      <3> QED  BY <2>1, <2>2 DEF RecordBegin, RecordPending, Statuses, Typed
    <2>3. ASSUME NEW st \in Statuses, st # "none", rec' = [rec EXCEPT ![e].status = st]
          PROVE  \E x \in Records : rec' = [rec EXCEPT ![e] = x] /\ x.status # "none" /\ x.missed = rec[e].missed
      <3>1. [rec[e] EXCEPT !.status = st] \in Records /\ [rec[e] EXCEPT !.status = st].status = st
               /\ [rec[e] EXCEPT !.status = st].missed = rec[e].missed
        BY <2>1
      <3>2. rec' = [rec EXCEPT ![e] = [rec[e] EXCEPT !.status = st]]
        BY <2>1, <2>3 DEF Typed
      <3> QED  BY <2>3, <3>1, <3>2
    <2>4. ASSUME NEW c \in Counts, rec' = [rec EXCEPT ![e].status = "covered", ![e].by = c]
          PROVE  \E x \in Records : rec' = [rec EXCEPT ![e] = x] /\ x.status # "none" /\ x.missed = rec[e].missed
      <3> DEFINE x == [rec[e] EXCEPT !.status = "covered", !.by = c]
      <3>1. x \in Records /\ x.status = "covered" /\ x.missed = rec[e].missed
        BY <2>1 DEF Statuses
      <3>2. rec' = [rec EXCEPT ![e] = x]
        BY <2>1, <2>4 DEF Typed
      <3> HIDE DEF x
      <3> QED  BY <3>1, <3>2
    <2>5. CASE RecordCommit(e) \/ CommitPending(e) \/ RejectWaste(e) \/ UndoPending(e) \/ UndoCheck(e) \/ UndoCommit(e)
      <3>1. \E st \in Statuses \ {"none"} : rec' = [rec EXCEPT ![e].status = st]
        BY <2>5 DEF RecordCommit, CommitPending, RejectWaste, UndoPending, UndoCheck, UndoCommit, Statuses
      <3> QED  BY <2>3, <3>1
    <2>6. CASE ApproveWaste(e)
      <3>1. \/ rec' = [rec EXCEPT ![e].status = "applied"]
            \/ \E c \in Counts : rec' = [rec EXCEPT ![e].status = "covered", ![e].by = c]
        BY <2>6 DEF ApproveWaste, OpenCountThatSaw
      <3> QED  BY <2>3, <2>4, <3>1 DEF Statuses
    <2> QED  BY <2>2, <2>5, <2>6 DEF WasteStep
  <1> QED  BY <1>1, <1>2 DEF Typed

\* A movement is of the ingredients of its event.
LEMMA MoveSays ==
    ASSUME Typed, NEW e \in Events, NEW by \in Int, Move(e, by)
    PROVE  /\ counted' \in [Events -> [Items -> Int]]
           /\ \A f \in Events, i \in Items :
                 counted'[f][i] = IF f = e /\ i \in Parts[e] THEN counted[f][i] + by ELSE counted[f][i]
  BY DEF Typed, Move

\* Receiving records the part and moves its ingredients.
LEMMA ReceiveLeaves ==
    ASSUME Typed, NEW k \in Clerks, NEW d \in Deliveries, ReceiveItem(k, d)
    PROVE  /\ UNCHANGED <<count, line, capture, view>> /\ Move(d, 1)
           /\ rec' \in [Events -> Records]
           /\ \A f \in Events : f # d => rec'[f] = rec[f]
           /\ rec'[d].status = "applied" /\ rec'[d].missed = rec[d].missed
  <1> USE DEF Records
  <1> DEFINE x == [rec[d] EXCEPT !.status = "applied", !.real = TRUE]
  <1>1. d \in Events /\ rec[d] \in Records
    BY DEF Typed, Events
  <1>2. x \in Records /\ x.status = "applied"
        /\ x.missed = rec[d].missed
    BY <1>1 DEF Statuses
  <1>3. rec' = [rec EXCEPT ![d] = x]
    BY <1>1 DEF ReceiveItem, Typed
  <1> HIDE DEF x
  <1>4. rec'[d] = x /\ \A f \in Events : f # d => rec'[f] = rec[f]
    BY <1>1, <1>3 DEF Typed
  <1>5. rec' \in [Events -> Records]
    BY <1>1, <1>2, <1>3 DEF Typed
  <1>6. rec'[d].status = "applied" /\ rec'[d].missed = rec[d].missed
    BY <1>2, <1>4, Zenon
  <1>7. UNCHANGED <<count, line, capture, view>> /\ Move(d, 1)
    BY DEF ReceiveItem
  <1> QED  BY <1>4, <1>5, <1>6, <1>7

\* Closing a count adds its lines to the stock, and covers the waste it saw waiting.
LEMMA CloseLeaves ==
    ASSUME Typed, NEW c \in Counts, CloseCount(c)
    PROVE  /\ UNCHANGED <<line, capture, view>>
           /\ count' = [count EXCEPT ![c] = "closed"]
           /\ counted' \in [Events -> [Items -> Int]]
           /\ \A e \in Events, i \in Items : counted'[e][i] = counted[e][i] + line[c][i].diff[e]
           /\ rec' \in [Events -> Records]
           /\ \A e \in Events : /\ rec'[e] = rec[e] \/ (Begun(e) /\ rec'[e].status = "covered")
                                   \/ (rec'[e].status = rec[e].status /\ rec'[e].missed)
                                /\ Covers(c, e) => rec'[e].status = "covered"
                                /\ Overlooks(c, e) => rec'[e].missed
                                /\ rec[e].missed => rec'[e].missed
  <1> USE DEF Records
  <1>1. ASSUME NEW e \in Events
        PROVE  /\ [rec[e] EXCEPT !.status = "covered", !.by = c] \in Records
               /\ [rec[e] EXCEPT !.status = "covered", !.by = c].status = "covered"
               /\ [rec[e] EXCEPT !.status = "covered", !.by = c].missed = rec[e].missed
               /\ [rec[e] EXCEPT !.missed = @ \/ Overlooks(c, e)] \in Records
               /\ [rec[e] EXCEPT !.missed = @ \/ Overlooks(c, e)].status = rec[e].status
               /\ [rec[e] EXCEPT !.missed = @ \/ Overlooks(c, e)].missed = (rec[e].missed \/ Overlooks(c, e))
               /\ rec[e].missed \/ ~Overlooks(c, e) => [rec[e] EXCEPT !.missed = @ \/ Overlooks(c, e)] = rec[e]
    <2>1. rec[e] \in Records /\ (rec[e].missed \/ Overlooks(c, e)) \in BOOLEAN
      BY DEF Typed, Overlooks
    <2> DEFINE x == [rec[e] EXCEPT !.missed = @ \/ Overlooks(c, e)]
    <2>2. x.missed = (rec[e].missed \/ Overlooks(c, e)) /\ x.status = rec[e].status /\ x \in Records
      BY <2>1
    <2>3. rec[e].missed \/ ~Overlooks(c, e) => x = rec[e]
      BY <2>1
    <2> QED  BY <2>1, <2>2, <2>3 DEF Statuses
  <1>2. \A e \in Events : Covers(c, e) => Begun(e)
    BY DEF Covers, Begun
  <1>3. rec' = [e \in Events |-> IF Covers(c, e) THEN [rec[e] EXCEPT !.status = "covered", !.by = c]
                                 ELSE [rec[e] EXCEPT !.missed = @ \/ Overlooks(c, e)]]
    BY DEF CloseCount
  <1>4. /\ rec' \in [Events -> Records]
        /\ \A e \in Events : /\ rec'[e] = rec[e] \/ (Begun(e) /\ rec'[e].status = "covered")
                                \/ (rec'[e].status = rec[e].status /\ rec'[e].missed)
                             /\ Covers(c, e) => rec'[e].status = "covered"
                             /\ Overlooks(c, e) => rec'[e].missed
                             /\ rec[e].missed => rec'[e].missed
    <2> SUFFICES ASSUME NEW e \in Events
                 PROVE  /\ rec'[e] \in Records
                        /\ rec'[e] = rec[e] \/ (Begun(e) /\ rec'[e].status = "covered")
                              \/ (rec'[e].status = rec[e].status /\ rec'[e].missed)
                        /\ Covers(c, e) => rec'[e].status = "covered"
                        /\ Overlooks(c, e) => rec'[e].missed
                        /\ rec[e].missed => rec'[e].missed
      BY <1>3, Zenon
    <2>1. CASE Covers(c, e)
      <3>1. rec'[e] = [rec[e] EXCEPT !.status = "covered", !.by = c]
        BY <1>3, <2>1, Zenon
      <3>2. ~Overlooks(c, e)
        BY <2>1 DEF Covers, Overlooks
      <3> QED  BY <1>1, <1>2, <2>1, <3>1, <3>2
    <2>2. CASE ~Covers(c, e)
      <3>1. rec'[e] = [rec[e] EXCEPT !.missed = @ \/ Overlooks(c, e)]
        BY <1>3, <2>2, Zenon
      <3> QED  BY <1>1, <2>2, <3>1, Zenon
    <2> QED  BY <2>1, <2>2
  <1>5. \A e \in Events, i \in Items : counted[e][i] \in Int /\ line[c][i].diff[e] \in Int
    BY DEF Typed
  <1>6. /\ counted' \in [Events -> [Items -> Int]]
        /\ \A e \in Events, i \in Items : counted'[e][i] = counted[e][i] + line[c][i].diff[e]
    <2>1. counted' = [e \in Events |-> [i \in Items |-> counted[e][i] + line[c][i].diff[e]]]
      BY DEF CloseCount
    <2> QED  BY <1>5, <2>1
  <1>7. UNCHANGED <<line, capture, view>> /\ count' = [count EXCEPT ![c] = "closed"]
    BY DEF CloseCount
  <1> QED  BY <1>4, <1>6, <1>7

\* The types are kept.
LEMMA StockTyped == Typed /\ [Next]_vars => Typed'
  <1> SUFFICES ASSUME Typed, [Next]_vars PROVE Typed'
    OBVIOUS
  <1>1. ASSUME NEW e \in Events, WasteStep(e) PROVE Typed'
    <2>1. counted' \in [Events -> [Items -> Int]]
      <3>1. counted' = counted \/ Move(e, 1) \/ Move(e, -1)
        BY <1>1, WasteLeaves
      <3>2. Move(e, 1) \/ Move(e, -1) => counted' \in [Events -> [Items -> Int]]
        BY MoveSays
      <3> QED  BY <3>1, <3>2 DEF Typed
    <2> QED  BY <1>1, <2>1, WasteLeaves DEF Typed
  <1>2. ASSUME NEW c \in Counts, OpenCount(c) \/ DiscardCount(c) PROVE Typed'
    BY <1>2 DEF OpenCount, DiscardCount, Typed
  <1>3. ASSUME NEW c \in Counts, CloseCount(c) PROVE Typed'
    BY <1>3, CloseLeaves DEF Typed
  <1>4. ASSUME NEW c \in Counts, NEW i \in Items, UncaptureCount(c, i) PROVE Typed'
    <2>1. NoLine \in [at : BOOLEAN, diff : [Events -> Int], before : SUBSET Events]
      BY DEF NoLine
    <2> HIDE DEF NoLine
    <2> QED  BY <1>4, <2>1 DEF UncaptureCount, Typed
  <1>5. ASSUME NEW c \in Counts, NEW i \in Items, NEW k \in Clerks, CaptureBegin(k, c, i) PROVE Typed'
    <2>1. [count |-> c, item |-> {i}, shelf |-> {e \in Events : Happened(e)},
           before |-> {e \in Events : Begun(e)}] \in Captures
      BY DEF Captures
    <2> QED  BY <1>5, <2>1 DEF CaptureBegin, Typed
  <1>6. ASSUME NEW k \in Clerks, CaptureCommit(k) PROVE Typed'
    <2>1. NoCapture \in Captures
      BY DEF NoCapture, Captures
    <2>2. capture' \in [Clerks -> Captures]
      BY <1>6, <2>1 DEF CaptureCommit, Typed
    <2>3. line' \in [Counts -> [Items -> [at : BOOLEAN, diff : [Events -> Int], before : SUBSET Events]]]
      <3> DEFINE q == capture[k]
                 L == [at : BOOLEAN, diff : [Events -> Int], before : SUBSET Events]
      <3>1. q \in Captures
        BY DEF Typed
      <3>2. \A i \in Items : Reading(q, i) \in L
        BY <3>1, ReadingTyped
      <3>3. \/ UNCHANGED line
            \/ line' = [line EXCEPT ![q.count] = [i \in Items |-> IF i \in q.item THEN Reading(q, i) ELSE @[i]]]
        BY <1>6 DEF CaptureCommit, Reading
      <3> HIDE DEF q
      <3>4. line \in [Counts -> [Items -> L]]
        BY DEF Typed
      <3> HIDE DEF L
      <3>5. \A c \in Counts : [i \in Items |-> IF i \in q.item THEN Reading(q, i) ELSE line[c][i]] \in [Items -> L]
        BY <3>2, <3>4
      <3>6. line' \in [Counts -> [Items -> L]]
        BY <3>3, <3>4, <3>5
      <3> QED  BY <3>6 DEF L
    <2> QED  BY <1>6, <2>2, <2>3 DEF CaptureCommit, Typed
  <1>7. ASSUME NEW k \in Clerks, Look(k) PROVE Typed'
    BY <1>7 DEF Look, Received, Typed
  <1>8. ASSUME NEW k \in Clerks, NEW d \in Deliveries, ReceiveItem(k, d) PROVE Typed'
    <2>1. /\ UNCHANGED <<count, line, capture, view>> /\ Move(d, 1)
          /\ rec' \in [Events -> Records]
      BY <1>8, ReceiveLeaves
    <2>2. counted' \in [Events -> [Items -> Int]]
      BY <2>1, MoveSays DEF Events
    <2> QED  BY <2>1, <2>2 DEF Typed
  <1>9. CASE UNCHANGED vars
    BY <1>9 DEF vars, Typed
  <1> QED
    BY <1>1, <1>2, <1>3, <1>4, <1>5, <1>6, <1>7, <1>8, <1>9 DEF Next, CountStep

\* One count is open at a time.
LEMMA OneOpen ==
    ASSUME CountsInOrder, NEW b \in Counts, NEW c \in Counts, Open(b), Open(c)
    PROVE  b = c
  <1>1. b \in Nat /\ c \in Nat
    BY StockAssumption DEF Counts
  <1>2. ~(b < c) /\ ~(c < b)
    BY DEF CountsInOrder, Open
  <1> QED  BY <1>1, <1>2

\* Counts stay in order.
LEMMA OrderStep == Typed /\ CountsInOrder /\ [Next]_vars => CountsInOrder'
  <1> SUFFICES ASSUME Typed, CountsInOrder, [Next]_vars PROVE CountsInOrder'
    OBVIOUS
  <1>0. \A c \in Counts : c \in Nat
    BY StockAssumption DEF Counts
  <1>1. ASSUME UNCHANGED <<count, line>> PROVE CountsInOrder'
    BY <1>1 DEF CountsInOrder, Open, HasLine
  <1>2. ASSUME NEW e \in Events, WasteStep(e) PROVE CountsInOrder'
    BY <1>1, <1>2, WasteLeaves
  <1>3. ASSUME NEW c \in Counts, OpenCount(c) PROVE CountsInOrder'
    <2>1. /\ count' = [count EXCEPT ![c] = "open"] /\ line' = line /\ count[c] = "none"
          /\ \A b \in Counts : b < c => count[b] \in {"closed", "discarded"}
      BY <1>3 DEF OpenCount
    <2>2. ASSUME NEW a \in Counts, NEW b \in Counts, Open(b)', a < b
          PROVE  count'[a] \in {"closed", "discarded"}
      BY <1>0, <2>1, <2>2 DEF CountsInOrder, Open, Typed
    <2> QED  BY <2>1, <2>2 DEF CountsInOrder, HasLine, Open, Typed
  <1>4. ASSUME NEW c \in Counts, CloseCount(c) \/ DiscardCount(c) PROVE CountsInOrder'
    <2>1. line' = line /\ \E st \in {"closed", "discarded"} : count' = [count EXCEPT ![c] = st]
      BY <1>4 DEF CloseCount, DiscardCount
    <2> QED  BY <2>1 DEF CountsInOrder, HasLine, Open, Typed
  <1>5. ASSUME NEW c \in Counts, NEW i \in Items, UncaptureCount(c, i) PROVE CountsInOrder'
    <2>1. NoLine.at = FALSE
      BY DEF NoLine
    <2>2. count' = count /\ \A b \in Counts, j \in Items : line'[b][j] \in {line[b][j], NoLine}
      BY <1>5 DEF UncaptureCount, Typed
    <2> HIDE DEF NoLine
    <2>3. \A b \in Counts, j \in Items :
             (~HasLine(b, j)' => line'[b][j] = NoLine) /\ (HasLine(b, j)' => HasLine(b, j))
      BY <2>1, <2>2 DEF CountsInOrder, HasLine
    <2> QED  BY <2>2, <2>3 DEF CountsInOrder, Open
  <1>6. ASSUME NEW c \in Counts, NEW i \in Items, NEW k \in Clerks, CaptureBegin(k, c, i)
        PROVE  CountsInOrder'
    BY <1>1, <1>6 DEF CaptureBegin
  <1>7. ASSUME NEW k \in Clerks, CaptureCommit(k) PROVE CountsInOrder'
    <2>1. count' = count
      BY <1>7 DEF CaptureCommit
    <2>2. ASSUME NEW c \in Counts, NEW i \in Items
          PROVE  \/ line'[c][i] = line[c][i]
                 \/ Open(c) /\ HasLine(c, i)'
      <3>1. capture[k] \in Captures
        BY DEF Typed
      <3>2. Reading(capture[k], i).at = TRUE
        BY <3>1, ReadingTyped
      <3>3. line'[c][i] = line[c][i] \/ (Open(c) /\ line'[c][i] = Reading(capture[k], i))
        BY <1>7, CaptureLeaves
      <3> QED  BY <3>2, <3>3 DEF HasLine
    <2>3. \A c \in Counts, i \in Items :
             (~HasLine(c, i)' => line'[c][i] = NoLine) /\ (HasLine(c, i)' => count[c] # "none")
      BY <2>2 DEF CountsInOrder, HasLine, Open
    <2> QED  BY <2>1, <2>3 DEF CountsInOrder, Open
  <1>8. ASSUME NEW k \in Clerks, Look(k) PROVE CountsInOrder'
    BY <1>1, <1>8 DEF Look
  <1>9. ASSUME NEW k \in Clerks, NEW d \in Deliveries, ReceiveItem(k, d) PROVE CountsInOrder'
    BY <1>1, <1>9 DEF ReceiveItem
  <1>10. CASE UNCHANGED vars
    BY <1>1, <1>10 DEF vars
  <1> QED
    BY <1>2, <1>3, <1>4, <1>5, <1>6, <1>7, <1>8, <1>9, <1>10 DEF Next, CountStep

\* What began stays begun.
LEMMA BegunStays ==
    ASSUME Typed, [Next]_vars, NEW e \in Events, Begun(e)
    PROVE  Begun(e)'
  <1>1. ASSUME NEW f \in Events, WasteStep(f) PROVE Begun(e)'
    BY <1>1, WasteLeaves DEF Begun
  <1>2. ASSUME NEW c \in Counts, CloseCount(c) PROVE Begun(e)'
    BY <1>2, CloseLeaves DEF Begun
  <1>3. ASSUME NEW k \in Clerks, NEW d \in Deliveries, ReceiveItem(k, d) PROVE Begun(e)'
    BY <1>3, ReceiveLeaves DEF Begun
  <1> QED
    BY <1>1, <1>2, <1>3
    DEF Next, CountStep, OpenCount, DiscardCount, UncaptureCount, CaptureBegin, CaptureCommit, Look,
        vars, Begun

\* Nothing is seen before it is there.
LEMMA SeenStep == Typed /\ SeenFirst /\ [Next]_vars => SeenFirst'
  <1> SUFFICES ASSUME Typed, SeenFirst, [Next]_vars PROVE SeenFirst'
    OBVIOUS
  <1>1. /\ \A e \in Events : Begun(e) => Begun(e)'
        /\ \A k \in Clerks : capture[k].before \subseteq Events
    BY BegunStays DEF Typed, Captures
  <1>2. Received \subseteq Received'
    BY <1>1 DEF Received, Events
  <1>3. ASSUME UNCHANGED capture, UNCHANGED view \/ \E k \in Clerks : Look(k) PROVE SeenFirst'
    <2>1. \A k \in Clerks : view'[k] \subseteq Received'
      BY <1>2, <1>3 DEF SeenFirst, Look, Typed
    <2> QED  BY <1>1, <1>3, <2>1 DEF SeenFirst
  <1>4. ASSUME NEW c \in Counts, NEW i \in Items, NEW k \in Clerks, CaptureBegin(k, c, i) PROVE SeenFirst'
    <2> DEFINE q == [count |-> c, item |-> {i}, shelf |-> {e \in Events : Happened(e)},
                     before |-> {e \in Events : Begun(e)}]
    <2>1. view' = view /\ capture' = [capture EXCEPT ![k] = q]
      BY <1>4 DEF CaptureBegin
    <2>2. q.shelf \subseteq q.before /\ \A e \in q.before : Begun(e) /\ e \in Events
      BY DEF Happened
    <2> HIDE DEF q
    <2>3. \A h \in Clerks : capture'[h] = IF h = k THEN q ELSE capture[h]
      BY <2>1 DEF Typed
    <2> QED  BY <1>1, <1>2, <2>1, <2>2, <2>3 DEF SeenFirst
  <1>5. ASSUME NEW k \in Clerks, CaptureCommit(k) PROVE SeenFirst'
    <2>1. view' = view /\ capture' = [capture EXCEPT ![k] = NoCapture]
      BY <1>5 DEF CaptureCommit
    <2>2. NoCapture.shelf = {} /\ NoCapture.before = {}
      BY DEF NoCapture
    <2> HIDE DEF NoCapture
    <2>3. \A h \in Clerks : capture'[h] = IF h = k THEN NoCapture ELSE capture[h]
      BY <2>1 DEF Typed
    <2> QED  BY <1>1, <1>2, <2>1, <2>2, <2>3 DEF SeenFirst
  <1>6. ASSUME NEW e \in Events, WasteStep(e) PROVE SeenFirst'
    BY <1>3, <1>6, WasteLeaves
  <1>7. ASSUME NEW c \in Counts, CloseCount(c) PROVE SeenFirst'
    BY <1>3, <1>7 DEF CloseCount
  <1>8. ASSUME NEW k \in Clerks, NEW d \in Deliveries, ReceiveItem(k, d) PROVE SeenFirst'
    BY <1>3, <1>8 DEF ReceiveItem
  <1> QED
    BY <1>3, <1>4, <1>5, <1>6, <1>7, <1>8
    DEF Next, CountStep, OpenCount, DiscardCount, UncaptureCount, Look, vars
-----------------------------------------------------------------------------
(***************************************************************************)
(* Nothing is in the stock twice.                                          *)
(***************************************************************************)
\* An event whose record, stock and lines stay as they are still fits, though a count opens or ends.
LEMMA FitsKept ==
    ASSUME StockInv, NEW e \in Events, NEW i \in Items,
           rec'[e] = rec[e], counted'[e][i] = counted[e][i],
           \A c \in Counts : line'[c][i] = line[c][i] /\ (Open(c)' => Open(c) \/ ~HasLine(c, i))
    PROVE  IF i \in Parts[e] THEN Fits(e, i)' ELSE Absent(e, i)'
  BY DEF StockInv, StockFits, Fits, Absent, OpenLine, HasLine

\* The steps of the sales and of the waste.
LEMMA WasteFits ==
    ASSUME StockInv, NEW e \in Events, WasteStep(e)
    PROVE  StockFits'
  <1> SUFFICES ASSUME NEW f \in Events, NEW i \in Items
               PROVE  IF i \in Parts[f] THEN Fits(f, i)' ELSE Absent(f, i)'
    BY DEF StockFits
  <1>1. Typed /\ UNCHANGED <<count, line>> /\ \A g \in Events : g # e => rec'[g] = rec[g]
    BY WasteLeaves DEF StockInv
  <1>0. rec'[e].missed = rec[e].missed
    BY <1>1, WasteLeaves
  <1>2. counted' = counted \/ \E by \in {1, -1} : Move(e, by)
    BY <1>1, WasteLeaves
  <1>3. counted'[f][i] = counted[f][i]
          \/ (f = e /\ i \in Parts[f] /\ counted'[f][i] \in {counted[f][i] + 1, counted[f][i] - 1})
    <2>1. ASSUME NEW by \in {1, -1}, Move(e, by)
          PROVE  counted'[f][i] = IF f = e /\ i \in Parts[e] THEN counted[f][i] + by ELSE counted[f][i]
      BY <1>1, <2>1, MoveSays
    <2>2. counted[f][i] \in Int
      BY <1>1 DEF Typed
    <2> QED  BY <1>2, <2>1, <2>2
  <1>4. CASE f # e
    BY <1>1, <1>3, <1>4, FitsKept DEF Open
  <1>5. CASE i \notin Parts[f]
    BY <1>1, <1>3, <1>5 DEF StockInv, StockFits, Absent
  <1>6. CASE f = e /\ i \in Parts[f]
    <2> SUFFICES Fits(e, i)'
      BY <1>6
    <2>1. /\ Fits(e, i) /\ counted[e][i] \in Int /\ \A c \in Counts : line[c][i].diff[e] \in Int
          /\ rec[e] \in Records
          /\ rec'[e].missed = rec[e].missed
      BY <1>0, <1>1, <1>6 DEF StockInv, StockFits, Typed, Records
    <2>2. \A c \in Counts : OpenLine(c, i)' <=> OpenLine(c, i)
      BY <1>1 DEF OpenLine, Open, HasLine
    <2>3. ASSUME counted'[e][i] = counted[e][i] \/ counted'[e][i] = counted[e][i] - 1,
                 rec'[e].status \notin {"none", "writing", "filing", "pending"}
          PROVE  Fits(e, i)'
      BY <1>1, <2>1, <2>2, <2>3 DEF Fits
    <2>4. ASSUME NEW real \in BOOLEAN, RecordBegin(e, real) \/ RecordPending(e, real) PROVE Fits(e, i)'
      <3>1. /\ rec[e].status = "none" /\ counted' = counted
            /\ rec'[e].status \in {"writing", "filing"}
        BY <1>1, <2>1, <2>4 DEF RecordBegin, RecordPending, Begun, Typed, Records
      <3> QED  BY <1>1, <2>1, <2>2, <3>1 DEF Fits
    <2>5. CASE RecordCommit(e)
      <3>1. rec[e].status = "writing" /\ Move(e, 1) /\ rec'[e].status = "applied"
        BY <1>1, <2>1, <2>5 DEF RecordCommit, Typed
      <3>2. counted'[e][i] = counted[e][i] + 1
        BY <1>1, <1>6, <3>1, MoveSays
      <3> QED  BY <1>1, <2>1, <2>2, <3>1, <3>2 DEF Fits
    <2>9. CASE CommitPending(e)
      <3>1. counted' = counted /\ rec[e].status = "filing" /\ rec'[e].status = "pending"
        BY <1>1, <2>1, <2>9 DEF CommitPending, Typed
      <3> QED  BY <1>1, <2>1, <2>2, <3>1 DEF Fits
    <2>6. CASE ApproveWaste(e)
      <3>1. CASE OpenCountThatSaw(e) = {} /\ rec' = [rec EXCEPT ![e].status = "applied"] /\ Move(e, 1)
        <4>1. rec[e].status = "pending" /\ rec'[e].status = "applied"
          BY <1>1, <2>1, <2>6, <3>1 DEF ApproveWaste, Typed
        <4>2. counted'[e][i] = counted[e][i] + 1
          BY <1>1, <1>6, <3>1, MoveSays
        <4>3. \A c \in Counts : OpenLine(c, i) => e \notin line[c][i].before
          BY <1>6, <3>1 DEF OpenCountThatSaw, Saw, OpenLine
        <4> QED  BY <1>1, <2>1, <2>2, <4>1, <4>2, <4>3 DEF Fits
      <3>2. CASE counted' = counted /\ rec'[e].status = "covered"
        BY <2>3, <3>2
      <3>3. \A c : rec' = [rec EXCEPT ![e].status = "covered", ![e].by = c] => rec'[e].status = "covered"
        BY <1>1, <2>1 DEF Typed
      <3> QED  BY <2>6, <3>1, <3>2, <3>3 DEF ApproveWaste
    <2>7. CASE RejectWaste(e) \/ UndoPending(e) \/ UndoCheck(e)
      <3>1. counted' = counted /\ rec'[e].status \in {"rejected", "undone", "undoing"}
        BY <1>1, <2>1, <2>7 DEF RejectWaste, UndoPending, UndoCheck, Typed, Records
      <3> QED  BY <2>3, <3>1
    <2>8. CASE UndoCommit(e)
      <3>1. /\ counted' = counted \/ Move(e, -1)
            /\ rec'[e].status \in {"undone", "applied"}
        BY <1>1, <2>1, <2>8 DEF UndoCommit, Typed, Records
      <3>2. Move(e, -1) => counted'[e][i] = counted[e][i] - 1
        BY <1>1, <1>6, <2>1, MoveSays
      <3> QED  BY <2>3, <3>1, <3>2
    <2> QED
      BY <1>6, <2>4, <2>5, <2>6, <2>7, <2>8, <2>9 DEF WasteStep
  <1> QED  BY <1>4, <1>5, <1>6

\* What a clerk sees of the deliveries, when it is as many as were received, is what was received.
LEMMA SameIsAll ==
    ASSUME SeenFirst, NEW k \in Clerks, SameApplied(k)
    PROVE  view[k] = Received
  <1>1. IsFiniteSet(Received) /\ view[k] \subseteq Received
    BY StockAssumption, FS_Subset DEF Received, SeenFirst
  <1> QED  BY <1>1, FS_Subset DEF SameApplied

\* Receiving adds what was not in the stock.
LEMMA ReceiveFits ==
    ASSUME StockInv, NEW k \in Clerks, NEW d \in Deliveries, ReceiveItem(k, d)
    PROVE  StockFits'
  <1> SUFFICES ASSUME NEW e \in Events, NEW i \in Items
               PROVE  IF i \in Parts[e] THEN Fits(e, i)' ELSE Absent(e, i)'
    BY DEF StockFits
  <1>1. /\ Typed /\ UNCHANGED <<count, line>> /\ Move(d, 1) /\ d \in Events
        /\ \A f \in Events : f # d => rec'[f] = rec[f]
        /\ rec'[d].status = "applied" /\ rec'[d].missed = rec[d].missed
    BY ReceiveLeaves DEF StockInv, Events
  <1>2. counted'[e][i] = IF e = d /\ i \in Parts[e] THEN counted[e][i] + 1 ELSE counted[e][i]
    BY <1>1, MoveSays
  <1>3. rec[d].status = "none"
    BY SameIsAll DEF StockInv, ReceiveItem, Received, Begun
  <1>4. CASE e # d
    BY <1>1, <1>2, <1>4, FitsKept DEF Open
  <1>5. CASE i \notin Parts[e]
    BY <1>1, <1>2, <1>5 DEF StockInv, StockFits, Absent
  <1>6. CASE e = d /\ i \in Parts[e]
    <2> SUFFICES Fits(d, i)'
      BY <1>6
    <2>1. Fits(d, i) /\ counted'[d][i] = counted[d][i] + 1
      BY <1>2, <1>6 DEF StockInv, StockFits
    <2>2. \A c \in Counts : OpenLine(c, i)' <=> OpenLine(c, i)
      BY <1>1 DEF OpenLine, Open, HasLine
    <2> QED  BY <1>1, <1>3, <2>1, <2>2 DEF Fits
  <1> QED  BY <1>4, <1>5, <1>6

\* A capture reads what is on the shelf and what the stock says with nothing of it being written.
LEMMA CaptureFits ==
    ASSUME StockInv, NEW k \in Clerks, CaptureCommit(k)
    PROVE  StockFits'
  <1> SUFFICES ASSUME NEW e \in Events, NEW i \in Items
               PROVE  IF i \in Parts[e] THEN Fits(e, i)' ELSE Absent(e, i)'
    BY DEF StockFits
  <1> DEFINE q == capture[k]
  <1>1. Typed /\ UNCHANGED <<count, rec, counted>> /\ q \in Captures
    BY CaptureLeaves DEF StockInv, CaptureCommit
  <1>2. \A c \in Counts : line'[c][i] = line[c][i]
            \/ (Open(c) /\ ~Locked(i) /\ line'[c][i] = Reading(q, i))
    BY <1>1, CaptureLeaves
  <1>3. /\ Reading(q, i).before = q.before
        /\ Reading(q, i).diff[e] = (IF e \in q.shelf /\ i \in Parts[e] THEN 1 ELSE 0) - counted[e][i]
    BY <1>1, ReadingTyped
  <1>4. /\ q.shelf \subseteq q.before
        /\ e \in q.before => rec[e].status # "none"
    BY DEF StockInv, SeenFirst, Begun
  <1>5. counted[e][i] \in Int /\ \A c \in Counts : line[c][i].diff[e] \in Int
    BY <1>1 DEF Typed
  <1> HIDE DEF q
  <1>6. CASE i \notin Parts[e]
    <2>1. Absent(e, i)
      BY <1>6 DEF StockInv, StockFits
    <2> QED  BY <1>1, <1>2, <1>3, <1>5, <1>6, <2>1 DEF Absent
  <1>7. CASE i \in Parts[e]
    <2> SUFFICES ASSUME ~rec[e].missed PROVE Fits(e, i)'
      BY <1>1, <1>7 DEF Fits
    <2>1. Fits(e, i)
      BY <1>7 DEF StockInv, StockFits
    <2>2. ASSUME NEW c \in Counts, OpenLine(c, i)'
          PROVE  \/ OpenLine(c, i) /\ line'[c][i] = line[c][i]
                 \/ ~Locked(i) /\ line'[c][i] = Reading(q, i)
      BY <1>1, <1>2, <2>2 DEF OpenLine, Open, HasLine
    <2>3. ~Locked(i) => rec[e].status # "writing"
      BY <1>7 DEF Locked
    <2>4. ASSUME NEW c \in Counts, OpenLine(c, i)'
          PROVE  /\ counted[e][i] + line'[c][i].diff[e] <= 1
                 /\ rec[e].status \in {"none", "writing"} => line'[c][i].diff[e] = 0
                 /\ rec[e].status \in {"filing", "pending"} =>
                       line'[c][i].diff[e] \in {0, 1} /\ (line'[c][i].diff[e] = 1 => e \in line'[c][i].before)
      <3>1. CASE OpenLine(c, i) /\ line'[c][i] = line[c][i]
        BY <2>1, <3>1 DEF Fits
      <3>2. CASE ~Locked(i) /\ line'[c][i] = Reading(q, i)
        <4>1. rec[e].status \in {"none", "writing", "filing", "pending"} => counted[e][i] = 0
          BY <2>1 DEF Fits
        <4>2. /\ line'[c][i].before = q.before
              /\ line'[c][i].diff[e] = (IF e \in q.shelf THEN 1 ELSE 0) - counted[e][i]
          BY <1>3, <1>7, <3>2
        <4>3. rec[e].status # "writing" /\ (rec[e].status = "none" => e \notin q.shelf)
          BY <1>4, <2>3, <3>2
        <4> HIDE DEF OpenLine
        <4> QED  BY <1>4, <1>5, <4>1, <4>2, <4>3
      <3> QED  BY <2>2, <2>4, <3>1, <3>2
    <2> QED  BY <1>1, <2>1, <2>4 DEF Fits
  <1> QED  BY <1>6, <1>7

\* Closing adds to the stock the line of the one count that is open.
LEMMA CloseFits ==
    ASSUME StockInv, NEW c \in Counts, CloseCount(c)
    PROVE  StockFits'
  <1> SUFFICES ASSUME NEW e \in Events, NEW i \in Items
               PROVE  IF i \in Parts[e] THEN Fits(e, i)' ELSE Absent(e, i)'
    BY DEF StockFits
  <1>1. /\ Typed /\ line' = line /\ Open(c) /\ count' = [count EXCEPT ![c] = "closed"]
        /\ counted'[e][i] = counted[e][i] + line[c][i].diff[e]
        /\ rec'[e] = rec[e] \/ (Begun(e) /\ rec'[e].status = "covered")
              \/ (rec'[e].status = rec[e].status /\ rec'[e].missed)
        /\ Covers(c, e) => rec'[e].status = "covered"
        /\ Overlooks(c, e) => rec'[e].missed
        /\ rec[e].missed => rec'[e].missed
    BY CloseLeaves DEF StockInv, CloseCount
  <1>2. counted[e][i] \in Int /\ \A b \in Counts : line[b][i].diff[e] \in Int
    BY <1>1 DEF Typed
  <1>3. CASE i \notin Parts[e]
    <2>1. Absent(e, i)
      BY <1>3 DEF StockInv, StockFits
    <2> QED  BY <1>1, <1>2, <1>3, <2>1 DEF Absent
  <1>4. CASE i \in Parts[e]
    <2> SUFFICES ASSUME ~rec'[e].missed PROVE Fits(e, i)'
      BY <1>4 DEF Fits
    <2>1. Fits(e, i) /\ ~rec[e].missed
      BY <1>1, <1>4 DEF StockInv, StockFits
    <2>2. \A b \in Counts : ~OpenLine(b, i)'
      <3>1. \A b \in Counts : Open(b) => b = c
        BY <1>1, OneOpen DEF StockInv
      <3> QED  BY <1>1, <3>1 DEF OpenLine, Open, Typed
    <2>3. CASE ~HasLine(c, i)
      <3>1. NoLine.diff[e] = 0
        BY DEF NoLine
      <3>2. line[c][i] = NoLine
        BY <2>3 DEF StockInv, CountsInOrder
      <3>3. counted'[e][i] = counted[e][i]
        BY <1>1, <1>2, <3>1, <3>2
      <3> QED  BY <1>1, <2>1, <2>2, <3>3 DEF Fits, Begun
    <2>4. CASE HasLine(c, i)
      <3>1. OpenLine(c, i)
        BY <1>1, <2>4 DEF OpenLine
      <3>2. counted'[e][i] <= 1
        BY <1>1, <2>1, <3>1 DEF Fits
      <3>3. rec[e].status \in {"none", "writing"} => counted'[e][i] = 0
        BY <1>1, <1>2, <2>1, <3>1 DEF Fits
      <3>4. rec'[e].status \in {"filing", "pending"} => counted'[e][i] = 0
        <4> SUFFICES ASSUME rec'[e].status \in {"filing", "pending"} PROVE counted'[e][i] = 0
          OBVIOUS
        <4>1. rec[e].status \in {"filing", "pending"} /\ ~Covers(c, e) /\ ~Overlooks(c, e)
          BY <1>1
        <4>2. e \notin line[c][i].before
          BY <1>4, <2>4, <4>1 DEF Covers, Overlooks, Saw
        <4> QED  BY <1>1, <1>2, <2>1, <3>1, <4>1, <4>2 DEF Fits
      <3>5. rec'[e].status \in {"none", "writing"} => rec[e].status = rec'[e].status
        BY <1>1
      <3> QED  BY <2>2, <3>2, <3>3, <3>4, <3>5 DEF Fits
    <2> QED  BY <2>3, <2>4
  <1> QED  BY <1>3, <1>4

\* What the stock says still fits after every step.
LEMMA FitsStep == StockInv /\ [Next]_vars => StockFits'
  <1> SUFFICES ASSUME StockInv, [Next]_vars PROVE StockFits'
    OBVIOUS
  <1>1. ASSUME UNCHANGED <<rec, counted>>,
               \A c \in Counts, i \in Items :
                  line'[c][i] = line[c][i] /\ (Open(c)' => Open(c) \/ ~HasLine(c, i))
        PROVE  StockFits'
    BY <1>1, FitsKept DEF StockFits
  <1>2. ASSUME NEW c \in Counts, OpenCount(c) \/ DiscardCount(c) PROVE StockFits'
    <2>1. /\ UNCHANGED <<rec, counted, line>>
          /\ \A b \in Counts : Open(b)' => Open(b) \/ count[b] = "none"
      BY <1>2 DEF OpenCount, DiscardCount, StockInv, Typed, Open
    <2>2. \A b \in Counts, i \in Items : count[b] = "none" => ~HasLine(b, i)
      BY DEF StockInv, CountsInOrder
    <2> QED  BY <1>1, <2>1, <2>2
  <1>3. ASSUME NEW c \in Counts, NEW j \in Items, UncaptureCount(c, j) PROVE StockFits'
    <2> SUFFICES ASSUME NEW e \in Events, NEW i \in Items
                 PROVE  IF i \in Parts[e] THEN Fits(e, i)' ELSE Absent(e, i)'
      BY DEF StockFits
    <2>1. /\ UNCHANGED <<rec, counted, count>>
          /\ \A b \in Counts : line'[b][i] = line[b][i] \/ line'[b][i] = NoLine
      BY <1>3 DEF UncaptureCount, StockInv, Typed
    <2>2. NoLine.at = FALSE /\ NoLine.diff[e] = 0
      BY DEF NoLine
    <2> HIDE DEF NoLine
    <2>3. \A b \in Counts : OpenLine(b, i)' => OpenLine(b, i) /\ line'[b][i] = line[b][i]
      BY <2>1, <2>2 DEF OpenLine, Open, HasLine
    <2>4. i \in Parts[e] => Fits(e, i)'
      BY <2>1, <2>3 DEF StockInv, StockFits, Fits
    <2>5. i \notin Parts[e] => Absent(e, i)'
      BY <2>1, <2>2 DEF StockInv, StockFits, Absent
    <2> QED  BY <2>4, <2>5
  <1>4. ASSUME UNCHANGED <<rec, counted, line, count>> PROVE StockFits'
    BY <1>1, <1>4 DEF Open
  <1> QED
    BY <1>2, <1>3, <1>4, WasteFits, ReceiveFits, CaptureFits, CloseFits
    DEF Next, CountStep, CaptureBegin, Look, vars

\* The stock's invariant holds always.
LEMMA StockHolds == Spec => []StockInv
  <1>1. StockInv /\ [Next]_vars => StockInv'
    BY StockTyped, OrderStep, SeenStep, FitsStep DEF StockInv
  <1> QED  BY <1>1, StockInitially, PTL DEF Spec

\* One count is open at most.
LEMMA FewOpen == CountsInOrder => Cardinality({c \in Counts : Open(c)}) <= 1
  <1> SUFFICES ASSUME CountsInOrder PROVE Cardinality({c \in Counts : Open(c)}) <= 1
    OBVIOUS
  <1> DEFINE O == {c \in Counts : Open(c)}
  <1>1. CASE O = {}
    BY <1>1, FS_EmptySet
  <1>2. CASE O # {}
    <2>1. PICK c \in O : TRUE
      BY <1>2
    <2>2. O = {c}
      BY OneOpen
    <2> HIDE DEF O
    <2>3. Cardinality(O) = 1
      BY <2>2, FS_Singleton
    <2> QED  BY <2>3 DEF O
  <1> QED  BY <1>1, <1>2

\* The types of the stock; one count is open at most (stock_counts_one_open), and the lines that
\* captures wrote belong to counts that were opened.
THEOREM StockIsTyped == Spec => []TypeOK
  <1>1. StockInv => TypeOK
    BY FewOpen DEF StockInv, Typed, Records, CountsInOrder, TypeOK
  <1> QED  BY <1>1, StockHolds, PTL

\* Nothing is taken from the stock twice, by its own movement and by the ajuste of a count that saw
\* it gone, and what arrives is received once; left out is a waste whose record was committed after
\* that count closed.
THEOREM OnceCounted == Spec => []CountedOnce
  <1>1. StockInv => CountedOnce
    BY DEF StockInv, StockFits, Fits, Absent, CountedOnce
  <1> QED  BY <1>1, StockHolds, PTL
=============================================================================
