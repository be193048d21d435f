----------------------------- MODULE DraftProofs -------------------------------
(***************************************************************************)
(* Theorems about Drafts, for every value of its constants.  A state is    *)
(* seen as the accounts, which a step edits, ends, opens or sends one at a *)
(* time, and what each tablet holds of them, one record at a time: what is *)
(* said of a record (TabFits) is kept by the steps of the others.          *)
(***************************************************************************)
EXTENDS Drafts, FiniteSetTheorems, TLAPS

Versions == 0 .. MaxVersion

LineRows == [id : Touches, of : SUBSET Touches, version : Nat]

DraftRows ==
    [status : {"none", "live", "sent", "discarded"}, order : Accounts \cup {NoDraft},
     version : Versions, header : Versions]

OrderRows == [status : {"none", "open", "voided"}, header : Versions]

Creating == {"create", "locked", "looked"}

Sending == {"sending", "prepared", "sendlocked"}

Locking == {"locked", "looked", "sendlocked"}

Seeing == {"view", "prepared", "sendlocked"}

Reading == {"viewing", "view"} \cup Sending

TabRows ==
    [at : {"rest"} \cup Creating \cup Reading, draft : Ids \cup {NoDraft}, order : Accounts \cup {NoDraft},
     touch : Touches \cup {NoTouch}, found : Ids \cup {NoDraft}, version : Versions, header : Versions,
     lines : SUBSET LineRows, holds : SUBSET Accounts]

\* The types.
Typed ==
    /\ draft \in [Ids -> DraftRows]
    /\ lines \in [Ids -> SUBSET LineRows]
    /\ adds \in [Touches -> Ids \cup {NoDraft}]
    /\ order \in [Accounts -> OrderRows]
    /\ batches \subseteq News
    /\ cooked \in [Touches -> {0, 1}]

TabsTyped == idle \subseteq Ids /\ tab \in [Tablets -> TabRows]

\* Only a «Nuevo» is about an order.  An account that was not sent is no order and no batch yet.  Its header changes with its version.
AccountFits(d) ==
    /\ draft[d].header <= draft[d].version
    /\ Live(d) => (d \in News <=> draft[d].order # NoDraft)
    /\ draft[d].status # "sent" => (d \in Accounts => order[d].status = "none") /\ d \notin batches
    /\ draft[d].status \in {"none", "sent"} => lines[d] = {}

\* The lines of an account, each known by the touch that opened it, share no touch, and only one is
\* of the product that joins; their touches are those the account took.
LinesFit(d) ==
    /\ \A l \in lines[d] : l.of # {} /\ adds[l.id] = d /\ \A x \in l.of : adds[x] = d
    /\ \A k, l \in lines[d] : k.id = l.id \/ (k.id \in Plain /\ l.id \in Plain) \/ k.of \cap l.of # {} => k = l

\* One live «Nuevo» an order.
OneNew ==
    \A d, e \in Ids : Live(d) /\ Live(e) /\ draft[d].order = draft[e].order /\ draft[d].order # NoDraft => d = e

\* What went to the kitchen was of an account that was sent, and what an account took is of one that
\* was opened.
CookedFits ==
    \A x \in Touches :
        /\ adds[x] # NoDraft => draft[adds[x]].status # "none"
        /\ cooked[x] = 1 => adds[x] # NoDraft /\ draft[adds[x]].status = "sent"

\* What a tablet does fits its locks.
TabShape(r) ==
    /\ r.holds = IF r.at \in Locking THEN {r.order} ELSE {}
    /\ r.at \in Locking => r.order # NoDraft
    /\ r.at \in Creating => r.draft \in Ids /\ r.touch \in Touches
    /\ r.at \in Creating \cup Sending => (r.draft \in News <=> r.order # NoDraft)
    /\ r.at \in Reading => r.draft \in Ids
    /\ \A l \in r.lines : l.of # {}

\* What a tablet read of an account is what the account was: with the version unchanged, what it is.
ReadFits(r) ==
    r.at \in Reading =>
        /\ draft[r.draft].status # "none" /\ r.version <= draft[r.draft].version
        /\ Live(r.draft) /\ r.version = draft[r.draft].version =>
              r.header = draft[r.draft].header /\ (r.at \in Seeing => r.lines = lines[r.draft])

\* A line a tablet sees is the one there is, or one that changed since, or none.
ViewFits(r) ==
    r.at = "view" => \A l \in r.lines :
        /\ adds[l.id] = r.draft
        /\ \A k \in lines[r.draft] : k.id = l.id => l.version <= k.version /\ (l.version = k.version => k = l)

\* The order locked, what was found is the one there may be.
LookFits(r) == r.at = "looked" => LiveOf(r.order) \subseteq {r.found} /\ (r.found # NoDraft => r.found \in News)

TabFits(r) == TabShape(r) /\ ReadFits(r) /\ ViewFits(r) /\ LookFits(r)

Locks == \A t, u \in Tablets : t # u => tab[t].holds \cap tab[u].holds = {}

AccountsFit == (\A d \in Ids : AccountFits(d) /\ LinesFit(d)) /\ OneNew /\ CookedFits

TabsFit == (\A t \in Tablets : TabFits(tab[t])) /\ Locks

DraftInv == Typed /\ TabsTyped /\ AccountsFit /\ TabsFit
-----------------------------------------------------------------------------
\* A tablet at rest fits.
LEMMA RestFits ==
    AtRest \in TabRows /\ AtRest.at = "rest" /\ AtRest.holds = {} /\ TabFits(AtRest) /\ TabFits(AtRest)'
  <1>1. AtRest \in TabRows /\ AtRest.at = "rest" /\ AtRest.holds = {} /\ AtRest.lines = {}
    BY DraftsAssumption DEF AtRest, TabRows, Versions
  <1> QED
    BY <1>1
    DEF TabFits, TabShape, ReadFits, ViewFits, LookFits, Locking, Creating, Reading, Sending, Seeing

\* It holds at first.
LEMMA DraftInitially == Init => DraftInv
  <1> SUFFICES ASSUME Init PROVE DraftInv
    OBVIOUS
  <1>1. PICK placed \in SUBSET Accounts : InitWith(placed)
    BY DEF Init
  <1>2. /\ draft \in [Ids -> DraftRows] /\ order \in [Accounts -> OrderRows]
        /\ \A d \in Ids : /\ draft[d].status \in {"none", "sent"} /\ draft[d].header = 0
                          /\ draft[d].version \in Nat
                          /\ draft[d].status # "sent" => (d \in Accounts => order[d].status = "none")
    BY <1>1, DraftsAssumption DEF InitWith, DraftRows, OrderRows, Versions, Ids
  <1>3. Typed
    BY <1>2 DEF Init, Typed
  <1>4. AccountsFit
    BY <1>2 DEF Init, AccountsFit, AccountFits, LinesFit, OneNew, CookedFits, Live
  <1>5. TabsFit
    BY RestFits DEF Init, TabsFit, Locks
  <1> QED  BY <1>3, <1>4, <1>5, RestFits DEF DraftInv, Init, TabsTyped
-----------------------------------------------------------------------------
(***************************************************************************)
(* What a step does to the accounts.                                       *)
(***************************************************************************)
\* A live account is edited, and its version says so.
Edited(d) ==
    /\ Live(d) /\ draft[d].version < MaxVersion
    /\ \E h \in {draft[d].header, draft[d].header + 1} :
          draft' = [draft EXCEPT ![d].version = @ + 1, ![d].header = h]
    /\ \A e \in Ids : e # d => lines'[e] = lines[e]
    /\ UNCHANGED <<order, batches, cooked>>

\* A touch no account took joins a line of the account or opens another.
TouchAdded(d, x) ==
    /\ adds[x] = NoDraft
    /\ adds' = [adds EXCEPT ![x] = d]
    /\ \E targets \in SUBSET lines[d] :
          /\ lines' = [lines EXCEPT ![d] = WithTouch(@, x, targets)]
          /\ \A k, l \in targets : k = l
          /\ targets = {} => x \notin Plain \/ \A l \in lines[d] : l.id \notin Plain

\* A line goes with all its touches, or keeps some.
LineGoes(d, l) == lines' = [lines EXCEPT ![d] = @ \ {l}]

LineKeeps(d, l, keep) ==
    keep # {} /\ lines' = [lines EXCEPT ![d] = (@ \ {l}) \cup {[l EXCEPT !.of = keep, !.version = @ + 1]}]

LineCut(d, l) ==
    /\ l \in lines[d] /\ UNCHANGED adds
    /\ LineGoes(d, l) \/ \E keep \in SUBSET l.of : LineKeeps(d, l, keep)

AccountEdited(d) ==
    /\ Edited(d)
    /\ \/ \E x \in Touches : TouchAdded(d, x)
       \/ \E l \in lines[d] : LineCut(d, l)
       \/ UNCHANGED <<lines, adds>>

\* Live accounts are discarded.
Ended(some) ==
    /\ \A d \in some : Live(d)
    /\ draft' = [d \in Ids |-> IF d \in some THEN [draft[d] EXCEPT !.status = "discarded"] ELSE draft[d]]
    /\ UNCHANGED <<lines, adds, order, batches, cooked>>

\* An account is opened with its first touch.
Opened(d, x, o) ==
    /\ draft[d].status = "none" /\ adds[x] = NoDraft
    /\ d \in News <=> o # NoDraft
    /\ InsertDraft(d, x, o)
    /\ UNCHANGED <<order, batches, cooked>>

\* The account a tablet read, unchanged since, is sent with its lines.
SentBy(t) ==
    /\ AsRead(t)
    /\ tab[t].at \in {"prepared", "sendlocked"}
    /\ IF tab[t].order = NoDraft THEN SendAccount(t) ELSE SendNew(t)
    /\ UNCHANGED adds

\* Nothing about the accounts, but orders may be voided.
Idled ==
    /\ UNCHANGED <<draft, lines, adds, batches, cooked>>
    /\ order' = order \/ \E o \in Accounts : order[o].status = "open" /\ order' = [order EXCEPT ![o].status = "voided"]
-----------------------------------------------------------------------------
(***************************************************************************)
(* An account edited.                                                      *)
(***************************************************************************)
\* The row of the account edited, and the others.
LEMMA EditedSays ==
    ASSUME Typed, NEW d \in Ids, AccountFits(d), Edited(d)
    PROVE  /\ draft' \in [Ids -> DraftRows]
           /\ \A e \in Ids : e # d => draft'[e] = draft[e] /\ lines'[e] = lines[e]
           /\ draft'[d].status = "live" /\ draft'[d].order = draft[d].order
           /\ draft'[d].version = draft[d].version + 1
           /\ draft'[d].header <= draft[d].header + 1
           /\ UNCHANGED <<order, batches, cooked>>
  <1>1. PICK h \in {draft[d].header, draft[d].header + 1} :
           draft' = [draft EXCEPT ![d].version = @ + 1, ![d].header = h]
    BY DEF Edited
  <1> DEFINE x == [draft[d] EXCEPT !.version = @ + 1, !.header = h]
  <1>2. draft[d] \in DraftRows /\ draft[d].status = "live" /\ draft[d].version < MaxVersion
    BY DEF Typed, Edited, Live
  <1>3. x.status = "live" /\ x.order = draft[d].order /\ x.version = draft[d].version + 1 /\ x.header = h
    BY <1>2 DEF DraftRows
  <1>4. x \in DraftRows
    <2>1. h \in Versions /\ draft[d].version + 1 \in Versions
      BY <1>2, DraftsAssumption DEF AccountFits, DraftRows, Versions
    <2> QED  BY <1>2, <2>1 DEF DraftRows
  <1>5. draft' = [draft EXCEPT ![d] = x]
    BY <1>1, <1>2 DEF Typed, DraftRows
  <1> HIDE DEF x
  <1>6. \A e \in Ids : draft'[e] = IF e = d THEN x ELSE draft[e]
    BY <1>5 DEF Typed
  <1>7. draft' \in [Ids -> DraftRows]
    BY <1>4, <1>5 DEF Typed
  <1>8. draft[d].header \in Nat
    BY <1>2 DEF DraftRows, Versions
  <1> QED  BY <1>1, <1>2, <1>3, <1>6, <1>7, <1>8 DEF Edited

\* The accounts that touches are of: what an account took stays, and it takes what none did.
AddsGrow(d) == \A x \in Touches : adds'[x] = adds[x] \/ (adds[x] = NoDraft /\ adds'[x] = d)

\* A line of the account is as it was, or has a new version, or is of a touch no account had taken.
LinesMove(d) ==
    \A k \in lines'[d] :
       \/ k \in lines[d]
       \/ adds[k.id] = NoDraft
       \/ \E l \in lines[d] : l.id = k.id /\ k.version = l.version + 1

\* The next version of a line.
LEMMA NextVersion ==
    ASSUME NEW l \in LineRows, NEW of \in SUBSET Touches
    PROVE  /\ [l EXCEPT !.of = of, !.version = @ + 1] \in LineRows
           /\ [l EXCEPT !.of = of, !.version = @ + 1].id = l.id
           /\ [l EXCEPT !.of = of, !.version = @ + 1].version = l.version + 1
           /\ [l EXCEPT !.of = of, !.version = @ + 1].of = of
  <1> DEFINE u == [l EXCEPT !.of = of, !.version = @ + 1]
  <1>1. l.version + 1 \in Nat /\ l.id \in Touches
    BY DEF LineRows
  <1>2. u.id = l.id /\ u.version = l.version + 1 /\ u.of = of
    BY DEF LineRows
  <1> DEFINE v == l.version + 1
  <1> HIDE DEF v
  <1>3. \A n \in Nat : [l EXCEPT !.of = of, !.version = n] \in LineRows
    BY DEF LineRows
  <1>4. u \in LineRows
    BY <1>1, <1>3
  <1> HIDE DEF u
  <1> QED  BY <1>2, <1>4 DEF u

\* A line is replaced by its next version, with touches of its own and others no account had taken.
LEMMA LineReplaced ==
    ASSUME Typed, NEW d \in Ids, LinesFit(d), AddsGrow(d),
           NEW l \in lines[d], NEW u \in LineRows, u.id = l.id, u.version = l.version + 1, u.of # {},
           \A x \in u.of : adds'[x] = d /\ (x \in l.of \/ adds[x] = NoDraft),
           lines' = [lines EXCEPT ![d] = (@ \ {l}) \cup {u}]
    PROVE  lines'[d] \subseteq LineRows /\ LinesFit(d)' /\ LinesMove(d)
  <1>1. lines'[d] = (lines[d] \ {l}) \cup {u} /\ lines[d] \subseteq LineRows
    BY DEF Typed
  <1>2. \A k \in lines[d] : k.of # {} /\ adds[k.id] = d /\ k.id \in Touches /\ \A x \in k.of : adds[x] = d /\ x \in Touches
    BY <1>1 DEF LinesFit, LineRows
  <1>3. d # NoDraft /\ u.id \in Touches /\ \A x \in u.of : x \in Touches
    BY DraftsAssumption DEF Ids, LineRows
  <1>4. \A k \in lines'[d] : k.of # {} /\ adds'[k.id] = d /\ \A x \in k.of : adds'[x] = d
    BY <1>1, <1>2, <1>3 DEF AddsGrow
  <1>5. ASSUME NEW k \in lines[d], k # l
        PROVE  k.id # u.id /\ ~(k.id \in Plain /\ u.id \in Plain) /\ k.of \cap u.of = {}
    BY <1>2, <1>3, <1>5 DEF LinesFit
  <1>6. \A j, k \in lines'[d] : j.id = k.id \/ (j.id \in Plain /\ k.id \in Plain) \/ j.of \cap k.of # {} => j = k
    <2> SUFFICES ASSUME NEW j \in lines'[d], NEW k \in lines'[d],
                        j.id = k.id \/ (j.id \in Plain /\ k.id \in Plain) \/ j.of \cap k.of # {}
                 PROVE  j = k
      OBVIOUS
    <2>1. CASE j \in lines[d] /\ k \in lines[d]
      BY <2>1 DEF LinesFit
    <2>2. CASE j = u \/ k = u
      BY <1>1, <1>5, <2>2
    <2> QED  BY <1>1, <2>1, <2>2
  <1>7. LinesMove(d)
    BY <1>1 DEF LinesMove
  <1> QED  BY <1>1, <1>4, <1>6, <1>7 DEF LinesFit

\* A line is opened by a touch no account had taken.
LEMMA LineOpened ==
    ASSUME Typed, NEW d \in Ids, LinesFit(d), NEW x \in Touches, adds[x] = NoDraft,
           adds' = [adds EXCEPT ![x] = d],
           x \notin Plain \/ \A l \in lines[d] : l.id \notin Plain,
           lines' = [lines EXCEPT ![d] = @ \cup {[id |-> x, of |-> {x}, version |-> 1]}]
    PROVE  lines'[d] \subseteq LineRows /\ LinesFit(d)' /\ LinesMove(d)
  <1> DEFINE n == [id |-> x, of |-> {x}, version |-> 1]
  <1>1. n \in LineRows /\ n.id = x /\ n.of = {x}
    BY DEF LineRows
  <1>2. lines'[d] = lines[d] \cup {n} /\ lines[d] \subseteq LineRows
    BY DEF Typed
  <1>3. d # NoDraft /\ adds'[x] = d /\ \A y \in Touches : y # x => adds'[y] = adds[y]
    BY DraftsAssumption DEF Ids, Typed
  <1> HIDE DEF n
  <1>4. \A k \in lines[d] : k.of # {} /\ adds[k.id] = d /\ k.id \in Touches /\ \A y \in k.of : adds[y] = d /\ y \in Touches
    BY <1>2 DEF LinesFit, LineRows
  <1>5. \A k \in lines'[d] : k.of # {} /\ adds'[k.id] = d /\ \A y \in k.of : adds'[y] = d
    BY <1>1, <1>2, <1>3, <1>4
  <1>6. ASSUME NEW k \in lines[d]
        PROVE  k.id # n.id /\ ~(k.id \in Plain /\ n.id \in Plain) /\ k.of \cap n.of = {}
    BY <1>1, <1>3, <1>4
  <1>7. \A j, k \in lines'[d] : j.id = k.id \/ (j.id \in Plain /\ k.id \in Plain) \/ j.of \cap k.of # {} => j = k
    <2> SUFFICES ASSUME NEW j \in lines'[d], NEW k \in lines'[d],
                        j.id = k.id \/ (j.id \in Plain /\ k.id \in Plain) \/ j.of \cap k.of # {}
                 PROVE  j = k
      OBVIOUS
    <2>1. CASE j \in lines[d] /\ k \in lines[d]
      BY <2>1 DEF LinesFit
    <2>2. CASE j = n \/ k = n
      BY <1>2, <1>6, <2>2
    <2> QED  BY <1>2, <2>1, <2>2
  <1>8. LinesMove(d)
    BY <1>1, <1>2 DEF LinesMove
  <1> QED  BY <1>1, <1>2, <1>5, <1>7, <1>8 DEF LinesFit

\* The lines of an account edited.
LEMMA EditLines ==
    ASSUME Typed, NEW d \in Ids, LinesFit(d), AccountEdited(d)
    PROVE  /\ lines' \in [Ids -> SUBSET LineRows] /\ adds' \in [Touches -> Ids \cup {NoDraft}]
           /\ LinesFit(d)' /\ LinesMove(d) /\ AddsGrow(d)
  <1>1. ASSUME NEW x \in Touches, TouchAdded(d, x)
        PROVE  /\ lines' \in [Ids -> SUBSET LineRows] /\ adds' \in [Touches -> Ids \cup {NoDraft}]
               /\ LinesFit(d)' /\ LinesMove(d) /\ AddsGrow(d)
    <2>1. PICK targets \in SUBSET lines[d] :
             /\ lines' = [lines EXCEPT ![d] = WithTouch(@, x, targets)]
             /\ \A k, l \in targets : k = l
             /\ targets = {} => x \notin Plain \/ \A l \in lines[d] : l.id \notin Plain
      BY <1>1 DEF TouchAdded
    <2>2. adds[x] = NoDraft /\ adds' = [adds EXCEPT ![x] = d]
      BY <1>1 DEF TouchAdded
    <2>3. adds' \in [Touches -> Ids \cup {NoDraft}] /\ AddsGrow(d) /\ adds'[x] = d
      BY <2>2 DEF Typed, AddsGrow
    <2>4. lines'[d] \subseteq LineRows /\ LinesFit(d)' /\ LinesMove(d)
      <3>1. CASE targets = {}
        <4>1. lines' = [lines EXCEPT ![d] = @ \cup {[id |-> x, of |-> {x}, version |-> 1]}]
          BY <2>1, <3>1 DEF WithTouch
        <4> QED  BY <2>1, <2>2, <3>1, <4>1, LineOpened
      <3>2. CASE targets # {}
        <4>1. PICK l \in targets : targets = {l}
          BY <2>1, <3>2
        <4> DEFINE u == [l EXCEPT !.of = @ \cup {x}, !.version = @ + 1]
        <4>2. l \in lines[d] /\ l \in LineRows
          BY <4>1 DEF Typed
        <4>3. u \in LineRows /\ u.id = l.id /\ u.version = l.version + 1 /\ u.of = l.of \cup {x}
          <5>1. l.of \cup {x} \in SUBSET Touches
            BY <4>2 DEF LineRows
          <5> QED  BY <4>2, <5>1, NextVersion
        <4>4. lines' = [lines EXCEPT ![d] = (@ \ {l}) \cup {u}]
          BY <2>1, <4>1 DEF WithTouch
        <4>5. \A y \in u.of : adds'[y] = d /\ (y \in l.of \/ adds[y] = NoDraft)
          <5>1. \A y \in l.of : adds[y] = d /\ y \in Touches
            BY <4>2 DEF LinesFit, LineRows
          <5>2. d # NoDraft
            BY DraftsAssumption DEF Ids
          <5> HIDE DEF u
          <5> QED  BY <2>2, <2>3, <4>3, <5>1, <5>2 DEF AddsGrow
        <4> HIDE DEF u
        <4> QED  BY <2>3, <4>2, <4>3, <4>4, <4>5, LineReplaced
      <3> QED  BY <3>1, <3>2
    <2>5. lines' \in [Ids -> SUBSET LineRows]
      BY <2>1, <2>4 DEF Typed
    <2> QED  BY <2>3, <2>4, <2>5
  <1>2. ASSUME NEW l \in lines[d], LineCut(d, l)
        PROVE  /\ lines' \in [Ids -> SUBSET LineRows] /\ adds' \in [Touches -> Ids \cup {NoDraft}]
               /\ LinesFit(d)' /\ LinesMove(d) /\ AddsGrow(d)
    <2>1. adds' = adds /\ AddsGrow(d) /\ l \in LineRows
      BY <1>2 DEF LineCut, AddsGrow, Typed
    <2>2. CASE LineGoes(d, l)
      <3>1. lines'[d] = lines[d] \ {l} /\ lines' \in [Ids -> SUBSET LineRows]
        BY <2>2 DEF LineGoes, Typed
      <3> QED  BY <2>1, <3>1 DEF LinesFit, LinesMove, Typed
    <2>3. ASSUME NEW keep \in SUBSET l.of, LineKeeps(d, l, keep)
          PROVE  /\ lines' \in [Ids -> SUBSET LineRows] /\ adds' \in [Touches -> Ids \cup {NoDraft}]
                 /\ LinesFit(d)' /\ LinesMove(d) /\ AddsGrow(d)
      <3> DEFINE u == [l EXCEPT !.of = keep, !.version = @ + 1]
      <3>1. u \in LineRows /\ u.id = l.id /\ u.version = l.version + 1 /\ u.of = keep
        <4>1. keep \in SUBSET Touches
          BY <2>1 DEF LineRows
        <4> QED  BY <2>1, <4>1, NextVersion
      <3>2. lines' = [lines EXCEPT ![d] = (@ \ {l}) \cup {u}] /\ keep # {}
        BY <2>3 DEF LineKeeps
      <3> HIDE DEF u
      <3>3. \A x \in u.of : adds'[x] = d /\ (x \in l.of \/ adds[x] = NoDraft)
        BY <2>1, <3>1 DEF LinesFit
      <3>4. lines'[d] \subseteq LineRows /\ LinesFit(d)' /\ LinesMove(d)
        BY <2>1, <2>3, <3>1, <3>2, <3>3, LineReplaced
      <3>5. lines' \in [Ids -> SUBSET LineRows]
        BY <3>2, <3>4 DEF Typed
      <3> QED  BY <2>1, <3>4, <3>5 DEF Typed
    <2> QED  BY <1>2, <2>2, <2>3 DEF LineCut
  <1>3. CASE UNCHANGED <<lines, adds>>
    BY <1>3 DEF Typed, LinesFit, LinesMove, AddsGrow
  <1> QED  BY <1>1, <1>2, <1>3 DEF AccountEdited

\* Editing an account keeps the accounts.
LEMMA EditKeepsAccounts ==
    ASSUME Typed, AccountsFit, NEW d \in Ids, AccountEdited(d)
    PROVE  Typed' /\ AccountsFit'
  <1>1. /\ draft' \in [Ids -> DraftRows]
        /\ \A e \in Ids : e # d => draft'[e] = draft[e] /\ lines'[e] = lines[e]
        /\ draft'[d].status = "live" /\ draft'[d].order = draft[d].order
        /\ draft'[d].version = draft[d].version + 1
        /\ draft'[d].header <= draft[d].header + 1
        /\ UNCHANGED <<order, batches, cooked>>
    BY EditedSays DEF AccountsFit, AccountEdited
  <1>2. /\ lines' \in [Ids -> SUBSET LineRows] /\ adds' \in [Touches -> Ids \cup {NoDraft}]
        /\ LinesFit(d)' /\ AddsGrow(d)
    BY EditLines DEF AccountsFit
  <1>3. Typed'
    BY <1>1, <1>2 DEF Typed
  <1>4. draft[d].status = "live"
    BY DEF AccountEdited, Edited, Live
  <1>5. ASSUME NEW e \in Ids PROVE LinesFit(e)'
    <2>1. CASE e # d
      <3>1. lines'[e] = lines[e] /\ lines[e] \subseteq LineRows /\ LinesFit(e) /\ e # NoDraft
        BY <1>1, <2>1, DraftsAssumption DEF Typed, AccountsFit, Ids
      <3>2. \A x \in Touches : adds[x] = e => adds'[x] = e
        BY <1>2, <3>1 DEF AddsGrow
      <3>3. \A l \in lines[e] : l.id \in Touches /\ \A x \in l.of : x \in Touches
        BY <3>1 DEF LineRows
      <3> QED  BY <3>1, <3>2, <3>3 DEF LinesFit
    <2> QED  BY <1>2, <2>1
  <1>6. ASSUME NEW e \in Ids PROVE AccountFits(e)'
    <2>1. CASE e = d
      <3>1. draft[d].header \in Nat /\ draft[d].version \in Nat /\ draft'[d].header \in Nat
        BY <1>1 DEF Typed, DraftRows, Versions
      <3> QED  BY <1>1, <1>4, <2>1, <3>1 DEF AccountsFit, AccountFits, Live
    <2>2. CASE e # d
      BY <1>1, <2>2 DEF AccountsFit, AccountFits, Live
    <2> QED  BY <2>1, <2>2
  <1>7. OneNew'
    <2>1. \A e \in Ids : (Live(e)' <=> Live(e)) /\ draft'[e].order = draft[e].order
      BY <1>1, <1>4 DEF Live
    <2> QED  BY <2>1 DEF AccountsFit, OneNew
  <1>8. CookedFits'
    <2> SUFFICES ASSUME NEW x \in Touches
                 PROVE  /\ adds'[x] # NoDraft => draft'[adds'[x]].status # "none"
                        /\ cooked[x] = 1 => adds'[x] # NoDraft /\ draft'[adds'[x]].status = "sent"
      BY <1>1 DEF CookedFits
    <2>1. CASE adds'[x] = adds[x]
      <3>1. adds[x] \in Ids \cup {NoDraft}
        BY DEF Typed
      <3> QED  BY <1>1, <1>4, <2>1, <3>1 DEF AccountsFit, CookedFits
    <2>2. CASE adds[x] = NoDraft /\ adds'[x] = d
      BY <1>1, <2>2 DEF AccountsFit, CookedFits
    <2> QED  BY <1>2, <2>1, <2>2 DEF AddsGrow
  <1> QED  BY <1>3, <1>5, <1>6, <1>7, <1>8 DEF AccountsFit

\* What another tablet read of an account that is edited is of another version.
LEMMA EditKeepsTabs ==
    ASSUME Typed, AccountsFit, NEW d \in Ids, AccountEdited(d), NEW r \in TabRows, TabFits(r)
    PROVE  TabFits(r)'
  <1>1. /\ \A e \in Ids : e # d => draft'[e] = draft[e] /\ lines'[e] = lines[e]
        /\ draft'[d].status = "live" /\ draft'[d].order = draft[d].order
        /\ draft'[d].version = draft[d].version + 1
    BY EditedSays DEF AccountsFit, AccountEdited
  <1>2. /\ lines' \in [Ids -> SUBSET LineRows] /\ LinesMove(d) /\ AddsGrow(d)
    BY EditLines DEF AccountsFit
  <1>3. draft[d].status = "live" /\ draft[d].version \in Nat /\ r.version \in Nat
    BY DEF AccountEdited, Edited, Live, Typed, DraftRows, TabRows, Versions
  <1>4. TabShape(r)'
    BY DEF TabFits, TabShape
  <1>5. ReadFits(r)'
    <2> SUFFICES ASSUME r.at \in Reading PROVE ReadFits(r)'
      BY DEF ReadFits
    <2>1. r.draft \in Ids
      BY DEF TabFits, TabShape
    <2>2. CASE r.draft = d
      BY <1>1, <1>3, <2>2 DEF TabFits, ReadFits
    <2>3. CASE r.draft # d
      BY <1>1, <2>1, <2>3 DEF TabFits, ReadFits, Live
    <2> QED  BY <2>2, <2>3
  <1>6. ViewFits(r)'
    <2> SUFFICES ASSUME r.at = "view", NEW l \in r.lines
                 PROVE  /\ adds'[l.id] = r.draft
                        /\ \A k \in lines'[r.draft] :
                              k.id = l.id => l.version <= k.version /\ (l.version = k.version => k = l)
      BY DEF ViewFits
    <2>1. r.draft \in Ids /\ r.draft # NoDraft /\ l \in LineRows
      BY DraftsAssumption DEF TabFits, TabShape, Reading, TabRows, Ids
    <2>2. /\ adds[l.id] = r.draft /\ l.id \in Touches /\ l.version \in Nat
          /\ \A k \in lines[r.draft] : k.id = l.id => l.version <= k.version /\ (l.version = k.version => k = l)
      BY <2>1 DEF TabFits, ViewFits, LineRows
    <2>3. adds'[l.id] = r.draft
      BY <1>2, <2>1, <2>2 DEF AddsGrow
    <2>4. ASSUME NEW k \in lines'[r.draft], k.id = l.id
          PROVE  l.version <= k.version /\ (l.version = k.version => k = l)
      <3>1. CASE r.draft # d
        BY <1>1, <2>1, <2>2, <2>4, <3>1
      <3>2. CASE r.draft = d
        <4>1. CASE k \in lines[d]
          BY <2>2, <2>4, <3>2, <4>1
        <4>2. CASE adds[k.id] = NoDraft
          BY <2>1, <2>2, <2>4, <4>2
        <4>3. ASSUME NEW j \in lines[d], j.id = k.id, k.version = j.version + 1
              PROVE  l.version <= k.version /\ (l.version = k.version => k = l)
          <5>1. l.version <= j.version /\ j.version \in Nat
            BY <2>2, <2>4, <3>2, <4>3 DEF Typed, LineRows
          <5> QED  BY <2>2, <4>3, <5>1
        <4> QED  BY <1>2, <2>4, <3>2, <4>1, <4>2, <4>3 DEF LinesMove
      <3> QED  BY <3>1, <3>2
    <2> QED  BY <2>3, <2>4
  <1>7. LookFits(r)'
    <2>1. \A e \in Ids : (Live(e)' <=> Live(e)) /\ draft'[e].order = draft[e].order
      BY <1>1, <1>3 DEF Live
    <2>2. LiveOf(r.order)' = LiveOf(r.order)
      BY <2>1 DEF LiveOf
    <2> QED  BY <2>2 DEF TabFits, LookFits
  <1> QED  BY <1>4, <1>5, <1>6, <1>7 DEF TabFits
-----------------------------------------------------------------------------
(***************************************************************************)
(* Accounts that end, are opened or sent.                                  *)
(***************************************************************************)
\* Rows of accounts that end.
LEMMA EndedSays ==
    ASSUME Typed, NEW some, Ended(some)
    PROVE  /\ draft' \in [Ids -> DraftRows]
           /\ \A d \in Ids :
                 /\ draft'[d].order = draft[d].order /\ draft'[d].version = draft[d].version
                 /\ draft'[d].header = draft[d].header
                 /\ draft'[d].status = IF d \in some THEN "discarded" ELSE draft[d].status
           /\ \A d \in some : draft[d].status = "live"
           /\ UNCHANGED <<lines, adds, order, batches, cooked>>
  <1>1. ASSUME NEW x \in DraftRows
        PROVE  /\ [x EXCEPT !.status = "discarded"] \in DraftRows
               /\ [x EXCEPT !.status = "discarded"].status = "discarded"
               /\ [x EXCEPT !.status = "discarded"].order = x.order
               /\ [x EXCEPT !.status = "discarded"].version = x.version
               /\ [x EXCEPT !.status = "discarded"].header = x.header
    BY DEF DraftRows
  <1>2. \A d \in Ids : draft[d] \in DraftRows
    BY DEF Typed
  <1>3. draft' = [d \in Ids |-> IF d \in some THEN [draft[d] EXCEPT !.status = "discarded"] ELSE draft[d]]
    BY DEF Ended
  <1> HIDE DEF DraftRows
  <1>4. draft' \in [Ids -> DraftRows]
    BY <1>1, <1>2, <1>3
  <1>5. ASSUME NEW d \in Ids
        PROVE  /\ draft'[d].order = draft[d].order /\ draft'[d].version = draft[d].version
               /\ draft'[d].header = draft[d].header
               /\ draft'[d].status = IF d \in some THEN "discarded" ELSE draft[d].status
    BY <1>1, <1>2, <1>3
  <1> QED  BY <1>4, <1>5 DEF Ended, Live

\* Ending accounts keeps what is said of them and of the tablets.
LEMMA EndedKeeps ==
    ASSUME Typed, AccountsFit, NEW some, Ended(some)
    PROVE  Typed' /\ AccountsFit' /\ \A r \in TabRows : TabFits(r) => TabFits(r)'
  <1>1. /\ draft' \in [Ids -> DraftRows]
        /\ \A d \in Ids :
              /\ draft'[d].order = draft[d].order /\ draft'[d].version = draft[d].version
              /\ draft'[d].header = draft[d].header
              /\ draft'[d].status = IF d \in some THEN "discarded" ELSE draft[d].status
        /\ \A d \in some : draft[d].status = "live"
        /\ UNCHANGED <<lines, adds, order, batches, cooked>>
    BY EndedSays
  <1>2. Typed'
    BY <1>1 DEF Typed
  <1>3. \A d \in Ids : Live(d)' => Live(d)
    BY <1>1 DEF Live
  <1>4. ASSUME NEW d \in Ids PROVE AccountFits(d)' /\ LinesFit(d)'
    <2>1. AccountFits(d)'
      BY <1>1, <1>3 DEF AccountsFit, AccountFits
    <2>2. LinesFit(d)'
      BY <1>1 DEF AccountsFit, LinesFit
    <2> QED  BY <2>1, <2>2
  <1>5. OneNew'
    BY <1>1, <1>3 DEF AccountsFit, OneNew
  <1>6. CookedFits'
    <2>1. \A x \in Touches : adds[x] # NoDraft => adds[x] \in Ids
      BY DEF Typed
    <2> QED  BY <1>1, <2>1 DEF AccountsFit, CookedFits
  <1>7. ASSUME NEW r \in TabRows, TabFits(r) PROVE TabFits(r)'
    <2>1. TabShape(r)'
      BY <1>7 DEF TabFits, TabShape
    <2>2. r.at \in Reading => r.draft \in Ids
      BY <1>7 DEF TabFits, TabShape
    <2>3. ReadFits(r)'
      BY <1>1, <1>3, <1>7, <2>2 DEF TabFits, ReadFits
    <2>4. ViewFits(r)'
      BY <1>1, <1>7 DEF TabFits, ViewFits
    <2>5. LookFits(r)'
      <3>1. LiveOf(r.order)' \subseteq LiveOf(r.order)
        BY <1>1, <1>3 DEF LiveOf
      <3> QED  BY <1>7, <3>1 DEF TabFits, LookFits
    <2> QED  BY <2>1, <2>3, <2>4, <2>5 DEF TabFits
  <1> QED  BY <1>2, <1>4, <1>5, <1>6, <1>7 DEF AccountsFit

\* Opening an account keeps the accounts, when its order has no other, and the tablets that are not
\* about to open one for the same order.
LEMMA OpenedKeeps ==
    ASSUME Typed, AccountsFit, NEW d \in Ids, NEW x \in Touches, NEW o \in Accounts \cup {NoDraft},
           Opened(d, x, o), o # NoDraft => LiveOf(o) = {}
    PROVE  /\ Typed' /\ AccountsFit'
           /\ \A r \in TabRows : TabFits(r) /\ (r.at = "looked" => r.order # o) => TabFits(r)'
  <1> DEFINE n == [id |-> x, of |-> {x}, version |-> 1]
             row == [status |-> "live", order |-> o, version |-> 1, header |-> 0]
  <1>1. /\ draft' = [draft EXCEPT ![d] = row] /\ lines' = [lines EXCEPT ![d] = {n}]
        /\ adds' = [adds EXCEPT ![x] = d] /\ UNCHANGED <<order, batches, cooked>>
        /\ draft[d].status = "none" /\ adds[x] = NoDraft
        /\ d \in News <=> o # NoDraft
    BY DEF Opened, InsertDraft, WithTouch
  <1>2. n \in LineRows /\ n.id = x /\ n.of = {x}
    BY DEF LineRows
  <1>3. row \in DraftRows /\ row.status = "live" /\ row.order = o /\ row.version = 1 /\ row.header = 0
    BY DraftsAssumption DEF DraftRows, Versions
  <1> HIDE DEF n, row
  <1>4. /\ \A e \in Ids : draft'[e] = IF e = d THEN row ELSE draft[e]
        /\ \A e \in Ids : lines'[e] = IF e = d THEN {n} ELSE lines[e]
        /\ \A y \in Touches : adds'[y] = IF y = x THEN d ELSE adds[y]
    BY <1>1 DEF Typed
  <1>5. Typed'
    BY <1>1, <1>2, <1>3 DEF Typed
  <1>6. d # NoDraft /\ Ids = Accounts \cup News
    BY DraftsAssumption DEF Ids
  <1>7. ASSUME NEW e \in Ids PROVE AccountFits(e)' /\ LinesFit(e)'
    <2>1. CASE e = d
      <3>1. AccountFits(d)'
        BY <1>1, <1>3, <1>4 DEF AccountsFit, AccountFits, Live
      <3>2. LinesFit(d)'
        BY <1>2, <1>4 DEF LinesFit
      <3> QED  BY <2>1, <3>1, <3>2
    <2>2. CASE e # d
      <3>1. AccountFits(e)'
        BY <1>1, <1>4, <2>2 DEF AccountsFit, AccountFits, Live
      <3>2. lines'[e] = lines[e] /\ lines[e] \subseteq LineRows /\ LinesFit(e) /\ e # NoDraft
        BY <1>4, <2>2, DraftsAssumption DEF Typed, AccountsFit, Ids
      <3>3. \A l \in lines[e] : l.id \in Touches /\ \A y \in l.of : y \in Touches
        BY <3>2 DEF LineRows
      <3>4. LinesFit(e)'
        BY <1>1, <1>4, <3>2, <3>3 DEF LinesFit
      <3> QED  BY <3>1, <3>4
    <2> QED  BY <2>1, <2>2
  <1>8. OneNew'
    <2> SUFFICES ASSUME NEW a \in Ids, NEW b \in Ids, Live(a)', Live(b)',
                        draft'[a].order = draft'[b].order, draft'[a].order # NoDraft
                 PROVE  a = b
      BY DEF OneNew
    <2>1. ASSUME NEW e \in Ids, e # d, Live(e), draft[e].order = o, o # NoDraft PROVE FALSE
      BY <2>1 DEF LiveOf
    <2> QED  BY <1>3, <1>4, <2>1 DEF AccountsFit, OneNew, Live
  <1>9. CookedFits'
    <2>1. \A y \in Touches : adds[y] # NoDraft => adds[y] \in Ids
      BY DEF Typed
    <2> QED  BY <1>1, <1>3, <1>4, <2>1 DEF AccountsFit, CookedFits
  <1>10. ASSUME NEW r \in TabRows, TabFits(r), r.at = "looked" => r.order # o PROVE TabFits(r)'
    <2>1. TabShape(r)'
      BY <1>10 DEF TabFits, TabShape
    <2>2. r.at \in Reading => r.draft \in Ids /\ r.draft # d
      BY <1>1, <1>10 DEF TabFits, TabShape, ReadFits
    <2>3. ReadFits(r)'
      BY <1>4, <1>10, <2>2 DEF TabFits, ReadFits, Live
    <2>4. ViewFits(r)'
      <3> SUFFICES ASSUME r.at = "view" PROVE ViewFits(r)'
        BY DEF ViewFits
      <3>1. r.draft \in Ids /\ r.draft # d /\ r.draft # NoDraft
        BY <2>2, DraftsAssumption DEF Reading, Ids
      <3>2. \A l \in r.lines : l.id \in Touches
        BY DEF TabRows, LineRows
      <3> QED  BY <1>1, <1>4, <1>10, <3>1, <3>2 DEF TabFits, ViewFits
    <2>5. LookFits(r)'
      <3> SUFFICES ASSUME r.at = "looked" PROVE LookFits(r)'
        BY DEF LookFits
      <3>1. LiveOf(r.order)' \subseteq LiveOf(r.order)
        BY <1>3, <1>4, <1>10 DEF LiveOf, Live
      <3> QED  BY <1>10, <3>1 DEF TabFits, LookFits
    <2> QED  BY <2>1, <2>3, <2>4, <2>5 DEF TabFits
  <1> QED  BY <1>5, <1>7, <1>8, <1>9, <1>10 DEF AccountsFit

\* Each touch of an account goes to the kitchen in one line of it.
LEMMA CookSays ==
    ASSUME Typed, AccountsFit, NEW d \in Ids, Live(d), Cook(lines[d])
    PROVE  /\ cooked' \in [Touches -> {0, 1}]
           /\ \A x \in TouchesOf(lines[d]) : x \in Touches /\ adds[x] = d /\ cooked[x] = 0
           /\ \A x \in Touches : cooked'[x] = IF x \in TouchesOf(lines[d]) THEN 1 ELSE cooked[x]
  <1>1. LinesFit(d) /\ lines[d] \subseteq LineRows
    BY DEF AccountsFit, Typed
  <1>2. \A x \in TouchesOf(lines[d]) : x \in Touches /\ adds[x] = d /\ cooked[x] = 0
    <2> SUFFICES ASSUME NEW l \in lines[d], NEW x \in l.of PROVE x \in Touches /\ adds[x] = d /\ cooked[x] = 0
      BY DEF TouchesOf
    <2>1. x \in Touches /\ adds[x] = d
      BY <1>1 DEF LinesFit, LineRows
    <2> QED  BY <2>1 DEF AccountsFit, CookedFits, Live, Typed
  <1>3. ASSUME NEW x \in Touches
        PROVE  Cardinality({l \in lines[d] : x \in l.of}) = IF x \in TouchesOf(lines[d]) THEN 1 ELSE 0
    <2> DEFINE S == {l \in lines[d] : x \in l.of}
    <2>1. CASE x \in TouchesOf(lines[d])
      <3>1. PICK l \in lines[d] : x \in l.of
        BY <2>1 DEF TouchesOf
      <3>2. S = {l}
        BY <1>1, <3>1 DEF LinesFit
      <3> HIDE DEF S
      <3>3. Cardinality(S) = 1
        BY <3>2, FS_Singleton
      <3> QED  BY <2>1, <3>3 DEF S
    <2>2. CASE x \notin TouchesOf(lines[d])
      <3>1. S = {}
        BY <2>2 DEF TouchesOf
      <3> HIDE DEF S
      <3>2. Cardinality(S) = 0
        BY <3>1, FS_EmptySet
      <3> QED  BY <2>2, <3>2 DEF S
    <2> QED  BY <2>1, <2>2
  <1>4. \A x \in Touches : cooked[x] \in {0, 1}
    BY DEF Typed
  <1>5. cooked' = [x \in Touches |-> cooked[x] + Cardinality({l \in lines[d] : x \in l.of})]
    BY DEF Cook
  <1> HIDE DEF TouchesOf
  <1>6. \A x \in Touches : cooked'[x] = IF x \in TouchesOf(lines[d]) THEN 1 ELSE cooked[x]
    BY <1>2, <1>3, <1>4, <1>5
  <1>7. cooked' \in [Touches -> {0, 1}]
    BY <1>4, <1>5, <1>6
  <1> QED  BY <1>2, <1>6, <1>7

\* What a send leaves.
LEMMA SentSays ==
    ASSUME Typed, AccountsFit, NEW t \in Tablets, tab[t] \in TabRows, TabFits(tab[t]), SentBy(t)
    PROVE  LET d == tab[t].draft IN
           /\ d \in Ids /\ Live(d) /\ tab[t].lines = lines[d]
           /\ draft' \in [Ids -> DraftRows] /\ draft'[d].status = "sent"
           /\ draft'[d].version = draft[d].version /\ draft'[d].header = draft[d].header
           /\ \A e \in Ids : e # d => draft'[e] = draft[e]
           /\ \A e \in Ids : lines'[e] = IF e = d THEN {} ELSE lines[e]
           /\ lines' \in [Ids -> SUBSET LineRows] /\ adds' = adds
           /\ order' \in [Accounts -> OrderRows]
           /\ d \in Accounts => order'[d].header = draft[d].header
           /\ \A a \in Accounts : a # d => order'[a] = order[a]
           /\ batches' \subseteq News /\ \A e \in Ids : e # d => (e \in batches' <=> e \in batches)
           /\ Cook(lines[d])
  <1> DEFINE d == tab[t].draft
             o == tab[t].order
  <1>1. /\ d \in Ids /\ Live(d) /\ tab[t].version = draft[d].version /\ tab[t].at \in {"prepared", "sendlocked"}
        /\ d \in News <=> o # NoDraft
    BY DEF SentBy, AsRead, TabFits, TabShape, Reading, Creating, Sending
  <1>2. tab[t].header = draft[d].header /\ tab[t].lines = lines[d]
    BY <1>1 DEF TabFits, ReadFits, Reading, Sending, Seeing
  <1>3. d \notin batches /\ (d \in Accounts => order[d].status = "none")
    BY <1>1 DEF AccountsFit, AccountFits, Live
  <1>4. draft[d] \in DraftRows /\ o \in Accounts \cup {NoDraft}
    BY <1>1 DEF Typed, TabRows
  <1>5. adds' = adds
    BY DEF SentBy
  <1>6. ASSUME NEW p \in Accounts, MarkSent(d, p)
        PROVE  /\ draft' \in [Ids -> DraftRows] /\ draft'[d].status = "sent"
               /\ draft'[d].version = draft[d].version /\ draft'[d].header = draft[d].header
               /\ \A e \in Ids : e # d => draft'[e] = draft[e]
               /\ \A e \in Ids : lines'[e] = IF e = d THEN {} ELSE lines[e]
               /\ lines' \in [Ids -> SUBSET LineRows]
    <2> DEFINE x == [draft[d] EXCEPT !.status = "sent", !.order = p]
    <2>1. x \in DraftRows /\ x.status = "sent" /\ x.version = draft[d].version /\ x.header = draft[d].header
      BY <1>4 DEF DraftRows
    <2>2. draft' = [draft EXCEPT ![d] = x] /\ lines' = [lines EXCEPT ![d] = {}]
      BY <1>4, <1>6 DEF MarkSent, Typed, DraftRows
    <2> HIDE DEF x, d
    <2> QED  BY <1>1, <2>1, <2>2 DEF Typed
  <1>7. CASE o = NoDraft
    <2>1. d \in Accounts
      BY <1>1, <1>7 DEF Ids
    <2>2. /\ order' = [order EXCEPT ![d] = [status |-> "open", header |-> tab[t].header]]
          /\ Cook(tab[t].lines) /\ MarkSent(d, d) /\ batches' = batches
      BY <1>3, <1>7, <2>1 DEF SentBy, SendAccount
    <2>3. [status |-> "open", header |-> tab[t].header] \in OrderRows
      BY <1>2, <1>4 DEF OrderRows, DraftRows
    <2>4. /\ order' \in [Accounts -> OrderRows] /\ order'[d].header = draft[d].header
          /\ \A a \in Accounts : a # d => order'[a] = order[a]
      BY <1>2, <2>1, <2>2, <2>3 DEF Typed
    <2>5. batches' \subseteq News /\ Cook(lines[d])
      BY <1>2, <2>2 DEF Typed
    <2> HIDE DEF d
    <2> QED  BY <1>1, <1>2, <1>5, <1>6, <2>1, <2>2, <2>4, <2>5 DEF d
  <1>8. CASE o # NoDraft
    <2>1. d \in News /\ o \in Accounts /\ d \notin Accounts
      BY <1>1, <1>4, <1>8, DraftsAssumption
    <2>2. /\ Cook(tab[t].lines) /\ MarkSent(d, o) /\ batches' = batches \cup {d} /\ order' = order
      BY <1>3, <1>8 DEF SentBy, SendNew
    <2>3. batches' \subseteq News /\ Cook(lines[d]) /\ order' \in [Accounts -> OrderRows]
      BY <1>2, <2>1, <2>2 DEF Typed
    <2> HIDE DEF d
    <2> QED  BY <1>1, <1>2, <1>5, <1>6, <2>1, <2>2, <2>3 DEF d
  <1> QED  BY <1>7, <1>8

\* A send keeps what is said of the accounts and of the tablets.
LEMMA SentKeeps ==
    ASSUME Typed, AccountsFit, NEW t \in Tablets, tab[t] \in TabRows, TabFits(tab[t]), SentBy(t)
    PROVE  Typed' /\ AccountsFit' /\ \A r \in TabRows : TabFits(r) => TabFits(r)'
  <1> DEFINE d == tab[t].draft
  <1>1. /\ d \in Ids /\ Live(d)
        /\ draft' \in [Ids -> DraftRows] /\ draft'[d].status = "sent"
        /\ draft'[d].version = draft[d].version /\ draft'[d].header = draft[d].header
        /\ \A e \in Ids : e # d => draft'[e] = draft[e]
        /\ \A e \in Ids : lines'[e] = IF e = d THEN {} ELSE lines[e]
        /\ lines' \in [Ids -> SUBSET LineRows] /\ adds' = adds
        /\ order' \in [Accounts -> OrderRows]
        /\ \A a \in Accounts : a # d => order'[a] = order[a]
        /\ batches' \subseteq News /\ \A e \in Ids : e # d => (e \in batches' <=> e \in batches)
        /\ Cook(lines[d])
    BY SentSays
  <1> HIDE DEF d
  <1>2. /\ cooked' \in [Touches -> {0, 1}]
        /\ \A x \in TouchesOf(lines[d]) : x \in Touches /\ adds[x] = d /\ cooked[x] = 0
        /\ \A x \in Touches : cooked'[x] = IF x \in TouchesOf(lines[d]) THEN 1 ELSE cooked[x]
    BY <1>1, CookSays
  <1>3. Typed'
    BY <1>1, <1>2 DEF Typed
  <1>4. \A e \in Ids : Live(e)' => Live(e) /\ e # d
    BY <1>1 DEF Live
  <1>5. ASSUME NEW e \in Ids PROVE AccountFits(e)' /\ LinesFit(e)'
    <2>1. CASE e = d
      BY <1>1, <2>1 DEF AccountsFit, AccountFits, LinesFit, Live
    <2>2. CASE e # d
      <3>1. AccountFits(e)'
        BY <1>1, <2>2 DEF AccountsFit, AccountFits, Live
      <3>2. LinesFit(e)'
        BY <1>1, <2>2 DEF AccountsFit, LinesFit
      <3> QED  BY <3>1, <3>2
    <2> QED  BY <2>1, <2>2
  <1>6. OneNew'
    BY <1>1, <1>4 DEF AccountsFit, OneNew
  <1>7. CookedFits'
    <2> SUFFICES ASSUME NEW x \in Touches
                 PROVE  /\ adds[x] # NoDraft => draft'[adds[x]].status # "none"
                        /\ cooked'[x] = 1 => adds[x] # NoDraft /\ draft'[adds[x]].status = "sent"
      BY <1>1 DEF CookedFits
    <2>1. adds[x] \in Ids \cup {NoDraft} /\ NoDraft \notin Ids
      BY DraftsAssumption DEF Typed, Ids
    <2>2. CASE x \in TouchesOf(lines[d])
      BY <1>1, <1>2, <2>1, <2>2
    <2>3. CASE x \notin TouchesOf(lines[d])
      BY <1>1, <1>2, <2>1, <2>3 DEF AccountsFit, CookedFits
    <2> QED  BY <2>2, <2>3
  <1>8. ASSUME NEW r \in TabRows, TabFits(r) PROVE TabFits(r)'
    <2>1. TabShape(r)'
      BY <1>8 DEF TabFits, TabShape
    <2>2. r.at \in Reading => r.draft \in Ids
      BY <1>8 DEF TabFits, TabShape
    <2>3. ReadFits(r)'
      <3> SUFFICES ASSUME r.at \in Reading PROVE ReadFits(r)'
        BY DEF ReadFits
      <3> QED  BY <1>1, <1>4, <1>8, <2>2 DEF TabFits, ReadFits, Live
    <2>4. ViewFits(r)'
      <3> SUFFICES ASSUME r.at = "view" PROVE ViewFits(r)'
        BY DEF ViewFits
      <3>1. r.draft \in Ids
        BY <2>2 DEF Reading
      <3> QED  BY <1>1, <1>8, <3>1 DEF TabFits, ViewFits
    <2>5. LookFits(r)'
      <3>1. LiveOf(r.order)' \subseteq LiveOf(r.order)
        BY <1>1, <1>4 DEF LiveOf
      <3> QED  BY <1>8, <3>1 DEF TabFits, LookFits
    <2> QED  BY <2>1, <2>3, <2>4, <2>5 DEF TabFits
  <1> QED  BY <1>3, <1>5, <1>6, <1>7, <1>8 DEF AccountsFit

\* An order voided, or nothing, keeps them too.
LEMMA IdledKeeps ==
    ASSUME Typed, AccountsFit, Idled
    PROVE  Typed' /\ AccountsFit' /\ \A r \in TabRows : TabFits(r) => TabFits(r)'
  <1>1. /\ UNCHANGED <<draft, lines, adds, batches, cooked>> /\ order' \in [Accounts -> OrderRows]
        /\ \A o \in Accounts : order'[o].status = "none" <=> order[o].status = "none"
    <2>1. ASSUME NEW o \in Accounts, order[o].status = "open", order' = [order EXCEPT ![o].status = "voided"]
          PROVE  /\ order' \in [Accounts -> OrderRows]
                 /\ \A p \in Accounts : order'[p].status = "none" <=> order[p].status = "none"
      <3> DEFINE x == [order[o] EXCEPT !.status = "voided"]
      <3>1. x \in OrderRows /\ x.status = "voided"
        BY DEF Typed, OrderRows
      <3>2. order' = [order EXCEPT ![o] = x]
        BY <2>1
      <3> HIDE DEF x
      <3> QED  BY <2>1, <3>1, <3>2 DEF Typed
    <2> QED  BY <2>1 DEF Idled, Typed
  <1>2. Typed'
    BY <1>1 DEF Typed
  <1>3. AccountsFit'
    BY <1>1 DEF AccountsFit, AccountFits, LinesFit, OneNew, CookedFits, Live
  <1>4. ASSUME NEW r \in TabRows, TabFits(r) PROVE TabFits(r)'
    <2>1. LiveOf(r.order)' = LiveOf(r.order)
      BY <1>1 DEF LiveOf, Live
    <2> QED  BY <1>1, <1>4, <2>1 DEF TabFits, TabShape, ReadFits, ViewFits, LookFits, Live
  <1> QED  BY <1>2, <1>3, <1>4
-----------------------------------------------------------------------------
(***************************************************************************)
(* What the operations do, in those terms.                                 *)
(***************************************************************************)
\* The rows of an account whose version moves.
LEMMA TouchedIs ==
    ASSUME Typed, NEW d \in Ids, Live(d), draft[d].version < MaxVersion, Touched(d),
           \A e \in Ids : e # d => lines'[e] = lines[e], UNCHANGED <<order, batches, cooked>>
    PROVE  Edited(d) /\ idle' \subseteq idle
  <1> DEFINE h == draft[d].header
             x == [draft[d] EXCEPT !.version = @ + 1]
             y == [draft[d] EXCEPT !.version = @ + 1, !.header = h]
  <1>1. draft[d] \in DraftRows
    BY DEF Typed
  <1>2. x = y
    BY <1>1 DEF DraftRows
  <1>3. draft' = [draft EXCEPT ![d] = x] /\ idle' \subseteq idle
    BY DEF Touched
  <1>4. draft' = [draft EXCEPT ![d].version = @ + 1, ![d].header = h]
    <2>1. [draft EXCEPT ![d].version = @ + 1, ![d].header = h] = [draft EXCEPT ![d] = y]
      BY <1>1 DEF Typed, DraftRows
    <2> QED  BY <1>2, <1>3, <2>1
  <1> QED  BY <1>3, <1>4 DEF Edited

\* Adding edits the account.
LEMMA AddIs ==
    ASSUME Typed, AccountsFit, NEW d \in Ids, NEW x \in Touches, Live(d), draft[d].version < MaxVersion,
           NEW targets, targets = MergeTarget(lines[d], x) \/ (\E l \in lines[d] : targets = {l}),
           AddDraftLine(d, x, targets), UNCHANGED <<order, batches, cooked>>
    PROVE  Edited(d) /\ TouchAdded(d, x) /\ AccountEdited(d) /\ idle' \subseteq idle
  <1>1. /\ ~Taken(d, x) /\ lines' = [lines EXCEPT ![d] = WithTouch(@, x, targets)]
        /\ adds' = [adds EXCEPT ![x] = d] /\ Touched(d)
    BY DEF AddDraftLine
  <1>2. \A e \in Ids : e # d => lines'[e] = lines[e]
    BY <1>1 DEF Typed
  <1>3. Edited(d) /\ idle' \subseteq idle
    BY <1>1, <1>2, TouchedIs
  <1>4. targets \in SUBSET lines[d] /\ \A k, l \in targets : k = l
    BY DEF MergeTarget, AccountsFit, LinesFit
  <1>5. targets = {} => x \notin Plain \/ \A l \in lines[d] : l.id \notin Plain
    BY DEF MergeTarget
  <1>6. adds[x] = NoDraft
    BY <1>1 DEF Taken
  <1>7. TouchAdded(d, x)
    BY <1>1, <1>4, <1>5, <1>6 DEF TouchAdded
  <1> QED  BY <1>3, <1>7 DEF AccountEdited

\* What a tablet does to what it sees edits the account, or discards it as it was seen; a line it
\* changes is the one it sees.
LEMMA EditIs ==
    ASSUME DraftInv, NEW t \in Tablets, Edit(t)
    PROVE  LET d == tab[t].draft IN
           /\ d \in Ids /\ tab[t].at = "view" /\ tab' = [tab EXCEPT ![t] = AtRest] /\ idle' \subseteq idle
           /\ \/ AccountEdited(d)
                 /\ \/ UNCHANGED <<lines, adds>>
                    \/ \E l \in tab[t].lines : LineCut(d, l)
              \/ Ended({d}) /\ lines[d] = tab[t].lines
  <1> DEFINE d == tab[t].draft
  <1>1. /\ Typed /\ tab[t] \in TabRows /\ AccountsFit /\ TabFits(tab[t])
        /\ tab[t].at = "view" /\ tab' = [tab EXCEPT ![t] = AtRest] /\ UNCHANGED <<order, batches, cooked>>
    BY DEF DraftInv, TabsTyped, TabsFit, Edit, Rest
  <1>2. d \in Ids
    BY <1>1 DEF TabFits, TabShape, Reading
  <1>3. ASSUME NEW l \in tab[t].lines, SameLine(lines[d], l) # {}
        PROVE  SameLine(lines[d], l) = {l} /\ l \in lines[d]
    BY <1>1, <1>3 DEF SameLine, TabFits, ViewFits
  <1>4. ASSUME NEW l \in tab[t].lines, NEW keep \in SUBSET l.of, ChangeLine(t, l, keep)
        PROVE  Edited(d) /\ LineCut(d, l) /\ idle' \subseteq idle
    <2>1. /\ Live(d) /\ draft[d].version < MaxVersion /\ keep # {} /\ Touched(d) /\ UNCHANGED adds
          /\ SameLine(lines[d], l) # {}
          /\ lines' = [lines EXCEPT ![d] = (@ \ SameLine(@, l)) \cup
                          {[k EXCEPT !.of = keep, !.version = @ + 1] : k \in SameLine(@, l)}]
      BY <1>4 DEF ChangeLine
    <2>2. lines' = [lines EXCEPT ![d] = (@ \ {l}) \cup {[l EXCEPT !.of = keep, !.version = @ + 1]}] /\ l \in lines[d]
      <3>1. SameLine(lines[d], l) = {l} /\ l \in lines[d]
        BY <1>3, <2>1
      <3>2. {[k EXCEPT !.of = keep, !.version = @ + 1] : k \in {l}} = {[l EXCEPT !.of = keep, !.version = @ + 1]}
        OBVIOUS
      <3>3. lines' = [lines EXCEPT ![d] = (lines[d] \ SameLine(lines[d], l)) \cup
                          {[k EXCEPT !.of = keep, !.version = @ + 1] : k \in SameLine(lines[d], l)}]
        BY <2>1
      <3> QED  BY <3>1, <3>2, <3>3
    <2>3. \A e \in Ids : e # d => lines'[e] = lines[e]
      BY <1>1, <2>2 DEF Typed
    <2>4. Edited(d) /\ idle' \subseteq idle
      BY <1>1, <1>2, <2>1, <2>3, TouchedIs
    <2> QED  BY <2>1, <2>2, <2>4 DEF LineCut, LineKeeps
  <1>5. ASSUME NEW l \in tab[t].lines, RemoveLine(t, l)
        PROVE  Edited(d) /\ LineCut(d, l) /\ idle' \subseteq idle
    <2>1. /\ Live(d) /\ draft[d].version < MaxVersion /\ Touched(d) /\ UNCHANGED adds
          /\ SameLine(lines[d], l) # {} /\ lines' = [lines EXCEPT ![d] = @ \ SameLine(@, l)]
      BY <1>5 DEF RemoveLine
    <2>2. SameLine(lines[d], l) = {l} /\ l \in lines[d]
      BY <1>3, <2>1
    <2>3. lines' = [lines EXCEPT ![d] = @ \ {l}] /\ \A e \in Ids : e # d => lines'[e] = lines[e]
      BY <1>1, <2>1, <2>2 DEF Typed
    <2>4. Edited(d) /\ idle' \subseteq idle
      BY <1>1, <1>2, <2>1, <2>3, TouchedIs
    <2> QED  BY <2>1, <2>2, <2>3, <2>4 DEF LineCut, LineGoes
  <1>6. CASE PatchHeader(t)
    <2>1. /\ Live(d) /\ draft[d].version < MaxVersion /\ UNCHANGED <<lines, adds>> /\ idle' \subseteq idle
          /\ draft' = [draft EXCEPT ![d].header = @ + 1, ![d].version = @ + 1]
      BY <1>6 DEF PatchHeader
    <2>2. draft' = [draft EXCEPT ![d].version = @ + 1, ![d].header = draft[d].header + 1]
      <3>1. draft[d] \in DraftRows
        BY <1>1, <1>2 DEF Typed
      <3> DEFINE x == [draft[d] EXCEPT !.header = @ + 1, !.version = @ + 1]
                 y == [draft[d] EXCEPT !.version = @ + 1, !.header = draft[d].header + 1]
      <3>2. x = y
        BY <3>1 DEF DraftRows
      <3>3. draft' = [draft EXCEPT ![d] = x]
        BY <1>1, <1>2, <2>1, <3>1 DEF Typed, DraftRows
      <3>4. [draft EXCEPT ![d].version = @ + 1, ![d].header = draft[d].header + 1] = [draft EXCEPT ![d] = y]
        BY <1>1, <1>2, <3>1 DEF Typed, DraftRows
      <3> QED  BY <3>2, <3>3, <3>4
    <2>3. Edited(d)
      BY <1>1, <2>1, <2>2 DEF Edited
    <2> QED  BY <1>1, <1>2, <2>1, <2>3 DEF AccountEdited
  <1>7. CASE Discard(t)
    <2>1. Live(d) /\ AsSeen(t) /\ draft' = [draft EXCEPT ![d].status = "discarded"] /\ UNCHANGED <<lines, adds, idle>>
      BY <1>7 DEF Discard
    <2>2. lines[d] = tab[t].lines
      BY <1>1, <2>1 DEF AsSeen, TabFits, ReadFits, Reading, Seeing
    <2>3. Ended({d})
      <3>1. draft' = [e \in Ids |-> IF e \in {d} THEN [draft[e] EXCEPT !.status = "discarded"] ELSE draft[e]]
        BY <1>1, <1>2, <2>1 DEF Typed
      <3> QED  BY <1>1, <2>1, <3>1 DEF Ended
    <2> QED  BY <1>1, <1>2, <2>1, <2>2, <2>3
  <1>8. ASSUME NEW l \in tab[t].lines, LineCut(d, l), Edited(d)
        PROVE  AccountEdited(d)
    BY <1>8 DEF AccountEdited, LineCut
  <1> HIDE DEF d
  <1>9. \/ /\ AccountEdited(d) /\ idle' \subseteq idle
           /\ UNCHANGED <<lines, adds>> \/ \E l \in tab[t].lines : LineCut(d, l)
        \/ Ended({d}) /\ lines[d] = tab[t].lines /\ idle' \subseteq idle
    BY <1>4, <1>5, <1>6, <1>7, <1>8 DEF Edit, d
  <1> QED  BY <1>1, <1>2, <1>9 DEF d
-----------------------------------------------------------------------------
(***************************************************************************)
(* What every step does to the accounts, and to what the tablets hold.     *)
(***************************************************************************)
\* An account takes a touch, whoever sends it.
Adds == \E d \in Ids, x \in Touches : Edited(d) /\ TouchAdded(d, x)

\* A tablet changes or throws away what it sees.
EditsSeen(t) ==
    LET d == tab[t].draft IN
    /\ d \in Ids /\ tab[t].at = "view" /\ Rest(t)
    /\ \/ AccountEdited(d) /\ (UNCHANGED <<lines, adds>> \/ \E l \in tab[t].lines : LineCut(d, l))
       \/ Ended({d}) /\ lines[d] = tab[t].lines

\* The sweep.
Sweeps == Ended(ToSweep)

\* A tablet opens an account, the only one its order has and nobody else is opening.
OpensOne(t, d, x, o) ==
    /\ Opened(d, x, o) /\ Rest(t)
    /\ o # NoDraft => LiveOf(o) = {}
    /\ \A u \in Tablets : u # t /\ tab[u].at = "looked" => tab[u].order # o

Opens(t) == \E d \in Ids, x \in Touches, o \in Accounts \cup {NoDraft} : OpensOne(t, d, x, o)

\* A tablet sends what it read.
Sends(t) == SentBy(t) /\ Rest(t)

Effect == Adds \/ Sweeps \/ Idled \/ \E t \in Tablets : EditsSeen(t) \/ Opens(t) \/ Sends(t)

\* A tablet goes on with a record that fits and rows nobody else holds.
Takes(t, r) ==
    /\ r \in TabRows /\ TabFits(r)
    /\ tab' = [tab EXCEPT ![t] = r]
    /\ \A u \in Tablets : u # t => r.holds \cap tab[u].holds = {}

TabsMove == idle' \subseteq Ids /\ (tab' = tab \/ \E t \in Tablets, r \in TabRows : Takes(t, r))

\* A tablet that rests.
LEMMA RestTakes ==
    ASSUME NEW t \in Tablets, Rest(t), idle' \subseteq Ids
    PROVE  TabsMove
  <1>1. Takes(t, AtRest)
    BY RestFits DEF Takes, Rest
  <1> QED  BY <1>1, RestFits DEF TabsMove

\* What the tablets hold next fits the accounts as they were.
LEMMA TabsBefore ==
    ASSUME DraftInv, TabsMove, NEW u \in Tablets
    PROVE  \E r \in TabRows : TabFits(r) /\ r = tab'[u]
  <1>1. tab \in [Tablets -> TabRows] /\ TabFits(tab[u])
    BY DEF DraftInv, TabsTyped, TabsFit
  <1>2. CASE tab' = tab
    BY <1>1, <1>2
  <1>3. ASSUME NEW t \in Tablets, NEW q \in TabRows, Takes(t, q)
        PROVE  \E r \in TabRows : TabFits(r) /\ r = tab'[u]
    <2>1. tab'[u] = IF u = t THEN q ELSE tab[u]
      BY <1>1, <1>3 DEF Takes
    <2>2. TabFits(q)
      BY <1>3 DEF Takes
    <2> QED  BY <1>1, <2>1, <2>2
  <1> QED  BY <1>2, <1>3 DEF TabsMove

\* The locks stay apart.
LEMMA LocksStay ==
    ASSUME DraftInv, TabsMove
    PROVE  TabsTyped' /\ Locks'
  <1>1. tab \in [Tablets -> TabRows] /\ Locks
    BY DEF DraftInv, TabsTyped, TabsFit
  <1>2. CASE tab' = tab
    BY <1>1, <1>2 DEF TabsMove, TabsTyped, Locks
  <1>3. ASSUME NEW t \in Tablets, NEW q \in TabRows, Takes(t, q)
        PROVE  TabsTyped' /\ Locks'
    <2>1. tab' \in [Tablets -> TabRows] /\ \A u \in Tablets : tab'[u] = IF u = t THEN q ELSE tab[u]
      BY <1>1, <1>3 DEF Takes
    <2>2. \A u \in Tablets : u # t => q.holds \cap tab[u].holds = {}
      BY <1>3 DEF Takes
    <2>3. Locks'
      BY <1>1, <2>1, <2>2 DEF Locks
    <2> QED  BY <2>1, <2>3 DEF TabsMove, TabsTyped
  <1> QED  BY <1>2, <1>3 DEF TabsMove

\* What fits a tablet, kept by the step, fits what it holds next.
LEMMA TabsFitNext ==
    ASSUME DraftInv, TabsMove, \A u \in Tablets : \A r \in TabRows : TabFits(r) /\ r = tab'[u] => TabFits(r)'
    PROVE  TabsTyped' /\ TabsFit'
  <1>1. ASSUME NEW u \in Tablets PROVE TabFits(tab[u])'
    <2>1. PICK r \in TabRows : TabFits(r) /\ r = tab'[u]
      BY TabsBefore
    <2>2. TabFits(r)'
      BY <2>1
    <2> QED  BY <2>1, <2>2 DEF TabFits, TabShape, ReadFits, ViewFits, LookFits, LiveOf, Live
  <1> QED  BY <1>1, LocksStay DEF TabsFit

\* Every effect keeps the invariant.
LEMMA EffectKeeps ==
    ASSUME DraftInv, TabsMove, Effect
    PROVE  DraftInv'
  <1>1. Typed /\ AccountsFit
    BY DEF DraftInv
  <1> SUFFICES Typed' /\ AccountsFit' /\
               \A u \in Tablets : \A r \in TabRows : TabFits(r) /\ r = tab'[u] => TabFits(r)'
    BY TabsFitNext DEF DraftInv
  <1>2. ASSUME NEW d \in Ids, AccountEdited(d)
        PROVE  Typed' /\ AccountsFit' /\ \A r \in TabRows : TabFits(r) => TabFits(r)'
    BY <1>1, <1>2, EditKeepsAccounts, EditKeepsTabs
  <1>3. CASE Adds
    <2>1. PICK d \in Ids, x \in Touches : Edited(d) /\ TouchAdded(d, x)
      BY <1>3 DEF Adds
    <2>2. AccountEdited(d)
      BY <2>1 DEF AccountEdited
    <2> QED  BY <1>2, <2>2
  <1>4. CASE Sweeps
    BY <1>1, <1>4, EndedKeeps DEF Sweeps
  <1>5. CASE Idled
    BY <1>1, <1>5, IdledKeeps
  <1>6. ASSUME NEW t \in Tablets, EditsSeen(t)
        PROVE  Typed' /\ AccountsFit' /\ \A r \in TabRows : TabFits(r) => TabFits(r)'
    <2>1. CASE AccountEdited(tab[t].draft)
      BY <1>2, <1>6, <2>1 DEF EditsSeen
    <2>2. CASE Ended({tab[t].draft})
      BY <1>1, <2>2, EndedKeeps
    <2> QED  BY <1>6, <2>1, <2>2 DEF EditsSeen
  <1>7. ASSUME NEW t \in Tablets, Opens(t)
        PROVE  /\ Typed' /\ AccountsFit'
               /\ \A u \in Tablets : \A r \in TabRows : TabFits(r) /\ r = tab'[u] => TabFits(r)'
    <2>1. PICK d \in Ids, x \in Touches, o \in Accounts \cup {NoDraft} : OpensOne(t, d, x, o)
      BY <1>7 DEF Opens
    <2>2. /\ Typed' /\ AccountsFit'
          /\ \A r \in TabRows : TabFits(r) /\ (r.at = "looked" => r.order # o) => TabFits(r)'
      BY <1>1, <2>1, OpenedKeeps DEF OpensOne
    <2>3. ASSUME NEW u \in Tablets, tab'[u].at = "looked" PROVE tab'[u].order # o
      <3>1. tab'[u] = IF u = t THEN AtRest ELSE tab[u]
        BY <2>1 DEF OpensOne, Rest, DraftInv, TabsTyped
      <3> QED  BY <2>1, <2>3, <3>1, RestFits DEF OpensOne
    <2> QED  BY <2>2, <2>3
  <1>8. ASSUME NEW t \in Tablets, Sends(t)
        PROVE  Typed' /\ AccountsFit' /\ \A r \in TabRows : TabFits(r) => TabFits(r)'
    <2>1. tab[t] \in TabRows /\ TabFits(tab[t]) /\ SentBy(t)
      BY <1>8 DEF DraftInv, TabsTyped, TabsFit, Sends
    <2> QED  BY <1>1, <2>1, SentKeeps
  <1> QED  BY <1>3, <1>4, <1>5, <1>6, <1>7, <1>8 DEF Effect
-----------------------------------------------------------------------------
(***************************************************************************)
(* The steps that leave the accounts as they are.                          *)
(***************************************************************************)
\* Reading leaves the accounts.
LEMMA ReadsOnly ==
    ASSUME Typed, UNCHANGED <<draft, lines, adds, idle, order, batches, cooked>>, idle \subseteq Ids
    PROVE  Idled /\ idle' \subseteq Ids
  BY DEF Idled

\* A tablet takes an account it reads.
LEMMA ReadsAccount ==
    ASSUME DraftInv, NEW t \in Tablets, NEW d \in Ids, Live(d), NEW r \in TabRows,
           r.at \in {"viewing", "sending"}, r.at = "sending" => r.order = draft[d].order,
           r.draft = d, r.version = draft[d].version, r.header = draft[d].header, r.lines = {}, r.holds = {},
           tab' = [tab EXCEPT ![t] = r]
    PROVE  Takes(t, r)
  <1>1. draft[d] \in DraftRows /\ AccountFits(d) /\ Live(d)
    BY DEF DraftInv, Typed, AccountsFit
  <1>2. TabShape(r)
    BY <1>1 DEF TabShape, AccountFits, Locking, Creating, Reading, Sending
  <1>3. ReadFits(r)
    BY <1>1 DEF ReadFits, Live, Seeing, DraftRows, Versions
  <1>4. ViewFits(r) /\ LookFits(r)
    BY DEF ViewFits, LookFits
  <1> QED  BY <1>2, <1>3, <1>4 DEF Takes, TabFits

\* A tablet reads an account, to show it or to send it.
LEMMA ViewSays ==
    ASSUME DraftInv, NEW t \in Tablets, NEW d \in Ids, View(t, d) \/ SendRead(t, d)
    PROVE  TabsMove /\ Effect
  <1>1. Typed /\ idle \subseteq Ids /\ UNCHANGED <<draft, lines, adds, idle, order, batches, cooked>> /\ Live(d)
    BY DEF DraftInv, TabsTyped, View, SendRead
  <1>2. draft[d] \in DraftRows
    BY <1>1 DEF Typed
  <1>3. CASE View(t, d)
    <2> DEFINE r == [AtRest EXCEPT !.at = "viewing", !.draft = d,
                                   !.version = draft[d].version, !.header = draft[d].header]
    <2>1. /\ r \in TabRows /\ r.at = "viewing" /\ r.draft = d /\ r.version = draft[d].version
          /\ r.header = draft[d].header /\ r.lines = {} /\ r.holds = {}
      BY <1>2, DraftsAssumption DEF AtRest, TabRows, DraftRows, Versions, Reading
    <2>2. tab' = [tab EXCEPT ![t] = r]
      BY <1>3 DEF View
    <2> HIDE DEF r
    <2> QED  BY <1>1, <2>1, <2>2, ReadsAccount, ReadsOnly DEF TabsMove, Effect
  <1>4. CASE SendRead(t, d)
    <2> DEFINE r == [AtRest EXCEPT !.at = "sending", !.draft = d, !.order = draft[d].order,
                                   !.version = draft[d].version, !.header = draft[d].header]
    <2>1. /\ r \in TabRows /\ r.at = "sending" /\ r.draft = d /\ r.version = draft[d].version
          /\ r.order = draft[d].order /\ r.header = draft[d].header /\ r.lines = {} /\ r.holds = {}
      BY <1>2, DraftsAssumption DEF AtRest, TabRows, DraftRows, Versions, Reading, Sending
    <2>2. tab' = [tab EXCEPT ![t] = r]
      BY <1>4 DEF SendRead
    <2> HIDE DEF r
    <2> QED  BY <1>1, <2>1, <2>2, ReadsAccount, ReadsOnly DEF TabsMove, Effect
  <1> QED  BY <1>3, <1>4

\* And then its lines.
LEMMA LinesSay ==
    ASSUME DraftInv, NEW t \in Tablets, NEW from \in {"viewing", "sending"}, tab[t].at = from,
           tab' = [tab EXCEPT ![t].at = IF from = "viewing" THEN "view" ELSE "prepared",
                              ![t].lines = lines[tab[t].draft]]
    PROVE  \E r \in TabRows : Takes(t, r)
  <1> DEFINE q == tab[t]
             d == tab[t].draft
             to == IF from = "viewing" THEN "view" ELSE "prepared"
             r == [q EXCEPT !.at = to, !.lines = lines[d]]
  <1>1. /\ Typed /\ AccountsFit /\ q \in TabRows /\ TabFits(q) /\ tab \in [Tablets -> TabRows]
    BY DEF DraftInv, TabsTyped, TabsFit
  <1>2. d \in Ids
    BY <1>1 DEF TabFits, TabShape, Reading, Sending
  <1>3. lines[d] \subseteq LineRows /\ LinesFit(d)
    BY <1>1, <1>2 DEF Typed, AccountsFit
  <1>4. /\ r.at = to /\ r.draft = d /\ r.order = q.order /\ r.version = q.version
        /\ r.header = q.header /\ r.lines = lines[d] /\ r.holds = q.holds
    BY <1>1 DEF TabRows
  <1>5. r \in TabRows
    BY <1>1, <1>3 DEF TabRows, Reading, Sending
  <1>6. tab' = [tab EXCEPT ![t] = r]
    BY <1>1 DEF TabRows
  <1>7. q.at = from /\ to \in {"view", "prepared"} /\ (to = "view" <=> from = "viewing")
    OBVIOUS
  <1> HIDE DEF r, q, d, to
  <1>8. TabShape(r) /\ r.holds = {}
    BY <1>1, <1>2, <1>3, <1>4, <1>7 DEF TabFits, TabShape, LinesFit, Locking, Creating, Reading, Sending, d, q
  <1>9. ReadFits(r)
    BY <1>1, <1>4, <1>7 DEF TabFits, ReadFits, Reading, Sending, Seeing, d, q
  <1>10. ViewFits(r)
    <2>1. \A l \in lines[d] : l.version \in Nat
      BY <1>3 DEF LineRows
    <2> QED  BY <1>3, <1>4, <2>1 DEF ViewFits, LinesFit
  <1>11. LookFits(r)
    BY <1>4, <1>7 DEF LookFits
  <1> QED  BY <1>5, <1>6, <1>8, <1>9, <1>10, <1>11 DEF Takes, TabFits

\* A tablet that has read the account reads its lines.
LEMMA ReadLinesSays ==
    ASSUME DraftInv, NEW t \in Tablets, ViewLines(t) \/ SendLines(t)
    PROVE  TabsMove /\ Effect
  <1>1. Typed /\ idle \subseteq Ids /\ UNCHANGED <<draft, lines, adds, idle, order, batches, cooked>>
    BY DEF DraftInv, TabsTyped, ViewLines, SendLines
  <1>2. Idled /\ idle' \subseteq Ids
    BY <1>1, ReadsOnly
  <1>3. CASE Rest(t)
    BY <1>2, <1>3, RestTakes DEF Effect
  <1>4. CASE ViewLines(t)
    <2>1. \E r \in TabRows : Takes(t, r)
      BY <1>4, LinesSay DEF ViewLines
    <2> QED  BY <1>2, <2>1 DEF TabsMove, Effect
  <1>5. CASE SendLines(t) /\ ~Rest(t)
    <2>1. \E r \in TabRows : Takes(t, r)
      BY <1>5, LinesSay DEF SendLines
    <2> QED  BY <1>2, <2>1 DEF TabsMove, Effect
  <1> QED  BY <1>3, <1>4, <1>5

\* A tablet locks the order it is about.
LEMMA LockTakes ==
    ASSUME DraftInv, NEW t \in Tablets, NEW o, o = tab[t].order, o # NoDraft, Free(t, o),
           NEW to, (tab[t].at = "create" /\ to = "locked") \/ (tab[t].at = "prepared" /\ to = "sendlocked"),
           tab' = [tab EXCEPT ![t].at = to, ![t].holds = {o}]
    PROVE  \E r \in TabRows : Takes(t, r)
  <1> DEFINE q == tab[t]
             r == [q EXCEPT !.at = to, !.holds = {o}]
  <1>1. q \in TabRows /\ TabFits(q) /\ tab \in [Tablets -> TabRows]
    BY DEF DraftInv, TabsTyped, TabsFit
  <1>2. /\ r.at = to /\ r.draft = q.draft /\ r.order = o /\ r.touch = q.touch /\ r.version = q.version
        /\ r.header = q.header /\ r.lines = q.lines /\ r.holds = {o}
    BY <1>1 DEF TabRows
  <1>3. o \in Accounts
    BY <1>1 DEF TabRows
  <1>4. r \in TabRows
    BY <1>1, <1>3 DEF TabRows, Creating, Reading, Sending
  <1>5. tab' = [tab EXCEPT ![t] = r]
    BY <1>1 DEF TabRows
  <1>6. q.order = o /\ ((q.at = "create" /\ to = "locked") \/ (q.at = "prepared" /\ to = "sendlocked"))
    OBVIOUS
  <1>7. \A u \in Tablets : u # t => {o} \cap tab[u].holds = {}
    BY DEF Free
  <1> HIDE DEF r, q
  <1>8. TabShape(r)
    BY <1>1, <1>2, <1>6 DEF TabFits, TabShape, Locking, Creating, Reading, Sending
  <1>9. ReadFits(r)
    BY <1>1, <1>2, <1>6 DEF TabFits, ReadFits, Reading, Sending, Seeing
  <1>10. ViewFits(r) /\ LookFits(r)
    BY <1>2, <1>6 DEF ViewFits, LookFits
  <1> QED  BY <1>2, <1>4, <1>5, <1>7, <1>8, <1>9, <1>10 DEF Takes, TabFits

\* The locks of a send and of an opening.
LEMMA LockSays ==
    ASSUME DraftInv, NEW t \in Tablets, SendLock(t) \/ CreateLock(t)
    PROVE  TabsMove /\ Effect
  <1>1. Typed /\ idle \subseteq Ids /\ UNCHANGED <<draft, lines, adds, idle, order, batches, cooked>>
    BY DEF DraftInv, TabsTyped, SendLock, CreateLock
  <1>2. Idled /\ idle' \subseteq Ids
    BY <1>1, ReadsOnly
  <1>3. CASE Rest(t)
    BY <1>2, <1>3, RestTakes DEF Effect
  <1>4. CASE ~Rest(t)
    <2>1. \E r \in TabRows : Takes(t, r)
      <3>1. CASE SendLock(t)
        BY <3>1, LockTakes DEF SendLock, LockFirst
      <3>2. CASE CreateLock(t)
        BY <1>4, <3>2, LockTakes DEF CreateLock
      <3> QED  BY <3>1, <3>2
    <2> QED  BY <1>2, <2>1 DEF TabsMove, Effect
  <1> QED  BY <1>3, <1>4

\* The «Nuevo» there may be of the order locked.
LEMMA LookSays ==
    ASSUME DraftInv, NEW t \in Tablets, CreateLook(t)
    PROVE  TabsMove /\ Effect
  <1>1. /\ Typed /\ AccountsFit /\ idle \subseteq Ids
        /\ UNCHANGED <<draft, lines, adds, idle, order, batches, cooked>>
    BY DEF DraftInv, TabsTyped, CreateLook
  <1> DEFINE q == tab[t]
             o == tab[t].order
  <1>2. q \in TabRows /\ TabFits(q) /\ tab \in [Tablets -> TabRows] /\ q.at = "locked"
    BY DEF DraftInv, TabsTyped, TabsFit, CreateLook
  <1>3. o \in Accounts /\ o # NoDraft
    BY <1>2 DEF TabRows, TabFits, TabShape, Locking
  <1>4. PICK e \in (IF LiveOf(o) = {} THEN {NoDraft} ELSE LiveOf(o)) :
           tab' = [tab EXCEPT ![t].at = "looked", ![t].found = e]
    BY DEF CreateLook
  <1>5. LiveOf(o) \subseteq {e} /\ (e # NoDraft => e \in News) /\ e \in Ids \cup {NoDraft}
    <2>1. \A a, b \in LiveOf(o) : a = b
      BY <1>1, <1>3 DEF AccountsFit, OneNew, LiveOf
    <2>2. \A a \in LiveOf(o) : a \in News /\ a \in Ids
      BY <1>1, <1>3 DEF AccountsFit, AccountFits, LiveOf
    <2> QED  BY <1>4, <2>1, <2>2
  <1> DEFINE r == [q EXCEPT !.at = "looked", !.found = e]
  <1>6. /\ r.at = "looked" /\ r.draft = q.draft /\ r.order = o /\ r.touch = q.touch /\ r.found = e
        /\ r.lines = q.lines /\ r.holds = q.holds
    BY <1>2 DEF TabRows
  <1>7. r \in TabRows
    BY <1>2, <1>5 DEF TabRows, Creating
  <1>8. tab' = [tab EXCEPT ![t] = r]
    BY <1>2, <1>4 DEF TabRows
  <1>9. q.order = o /\ \A u \in Tablets : u # t => q.holds \cap tab[u].holds = {}
    BY DEF DraftInv, TabsFit, Locks
  <1> HIDE DEF r, q, o
  <1>10. TabShape(r)
    BY <1>2, <1>6, <1>9 DEF TabFits, TabShape, Locking, Creating, Reading, Sending
  <1>11. ReadFits(r) /\ ViewFits(r) /\ LookFits(r)
    BY <1>5, <1>6 DEF ReadFits, ViewFits, LookFits, Reading, Sending
  <1>12. Takes(t, r)
    BY <1>6, <1>7, <1>8, <1>9, <1>10, <1>11 DEF Takes, TabFits
  <1> QED  BY <1>1, <1>7, <1>12, ReadsOnly DEF TabsMove, Effect
-----------------------------------------------------------------------------
(***************************************************************************)
(* The steps that change the accounts.                                     *)
(***************************************************************************)
\* The sweep discards accounts.
LEMMA SweptIs ==
    ASSUME draft' = Swept, UNCHANGED <<lines, adds, order, batches, cooked>>
    PROVE  Sweeps
  BY DEF Sweeps, Ended, Swept, ToSweep

\* Opening sweeps before it takes the account.
LEMMA CreateSays ==
    ASSUME DraftInv, NEW t \in Tablets, NEW d \in Ids, NEW x \in Touches, NEW o \in Accounts \cup {NoDraft},
           Create(t, d, x, o)
    PROVE  TabsMove /\ Effect
  <1> DEFINE r == [AtRest EXCEPT !.at = "create", !.draft = d, !.touch = x, !.order = o]
  <1>1. /\ r \in TabRows /\ r.at = "create" /\ r.draft = d /\ r.touch = x /\ r.order = o
        /\ r.lines = {} /\ r.holds = {}
    <2>1. /\ r.at = "create" /\ r.draft = d /\ r.touch = x /\ r.order = o /\ r.lines = {} /\ r.holds = {}
      BY DEF AtRest
    <2>2. r \in TabRows
      BY RestFits DEF TabRows, Creating
    <2> QED  BY <2>1, <2>2
  <1>2. tab' = [tab EXCEPT ![t] = r] /\ (d \in News <=> o # NoDraft)
    BY DEF Create
  <1> HIDE DEF r
  <1>3. TabFits(r)
    BY <1>1, <1>2
    DEF TabFits, TabShape, ReadFits, ViewFits, LookFits, Locking, Creating, Reading, Sending
  <1>4. Takes(t, r)
    BY <1>1, <1>2, <1>3 DEF Takes
  <1>5. Sweeps /\ idle' \subseteq Ids
    BY SweptIs DEF Create, DraftInv, TabsTyped
  <1> QED  BY <1>1, <1>4, <1>5 DEF TabsMove, Effect

\* A new account is opened, or nothing.
LEMMA CreateAccountSays ==
    ASSUME DraftInv, NEW t \in Tablets, CreateAccount(t)
    PROVE  TabsMove /\ Effect
  <1> DEFINE d == tab[t].draft
             x == tab[t].touch
  <1>1. tab[t] \in TabRows /\ TabFits(tab[t]) /\ idle \subseteq Ids /\ tab \in [Tablets -> TabRows]
    BY DEF DraftInv, TabsTyped, TabsFit
  <1>2. /\ tab[t].at = "create" /\ tab[t].order = NoDraft /\ Rest(t) /\ UNCHANGED <<order, batches, cooked>>
    BY DEF CreateAccount
  <1>3. d \in Ids /\ d \notin News /\ x \in Touches
    BY <1>1, <1>2 DEF TabFits, TabShape, Creating
  <1>4. CASE draft[d].status = "none" /\ ~Taken(d, x) /\ InsertDraft(d, x, NoDraft)
    <2>1. Opened(d, x, NoDraft) /\ idle' \subseteq Ids
      BY <1>1, <1>2, <1>3, <1>4 DEF Opened, Taken, InsertDraft
    <2>2. \A u \in Tablets : tab[u].at = "looked" => tab[u].order # NoDraft
      BY DEF DraftInv, TabsFit, TabFits, TabShape, Locking
    <2>3. OpensOne(t, d, x, NoDraft)
      BY <1>2, <2>1, <2>2 DEF OpensOne
    <2> QED  BY <1>2, <1>3, <2>1, <2>3, RestTakes DEF Opens, Effect
  <1>5. CASE UNCHANGED <<draft, lines, adds, idle>>
    <2>1. Idled /\ idle' \subseteq Ids
      BY <1>1, <1>2, <1>5 DEF Idled
    <2> QED  BY <1>2, <2>1, RestTakes DEF Effect
  <1> QED  BY <1>4, <1>5 DEF CreateAccount

\* The «Nuevo» found takes the touch; or one is opened, and the order had none; or nothing.
LEMMA CreateAddSays ==
    ASSUME DraftInv, NEW t \in Tablets, CreateAdd(t)
    PROVE  TabsMove /\ Effect
  <1> DEFINE d == tab[t].draft
             e == tab[t].found
             x == tab[t].touch
             o == tab[t].order
  <1>1. /\ Typed /\ AccountsFit /\ tab[t] \in TabRows /\ TabFits(tab[t]) /\ idle \subseteq Ids
        /\ tab[t].at = "looked" /\ Rest(t) /\ UNCHANGED <<order, batches, cooked>>
    BY DEF DraftInv, TabsTyped, TabsFit, CreateAdd
  <1>2. d \in Ids /\ x \in Touches /\ o \in Accounts /\ o # NoDraft /\ d \in News /\ e \in Ids \cup {NoDraft}
        /\ LiveOf(o) \subseteq {e} /\ tab[t].holds = {o}
    BY <1>1 DEF TabFits, TabShape, LookFits, Creating, Locking, TabRows
  <1>3. CASE StillLive(e) /\ draft[e].version < MaxVersion /\ AddDraftLine(e, x, MergeTarget(lines[e], x))
    <2>1. e \in Ids /\ Live(e)
      BY <1>2, <1>3 DEF StillLive
    <2>2. Edited(e) /\ TouchAdded(e, x) /\ idle' \subseteq idle
      BY <1>1, <1>2, <1>3, <2>1, AddIs
    <2>3. Adds /\ idle' \subseteq Ids
      BY <1>1, <1>2, <2>1, <2>2 DEF Adds
    <2> QED  BY <1>1, <2>3, RestTakes DEF Effect
  <1>4. CASE ~StillLive(e) /\ draft[d].status = "none" /\ ~Taken(d, x) /\ InsertDraft(d, x, o)
    <2>1. Opened(d, x, o) /\ idle' \subseteq Ids
      BY <1>1, <1>2, <1>4 DEF Opened, Taken, InsertDraft
    <2>2. LiveOf(o) = {}
      <3>1. \A a \in LiveOf(o) : Live(a) /\ a \in Ids
        BY DEF LiveOf
      <3>2. NoDraft \notin Ids
        BY DraftsAssumption DEF Ids
      <3> QED  BY <1>2, <1>4, <3>1, <3>2 DEF StillLive
    <2>3. ASSUME NEW u \in Tablets, u # t, tab[u].at = "looked" PROVE tab[u].order # o
      <3>1. tab[u].holds = {tab[u].order} /\ tab[u].holds \cap tab[t].holds = {}
        BY <2>3 DEF DraftInv, TabsFit, TabFits, TabShape, Locking, Locks
      <3> QED  BY <1>2, <3>1
    <2>4. OpensOne(t, d, x, o)
      BY <1>1, <2>1, <2>2, <2>3 DEF OpensOne
    <2> QED  BY <1>1, <1>2, <2>1, <2>4, RestTakes DEF Opens, Effect
  <1>5. CASE UNCHANGED <<draft, lines, adds, idle>>
    <2>1. Idled /\ idle' \subseteq Ids
      BY <1>1, <1>5 DEF Idled
    <2> QED  BY <1>1, <2>1, RestTakes DEF Effect
  <1> QED  BY <1>3, <1>4, <1>5 DEF CreateAdd

\* An account is sent as it was read, or nothing is.
LEMMA CommitSays ==
    ASSUME DraftInv, NEW t \in Tablets, SendCommit(t)
    PROVE  TabsMove /\ Effect
  <1>1. Rest(t) /\ UNCHANGED <<adds, idle>> /\ idle' \subseteq Ids
    BY DEF SendCommit, DraftInv, TabsTyped
  <1>2. tab[t].at \in {"prepared", "sendlocked"}
    BY DEF SendCommit
  <1>3. CASE AsRead(t) /\ tab[t].order = NoDraft /\ SendAccount(t)
    BY <1>1, <1>2, <1>3, RestTakes DEF Sends, SentBy, Effect
  <1>4. CASE AsRead(t) /\ tab[t].order # NoDraft /\ SendNew(t)
    BY <1>1, <1>2, <1>4, RestTakes DEF Sends, SentBy, Effect
  <1>5. CASE UNCHANGED <<draft, lines, order, batches, cooked>>
    BY <1>1, <1>5, RestTakes DEF Idled, Effect
  <1> QED  BY <1>3, <1>4, <1>5 DEF SendCommit

\* A tablet edits what it sees.
LEMMA EditSays ==
    ASSUME DraftInv, NEW t \in Tablets, Edit(t)
    PROVE  TabsMove /\ Effect
  <1>1. EditsSeen(t) /\ idle' \subseteq Ids /\ Rest(t)
    BY EditIs DEF EditsSeen, Rest, DraftInv, TabsTyped
  <1> QED  BY <1>1, RestTakes DEF Effect

\* What no tablet waits for: a product added, the sweep, an order voided, the hours.
LEMMA OthersSay ==
    ASSUME DraftInv,
           (\E d \in Ids, x \in Touches : AddLine(d, x)) \/ (\E o \in Accounts : Void(o)) \/ List \/ HoursPass
    PROVE  TabsMove /\ Effect
  <1>1. Typed /\ AccountsFit /\ idle \subseteq Ids
    BY DEF DraftInv, TabsTyped
  <1>2. ASSUME NEW d \in Ids, NEW x \in Touches, AddLine(d, x)
        PROVE  TabsMove /\ Effect
    <2>1. /\ Live(d) /\ draft[d].version < MaxVersion /\ UNCHANGED <<order, batches, cooked>> /\ tab' = tab
          /\ \/ AddDraftLine(d, x, MergeTarget(lines[d], x))
             \/ \E l \in lines[d] : AddDraftLine(d, x, {l})
      BY <1>2 DEF AddLine
    <2>2. PICK targets : /\ targets = MergeTarget(lines[d], x) \/ (\E l \in lines[d] : targets = {l})
                         /\ AddDraftLine(d, x, targets)
      BY <2>1
    <2>3. Edited(d) /\ TouchAdded(d, x) /\ idle' \subseteq idle
      BY <1>1, <2>1, <2>2, AddIs
    <2> QED  BY <1>1, <2>1, <2>3 DEF Adds, Effect, TabsMove
  <1>3. ASSUME NEW o \in Accounts, Void(o)
        PROVE  TabsMove /\ Effect
    <2>1. Idled /\ tab' = tab /\ idle' \subseteq Ids
      BY <1>1, <1>3 DEF Void, Idled
    <2> QED  BY <2>1 DEF Effect, TabsMove
  <1>4. CASE List
    <2>1. Sweeps /\ tab' = tab /\ idle' \subseteq Ids
      BY <1>1, <1>4, SweptIs DEF List
    <2> QED  BY <2>1 DEF Effect, TabsMove
  <1>5. CASE HoursPass
    <2>1. Idled /\ tab' = tab /\ idle' \subseteq Ids
      BY <1>5 DEF HoursPass, Idled
    <2> QED  BY <2>1 DEF Effect, TabsMove
  <1> QED  BY <1>2, <1>3, <1>4, <1>5

\* Every step, in those terms.
LEMMA StepSays ==
    ASSUME DraftInv, Next
    PROVE  TabsMove /\ Effect
  <1>1. ASSUME NEW t \in Tablets, Step(t)
        PROVE  TabsMove /\ Effect
    <2>1. ASSUME NEW d \in Ids, View(t, d) \/ SendRead(t, d) PROVE TabsMove /\ Effect
      BY <2>1, ViewSays
    <2>2. ASSUME NEW d \in Ids, NEW x \in Touches, NEW o \in Accounts \cup {NoDraft}, Create(t, d, x, o)
          PROVE  TabsMove /\ Effect
      BY <2>2, CreateSays
    <2>3. CASE ViewLines(t) \/ SendLines(t)
      BY <2>3, ReadLinesSays
    <2>4. CASE SendLock(t) \/ CreateLock(t)
      BY <2>4, LockSays
    <2>5. CASE Edit(t)
      BY <2>5, EditSays
    <2>6. CASE CreateAccount(t)
      BY <2>6, CreateAccountSays
    <2>7. CASE CreateLook(t)
      BY <2>7, LookSays
    <2>8. CASE CreateAdd(t)
      BY <2>8, CreateAddSays
    <2>9. CASE SendCommit(t)
      BY <2>9, CommitSays
    <2> QED  BY <1>1, <2>1, <2>2, <2>3, <2>4, <2>5, <2>6, <2>7, <2>8, <2>9 DEF Step
  <1> QED  BY <1>1, OthersSay DEF Next

\* The invariant, of every state that is reached.
LEMMA DraftInvariant == Spec => []DraftInv
  <1>1. DraftInv /\ [Next]_vars => DraftInv'
    <2> SUFFICES ASSUME DraftInv, [Next]_vars PROVE DraftInv'
      OBVIOUS
    <2>1. CASE Next
      BY <2>1, StepSays, EffectKeeps
    <2>2. CASE UNCHANGED vars
      <3>1. TabsMove /\ Effect
        BY <2>2 DEF vars, TabsMove, Effect, Idled, DraftInv, TabsTyped
      <3> QED  BY <3>1, EffectKeeps
    <2> QED  BY <2>1, <2>2
  <1> QED  BY DraftInitially, <1>1, PTL DEF Spec

\* The types, and one live «Nuevo» an order at most: the lock of the order is enough, the unique index
\* of live ones has nothing to refuse (createNewOfOrder).
THEOREM DraftsTyped == Spec => []TypeOK
  <1>1. DraftInv => TypeOK
    <2> SUFFICES ASSUME DraftInv PROVE TypeOK
      OBVIOUS
    <2>1. OneNew
      BY DEF DraftInv, AccountsFit
    <2>2. ASSUME NEW d \in Ids, NEW l \in lines[d] PROVE LineType(l)
      BY DEF DraftInv, Typed, AccountsFit, LinesFit, LineType, LineRows
    <2>3. ASSUME NEW t \in Tablets
          PROVE  /\ tab[t].draft \in Ids \cup {NoDraft} /\ tab[t].holds \subseteq Ids
                 /\ \A l \in tab[t].lines : LineType(l)
      <3>1. tab[t] \in TabRows /\ TabShape(tab[t])
        BY DEF DraftInv, TabsTyped, TabsFit, TabFits
      <3>2. tab[t].lines \subseteq LineRows /\ \A l \in tab[t].lines : l.of # {}
        BY <3>1 DEF TabRows, TabShape
      <3> QED  BY <3>1, <3>2 DEF TabRows, LineType, LineRows, Ids
    <2>4. cooked \in [Touches -> Nat]
      BY DEF DraftInv, Typed
    <2> QED  BY <2>1, <2>2, <2>3, <2>4
             DEF DraftInv, Typed, TabsTyped, TypeOK, OneNew, DraftRows, OrderRows, Versions
  <1> QED  BY DraftInvariant, <1>1, PTL

\* A tablet that sends and one that adds to the same order never wait for each other: what a tablet
\* holds is an order, and who holds one waits only for a «Nuevo» (sendNew, createNewOfOrder).
THEOREM TabletsNeverCross == Spec => []NoWaitCycle
  <1>1. DraftInv => NoWaitCycle
    <2> SUFFICES ASSUME DraftInv, NEW t \in Tablets, NEW u \in Tablets,
                        Wants(t) \cap tab[u].holds # {}, Wants(u) \cap tab[t].holds # {}
                 PROVE  FALSE
      BY DEF NoWaitCycle
    <2>1. tab[t] \in TabRows /\ TabShape(tab[t]) /\ LookFits(tab[t]) /\ tab[u] \in TabRows
      BY DEF DraftInv, TabsTyped, TabsFit, TabFits
    <2>2. tab[t].holds # {} /\ tab[u].holds \subseteq Accounts
      BY <2>1 DEF TabRows
    <2>3. tab[t].at \in Locking /\ tab[t].holds = {tab[t].order} /\ tab[t].order # NoDraft
      BY <2>1, <2>2 DEF TabShape
    <2>4. Wants(t) \subseteq News
      <3>1. CASE tab[t].at = "locked"
        BY <3>1 DEF Wants
      <3>2. CASE tab[t].at = "looked"
        BY <2>1, <3>2 DEF Wants, LookFits
      <3>3. CASE tab[t].at = "sendlocked"
        <4>1. tab[t].draft \in News
          BY <2>1, <2>3, <3>3 DEF TabShape, Sending
        <4>2. Wants(t) \subseteq {tab[t].draft}
          BY <2>3, <3>3 DEF Wants, SendRows
        <4> QED  BY <4>1, <4>2
      <3> QED  BY <2>3, <3>1, <3>2, <3>3 DEF Locking
    <2> QED  BY <2>2, <2>4, DraftsAssumption
  <1> QED  BY DraftInvariant, <1>1, PTL

\* Only a send makes a live account a sent one.
LEMMA OnlySends ==
    ASSUME DraftInv, Effect, NEW d \in Ids, Live(d), draft'[d].status = "sent"
    PROVE  \E t \in Tablets : Sends(t)
  <1>1. Typed /\ AccountsFit /\ draft[d].status = "live"
    BY DEF DraftInv, Live
  <1>2. ASSUME NEW e \in Ids, AccountEdited(e) PROVE FALSE
    <2>1. draft'[e].status = "live" /\ \A c \in Ids : c # e => draft'[c] = draft[c]
      BY <1>1, <1>2, EditedSays DEF AccountsFit, AccountEdited
    <2> QED  BY <1>1, <2>1
  <1>3. ASSUME NEW some, Ended(some) PROVE FALSE
    <2>1. draft'[d].status = IF d \in some THEN "discarded" ELSE draft[d].status
      BY <1>1, <1>3, EndedSays
    <2> QED  BY <1>1, <2>1
  <1>4. ASSUME NEW t \in Tablets, Opens(t) PROVE FALSE
    <2>1. PICK e \in Ids, x \in Touches, o \in Accounts \cup {NoDraft} : Opened(e, x, o)
      BY <1>4 DEF Opens, OpensOne
    <2>2. draft'[d].status \in {"live", draft[d].status}
      BY <1>1, <2>1 DEF Opened, InsertDraft, Typed
    <2> QED  BY <1>1, <2>2
  <1>5. CASE Adds
    BY <1>2, <1>5 DEF Adds, AccountEdited
  <1>6. CASE Sweeps
    BY <1>3, <1>6 DEF Sweeps
  <1>7. CASE Idled
    BY <1>1, <1>7 DEF Idled
  <1>8. ASSUME NEW t \in Tablets, EditsSeen(t) PROVE FALSE
    BY <1>2, <1>3, <1>8 DEF EditsSeen
  <1> QED  BY <1>4, <1>5, <1>6, <1>7, <1>8 DEF Effect

\* An account that is sent takes to the kitchen the lines it has, and a new one its header, although
\* trySend reads both before it locks the account.
THEOREM SentIsWhatIsStored == Spec => SendsWhatIsStored
  <1>1. DraftInv /\ [Next]_vars =>
           [\A d \in Ids : Live(d) /\ draft'[d].status = "sent" =>
               /\ {x \in Touches : cooked'[x] # cooked[x]} = TouchesOf(lines[d])
               /\ d \in Accounts => order'[d].header = draft[d].header]_vars
    <2> SUFFICES ASSUME DraftInv, Next, NEW d \in Ids, Live(d), draft'[d].status = "sent"
                 PROVE  /\ {x \in Touches : cooked'[x] # cooked[x]} = TouchesOf(lines[d])
                        /\ d \in Accounts => order'[d].header = draft[d].header
      OBVIOUS
    <2>1. PICK t \in Tablets : SentBy(t)
      BY StepSays, OnlySends DEF Sends
    <2>2. Typed /\ AccountsFit /\ tab[t] \in TabRows /\ TabFits(tab[t])
      BY DEF DraftInv, TabsTyped, TabsFit
    <2> DEFINE e == tab[t].draft
    <2>3. /\ e \in Ids /\ Live(e) /\ \A c \in Ids : c # e => draft'[c] = draft[c]
          /\ Cook(lines[e]) /\ (e \in Accounts => order'[e].header = draft[e].header)
      BY <2>1, <2>2, SentSays
    <2> HIDE DEF e
    <2>4. d = e
      BY <2>3 DEF Live
    <2>5. /\ \A x \in TouchesOf(lines[d]) : x \in Touches /\ cooked[x] = 0
          /\ \A x \in Touches : cooked'[x] = IF x \in TouchesOf(lines[d]) THEN 1 ELSE cooked[x]
      BY <2>2, <2>3, <2>4, CookSays
    <2> QED  BY <2>3, <2>4, <2>5
  <1> QED  BY DraftInvariant, <1>1, PTL DEF Spec, SendsWhatIsStored
-----------------------------------------------------------------------------
(***************************************************************************)
(* The ledger of touches.                                                  *)
(***************************************************************************)
\* The touches an account has.
In(d) == IF Live(d) THEN TouchesOf(lines[d]) ELSE {}

\* A touch is in the account that took it and went to the kitchen once at most, and never while it is held.
FatesRead ==
    /\ \A d \in Ids : \A x \in In(d) : x \in Touches /\ adds[x] = d
    /\ \A x \in Touches : Held(x) <=> \E d \in Ids : x \in In(d)
    /\ \A x \in Touches : Fate[x] = IF cooked[x] = 1 THEN "cooked" ELSE IF Held(x) THEN "held"
                                   ELSE IF adds[x] # NoDraft THEN "dropped" ELSE "unborn"
    /\ \A x \in Touches : cooked[x] \in {0, 1} /\ (Held(x) => cooked[x] = 0)
    /\ \A x \in Touches : adds[x] = NoDraft => cooked[x] = 0 /\ ~Held(x)

\* So the fate of a touch is read.
LEMMA FateIs == DraftInv => FatesRead
  <1> SUFFICES ASSUME DraftInv PROVE FatesRead
    OBVIOUS
  <1>1. ASSUME NEW d \in Ids, NEW x \in In(d) PROVE x \in Touches /\ adds[x] = d /\ Live(d)
    <2>1. PICK l \in lines[d] : x \in l.of /\ Live(d)
      BY DEF In, TouchesOf
    <2> QED  BY <2>1 DEF DraftInv, Typed, AccountsFit, LinesFit, LineRows
  <1>2. \A x \in Touches : Held(x) <=> \E d \in Ids : x \in In(d)
    BY DEF Held, In
  <1>3. ASSUME NEW x \in Touches
        PROVE  /\ cooked[x] \in {0, 1} /\ (Held(x) => cooked[x] = 0)
               /\ adds[x] = NoDraft => cooked[x] = 0 /\ ~Held(x)
    <2>1. cooked[x] \in {0, 1} /\ (cooked[x] = 1 => adds[x] # NoDraft /\ draft[adds[x]].status = "sent")
      BY DEF DraftInv, Typed, AccountsFit, CookedFits
    <2>2. NoDraft \notin Ids
      BY DraftsAssumption DEF Ids
    <2> QED  BY <1>1, <1>2, <2>1, <2>2 DEF Live
  <1>4. ASSUME NEW x \in Touches
        PROVE  Fate[x] = IF cooked[x] = 1 THEN "cooked" ELSE IF Held(x) THEN "held"
                         ELSE IF adds[x] # NoDraft THEN "dropped" ELSE "unborn"
    BY <1>3 DEF Fate
  <1> QED  BY <1>1, <1>2, <1>3, <1>4 DEF FatesRead

\* Before a step and after it.
LEMMA FatesReadTwice == DraftInv /\ DraftInv' => FatesRead /\ FatesRead'
  BY FateIs, PTL

\* Some touches go from one fate to the next.
Moved(some, from, to) ==
    \A x \in Touches : IF x \in some THEN Fate[x] = from /\ Fate'[x] = to ELSE Fate'[x] = Fate[x]

\* A step that takes touches out of accounts, and nowhere, drops them.
LEMMA DropMoves ==
    ASSUME FatesRead, FatesRead', \A d \in Ids : In(d)' \subseteq In(d), UNCHANGED <<adds, cooked>>
    PROVE  /\ Moved(LostNow, "held", "dropped")
           /\ \A x \in LostNow : \E d \in Ids : d = adds[x] /\ x \in In(d) /\ x \notin In(d)'
  <1>1. ASSUME NEW x \in Touches
        PROVE  /\ Fate'[x] = Fate[x] \/ (Fate[x] = "held" /\ Fate'[x] = "dropped")
               /\ x \in LostNow => \E d \in Ids : d = adds[x] /\ x \in In(d) /\ x \notin In(d)'
    <2>1. (Held(x)' => Held(x)) /\ (Held(x) => adds[x] # NoDraft /\ cooked[x] = 0)
      BY DEF FatesRead
    <2>2. /\ Fate[x] = IF cooked[x] = 1 THEN "cooked" ELSE IF Held(x) THEN "held"
                       ELSE IF adds[x] # NoDraft THEN "dropped" ELSE "unborn"
          /\ Fate'[x] = IF cooked[x] = 1 THEN "cooked" ELSE IF Held(x)' THEN "held"
                        ELSE IF adds[x] # NoDraft THEN "dropped" ELSE "unborn"
      BY DEF FatesRead
    <2>3. ASSUME x \in LostNow PROVE Held(x) /\ ~Held(x)'
      BY <2>2, <2>3 DEF LostNow
    <2>4. ASSUME Held(x), ~Held(x)' PROVE \E d \in Ids : d = adds[x] /\ x \in In(d) /\ x \notin In(d)'
      BY <2>4 DEF FatesRead
    <2> QED  BY <2>1, <2>2, <2>3, <2>4
  <1>2. LostNow \subseteq Touches
    BY DEF LostNow
  <1> QED  BY <1>1, <1>2 DEF Moved, LostNow

\* A step that puts in an account a touch none had taken captures it.
LEMMA CaptureMoves ==
    ASSUME FatesRead, FatesRead', NEW d \in Ids, NEW x \in Touches, adds[x] = NoDraft, adds'[x] = d,
           \A y \in Touches : y # x => adds'[y] = adds[y],
           In(d)' = In(d) \cup {x}, \A e \in Ids : e # d => In(e)' = In(e), cooked' = cooked
    PROVE  Moved({x}, "unborn", "held") /\ LostNow = {}
  <1>1. ASSUME NEW y \in Touches
        PROVE  /\ Fate[y] = IF cooked[y] = 1 THEN "cooked" ELSE IF Held(y) THEN "held"
                            ELSE IF adds[y] # NoDraft THEN "dropped" ELSE "unborn"
               /\ Fate'[y] = IF cooked[y] = 1 THEN "cooked" ELSE IF Held(y)' THEN "held"
                             ELSE IF adds'[y] # NoDraft THEN "dropped" ELSE "unborn"
    BY DEF FatesRead
  <1>2. Held(x)' /\ ~Held(x) /\ cooked[x] = 0
    BY DEF FatesRead
  <1>3. \A y \in Touches : y # x => (Held(y)' <=> Held(y))
    BY DEF FatesRead
  <1>4. ASSUME NEW y \in Touches
        PROVE  IF y = x THEN Fate[y] = "unborn" /\ Fate'[y] = "held" ELSE Fate'[y] = Fate[y]
    BY <1>1, <1>2, <1>3
  <1> QED  BY <1>4 DEF Moved, LostNow

\* A step that takes to the kitchen the touches of an account cooks them.
LEMMA CookMoves ==
    ASSUME FatesRead, FatesRead', NEW d \in Ids, In(d)' = {}, \A e \in Ids : e # d => In(e)' = In(e), adds' = adds,
           \A x \in Touches : cooked'[x] = IF x \in In(d) THEN 1 ELSE cooked[x]
    PROVE  Moved(In(d), "held", "cooked") /\ LostNow = {}
  <1>1. ASSUME NEW y \in Touches
        PROVE  /\ Fate[y] = IF cooked[y] = 1 THEN "cooked" ELSE IF Held(y) THEN "held"
                            ELSE IF adds[y] # NoDraft THEN "dropped" ELSE "unborn"
               /\ Fate'[y] = IF cooked'[y] = 1 THEN "cooked" ELSE IF Held(y)' THEN "held"
                             ELSE IF adds[y] # NoDraft THEN "dropped" ELSE "unborn"
    BY DEF FatesRead
  <1>2. \A y \in In(d) : y \in Touches /\ Held(y) /\ cooked[y] = 0 /\ cooked'[y] = 1
    BY DEF FatesRead
  <1>3. \A y \in Touches : y \notin In(d) => (Held(y)' <=> Held(y)) /\ cooked'[y] = cooked[y]
    BY DEF FatesRead
  <1>4. ASSUME NEW y \in Touches
        PROVE  IF y \in In(d) THEN Fate[y] = "held" /\ Fate'[y] = "cooked" ELSE Fate'[y] = Fate[y]
    BY <1>1, <1>2, <1>3
  <1> QED  BY <1>4 DEF Moved, LostNow

\* What an addition leaves in the account.
LEMMA AddedIn ==
    ASSUME Typed, AccountsFit, NEW d \in Ids, NEW x \in Touches, Edited(d), TouchAdded(d, x)
    PROVE  /\ In(d)' = In(d) \cup {x} /\ \A e \in Ids : e # d => In(e)' = In(e)
           /\ adds[x] = NoDraft /\ adds' = [adds EXCEPT ![x] = d] /\ cooked' = cooked
  <1>1. /\ \A e \in Ids : e # d => draft'[e] = draft[e] /\ lines'[e] = lines[e]
        /\ draft'[d].status = "live" /\ draft[d].status = "live" /\ cooked' = cooked
    BY EditedSays DEF AccountsFit, Edited, Live
  <1>2. PICK targets \in SUBSET lines[d] : lines' = [lines EXCEPT ![d] = WithTouch(@, x, targets)] /\ \A k, l \in targets : k = l
    BY DEF TouchAdded
  <1>3. lines'[d] = WithTouch(lines[d], x, targets) /\ lines[d] \subseteq LineRows
    BY <1>2 DEF Typed
  <1>4. TouchesOf(lines'[d]) = TouchesOf(lines[d]) \cup {x}
    <2>1. CASE targets = {}
      <3> DEFINE n == [id |-> x, of |-> {x}, version |-> 1]
      <3>1. lines'[d] = lines[d] \cup {n} /\ n.of = {x}
        BY <1>3, <2>1 DEF WithTouch
      <3> HIDE DEF n
      <3> QED  BY <3>1 DEF TouchesOf
    <2>2. CASE targets # {}
      <3>1. PICK l \in lines[d] : targets = {l}
        BY <1>2, <2>2
      <3> DEFINE u == [l EXCEPT !.of = @ \cup {x}, !.version = @ + 1]
      <3>2. lines'[d] = (lines[d] \ {l}) \cup {u}
        BY <1>3, <3>1 DEF WithTouch
      <3>3. u.of = l.of \cup {x}
        BY <1>3 DEF LineRows
      <3> HIDE DEF u
      <3> QED  BY <3>2, <3>3 DEF TouchesOf
    <2> QED  BY <2>1, <2>2
  <1>5. In(d)' = In(d) \cup {x}
    BY <1>1, <1>4 DEF In, Live
  <1>6. \A e \in Ids : e # d => In(e)' = In(e)
    BY <1>1 DEF In, Live
  <1> QED  BY <1>1, <1>5, <1>6 DEF TouchAdded

\* A line cut is of the account, and its touches stay its own.
LEMMA CutSays ==
    ASSUME NEW d, NEW l, LineCut(d, l)
    PROVE  l \in lines[d] /\ adds' = adds
  BY DEF LineCut

\* What a line cut, or nothing, leaves in the account: what goes was in that line.
LEMMA CutIn ==
    ASSUME Typed, AccountsFit, NEW d \in Ids, Edited(d), NEW cut \in SUBSET LineRows,
           UNCHANGED <<lines, adds>> \/ \E l \in cut : LineCut(d, l)
    PROVE  /\ \A e \in Ids : In(e)' \subseteq In(e) /\ \A x \in In(e) : x \in In(e)' \/ x \in TouchesOf(cut)
           /\ UNCHANGED <<adds, cooked>>
  <1>1. /\ \A e \in Ids : e # d => draft'[e] = draft[e] /\ lines'[e] = lines[e]
        /\ draft'[d].status = "live" /\ draft[d].status = "live" /\ cooked' = cooked
    BY EditedSays DEF AccountsFit, Edited, Live
  <1>2. \A e \in Ids : e # d => In(e)' = In(e)
    BY <1>1 DEF In, Live
  <1>3. In(d)' = TouchesOf(lines'[d]) /\ In(d) = TouchesOf(lines[d])
    BY <1>1 DEF In, Live
  <1>4. ASSUME NEW l \in cut, LineCut(d, l)
        PROVE  /\ TouchesOf(lines'[d]) \subseteq TouchesOf(lines[d])
               /\ \A x \in TouchesOf(lines[d]) : x \in TouchesOf(lines'[d]) \/ x \in TouchesOf(cut)
    <2>1. l \in lines[d] /\ l \in LineRows
      BY <1>4, CutSays
    <2>2. CASE LineGoes(d, l)
      <3>1. lines'[d] = lines[d] \ {l}
        BY <2>2 DEF LineGoes, Typed
      <3> QED  BY <2>1, <3>1 DEF TouchesOf
    <2>3. ASSUME NEW keep \in SUBSET l.of, LineKeeps(d, l, keep)
          PROVE  /\ TouchesOf(lines'[d]) \subseteq TouchesOf(lines[d])
                 /\ \A x \in TouchesOf(lines[d]) : x \in TouchesOf(lines'[d]) \/ x \in TouchesOf(cut)
      <3> DEFINE u == [l EXCEPT !.of = keep, !.version = @ + 1]
      <3>1. lines'[d] = (lines[d] \ {l}) \cup {u} /\ u.of = keep
        BY <2>1, <2>3 DEF LineKeeps, Typed, LineRows
      <3> HIDE DEF u
      <3>2. TouchesOf(lines'[d]) \subseteq TouchesOf(lines[d])
        BY <2>1, <3>1 DEF TouchesOf
      <3>3. ASSUME NEW x \in TouchesOf(lines[d]) PROVE x \in TouchesOf(lines'[d]) \/ x \in TouchesOf(cut)
        <4>1. PICK k \in lines[d] : x \in k.of
          BY DEF TouchesOf
        <4> QED  BY <1>4, <3>1, <4>1 DEF TouchesOf
      <3> QED  BY <3>2, <3>3
    <2> QED  BY <1>4, <2>2, <2>3 DEF LineCut
  <1>5. /\ TouchesOf(lines'[d]) \subseteq TouchesOf(lines[d])
        /\ \A x \in TouchesOf(lines[d]) : x \in TouchesOf(lines'[d]) \/ x \in TouchesOf(cut)
    <2>1. CASE UNCHANGED lines
      BY <2>1
    <2>2. CASE \E l \in cut : LineCut(d, l)
      BY <1>4, <2>2
    <2> QED  BY <2>1, <2>2
  <1>6. adds' = adds
    BY CutSays
  <1> QED  BY <1>1, <1>2, <1>3, <1>5, <1>6

\* What accounts that end leave.
LEMMA EndedIn ==
    ASSUME Typed, NEW some, Ended(some)
    PROVE  /\ \A e \in Ids : In(e)' = IF e \in some THEN {} ELSE In(e)
           /\ UNCHANGED <<adds, cooked>>
  <1>1. /\ \A d \in Ids : draft'[d].status = IF d \in some THEN "discarded" ELSE draft[d].status
        /\ UNCHANGED <<lines, adds, cooked>>
    BY EndedSays
  <1> QED  BY <1>1 DEF In, Live

\* What an account opened has.
LEMMA OpenedIn ==
    ASSUME Typed, NEW d \in Ids, NEW x \in Touches, NEW o, Opened(d, x, o)
    PROVE  /\ In(d)' = In(d) \cup {x} /\ \A e \in Ids : e # d => In(e)' = In(e)
           /\ adds[x] = NoDraft /\ adds' = [adds EXCEPT ![x] = d] /\ cooked' = cooked
  <1> DEFINE n == [id |-> x, of |-> {x}, version |-> 1]
  <1>1. /\ draft[d].status = "none" /\ adds[x] = NoDraft /\ adds' = [adds EXCEPT ![x] = d] /\ cooked' = cooked
        /\ draft' = [draft EXCEPT ![d] = [status |-> "live", order |-> o, version |-> 1, header |-> 0]]
        /\ lines' = [lines EXCEPT ![d] = {n}] /\ n.of = {x}
    BY DEF Opened, InsertDraft, WithTouch
  <1> HIDE DEF n
  <1>2. /\ draft'[d].status = "live" /\ lines'[d] = {n}
        /\ \A e \in Ids : e # d => draft'[e] = draft[e] /\ lines'[e] = lines[e]
    BY <1>1 DEF Typed
  <1>3. In(d) = {} /\ In(d)' = TouchesOf(lines'[d])
    BY <1>1, <1>2 DEF In, Live
  <1>4. TouchesOf(lines'[d]) = {x}
    BY <1>1, <1>2 DEF TouchesOf
  <1>5. \A e \in Ids : e # d => In(e)' = In(e)
    BY <1>2 DEF In, Live
  <1> QED  BY <1>1, <1>3, <1>4, <1>5
-----------------------------------------------------------------------------
\* What a step throws away was seen by the tablet that threw it away, or its account was idle or of a
\* voided order.
SeenOrIdle ==
    LostNow # {} =>
        \/ \E t \in Tablets : tab[t].at = "view" /\ tab'[t] # tab[t] /\ LostNow \subseteq TouchesOf(tab[t].lines)
        \/ \A x \in LostNow : adds[x] \in idle \/ Voided(adds[x])

\* A step captures one touch, cooks those of an account or drops some.
MovesOnce ==
    \/ \E x \in Touches : Moved({x}, "unborn", "held")
    \/ \E some \in SUBSET Touches : Moved(some, "held", "cooked")
    \/ \E some \in SUBSET Touches : Moved(some, "held", "dropped")

\* Every step does, and drops only that.
LEMMA EffectMoves ==
    ASSUME DraftInv, DraftInv', Effect
    PROVE  MovesOnce /\ SeenOrIdle
  <1>1. Typed /\ AccountsFit /\ FatesRead /\ FatesRead' /\ adds \in [Touches -> Ids \cup {NoDraft}]
    BY FatesReadTwice DEF DraftInv, Typed
  <1>2. LostNow \in SUBSET Touches
    BY DEF LostNow
  <1>3. ASSUME NEW d \in Ids, NEW x \in Touches,
               In(d)' = In(d) \cup {x}, \A e \in Ids : e # d => In(e)' = In(e),
               adds[x] = NoDraft, adds' = [adds EXCEPT ![x] = d], cooked' = cooked
        PROVE  MovesOnce /\ SeenOrIdle
    <2>1. adds'[x] = d /\ \A y \in Touches : y # x => adds'[y] = adds[y]
      BY <1>1, <1>3
    <2>2. Moved({x}, "unborn", "held") /\ LostNow = {}
      BY <1>1, <1>3, <2>1, CaptureMoves
    <2> QED  BY <2>2 DEF MovesOnce, SeenOrIdle
  <1>4. CASE Adds
    <2>1. PICK d \in Ids, x \in Touches : Edited(d) /\ TouchAdded(d, x)
      BY <1>4 DEF Adds
    <2> QED  BY <1>1, <1>3, <2>1, AddedIn
  <1>5. CASE Sweeps
    <2>1. /\ \A e \in Ids : In(e)' = IF e \in ToSweep THEN {} ELSE In(e)
          /\ UNCHANGED <<adds, cooked>>
      BY <1>1, <1>5, EndedIn DEF Sweeps
    <2>2. /\ Moved(LostNow, "held", "dropped")
          /\ \A x \in LostNow : \E d \in Ids : d = adds[x] /\ x \in In(d) /\ x \notin In(d)'
      BY <1>1, <2>1, DropMoves
    <2>3. \A x \in LostNow : adds[x] \in ToSweep
      BY <2>1, <2>2
    <2>4. \A x \in LostNow : adds[x] \in idle \/ Voided(adds[x])
      BY <2>3 DEF ToSweep
    <2> QED  BY <1>2, <2>2, <2>4 DEF MovesOnce, SeenOrIdle
  <1>6. CASE Idled
    <2>1. (\A e \in Ids : In(e)' = In(e)) /\ UNCHANGED <<adds, cooked>>
      BY <1>6 DEF Idled, In, Live
    <2>2. /\ Moved(LostNow, "held", "dropped")
          /\ \A x \in LostNow : \E d \in Ids : d = adds[x] /\ x \in In(d) /\ x \notin In(d)'
      BY <1>1, <2>1, DropMoves
    <2> QED  BY <1>2, <2>1, <2>2 DEF MovesOnce, SeenOrIdle
  <1>7. ASSUME NEW t \in Tablets, EditsSeen(t)
        PROVE  MovesOnce /\ SeenOrIdle
    <2> DEFINE d == tab[t].draft
    <2>1. /\ d \in Ids /\ tab[t].at = "view" /\ tab'[t] # tab[t]
          /\ tab[t].lines \subseteq LineRows
      BY <1>7, RestFits DEF EditsSeen, Rest, DraftInv, TabsTyped, TabRows
    <2>2. /\ \A e \in Ids : In(e)' \subseteq In(e) /\ \A x \in In(e) : x \in In(e)' \/ x \in TouchesOf(tab[t].lines)
          /\ UNCHANGED <<adds, cooked>>
      <3>1. CASE AccountEdited(d) /\ (UNCHANGED <<lines, adds>> \/ \E l \in tab[t].lines : LineCut(d, l))
        BY <1>1, <2>1, <3>1, CutIn DEF AccountEdited
      <3>2. CASE Ended({d}) /\ lines[d] = tab[t].lines
        <4>1. /\ \A e \in Ids : In(e)' = IF e = d THEN {} ELSE In(e)
              /\ UNCHANGED <<adds, cooked>>
          BY <1>1, <3>2, EndedIn
        <4>2. In(d) \subseteq TouchesOf(tab[t].lines)
          BY <3>2 DEF In
        <4> HIDE DEF d
        <4> QED  BY <4>1, <4>2
      <3> QED  BY <1>7, <3>1, <3>2 DEF EditsSeen
    <2>3. /\ Moved(LostNow, "held", "dropped")
          /\ \A x \in LostNow : \E e \in Ids : e = adds[x] /\ x \in In(e) /\ x \notin In(e)'
      BY <1>1, <2>2, DropMoves
    <2>4. LostNow \subseteq TouchesOf(tab[t].lines)
      BY <2>2, <2>3
    <2> QED  BY <1>2, <2>1, <2>3, <2>4 DEF MovesOnce, SeenOrIdle
  <1>8. ASSUME NEW t \in Tablets, Opens(t)
        PROVE  MovesOnce /\ SeenOrIdle
    <2>1. PICK d \in Ids, x \in Touches, o \in Accounts \cup {NoDraft} : Opened(d, x, o)
      BY <1>8 DEF Opens, OpensOne
    <2> QED  BY <1>1, <1>3, <2>1, OpenedIn
  <1>9. ASSUME NEW t \in Tablets, Sends(t)
        PROVE  MovesOnce /\ SeenOrIdle
    <2>1. tab[t] \in TabRows /\ TabFits(tab[t]) /\ SentBy(t)
      BY <1>9 DEF DraftInv, TabsTyped, TabsFit, Sends
    <2>2. PICK d \in Ids :
          /\ d \in Ids /\ Live(d) /\ draft'[d].status = "sent" /\ adds' = adds
          /\ \A e \in Ids : e # d => draft'[e] = draft[e]
          /\ \A e \in Ids : lines'[e] = IF e = d THEN {} ELSE lines[e]
          /\ Cook(lines[d])
      BY <1>1, <2>1, SentSays
    <2>3. \A x \in Touches : cooked'[x] = IF x \in TouchesOf(lines[d]) THEN 1 ELSE cooked[x]
      BY <1>1, <2>2, CookSays
    <2>4. /\ In(d) = TouchesOf(lines[d]) /\ In(d)' = {} /\ \A e \in Ids : e # d => In(e)' = In(e)
      BY <2>2 DEF In, Live
    <2>5. Moved(In(d), "held", "cooked") /\ LostNow = {}
      BY <1>1, <2>2, <2>3, <2>4, CookMoves
    <2>6. In(d) \in SUBSET Touches
      BY <1>1, <2>2 DEF FatesRead
    <2> QED  BY <2>5, <2>6 DEF MovesOnce, SeenOrIdle
  <1> QED  BY <1>4, <1>5, <1>6, <1>7, <1>8, <1>9 DEF Effect

\* What a step throws away was seen by the tablet that threw it away, or was in an account nobody
\* touched for 12 hours or whose order was voided (Discard, ListDraftsToSweep).
THEOREM OnlySeenIsDropped == Spec => DropsOnlySeen
  <1>1. DraftInv /\ DraftInv' /\ [Next]_vars => [SeenOrIdle]_vars
    BY StepSays, EffectMoves
  <1> QED  BY DraftInvariant, <1>1, PTL DEF Spec, DropsOnlySeen, SeenOrIdle

\* The accounts implement the ledger of touches: whatever is retried, delivered to another account or
\* sent by two tablets at once, a touch reaches the kitchen once at most and nothing thrown away comes back.
THEOREM LedgerKept == Spec => KeepsLedger
  <1>1. Init => Ledger!Init
    <2> SUFFICES ASSUME Init PROVE Ledger!Init
      OBVIOUS
    <2>1. FatesRead
      BY DraftInitially, FateIs
    <2>2. \A x \in Touches : adds[x] = NoDraft /\ cooked[x] = 0 /\ ~Held(x)
      BY <2>1 DEF Init, FatesRead
    <2>3. \A x \in Touches : Fate[x] = "unborn"
      BY <2>1, <2>2 DEF FatesRead
    <2> QED  BY <2>3 DEF Ledger!Init, Fate
  <1>2. ASSUME NEW some \in SUBSET Touches, NEW from, NEW to, Moved(some, from, to)
        PROVE  Ledger!Pass(from, to) \/ Fate' = Fate
    <2>1. CASE some = {}
      BY <1>2, <2>1 DEF Moved, Fate
    <2>2. CASE some # {}
      <3>1. Fate' = [x \in Touches |-> IF x \in some THEN to ELSE Fate[x]]
        BY <1>2 DEF Moved, Fate
      <3> QED  BY <1>2, <2>2, <3>1 DEF Moved, Ledger!Pass
    <2> QED  BY <2>1, <2>2
  <1>3. DraftInv /\ DraftInv' /\ [Next]_vars => [Ledger!Next]_Fate
    <2> SUFFICES ASSUME DraftInv, DraftInv', [Next]_vars PROVE Ledger!Next \/ Fate' = Fate
      OBVIOUS
    <2>1. CASE Next
      <3>1. MovesOnce
        BY <2>1, StepSays, EffectMoves
      <3> QED  BY <1>2, <3>1 DEF MovesOnce, Ledger!Next, Ledger!Capture, Ledger!Cook, Ledger!Drop
    <2>2. CASE UNCHANGED vars
      BY <2>2 DEF vars, Fate, Held, Live
    <2> QED  BY <2>1, <2>2
  <1> QED  BY DraftInvariant, <1>1, <1>3, PTL DEF Spec, KeepsLedger, Ledger!Spec
=============================================================================
