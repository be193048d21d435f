------------------------------- MODULE Drafts ---------------------------------
(***************************************************************************)
(* The accounts being captured on several tablets before the kitchen gets  *)
(* them (server/internal/app/drafts.go, server/queries/drafts.sql): a new  *)
(* account becomes an order with its own id, and a «Nuevo» is added to the *)
(* order it is about.                                                      *)
(*                                                                         *)
(* A touch is one "add" of an operator, with its key (op_id); the network  *)
(* may deliver it several times and to any account.  updated_at changes    *)
(* exactly when version does while an account is live, so version stands   *)
(* for both.  Names, prices and discounts of an account are left out.      *)
(***************************************************************************)
EXTENDS FiniteSets, Naturals

CONSTANTS
    Tablets,
    Touches,
    Accounts,    \* ids of the new accounts, and of the orders they become
    News,        \* ids the tablets make up for «Nuevo» accounts
    Plain,       \* touches of one same product without modifiers or note
    NoDraft, NoTouch,
    MaxVersion   \* bound: changes of an account

ASSUME DraftsAssumption ==
    /\ Plain \subseteq Touches
    /\ Accounts \cap News = {}
    /\ NoDraft \notin Accounts \cup News
    /\ NoTouch \notin Touches
    /\ MaxVersion \in Nat \ {0}

Ids == Accounts \cup News

VARIABLES
    draft,    \* order_drafts: status, order_id, version, header_version
    lines,    \* order_draft_lines of each account
    adds,     \* order_draft_adds: the account that took each touch
    idle,     \* accounts nobody touched in DraftIdleLimit
    order,    \* orders: status and the header they were born with
    batches,  \* batches of lines an order registered (order_line_batches)
    cooked,   \* times each touch went to the kitchen
    tab       \* what each tablet, or the request it waits for, is doing

vars == <<draft, lines, adds, idle, order, batches, cooked, tab>>
-----------------------------------------------------------------------------
Live(d) == draft[d].status = "live"

TouchesOf(ls) == UNION {l.of : l \in ls}

AtRest == [at |-> "rest", draft |-> NoDraft, order |-> NoDraft, touch |-> NoTouch, found |-> NoDraft,
           version |-> 0, header |-> 0, lines |-> {}, holds |-> {}]

Free(t, r) == \A u \in Tablets \ {t} : r \notin tab[u].holds

\* Row locks a transaction that ends in the same step needs.
Unlocked(r) == \A u \in Tablets : r \notin tab[u].holds

Rest(t) == tab' = [tab EXCEPT ![t] = AtRest]

\* CanReceiveLines, of an order that is not of a platform.
CanReceiveLines(o) == order[o].status = "open"

\* TouchDraft: the version moves and the idle time begins again.
Touched(d) ==
    /\ draft' = [draft EXCEPT ![d].version = @ + 1]
    /\ idle' = idle \ {d}
-----------------------------------------------------------------------------
(***************************************************************************)
(* Adding, once per touch.                                                 *)
(***************************************************************************)

\* MergeTarget: only plain joins plain.
MergeTarget(ls, x) == {l \in ls : x \in Plain /\ l.id \in Plain}

WithTouch(ls, x, targets) ==
    IF targets = {}
    THEN ls \cup {[id |-> x, of |-> {x}, version |-> 1]}
    ELSE (ls \ targets) \cup {[l EXCEPT !.of = @ \cup {x}, !.version = @ + 1] : l \in targets}

\* A retry looks only at the account it is delivered to.
SlipTaken(d, x) == adds[x] = d

\* A touch an account already took, this one (a retry) or another (a conflict).
Taken(d, x) == adds[x] # NoDraft

\* addDraftLineInTx, the account locked; targets is the line it joins, if any.
AddDraftLine(d, x, targets) ==
    /\ ~Taken(d, x)
    /\ lines' = [lines EXCEPT ![d] = WithTouch(@, x, targets)]
    /\ adds' = [adds EXCEPT ![x] = d]
    /\ Touched(d)

\* AddLine: a product, or the «+» of a line.
AddLine(d, x) ==
    /\ Live(d) /\ Unlocked(d) /\ draft[d].version < MaxVersion
    /\ \/ AddDraftLine(d, x, MergeTarget(lines[d], x))
       \/ \E l \in lines[d] : AddDraftLine(d, x, {l})
    /\ UNCHANGED <<order, batches, cooked, tab>>
-----------------------------------------------------------------------------
(***************************************************************************)
(* What a tablet does to what it sees.  draftView reads the account and    *)
(* then its lines.                                                         *)
(***************************************************************************)
View(t, d) ==
    /\ tab[t].at \in {"rest", "view"} /\ Live(d)
    /\ tab' = [tab EXCEPT ![t] = [AtRest EXCEPT !.at = "viewing", !.draft = d,
                                                !.version = draft[d].version, !.header = draft[d].header]]
    /\ UNCHANGED <<draft, lines, adds, idle, order, batches, cooked>>

ViewLines(t) ==
    /\ tab[t].at = "viewing"
    /\ tab' = [tab EXCEPT ![t].at = "view", ![t].lines = lines[tab[t].draft]]
    /\ UNCHANGED <<draft, lines, adds, idle, order, batches, cooked>>

\* The line a tablet sees, as long as nobody changed it or took it away.
SameLine(ls, l) == {k \in ls : k.id = l.id /\ k.version = l.version}

\* ChangeLine: the quantity the tablet wants, of what it sees, or another
\* modifier or note.
ChangeLine(t, l, keep) ==
    LET d == tab[t].draft IN
    /\ Live(d) /\ Unlocked(d) /\ draft[d].version < MaxVersion
    /\ keep # {} /\ keep \subseteq l.of
    /\ SameLine(lines[d], l) # {}
    /\ lines' = [lines EXCEPT ![d] = (@ \ SameLine(@, l)) \cup
                    {[k EXCEPT !.of = keep, !.version = @ + 1] : k \in SameLine(@, l)}]
    /\ Touched(d)
    /\ UNCHANGED adds

\* RemoveLine: the account may end up empty, it stays live.
RemoveLine(t, l) ==
    LET d == tab[t].draft IN
    /\ Live(d) /\ Unlocked(d) /\ draft[d].version < MaxVersion
    /\ SameLine(lines[d], l) # {}
    /\ lines' = [lines EXCEPT ![d] = @ \ SameLine(@, l)]
    /\ Touched(d)
    /\ UNCHANGED adds

\* PatchHeader: only of an account with a header of its own.
PatchHeader(t) ==
    LET d == tab[t].draft IN
    /\ Live(d) /\ Unlocked(d) /\ draft[d].version < MaxVersion
    /\ d \in Accounts
    /\ draft[d].header = tab[t].header
    /\ draft' = [draft EXCEPT ![d].header = @ + 1, ![d].version = @ + 1]
    /\ idle' = idle \ {d}
    /\ UNCHANGED <<lines, adds>>

\* Only the header is compared.
SlipAsSeen(t) == draft[tab[t].draft].header = tab[t].header

\* The version Discard compares is the one of the whole account.
AsSeen(t) == draft[tab[t].draft].version = tab[t].version

\* Discard: its lines stay, nobody reads them again.
Discard(t) ==
    LET d == tab[t].draft IN
    /\ Live(d) /\ Unlocked(d)
    /\ AsSeen(t)
    /\ draft' = [draft EXCEPT ![d].status = "discarded"]
    /\ UNCHANGED <<lines, adds, idle>>

\* The tablet reads again after what it asked for, done or refused.
Edit(t) ==
    /\ tab[t].at = "view"
    /\ \/ \E l \in tab[t].lines : \E keep \in SUBSET l.of : ChangeLine(t, l, keep)
       \/ \E l \in tab[t].lines : RemoveLine(t, l)
       \/ PatchHeader(t)
       \/ Discard(t)
    /\ Rest(t)
    /\ UNCHANGED <<order, batches, cooked>>
-----------------------------------------------------------------------------
(***************************************************************************)
(* The sweep: who lists or opens accounts discards those idle for 12 hours *)
(* and the «Nuevo» of voided orders, in a transaction of its own.          *)
(***************************************************************************)
Voided(d) == draft[d].order # NoDraft /\ order[draft[d].order].status = "voided"

\* ListDraftsToSweep: an account somebody has locked is skipped.
ToSweep == {d \in Ids : Live(d) /\ Unlocked(d) /\ (Voided(d) \/ d \in idle)}

Swept == [d \in Ids |-> IF d \in ToSweep THEN [draft[d] EXCEPT !.status = "discarded"] ELSE draft[d]]

\* ListAccounts.
List ==
    /\ draft' = Swept
    /\ UNCHANGED <<lines, adds, idle, order, batches, cooked, tab>>

\* Twelve hours go by.
HoursPass ==
    /\ idle' = {d \in Ids : Live(d)}
    /\ UNCHANGED <<draft, lines, adds, order, batches, cooked, tab>>
-----------------------------------------------------------------------------
(***************************************************************************)
(* Opening: a new account, or the «Nuevo» of an order, with its first      *)
(* product.                                                                *)
(***************************************************************************)

\* Create: the sweep first, then a transaction for the account.
Create(t, d, x, o) ==
    /\ tab[t].at \in {"rest", "view"}
    /\ d \in News <=> o # NoDraft
    /\ draft' = Swept
    /\ tab' = [tab EXCEPT ![t] = [AtRest EXCEPT !.at = "create", !.draft = d, !.touch = x, !.order = o]]
    /\ UNCHANGED <<lines, adds, idle, order, batches, cooked>>

InsertDraft(d, x, o) ==
    /\ draft' = [draft EXCEPT ![d] = [status |-> "live", order |-> o, version |-> 1, header |-> 0]]
    /\ lines' = [lines EXCEPT ![d] = WithTouch({}, x, {})]
    /\ adds' = [adds EXCEPT ![x] = d]
    /\ idle' = idle \ {d}

\* createAccount; an account there is already is answered as it is, and the
\* touch another account took undoes it all.
CreateAccount(t) ==
    LET d == tab[t].draft IN
    /\ tab[t].at = "create" /\ tab[t].order = NoDraft
    /\ \/ /\ draft[d].status = "none" /\ ~Taken(d, tab[t].touch)
          /\ InsertDraft(d, tab[t].touch, NoDraft)
       \/ /\ draft[d].status # "none" \/ Taken(d, tab[t].touch)
          /\ UNCHANGED <<draft, lines, adds, idle>>
    /\ Rest(t)
    /\ UNCHANGED <<order, batches, cooked>>

\* The order is read without its lock.
SlipCreateLock(t) ==
    /\ tab[t].at = "create" /\ tab[t].order # NoDraft
    /\ draft[tab[t].draft].status = "none" /\ CanReceiveLines(tab[t].order)
    /\ tab' = [tab EXCEPT ![t].at = "locked"]
    /\ UNCHANGED <<draft, lines, adds, idle, order, batches, cooked>>

\* createNewOfOrder: the order is locked and has to take lines.
CreateLock(t) ==
    LET d == tab[t].draft
        o == tab[t].order IN
    /\ tab[t].at = "create" /\ o # NoDraft
    /\ \/ /\ draft[d].status # "none"
          /\ Rest(t)
       \/ /\ draft[d].status = "none" /\ Free(t, o) /\ ~CanReceiveLines(o)
          /\ Rest(t)
       \/ /\ draft[d].status = "none" /\ Free(t, o) /\ CanReceiveLines(o)
          /\ tab' = [tab EXCEPT ![t].at = "locked", ![t].holds = {o}]
    /\ UNCHANGED <<draft, lines, adds, idle, order, batches, cooked>>

LiveOf(o) == {d \in Ids : Live(d) /\ draft[d].order = o}

\* GetLiveDraftOfOrder: the «Nuevo» another tablet opened, read before its lock.
CreateLook(t) ==
    /\ tab[t].at = "locked"
    /\ \E e \in IF LiveOf(tab[t].order) = {} THEN {NoDraft} ELSE LiveOf(tab[t].order) :
        tab' = [tab EXCEPT ![t].at = "looked", ![t].found = e]
    /\ UNCHANGED <<draft, lines, adds, idle, order, batches, cooked>>

\* What was found takes the touch if it is still live, once locked.
StillLive(d) == d # NoDraft /\ Live(d)

CreateAdd(t) ==
    LET d == tab[t].draft
        e == tab[t].found
        x == tab[t].touch IN
    /\ tab[t].at = "looked"
    /\ e # NoDraft => Free(t, e)
    /\ \/ StillLive(e) /\ draft[e].version < MaxVersion /\ AddDraftLine(e, x, MergeTarget(lines[e], x))
       \/ ~StillLive(e) /\ draft[d].status = "none" /\ ~Taken(d, x) /\ InsertDraft(d, x, tab[t].order)
       \/ /\ IF StillLive(e) THEN draft[e].version = MaxVersion \/ Taken(e, x)
                             ELSE draft[d].status # "none" \/ Taken(d, x)
          /\ UNCHANGED <<draft, lines, adds, idle>>
    /\ Rest(t)
    /\ UNCHANGED <<order, batches, cooked>>
-----------------------------------------------------------------------------
(***************************************************************************)
(* Sending: what is read outside is written only if the account is as it   *)
(* was.                                                                    *)
(***************************************************************************)

\* trySend: an account already sent or discarded is answered as it is.
SendRead(t, d) ==
    /\ tab[t].at \in {"rest", "view"} /\ Live(d)
    /\ tab' = [tab EXCEPT ![t] = [AtRest EXCEPT !.at = "sending", !.draft = d, !.order = draft[d].order,
                                                !.version = draft[d].version, !.header = draft[d].header]]
    /\ UNCHANGED <<draft, lines, adds, idle, order, batches, cooked>>

SendLines(t) ==
    LET ls == lines[tab[t].draft] IN
    /\ tab[t].at = "sending"
    /\ \/ ls = {} /\ Rest(t)
       \/ ls # {} /\ tab' = [tab EXCEPT ![t].at = "prepared", ![t].lines = ls]
    /\ UNCHANGED <<draft, lines, adds, idle, order, batches, cooked>>

\* The «Nuevo» before its order.
SlipLockFirst(t) == tab[t].draft

\* sendNew takes the order first, as createNewOfOrder does.
LockFirst(t) == tab[t].order

SendLock(t) ==
    /\ tab[t].at = "prepared" /\ tab[t].order # NoDraft
    /\ Free(t, LockFirst(t))
    /\ tab' = [tab EXCEPT ![t].at = "sendlocked", ![t].holds = {LockFirst(t)}]
    /\ UNCHANGED <<draft, lines, adds, idle, order, batches, cooked>>

\* Rows the last step of a send locks.
SendRows(t) == {tab[t].draft, tab[t].order} \ {NoDraft}

\* The status is looked at again, what was prepared goes as it is.
SlipAsRead(t) == Live(tab[t].draft)

\* The account, locked, is what was read.
AsRead(t) == Live(tab[t].draft) /\ draft[tab[t].draft].version = tab[t].version

\* markSent.
MarkSent(d, o) ==
    /\ draft' = [draft EXCEPT ![d].status = "sent", ![d].order = o]
    /\ lines' = [lines EXCEPT ![d] = {}]

\* createInTx and addLinesInTx send every line to the kitchen.
Cook(ls) == cooked' = [x \in Touches |-> cooked[x] + Cardinality({l \in ls : x \in l.of})]

SendAccount(t) ==
    LET d == tab[t].draft IN
    /\ \/ /\ order[d].status = "none"
          /\ order' = [order EXCEPT ![d] = [status |-> "open", header |-> tab[t].header]]
          /\ Cook(tab[t].lines)
       \/ order[d].status # "none" /\ UNCHANGED <<order, cooked>>
    /\ MarkSent(d, d)
    /\ UNCHANGED batches

SendNew(t) ==
    LET d == tab[t].draft
        o == tab[t].order IN
    /\ CanReceiveLines(o)
    /\ \/ d \notin batches /\ Cook(tab[t].lines)
       \/ d \in batches /\ UNCHANGED cooked
    /\ batches' = batches \cup {d}
    /\ MarkSent(d, o)
    /\ UNCHANGED order

\* A send that finds the account changed begins again, one that is refused
\* leaves everything as it was.
SendCommit(t) ==
    LET d == tab[t].draft
        o == tab[t].order IN
    /\ tab[t].at = IF o = NoDraft THEN "prepared" ELSE "sendlocked"
    /\ \A r \in SendRows(t) : Free(t, r)
    /\ \/ AsRead(t) /\ o = NoDraft /\ SendAccount(t)
       \/ AsRead(t) /\ o # NoDraft /\ SendNew(t)
       \/ /\ ~AsRead(t) \/ (o # NoDraft /\ ~CanReceiveLines(o))
          /\ UNCHANGED <<draft, lines, order, batches, cooked>>
    /\ Rest(t)
    /\ UNCHANGED <<adds, idle>>

\* Somebody cancels or refunds the order.
Void(o) ==
    /\ order[o].status = "open" /\ Unlocked(o)
    /\ order' = [order EXCEPT ![o].status = "voided"]
    /\ UNCHANGED <<draft, lines, adds, idle, batches, cooked, tab>>
-----------------------------------------------------------------------------
\* Some accounts are orders from before.
InitWith(placed) ==
    /\ draft = [d \in Ids |->
                  IF d \in placed THEN [status |-> "sent", order |-> d, version |-> 1, header |-> 0]
                  ELSE [status |-> "none", order |-> NoDraft, version |-> 0, header |-> 0]]
    /\ order = [o \in Accounts |-> [status |-> IF o \in placed THEN "open" ELSE "none", header |-> 0]]

Init ==
    /\ \E placed \in SUBSET Accounts : InitWith(placed)
    /\ lines = [d \in Ids |-> {}]
    /\ adds = [x \in Touches |-> NoDraft]
    /\ idle = {}
    /\ batches = {}
    /\ cooked = [x \in Touches |-> 0]
    /\ tab = [t \in Tablets |-> AtRest]

Step(t) ==
    \/ \E d \in Ids : View(t, d) \/ SendRead(t, d)
    \/ \E d \in Ids, x \in Touches, o \in Accounts \cup {NoDraft} :
          (o \in Accounts => order[o].status # "none") /\ Create(t, d, x, o)
    \/ ViewLines(t) \/ Edit(t)
    \/ CreateAccount(t) \/ CreateLock(t) \/ CreateLook(t) \/ CreateAdd(t)
    \/ SendLines(t) \/ SendLock(t) \/ SendCommit(t)

Next ==
    \/ \E t \in Tablets : Step(t)
    \/ \E d \in Ids, x \in Touches : AddLine(d, x)
    \/ \E o \in Accounts : Void(o)
    \/ List
    \/ HoursPass

Spec == Init /\ [][Next]_vars
-----------------------------------------------------------------------------
(***************************************************************************)
(* Properties.                                                             *)
(***************************************************************************)
LineType(l) == l.id \in Touches /\ l.of \in SUBSET Touches /\ l.of # {} /\ l.version \in Nat

\* Types; a line is known by the touch that opened it, and its quantity is
\* never zero (order_draft_lines).  And one live «Nuevo» an order at most,
\* whoever opens it: the lock of the order is enough, the unique index
\* order_drafts_live_per_order has nothing to refuse.
TypeOK ==
    /\ \A d, e \in Ids : Live(d) /\ Live(e) /\ draft[d].order = draft[e].order /\ draft[d].order # NoDraft => d = e
    /\ draft \in [Ids -> [status : {"none", "live", "sent", "discarded"}, order : Accounts \cup {NoDraft},
                          version : 0 .. MaxVersion, header : 0 .. MaxVersion]]
    /\ \A d \in Ids : \A l \in lines[d] : LineType(l)
    /\ adds \in [Touches -> Ids \cup {NoDraft}]
    /\ idle \subseteq Ids
    /\ order \in [Accounts -> [status : {"none", "open", "voided"}, header : 0 .. MaxVersion]]
    /\ batches \subseteq News
    /\ cooked \in [Touches -> Nat]
    /\ \A t \in Tablets : /\ tab[t].draft \in Ids \cup {NoDraft}
                          /\ tab[t].holds \subseteq Ids
                          /\ \A l \in tab[t].lines : LineType(l)

Held(x) == \E d \in Ids : Live(d) /\ x \in TouchesOf(lines[d])

\* The fate of a touch in the ledger: "twice" is not one it knows.
Fate ==
    [x \in Touches |->
        IF cooked[x] > 1 \/ (cooked[x] = 1 /\ Held(x)) THEN "twice"
        ELSE IF cooked[x] = 1 THEN "cooked"
        ELSE IF Held(x) THEN "held"
        ELSE IF adds[x] # NoDraft THEN "dropped" ELSE "unborn"]

Ledger == INSTANCE TouchLedger WITH fate <- Fate

\* The accounts keep the ledger of touches: a touch retried, delivered to
\* another account or sent by two tablets at once reaches the kitchen at most
\* once, and nothing thrown away comes back.
KeepsLedger == Ledger!Spec

\* What a step throws away was seen by the tablet that threw it away, or was
\* in an account nobody touched for 12 hours or whose order was voided
\* (Discard: "una tableta tiraba lo que otra acababa de agregar").
LostNow == {x \in Touches : Fate[x] = "held" /\ Fate'[x] = "dropped"}

DropsOnlySeen ==
    [][LostNow # {} =>
          \/ \E t \in Tablets : tab[t].at = "view" /\ tab'[t] # tab[t] /\ LostNow \subseteq TouchesOf(tab[t].lines)
          \/ \A x \in LostNow : adds[x] \in idle \/ Voided(adds[x])]_vars

\* An account that is sent takes to the kitchen exactly the lines it had, and
\* a new one its header (trySend reads both before the lock).
SendsWhatIsStored ==
    [][\A d \in Ids : Live(d) /\ draft'[d].status = "sent" =>
          /\ {x \in Touches : cooked'[x] # cooked[x]} = TouchesOf(lines[d])
          /\ d \in Accounts => order'[d].header = draft[d].header]_vars

\* The rows the next step of a tablet locks.
Wants(t) ==
    CASE tab[t].at = "create" -> {tab[t].order} \ {NoDraft}
      [] tab[t].at = "looked" -> {tab[t].found} \ {NoDraft}
      [] tab[t].at = "prepared" -> IF tab[t].order = NoDraft THEN {tab[t].draft} ELSE {LockFirst(t)}
      [] tab[t].at = "sendlocked" -> SendRows(t) \ tab[t].holds
      [] OTHER -> {}

\* A tablet that sends and one that adds to the same order never wait for each
\* other (sendNew: "al revés, una tableta que manda y otra que agrega a la vez
\* se interbloquean").
NoWaitCycle ==
    \A t, u \in Tablets :
        ~(t # u /\ Wants(t) \cap tab[u].holds # {} /\ Wants(u) \cap tab[t].holds # {})
=============================================================================
