----------------------------- MODULE CashDrawers -----------------------------
(***************************************************************************)
(* The cash drawers of one branch: which register sells, their shifts, the *)
(* cash that goes in and out of them, transfers between them and the       *)
(* expenses paid from them (server/internal/app/backoffice.go and          *)
(* expenses.go).                                                           *)
(*                                                                         *)
(* Each tablet runs one handler at a time.  A handler is one action when   *)
(* all it reads it reads under the locks it writes with, and one action    *)
(* per wait for a lock otherwise; what it read before is kept in op[t].    *)
(* Every amount is one peso.  Each reading of the clock is later than the  *)
(* readings before it.                                                     *)
(***************************************************************************)
EXTENDS Integers, Sequences, FiniteSets, FiniteSetsExt

CONSTANTS
    Tablets,      \* who runs the handlers
    Registers,    \* cash registers of the branch
    FirstToSell,  \* the one that sells at first
    Expenses,     \* expenses, inserted with their first payment
    Pays,         \* their payments
    ExpenseOf,    \* the expense each payment is of; its amount is the number of its payments
    CashPays,     \* payments by a method that affects the cash drawer
    Ops,          \* bound: the handlers each tablet runs
    Later,        \* bound: how far after the clock a payment may be dated, besides now
    MaxTime,      \* bound: readings of the clock
    MaxShifts,    \* bound: shifts opened
    MaxMoves,     \* bound: cash movements inserted besides corrections
    MaxFixes      \* bound: corrections

ASSUME DrawersAssumption ==
    /\ FirstToSell \in Registers
    /\ ExpenseOf \in [Pays -> Expenses]
    /\ CashPays \subseteq Pays
    /\ IsFiniteSet(Pays)
    /\ Later \subseteq Nat
    /\ MaxTime \in Nat /\ MaxShifts \in Nat /\ MaxMoves \in Nat /\ MaxFixes \in Nat

VARIABLES
    now,       \* the last reading of the clock
    sells,     \* the register with is_primary, one per branch
    active,    \* registers with is_active
    counts,    \* registers with counts_cash
    shiftOf,   \* the open session of each register, 0 when it has none
    regOf,     \* the register of each session opened so far
    openedAt,  \* opened_at of each session
    lastClose, \* closed_at of the last closed session of each register, 0 when never closed
    signed,    \* net cash the close of each session signed
    moves,     \* register_cash_movements
    expense,   \* "none" before it is inserted, "pendiente", "pagada", "cancelada"
    made,      \* payments inserted
    drawer,    \* register_id of each payment
    paidAt,    \* paid_at of each payment
    included,  \* payments with include_in_count
    counted,   \* register_session_id of each payment, 0 when null
    op         \* what each tablet is in the middle of

registerVars == <<sells, active, counts>>
shiftVars    == <<shiftOf, regOf, openedAt, lastClose, signed>>
payVars      == <<expense, made, drawer, paidAt, included, counted>>
vars == <<now, registerVars, shiftVars, moves, payVars, op>>
-----------------------------------------------------------------------------
Shifts == 1..MaxShifts

Opened == DOMAIN regOf

IsOpen(s) == s # 0 /\ \E r \in Registers : shiftOf[r] = s

Idle == [at |-> "idle"]

Doing(t, steps) == op[t].at \in steps

Begin(t, handler) == Doing(t, {"idle"}) /\ handler \in Ops[t]

Go(t, step) == op' = [op EXCEPT ![t] = step]

Done(t) == Go(t, Idle)

\* What the tablets hold between two steps: cash_registers FOR UPDATE and FOR SHARE,
\* register_sessions FOR SHARE, and expenses FOR UPDATE.
Holds(t, lock) ==
    \/ lock[1] = "update" /\ Doing(t, {"opening"}) /\ op[t].reg = lock[2]
    \/ lock[1] = "share" /\ Doing(t, {"decided", "counting"}) /\ op[t].reg = lock[2]
    \/ lock[1] = "share" /\ Doing(t, {"cancelling"}) /\ lock[2] \in op[t].regs
    \/ lock[1] = "shift" /\ Doing(t, {"counting"}) /\ op[t].shift = lock[2]
    \/ lock[1] = "shift" /\ Doing(t, {"cancelling"}) /\ lock[2] \in op[t].shifts
    \/ lock[1] = "expense" /\ Doing(t, {"payLocked", "decided"}) /\ op[t].adds
                           /\ ExpenseOf[op[t].pay] = lock[2]

Held(lock) == \E t \in Tablets : Holds(t, lock)

\* Slip: a payment does not take its register.
SlipCanShare(r) == TRUE

CanShare(r) == ~Held(<<"update", r>>)

\* Slip: moving the sales does not wait for whoever has the register.
SlipCanUpdate(r) == TRUE

CanUpdate(r) == ~Held(<<"update", r>>) /\ ~Held(<<"share", r>>)

\* NetCashMovements, each kind with its sign.
Net(ms, s) ==
    LET rows(kinds) == Cardinality({m \in ms : m.shift = s /\ m.kind \in kinds})
    IN  rows({"entrada", "reverso", "desde"}) - rows({"salida", "gasto", "hacia"})

\* Rows of one handler: expense rows are named by their payment, the others are numbered.
Row(kind, of, s) ==
    [kind |-> kind, of |-> of, shift |-> s, id |-> Cardinality({m \in moves : m.kind # "gasto"})]

Bill(p, s) == [kind |-> "gasto", of |-> p, shift |-> s, id |-> 0]

\* Slip: a payment by card leaves the drawer as well.
SlipBillsOf(ps, s) == {Bill(p, s) : p \in ps}

BillsOf(ps, s) == {Bill(p, s) : p \in ps \cap CashPays}

BillRows(p) == {m \in moves : m.kind = "gasto" /\ m.of = p}

\* Inserted unless the bound on movements is met.
Insert(rows) ==
    /\ Cardinality(moves \cup rows) <= MaxMoves
    /\ moves' = moves \cup rows

\* A payment waiting for the shift whose window holds its time.
IsPending(p) == p \in included /\ counted[p] = 0

\* Slip: the sweep sees the payments left out of the count.
SlipPendingAt(r) == {p \in made \cap CashPays : counted[p] = 0 /\ drawer[p] = r}

\* ListPendingExpensePayments and the sweep: those of expenses that are not cancelled.
PendingAt(r) ==
    {p \in made \cap CashPays :
        IsPending(p) /\ drawer[p] = r /\ expense[ExpenseOf[p]] # "cancelada"}

FullyPaid(ps, e) == {p \in Pays : ExpenseOf[p] = e} \subseteq ps
-----------------------------------------------------------------------------
\* ExpensePaymentTarget, of a payment in cash with the choice of the form or by another method.
ToShift(p, r, time, inc) ==
    /\ shiftOf[r] # 0
    /\ p \in CashPays => r \in counts /\ inc /\ time >= openedAt[shiftOf[r]]

Outside(p, r, inc) ==
    IF p \in CashPays THEN r \notin counts \/ ~inc ELSE shiftOf[r] = 0

ToPending(p, r, time, inc, confirmed) ==
    /\ p \in CashPays /\ r \in counts /\ inc /\ confirmed
    /\ shiftOf[r] = 0
    /\ lastClose[r] = 0 \/ time > lastClose[r]

Target(p, r, time, inc, confirmed) ==
    CASE Outside(p, r, inc) -> "outside"
      [] ToShift(p, r, time, inc) -> "shift"
      [] ToPending(p, r, time, inc, confirmed) -> "pending"
      [] OTHER -> "refused"

Init ==
    /\ now = 0
    /\ sells = FirstToSell
    /\ active = Registers
    /\ counts = Registers
    /\ shiftOf = [r \in Registers |-> 0]
    /\ regOf = <<>>
    /\ openedAt = <<>>
    /\ lastClose = [r \in Registers |-> 0]
    /\ signed = <<>>
    /\ moves = {}
    /\ expense = [e \in Expenses |-> "none"]
    /\ made = {}
    /\ drawer = [p \in Pays |-> FirstToSell]
    /\ paidAt = [p \in Pays |-> 0]
    /\ included = {}
    /\ counted = [p \in Pays |-> 0]
    /\ op = [t \in Tablets |-> Idle]

Tick == now < MaxTime /\ now' = now + 1
-----------------------------------------------------------------------------
\* OpenSession reads the register before its transaction.
OpenRead(t, r) ==
    /\ Begin(t, "open")
    /\ r \in active /\ r \in counts /\ shiftOf[r] = 0
    /\ Go(t, [at |-> "open", reg |-> r])
    /\ UNCHANGED <<now, registerVars, shiftVars, moves, payVars>>

\* The transaction takes the register FOR UPDATE.
OpenLock(t) ==
    /\ Doing(t, {"open"})
    /\ CanUpdate(op[t].reg)
    /\ Go(t, [op[t] EXCEPT !.at = "opening"])
    /\ UNCHANGED <<now, registerVars, shiftVars, moves, payVars>>

\* The opening hours a register may ask for: none, or one after its last close.
OpeningTimes(r, time) == {h \in 1..time : h > lastClose[r]}

\* The hour of the opening: the one asked for, or that of the first payment without a count
\* since the last close, unless they are excluded.
OpeningHour(r, asked, exclude) ==
    LET since == {p \in PendingAt(r) : lastClose[r] = 0 \/ paidAt[p] > lastClose[r]}
        first == Min({paidAt[p] : p \in since})
    IN  IF asked # 0 THEN asked
        ELSE IF ~exclude /\ since # {} /\ first < now + 1 THEN first
        ELSE now + 1

\* sweepPendingExpenses, which only an hour moved back runs.
Swept(r, hour, asked) ==
    {p \in PendingAt(r) : /\ asked # 0 \/ hour < now + 1
                          /\ hour <= paidAt[p] /\ paidAt[p] <= now + 1}

\* The session, the sweep with its cash movements, which need each expense FOR KEY SHARE, and the
\* payments the opening leaves behind.
OpenCommit(t, asked, exclude) ==
    LET r == op[t].reg
        s == Len(regOf) + 1
        hour == OpeningHour(r, asked, exclude)
        swept == Swept(r, hour, asked)
    IN  /\ Doing(t, {"opening"})
        /\ r \in counts /\ shiftOf[r] = 0
        /\ s \in Shifts
        /\ asked = 0 \/ asked \in OpeningTimes(r, now + 1)
        /\ asked # 0 => ~exclude
        /\ \A p \in swept : ~Held(<<"expense", ExpenseOf[p]>>)
        /\ Tick
        /\ shiftOf' = [shiftOf EXCEPT ![r] = s]
        /\ regOf' = Append(regOf, r)
        /\ openedAt' = Append(openedAt, hour)
        /\ signed' = Append(signed, 0)
        /\ Insert(BillsOf(swept, s))
        /\ counted' = [p \in Pays |-> IF p \in swept THEN s ELSE counted[p]]
        /\ included' = included \ {p \in made : IsPending(p) /\ p \notin swept
                                                /\ drawer[p] = r /\ paidAt[p] < hour}
        /\ Done(t)
        /\ UNCHANGED <<registerVars, lastClose, expense, made, drawer, paidAt>>

\* CloseSession, which waits for whoever has the session and signs what is in it.
Close(t, r) ==
    LET s == shiftOf[r] IN
    /\ Begin(t, "close")
    /\ s # 0
    /\ ~Held(<<"shift", s>>)
    /\ Tick
    /\ shiftOf' = [shiftOf EXCEPT ![r] = 0]
    /\ lastClose' = [lastClose EXCEPT ![r] = now + 1]
    /\ signed' = [signed EXCEPT ![s] = Net(moves, s)]
    /\ UNCHANGED <<registerVars, regOf, openedAt, moves, payVars, op>>
-----------------------------------------------------------------------------
\* MoveSales, with both registers taken FOR UPDATE.
MoveSales(t, target) ==
    /\ Begin(t, "sell")
    /\ CanUpdate(sells) /\ CanUpdate(target)
    /\ target # sells
    /\ target \in active
    /\ shiftOf[sells] = 0 /\ shiftOf[target] = 0
    /\ sells' = target
    /\ counts' = counts \cup {target}
    /\ UNCHANGED <<now, active, shiftVars, moves, payVars, op>>

\* UpdateCashRegister reads before its transaction whether it is the one that sells.
UpdateRead(t, r, on, counting) ==
    /\ Begin(t, "update")
    /\ r = sells => on
    /\ Go(t, [at |-> "update", reg |-> r, on |-> on, counting |-> counting])
    /\ UNCHANGED <<now, registerVars, shiftVars, moves, payVars>>

\* Slip: the count is taken away without looking for an open shift.
SlipUpdateCommit(t) ==
    LET u == op[t] IN
    /\ Doing(t, {"update"})
    /\ CanUpdate(u.reg)
    /\ u.counting = "off" => u.reg # sells
    /\ active' = IF u.on THEN active \cup {u.reg} ELSE active \ {u.reg}
    /\ counts' = IF u.counting = "off" THEN counts \ {u.reg} ELSE counts
    /\ Done(t)
    /\ UNCHANGED <<now, sells, shiftVars, moves, payVars>>

\* Only taking the count away is decided under the lock.
UpdateCommit(t) ==
    LET u == op[t] IN
    /\ Doing(t, {"update"})
    /\ CanUpdate(u.reg)
    /\ u.counting = "off" => u.reg # sells /\ shiftOf[u.reg] = 0
    /\ active' = IF u.on THEN active \cup {u.reg} ELSE active \ {u.reg}
    /\ counts' = CASE u.counting = "off" -> counts \ {u.reg}
                   [] u.counting = "on" -> counts \cup {u.reg}
                   [] OTHER -> counts
    /\ Done(t)
    /\ UNCHANGED <<now, sells, shiftVars, moves, payVars>>
-----------------------------------------------------------------------------
\* RecordCashMovement reads the open session, then locks it for share.
CashRead(t, r, kind) ==
    /\ Begin(t, "cash")
    /\ shiftOf[r] # 0
    /\ Go(t, [at |-> "cash", shift |-> shiftOf[r], kind |-> kind])
    /\ UNCHANGED <<now, registerVars, shiftVars, moves, payVars>>

CashCommit(t) ==
    /\ Doing(t, {"cash"})
    /\ IsOpen(op[t].shift)
    /\ Insert({Row(op[t].kind, 0, op[t].shift)})
    /\ Done(t)
    /\ UNCHANGED <<now, registerVars, shiftVars, payVars>>

Reversals(m) == {b \in moves : b.kind = "reverso" /\ b.of = m.id}

\* CorrectCashOut: a cash-out of a person, not yet reversed in the snapshot of the read that
\* waits for its row.
CorrectRead(t, m) ==
    /\ Begin(t, "correct")
    /\ m.kind = "salida" /\ Reversals(m) = {}
    /\ Go(t, [at |-> "correct", row |-> m])
    /\ UNCHANGED <<now, registerVars, shiftVars, moves, payVars>>

\* Slip: the reversal trusts what was read while it waited for the row.
SlipCorrectCommit(t) ==
    LET m == op[t].row
        s == shiftOf[regOf[m.shift]]
    IN  /\ Doing(t, {"correct"})
        /\ s # 0
        /\ Cardinality({b \in moves : b.kind = "reverso"}) < MaxFixes
        /\ moves' = moves \cup {Row("reverso", m.id, s), Row("salida", 0, s)}
        /\ Done(t)
        /\ UNCHANGED <<now, registerVars, shiftVars, payVars>>

\* The reversal, unique for the row it reverses, and the new cash-out go to the session that is
\* open on the register of the original.
CorrectCommit(t) ==
    LET m == op[t].row
        s == shiftOf[regOf[m.shift]]
    IN  /\ Doing(t, {"correct"})
        /\ s # 0
        /\ Reversals(m) = {}
        /\ Cardinality({b \in moves : b.kind = "reverso"}) < MaxFixes
        /\ moves' = moves \cup {Row("reverso", m.id, s), Row("salida", 0, s)}
        /\ Done(t)
        /\ UNCHANGED <<now, registerVars, shiftVars, payVars>>

\* Transfer reads both open sessions, then locks them for share and inserts both legs.
TransferRead(t, from, to) ==
    /\ Begin(t, "transfer")
    /\ from # to /\ shiftOf[from] # 0 /\ shiftOf[to] # 0
    /\ Go(t, [at |-> "transfer", from |-> shiftOf[from], to |-> shiftOf[to]])
    /\ UNCHANGED <<now, registerVars, shiftVars, moves, payVars>>

\* Slip: only the session the money leaves is locked.
SlipTransferCommit(t) ==
    /\ Doing(t, {"transfer"})
    /\ IsOpen(op[t].from)
    /\ Insert({Row("hacia", 0, op[t].from), Row("desde", 0, op[t].to)})
    /\ Done(t)
    /\ UNCHANGED <<now, registerVars, shiftVars, payVars>>

TransferCommit(t) ==
    /\ Doing(t, {"transfer"})
    /\ IsOpen(op[t].from) /\ IsOpen(op[t].to)
    /\ Insert({Row("hacia", 0, op[t].from), Row("desde", 0, op[t].to)})
    /\ Done(t)
    /\ UNCHANGED <<now, registerVars, shiftVars, payVars>>
-----------------------------------------------------------------------------
\* CreateExpense and AddExpensePayment read the expense, date the payment with the clock or with
\* another day, and decide a first time where it goes.
PayRead(t, p, r, time, inc, confirmed) ==
    LET e == ExpenseOf[p] IN
    /\ Begin(t, "pay")
    /\ p \notin made
    /\ expense[e] \in {"none", "pendiente"}
    /\ Target(p, r, time, inc, confirmed) # "refused"
    /\ Tick
    /\ Go(t, [at |-> IF expense[e] = "none" THEN "payLocked" ELSE "pay", adds |-> expense[e] # "none",
              pay |-> p, reg |-> r, time |-> time, inc |-> inc, confirmed |-> confirmed])
    /\ UNCHANGED <<registerVars, shiftVars, moves, payVars>>

\* AddExpensePayment takes the expense first; it does not look at its status again.
PayLock(t) ==
    /\ Doing(t, {"pay"})
    /\ ~Held(<<"expense", ExpenseOf[op[t].pay]>>)
    /\ Go(t, [op[t] EXCEPT !.at = "payLocked"])
    /\ UNCHANGED <<now, registerVars, shiftVars, moves, payVars>>

\* insertPayments takes the register for share and decides again.
PayDecide(t) ==
    LET o == op[t]
        target == Target(o.pay, o.reg, o.time, o.inc, o.confirmed)
    IN  /\ Doing(t, {"payLocked"})
        /\ CanShare(o.reg)
        /\ target # "refused"
        /\ Go(t, [at |-> "decided", adds |-> o.adds, pay |-> o.pay, reg |-> o.reg, time |-> o.time,
                  inc |-> target # "outside",
                  shift |-> IF target = "shift" THEN shiftOf[o.reg] ELSE 0])
        /\ UNCHANGED <<now, registerVars, shiftVars, moves, payVars>>

\* The session it goes to is locked for share, still open.  Covering the amount marks the expense
\* paid, which needs it to be pending.
PayCommit(t) ==
    LET o == op[t]
        e == ExpenseOf[o.pay]
        covered == FullyPaid(made \cup {o.pay}, e)
    IN  /\ Doing(t, {"decided"})
        /\ o.shift # 0 => IsOpen(o.shift)
        /\ o.pay \notin made
        /\ IF o.adds THEN covered => expense[e] = "pendiente" ELSE expense[e] = "none"
        /\ expense' = [expense EXCEPT ![e] = IF covered THEN "pagada" ELSE IF o.adds THEN @
                                              ELSE "pendiente"]
        /\ made' = made \cup {o.pay}
        /\ drawer' = [drawer EXCEPT ![o.pay] = o.reg]
        /\ paidAt' = [paidAt EXCEPT ![o.pay] = o.time]
        /\ included' = IF o.inc THEN included \cup {o.pay} ELSE included
        /\ counted' = [counted EXCEPT ![o.pay] = o.shift]
        /\ Insert(IF o.shift = 0 THEN {} ELSE BillsOf({o.pay}, o.shift))
        /\ Done(t)
        /\ UNCHANGED <<now, registerVars, shiftVars>>
-----------------------------------------------------------------------------
\* SetPaymentInCount takes the register and its open session for share.
CountLock(t, p, inc) ==
    LET r == drawer[p] IN
    /\ Begin(t, "count")
    /\ p \in made \cap CashPays
    /\ CanShare(r)
    /\ r \in counts
    /\ Go(t, [at |-> "counting", pay |-> p, inc |-> inc, reg |-> r, shift |-> shiftOf[r]])
    /\ UNCHANGED <<now, registerVars, shiftVars, moves, payVars>>

\* Then the expense and the payment.  One in a closed count stays; one in the open count leaves
\* it with its movement; another goes where it would go today.
CountCommit(t) ==
    LET o == op[t]
        p == o.pay
        target == Target(p, o.reg, paidAt[p], o.inc, TRUE)
        s == IF o.inc /\ target = "shift" THEN o.shift ELSE 0
    IN  /\ Doing(t, {"counting"})
        /\ ~Held(<<"expense", ExpenseOf[p]>>)
        /\ expense[ExpenseOf[p]] # "cancelada"
        /\ \/ /\ counted[p] # 0 /\ counted[p] = o.shift /\ ~o.inc
              /\ BillRows(p) # {}
              /\ moves' = moves \ BillRows(p)
           \/ /\ counted[p] = 0
              /\ target # "refused"
              /\ o.inc # (p \in included)
              /\ Insert(IF s = 0 THEN {} ELSE BillsOf({p}, s))
        /\ counted' = [counted EXCEPT ![p] = s]
        /\ included' = IF o.inc THEN included \cup {p} ELSE included \ {p}
        /\ Done(t)
        /\ UNCHANGED <<now, registerVars, shiftVars, expense, made, drawer, paidAt>>
-----------------------------------------------------------------------------
PaysOf(e) == {p \in made : ExpenseOf[p] = e}

\* CancelExpense reads the payments, then takes their registers and open sessions for share.
CancelRead(t, e) ==
    /\ Begin(t, "cancel")
    /\ expense[e] \in {"pendiente", "pagada"}
    /\ Go(t, [at |-> "cancel", exp |-> e,
              regs |-> {drawer[p] : p \in {q \in PaysOf(e) : q \in included}}])
    /\ UNCHANGED <<now, registerVars, shiftVars, moves, payVars>>

CancelLock(t) ==
    /\ Doing(t, {"cancel"})
    /\ \A r \in op[t].regs : CanShare(r)
    /\ Go(t, [at |-> "cancelling", exp |-> op[t].exp, regs |-> op[t].regs,
              shifts |-> {shiftOf[r] : r \in op[t].regs} \ {0}])
    /\ UNCHANGED <<now, registerVars, shiftVars, moves, payVars>>

\* Slip: a closed count is not told from an open one.
SlipPlanAllows(t, p) == p \in included => drawer[p] \in op[t].regs

\* CancelPaymentPlan: nothing in a closed count, and everything a count takes or waits for under
\* the locks.
PlanAllows(t, p) ==
    p \in included =>
        /\ drawer[p] \in op[t].regs
        /\ counted[p] # 0 => counted[p] \in op[t].shifts /\ IsOpen(counted[p])

\* Then the expense; what is in an open count or waits for one leaves it.
CancelCommit(t) ==
    LET e == op[t].exp IN
    /\ Doing(t, {"cancelling"})
    /\ ~Held(<<"expense", e>>)
    /\ expense[e] \in {"pendiente", "pagada"}
    /\ \A p \in PaysOf(e) : PlanAllows(t, p)
    /\ moves' = moves \ UNION {BillRows(p) : p \in PaysOf(e)}
    /\ counted' = [p \in Pays |-> IF p \in PaysOf(e) THEN 0 ELSE counted[p]]
    /\ included' = included \ PaysOf(e)
    /\ expense' = [expense EXCEPT ![e] = "cancelada"]
    /\ Done(t)
    /\ UNCHANGED <<now, registerVars, shiftVars, made, drawer, paidAt>>

\* A handler that is refused, dies or loses a deadlock leaves nothing behind.
Rollback(t) ==
    /\ ~Doing(t, {"idle"})
    /\ Done(t)
    /\ UNCHANGED <<now, registerVars, shiftVars, moves, payVars>>
-----------------------------------------------------------------------------
Next ==
    \E t \in Tablets :
        \/ \E r \in Registers :
            \/ OpenRead(t, r) \/ Close(t, r) \/ MoveSales(t, r)
            \/ \E on \in BOOLEAN, c \in {"same", "off", "on"} : UpdateRead(t, r, on, c)
            \/ \E kind \in {"entrada", "salida"} : CashRead(t, r, kind)
            \/ \E to \in Registers : TransferRead(t, r, to)
            \/ \E p \in Pays, inc, confirmed \in BOOLEAN :
                \E time \in {0, now + 1} \cup {now + d : d \in Later} :
                    PayRead(t, p, r, time, inc, confirmed)
        \/ OpenLock(t)
        \/ \E asked \in 0..MaxTime, exclude \in BOOLEAN : OpenCommit(t, asked, exclude)
        \/ UpdateCommit(t) \/ CashCommit(t) \/ TransferCommit(t)
        \/ \E m \in moves : CorrectRead(t, m)
        \/ CorrectCommit(t)
        \/ PayLock(t) \/ PayDecide(t) \/ PayCommit(t)
        \/ \E p \in Pays, inc \in BOOLEAN : CountLock(t, p, inc)
        \/ CountCommit(t)
        \/ \E e \in Expenses : CancelRead(t, e)
        \/ CancelLock(t) \/ CancelCommit(t)
        \/ Rollback(t)

Spec == Init /\ [][Next]_vars
-----------------------------------------------------------------------------
Kinds == {"entrada", "salida", "reverso", "desde", "hacia", "gasto"}

TypeOK ==
    /\ now \in 0..MaxTime
    /\ sells \in Registers /\ active \subseteq Registers /\ counts \subseteq Registers
    /\ shiftOf \in [Registers -> 0..Len(regOf)]
    /\ regOf \in Seq(Registers) /\ Len(regOf) <= MaxShifts
    /\ Len(openedAt) = Len(regOf) /\ Len(signed) = Len(regOf)
    /\ lastClose \in [Registers -> 0..MaxTime]
    /\ \A m \in moves : m.kind \in Kinds /\ m.shift \in Opened
    /\ expense \in [Expenses -> {"none", "pendiente", "pagada", "cancelada"}]
    /\ made \subseteq Pays /\ included \subseteq made
    /\ \A p \in made : counted[p] # 0 => p \in included
    /\ drawer \in [Pays -> Registers]
    /\ paidAt \in [Pays -> Nat]
    /\ counted \in [Pays -> 0..Len(regOf)]

\* An expense paid in cash leaves exactly one drawer, once: its cash-out is in the session the
\* payment says, on the register it was paid from.  One paid otherwise leaves none.  Whatever
\* openings, closes, cancellations and changes of its box cross (sweepPendingExpenses,
\* SetPaymentInCount, CancelExpense).
PaidFromOneDrawer ==
    \A p \in Pays :
        IF counted[p] = 0 \/ p \notin CashPays THEN BillRows(p) = {}
        ELSE BillRows(p) = {Bill(p, counted[p])} /\ regOf[counted[p]] = drawer[p]

\* A closed session keeps the cash its close signed: no movement, leg of a transfer or expense
\* enters or leaves it afterwards (LockSessionForClose against LockOpenSessionForShare).
SignedCoversDrawer == \A s \in Opened : IsOpen(s) \/ signed[s] = Net(moves, s)

\* A cash-out is reversed at most once, and on the register it left, though two tablets may both
\* have read that it was not (CorrectCashOut).
ReversedOnce ==
    \A m \in moves : m.kind = "salida" =>
        /\ Cardinality(Reversals(m)) <= 1
        /\ \A b \in Reversals(m) : regOf[b.shift] = regOf[m.shift]

\* The register that sells counts its cash, and so does each one with an open shift, though the
\* count may be taken away while a shift is opening (UpdateCashRegister, OpenSession, MoveSales).
OpenShiftCounted ==
    /\ sells \in counts
    /\ \A r \in Registers : shiftOf[r] # 0 => r \in counts

\* A payment waiting for a count can still get one: no session of its register has closed since
\* it was made, and the open one, if any, opened after it was read (FR-003 of spec 048, with
\* payments that are not dated ahead).
PendingCanBeCounted ==
    \A p \in made \cap CashPays :
        IsPending(p) /\ expense[ExpenseOf[p]] # "cancelada" =>
            /\ shiftOf[drawer[p]] = 0
            /\ lastClose[drawer[p]] = 0 \/ paidAt[p] > lastClose[drawer[p]]

\* A shift sells from its opening to its close, or never: the sales never move under an open one
\* (MoveSales).
SalesStayWithShift ==
    [][sells' # sells =>
          /\ \A r \in {sells, sells'} : shiftOf[r] = 0 /\ shiftOf'[r] = 0
          /\ \A t \in Tablets : Doing(t, {"opening"}) => op[t].reg \notin {sells, sells'}]_vars
=============================================================================
