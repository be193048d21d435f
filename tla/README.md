# Verification of the point of sale

TLA+ models of the Go backend in `src/server`: the orders of a branch and their
money, the drawers it passes through, the accounts being captured on the
tablets, the stock, and the orders that arrive from a delivery platform. TLC
checks the models on small instances; TLAPS proves, for every value of the
constants, all the safety and action properties that the runs check. Liveness is
only checked.

## The system

A branch sells through tablets that call one HTTP API
(`internal/httpapi/router.go`). A handler calls a service of `internal/app`,
which takes pure decisions from `internal/domain` and runs sqlc queries
(`queries/*.sql`) inside one transaction (`store.WithTx`). PostgreSQL runs at
READ COMMITTED; concurrency is settled by row locks (`for update`, `for share`,
sometimes `nowait`), unique keys and check constraints. Almost every step is
somebody's request, possibly sent twice. The exceptions are the streams of
events of each copy of the server (`realtime/broker.go`), its shutdown
(`cmd/api/main.go`), and the notices of a delivery platform.

### Components

| Component | State | Operations | Interacts with | What is hard | What makes it correct |
|---|---|---|---|---|---|
| Orders (`orders.go`, `devolucion.go`) | `orders`, `order_lines`, stock movements | create, add, deliver, status, discount, remove, cancel, write off | shift, payments, stock, drafts | reads before locks; totals recomputed from rows; stock given back once | bill = live pieces; terminal means terminal; stock moves once |
| Payments (`orders.go`, `devolucion.go`) | `order_payments`, `order_payment_voids`, covered pieces | charge, quote, void | order row, shift row | retries with the same key, close of the shift | a key buys once; never overpaid; numbers unique |
| Refunds (`devolucion.go`) | `order_refunds`, cash movements | partial refund, cancel with refund | order, shift or no shift | no shift open, claim by the next | each method gives back at most what it collected |
| Shift (`backoffice.go`) | `register_sessions`, totals, counts | open, close | orders, payments, refunds, expenses, tips, attendance | the close reads in several statements and connections | signed totals stay true; every peso in one shift |
| Cash movements, transfers, selling register (`backoffice.go`) | `cash_movements`, `cash_registers` | record, correct, transfer, move sales | shifts of two registers | two shifts locked at once | a transfer leaves one drawer and reaches the other |
| Line moves (`move_lines.go`) | lines of two orders, batch key | move, merge | two order rows | opposite moves, retries | pieces and stock conserved |
| Drafts (`drafts.go`, `accounts.go`) | `order_drafts`, version | edit, send, send more | orders | several tablets on one draft | sent once, what was sent is what was stored |
| Platform orders (`pedidos_de_plataforma.go`, `uber/`) | incoming orders | receive, accept, claim | orders, shift | duplicates, deadlines, no shift open | one order per platform order |
| Tips (`tips.go`) | payouts | pay out | shift | against the close | a tip is paid out once |
| Expenses and purchases (`expenses.go`, `purchases_receive.go`) | expenses, lines, stock, cost | pay, edit, receive, undo | shift, stock | retries, shift closing | stock equals what arrived |
| Stock counts (`stock_counts.go`), waste (`waste.go`) | counts, stock levels | open, capture, close | sales | sales during the count | the shortage counts each movement once |
| Ingredients (`unit_change.go`, `ingredient_merge.go`, `composition.go`) | articles, recipes, costs | edit, merge, change unit | stock, sales | lock orders, stale previews | no deadlock, what was previewed is applied |
| Menu (`menu.go`, `cache/menu.go`), events (`realtime/broker.go`) | cached document, channels | read, publish | catalogue | cache keys, full channels | no stale menu under a new version |
| Attendance, users, settings, audit, reports, settlements | their tables | CRUD, clock in and out | shift | clocking twice | one open record per person |

`PROJECT.json` lists every component with its status, and every hazard with
the line where it bites.

## The modules

| Module | Models | Its variables |
|---|---|---|
| `OrderRules` | decisions of `internal/domain` asked for under the lock of an order; no state | none |
| `OrderAccount` | the orders of one branch, their payments and refunds, the shifts of the register that sells | columns (`status`, `total`, `discount`...), sums of rows (`paidBy`, `refundedBy`, `back`...) and transactions in flight (`creating`, `advancing`, `discounting`, `holding`) |
| `ChargeLedger` | abstract: keys, what they bought, what each method holds and has given back; no status, line, shift or lock | |
| `SharedBill` | bills paid by selections of pieces and by equal parts, while pieces are delivered, removed and moved between orders | the lines of each order, its payments, batches moved, the request of each tablet with the lock it has and the one it waits for |
| `CashDrawers` | cash of several registers: movements, corrections, transfers, expenses, and which register sells | registers, shifts and their counts, movements, payments of expenses, the request of each tablet; each reads a clock when it begins |
| `Tips` | tips from the payment to the hands of the staff: payouts, refunds, what a close leaves to the next shift of its register | payments, what was handed out of each and where, what each shift left, refunds in flight, closes begun |
| `Drafts` | accounts captured on several tablets: touches, versions, sending, «Nuevo» orders added to one already sent | drafts and orders with their touches, what each tablet has read, has sent and waits for |
| `TouchLedger` | abstract: the fate of each touch (`unborn`, `held`, `cooked`, `dropped`) | |
| `Stock` | the stock of ingredients against sales, waste, receptions and physical counts | level, events recorded, the counts and their captures, what each clerk has read |
| `LiveStreams` | the broker of each copy of the server, the stream of each tablet, and the shutdown of a copy | subscribers, channels, what each screen shows |
| `PlatformOrders` | orders of a delivery platform, from the notice to the shift they are paid in | notices and their processing, orders, acceptances in flight, shifts |

`OrderAccount` and `SharedBill` share `OrderRules`. `SharedBill` looks at the
same orders piece by piece and from several tablets at once, where
`OrderAccount` has one piece per line and more ways to move money; together
they would be out of reach of TLC. `PlatformOrders` EXTENDS `LiveStreams` and
its next-state relation composes the two: the arrival of an order is the event
that the copies publish, a screen that has not shown an order cannot accept
it, and a copy that stops first finishes what it is answering. The tips of
`Tips` and the drawers of `CashDrawers` are of the same registers; each
has the part of the opening and of the close that touches its state.

Two refinements are checked. `OrderAccount` implements `ChargeLedger`
(`LedgerImplemented`, proved), and `Drafts` implements `TouchLedger`
(`KeepsLedger`, proved) under the mapping `Fate`: a touch is held while a draft
has it, cooked once an order has it, dropped when its draft is thrown away, and
never goes back.

The modules `MC...` give the runs the constants that are functions or operators
and their symmetry sets. `OrderProofs` (about `OrderAccount`), `BillProofs`
(`SharedBill`), `DrawerProofs` (`CashDrawers`), `TipsProofs`, `DraftProofs`,
`StockProofs` and `PlatformProofs` hold the theorems; `SumProofs` has the lemmas
about sums that the first two rest on.

Definitions called `Slip...`, or said in their comment to be a slip, are
plausible mistakes in the definition they are named after. No step uses them:
putting one in place of that definition must break a named property, which
shows the property looks at it.

### Transactions as actions

A handler that begins by locking the row everything else depends on
(`GetOrderForUpdate`, `GetCashRegisterForUpdate`, `LockExpenseForEdit`...) is one
action: nobody else touches it until it commits, and what it reads
afterwards is fresh. The other handlers are split where something can come in
between. In `OrderAccount`:

* `Create` reads the open shift with no transaction (`CreateRead`) and inserts
  later (`CreateInsert`). The insert waits for a close of that shift through
  its foreign key, and does not look at the status of the shift again.
* `SetStatus` reads with no lock (`SetStatusRead`) and overwrites
  (`SetStatusWrite`). Only the check constraint of cancelled rows can refuse.
* `SetDiscount` sums the payments in a subquery of the statement that locks
  the row. If that statement waits, PostgreSQL rereads the row but not the
  subquery: `DiscountRead` fixes the sum, `DiscountWrite` runs under the lock.
* A refund that finds no open shift locks no session, so nothing orders it
  against the opening of the next: `DevolverNoShift` or `CancelNoShift` take
  the order lock (`holding`) and `CommitNoShift` or `AbortNoShift` release it.
  Its `created_at` is the start of its transaction: `gap` is the number of
  closes that had begun by then.
* `CloseSession` locks the session, then reads through other connections: one
  action per statement (`CloseLock`, `CloseCheckOrders`, `CloseCheckOwing`,
  `CloseTotals`, `CloseCommit`), and `CloseRollback` at any point between.
  While it holds the row, whatever asks for it `for share` waits: those
  actions need `phase = "open"` or, for a refund with no shift, a closed one.

In the others:

* `CashDrawers`: every request begins, takes its locks and commits in separate
  steps, because `now()` is the start of its transaction while a row shows
  itself only at the commit, and several counts compare the two. The clock
  advances at every reading. `OpenSession` and `CloseSession` hold the
  register or the session between theirs.
* `SharedBill` and `Drafts`: a transaction that locks two rows takes them in two
  steps, and a tablet that finds one taken waits. `NoWaitCycle` looks at who
  waits for whom. A retry is the same request, with its key, at any later moment.
* `Stock`: what a clerk's screen showed (`SeenApplied`, the captured quantity)
  is read in one step and sent in another; a capture locks the level of its
  ingredient and then reads what happened since. A sale or a waste holds the stock
  of its ingredients until it commits; the row of a waste that waits for an
  approval has the time of its insertion and is seen only when it is committed.
* `Tips`: a payout reads the open session inside its transaction, before it locks it
  (`tips.go:209`), and then waits for its row and asks again that it be open
  (`LockSessionForTips`); a close takes its session, and so the tips it leaves, at
  `CloseTips`, but its `closed_at` is that of `CloseBegin`. A cancellation with
  no open shift is stamped with the closes that had begun, all or all but the
  last, which it may have waited for.
* `LiveStreams`: registering a stream, publishing, asking again, and every step
  of the shutdown are separate. `PlatformOrders`: storing the notice, asking for
  the detail, registering the order, accepting it at the platform and selling
  it are separate transactions with calls to the platform in between; the
  process may die in any of them.

### What is abstracted

* `OrderAccount`: a line is one piece, so `splitOrderLine` moves a whole
  line; parts of a line are in `SharedBill`. Refunds split over methods in
  the order of `created_at`, which is the start of a transaction and says
  nothing of commits: `Splits` allows any order. Pieces go to the kitchen when
  they are captured. `Refund` (reembolsada) is left out: no route calls it.
* Money is a natural number of cents; `Round2` leaves it alone. Selections
  with a discount round half up as `discountShare` does. `SharedBill` has
  pieces by halves, so an odd price shows the rounding of a split line.
  `TakeOut` is the loop over the picked lines (`splitOrderLine` for each, in the
  order of their ids) as a recursive function.
* `SharedBill`: the shift stays open; charges do not repeat their key, and
  refunds, statuses, discounts set after the order exists and write-offs are
  left to `OrderAccount`.
* `CashDrawers`: every amount is one peso; one payment per request; expenses
  older than `include_in_count` are left out; the floor of 24 hours of a
  payment is any time its guard allows. What `CloseSession` reads before its
  transaction is one step.
* `Tips`: the order is what its tips need: charged, cancelled or not. An order
  gives back all its tips or none, and any undelivered one may be cancelled,
  which is more than `OrderAccount` lets happen. One flag says both that a method
  is cash and that it affects the drawer. Who receives each part, and the
  cents that cannot be handed out in whole pesos, are left out: a close or a
  payout refused for them is a rollback. The tip that `CancelEmpty` keeps is
  left out (see the disagreements).
* `Drafts`: names, the header's contents, prices, `Import` and the lines a paid
  order refuses are left out. `updated_at` is compared for equality only, so a
  version stands for it. The unique index of one live draft per order
  (`order_drafts_live_per_order`) is left out on purpose: the lock of the order
  is shown to be enough. The sweep, a transaction of its own before that of a
  creation (`drafts.go:176`), is in the step `Create`, and the creation in the
  steps after it.
* `Stock`: what is lost, sold or received leaves or reaches the shelf at the moment
  it is recorded: for a waste that waits for an approval the insertion of its row
  (`clock_timestamp()`), for the rest the lock of its ingredients. Costs, weighing,
  previews and the rule of the same day are left out. A waste covered for one
  of the ingredients of its product is covered for all, as in the code.
* `PlatformOrders`: one branch and one register; the signature, the
  environment, products, stock and folio number are left out. `Cap`, the size of
  a channel, is 1 and not 16: a full channel is what matters.
* Everywhere: one branch, one company; wording, tickets, audit rows,
  permissions, terminals and inactive methods are left out. Counts of
  bills, floats, withdrawals and attendance can refuse a close: that is its
  rollback.

## The runs

Each pass run explores the whole state space of its bounds.

| Run | Instance | Properties | Question |
|---|---|---|---|
| `Counter` | one order with a fee, two pieces (one cooked), two keys, one method, one shift, discounts, stale `lista` | `NumbersUnique`, `CancelledKeepsNoSale`, `StockOnce`, `BillFollowsLines`, `NeverOverpaid`, `CancelledIsFinal` | do bill, money and stock of an order stay together through every way of ending it? |
| `Shifts` | one order of one piece, two keys, cash and card, tips, two shifts | `TypeOK`, `RefundsCovered`, `SignedStands`, `ShiftsReconcile`, `LedgerImplemented` | is each peso in one shift or waiting for one? do payments implement the ledger? |
| `SharedBill` | two tablets, three orders, two bills to begin with: drinks with a discount and a fee, charged by parts and by selections, and two cooked orders of odd prices with two batches of moves | `TypeOK`, `PiecesPaidOnce`, `PaymentsFit`, `NothingInvented`, `MovedOnce`, `NoWaitCycle`, `BoardShowsPending`, `LastPartSettles` | do payments, deliveries and moves agree on the same pieces? |
| `Expenses` | one register, two tablets, one expense with a payment in cash and one by card, two shifts, five readings of the clock | `TypeOK`, `PaidFromOneDrawer`, `SignedCoversDrawer`, `PendingCanBeCounted` | is a payment in the count it should be in, and in one? |
| `Drawers` | two registers, two tablets, two shifts, two movements, two corrections, three readings of the clock | `SignedCoversDrawer`, `ReversedOnce`, `OpenShiftCounted`, `SalesStayWithShift` | does what a close signs stay what the drawer had, with transfers, corrections and the sales moving away? |
| `Tips` | two registers, two tablets, one order with a tip of two in cash and of one by card, three shifts | `TipsConserved` | is each peso of tips handed out once, given back, or waiting in the register that took it? |
| `Drafts` | two tablets, one account, two touches, two «Nuevo», versions up to 3 | `TypeOK`, `NoWaitCycle`, `KeepsLedger`, `DropsOnlySeen`, `SendsWhatIsStored` | is a touch sold once and never lost, whoever edits, sends or retries? |
| `Stock` | two clerks, one ingredient, one sale, one waste, one delivery received by parts, two counts | `TypeOK`, `CountedOnce` | is anything subtracted twice because it happened during a count? |
| `Platform` | two tablets, one copy, one order, one notice, two shifts, two days | `SoldAsAccepted`, `PaidInItsCount` | is an accepted order sold once, and paid in one count? |
| `Streams` | one tablet, two copies, one lost stream, one order | `TypeOK`, `ScreensFollow`, `StopsInTime` | do screens follow the orders, and does a copy asked to stop stop? |
| `CoveredByNone`, `NoticeLost` | the smallest that reaches the case | `DiscardedCoversNothing`, `ConfirmedIsRegistered` | the findings below |

The bounds: `MaxAmount`, `MaxDiscount`, `MaxTip` bound single inputs; `Asked`
is the statuses `SetStatus` is asked for; `MaxShifts` the shifts opened;
`MaxTime`, `MaxMoves`, `MaxFixes` the readings of the clock, the movements and
the corrections; `Later` the payments dated ahead (none); `MaxPieces` the
half pieces of a line picked at once; `MaxVersion` the versions of a draft; `MaxCounts` the counts;
`MaxCopies`, `Cap`, `MaxDrops`, `MaxDay` the copies of the server, the size of a
channel, the streams lost and the days.

Why they are enough to be interesting: two keys give a payment and a second
one, or a void and its retry; two pieces give a removed and a remaining one;
two shifts give the gap between them, where refunds, expenses and platform
orders wait, and the third of `Tips` one that inherits from one that had
inherited; two methods give a refund that empties one and goes on with the
other; the fee makes a total survive the removal of every piece; two
tablets give every race of two transactions and every cycle of two locks; three
orders let two moves in opposite directions share one order or two; two versions more
than the first let a tablet send one it read before another tablet changed
it, and retry; two counts give one discarded and the next.

No property of a pass run needs a platform order in `OrderAccount`: those
have a method of their own and refuse the same operations, and the theorems
cover them.

**Fairness.** Only `LiveStreams` and `PlatformOrders` assume any, always weak:
the steps of a handler of a stream and of the broker (goroutines the runtime
schedules), what a screen asks by timer (`Poll`, `Show`), the start of a copy and
the exit of one that was stopped (the orchestrator), and the steps of a request
already in course, which has a deadline. None is assumed of a person or of the
platform: nobody promises to accept an order, to open a shift or to repeat a
notice. `ScreensFollow` and `StopsInTime` are the liveness properties; the other
modules have none, since nothing in the code promises that a request is sent.
Progress there is asked as absence of wait cycles (`NoWaitCycle`) and as a
state with a way out (`PendingCanBeCounted`).

**Deadlock** is not checked: orders end and the bounds end everything else, so the
system may really stop.

## Findings

1. `CoveredByNone`: "Un conteo descartado no cubre nada" (FR-013,
   `specs/039-merma-y-cortesias/spec.md:183-187`; `domain/waste.go:19` says the
   covering count is closed). `ApproveWaste` (`waste.go:296`) marks a waste
   as covered by a count still open that had captured it. If that count is then
   discarded, or the line taken back, nothing ever takes the waste from the stock.
2. `NoticeLost`: "el aviso ya está en disco y el reintento lo encuentra"
   (`pedidos_de_plataforma.go:248-249`; also `:408-409`, and FR-005 of
   `specs/021-recibir-pedidos-uber/spec.md:210`). The notice is stored in a
   transaction of its own. If reading the detail fails, or the process dies, the
   repeated notice meets the row of the first and is answered 200 without being
   processed.

### Other disagreements

These came up while the modules were built, most of them as a counterexample of TLC, the
last two by reading; they are described here and are not runs of the project. The definitions model what the code does, and no property of a
pass run denies it.

* "Con un solo pago hecho, el descuento ya no se pone ni se cambia"
  (`orders.go:595`). A discount that waits for a charge does not see its payment
  and is written over it, and may leave the order paid beyond its total.
  `NeverOverpaid` excepts only that step: a discount that changes on an order with
  payments.
* "no retrocede ni toca órdenes terminales" (`orders.go:989-990`). A late `lista`
  overwrites `entregada`.
* "su tope es ACUMULADO" (`queries/orders.sql:382`). The code caps the tip of each
  payment alone, on purpose (`orders.go:1998`); the comment is stale.
* "Ningún pedido sin terminar sobrevive al cierre." (`backoffice.go:1866`). An
  order being created is born open in a shift that has just closed.
* "sin esto no restaría de ningún corte" (`backoffice.go:1354-1355`). A refund
  whose transaction began before the close did, and waited for it, is older than
  `closed_at` and is never claimed. `ShiftsReconcile` does not
  exclude it: it says that such money is in one place, and that place is `orphan`
  for ever.
* "lo devuelto deja de ser propina del personal aunque la devolución ocurra
  mañana" (`queries/tips.sql:22-24`). The same refund, of an order born open in a
  shift that has just closed, is missed by `TipRefundsAfter`, and the tip inherited from
  it is handed out though it was given back. `TipsConserved` speaks of refunds
  that begin after the close they follow (`InTime`).
* "Cóbralos o cancélalos antes de cerrar" (`fiado.go:95`). Sell, take half, hand
  over, write the rest off, close; in the next shift add a piece and hand it
  over. The order owes and nothing settles it.
* "Cada peso en un solo lugar" (`fiado.go:41`). `SetStatus` stores `entregada`
  without delivering what is pending; after a part payment and a write-off,
  removing the pending pieces lowers the total below what was paid plus what was
  lost.
* "el cliente recibe lo que dio, propina incluida" (`domain/devolucion.go:218-219`).
  An order with a fee, paid with a tip, emptied, refunded and then closed by
  `CancelEmpty` keeps the tip.
* The comment at `expenses.go:791-793` excludes a deadlock, but `AddExpensePayment`
  (`expenses.go:472`) locks its expense and then the register, while an opening
  that holds the register sweeps that expense. PostgreSQL undoes one of them.
* A payment added to a cancelled expense stays counted, against the comment at
  `expenses.go:1090-1095`.
* `UpdateCashRegister` reads whether a register is active before its transaction
  (`backoffice.go:875-879`), so a register taken out of use can end up selling.
* A payment dated ahead counts in the drawer before its date, against FR-003 of
  `specs/048-arqueo-por-hora/spec.md`; `Later` is empty in the runs.
* With a discount above the remaining subtotal, a selection gives a line a negative
  amount, which the check of `migrations/0079_split_bill.sql:53` refuses: the
  charge is undone and answered as an internal error.
* "aprobarlas después la restaría dos veces" (`waste_reports.go:85`). The close of a
  count covers the pending waste that it finds committed. One whose row was inserted
  before the capture and is committed after the close stays pending, and its
  approval subtracts it again. `CountedOnce` leaves out only such a waste (`missed`).
* `UndoWaste` reads the counts that saw the waste (`waste.go:370`) before it locks
  the ingredients: one captured in between makes the undo invent stock, which
  the comment of `queries/waste.sql` says it avoids.
* Voiding a payment whose tip was handed out is refused only by the foreign key of
  `tip_payout_sources` (`migrations/0087`), as an internal error.
* A stream refused with 503 is not opened again by the browser, though FR-012 of
  spec 041 says it is: only the poll keeps that screen up to date.

## The proofs

Every property of a pass run is stated by a theorem, except the two of liveness.
Each proof is an invariant that is inductive: it holds at first (`Init...`,
`...Initially`), every step keeps it (one lemma for each action or family of
actions that can disturb it), and it says what the property says. An action
property is what one step does from a state with the invariant.

**Assumptions.** The constants are any that satisfy the named assumptions beside
their declarations. `SetsAssumption`, `DraftsAssumption`, `StockAssumption`,
`DrawersAssumption` and `TipsAssumption` say which set is part of which and that
amounts are natural numbers. Three ask more:

* Sets that are summed over or counted are finite (`FiniteAssumption` of
  `OrderAccount`; the payments of `CashDrawers`, the deliveries of `Stock`): they
  are rows of tables.
* `MaxVersion`, `MaxCopies` and `Cap` are at least one: an account is born with
  version 1 (`MaxVersion` bounds it), and a channel is made with room (`broker.go`).
* `PricesAssumption` of `SharedBill`: a line has no more half pieces than its piece
  costs cents, unless that price is even. A split rounds what leaves up to the cent, and
  no check of the tables keeps `line_total` from going below zero: two pieces of
  one cent are worth two cents, and three of their halves could take one each.
  No product of a menu is near that.

One theorem has a hypothesis of its own: `PendingCounted` asks that no payment is
dated ahead (`Later = {}`), as in the runs; with one, the property is false (see the
disagreements).

**Orders** (`OrderProofs`)

| Theorem | Inductive invariant | Argument |
|---|---|---|
| `TypeCorrect`: `[]TypeOK` | `TypeOK` | inductive as it stands, with the guard of `VoidKeepsRefunds` for `paidBy` never going negative and `phase = "none" <=> cur = 0` for refunds to have a shift |
| `RefundsAlwaysCovered`: `[]RefundsCovered` | `RefundInv` = `TypeOK`, `RefundsCovered`, `HoldsCovered` | a refund in flight must still fit when it commits: its order is locked, so nothing collected or given back has changed |
| `KeysBuyOnce`: `KeyBuysOnce` | `TypeOK` | a key leaves "unused" only by a charge that found it unused, and "live" only by a void |
| `ImplementsLedger`: `LedgerImplemented` | `RefundInv` | charge to `Collect`, void to `Void`, refunds to `GiveBack`, the rest to stutters |
| `NumbersNeverRepeat`: `[]NumbersUnique` | `NumberInv` = `TypeOK`, `NumbersUnique`, `NumbersBelow` | the numbers of an order are at most the count of its keys ever used, voids included |
| `SignedTotalsStand`: `[]SignedStands` | `SignedStands` with `TypeOK` | charges, voids and refunds touch only the open shift, and an unsigned shift is the only one that is open |
| `BillAlwaysFollows`: `[]BillFollowsLines` | `BillInv` = `TypeOK`, `FlightExists`, `BillFollowsLines` | every step that changes pieces or discount recomputes the total of its order |
| `StockMovesOnce`: `[]StockOnce` | `StockInv` = `TypeOK`, `StockKept`, `HoldCancels` | `StockKept` says exactly how much each piece has out by its state and that of its order; a cancellation in flight found nothing handed over |
| `CancelledKeepNoSale`: `[]CancelledKeepsNoSale`; `CancelledStaysFinal`: `CancelledIsFinal` | `CancelledInv` = `RefundInv`, `HoldsEnd`, `CancelledKeepsNoSale` | a cancellation gives back all that is left and one in flight still will when it commits; so a cancelled order has nothing to give back, and a void or a refund finds nothing to take |
| `NeverPaidBeyondTotal`: `NeverOverpaid` | `PaidInv` = `BillInv`, `UnbornOwesNothing` | each guard compares what the step leaves with what was paid; `total` is what the lines say, so removing pieces takes off what the guard looked at; a step that writes a discount either finds nothing paid or leaves the discount as it was, except the late one of the disagreements |
| `ShiftsAlwaysReconcile`: `[]ShiftsReconcile` | `ReconcileInv` = `TypeOK`, `ShiftsReconcile`, `NotYetOpened` | a charge or a void moves one term on each side by the same, a refund moves one shift or one gap and one order, a claim takes from the gaps what it adds to a shift |

`KeyBuysOnce` is not the property of a run: `LedgerImplemented` says it and more.

**Shared bills** (`BillProofs`). The base is `Typed`: besides types, a line is worth no
less than what halves rounded up can still take from it (`Worth`), and a tablet
that holds an order waits for one with a greater id. `TakeOutSays` describes the
lines that `TakeOut` leaves, and `StepIs` says that a step pays once, voids, delivers,
takes pieces off, moves them, or leaves lines and payments alone.

| Theorem | Inductive invariant | Argument |
|---|---|---|
| `BillsTyped`, `MovesNeverCross`: `[]TypeOK`, `[]NoWaitCycle` | `Typed` | orders are locked by increasing id, so of two tablets that wait for each other each would hold the smaller |
| `MovesOnce`: `[]MovedOnce` | `MovedInv`: and a key that was not sent moved nothing | the batch is looked for under the locks, at the commit |
| `NoPiecePaidTwice`: `[]PiecesPaidOnce` | `PiecesInv` | pieces that are picked are not covered, and a line that loses some keeps those that are |
| `SplitsKeepAll`: `[]NothingInvented` | `KeepsInv` | sums over the lines of `TakeOut` equal those before it: a split line is two with its pieces and its cents |
| `PaymentsAlwaysFit`: `[]PaymentsFit` | `FitInv` | a charge is at most what is owed, and whatever lowers a total asks `RemovalKeepsPayments` of the total it leaves |
| `LastPartAlwaysSettles`: `LastPartSettles` | `SeriesInv`: a part of a series is charged once | the last part takes all that is owed |
| `BoardAlwaysShows`: `[]BoardShowsPending` | `BoardInv` | every step that delivers, removes or moves looks again at the orders it touched, and no other line changed |

**Drawers** (`DrawerProofs`)

| Theorem | Inductive invariant | Argument |
|---|---|---|
| `DrawersTyped`: `[]TypeOK` | `TypeInv`: and what each request in flight carries (`HandlerTyped`) | one lemma for each handler |
| `OpenShiftsCounted`: `[]OpenShiftCounted`; `SalesStay`: `SalesStayWithShift` | `LockInv` = `ShiftsOwn`, `OpeningAlone`, `OpenShiftCounted`, `FlightFits` | whoever opens on a register has it alone; what others decided under its lock (`DecidedFits`, `CountingFits`) stays true until they commit |
| `PaidOnce`: `[]PaidFromOneDrawer`; `SignedStays`: `[]SignedCoversDrawer` | `DrawerInv`: `LockInv`, `CountedMade` and the two | a row enters only an open session, and a payment that waits has no row until the opening that sweeps it writes one |
| `PendingCounted`: `[]PendingCanBeCounted` | `PendingInv`: and no payment is later than the clock | an opening takes what its register's last close left behind |
| `ReversedAtMostOnce`: `[]ReversedOnce` | `ReversalInv`: rows are numbered by those before them | the second correction finds the row of the first, by the number of the movement it is of |

**The rest**

| Theorem | Inductive invariant | Argument |
|---|---|---|
| `TipsAddUp`: `[]TipsConserved` | `TipsInv` = `Typed`, `Chain`, `CarryFits`, `LiveFits` | the sessions of a register are a chain; what is left of a tip is always in the last of its own, in what it left or in what it would leave |
| `DraftsTyped`, `TabletsNeverCross`, `SentIsWhatIsStored`, `OnlySeenIsDropped`: `[]TypeOK`, `[]NoWaitCycle`, `SendsWhatIsStored`, `DropsOnlySeen` | `DraftInv` = `Typed`, `TabsTyped`, `AccountsFit`, `TabsFit` | with the version unchanged, what a tablet read is what there is (`ReadFits`, `ViewFits`); a tablet holds one order at most, and who holds one waits only for a «Nuevo» |
| `LedgerKept`: `KeepsLedger` | `DraftInv` | each action of `Drafts` to the step of `TouchLedger` of the touches whose `Fate` it changes, or to a stutter |
| `StockIsTyped`, `OnceCounted`: `[]TypeOK`, `[]CountedOnce` | `StockInv` = `Typed`, `CountsInOrder`, `SeenFirst`, `StockFits` | of an event and an ingredient, what the stock has and what the line of the open count will add are once at most; counts come one after the other; a waste that a close overlooked (`missed`) is left out |
| `StreamsAreTyped`, `SoldOnceAccepted`, `PaidWhereCounted`: `[]TypeOK`, `[]SoldAsAccepted`, `[]PaidInItsCount` | `PlatformInv` = `StreamsTyped`, `OrdersTyped`, `Sold`, `Counted` | the row of the incoming order, taken by one acceptance, is the sale; what a shift signed is what was paid in it when it closed, and no payment enters it later |

**Sums and loops.** `Sum` folds the values of a function in an order that a CHOOSE
picks, and `TakeOut` is a recursive function, so both need an induction. The
library's theorems of induction take an operator and cannot be instantiated
here; `SumProofs` and `CountUp` (`BillProofs`) argue instead from a smallest
counterexample, which well-founded orders give (`WFMin`): over the subsets of a
finite set by inclusion, and over the numbers up to a bound. From there a sum
does not depend on the order (`SumTake`), is integer or natural with its terms,
moves with one of them (`SumPoint`), adds (`SumPlus`, `SumUnion`) and compares
(`SumLeq`, `SumSubset`, `SumAtLeast`). No module declares a RECURSIVE operator.

**Only model-checked:** `ScreensFollow` and `StopsInTime`, since proofs of liveness
under fairness are out of the prover's reach. The two expected
violations are counterexamples and nothing is proved about them.

## Not modelled

* Ingredients: changes of unit, merges, composition and costs; menu and its
  cache; settlements, reports and other read models; attendance; users, roles,
  sessions and passwords; settings, terminals, audit; presentations and the
  reading of invoices; what is published to the platforms; migrations,
  the web front and the commands other than the shutdown of a copy. They are one
  transaction per operation, or only read; the table of components in
  `PROJECT.json` says why for each.
* Editing of expenses, and `MarkNotComing` and `AddArrivedItem` of a purchase: they
  would double the state of `CashDrawers` and `Stock`, which take the same locks.
* `Import` of what a tablet captured while offline.
* Notices of cancellation of a platform are stored and not processed by the code, and
  `DenyIncomingOrder` has no caller. A platform sale with no shift is claimed
  only by a shift of its own day; a later one leaves it, deliberately.

## Plan

What is left, in this order:

1. The hazards of `PROJECT.json` that no property covers, each a disagreement
   above: state for each what does hold in spite of it (as `InTime` does
   for the tips), check it and prove it from the invariants there are.
2. Abstract specifications of what `CashDrawers` and `SharedBill` promise, as
   `ChargeLedger` is of `OrderAccount`: where each peso of a drawer is, and what
   has been paid and handed over of each piece; then the steps, mapped.
3. What would make the proved properties say more: editing of expenses in
   `CashDrawers`, `MarkNotComing` and `AddArrivedItem` in `Stock`, `Import` in `Drafts`.
4. Of the components not modelled, the changes of unit and the merges of ingredients,
   which have locks of their own.
