----------------------------- MODULE DrawerProofs -----------------------------
(***************************************************************************)
(* Theorems about CashDrawers, for every value of its constants.           *)
(***************************************************************************)
EXTENDS CashDrawers, FiniteSetTheorems, WellFoundedInduction, TLAPS

\* Steps that read or lock for a handler and write nothing yet.
ReadStep(t) ==
    \/ \E r \in Registers :
        \/ OpenRead(t, r)
        \/ \E on \in BOOLEAN, c \in {"same", "off", "on"} : UpdateRead(t, r, on, c)
        \/ \E kind \in {"entrada", "salida"} : CashRead(t, r, kind)
        \/ \E to \in Registers : TransferRead(t, r, to)
        \/ \E p \in Pays, inc, confirmed \in BOOLEAN :
            \E time \in {0, now + 1} \cup {now + d : d \in Later} :
                PayRead(t, p, r, time, inc, confirmed)
    \/ OpenLock(t) \/ PayLock(t) \/ PayDecide(t) \/ CancelLock(t) \/ Rollback(t)
    \/ \E m \in moves : CorrectRead(t, m)
    \/ \E p \in Pays, inc \in BOOLEAN : CountLock(t, p, inc)
    \/ \E e \in Expenses : CancelRead(t, e)

\* Steps that write the tables.
WriteStep(t) ==
    \/ \E asked \in 0..MaxTime, exclude \in BOOLEAN : OpenCommit(t, asked, exclude)
    \/ \E r \in Registers : Close(t, r) \/ MoveSales(t, r)
    \/ UpdateCommit(t) \/ CashCommit(t) \/ CorrectCommit(t) \/ TransferCommit(t)
    \/ PayCommit(t) \/ CountCommit(t) \/ CancelCommit(t)

\* A step is of one tablet, and reads or writes.
LEMMA StepsSplit ==
    ASSUME Next
    PROVE  \E t \in Tablets : ReadStep(t) \/ WriteStep(t)
  BY DEF Next, ReadStep, WriteStep

\* What a reading step leaves as it was.
LEMMA ReadsChangeNothing ==
    ASSUME NEW t \in Tablets, ReadStep(t)
    PROVE  /\ UNCHANGED <<registerVars, shiftVars, moves, payVars>>
           /\ now' = now \/ Tick
           /\ \E o : op' = [op EXCEPT ![t] = o]
  BY DEF ReadStep, OpenRead, OpenLock, UpdateRead, CashRead, TransferRead, PayRead, PayLock,
         PayDecide, CancelLock, Rollback, CorrectRead, CountLock, CancelRead, Go, Done
-----------------------------------------------------------------------------
(***************************************************************************)
(* Finite sets.                                                            *)
(***************************************************************************)

\* A set of natural numbers that is not empty has a least element.
LEMMA MinIsLeast ==
    ASSUME NEW S \in SUBSET Nat, S # {}
    PROVE  Min(S) \in S /\ \A y \in S : Min(S) <= y
  <1> DEFINE R == {p \in Nat \X Nat : p[1] < p[2]}
  <1>1. IsWellFoundedOn(R, Nat)
    BY NatLessThanWellFounded, Zenon DEF OpToRel
  <1>2. PICK m \in S : \A y \in S : ~(<<y, m>> \in R)
    <2> HIDE DEF R
    <2> QED  BY <1>1, WFMin, Zenon
  <1>3. m \in Nat /\ \A y \in S : y \in Nat /\ ~(y < m)
    BY <1>2
  <1>4. \A y \in S : m <= y
    BY <1>3
  <1> QED  BY <1>4 DEF Min

\* The bills of some payments are finitely many.
LEMMA BillsFinite ==
    ASSUME NEW ps \in SUBSET Pays, NEW s
    PROVE  IsFiniteSet(BillsOf(ps, s))
  <1> DEFINE cash == ps \cap CashPays
             f == [p \in cash |-> Bill(p, s)]
  <1>1. IsFiniteSet(cash)
    BY DrawersAssumption, FS_Subset
  <1>2. f \in Surjection(cash, BillsOf(ps, s))
    BY DEF Surjection, BillsOf
  <1> HIDE DEF f, cash
  <1> QED  BY <1>1, <1>2, FS_Surjection

\* The net of finitely many movements is a number.
LEMMA NetTyped ==
    ASSUME NEW ms, IsFiniteSet(ms), NEW s
    PROVE  Net(ms, s) \in Int
  <1> DEFINE ins == {m \in ms : m.shift = s /\ m.kind \in {"entrada", "reverso", "desde"}}
             outs == {m \in ms : m.shift = s /\ m.kind \in {"salida", "gasto", "hacia"}}
  <1>1. IsFiniteSet(ins) /\ IsFiniteSet(outs)
    BY FS_Subset
  <1>2. Net(ms, s) = Cardinality(ins) - Cardinality(outs)
    BY DEF Net
  <1> HIDE DEF ins, outs
  <1>3. Cardinality(ins) \in Nat /\ Cardinality(outs) \in Nat
    BY <1>1, FS_CardinalityType
  <1> QED  BY <1>2, <1>3

\* The net of a session is of its movements alone.
LEMMA NetOfOwnMoves ==
    ASSUME NEW ms, NEW ns, NEW s,
           {m \in ms : m.shift = s} = {m \in ns : m.shift = s}
    PROVE  Net(ms, s) = Net(ns, s)
  <1>1. \A kinds : {m \in ms : m.shift = s /\ m.kind \in kinds}
                     = {m \in ns : m.shift = s /\ m.kind \in kinds}
    OBVIOUS
  <1> QED  BY <1>1, Zenon DEF Net

\* Two things at most are finitely many.
LEMMA PairFinite ==
    ASSUME NEW a, NEW b
    PROVE  IsFiniteSet({a, b})
  <1>1. IsFiniteSet({a}) /\ IsFiniteSet({b})
    BY FS_Singleton
  <1>2. {a, b} = {a} \cup {b}
    OBVIOUS
  <1> QED  BY <1>1, <1>2, FS_Union

\* What a row numbered by its handler says.
LEMMA RowSays ==
    ASSUME NEW kind, NEW of, NEW s
    PROVE  /\ Row(kind, of, s).kind = kind /\ Row(kind, of, s).shift = s
           /\ Row(kind, of, s).of = of
           /\ Row(kind, of, s).id = Cardinality({m \in moves : m.kind # "gasto"})
  BY DEF Row

\* Changing an element of a sequence keeps its length.
LEMMA SeqExcept ==
    ASSUME NEW S, NEW q \in Seq(S), NEW i, NEW x \in S
    PROVE  [q EXCEPT ![i] = x] \in Seq(S) /\ Len([q EXCEPT ![i] = x]) = Len(q)
  <1>1. Len(q) \in Nat /\ q \in [1..Len(q) -> S]
    OBVIOUS
  <1>2. [q EXCEPT ![i] = x] \in [1..Len(q) -> S]
    BY <1>1
  <1> QED  BY <1>1, <1>2
-----------------------------------------------------------------------------
(***************************************************************************)
(* Types.                                                                  *)
(***************************************************************************)
PayRecords ==
    [at : {"pay", "payLocked"}, adds : BOOLEAN, pay : Pays, reg : Registers, time : Nat,
     inc : BOOLEAN, confirmed : BOOLEAN]

\* What a handler keeps between two steps, where some sessions were opened and some payments made.
HandlerTyped(o, opened, paid) ==
    /\ o.at \in {"idle", "open", "opening", "update", "cash", "correct", "transfer", "pay",
                "payLocked", "decided", "counting", "cancel", "cancelling"}
    /\ o.at \in {"open", "opening"} => o \in [at : {"open", "opening"}, reg : Registers]
    /\ o.at = "update" => o.reg \in Registers
    /\ o.at = "cash" => o.kind \in {"entrada", "salida"} /\ o.shift \in opened
    /\ o.at = "correct" => o.row.kind = "salida" /\ o.row.shift \in opened
    /\ o.at = "transfer" => o.from \in opened /\ o.to \in opened
    /\ o.at \in {"pay", "payLocked"} => o \in PayRecords
    /\ o.at = "decided" =>
          /\ o.pay \in Pays /\ o.reg \in Registers /\ o.time \in Nat
          /\ o.shift \in {0} \cup opened /\ o.inc \in BOOLEAN
          /\ o.shift # 0 => o.inc
    /\ o.at = "counting" =>
          o.pay \in paid \cap CashPays /\ o.reg \in Registers /\ o.shift \in {0} \cup opened
    /\ o.at \in {"cancel", "cancelling"} => o.exp \in Expenses /\ o.regs \subseteq Registers

FlightTyped ==
    /\ op = [t \in Tablets |-> op[t]]
    /\ \A t \in Tablets : HandlerTyped(op[t], Opened, made)

\* TypeOK with the tables it leaves open and the handlers in course.
TypeInv ==
    /\ TypeOK
    /\ IsFiniteSet(moves)
    /\ signed \in Seq(Int) /\ openedAt \in Seq(Nat)
    /\ FlightTyped

\* It holds at first.
LEMMA TypeInitially == Init => TypeInv
  <1> SUFFICES ASSUME Init PROVE TypeInv
    OBVIOUS
  <1>1. TypeOK
    BY DrawersAssumption DEF Init, TypeOK, Opened
  <1>2. IsFiniteSet(moves)
    BY FS_EmptySet DEF Init
  <1>3. FlightTyped
    BY DEF Init, FlightTyped, HandlerTyped, Idle
  <1> QED  BY <1>1, <1>2, <1>3 DEF Init, TypeInv

\* What a handler keeps stays typed while sessions and payments are only added.
LEMMA TypedStays ==
    ASSUME NEW o, NEW opened, NEW opened2, NEW paid, NEW paid2, HandlerTyped(o, opened, paid),
           opened \subseteq opened2, paid \subseteq paid2
    PROVE  HandlerTyped(o, opened2, paid2)
  BY DEF HandlerTyped

\* A step of one handler leaves the others typed.
LEMMA FlightStep ==
    ASSUME FlightTyped, NEW t \in Tablets, NEW o, Go(t, o), HandlerTyped(o, Opened', made'),
           Opened \subseteq Opened', made \subseteq made'
    PROVE  FlightTyped'
  <1>1. op' = [u \in Tablets |-> op'[u]] /\ \A u \in Tablets : op'[u] = IF u = t THEN o ELSE op[u]
    BY DEF FlightTyped, Go
  <1>2. \A u \in Tablets : HandlerTyped(op[u], Opened', made')
    BY TypedStays DEF FlightTyped
  <1>3. \A u \in Tablets : HandlerTyped(op'[u], Opened', made')
    BY <1>1, <1>2
  <1> QED  BY <1>1, <1>3 DEF FlightTyped

\* A handler that ends, or a step that is not of one, too.
LEMMA FlightKept ==
    ASSUME FlightTyped, NEW t \in Tablets, Done(t) \/ op' = op,
           Opened \subseteq Opened', made \subseteq made'
    PROVE  FlightTyped'
  <1>1. CASE Done(t)
    <2>1. HandlerTyped(Idle, Opened', made')
      BY DEF HandlerTyped, Idle
    <2> QED  BY <1>1, <2>1, FlightStep DEF Done
  <1>2. CASE op' = op
    <2>1. \A u \in Tablets : HandlerTyped(op[u], Opened', made')
      BY TypedStays DEF FlightTyped
    <2> QED  BY <1>2, <2>1 DEF FlightTyped
  <1> QED  BY <1>1, <1>2

\* A reading step leaves the tables typed and what it keeps as well.
LEMMA ReadsTyped ==
    ASSUME TypeInv, NEW t \in Tablets, ReadStep(t)
    PROVE  TypeInv'
  <1>0. /\ Opened' = Opened /\ made' = made
        /\ FlightTyped /\ TypeOK /\ HandlerTyped(op[t], Opened, made)
    BY ReadsChangeNothing DEF TypeInv, FlightTyped, Opened, shiftVars, payVars
  <1>s. \A r \in Registers : shiftOf[r] # 0 => shiftOf[r] \in Opened
    BY <1>0 DEF TypeOK, Opened
  <1>1. TypeOK'
    <2>1. now' = now \/ (now < MaxTime /\ now' = now + 1)
      BY ReadsChangeNothing DEF Tick
    <2>2. now \in 0..MaxTime /\ MaxTime \in Nat
      BY <1>0, DrawersAssumption DEF TypeOK
    <2>3. now' \in 0..MaxTime
      BY <2>1, <2>2
    <2> QED  BY <1>0, <2>3, ReadsChangeNothing DEF TypeOK, registerVars, shiftVars, payVars, Opened
  <1>2. /\ IsFiniteSet(moves)' /\ (signed \in Seq(Int))' /\ (openedAt \in Seq(Nat))'
    BY ReadsChangeNothing DEF TypeInv, shiftVars
  <1>3. \A o : Go(t, o) /\ HandlerTyped(o, Opened, made) => FlightTyped'
    BY <1>0, FlightStep
  <1>4. FlightTyped'
    <2>1. ASSUME NEW r \in Registers, OpenRead(t, r) PROVE FlightTyped'
      BY <2>1, <1>3 DEF OpenRead, HandlerTyped
    <2>2. ASSUME NEW r \in Registers, NEW on \in BOOLEAN, NEW c \in {"same", "off", "on"},
                 UpdateRead(t, r, on, c)
          PROVE FlightTyped'
      BY <2>2, <1>3 DEF UpdateRead, HandlerTyped
    <2>3. ASSUME NEW r \in Registers, NEW kind \in {"entrada", "salida"}, CashRead(t, r, kind)
          PROVE FlightTyped'
      BY <2>3, <1>3, <1>s DEF CashRead, HandlerTyped
    <2>4. ASSUME NEW r \in Registers, NEW to \in Registers, TransferRead(t, r, to)
          PROVE FlightTyped'
      BY <2>4, <1>3, <1>s DEF TransferRead, HandlerTyped
    <2>5. ASSUME NEW r \in Registers, NEW p \in Pays, NEW inc \in BOOLEAN, NEW confirmed \in BOOLEAN,
                 NEW time \in {0, now + 1} \cup {now + d : d \in Later},
                 PayRead(t, p, r, time, inc, confirmed)
          PROVE FlightTyped'
      <3>1. time \in Nat
        BY <1>0, DrawersAssumption DEF TypeOK
      <3> DEFINE o == [at |-> IF expense[ExpenseOf[p]] = "none" THEN "payLocked" ELSE "pay",
                       adds |-> expense[ExpenseOf[p]] # "none", pay |-> p, reg |-> r,
                       time |-> time, inc |-> inc, confirmed |-> confirmed]
      <3>2. Go(t, o)
        BY <2>5 DEF PayRead
      <3>3. o \in PayRecords /\ o.at \in {"pay", "payLocked"}
        BY <3>1 DEF PayRecords
      <3> HIDE DEF o
      <3>4. HandlerTyped(o, Opened, made)
        BY <3>3 DEF HandlerTyped
      <3> QED  BY <3>2, <3>4, <1>3
    <2>6. CASE OpenLock(t)
      <3> DEFINE o == [op[t] EXCEPT !.at = "opening"]
      <3>1. op[t] \in [at : {"open", "opening"}, reg : Registers]
        BY <2>6, <1>0 DEF OpenLock, Doing, HandlerTyped
      <3>2. o \in [at : {"open", "opening"}, reg : Registers] /\ o.at = "opening"
        BY <3>1
      <3>3. Go(t, o)
        BY <2>6 DEF OpenLock
      <3> HIDE DEF o
      <3>4. HandlerTyped(o, Opened, made)
        BY <3>2 DEF HandlerTyped
      <3> QED  BY <3>3, <3>4, <1>3
    <2>7. CASE PayLock(t)
      <3> DEFINE o == [op[t] EXCEPT !.at = "payLocked"]
      <3>1. op[t] \in PayRecords
        BY <2>7, <1>0 DEF PayLock, Doing, HandlerTyped
      <3>2. o \in PayRecords /\ o.at = "payLocked"
        BY <3>1 DEF PayRecords
      <3>3. Go(t, o)
        BY <2>7 DEF PayLock
      <3> HIDE DEF o
      <3>4. HandlerTyped(o, Opened, made)
        BY <3>2 DEF HandlerTyped
      <3> QED  BY <3>3, <3>4, <1>3
    <2>8. CASE PayDecide(t)
      <3>1. op[t] \in PayRecords
        BY <2>8, <1>0 DEF PayDecide, Doing, HandlerTyped
      <3> DEFINE target == Target(op[t].pay, op[t].reg, op[t].time, op[t].inc, op[t].confirmed)
                 o == [at |-> "decided", adds |-> op[t].adds, pay |-> op[t].pay, reg |-> op[t].reg,
                       time |-> op[t].time, inc |-> target # "outside",
                       shift |-> IF target = "shift" THEN shiftOf[op[t].reg] ELSE 0]
      <3>2. Go(t, o)
        BY <2>8 DEF PayDecide
      <3>3. op[t].pay \in Pays /\ op[t].reg \in Registers /\ op[t].time \in Nat
        BY <3>1 DEF PayRecords
      <3> HIDE DEF target
      <3>4. HandlerTyped(o, Opened, made)
        BY <3>3, <1>s DEF HandlerTyped
      <3> QED  BY <3>2, <3>4, <1>3
    <2>9. CASE CancelLock(t)
      BY <2>9, <1>0, <1>3 DEF CancelLock, HandlerTyped, Doing
    <2>10. CASE Rollback(t)
      BY <2>10, <1>3 DEF Rollback, Done, Idle, HandlerTyped
    <2>11. ASSUME NEW m \in moves, CorrectRead(t, m) PROVE FlightTyped'
      BY <2>11, <1>0, <1>3 DEF CorrectRead, HandlerTyped, TypeOK
    <2>12. ASSUME NEW p \in Pays, NEW inc \in BOOLEAN, CountLock(t, p, inc) PROVE FlightTyped'
      BY <2>12, <1>0, <1>3, <1>s DEF CountLock, HandlerTyped, TypeOK
    <2>13. ASSUME NEW e \in Expenses, CancelRead(t, e) PROVE FlightTyped'
      BY <2>13, <1>0, <1>3 DEF CancelRead, HandlerTyped, TypeOK, PaysOf
    <2> QED
      BY <2>1, <2>2, <2>3, <2>4, <2>5, <2>6, <2>7, <2>8, <2>9, <2>10, <2>11, <2>12, <2>13
      DEF ReadStep
  <1> QED  BY <1>1, <1>2, <1>4 DEF TypeInv

\* The steps of a handler that keep the hour of a payment.
Timed == {"pay", "payLocked", "decided"}

\* What a reading step leaves: the hour of a payment it was read with, a cash-out that is there, or
\* neither.
LEMMA ReadsLeave ==
    ASSUME TypeInv, NEW t \in Tablets, ReadStep(t)
    PROVE  \E o : /\ Go(t, o)
                  /\ \/ o.at \notin Timed \cup {"correct"}
                     \/ o.at = "correct" /\ o.row \in moves /\ o.row.kind = "salida"
                     \/ o.at \in Timed /\ op[t].at \in Timed /\ o.time = op[t].time /\ now' = now
                     \/ /\ o.at \in Timed /\ now' = now + 1
                        /\ o.time \in {0, now + 1} \cup {now + d : d \in Later}
  <1> DEFINE Left(o) == \/ o.at \notin Timed \cup {"correct"}
                        \/ o.at = "correct" /\ o.row \in moves /\ o.row.kind = "salida"
                        \/ o.at \in Timed /\ op[t].at \in Timed /\ o.time = op[t].time /\ now' = now
                        \/ /\ o.at \in Timed /\ now' = now + 1
                           /\ o.time \in {0, now + 1} \cup {now + d : d \in Later}
  <1> SUFFICES \E o : Go(t, o) /\ Left(o)
    OBVIOUS
  <1>0. HandlerTyped(op[t], Opened, made)
    BY DEF TypeInv, FlightTyped
  <1>1. ASSUME NEW r \in Registers, OpenRead(t, r) PROVE \E o : Go(t, o) /\ Left(o)
    BY <1>1 DEF OpenRead, Timed
  <1>2. ASSUME NEW r \in Registers, NEW on \in BOOLEAN, NEW c \in {"same", "off", "on"},
               UpdateRead(t, r, on, c)
        PROVE \E o : Go(t, o) /\ Left(o)
    BY <1>2 DEF UpdateRead, Timed
  <1>3. ASSUME NEW r \in Registers, NEW kind \in {"entrada", "salida"}, CashRead(t, r, kind)
        PROVE \E o : Go(t, o) /\ Left(o)
    BY <1>3 DEF CashRead, Timed
  <1>4. ASSUME NEW r \in Registers, NEW to \in Registers, TransferRead(t, r, to)
        PROVE \E o : Go(t, o) /\ Left(o)
    BY <1>4 DEF TransferRead, Timed
  <1>5. ASSUME NEW r \in Registers, NEW p \in Pays, NEW inc \in BOOLEAN, NEW confirmed \in BOOLEAN,
               NEW time \in {0, now + 1} \cup {now + d : d \in Later},
               PayRead(t, p, r, time, inc, confirmed)
        PROVE \E o : Go(t, o) /\ Left(o)
    BY <1>5 DEF PayRead, Tick, Timed
  <1>6. CASE OpenLock(t)
    <2> DEFINE o == [op[t] EXCEPT !.at = "opening"]
    <2>1. op[t] \in [at : {"open", "opening"}, reg : Registers]
      BY <1>0, <1>6 DEF OpenLock, Doing, HandlerTyped
    <2>2. o.at = "opening"
      BY <2>1
    <2>3. Go(t, o)
      BY <1>6 DEF OpenLock
    <2> HIDE DEF o
    <2> QED  BY <2>2, <2>3 DEF Timed
  <1>7. CASE PayLock(t)
    <2> DEFINE o == [op[t] EXCEPT !.at = "payLocked"]
    <2>1. op[t] \in PayRecords /\ op[t].at \in Timed
      BY <1>0, <1>7 DEF PayLock, Doing, HandlerTyped, Timed
    <2>2. o.at = "payLocked" /\ o.time = op[t].time
      BY <2>1 DEF PayRecords
    <2>3. Go(t, o) /\ now' = now
      BY <1>7 DEF PayLock
    <2> HIDE DEF o
    <2> QED  BY <2>1, <2>2, <2>3 DEF Timed
  <1>8. CASE PayDecide(t)
    BY <1>8 DEF PayDecide, Doing, Timed
  <1>9. CASE CancelLock(t)
    BY <1>9 DEF CancelLock, Timed
  <1>10. CASE Rollback(t)
    BY <1>10 DEF Rollback, Done, Idle, Timed
  <1>11. ASSUME NEW m \in moves, CorrectRead(t, m) PROVE \E o : Go(t, o) /\ Left(o)
    BY <1>11 DEF CorrectRead
  <1>12. ASSUME NEW p \in Pays, NEW inc \in BOOLEAN, CountLock(t, p, inc)
         PROVE \E o : Go(t, o) /\ Left(o)
    BY <1>12 DEF CountLock, Timed
  <1>13. ASSUME NEW e \in Expenses, CancelRead(t, e) PROVE \E o : Go(t, o) /\ Left(o)
    BY <1>13 DEF CancelRead, Timed
  <1> HIDE DEF Left
  <1> QED
    BY <1>1, <1>2, <1>3, <1>4, <1>5, <1>6, <1>7, <1>8, <1>9, <1>10, <1>11, <1>12, <1>13
    DEF ReadStep

\* An opening begins at an hour: the one asked for, or that of a payment, or now.
LEMMA HourTyped ==
    ASSUME TypeOK, NEW r \in Registers, NEW asked \in 0..MaxTime, NEW exclude \in BOOLEAN
    PROVE  OpeningHour(r, asked, exclude) \in Nat
  <1> DEFINE since == {p \in PendingAt(r) : lastClose[r] = 0 \/ paidAt[p] > lastClose[r]}
             times == {paidAt[p] : p \in since}
  <1>1. asked \in Nat /\ now + 1 \in Nat
    BY DrawersAssumption DEF TypeOK
  <1>2. times \subseteq Nat
    BY DEF TypeOK, PendingAt
  <1>3. since # {} => times # {}
    OBVIOUS
  <1>4. OpeningHour(r, asked, exclude) \in {asked, now + 1}
          \/ (since # {} /\ OpeningHour(r, asked, exclude) = Min(times))
    BY DEF OpeningHour
  <1> HIDE DEF since, times
  <1>5. since # {} => Min(times) \in Nat
    BY <1>2, <1>3, MinIsLeast
  <1> QED  BY <1>1, <1>4, <1>5

\* What an insertion leaves: finitely many movements.
LEMMA InsertKeepsFinite ==
    ASSUME IsFiniteSet(moves), NEW rows, IsFiniteSet(rows), Insert(rows)
    PROVE  IsFiniteSet(moves')
  BY FS_Union DEF Insert

\* Opening a session keeps the types.
LEMMA OpenTyped ==
    ASSUME TypeInv, NEW t \in Tablets, NEW asked \in 0..MaxTime, NEW exclude \in BOOLEAN,
           OpenCommit(t, asked, exclude)
    PROVE  TypeInv'
  <1> DEFINE r == op[t].reg
             s == Len(regOf) + 1
             hour == OpeningHour(r, asked, exclude)
             swept == Swept(r, hour, asked)
  <1>1. r \in Registers
    BY DEF OpenCommit, Doing, TypeInv, FlightTyped, HandlerTyped
  <1>2. hour \in Nat
    BY <1>1, HourTyped DEF TypeInv
  <1>3. swept \subseteq {p \in made \cap CashPays : p \in included}
    BY DEF Swept, PendingAt, IsPending
  <1>4. /\ Len(regOf) \in Nat /\ s \in Nat /\ s <= MaxShifts
        /\ regOf' = Append(regOf, r) /\ Opened' = 1..s /\ Opened = 1..Len(regOf)
        /\ regOf' \in Seq(Registers) /\ Len(regOf') = s
    BY <1>1, DrawersAssumption DEF OpenCommit, TypeInv, TypeOK, Shifts, Opened
  <1>5. /\ IsFiniteSet(moves') /\ moves' = moves \cup BillsOf(swept, s)
    <2>1. Insert(BillsOf(swept, s))
      BY DEF OpenCommit
    <2>2. IsFiniteSet(BillsOf(swept, s))
      BY <1>3, BillsFinite DEF TypeInv, TypeOK
    <2> QED  BY <2>1, <2>2, InsertKeepsFinite DEF TypeInv, Insert
  <1>6. TypeOK'
    <2>1. now' \in 0..MaxTime
      BY DrawersAssumption DEF OpenCommit, Tick, TypeInv, TypeOK
    <2>2. UNCHANGED <<sells, active, counts, lastClose, expense, made, drawer, paidAt>>
      BY DEF OpenCommit, registerVars
    <2>3. shiftOf' \in [Registers -> 0..Len(regOf')]
      BY <1>4 DEF OpenCommit, TypeInv, TypeOK
    <2>4. Len(openedAt') = Len(regOf') /\ Len(signed') = Len(regOf')
      BY <1>2, <1>4 DEF OpenCommit, TypeInv, TypeOK
    <2>5. \A m \in moves' : m.kind \in Kinds /\ m.shift \in Opened'
      BY <1>4, <1>5 DEF TypeInv, TypeOK, BillsOf, Bill, Kinds
    <2>6. counted' \in [Pays -> 0..Len(regOf')]
      <3>1. counted' = [p \in Pays |-> IF p \in swept THEN s ELSE counted[p]]
        BY DEF OpenCommit
      <3>2. \A p \in Pays : counted[p] \in 0..s
        BY <1>4 DEF TypeInv, TypeOK
      <3> HIDE DEF s, swept
      <3> QED  BY <1>4, <3>1, <3>2
    <2>7. included' \subseteq made'
      BY <2>2 DEF OpenCommit, TypeInv, TypeOK
    <2>8. \A p \in made' : counted'[p] # 0 => p \in included'
      <3>1. \A p \in Pays : counted'[p] = IF p \in swept THEN s ELSE counted[p]
        BY DEF OpenCommit
      <3>2. included' = included \ {p \in made : IsPending(p) /\ p \notin swept
                                                 /\ drawer[p] = r /\ paidAt[p] < hour}
        BY DEF OpenCommit
      <3>3. \A p \in made : IsPending(p) => counted[p] = 0
        BY DEF IsPending
      <3> HIDE DEF s, swept, hour, r
      <3> QED  BY <1>3, <2>2, <3>1, <3>2, <3>3 DEF TypeInv, TypeOK
    <2> QED
      BY <1>4, <2>1, <2>2, <2>3, <2>4, <2>5, <2>6, <2>7, <2>8 DEF TypeOK, TypeInv
  <1>7. (signed \in Seq(Int))' /\ (openedAt \in Seq(Nat))'
    BY <1>2 DEF OpenCommit, TypeInv
  <1>8. FlightTyped'
    <2>1. Opened \subseteq Opened' /\ made' = made
      BY <1>4 DEF OpenCommit
    <2> QED  BY <2>1, FlightKept DEF OpenCommit, TypeInv
  <1> QED  BY <1>5, <1>6, <1>7, <1>8 DEF TypeInv

\* Closing one too.
LEMMA CloseTyped ==
    ASSUME TypeInv, NEW t \in Tablets, NEW r \in Registers, Close(t, r)
    PROVE  TypeInv'
  <1>1. UNCHANGED <<registerVars, regOf, openedAt, moves, payVars, op>> /\ Opened' = Opened
    BY DEF Close, Opened
  <1>2. shiftOf[r] \in Opened /\ Opened = 1..Len(regOf) /\ Len(regOf) \in Nat
    BY DEF Close, TypeInv, TypeOK, Opened
  <1>3. now' \in 0..MaxTime /\ now + 1 \in 0..MaxTime
    BY DrawersAssumption DEF Close, Tick, TypeInv, TypeOK
  <1>4. Net(moves, shiftOf[r]) \in Int
    BY NetTyped DEF TypeInv
  <1>5. signed' \in Seq(Int) /\ Len(signed') = Len(signed)
    <2> DEFINE net == Net(moves, shiftOf[r])
    <2>1. signed \in Seq(Int) /\ net \in Int /\ signed' = [signed EXCEPT ![shiftOf[r]] = net]
      BY <1>4 DEF Close, TypeInv
    <2> HIDE DEF net
    <2>2. /\ [signed EXCEPT ![shiftOf[r]] = net] \in Seq(Int)
          /\ Len([signed EXCEPT ![shiftOf[r]] = net]) = Len(signed)
      BY <2>1, SeqExcept
    <2> QED  BY <2>1, <2>2
  <1>6. TypeOK'
    <2>1. shiftOf' \in [Registers -> 0..Len(regOf')]
      BY <1>1, <1>2 DEF Close, TypeInv, TypeOK
    <2>2. lastClose' \in [Registers -> 0..MaxTime]
      BY <1>3 DEF Close, TypeInv, TypeOK
    <2> QED
      BY <1>1, <1>2, <1>3, <1>5, <2>1, <2>2 DEF TypeInv, TypeOK, registerVars, payVars
  <1>7. FlightTyped'
    BY <1>1, FlightKept DEF TypeInv, payVars
  <1> QED  BY <1>1, <1>5, <1>6, <1>7 DEF TypeInv

\* Moving the sales, and changing a register.
LEMMA RegistersTyped ==
    ASSUME TypeInv, NEW t \in Tablets,
           (\E r \in Registers : MoveSales(t, r)) \/ UpdateCommit(t)
    PROVE  TypeInv'
  <1>1. UNCHANGED <<now, shiftVars, moves, payVars>> /\ Opened' = Opened
    BY DEF MoveSales, UpdateCommit, Opened, shiftVars
  <1>2. sells' \in Registers /\ active' \subseteq Registers /\ counts' \subseteq Registers
    <2>1. CASE \E r \in Registers : MoveSales(t, r)
      BY <2>1 DEF MoveSales, TypeInv, TypeOK
    <2>2. CASE UpdateCommit(t)
      <3>1. op[t].reg \in Registers
        BY <2>2 DEF UpdateCommit, Doing, TypeInv, FlightTyped, HandlerTyped
      <3> QED  BY <2>2, <3>1 DEF UpdateCommit, TypeInv, TypeOK
    <2> QED  BY <2>1, <2>2
  <1>3. FlightTyped'
    BY <1>1, FlightKept DEF MoveSales, UpdateCommit, TypeInv, payVars
  <1>4. TypeOK'
    BY <1>1, <1>2 DEF TypeInv, TypeOK, shiftVars, payVars
  <1> QED  BY <1>1, <1>3, <1>4 DEF TypeInv, shiftVars

\* The movements of cash, those of a person, the corrections and the transfers, enter sessions
\* that are open.
LEMMA RowsOfCash ==
    ASSUME TypeInv, NEW t \in Tablets, CashCommit(t) \/ CorrectCommit(t) \/ TransferCommit(t)
    PROVE  \E rows : /\ moves' = moves \cup rows /\ IsFiniteSet(rows)
                     /\ \A m \in rows : /\ m.kind \in Kinds \ {"gasto"}
                                        /\ m.shift \in Opened /\ IsOpen(m.shift)
  <1>1. HandlerTyped(op[t], Opened, made)
    BY DEF TypeInv, FlightTyped
  <1>2. CASE CashCommit(t)
    <2> DEFINE rows == {Row(op[t].kind, 0, op[t].shift)}
    <2>1. moves' = moves \cup rows /\ IsOpen(op[t].shift)
      BY <1>2 DEF CashCommit, Insert
    <2>2. op[t].kind \in {"entrada", "salida"} /\ op[t].shift \in Opened
      BY <1>1, <1>2 DEF CashCommit, Doing, HandlerTyped
    <2>3. IsFiniteSet(rows)
      BY FS_Singleton
    <2>4. \A m \in rows : m.kind \in Kinds \ {"gasto"} /\ m.shift = op[t].shift
      BY <2>2 DEF Row, Kinds
    <2> QED  BY <2>1, <2>2, <2>3, <2>4
  <1>3. CASE CorrectCommit(t)
    <2> DEFINE m == op[t].row
               s == shiftOf[regOf[m.shift]]
               rows == {Row("reverso", m.id, s), Row("salida", 0, s)}
    <2>1. moves' = moves \cup rows /\ s # 0
      BY <1>3 DEF CorrectCommit
    <2>2. regOf[m.shift] \in Registers
      BY <1>1, <1>3 DEF CorrectCommit, Doing, HandlerTyped, TypeInv, TypeOK, Opened
    <2>3. s \in Opened
      BY <2>1, <2>2 DEF TypeInv, TypeOK, Opened
    <2>4. IsOpen(s)
      BY <2>1, <2>2 DEF IsOpen
    <2>5. IsFiniteSet(rows)
      BY PairFinite
    <2>6. \A row \in rows : row.kind \in Kinds \ {"gasto"} /\ row.shift = s
      BY DEF Row, Kinds
    <2> HIDE DEF rows, s
    <2> QED  BY <2>1, <2>3, <2>4, <2>5, <2>6
  <1>4. CASE TransferCommit(t)
    <2> DEFINE rows == {Row("hacia", 0, op[t].from), Row("desde", 0, op[t].to)}
    <2>1. moves' = moves \cup rows /\ IsOpen(op[t].from) /\ IsOpen(op[t].to)
      BY <1>4 DEF TransferCommit, Insert
    <2>2. op[t].from \in Opened /\ op[t].to \in Opened
      BY <1>1, <1>4 DEF TransferCommit, Doing, HandlerTyped
    <2>3. IsFiniteSet(rows)
      BY PairFinite
    <2>4. \A m \in rows : m.kind \in Kinds \ {"gasto"} /\ m.shift \in {op[t].from, op[t].to}
      BY DEF Row, Kinds
    <2> HIDE DEF rows
    <2> QED  BY <2>1, <2>2, <2>3, <2>4
  <1> QED  BY <1>2, <1>3, <1>4

\* They keep the types.
LEMMA MovesTyped ==
    ASSUME TypeInv, NEW t \in Tablets, CashCommit(t) \/ CorrectCommit(t) \/ TransferCommit(t)
    PROVE  TypeInv'
  <1>1. UNCHANGED <<registerVars, shiftVars, payVars>> /\ Opened' = Opened /\ now' = now /\ Done(t)
    BY DEF CashCommit, CorrectCommit, TransferCommit, Opened, shiftVars
  <1>2. PICK rows : /\ moves' = moves \cup rows /\ IsFiniteSet(rows)
                    /\ \A m \in rows : m.kind \in Kinds /\ m.shift \in Opened
    BY RowsOfCash
  <1>3. IsFiniteSet(moves')
    BY <1>2, FS_Union DEF TypeInv
  <1>4. TypeOK'
    BY <1>1, <1>2 DEF TypeInv, TypeOK, registerVars, shiftVars, payVars
  <1>5. FlightTyped'
    BY <1>1, FlightKept DEF TypeInv, payVars
  <1> QED  BY <1>1, <1>3, <1>4, <1>5 DEF TypeInv, shiftVars

\* Paying an expense.
LEMMA PayTyped ==
    ASSUME TypeInv, NEW t \in Tablets, PayCommit(t)
    PROVE  TypeInv'
  <1> DEFINE o == op[t]
             e == ExpenseOf[o.pay]
  <1>1. UNCHANGED <<now, registerVars, shiftVars>> /\ Opened' = Opened /\ Done(t)
    BY DEF PayCommit, Opened, shiftVars
  <1>2. /\ o.pay \in Pays /\ o.reg \in Registers /\ o.time \in Nat /\ o.shift \in {0} \cup Opened
        /\ o.shift # 0 => o.inc
        /\ e \in Expenses
    BY DrawersAssumption DEF PayCommit, Doing, TypeInv, FlightTyped, HandlerTyped
  <1>3. /\ made' = made \cup {o.pay}
        /\ drawer' = [drawer EXCEPT ![o.pay] = o.reg]
        /\ paidAt' = [paidAt EXCEPT ![o.pay] = o.time]
        /\ included' = IF o.inc THEN included \cup {o.pay} ELSE included
        /\ counted' = [counted EXCEPT ![o.pay] = o.shift]
    BY DEF PayCommit
  <1>4. /\ moves' = moves \cup (IF o.shift = 0 THEN {} ELSE BillsOf({o.pay}, o.shift))
        /\ IsFiniteSet(moves')
        /\ \A m \in moves' : m.kind \in Kinds /\ m.shift \in Opened
    <2> DEFINE rows == IF o.shift = 0 THEN {} ELSE BillsOf({o.pay}, o.shift)
    <2>1. Insert(rows)
      BY DEF PayCommit
    <2>2. IsFiniteSet(rows)
      BY <1>2, BillsFinite, FS_EmptySet
    <2>3. \A m \in rows : m.kind \in Kinds /\ m.shift \in Opened
      BY <1>2 DEF BillsOf, Bill, Kinds
    <2> HIDE DEF rows
    <2>4. moves' = moves \cup rows /\ IsFiniteSet(moves')
      BY <2>1, <2>2, InsertKeepsFinite DEF Insert, TypeInv
    <2>5. \A m \in moves' : m.kind \in Kinds /\ m.shift \in Opened
      BY <2>3, <2>4 DEF TypeInv, TypeOK
    <2> QED  BY <2>4, <2>5 DEF rows
  <1>5. expense' \in [Expenses -> {"none", "pendiente", "pagada", "cancelada"}]
    BY <1>2 DEF PayCommit, TypeInv, TypeOK
  <1> HIDE DEF o, e
  <1>6. TypeOK'
    <2>1. drawer' \in [Pays -> Registers] /\ paidAt' \in [Pays -> Nat]
      BY <1>2, <1>3 DEF TypeInv, TypeOK
    <2>2. counted' \in [Pays -> 0..Len(regOf)]
      <3>1. o.shift \in 0..Len(regOf)
        BY <1>2 DEF TypeInv, TypeOK, Opened
      <3> QED  BY <1>3, <3>1 DEF TypeInv, TypeOK
    <2>3. made' \subseteq Pays /\ included' \subseteq made'
      BY <1>2, <1>3 DEF TypeInv, TypeOK
    <2>4. \A p \in made' : counted'[p] # 0 => p \in included'
      BY <1>2, <1>3 DEF TypeInv, TypeOK
    <2> QED
      BY <1>1, <1>4, <1>5, <2>1, <2>2, <2>3, <2>4 DEF TypeInv, TypeOK, registerVars, shiftVars
  <1>7. FlightTyped'
    BY <1>1, <1>3, FlightKept DEF TypeInv
  <1> QED  BY <1>1, <1>4, <1>6, <1>7 DEF TypeInv, shiftVars

\* Changing whether a payment is in the count.
LEMMA CountTyped ==
    ASSUME TypeInv, NEW t \in Tablets, CountCommit(t)
    PROVE  TypeInv'
  <1> DEFINE o == op[t]
             p == o.pay
             s == IF o.inc /\ Target(p, o.reg, paidAt[p], o.inc, TRUE) = "shift" THEN o.shift ELSE 0
  <1>1. /\ UNCHANGED <<now, registerVars, shiftVars, expense, made, drawer, paidAt>>
        /\ Opened' = Opened /\ Done(t)
    BY DEF CountCommit, Opened, shiftVars
  <1>2. p \in made \cap CashPays /\ s \in {0} \cup Opened /\ (s # 0 => o.inc)
    BY DEF CountCommit, Doing, TypeInv, FlightTyped, HandlerTyped
  <1>3. /\ counted' = [counted EXCEPT ![p] = s]
        /\ included' = IF o.inc THEN included \cup {p} ELSE included \ {p}
    BY DEF CountCommit
  <1>4. /\ IsFiniteSet(moves')
        /\ \A m \in moves' : m.kind \in Kinds /\ m.shift \in Opened
    <2> DEFINE rows == IF s = 0 THEN {} ELSE BillsOf({p}, s)
    <2>1. moves' = moves \ BillRows(p) \/ Insert(rows)
      BY DEF CountCommit
    <2> HIDE DEF s
    <2>2. IsFiniteSet(rows)
      BY <1>2, BillsFinite, FS_EmptySet DEF TypeInv, TypeOK
    <2>3. \A m \in rows : m.kind \in Kinds /\ m.shift \in Opened
      BY <1>2 DEF BillsOf, Bill, Kinds
    <2> HIDE DEF rows
    <2>4. moves' \subseteq moves \cup rows /\ IsFiniteSet(moves \cup rows)
      BY <2>1, <2>2, FS_Union DEF Insert, TypeInv
    <2>5. IsFiniteSet(moves')
      BY <2>4, FS_Subset
    <2> QED  BY <2>3, <2>4, <2>5 DEF TypeInv, TypeOK
  <1> HIDE DEF o, p, s
  <1>6. TypeOK'
    <2>1. counted' \in [Pays -> 0..Len(regOf)]
      <3>1. s \in 0..Len(regOf)
        BY <1>2 DEF TypeInv, TypeOK, Opened
      <3> QED  BY <1>3, <3>1 DEF TypeInv, TypeOK
    <2>2. included' \subseteq made
      BY <1>2, <1>3 DEF TypeInv, TypeOK
    <2>3. \A q \in made : counted'[q] # 0 => q \in included'
      BY <1>2, <1>3 DEF TypeInv, TypeOK
    <2> QED
      BY <1>1, <1>4, <2>1, <2>2, <2>3 DEF TypeInv, TypeOK, registerVars, shiftVars
  <1>7. FlightTyped'
    BY <1>1, FlightKept DEF TypeInv
  <1> QED  BY <1>1, <1>4, <1>6, <1>7 DEF TypeInv, shiftVars

\* Cancelling an expense.
LEMMA CancelTyped ==
    ASSUME TypeInv, NEW t \in Tablets, CancelCommit(t)
    PROVE  TypeInv'
  <1>1. /\ UNCHANGED <<now, registerVars, shiftVars, made, drawer, paidAt>>
        /\ Opened' = Opened /\ Done(t)
    BY DEF CancelCommit, Opened, shiftVars
  <1>2. moves' \subseteq moves
    BY DEF CancelCommit
  <1>3. IsFiniteSet(moves')
    BY <1>2, FS_Subset DEF TypeInv
  <1>4. /\ counted' = [p \in Pays |-> IF p \in PaysOf(op[t].exp) THEN 0 ELSE counted[p]]
        /\ included' = included \ PaysOf(op[t].exp)
        /\ expense' = [expense EXCEPT ![op[t].exp] = "cancelada"]
    BY DEF CancelCommit
  <1>5. TypeOK'
    <2>1. expense' \in [Expenses -> {"none", "pendiente", "pagada", "cancelada"}]
      BY <1>4 DEF TypeInv, TypeOK
    <2>2. counted' \in [Pays -> 0..Len(regOf)] /\ \A p \in made : counted'[p] # 0 => p \in included'
      BY <1>4 DEF TypeInv, TypeOK
    <2> QED
      BY <1>1, <1>2, <1>4, <2>1, <2>2 DEF TypeInv, TypeOK, registerVars, shiftVars
  <1>6. FlightTyped'
    BY <1>1, FlightKept DEF TypeInv
  <1> QED  BY <1>1, <1>3, <1>5, <1>6 DEF TypeInv, shiftVars

\* Every state is well typed, and so is what the handlers keep between their steps.
LEMMA TypeStep == TypeInv /\ [Next]_vars => TypeInv'
  <1> SUFFICES ASSUME TypeInv, [Next]_vars PROVE TypeInv'
    OBVIOUS
  <1>1. CASE Next
    <2>1. PICK t \in Tablets : ReadStep(t) \/ WriteStep(t)
      BY <1>1, StepsSplit
    <2>2. CASE ReadStep(t)
      BY <2>2, ReadsTyped
    <2>3. CASE WriteStep(t)
      BY <2>3, OpenTyped, CloseTyped, RegistersTyped, MovesTyped, PayTyped, CountTyped,
         CancelTyped DEF WriteStep
    <2> QED  BY <2>1, <2>2, <2>3
  <1>2. CASE UNCHANGED vars
    BY <1>2 DEF vars, registerVars, shiftVars, payVars, TypeInv, TypeOK, FlightTyped, Opened
  <1> QED  BY <1>1, <1>2

\* Every state of the drawers is well typed.
THEOREM DrawersTyped == Spec => []TypeOK
  <1>1. TypeInv => TypeOK
    BY DEF TypeInv
  <1> QED  BY <1>1, TypeInitially, TypeStep, PTL DEF Spec
-----------------------------------------------------------------------------
(***************************************************************************)
(* The count and the locks.                                                *)
(***************************************************************************)
\* A register's open session is its own.
ShiftsOwn == \A r \in Registers : shiftOf[r] # 0 => regOf[shiftOf[r]] = r

\* Whoever opens on a register has it alone.
OpeningAlone ==
    \A t, u \in Tablets : Doing(t, {"opening"}) => ~Holds(u, <<"share", op[t].reg>>)

\* A payment decided under its register goes to a session of it, or the register waits for one.
DecidedFits(o) ==
    o.at = "decided" =>
        /\ o.shift # 0 => regOf[o.shift] = o.reg
        /\ o.shift = 0 /\ o.inc =>
              /\ o.pay \in CashPays /\ shiftOf[o.reg] = 0
              /\ lastClose[o.reg] = 0 \/ o.time > lastClose[o.reg]

\* A change of the box of a payment has its drawer, which counts, and the session open on it.
CountingFits(o) ==
    o.at = "counting" =>
        o.reg = drawer[o.pay] /\ o.reg \in counts /\ o.shift = shiftOf[o.reg]

FlightFits == \A t \in Tablets : DecidedFits(op[t]) /\ CountingFits(op[t])

\* Only a payment that was made is in a count.
CountedMade == \A p \in Pays : counted[p] # 0 => p \in made

LockInv == ShiftsOwn /\ OpeningAlone /\ OpenShiftCounted /\ FlightFits

DrawerInv == LockInv /\ CountedMade /\ PaidFromOneDrawer /\ SignedCoversDrawer

\* With payments that are not dated ahead, no payment is later than the clock.
PaidInThePast ==
    /\ \A p \in Pays : paidAt[p] <= now
    /\ \A t \in Tablets : Doing(t, {"pay", "payLocked", "decided"}) => op[t].time <= now

PendingInv == PaidInThePast /\ PendingCanBeCounted

\* The rows of one handler are numbered by the rows before them.
Numbered == {m \in moves : m.kind # "gasto"}

ReversalInv ==
    /\ \A m \in Numbered : m.id \in Nat /\ m.id < Cardinality(Numbered)
    /\ \A m, n \in Numbered : m.kind = "salida" /\ n.kind = "salida" /\ m.id = n.id => m = n
    /\ \A b \in Numbered : b.kind = "reverso" => b.of \in Nat /\ b.of < Cardinality(Numbered)
    /\ \A m \in moves : m.kind = "salida" =>
          /\ \A b, c \in Reversals(m) : b = c
          /\ \A b \in Reversals(m) : regOf[b.shift] = regOf[m.shift]
    /\ \A t \in Tablets : Doing(t, {"correct"}) => op[t].row \in moves

\* The ways to hold each lock.
LEMMA HoldsSays ==
    ASSUME NEW t \in Tablets, NEW x
    PROVE  /\ Holds(t, <<"update", x>>) <=> (op[t].at = "opening" /\ op[t].reg = x)
           /\ Holds(t, <<"share", x>>) <=> \/ op[t].at \in {"decided", "counting"} /\ op[t].reg = x
                                           \/ op[t].at = "cancelling" /\ x \in op[t].regs
           /\ Holds(t, <<"shift", x>>) <=> \/ op[t].at = "counting" /\ op[t].shift = x
                                           \/ op[t].at = "cancelling" /\ x \in op[t].shifts
  BY DEF Holds, Doing

\* The registers a handler shares.
Shares(o, r) ==
    \/ o.at \in {"decided", "counting"} /\ o.reg = r
    \/ o.at = "cancelling" /\ r \in o.regs

\* Nobody shares a register under an opening, said of what the handlers keep.
LEMMA AloneSays ==
    OpeningAlone <=> \A t, u \in Tablets : op[t].at = "opening" => ~Shares(op[u], op[t].reg)
  BY HoldsSays DEF OpeningAlone, Doing, Shares

\* Whoever may take a register finds nobody opening on it, and whoever may take it alone nobody
\* sharing it.
LEMMA CanSays ==
    ASSUME NEW r
    PROVE  /\ CanShare(r) => \A u \in Tablets : ~(op[u].at = "opening" /\ op[u].reg = r)
           /\ CanUpdate(r) => \A u \in Tablets : /\ ~(op[u].at = "opening" /\ op[u].reg = r)
                                                 /\ ~Shares(op[u], r)
  BY HoldsSays DEF CanShare, CanUpdate, Held, Shares

\* A step of one handler keeps openings alone when its own lock does.
LEMMA AloneStep ==
    ASSUME FlightTyped, OpeningAlone, NEW t \in Tablets, NEW o, Go(t, o),
           \A u \in Tablets : /\ o.at = "opening" => ~Shares(op[u], o.reg)
                              /\ op[u].at = "opening" => ~Shares(o, op[u].reg)
    PROVE  OpeningAlone'
  <1>1. \A u \in Tablets : op'[u] = IF u = t THEN o ELSE op[u]
    BY DEF FlightTyped, Go
  <1>2. ~(o.at = "opening" /\ Shares(o, o.reg))
    BY DEF Shares
  <1>3. ASSUME NEW u \in Tablets, NEW v \in Tablets, op'[u].at = "opening"
        PROVE  ~Shares(op'[v], op'[u].reg)
    BY <1>1, <1>2, <1>3, AloneSays
  <1>4. OpeningAlone' <=> \A u, v \in Tablets : op'[u].at = "opening" => ~Shares(op'[v], op'[u].reg)
    BY HoldsSays DEF OpeningAlone, Doing, Shares, Holds
  <1> QED  BY <1>3, <1>4

\* What the decision of a payment leaves for it.
LEMMA TargetFits ==
    ASSUME NEW p, NEW r, NEW time, NEW inc, NEW confirmed
    PROVE  /\ Target(p, r, time, inc, confirmed) = "shift" => shiftOf[r] # 0
           /\ Target(p, r, time, inc, confirmed) \notin {"outside", "shift", "refused"} =>
                /\ p \in CashPays /\ r \in counts /\ shiftOf[r] = 0
                /\ lastClose[r] = 0 \/ time > lastClose[r]
           /\ p \in CashPays /\ r \in counts /\ inc => Target(p, r, time, inc, confirmed) # "outside"
  BY DEF Target, ToShift, ToPending, Outside

\* A reading step keeps the locks and what is known under them.
LEMMA LocksRead ==
    ASSUME TypeInv, LockInv, NEW t \in Tablets, ReadStep(t)
    PROVE  LockInv'
  <1>0. /\ UNCHANGED <<sells, counts, shiftOf, regOf, lastClose, drawer>>
        /\ FlightTyped /\ HandlerTyped(op[t], Opened, made)
    BY ReadsChangeNothing DEF TypeInv, FlightTyped, registerVars, shiftVars, payVars
  <1>1. ShiftsOwn' /\ OpenShiftCounted'
    BY <1>0 DEF LockInv, ShiftsOwn, OpenShiftCounted
  <1> DEFINE Safe(o) == /\ \A u \in Tablets : /\ o.at = "opening" => ~Shares(op[u], o.reg)
                                              /\ op[u].at = "opening" => ~Shares(o, op[u].reg)
                        /\ DecidedFits(o) /\ CountingFits(o)
  <1>2. ASSUME NEW o, Go(t, o), Safe(o) PROVE OpeningAlone' /\ FlightFits'
    <2>1. OpeningAlone'
      BY <1>0, <1>2, AloneStep DEF LockInv
    <2>2. \A u \in Tablets : op'[u] = IF u = t THEN o ELSE op[u]
      BY <1>0, <1>2 DEF FlightTyped, Go
    <2>3. \A u \in Tablets : DecidedFits(op'[u]) /\ CountingFits(op'[u])
      BY <1>2, <2>2 DEF LockInv, FlightFits
    <2>4. FlightFits'
      BY <1>0, <2>3 DEF FlightFits, DecidedFits, CountingFits
    <2> QED  BY <2>1, <2>4
  <1>3. \A o : o.at \notin {"opening", "decided", "counting", "cancelling"} => Safe(o)
    BY DEF Shares, DecidedFits, CountingFits
  <1>4. \E o : Go(t, o) /\ Safe(o)
    <2>1. ASSUME NEW r \in Registers, OpenRead(t, r) PROVE \E o : Go(t, o) /\ Safe(o)
      BY <2>1, <1>3 DEF OpenRead
    <2>2. ASSUME NEW r \in Registers, NEW on \in BOOLEAN, NEW c \in {"same", "off", "on"},
                 UpdateRead(t, r, on, c)
          PROVE \E o : Go(t, o) /\ Safe(o)
      BY <2>2, <1>3 DEF UpdateRead
    <2>3. ASSUME NEW r \in Registers, NEW kind \in {"entrada", "salida"}, CashRead(t, r, kind)
          PROVE \E o : Go(t, o) /\ Safe(o)
      BY <2>3, <1>3 DEF CashRead
    <2>4. ASSUME NEW r \in Registers, NEW to \in Registers, TransferRead(t, r, to)
          PROVE \E o : Go(t, o) /\ Safe(o)
      BY <2>4, <1>3 DEF TransferRead
    <2>5. ASSUME NEW r \in Registers, NEW p \in Pays, NEW inc \in BOOLEAN, NEW confirmed \in BOOLEAN,
                 NEW time, PayRead(t, p, r, time, inc, confirmed)
          PROVE \E o : Go(t, o) /\ Safe(o)
      BY <2>5, <1>3 DEF PayRead
    <2>6. CASE OpenLock(t)
      <3> DEFINE o == [op[t] EXCEPT !.at = "opening"]
      <3>1. op[t] \in [at : {"open", "opening"}, reg : Registers]
        BY <2>6, <1>0 DEF OpenLock, Doing, HandlerTyped
      <3>2. o.at = "opening" /\ o.reg = op[t].reg
        BY <3>1
      <3>3. Go(t, o) /\ CanUpdate(op[t].reg)
        BY <2>6 DEF OpenLock
      <3> HIDE DEF o
      <3>4. Safe(o)
        BY <3>2, <3>3, CanSays DEF Shares, DecidedFits, CountingFits
      <3> QED  BY <3>3, <3>4
    <2>7. CASE PayLock(t)
      <3> DEFINE o == [op[t] EXCEPT !.at = "payLocked"]
      <3>1. op[t] \in PayRecords
        BY <2>7, <1>0 DEF PayLock, Doing, HandlerTyped
      <3>2. o.at = "payLocked"
        BY <3>1 DEF PayRecords
      <3>3. Go(t, o)
        BY <2>7 DEF PayLock
      <3> HIDE DEF o
      <3> QED  BY <3>2, <3>3, <1>3
    <2>8. CASE PayDecide(t)
      <3> DEFINE target == Target(op[t].pay, op[t].reg, op[t].time, op[t].inc, op[t].confirmed)
                 o == [at |-> "decided", adds |-> op[t].adds, pay |-> op[t].pay, reg |-> op[t].reg,
                       time |-> op[t].time, inc |-> target # "outside",
                       shift |-> IF target = "shift" THEN shiftOf[op[t].reg] ELSE 0]
      <3>1. Go(t, o) /\ CanShare(op[t].reg) /\ target # "refused"
        BY <2>8 DEF PayDecide
      <3>2. op[t].reg \in Registers
        BY <2>8, <1>0 DEF PayDecide, Doing, HandlerTyped, PayRecords
      <3>3. /\ target = "shift" => shiftOf[op[t].reg] # 0
            /\ target \notin {"outside", "shift", "refused"} =>
                /\ op[t].pay \in CashPays /\ shiftOf[op[t].reg] = 0
                /\ lastClose[op[t].reg] = 0 \/ op[t].time > lastClose[op[t].reg]
        BY TargetFits
      <3> HIDE DEF target
      <3>4. /\ \A u \in Tablets : op[u].at = "opening" => ~Shares(o, op[u].reg)
            /\ o.at = "decided"
        BY <3>1, CanSays DEF Shares
      <3>5. DecidedFits(o) /\ CountingFits(o)
        BY <3>1, <3>2, <3>3 DEF DecidedFits, CountingFits, LockInv, ShiftsOwn
      <3> HIDE DEF o
      <3> QED  BY <3>1, <3>4, <3>5
    <2>9. CASE CancelLock(t)
      <3> DEFINE o == [at |-> "cancelling", exp |-> op[t].exp, regs |-> op[t].regs,
                       shifts |-> {shiftOf[r] : r \in op[t].regs} \ {0}]
      <3>1. Go(t, o) /\ \A r \in op[t].regs : CanShare(r)
        BY <2>9 DEF CancelLock
      <3>2. /\ \A u \in Tablets : op[u].at = "opening" => ~Shares(o, op[u].reg)
            /\ o.at = "cancelling"
        BY <3>1, CanSays DEF Shares
      <3> HIDE DEF o
      <3> QED  BY <3>1, <3>2 DEF DecidedFits, CountingFits
    <2>10. CASE Rollback(t)
      BY <2>10, <1>3 DEF Rollback, Done, Idle
    <2>11. ASSUME NEW m \in moves, CorrectRead(t, m) PROVE \E o : Go(t, o) /\ Safe(o)
      BY <2>11, <1>3 DEF CorrectRead
    <2>12. ASSUME NEW p \in Pays, NEW inc \in BOOLEAN, CountLock(t, p, inc)
           PROVE \E o : Go(t, o) /\ Safe(o)
      <3> DEFINE o == [at |-> "counting", pay |-> p, inc |-> inc, reg |-> drawer[p],
                       shift |-> shiftOf[drawer[p]]]
      <3>1. Go(t, o) /\ CanShare(drawer[p]) /\ drawer[p] \in counts
        BY <2>12 DEF CountLock
      <3>2. /\ \A u \in Tablets : op[u].at = "opening" => ~Shares(o, op[u].reg)
            /\ o.at = "counting"
        BY <3>1, CanSays DEF Shares
      <3>3. DecidedFits(o) /\ CountingFits(o)
        BY <3>1 DEF DecidedFits, CountingFits
      <3> HIDE DEF o
      <3> QED  BY <3>1, <3>2, <3>3
    <2>13. ASSUME NEW e \in Expenses, CancelRead(t, e) PROVE \E o : Go(t, o) /\ Safe(o)
      BY <2>13, <1>3 DEF CancelRead
    <2> HIDE DEF Safe
    <2> QED
      BY <2>1, <2>2, <2>3, <2>4, <2>5, <2>6, <2>7, <2>8, <2>9, <2>10, <2>11, <2>12, <2>13
      DEF ReadStep
  <1> QED  BY <1>1, <1>2, <1>4 DEF LockInv

\* A handler that ends gives its locks back and leaves the others as they are.
LEMMA LocksEnd ==
    ASSUME FlightTyped, OpeningAlone, NEW t \in Tablets, Done(t) \/ op' = op
    PROVE  OpeningAlone' /\ \A u \in Tablets : op'[u] = op[u] \/ op'[u] = Idle
  <1>1. CASE Done(t)
    <2>1. Go(t, Idle) /\ \A u \in Tablets : Idle.at # "opening" /\ ~Shares(Idle, op[u].reg)
      BY <1>1 DEF Done, Idle, Shares
    <2>2. OpeningAlone'
      BY <2>1, AloneStep
    <2> QED  BY <2>1, <2>2 DEF FlightTyped, Go
  <1>2. CASE op' = op
    BY <1>2, HoldsSays DEF OpeningAlone, Doing, Holds
  <1> QED  BY <1>1, <1>2

\* A step that changes nothing the locks and what is known under them are about keeps them.
LEMMA LocksKept ==
    ASSUME TypeInv, LockInv, NEW t \in Tablets, Done(t) \/ op' = op,
           UNCHANGED <<sells, counts, shiftOf, regOf, lastClose>>,
           \A p \in made : drawer'[p] = drawer[p]
    PROVE  LockInv'
  <1>1. OpeningAlone' /\ \A u \in Tablets : op'[u] = op[u] \/ op'[u] = Idle
    BY LocksEnd DEF TypeInv, LockInv
  <1>2. FlightFits'
    <2>1. ASSUME NEW u \in Tablets
          PROVE  DecidedFits(op[u])' /\ CountingFits(op[u])'
      <3>1. HandlerTyped(op[u], Opened, made) /\ DecidedFits(op[u]) /\ CountingFits(op[u])
        BY DEF TypeInv, FlightTyped, LockInv, FlightFits
      <3> QED  BY <1>1, <3>1 DEF DecidedFits, CountingFits, HandlerTyped, Idle
    <2> QED  BY <2>1 DEF FlightFits
  <1> QED  BY <1>1, <1>2 DEF LockInv, ShiftsOwn, OpenShiftCounted

\* Opening a session keeps them: nobody shares its register.
LEMMA LocksOpen ==
    ASSUME TypeInv, LockInv, NEW t \in Tablets, NEW asked, NEW exclude,
           OpenCommit(t, asked, exclude)
    PROVE  LockInv'
  <1> DEFINE r == op[t].reg
             s == Len(regOf) + 1
  <1>1. OpeningAlone' /\ \A u \in Tablets : op'[u] = op[u] \/ op'[u] = Idle
    BY LocksEnd DEF TypeInv, LockInv, OpenCommit
  <1>2. /\ r \in Registers /\ r \in counts /\ op[t].at = "opening"
        /\ shiftOf' = [shiftOf EXCEPT ![r] = s] /\ regOf' = Append(regOf, r)
        /\ UNCHANGED <<sells, counts, lastClose, drawer>>
    BY DEF OpenCommit, Doing, TypeInv, FlightTyped, HandlerTyped, registerVars
  <1>3. Len(regOf) \in Nat /\ \A x \in Opened : regOf'[x] = regOf[x]
    BY <1>2 DEF TypeInv, TypeOK, Opened
  <1>4. ShiftsOwn'
    <2>1. \A x \in Registers : shiftOf[x] # 0 => shiftOf[x] \in Opened
      BY <1>3 DEF TypeInv, TypeOK, Opened
    <2>2. regOf'[s] = r
      BY <1>2, <1>3 DEF TypeInv, TypeOK
    <2>3. \A x \in Registers : shiftOf'[x] = IF x = r THEN s ELSE shiftOf[x]
      BY <1>2 DEF TypeInv, TypeOK
    <2> HIDE DEF s, r
    <2> QED  BY <1>3, <2>1, <2>2, <2>3 DEF LockInv, ShiftsOwn
  <1>5. OpenShiftCounted'
    BY <1>2 DEF LockInv, OpenShiftCounted, TypeInv, TypeOK
  <1>6. FlightFits'
    <2>1. ASSUME NEW u \in Tablets
          PROVE  DecidedFits(op[u])' /\ CountingFits(op[u])'
      <3>1. /\ HandlerTyped(op[u], Opened, made) /\ DecidedFits(op[u]) /\ CountingFits(op[u])
            /\ ~Shares(op[u], r)
        BY <1>2, AloneSays DEF TypeInv, FlightTyped, LockInv, FlightFits
      <3>2. \A x \in Registers : x # r => shiftOf'[x] = shiftOf[x]
        BY <1>2 DEF TypeInv, TypeOK
      <3>3. CASE op'[u] = Idle
        BY <3>3 DEF DecidedFits, CountingFits, Idle
      <3>4. CASE op'[u] = op[u]
        <4>1. DecidedFits(op[u])'
          BY <1>2, <1>3, <3>1, <3>2, <3>4 DEF DecidedFits, HandlerTyped, Shares
        <4>2. CountingFits(op[u])'
          BY <1>2, <3>1, <3>2, <3>4 DEF CountingFits, HandlerTyped, Shares
        <4> QED  BY <4>1, <4>2
      <3> QED  BY <1>1, <3>3, <3>4
    <2> QED  BY <2>1 DEF FlightFits
  <1> QED  BY <1>1, <1>4, <1>5, <1>6 DEF LockInv

\* Closing one keeps them: nobody has it.
LEMMA LocksClose ==
    ASSUME TypeInv, LockInv, NEW t \in Tablets, NEW r \in Registers, Close(t, r)
    PROVE  LockInv'
  <1>1. OpeningAlone' /\ op' = op
    BY LocksEnd DEF TypeInv, LockInv, Close
  <1>2. /\ UNCHANGED <<sells, counts, regOf, drawer>>
        /\ \A x \in Registers : x # r => shiftOf'[x] = shiftOf[x] /\ lastClose'[x] = lastClose[x]
        /\ shiftOf[r] # 0 /\ shiftOf'[r] = 0
    BY DEF Close, registerVars, payVars, TypeInv, TypeOK
  <1>3. ShiftsOwn' /\ OpenShiftCounted'
    BY <1>2 DEF LockInv, ShiftsOwn, OpenShiftCounted
  <1>4. FlightFits'
    <2>1. ASSUME NEW u \in Tablets
          PROVE  DecidedFits(op[u])' /\ CountingFits(op[u])'
      <3>1. /\ HandlerTyped(op[u], Opened, made) /\ DecidedFits(op[u]) /\ CountingFits(op[u])
            /\ ~Holds(u, <<"shift", shiftOf[r]>>)
        BY DEF TypeInv, FlightTyped, LockInv, FlightFits, Close, Held
      <3>2. op[u].at = "counting" => op[u].shift # shiftOf[r]
        BY <3>1, HoldsSays
      <3> QED  BY <1>1, <1>2, <3>1, <3>2 DEF DecidedFits, CountingFits, HandlerTyped
    <2> QED  BY <2>1 DEF FlightFits
  <1> QED  BY <1>1, <1>3, <1>4 DEF LockInv

\* Moving the sales only makes a register count.
LEMMA LocksMove ==
    ASSUME TypeInv, LockInv, NEW t \in Tablets, NEW target \in Registers, MoveSales(t, target)
    PROVE  LockInv'
  <1>1. OpeningAlone' /\ op' = op
    BY LocksEnd DEF TypeInv, LockInv, MoveSales
  <1>2. /\ UNCHANGED <<shiftOf, regOf, lastClose, drawer>>
        /\ sells' = target /\ counts' = counts \cup {target}
    BY DEF MoveSales, shiftVars, payVars
  <1>3. FlightFits'
    BY <1>1, <1>2 DEF LockInv, FlightFits, DecidedFits, CountingFits
  <1> QED  BY <1>1, <1>2, <1>3 DEF LockInv, ShiftsOwn, OpenShiftCounted

\* Taking the count of a register away needs it alone and without a shift.
LEMMA LocksUpdate ==
    ASSUME TypeInv, LockInv, NEW t \in Tablets, UpdateCommit(t)
    PROVE  LockInv'
  <1>1. OpeningAlone' /\ \A u \in Tablets : op'[u] = op[u] \/ op'[u] = Idle
    BY LocksEnd DEF TypeInv, LockInv, UpdateCommit
  <1>2. /\ UNCHANGED <<sells, shiftOf, regOf, lastClose, drawer>>
        /\ \A x \in counts : x \notin counts' =>
              x = op[t].reg /\ x # sells /\ shiftOf[x] = 0
    BY DEF UpdateCommit, shiftVars, payVars
  <1>3. \A u \in Tablets : ~Shares(op[u], op[t].reg)
    BY CanSays DEF UpdateCommit
  <1>4. OpenShiftCounted' /\ ShiftsOwn'
    BY <1>2 DEF LockInv, OpenShiftCounted, ShiftsOwn
  <1>5. FlightFits'
    <2>1. ASSUME NEW u \in Tablets
          PROVE  DecidedFits(op[u])' /\ CountingFits(op[u])'
      BY <1>1, <1>2, <1>3 DEF LockInv, FlightFits, DecidedFits, CountingFits, Shares, Idle
    <2> QED  BY <2>1 DEF FlightFits
  <1> QED  BY <1>1, <1>4, <1>5 DEF LockInv

\* The locks of the drawers do what they are taken for.
LEMMA LocksInitially == Init => LockInv
  <1> SUFFICES ASSUME Init PROVE LockInv
    OBVIOUS
  <1>1. \A u \in Tablets : op[u].at = "idle"
    BY DEF Init, Idle
  <1>2. OpeningAlone /\ FlightFits
    BY <1>1 DEF OpeningAlone, Doing, FlightFits, DecidedFits, CountingFits
  <1> QED  BY <1>2, DrawersAssumption DEF Init, LockInv, ShiftsOwn, OpenShiftCounted

\* Every step keeps the locks and what is known under them.
LEMMA LocksStep == TypeInv /\ LockInv /\ [Next]_vars => LockInv'
  <1> SUFFICES ASSUME TypeInv, LockInv, [Next]_vars PROVE LockInv'
    OBVIOUS
  <1>1. CASE Next
    <2>1. PICK t \in Tablets : ReadStep(t) \/ WriteStep(t)
      BY <1>1, StepsSplit
    <2>2. CASE CashCommit(t) \/ CorrectCommit(t) \/ TransferCommit(t) \/ CountCommit(t)
                 \/ CancelCommit(t)
      <3>1. Done(t) /\ UNCHANGED <<sells, counts, shiftOf, regOf, lastClose, drawer>>
        BY <2>2 DEF CashCommit, CorrectCommit, TransferCommit, CountCommit, CancelCommit,
           registerVars, shiftVars, payVars
      <3> QED  BY <3>1, LocksKept
    <2>3. CASE PayCommit(t)
      <3>1. Done(t) /\ UNCHANGED <<sells, counts, shiftOf, regOf, lastClose>>
        BY <2>3 DEF PayCommit, registerVars, shiftVars
      <3>2. \A p \in made : drawer'[p] = drawer[p]
        BY <2>3 DEF PayCommit, TypeInv, TypeOK
      <3> QED  BY <3>1, <3>2, LocksKept
    <2> QED
      BY <2>1, <2>2, <2>3, LocksRead, LocksOpen, LocksClose, LocksMove, LocksUpdate DEF WriteStep
  <1>2. CASE UNCHANGED vars
    BY <1>2, LocksKept, HoldsSays
    DEF vars, registerVars, shiftVars, payVars, LockInv, ShiftsOwn, OpeningAlone, OpenShiftCounted,
        FlightFits, DecidedFits, CountingFits, Doing, Holds
  <1> QED  BY <1>1, <1>2

\* An open shift always counts its cash, and so does the register that sells.
THEOREM OpenShiftsCounted == Spec => []OpenShiftCounted
  <1>1. TypeInv /\ LockInv => OpenShiftCounted
    BY DEF LockInv
  <1> QED  BY <1>1, TypeInitially, TypeStep, LocksInitially, LocksStep, PTL DEF Spec

\* The sales never move under an open shift, nor under one that is opening.
THEOREM SalesStay == Spec => SalesStayWithShift
  <1> DEFINE Moved == sells' # sells =>
                        /\ \A r \in {sells, sells'} : shiftOf[r] = 0 /\ shiftOf'[r] = 0
                        /\ \A t \in Tablets : Doing(t, {"opening"}) => op[t].reg \notin {sells, sells'}
  <1>1. TypeInv /\ [Next]_vars => [Moved]_vars
    <2> SUFFICES ASSUME TypeInv, Next, sells' # sells PROVE Moved
      BY DEF vars, registerVars
    <2>1. PICK t \in Tablets : ReadStep(t) \/ WriteStep(t)
      BY StepsSplit
    <2>2. PICK target \in Registers : MoveSales(t, target)
      BY <2>1, ReadsChangeNothing
      DEF WriteStep, OpenCommit, Close, UpdateCommit, CashCommit, CorrectCommit, TransferCommit,
          PayCommit, CountCommit, CancelCommit, registerVars
    <2>3. /\ sells' = target /\ shiftOf' = shiftOf /\ shiftOf[sells] = 0 /\ shiftOf[target] = 0
          /\ CanUpdate(sells) /\ CanUpdate(target)
      BY <2>2 DEF MoveSales, shiftVars
    <2>4. \A u \in Tablets : op[u].at = "opening" => op[u].reg # sells /\ op[u].reg # target
      BY <2>3, CanSays
    <2> QED  BY <2>3, <2>4 DEF Doing
  <1> QED  BY <1>1, TypeInitially, TypeStep, PTL DEF Spec, SalesStayWithShift
-----------------------------------------------------------------------------
(***************************************************************************)
(* Where the cash of each payment is, and what each close signed.          *)
(***************************************************************************)
\* The rows of a payment after some rows are added.
LEMMA BillsAfter ==
    ASSUME NEW ps, NEW s, NEW p, moves' = moves \cup BillsOf(ps, s)
    PROVE  BillRows(p)' = BillRows(p) \cup (IF p \in ps \cap CashPays THEN {Bill(p, s)} ELSE {})
  BY DEF BillRows, BillsOf, Bill

\* Rows that are not of an expense are the bill of none.
LEMMA OtherRowsNoBill ==
    ASSUME NEW rows, moves' = moves \cup rows, \A m \in rows : m.kind # "gasto", NEW p
    PROVE  BillRows(p)' = BillRows(p)
  BY DEF BillRows

PaymentInv == CountedMade /\ PaidFromOneDrawer

\* Each payment in cash is in the one session that counts it, on the register it left.
LEMMA PaymentsStep ==
    ASSUME TypeInv, LockInv, PaymentInv, NEW t \in Tablets, WriteStep(t)
    PROVE  PaymentInv'
  <1>1. ASSUME UNCHANGED <<moves, counted, made, drawer>>, \A x \in Opened : regOf'[x] = regOf[x]
        PROVE  PaymentInv'
    <2>1. \A p \in Pays : counted[p] # 0 => counted[p] \in Opened
      BY DEF TypeInv, TypeOK, Opened
    <2> QED
      BY <1>1, <2>1 DEF PaymentInv, CountedMade, PaidFromOneDrawer, BillRows, Bill
  <1>2. ASSUME NEW r \in Registers, Close(t, r) \/ MoveSales(t, r) PROVE PaymentInv'
    BY <1>1, <1>2 DEF Close, MoveSales, payVars, shiftVars
  <1>3. CASE UpdateCommit(t)
    BY <1>1, <1>3 DEF UpdateCommit, payVars, shiftVars
  <1>4. CASE CashCommit(t) \/ CorrectCommit(t) \/ TransferCommit(t)
    <2>1. PICK rows : moves' = moves \cup rows /\ \A m \in rows : m.kind # "gasto"
      BY <1>4, RowsOfCash
    <2>2. UNCHANGED <<counted, made, drawer, regOf>>
      BY <1>4 DEF CashCommit, CorrectCommit, TransferCommit, payVars, shiftVars
    <2>3. \A p \in Pays : BillRows(p)' = BillRows(p)
      BY <2>1, OtherRowsNoBill
    <2> QED  BY <2>2, <2>3 DEF PaymentInv, CountedMade, PaidFromOneDrawer, Bill
  <1>5. ASSUME NEW asked \in 0..MaxTime, NEW exclude \in BOOLEAN, OpenCommit(t, asked, exclude)
        PROVE  PaymentInv'
    <2> DEFINE r == op[t].reg
               s == Len(regOf) + 1
               swept == Swept(r, OpeningHour(r, asked, exclude), asked)
    <2>1. /\ UNCHANGED <<made, drawer>>
          /\ moves' = moves \cup BillsOf(swept, s)
          /\ \A p \in Pays : counted'[p] = IF p \in swept THEN s ELSE counted[p]
          /\ regOf' = Append(regOf, r)
          /\ r \in Registers
      BY <1>5 DEF OpenCommit, Insert, Doing, TypeInv, FlightTyped, HandlerTyped
    <2>2. \A p \in swept : p \in made \cap CashPays /\ counted[p] = 0 /\ drawer[p] = r
      BY DEF Swept, PendingAt, IsPending
    <2>3. /\ s \in Nat \ {0} /\ regOf'[s] = r
          /\ \A x \in Opened : regOf'[x] = regOf[x]
      BY <2>1 DEF TypeInv, TypeOK, Opened
    <2>4. \A p \in Pays : counted[p] # 0 => counted[p] \in Opened
      BY DEF TypeInv, TypeOK, Opened
    <2> HIDE DEF r, s, swept
    <2>5. ASSUME NEW p \in Pays
          PROVE  BillRows(p)' = BillRows(p) \cup (IF p \in swept \cap CashPays THEN {Bill(p, s)} ELSE {})
      BY <2>1, BillsAfter
    <2>6. CountedMade'
      BY <2>1, <2>2 DEF PaymentInv, CountedMade
    <2>7. PaidFromOneDrawer'
      <3> SUFFICES ASSUME NEW p \in Pays
                   PROVE  IF counted'[p] = 0 \/ p \notin CashPays THEN BillRows(p)' = {}
                          ELSE /\ BillRows(p)' = {Bill(p, counted'[p])}
                               /\ regOf'[counted'[p]] = drawer'[p]
        BY DEF PaidFromOneDrawer, Bill
      <3>1. IF counted[p] = 0 \/ p \notin CashPays THEN BillRows(p) = {}
            ELSE BillRows(p) = {Bill(p, counted[p])} /\ regOf[counted[p]] = drawer[p]
        BY DEF PaymentInv, PaidFromOneDrawer
      <3>2. CASE p \in swept
        BY <2>1, <2>2, <2>3, <2>5, <3>1, <3>2
      <3>3. CASE p \notin swept
        BY <2>1, <2>3, <2>4, <2>5, <3>1, <3>3
      <3> QED  BY <3>2, <3>3
    <2> QED  BY <2>6, <2>7 DEF PaymentInv
  <1>6. CASE PayCommit(t)
    <2> DEFINE o == op[t]
    <2>1. /\ regOf' = regOf /\ made' = made \cup {o.pay} /\ o.pay \notin made
          /\ drawer' = [drawer EXCEPT ![o.pay] = o.reg]
          /\ counted' = [counted EXCEPT ![o.pay] = o.shift]
          /\ moves' = moves \cup (IF o.shift = 0 THEN {} ELSE BillsOf({o.pay}, o.shift))
      BY <1>6 DEF PayCommit, Insert, shiftVars
    <2>2. o.pay \in Pays /\ o.at = "decided" /\ (o.shift # 0 => regOf[o.shift] = o.reg)
      BY <1>6 DEF PayCommit, Doing, TypeInv, FlightTyped, HandlerTyped, LockInv, FlightFits, DecidedFits
    <2>3. counted[o.pay] = 0 /\ BillRows(o.pay) = {}
      BY <2>1, <2>2 DEF PaymentInv, CountedMade, PaidFromOneDrawer
    <2>4. \A p \in Pays : /\ counted'[p] = IF p = o.pay THEN o.shift ELSE counted[p]
                          /\ drawer'[p] = IF p = o.pay THEN o.reg ELSE drawer[p]
      BY <2>1, <2>2 DEF TypeInv, TypeOK
    <2> HIDE DEF o
    <2>5. ASSUME NEW p \in Pays
          PROVE  BillRows(p)' = BillRows(p) \cup
                    (IF o.shift # 0 /\ p \in {o.pay} \cap CashPays THEN {Bill(p, o.shift)} ELSE {})
      <3>1. CASE o.shift = 0
        BY <2>1, <3>1 DEF BillRows
      <3>2. CASE o.shift # 0
        <4>1. moves' = moves \cup BillsOf({o.pay}, o.shift)
          BY <2>1, <3>2
        <4> QED  BY <3>2, <4>1, BillsAfter
      <3> QED  BY <3>1, <3>2
    <2>6. CountedMade'
      BY <2>1, <2>4 DEF PaymentInv, CountedMade
    <2>7. PaidFromOneDrawer'
      BY <2>1, <2>2, <2>3, <2>4, <2>5 DEF PaymentInv, PaidFromOneDrawer, Bill
    <2> QED  BY <2>6, <2>7 DEF PaymentInv
  <1>7. CASE CountCommit(t)
    <2> DEFINE o == op[t]
               p == o.pay
               s == IF o.inc /\ Target(p, o.reg, paidAt[p], o.inc, TRUE) = "shift" THEN o.shift ELSE 0
    <2>1. /\ UNCHANGED <<regOf, made, drawer>>
          /\ counted' = [counted EXCEPT ![p] = s]
          /\ \/ counted[p] # 0 /\ ~o.inc /\ moves' = moves \ BillRows(p)
             \/ counted[p] = 0 /\ moves' = moves \cup (IF s = 0 THEN {} ELSE BillsOf({p}, s))
      BY <1>7 DEF CountCommit, Insert, shiftVars
    <2>2. /\ p \in made \cap CashPays /\ made \subseteq Pays /\ o.at = "counting"
          /\ o.reg = drawer[p] /\ o.shift = shiftOf[o.reg] /\ o.reg \in Registers
      BY <1>7 DEF CountCommit, Doing, TypeInv, TypeOK, FlightTyped, HandlerTyped, LockInv, FlightFits,
                  CountingFits
    <2>3. s # 0 => regOf[s] = drawer[p] /\ o.inc
      BY <2>2 DEF LockInv, ShiftsOwn
    <2>4. \A q \in Pays : counted'[q] = IF q = p THEN s ELSE counted[q]
      BY <2>1, <2>2 DEF TypeInv, TypeOK
    <2> HIDE DEF s, p
    <2>5. CountedMade'
      BY <2>1, <2>2, <2>4 DEF PaymentInv, CountedMade
    <2>6. CASE counted[p] # 0 /\ ~o.inc /\ moves' = moves \ BillRows(p)
      <3>1. s = 0
        BY <2>3, <2>6
      <3>2. \A q \in Pays : BillRows(q)' = IF q = p THEN {} ELSE BillRows(q)
        BY <2>6 DEF BillRows
      <3>3. PaidFromOneDrawer'
        BY <2>1, <2>4, <3>1, <3>2 DEF PaymentInv, PaidFromOneDrawer, Bill
      <3> QED  BY <2>5, <3>3 DEF PaymentInv
    <2>7. CASE counted[p] = 0 /\ moves' = moves \cup (IF s = 0 THEN {} ELSE BillsOf({p}, s))
      <3>1. BillRows(p) = {}
        BY <2>2, <2>7 DEF PaymentInv, PaidFromOneDrawer
      <3>2. ASSUME NEW q \in Pays
            PROVE  BillRows(q)' = BillRows(q) \cup
                      (IF s # 0 /\ q \in {p} \cap CashPays THEN {Bill(q, s)} ELSE {})
        <4>1. CASE s = 0
          BY <2>7, <4>1 DEF BillRows
        <4>2. CASE s # 0
          <5>1. moves' = moves \cup BillsOf({p}, s)
            BY <2>7, <4>2
          <5> QED  BY <4>2, <5>1, BillsAfter
        <4> QED  BY <4>1, <4>2
      <3>3. PaidFromOneDrawer'
        BY <2>1, <2>2, <2>3, <2>4, <3>1, <3>2 DEF PaymentInv, PaidFromOneDrawer, Bill
      <3> QED  BY <2>5, <3>3 DEF PaymentInv
    <2> QED  BY <2>1, <2>6, <2>7
  <1>8. CASE CancelCommit(t)
    <2> DEFINE gone == PaysOf(op[t].exp)
    <2>1. /\ UNCHANGED <<regOf, made, drawer>>
          /\ moves' = moves \ UNION {BillRows(p) : p \in gone}
          /\ \A p \in Pays : counted'[p] = IF p \in gone THEN 0 ELSE counted[p]
      BY <1>8 DEF CancelCommit, shiftVars
    <2> HIDE DEF gone
    <2>2. \A p \in Pays : BillRows(p)' = IF p \in gone THEN {} ELSE BillRows(p)
      BY <2>1 DEF BillRows
    <2> QED  BY <2>1, <2>2 DEF PaymentInv, CountedMade, PaidFromOneDrawer, Bill
  <1> QED  BY <1>2, <1>3, <1>4, <1>5, <1>6, <1>7, <1>8 DEF WriteStep

\* A closed session keeps what it signed while rows enter and leave open ones.
LEMMA SignedKept ==
    ASSUME SignedCoversDrawer, UNCHANGED <<shiftOf, regOf, signed>>,
           \A m \in (moves \ moves') \cup (moves' \ moves) : IsOpen(m.shift)
    PROVE  SignedCoversDrawer'
  <1>1. \A s : IsOpen(s)' <=> IsOpen(s)
    BY DEF IsOpen
  <1>2. ASSUME NEW s \in Opened, ~IsOpen(s)
        PROVE  signed[s] = Net(moves', s)
    <2>1. {m \in moves : m.shift = s} = {m \in moves' : m.shift = s}
      BY <1>2
    <2>2. signed[s] = Net(moves, s)
      BY <1>2 DEF SignedCoversDrawer
    <2> QED  BY <2>1, <2>2, NetOfOwnMoves
  <1>3. Opened' = Opened /\ \A s : Net(moves, s)' = Net(moves', s)
    BY DEF Opened, Net
  <1> QED  BY <1>1, <1>2, <1>3 DEF SignedCoversDrawer

\* What a closed session signed is what is in it, after every step.
LEMMA SignedStep ==
    ASSUME TypeInv, LockInv, PaymentInv, SignedCoversDrawer, NEW t \in Tablets, WriteStep(t)
    PROVE  SignedCoversDrawer'
  <1>1. \A r \in Registers : shiftOf[r] # 0 => IsOpen(shiftOf[r])
    BY DEF IsOpen
  <1>2. \A p \in Pays : \A m \in BillRows(p) : counted[p] # 0 /\ m.shift = counted[p]
    BY DEF PaymentInv, PaidFromOneDrawer, Bill
  <1>3. ASSUME NEW asked \in 0..MaxTime, NEW exclude \in BOOLEAN, OpenCommit(t, asked, exclude)
        PROVE  SignedCoversDrawer'
    <2> DEFINE r == op[t].reg
               s == Len(regOf) + 1
               swept == Swept(r, OpeningHour(r, asked, exclude), asked)
    <2>1. /\ moves' = moves \cup BillsOf(swept, s)
          /\ shiftOf' = [shiftOf EXCEPT ![r] = s] /\ shiftOf[r] = 0
          /\ signed' = Append(signed, 0) /\ regOf' = Append(regOf, r) /\ r \in Registers
      BY <1>3 DEF OpenCommit, Insert, Doing, TypeInv, FlightTyped, HandlerTyped
    <2>2. /\ s \in Nat \ {0} /\ Opened' = Opened \cup {s} /\ s \notin Opened
          /\ \A x \in Opened : signed'[x] = signed[x]
      BY <2>1 DEF TypeInv, TypeOK, Opened
    <2>3. \A m \in BillsOf(swept, s) : m.shift = s
      BY DEF BillsOf, Bill
    <2>4. \A x \in Registers : shiftOf'[x] = IF x = r THEN s ELSE shiftOf[x]
      BY <2>1 DEF TypeInv, TypeOK
    <2> HIDE DEF s, r, swept
    <2>5. s # 0 /\ \E x \in Registers : shiftOf'[x] = s
      BY <2>1, <2>2, <2>4
    <2>6. \A x \in Opened : IsOpen(x) => IsOpen(x)'
      BY <2>1, <2>4 DEF IsOpen
    <2>7. ASSUME NEW x \in Opened, ~IsOpen(x) PROVE signed'[x] = Net(moves', x)
      <3>1. {m \in moves : m.shift = x} = {m \in moves' : m.shift = x}
        BY <2>1, <2>2, <2>3
      <3>2. signed[x] = Net(moves, x)
        BY <2>7 DEF SignedCoversDrawer
      <3> QED  BY <2>2, <3>1, <3>2, NetOfOwnMoves
    <2>8. \A x : Net(moves, x)' = Net(moves', x)
      BY DEF Net
    <2>9. ASSUME NEW x \in Opened' PROVE IsOpen(x)' \/ signed'[x] = Net(moves', x)
      BY <2>2, <2>5, <2>6, <2>7, <2>9 DEF IsOpen
    <2> QED  BY <2>8, <2>9 DEF SignedCoversDrawer
  <1>4. ASSUME NEW r \in Registers, Close(t, r) PROVE SignedCoversDrawer'
    <2> DEFINE s == shiftOf[r]
    <2>1. /\ UNCHANGED <<regOf, moves>> /\ s # 0
          /\ shiftOf' = [shiftOf EXCEPT ![r] = 0]
          /\ signed' = [signed EXCEPT ![s] = Net(moves, s)]
      BY <1>4 DEF Close
    <2>2. signed \in [Opened -> Int] /\ shiftOf \in [Registers -> 0..Len(regOf)]
      BY DEF TypeInv, TypeOK, Opened
    <2>3. \A x \in Opened : signed'[x] = IF x = s THEN Net(moves, s) ELSE signed[x]
      <3> HIDE DEF s
      <3> QED  BY <2>1, <2>2
    <2>4. \A x \in Registers : shiftOf'[x] = IF x = r THEN 0 ELSE shiftOf[x]
      BY <2>1, <2>2
    <2>5. \A x \in Opened : x # s /\ IsOpen(x) => IsOpen(x)'
      BY <2>1, <2>4 DEF IsOpen
    <2>6. Opened' = Opened /\ \A x : Net(moves, x)' = Net(moves, x)
      BY <2>1 DEF Opened, Net
    <2> HIDE DEF s
    <2> QED  BY <2>3, <2>5, <2>6 DEF SignedCoversDrawer
  <1>5. ASSUME NEW r \in Registers, MoveSales(t, r) PROVE SignedCoversDrawer'
    BY <1>5, SignedKept DEF MoveSales, shiftVars
  <1>6. CASE UpdateCommit(t)
    BY <1>6, SignedKept DEF UpdateCommit, shiftVars
  <1>7. CASE CashCommit(t) \/ CorrectCommit(t) \/ TransferCommit(t)
    <2>1. UNCHANGED <<shiftOf, regOf, signed>>
      BY <1>7 DEF CashCommit, CorrectCommit, TransferCommit, shiftVars
    <2>2. \A m \in (moves \ moves') \cup (moves' \ moves) : IsOpen(m.shift)
      BY <1>7, RowsOfCash
    <2> QED  BY <2>1, <2>2, SignedKept
  <1>8. CASE PayCommit(t)
    <2>1. /\ UNCHANGED <<shiftOf, regOf, signed>> /\ (op[t].shift # 0 => IsOpen(op[t].shift))
          /\ moves' = moves \cup (IF op[t].shift = 0 THEN {} ELSE BillsOf({op[t].pay}, op[t].shift))
      BY <1>8 DEF PayCommit, Insert, shiftVars
    <2>2. \A m \in moves' \ moves : m.shift = op[t].shift /\ op[t].shift # 0
      BY <2>1 DEF BillsOf, Bill
    <2> QED  BY <2>1, <2>2, SignedKept
  <1>9. CASE CountCommit(t)
    <2> DEFINE o == op[t]
               p == o.pay
               s == IF o.inc /\ Target(p, o.reg, paidAt[p], o.inc, TRUE) = "shift" THEN o.shift ELSE 0
    <2>1. /\ UNCHANGED <<shiftOf, regOf, signed>>
          /\ \/ counted[p] # 0 /\ counted[p] = o.shift /\ moves' = moves \ BillRows(p)
             \/ moves' = moves \cup (IF s = 0 THEN {} ELSE BillsOf({p}, s))
      BY <1>9 DEF CountCommit, Insert, shiftVars
    <2>2. p \in Pays /\ o.shift = shiftOf[o.reg] /\ o.reg \in Registers
      BY <1>9 DEF CountCommit, Doing, TypeInv, TypeOK, FlightTyped, HandlerTyped, LockInv, FlightFits,
                  CountingFits
    <2>3. s # 0 => s = o.shift
      OBVIOUS
    <2> HIDE DEF s, p
    <2>4. ASSUME NEW m \in (moves \ moves') \cup (moves' \ moves) PROVE IsOpen(m.shift)
      <3>1. \/ m \in BillRows(p) /\ counted[p] # 0 /\ counted[p] = o.shift
            \/ s # 0 /\ m \in BillsOf({p}, s)
        BY <2>1, <2>4
      <3>2. m.shift = o.shift /\ o.shift # 0
        BY <1>2, <2>2, <2>3, <3>1 DEF BillsOf, Bill
      <3> QED  BY <1>1, <2>2, <3>2
    <2> QED  BY <2>1, <2>4, SignedKept
  <1>10. CASE CancelCommit(t)
    <2>1. /\ UNCHANGED <<shiftOf, regOf, signed>>
          /\ moves' = moves \ UNION {BillRows(p) : p \in PaysOf(op[t].exp)}
          /\ \A p \in PaysOf(op[t].exp) : PlanAllows(t, p)
      BY <1>10 DEF CancelCommit, shiftVars
    <2>2. ASSUME NEW m \in (moves \ moves') \cup (moves' \ moves) PROVE IsOpen(m.shift)
      <3>1. PICK p \in PaysOf(op[t].exp) : m \in BillRows(p)
        BY <2>1, <2>2
      <3>2. p \in made /\ p \in Pays
        BY DEF PaysOf, TypeInv, TypeOK
      <3>3. counted[p] # 0 /\ m.shift = counted[p]
        BY <1>2, <3>1, <3>2
      <3>4. p \in included
        BY <3>2, <3>3 DEF TypeInv, TypeOK
      <3> QED  BY <2>1, <3>3, <3>4 DEF PlanAllows
    <2> QED  BY <2>1, <2>2, SignedKept
  <1> QED  BY <1>3, <1>4, <1>5, <1>6, <1>7, <1>8, <1>9, <1>10 DEF WriteStep

\* No drawer has anything at first.
LEMMA DrawersInitially == Init => DrawerInv
  <1> SUFFICES ASSUME Init PROVE DrawerInv
    OBVIOUS
  <1>1. CountedMade /\ PaidFromOneDrawer
    BY DEF Init, CountedMade, PaidFromOneDrawer, BillRows
  <1>2. SignedCoversDrawer
    BY DEF Init, SignedCoversDrawer, Opened
  <1> QED  BY <1>1, <1>2, LocksInitially DEF DrawerInv

\* Every step keeps the payments in their drawers and the closes signed.
LEMMA DrawersStep == TypeInv /\ DrawerInv /\ [Next]_vars => DrawerInv'
  <1> SUFFICES ASSUME TypeInv, DrawerInv, [Next]_vars PROVE DrawerInv'
    OBVIOUS
  <1>1. LockInv'
    BY LocksStep DEF DrawerInv
  <1>2. ASSUME UNCHANGED <<shiftVars, moves, payVars>>
        PROVE  CountedMade' /\ PaidFromOneDrawer' /\ SignedCoversDrawer'
    <2>1. CountedMade' /\ PaidFromOneDrawer'
      BY <1>2 DEF DrawerInv, CountedMade, PaidFromOneDrawer, BillRows, Bill, shiftVars, payVars
    <2>2. SignedCoversDrawer'
      BY <1>2, SignedKept DEF DrawerInv, shiftVars
    <2> QED  BY <2>1, <2>2
  <1>3. CASE Next
    <2>1. PICK t \in Tablets : ReadStep(t) \/ WriteStep(t)
      BY <1>3, StepsSplit
    <2>2. CASE ReadStep(t)
      BY <1>1, <1>2, <2>2, ReadsChangeNothing DEF DrawerInv
    <2>3. CASE WriteStep(t)
      BY <1>1, <2>3, PaymentsStep, SignedStep DEF DrawerInv, PaymentInv
    <2> QED  BY <2>1, <2>2, <2>3
  <1>4. CASE UNCHANGED vars
    BY <1>1, <1>2, <1>4 DEF vars, DrawerInv
  <1> QED  BY <1>3, <1>4

\* An expense paid in cash leaves one drawer, once, whatever openings, closes, cancellations and
\* changes of its box cross.
THEOREM PaidOnce == Spec => []PaidFromOneDrawer
  <1>1. TypeInv /\ DrawerInv => PaidFromOneDrawer
    BY DEF DrawerInv
  <1> QED  BY <1>1, TypeInitially, TypeStep, DrawersInitially, DrawersStep, PTL DEF Spec

\* A closed session keeps the cash its close signed.
THEOREM SignedStays == Spec => []SignedCoversDrawer
  <1>1. TypeInv /\ DrawerInv => SignedCoversDrawer
    BY DEF DrawerInv
  <1> QED  BY <1>1, TypeInitially, TypeStep, DrawersInitially, DrawersStep, PTL DEF Spec
-----------------------------------------------------------------------------
(***************************************************************************)
(* Payments waiting for a count, when none is dated ahead.                 *)
(***************************************************************************)
\* The clock is never behind a payment that was read, where none is dated ahead.
LEMMA PastStep ==
    ASSUME Later = {}, TypeInv, PaidInThePast, [Next]_vars
    PROVE  PaidInThePast'
  <1>0. /\ now \in Nat /\ \A p \in Pays : paidAt[p] \in Nat
        /\ \A u \in Tablets : op[u].at \in Timed => op[u].time \in Nat
    BY DrawersAssumption DEF TypeInv, TypeOK, FlightTyped, HandlerTyped, PayRecords, Timed
  <1>1. now' = now \/ now' = now + 1
    <2>1. CASE Next
      <3>1. PICK t \in Tablets : ReadStep(t) \/ WriteStep(t)
        BY <2>1, StepsSplit
      <3> QED
        BY <3>1, ReadsChangeNothing
        DEF WriteStep, OpenCommit, Close, MoveSales, UpdateCommit, CashCommit, CorrectCommit,
            TransferCommit, PayCommit, CountCommit, CancelCommit, Tick
    <2> QED  BY <2>1 DEF vars
  <1>2. ASSUME \A p \in Pays : paidAt'[p] <= now, \A u \in Tablets : op'[u].at \in Timed =>
                  (op'[u].time \in Nat /\ op'[u].time <= now')
        PROVE  PaidInThePast'
    <2>1. \A p \in Pays : paidAt'[p] <= now'
      <3>1. \A p \in Pays : paidAt'[p] \in Nat
        BY TypeStep DEF TypeInv, TypeOK
      <3> QED  BY <1>0, <1>1, <1>2, <3>1
    <2> QED  BY <1>2, <2>1 DEF PaidInThePast, Doing, Timed
  <1>3. ASSUME NEW u \in Tablets, op'[u] = op[u], op[u].at \in Timed
        PROVE  op'[u].time \in Nat /\ op'[u].time <= now'
    BY <1>0, <1>1, <1>3 DEF PaidInThePast, Doing, Timed
  <1>4. CASE Next
    <2>1. PICK t \in Tablets : ReadStep(t) \/ WriteStep(t)
      BY <1>4, StepsSplit
    <2>2. ASSUME NEW o, Go(t, o), o.at \in Timed => o.time \in Nat /\ o.time <= now'
          PROVE  \A u \in Tablets : op'[u].at \in Timed => op'[u].time \in Nat /\ op'[u].time <= now'
      <3>1. \A u \in Tablets : op'[u] = IF u = t THEN o ELSE op[u]
        BY <2>2 DEF Go, TypeInv, FlightTyped
      <3> QED  BY <1>3, <2>2, <3>1
    <2>3. CASE WriteStep(t)
      <3>1. Done(t) \/ op' = op
        BY <2>3 DEF WriteStep, OpenCommit, Close, MoveSales, UpdateCommit, CashCommit,
           CorrectCommit, TransferCommit, PayCommit, CountCommit, CancelCommit
      <3>2. \A u \in Tablets : op'[u].at \in Timed => op'[u].time \in Nat /\ op'[u].time <= now'
        <4>1. CASE Done(t)
          BY <2>2, <4>1 DEF Done, Idle, Timed
        <4>2. CASE op' = op
          BY <1>3, <4>2
        <4> QED  BY <3>1, <4>1, <4>2
      <3>3. \A p \in Pays : paidAt'[p] <= now
        <4>1. CASE PayCommit(t)
          <5>1. paidAt' = [paidAt EXCEPT ![op[t].pay] = op[t].time] /\ op[t].at = "decided"
            BY <4>1 DEF PayCommit, Doing
          <5>2. op[t].time <= now
            BY <5>1 DEF PaidInThePast, Doing
          <5> QED  BY <5>1, <5>2 DEF PaidInThePast, TypeInv, TypeOK
        <4>2. CASE ~PayCommit(t)
          <5>1. paidAt' = paidAt
            BY <2>3, <4>2 DEF WriteStep, OpenCommit, Close, MoveSales, UpdateCommit, CashCommit,
               CorrectCommit, TransferCommit, CountCommit, CancelCommit, payVars
          <5> QED  BY <5>1 DEF PaidInThePast
        <4> QED  BY <4>1, <4>2
      <3> QED  BY <1>2, <3>2, <3>3
    <2>4. CASE ReadStep(t)
      <3>1. \A p \in Pays : paidAt'[p] <= now
        BY <2>4, ReadsChangeNothing DEF payVars, PaidInThePast
      <3>2. \E o : Go(t, o) /\ (o.at \in Timed => o.time \in Nat /\ o.time <= now')
        <4>1. op[t].at \in Timed => op[t].time \in Nat /\ op[t].time <= now
          BY <1>0 DEF PaidInThePast, Doing, Timed
        <4>2. PICK o : /\ Go(t, o)
                       /\ \/ o.at \notin Timed
                          \/ op[t].at \in Timed /\ o.time = op[t].time /\ now' = now
                          \/ now' = now + 1 /\ o.time \in {0, now + 1}
          BY <2>4, ReadsLeave DEF Timed
        <4>3. o.at \in Timed => o.time \in Nat /\ o.time <= now'
          BY <1>0, <4>1, <4>2
        <4> QED  BY <4>2, <4>3
      <3> QED  BY <1>2, <2>2, <3>1, <3>2
    <2> QED  BY <2>1, <2>3, <2>4
  <1>5. CASE UNCHANGED vars
    BY <1>5 DEF vars, payVars, PaidInThePast, Doing
  <1> QED  BY <1>4, <1>5

\* A payment waiting for a count, as PendingCanBeCounted says it.
Waits(p) == p \in made \cap CashPays /\ IsPending(p) /\ expense[ExpenseOf[p]] # "cancelada"

Reachable(p) ==
    /\ shiftOf[drawer[p]] = 0
    /\ lastClose[drawer[p]] = 0 \/ paidAt[p] > lastClose[drawer[p]]

\* PendingCanBeCounted, payment by payment.
LEMMA PendingSays == PendingCanBeCounted <=> \A p \in Pays : Waits(p) => Reachable(p)
  BY DrawersAssumption DEF PendingCanBeCounted, Waits, Reachable

\* Nothing strands a payment that waits for its count.
LEMMA PendingStep ==
    ASSUME TypeInv, DrawerInv, PaidInThePast, PendingCanBeCounted, NEW t \in Tablets, WriteStep(t)
    PROVE  PendingCanBeCounted'
  <1>1. \A p \in Pays : Waits(p) => Reachable(p) /\ drawer[p] \in Registers
    BY PendingSays DEF TypeInv, TypeOK
  <1>2. ASSUME \A p \in Pays : Waits(p)' => Reachable(p)'
        PROVE  PendingCanBeCounted'
    BY <1>2, DrawersAssumption DEF PendingCanBeCounted, Waits, Reachable
  <1>3. ASSUME UNCHANGED <<shiftOf, lastClose, payVars>> PROVE PendingCanBeCounted'
    BY <1>3 DEF PendingCanBeCounted, IsPending, payVars
  <1>4. CASE UpdateCommit(t) \/ CashCommit(t) \/ CorrectCommit(t) \/ TransferCommit(t)
    BY <1>3, <1>4 DEF UpdateCommit, CashCommit, CorrectCommit, TransferCommit, shiftVars
  <1>5. ASSUME NEW r \in Registers, MoveSales(t, r) PROVE PendingCanBeCounted'
    BY <1>3, <1>5 DEF MoveSales, shiftVars
  <1>6. ASSUME NEW r \in Registers, Close(t, r) PROVE PendingCanBeCounted'
    <2>1. /\ UNCHANGED payVars /\ shiftOf[r] # 0
          /\ \A x \in Registers : x # r => shiftOf'[x] = shiftOf[x] /\ lastClose'[x] = lastClose[x]
      BY <1>6 DEF Close, TypeInv, TypeOK
    <2>2. ASSUME NEW p \in Pays, Waits(p)' PROVE Reachable(p)'
      <3>1. Waits(p)
        BY <2>1, <2>2 DEF Waits, IsPending, payVars
      <3>2. Reachable(p) /\ drawer[p] \in Registers /\ drawer[p] # r
        BY <1>1, <2>1, <3>1 DEF Reachable
      <3> QED  BY <2>1, <3>2 DEF Reachable, payVars
    <2> QED  BY <1>2, <2>2
  <1>7. ASSUME NEW asked \in 0..MaxTime, NEW exclude \in BOOLEAN, OpenCommit(t, asked, exclude)
        PROVE  PendingCanBeCounted'
    <2> DEFINE r == op[t].reg
               hour == OpeningHour(r, asked, exclude)
               swept == Swept(r, hour, asked)
               s == Len(regOf) + 1
    <2>1. /\ UNCHANGED <<lastClose, expense, made, drawer, paidAt>>
          /\ shiftOf' = [shiftOf EXCEPT ![r] = s]
          /\ \A p \in Pays : counted'[p] = IF p \in swept THEN s ELSE counted[p]
          /\ included' = included \ {p \in made : IsPending(p) /\ p \notin swept
                                                  /\ drawer[p] = r /\ paidAt[p] < hour}
          /\ s # 0
      BY <1>7 DEF OpenCommit, TypeInv, TypeOK
    <2>2. r \in Registers /\ hour \in Nat /\ now \in Nat
      <3>1. r \in Registers
        BY <1>7 DEF OpenCommit, Doing, TypeInv, FlightTyped, HandlerTyped
      <3>2. hour \in Nat
        BY <3>1, HourTyped DEF TypeInv
      <3> QED  BY <3>1, <3>2, DrawersAssumption DEF TypeInv, TypeOK
    <2>3. ASSUME NEW p \in Pays, Waits(p)' PROVE Waits(p) /\ drawer[p] # r
      <3>1. p \notin swept /\ Waits(p)
        BY <2>1, <2>3 DEF Waits, IsPending
      <3>2. CASE drawer[p] = r
        <4>1. p \in PendingAt(r) /\ paidAt[p] \in Nat /\ paidAt[p] <= now
          BY <3>1, <3>2 DEF Waits, PendingAt, PaidInThePast, TypeInv, TypeOK
        <4>2. ~(paidAt[p] < hour)
          <5> HIDE DEF r, hour, swept
          <5> QED  BY <2>1, <2>3, <3>1, <3>2 DEF Waits, IsPending
        <4>3. hour < now + 1 /\ hour <= paidAt[p] /\ paidAt[p] <= now + 1
          BY <2>2, <4>1, <4>2
        <4>4. p \in swept
          BY <4>1, <4>3 DEF Swept
        <4> QED  BY <3>1, <4>4
      <3> QED  BY <3>1, <3>2
    <2>4. ASSUME NEW p \in Pays, Waits(p)' PROVE Reachable(p)'
      <3>1. Waits(p) /\ drawer[p] # r /\ Reachable(p) /\ drawer[p] \in Registers
        BY <1>1, <2>3, <2>4
      <3>2. shiftOf'[drawer[p]] = shiftOf[drawer[p]]
        BY <2>1, <2>2, <3>1 DEF TypeInv, TypeOK
      <3> QED  BY <2>1, <3>1, <3>2 DEF Reachable
    <2> QED  BY <1>2, <2>4
  <1>8. CASE PayCommit(t)
    <2> DEFINE o == op[t]
               e == ExpenseOf[o.pay]
    <2>1. /\ UNCHANGED <<shiftOf, lastClose>>
          /\ made' = made \cup {o.pay}
          /\ drawer' = [drawer EXCEPT ![o.pay] = o.reg]
          /\ paidAt' = [paidAt EXCEPT ![o.pay] = o.time]
          /\ included' = IF o.inc THEN included \cup {o.pay} ELSE included
          /\ counted' = [counted EXCEPT ![o.pay] = o.shift]
          /\ o.pay \notin made
      BY <1>8 DEF PayCommit, shiftVars
    <2>2. /\ o.pay \in Pays /\ e \in Expenses
          /\ o.shift = 0 /\ o.inc => shiftOf[o.reg] = 0 /\ (lastClose[o.reg] = 0 \/ o.time > lastClose[o.reg])
      BY <1>8, DrawersAssumption DEF PayCommit, Doing, TypeInv, FlightTyped, HandlerTyped, DrawerInv,
         LockInv, FlightFits, DecidedFits
    <2>3. \A x \in Expenses : expense'[x] # "cancelada" => expense[x] # "cancelada"
      BY <1>8, <2>2 DEF PayCommit, TypeInv, TypeOK
    <2>4. \A p \in Pays : /\ counted'[p] = IF p = o.pay THEN o.shift ELSE counted[p]
                          /\ drawer'[p] = IF p = o.pay THEN o.reg ELSE drawer[p]
                          /\ paidAt'[p] = IF p = o.pay THEN o.time ELSE paidAt[p]
      BY <2>1, <2>2 DEF TypeInv, TypeOK
    <2>5. o.pay \notin included
      BY <2>1 DEF TypeInv, TypeOK
    <2> HIDE DEF o, e
    <2>6. ASSUME NEW p \in Pays, Waits(p)' PROVE Reachable(p)'
      <3>1. CASE p = o.pay
        BY <2>1, <2>2, <2>4, <2>5, <2>6, <3>1 DEF Waits, IsPending, Reachable
      <3>2. CASE p # o.pay
        <4>1. ExpenseOf[p] \in Expenses
          BY DrawersAssumption
        <4>2. Waits(p)
          BY <2>1, <2>3, <2>4, <2>6, <3>2, <4>1 DEF Waits, IsPending
        <4> QED  BY <1>1, <2>1, <2>4, <3>2, <4>2 DEF Reachable
      <3> QED  BY <3>1, <3>2
    <2> QED  BY <1>2, <2>6
  <1>9. CASE CountCommit(t)
    <2> DEFINE o == op[t]
               p == o.pay
               target == Target(p, o.reg, paidAt[p], o.inc, TRUE)
               s == IF o.inc /\ target = "shift" THEN o.shift ELSE 0
    <2>1. /\ UNCHANGED <<shiftOf, lastClose, expense, made, drawer, paidAt>>
          /\ counted' = [counted EXCEPT ![p] = s]
          /\ included' = IF o.inc THEN included \cup {p} ELSE included \ {p}
          /\ ~o.inc \/ target # "refused"
      BY <1>9 DEF CountCommit, shiftVars
    <2>2. /\ p \in made \cap CashPays /\ p \in Pays /\ o.reg = drawer[p] /\ o.reg \in counts
          /\ o.shift = shiftOf[o.reg]
      BY <1>9 DEF CountCommit, Doing, TypeInv, TypeOK, FlightTyped, HandlerTyped, DrawerInv, LockInv,
                  FlightFits, CountingFits
    <2>3. /\ target = "shift" => shiftOf[o.reg] # 0
          /\ target \notin {"outside", "shift", "refused"} =>
                /\ shiftOf[o.reg] = 0
                /\ lastClose[o.reg] = 0 \/ paidAt[p] > lastClose[o.reg]
          /\ o.inc => target # "outside"
      BY <2>2, TargetFits
    <2>4. \A q \in Pays : counted'[q] = IF q = p THEN s ELSE counted[q]
      BY <2>1, <2>2 DEF TypeInv, TypeOK
    <2>5. s = IF o.inc /\ target = "shift" THEN o.shift ELSE 0
      OBVIOUS
    <2> HIDE DEF o, p, target, s
    <2>6. ASSUME NEW q \in Pays, Waits(q)' PROVE Reachable(q)'
      <3>1. CASE q = p
        BY <2>1, <2>2, <2>3, <2>4, <2>5, <2>6, <3>1 DEF Waits, IsPending, Reachable
      <3>2. CASE q # p
        <4>1. Waits(q)
          BY <2>1, <2>4, <2>6, <3>2 DEF Waits, IsPending
        <4> QED  BY <1>1, <2>1, <4>1 DEF Reachable
      <3> QED  BY <3>1, <3>2
    <2> QED  BY <1>2, <2>6
  <1>10. CASE CancelCommit(t)
    <2>1. /\ UNCHANGED <<shiftOf, lastClose, made, drawer, paidAt>>
          /\ \A p \in Pays : counted'[p] = IF p \in PaysOf(op[t].exp) THEN 0 ELSE counted[p]
          /\ included' = included \ PaysOf(op[t].exp)
          /\ expense' = [expense EXCEPT ![op[t].exp] = "cancelada"]
      BY <1>10 DEF CancelCommit, shiftVars
    <2>2. \A x \in Expenses : expense'[x] # "cancelada" => expense[x] # "cancelada"
      BY <2>1 DEF TypeInv, TypeOK
    <2>3. ASSUME NEW p \in Pays, Waits(p)' PROVE Reachable(p)'
      <3>1. ExpenseOf[p] \in Expenses
        BY DrawersAssumption
      <3>2. Waits(p)
        BY <2>1, <2>2, <2>3, <3>1 DEF Waits, IsPending
      <3> QED  BY <1>1, <2>1, <3>2 DEF Reachable
    <2> QED  BY <1>2, <2>3
  <1> QED  BY <1>4, <1>5, <1>6, <1>7, <1>8, <1>9, <1>10 DEF WriteStep

\* With payments that are not dated ahead, no opening, close, payment or change of a box strands a
\* payment that waits for a count.
THEOREM PendingCounted ==
    ASSUME Later = {}
    PROVE  Spec => []PendingCanBeCounted
  <1>1. Init => PaidInThePast /\ PendingCanBeCounted
    BY DEF Init, PaidInThePast, PendingCanBeCounted, Doing, Idle
  <1>2. ASSUME TypeInv, DrawerInv, PaidInThePast, PendingCanBeCounted, [Next]_vars
        PROVE  PaidInThePast' /\ PendingCanBeCounted'
    <2>1. PaidInThePast'
      BY <1>2, PastStep
    <2> SUFFICES PendingCanBeCounted'
      BY <2>1
    <2>2. ASSUME UNCHANGED <<shiftOf, lastClose, payVars>> PROVE PendingCanBeCounted'
      BY <1>2, <2>2 DEF PendingCanBeCounted, IsPending, payVars
    <2>3. CASE Next
      <3>1. PICK t \in Tablets : ReadStep(t) \/ WriteStep(t)
        BY <2>3, StepsSplit
      <3>2. CASE ReadStep(t)
        BY <2>2, <3>2, ReadsChangeNothing DEF shiftVars
      <3>3. CASE WriteStep(t)
        BY <1>2, <3>3, PendingStep
      <3> QED  BY <3>1, <3>2, <3>3
    <2>4. CASE UNCHANGED vars
      BY <2>2, <2>4 DEF vars, shiftVars
    <2> QED  BY <1>2, <2>3, <2>4
  <1>3. TypeInv /\ DrawerInv /\ PaidInThePast /\ PendingCanBeCounted /\ [Next]_vars
          => PaidInThePast' /\ PendingCanBeCounted'
    BY <1>2
  <1> QED
    BY <1>1, <1>3, TypeInitially, TypeStep, DrawersInitially, DrawersStep, PTL DEF Spec
-----------------------------------------------------------------------------
(***************************************************************************)
(* Reversals.                                                              *)
(***************************************************************************)
\* Rows of one handler, numbered after the rows there are, at most one of them a cash-out and at
\* most one the reversal of a cash-out that had none, keep the reversals.
LEMMA ReversalAdd ==
    ASSUME TypeInv, ReversalInv, NEW t \in Tablets, Done(t), regOf' = regOf,
           NEW rows, moves' = moves \cup rows, IsFiniteSet(rows), rows # {},
           \A m \in rows : m.kind # "gasto" /\ m.id = Cardinality(Numbered),
           \A m, n \in rows : m.kind = n.kind => m = n,
           \A b \in rows : b.kind = "reverso" =>
              \E m \in moves : /\ m.kind = "salida" /\ b.of = m.id
                               /\ Reversals(m) = {} /\ regOf[b.shift] = regOf[m.shift]
    PROVE  ReversalInv'
  <1> DEFINE N == Cardinality(Numbered)
             M == Cardinality(Numbered')
  <1>1. IsFiniteSet(Numbered) /\ IsFiniteSet(Numbered') /\ N \in Nat /\ M \in Nat
    <2>1. IsFiniteSet(Numbered) /\ IsFiniteSet(moves')
      BY FS_Subset, FS_Union DEF TypeInv, Numbered
    <2>2. IsFiniteSet(Numbered')
      BY <2>1, FS_Subset DEF Numbered
    <2> QED  BY <2>1, <2>2, FS_CardinalityType
  <1>2. Numbered' = Numbered \cup rows
    BY DEF Numbered
  <1>3. N < M
    <2>1. \A m \in rows : m \notin Numbered
      BY <1>1 DEF ReversalInv
    <2>2. Numbered \subseteq Numbered' /\ Numbered # Numbered'
      BY <1>2, <2>1
    <2>3. N <= M /\ N # M
      BY <1>1, <2>2, FS_Subset
    <2> QED  BY <1>1, <2>3
  <1>4. \A m \in Numbered : m.id \in Nat /\ m.id < N
    BY DEF ReversalInv
  <1>5. \A m \in moves : m.kind = "salida" => m \in Numbered
    BY DEF Numbered
  <1>6. \A m \in Numbered' : m.id \in Nat /\ m.id < M
    BY <1>1, <1>2, <1>3, <1>4
  <1>7. \A m, n \in Numbered' : m.kind = "salida" /\ n.kind = "salida" /\ m.id = n.id => m = n
    BY <1>1, <1>2, <1>4 DEF ReversalInv
  <1>8. \A b \in Numbered' : b.kind = "reverso" => b.of \in Nat /\ b.of < N
    BY <1>1, <1>2, <1>4, <1>5 DEF ReversalInv
  <1>9. ASSUME NEW m \in moves', m.kind = "salida"
        PROVE  /\ \A b, c \in Reversals(m)' : b = c
               /\ \A b \in Reversals(m)' : regOf[b.shift] = regOf[m.shift]
    <2>1. \A b \in Reversals(m)' : b \in Numbered' /\ b.kind = "reverso" /\ b.of = m.id
      BY DEF Reversals, Numbered
    <2>2. CASE m \in rows
      <3>1. Reversals(m)' = {}
        BY <1>1, <1>8, <2>1, <2>2
      <3> QED  BY <3>1
    <2>3. CASE m \in moves
      <3>1. ASSUME NEW b \in rows, b \in Reversals(m)'
            PROVE  Reversals(m) = {} /\ regOf[b.shift] = regOf[m.shift]
        <4>1. PICK n \in moves : /\ n.kind = "salida" /\ b.of = n.id
                                 /\ Reversals(n) = {} /\ regOf[b.shift] = regOf[n.shift]
          BY <2>1, <3>1
        <4>2. n = m
          BY <1>5, <1>9, <2>1, <2>3, <3>1, <4>1 DEF ReversalInv
        <4> QED  BY <4>1, <4>2
      <3>2. \A b \in Reversals(m)' : b \in rows \/ b \in Reversals(m)
        BY DEF Reversals
      <3>3. \A b, c \in Reversals(m)' : b = c
        BY <1>9, <2>1, <2>3, <3>1, <3>2 DEF ReversalInv
      <3>4. \A b \in Reversals(m)' : regOf[b.shift] = regOf[m.shift]
        BY <1>9, <2>3, <3>1, <3>2 DEF ReversalInv
      <3> QED  BY <3>3, <3>4
    <2> QED  BY <2>2, <2>3
  <1>10. \A u \in Tablets : op'[u].at = "correct" => op'[u].row \in moves'
    BY DEF ReversalInv, Doing, Done, Go, Idle, TypeInv, FlightTyped
  <1>11. \A b \in Numbered' : b.kind = "reverso" => b.of \in Nat /\ b.of < M
    BY <1>1, <1>3, <1>8
  <1> QED
    BY <1>6, <1>7, <1>9, <1>10, <1>11 DEF ReversalInv, Doing

\* The bills of the expenses are no part of them.
LEMMA ReversalKept ==
    ASSUME TypeInv, ReversalInv, Numbered' = Numbered,
           \A x \in Opened : regOf'[x] = regOf[x],
           \A u \in Tablets : op'[u] = op[u] \/ op'[u].at # "correct"
                                \/ (op'[u].row \in moves /\ op'[u].row.kind = "salida")
    PROVE  ReversalInv'
  <1>1. \A m \in moves : m.kind = "salida" => m \in Numbered /\ m \in Numbered'
    BY DEF Numbered
  <1>2. \A m \in moves' : m.kind = "salida" => m \in moves /\ m \in Numbered
    BY DEF Numbered
  <1>3. \A m : Reversals(m)' = Reversals(m)
    <2>1. \A m : Reversals(m) = {b \in Numbered : b.kind = "reverso" /\ b.of = m.id}
      BY DEF Reversals, Numbered
    <2>2. \A m : Reversals(m)' = {b \in Numbered' : b.kind = "reverso" /\ b.of = m.id}
      BY DEF Reversals, Numbered
    <2> QED  BY <2>1, <2>2
  <1>4. \A u \in Tablets : op'[u].at = "correct" => op'[u].row \in moves'
    <2>1. \A u \in Tablets : op[u].at = "correct" => op[u].row.kind = "salida" /\ op[u].row \in moves
      BY DEF TypeInv, FlightTyped, HandlerTyped, ReversalInv, Doing
    <2>2. Numbered' \subseteq moves'
      BY DEF Numbered
    <2> QED  BY <1>1, <2>1, <2>2
  <1>5. \A m \in moves : m.shift \in Opened
    BY DEF TypeInv, TypeOK
  <1>6. \A m \in moves : \A b \in Reversals(m) : b \in moves
    BY DEF Reversals
  <1>7. \A m \in moves' : m.kind = "salida" =>
          /\ \A b, c \in Reversals(m)' : b = c
          /\ \A b \in Reversals(m)' : regOf'[b.shift] = regOf'[m.shift]
    BY <1>2, <1>3, <1>5, <1>6 DEF ReversalInv
  <1> QED  BY <1>4, <1>7 DEF ReversalInv, Doing

\* Every write keeps them: a correction only reverses what nobody has, where it left.
LEMMA ReversalStep ==
    ASSUME TypeInv, LockInv, ReversalInv, NEW t \in Tablets, WriteStep(t)
    PROVE  ReversalInv'
  <1>0. HandlerTyped(op[t], Opened, made) /\ \A u \in Tablets : op'[u] = op[u] \/ op'[u].at # "correct"
    <2>1. Done(t) \/ op' = op
      BY DEF WriteStep, OpenCommit, Close, MoveSales, UpdateCommit, CashCommit, CorrectCommit,
             TransferCommit, PayCommit, CountCommit, CancelCommit
    <2> QED  BY <2>1 DEF Done, Go, Idle, TypeInv, FlightTyped
  <1>1. ASSUME NEW asked \in 0..MaxTime, NEW exclude \in BOOLEAN, OpenCommit(t, asked, exclude)
        PROVE  ReversalInv'
    <2>1. PICK ps, s : moves' = moves \cup BillsOf(ps, s)
      BY <1>1 DEF OpenCommit, Insert
    <2>2. Numbered' = Numbered
      BY <2>1 DEF Numbered, BillsOf, Bill
    <2>3. \A x \in Opened : regOf'[x] = regOf[x]
      BY <1>1 DEF OpenCommit, Doing, TypeInv, TypeOK, Opened, FlightTyped, HandlerTyped
    <2> QED  BY <1>0, <2>2, <2>3, ReversalKept
  <1>2. ASSUME NEW r \in Registers, Close(t, r) \/ MoveSales(t, r) PROVE ReversalInv'
    <2>1. UNCHANGED <<moves, regOf>>
      BY <1>2 DEF Close, MoveSales, shiftVars
    <2>2. Numbered' = Numbered
      BY <2>1 DEF Numbered
    <2> QED  BY <1>0, <2>1, <2>2, ReversalKept
  <1>3. CASE UpdateCommit(t)
    <2>1. UNCHANGED <<moves, regOf>>
      BY <1>3 DEF UpdateCommit, shiftVars
    <2>2. Numbered' = Numbered
      BY <2>1 DEF Numbered
    <2> QED  BY <1>0, <2>1, <2>2, ReversalKept
  <1>4. CASE PayCommit(t) \/ CountCommit(t) \/ CancelCommit(t)
    <2>1. \A m \in (moves \ moves') \cup (moves' \ moves) : m.kind = "gasto"
      <3>1. CASE PayCommit(t)
        BY <3>1 DEF PayCommit, Insert, BillsOf, Bill
      <3>2. CASE CountCommit(t)
        <4>1. \/ moves' = moves \ BillRows(op[t].pay)
              \/ \E s : moves' = moves \cup (IF s = 0 THEN {} ELSE BillsOf({op[t].pay}, s))
          BY <3>2 DEF CountCommit, Insert
        <4> QED  BY <4>1 DEF BillRows, BillsOf, Bill
      <3>3. CASE CancelCommit(t)
        BY <3>3 DEF CancelCommit, BillRows
      <3> QED  BY <1>4, <3>1, <3>2, <3>3
    <2>2. Numbered' = Numbered
      BY <2>1 DEF Numbered
    <2>3. regOf' = regOf
      BY <1>4 DEF PayCommit, CountCommit, CancelCommit, shiftVars
    <2> QED  BY <1>0, <2>2, <2>3, ReversalKept
  <1>5. CASE CashCommit(t)
    <2> DEFINE rows == {Row(op[t].kind, 0, op[t].shift)}
    <2>1. moves' = moves \cup rows /\ regOf' = regOf /\ Done(t)
      BY <1>5 DEF CashCommit, Insert, shiftVars
    <2>2. op[t].kind \in {"entrada", "salida"}
      BY <1>0, <1>5 DEF CashCommit, Doing, HandlerTyped
    <2>3. \A m \in rows : m.kind \notin {"gasto", "reverso"} /\ m.id = Cardinality(Numbered)
      BY <2>2 DEF Row, Numbered
    <2>4. IsFiniteSet(rows) /\ rows # {} /\ \A m, n \in rows : m = n
      BY FS_Singleton
    <2> HIDE DEF rows
    <2> QED  BY <2>1, <2>3, <2>4, ReversalAdd
  <1>6. CASE TransferCommit(t)
    <2> DEFINE rows == {Row("hacia", 0, op[t].from), Row("desde", 0, op[t].to)}
    <2>1. moves' = moves \cup rows /\ regOf' = regOf /\ Done(t)
      BY <1>6 DEF TransferCommit, Insert, shiftVars
    <2>2. \A m \in rows : m.kind \notin {"gasto", "reverso"} /\ m.id = Cardinality(Numbered)
      BY DEF Row, Numbered
    <2>3. \A m, n \in rows : m.kind = n.kind => m = n
      BY DEF Row
    <2>4. IsFiniteSet(rows) /\ rows # {}
      BY PairFinite
    <2> HIDE DEF rows
    <2> QED  BY <2>1, <2>2, <2>3, <2>4, ReversalAdd
  <1>7. CASE CorrectCommit(t)
    <2> DEFINE m == op[t].row
               s == shiftOf[regOf[m.shift]]
               rows == {Row("reverso", m.id, s), Row("salida", 0, s)}
    <2>1. moves' = moves \cup rows /\ regOf' = regOf /\ Done(t) /\ s # 0 /\ Reversals(m) = {}
      BY <1>7 DEF CorrectCommit, shiftVars
    <2>2. m.kind = "salida" /\ m.shift \in Opened /\ m \in moves
      BY <1>0, <1>7 DEF CorrectCommit, Doing, HandlerTyped, ReversalInv
    <2>3. regOf[s] = regOf[m.shift]
      <3>1. regOf[m.shift] \in Registers
        <4> HIDE DEF m
        <4> QED  BY <2>2 DEF TypeInv, TypeOK, Opened
      <3> QED  BY <2>1, <3>1 DEF LockInv, ShiftsOwn
    <2>4. \A n \in rows : n.kind # "gasto" /\ n.id = Cardinality(Numbered)
      BY DEF Row, Numbered
    <2>5. \A a, b \in rows : a.kind = b.kind => a = b
      BY DEF Row
    <2>6. \A b \in rows : b.kind = "reverso" => b.of = m.id /\ b.shift = s
      BY DEF Row
    <2>7. IsFiniteSet(rows) /\ rows # {}
      BY PairFinite
    <2> HIDE DEF rows, s, m
    <2> QED  BY <2>1, <2>2, <2>3, <2>4, <2>5, <2>6, <2>7, ReversalAdd
  <1> QED  BY <1>1, <1>2, <1>3, <1>4, <1>5, <1>6, <1>7 DEF WriteStep

\* A cash-out is reversed at most once, and on the register it left.
THEOREM ReversedAtMostOnce == Spec => []ReversedOnce
  <1>1. Init => ReversalInv
    BY DEF Init, ReversalInv, Numbered, Doing, Idle
  <1>2. TypeInv /\ LockInv /\ ReversalInv /\ [Next]_vars => ReversalInv'
    <2> SUFFICES ASSUME TypeInv, LockInv, ReversalInv, [Next]_vars PROVE ReversalInv'
      OBVIOUS
    <2>1. ASSUME NEW t \in Tablets, ReadStep(t) PROVE ReversalInv'
      <3>1. UNCHANGED <<moves, regOf>>
        BY <2>1, ReadsChangeNothing DEF shiftVars
      <3>2. \A u \in Tablets : op'[u] = op[u] \/ op'[u].at # "correct"
                                \/ (op'[u].row \in moves /\ op'[u].row.kind = "salida")
        <4>1. PICK o : /\ Go(t, o)
                       /\ o.at # "correct" \/ (o.row \in moves /\ o.row.kind = "salida")
          BY <2>1, ReadsLeave DEF Timed
        <4>2. \A u \in Tablets : op'[u] = IF u = t THEN o ELSE op[u]
          BY <4>1 DEF Go, TypeInv, FlightTyped
        <4> QED  BY <4>1, <4>2
      <3>3. Numbered' = Numbered
        BY <3>1 DEF Numbered
      <3> QED  BY <3>1, <3>2, <3>3, ReversalKept
    <2>2. CASE Next
      BY <2>1, <2>2, StepsSplit, ReversalStep
    <2>3. CASE UNCHANGED vars
      BY <2>3 DEF vars, shiftVars, ReversalInv, Numbered, Reversals, Doing
    <2> QED  BY <2>2, <2>3
  <1>3. TypeInv /\ ReversalInv => ReversedOnce
    <2> SUFFICES ASSUME TypeInv, ReversalInv, NEW m \in moves, m.kind = "salida"
                 PROVE  Cardinality(Reversals(m)) <= 1
      BY DEF ReversedOnce, ReversalInv
    <2>1. CASE Reversals(m) = {}
      BY <2>1, FS_EmptySet
    <2>2. CASE Reversals(m) # {}
      <3>1. PICK b \in Reversals(m) : Reversals(m) = {b}
        BY <2>2 DEF ReversalInv
      <3> QED  BY <3>1, FS_Singleton
    <2> QED  BY <2>1, <2>2
  <1> QED
    BY <1>1, <1>2, <1>3, TypeInitially, TypeStep, LocksInitially, LocksStep, PTL DEF Spec
=============================================================================
