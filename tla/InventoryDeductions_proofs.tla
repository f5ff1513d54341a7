--------------------- MODULE InventoryDeductions_proofs ---------------------
(***************************************************************************)
(* That orders are deducted as ordered, for any number of orders, scans    *)
(* and reconciliations at the same time                                    *)
(***************************************************************************)
EXTENDS Inventory_proofs

-----------------------------------------------------------------------------
(* The inductive invariant: over the ones that were scanned as another SKU, *)
(* and count the deductions made of each order                             *)

\* A count is one that somebody asked for, and an order is scanned as its own SKU or as one it
\* may be scanned as.
AskedFor(w) ==
  /\ w.kind = "adjust" =>
       \E r \in Requests : r.op = "adjust" /\ \E i \in DOMAIN r.lines : w = Counted(r.lines[i].sku, r.lines[i].qty)
  /\ w.kind = "scan" => w.sku \in Ledger!ScannedAs(w.order)
  /\ w.kind = "out" => w.sku \in Ledger!ScannedAs(w.refs)

\* A deduction that is due has a number that is free or that somebody else took.
OutWork(w, over, count) ==
  \E o \in Orders, j \in Nat \ {0} :
    /\ w = Adding(w.sku, "out", -OrderQty[o], <<o, j>>, o)
    /\ j <= count[o] + 1
    /\ o \notin over => w.sku = OrderSku[o]

\* Only the first thing a call has to do is a deduction, or a scan that was meant to repeat one.
WorkOK(t, over, count) ==
  \A i \in 1 .. Len(t) :
    /\ t[i].kind = "scan" /\ t[i].order \notin over => t[i].sku = OrderSku[t[i].order]
    /\ i > 1 => t[i].kind # "out" /\ (t[i].kind = "scan" => ~t[i].rework)
    /\ t[i].kind = "out" => OutWork(t[i], over, count)
    /\ AskedFor(t[i])

\* A call that may still make an order's second deduction, or a later one.
Reworks(t, o) ==
  /\ t # <<>>
  /\ \/ t[1].kind = "scan" /\ t[1].rework /\ t[1].order = o
     \/ t[1].kind = "out" /\ t[1].refs = o /\ t[1].key[2] >= 2

\* What a transaction found is what its snapshot has of the book.
SnapshotOK(k, b) ==
  k.pc = "commit" =>
    LET m == k.todo[1] IN
    /\ k.seen.rows \subseteq 1 .. Len(b)
    /\ \A i \in k.seen.rows : b[i].sku = m.sku
    /\ k.seen.found = IF m.key = None THEN {}
                      ELSE {i \in k.seen.rows : b[i].kind = m.kind /\ b[i].key = m.key}
    /\ k.seen.qty = IF m.set THEN m.qty - k.seen.stock ELSE m.qty

OutRowOK(b, over) ==
  b.kind = "out" =>
    /\ b.refs \in Orders
    /\ \E j \in Nat \ {0} : b.key = <<b.refs, j>>
    /\ b.refs \notin over => b.sku = OrderSku[b.refs] /\ b.qty = -OrderQty[b.refs]

Count == [o \in Orders |-> Cardinality(OutRows(o))]
Pending(o) == {c \in Calls : Reworks(calls[c].todo, o)}

CallsInStep == \A c \in Calls : WorkOK(calls[c].todo, overridden, Count) /\ SnapshotOK(calls[c], book)
RowsInStep == \A i \in 1 .. Len(book) : OutRowOK(book[i], overridden)
Numbered(o) == {book[i].key[2] : i \in OutRows(o)} = 1 .. Count[o]
WithinBudget(o) ==
  (IF Count[o] = 0 THEN 1 ELSE Count[o]) + Cardinality(Pending(o)) <= 1 + reworks[o]

Deductions ==
  /\ CallsInStep /\ RowsInStep
  /\ \A o \in Orders \ overridden : Numbered(o) /\ WithinBudget(o)

-----------------------------------------------------------------------------
(* What a step does to the calls and to the book *)

Step(c) ==
  \/ Request(c) \/ CloseWrite(c) \/ CloseMark(c)
  \/ CountDeductions(c) \/ Read(c) \/ CommitNothing(c) \/ Commit(c)
  \/ Again(c) \/ DuplicateKey(c) \/ Answer(c) \/ Die(c)

\* A step is one call's.
LEMMA Frame ==
  ASSUME Typed, NEW c \in Calls, Step(c), NEW d \in Calls, d # c
  PROVE  calls'[d] = calls[d]
<1>1. calls \in [Calls -> CallRecords]
  BY DEF Typed
<1>2. CASE \E op, call : Begin(c, op, call)
  BY <1>1, <1>2 DEF Begin
<1>3. CASE Request(c)
  <2>1. \E op, call : Begin(c, op, call)
    BY <1>3, Zenon DEF Request, CreateReceiptIn, Adjust, ScanOut, ReconcileApply, CloseOut
  <2> QED
    BY <1>2, <2>1
<1>4. CASE CloseWrite(c) \/ CloseMark(c) \/ CommitNothing(c) \/ Commit(c) \/ Again(c) \/ DuplicateKey(c)
  BY <1>1, <1>4 DEF CloseWrite, CloseMark, CommitNothing, Commit, Again, DuplicateKey
<1>5. CASE CountDeductions(c)
  BY <1>1, <1>5 DEF CountDeductions
<1>6. CASE Read(c)
  BY <1>1, <1>6 DEF Read
<1>7. CASE Answer(c) \/ Die(c)
  BY <1>1, <1>7 DEF Answer, Die
<1> QED
  BY <1>3, <1>4, <1>5, <1>6, <1>7 DEF Step

\* The book only grows, by a commit and by one row, and of the rows there are it keeps all but
\* the receipt.
LEMMA BookStep ==
  ASSUME Typed, NEW c \in Calls, Step(c)
  PROVE  /\ Len(book) \in Nat /\ DOMAIN book = 1 .. Len(book) /\ DOMAIN book' = 1 .. Len(book')
         /\ \A i \in 1 .. Len(book) :
              /\ book'[i].sku = book[i].sku /\ book'[i].kind = book[i].kind /\ book'[i].qty = book[i].qty
              /\ book'[i].key = book[i].key /\ book'[i].refs = book[i].refs
         /\ ~Commit(c) => Len(book') = Len(book)
         /\ Commit(c) => /\ Len(book') = Len(book) + 1
                         /\ book'[Len(book) + 1] = Row(Movement(c), calls[c].seen.stock, calls[c].seen.qty)
<1>1. Len(book) \in Nat /\ DOMAIN book = 1 .. Len(book)
  BY LenProperties DEF Typed
<1>2. CASE Commit(c)
  <2>1. /\ book' \in Seq(BookRows) /\ Len(book') = Len(book) + 1
        /\ \A i \in 1 .. Len(book) : book'[i] = book[i]
        /\ book'[Len(book) + 1] = Row(Movement(c), calls[c].seen.stock, calls[c].seen.qty)
    BY <1>2, Booked
  <2>2. DOMAIN book' = 1 .. Len(book')
    BY <2>1, LenProperties
  <2> QED
    BY <1>1, <1>2, <2>1, <2>2
<1>3. CASE CloseMark(c)
  <2>1. /\ book' \in Seq(BookRows) /\ Len(book') = Len(book)
        /\ \A i \in 1 .. Len(book) :
              /\ book'[i].sku = book[i].sku /\ book'[i].kind = book[i].kind /\ book'[i].qty = book[i].qty
              /\ book'[i].key = book[i].key /\ book'[i].refs = book[i].refs
    BY <1>3, Marked
  <2>2. DOMAIN book' = 1 .. Len(book')
    BY <2>1, LenProperties
  <2>3. ~Commit(c)
    BY <1>3 DEF CloseMark, Commit
  <2> QED
    BY <1>1, <2>1, <2>2, <2>3
<1>4. CASE UNCHANGED book /\ ~Commit(c)
  BY <1>1, <1>4
<1> QED
  <2>1. ASSUME ~Commit(c), ~CloseMark(c) PROVE UNCHANGED book
    BY <2>1, Zenon DEF Step, Request, CreateReceiptIn, Adjust, ScanOut, ReconcileApply, CloseOut, CloseWrite,
      CountDeductions, Read, CommitNothing, Again, DuplicateKey, Answer, Die
  <2> QED
    BY <1>2, <1>3, <1>4, <2>1

\* The deductions of an order are the ones there were and, of a commit that deducts it, its row.
LEMMA OutRowsStep ==
  ASSUME Typed, NEW c \in Calls, Step(c), NEW o
  PROVE  OutRows(o)' = OutRows(o) \cup
           (IF Commit(c) /\ Movement(c).kind = "out" /\ Movement(c).refs = o THEN {Len(book) + 1} ELSE {})
<1> DEFINE n == Len(book)
           new == IF Commit(c) /\ Movement(c).kind = "out" /\ Movement(c).refs = o THEN {n + 1} ELSE {}
<1>1. /\ n \in Nat /\ DOMAIN book = 1 .. n /\ DOMAIN book' = 1 .. Len(book')
      /\ \A i \in 1 .. n : book'[i].kind = book[i].kind /\ book'[i].refs = book[i].refs
      /\ ~Commit(c) => Len(book') = n
      /\ Commit(c) => Len(book') = n + 1 /\ book'[n + 1] = Row(Movement(c), calls[c].seen.stock, calls[c].seen.qty)
  BY BookStep
<1>2. OutRows(o) = {i \in 1 .. n : book[i].kind = "out" /\ book[i].refs = o}
  BY <1>1 DEF OutRows
<1>3. OutRows(o)' = {i \in 1 .. Len(book') : book'[i].kind = "out" /\ book'[i].refs = o}
  BY <1>1 DEF OutRows
<1> HIDE DEF n
<1>4. CASE ~Commit(c)
  <2>1. new = {}
    BY <1>4
  <2> QED
    BY <1>1, <1>2, <1>3, <1>4, <2>1
<1>5. CASE Commit(c)
  <2>1. book'[n + 1].kind = Movement(c).kind /\ book'[n + 1].refs = Movement(c).refs
    BY <1>1, <1>5 DEF Row
  <2>2. OutRows(o)' = {i \in 1 .. n + 1 : book'[i].kind = "out" /\ book'[i].refs = o}
    BY <1>1, <1>3, <1>5
  <2>3. n + 1 \notin 1 .. n /\ \A i : i \in 1 .. n + 1 <=> i \in 1 .. n \/ i = n + 1
    <3>1. n \in Nat
      BY <1>1
    <3> QED
      BY <3>1
  <2>4. ASSUME NEW i PROVE i \in OutRows(o)' <=> i \in OutRows(o) \cup new
    <3>1. CASE i \in 1 .. n
      <4>1. i \notin new
        BY <2>3, <3>1
      <4> QED
        BY <1>1, <1>2, <2>2, <2>3, <3>1, <4>1
    <3>2. CASE i = n + 1
      BY <1>2, <1>5, <2>1, <2>2, <2>3, <3>2
    <3>3. CASE i \notin 1 .. n /\ i # n + 1
      BY <1>2, <2>2, <2>3, <3>3
    <3> QED
      BY <3>1, <3>2, <3>3
  <2> QED
    BY <2>4 DEF n
<1> QED
  BY <1>4, <1>5 DEF n

\* So their number grows by one, with such a commit.
LEMMA CountStep ==
  ASSUME Typed, NEW c \in Calls, Step(c), NEW o \in Orders
  PROVE  /\ Count[o] \in Nat
         /\ Count'[o] = IF Commit(c) /\ Movement(c).kind = "out" /\ Movement(c).refs = o THEN Count[o] + 1
                        ELSE Count[o]
<1>1. OutRows(o) \subseteq 1 .. Len(book) /\ Cardinality(OutRows(o)) \in Nat /\ Len(book) \in Nat
  BY RowsCounted, BookStep
<1>2. IsFiniteSet(OutRows(o))
  <2>1. IsFiniteSet(1 .. Len(book))
    BY <1>1, FS_Interval
  <2> QED
    BY <1>1, <2>1, FS_Subset
<1>3. Len(book) + 1 \notin OutRows(o)
  BY <1>1
<1>4. Cardinality(OutRows(o) \cup {Len(book) + 1}) = Cardinality(OutRows(o)) + 1
  BY <1>2, <1>3, FS_AddElement
<1>5. Count[o] = Cardinality(OutRows(o)) /\ Count'[o] = Cardinality(OutRows(o)')
  BY DEF Count
<1>6. OutRows(o)' = OutRows(o) \cup
        (IF Commit(c) /\ Movement(c).kind = "out" /\ Movement(c).refs = o THEN {Len(book) + 1} ELSE {})
  BY OutRowsStep
<1>7. CASE Commit(c) /\ Movement(c).kind = "out" /\ Movement(c).refs = o
  <2>1. OutRows(o)' = OutRows(o) \cup {Len(book) + 1}
    BY <1>6, <1>7
  <2> QED
    BY <1>1, <1>4, <1>5, <1>7, <2>1
<1>8. CASE ~(Commit(c) /\ Movement(c).kind = "out" /\ Movement(c).refs = o)
  <2>1. OutRows(o)' = OutRows(o)
    BY <1>6, <1>8
  <2> QED
    BY <1>1, <1>5, <1>8, <2>1
<1> QED
  BY <1>7, <1>8

-----------------------------------------------------------------------------
(* What a step does to the work of its call *)

\* Work that deducts nothing yet, and that no order is scanned twice by.
PlainWork(t) ==
  \A i \in 1 .. Len(t) :
    /\ t[i].kind # "out" /\ (t[i].kind = "scan" => ~t[i].rework /\ t[i].sku = OrderSku[t[i].order])
    /\ AskedFor(t[i])

TodoSame(c) == calls'[c].todo = calls[c].todo
TodoNext(c) == calls[c].todo # <<>> /\ calls'[c].todo = Tail(calls[c].todo)
TodoPlain(c) == PlainWork(calls'[c].todo)
TodoScan(c) ==
  \E o \in Orders, s \in Skus, r \in BOOLEAN :
    ScanOut(c, o, s, r) /\ calls'[c].todo = <<Scan(o, s, r)>> /\ s \in Ledger!ScannedAs(o)
TodoCounted(c) ==
  LET m == Movement(c) IN
  /\ calls[c].todo # <<>> /\ m \in Scans /\ (m.rework \/ Count[m.order] = 0)
  /\ calls'[c].todo = [calls[c].todo EXCEPT ![1] =
       Adding(m.sku, "out", -OrderQty[m.order], <<m.order, Count[m.order] + 1>>, m.order)]

LEMMA BeginTodo ==
  ASSUME Typed, NEW c \in Calls, NEW op, NEW call, NEW t, Begin(c, op, call), call \in CallRecords,
         call.todo = t
  PROVE  calls'[c].todo = t
<1>1. calls'[c] = [call EXCEPT !.op = op, !.id = begun + 1]
  BY DEF Begin, Typed
<1> QED
  BY <1>1 DEF CallRecords

LEMMA IdleTodo == Idle.todo = <<>> /\ PlainWork(<<>>)
<1>1. Idle.todo = <<>>
  BY DEF Idle
<1>2. Len(<<>>) = 0
  BY EmptySeq
<1> QED
  BY <1>1, <1>2 DEF PlainWork

\* A record that is idle but for some fields.
LEMMA IdleExcept ==
  ASSUME NEW t \in Seq(Work), NEW r \in Nat, NEW o \in Orders \cup {None}, NEW open \in SUBSET Nat
  PROVE  /\ [Idle EXCEPT !.pc = "next", !.receipt = r, !.todo = t] \in CallRecords
         /\ [Idle EXCEPT !.pc = "next", !.receipt = r, !.todo = t].todo = t
         /\ [Idle EXCEPT !.pc = "next", !.todo = t] \in CallRecords
         /\ [Idle EXCEPT !.pc = "next", !.todo = t].todo = t
         /\ [Idle EXCEPT !.pc = "next", !.order = o, !.todo = t] \in CallRecords
         /\ [Idle EXCEPT !.pc = "next", !.order = o, !.todo = t].todo = t
         /\ [Idle EXCEPT !.pc = "close", !.rows = open] \in CallRecords
         /\ [Idle EXCEPT !.pc = "close", !.rows = open].todo = Idle.todo
<1>1. ASSUME NEW i \in CallRecords
      PROVE  /\ [i EXCEPT !.pc = "next", !.receipt = r, !.todo = t] \in CallRecords
             /\ [i EXCEPT !.pc = "next", !.receipt = r, !.todo = t].todo = t
             /\ [i EXCEPT !.pc = "next", !.todo = t] \in CallRecords
             /\ [i EXCEPT !.pc = "next", !.todo = t].todo = t
             /\ [i EXCEPT !.pc = "next", !.order = o, !.todo = t] \in CallRecords
             /\ [i EXCEPT !.pc = "next", !.order = o, !.todo = t].todo = t
             /\ [i EXCEPT !.pc = "close", !.rows = open] \in CallRecords
             /\ [i EXCEPT !.pc = "close", !.rows = open].todo = i.todo
  BY DEF CallRecords, PCs
<1> QED
  BY <1>1, IdleType, Zenon

\* The lists that requests begin with.
LEMMA InTodo ==
  ASSUME Typed, NEW c \in Calls, NEW lines \in Seq(Lines), CreateReceiptIn(c, lines)
  PROVE  TodoPlain(c)
<1> DEFINE r == Len(receipts) + 1
           t == [i \in DOMAIN lines |-> Adding(lines[i].sku, "in", lines[i].qty, <<r, i>>, r)]
           call == [Idle EXCEPT !.pc = "next", !.receipt = r, !.todo = t]
<1>1. r \in Nat /\ Len(lines) \in Nat /\ DOMAIN lines = 1 .. Len(lines)
      /\ \A i \in 1 .. Len(lines) : lines[i] \in Lines
  BY LenProperties, AppendListed DEF Typed
<1>2. Begin(c, "in", call)
  BY DEF CreateReceiptIn
<1>3. ASSUME NEW i \in 1 .. Len(lines)
      PROVE  /\ Adding(lines[i].sku, "in", lines[i].qty, <<r, i>>, r) \in Movements
             /\ Adding(lines[i].sku, "in", lines[i].qty, <<r, i>>, r).kind = "in"
  <2> HIDE DEF r
  <2> QED
    BY <1>1 DEF Lines, Adding, Movements, Keys, Refs, Kinds
<1> HIDE DEF r
<1>4. t \in [1 .. Len(lines) -> Work] /\ \A i \in 1 .. Len(lines) : t[i].kind = "in"
  BY <1>1, <1>3 DEF Work
<1> HIDE DEF t
<1>5. t \in Seq(Work) /\ Len(t) = Len(lines)
  BY <1>1, <1>4, SeqOfFunction
<1>6. PlainWork(t)
  BY <1>4, <1>5 DEF PlainWork, AskedFor
<1>7. call \in CallRecords /\ call.todo = t
  BY <1>1, <1>5, IdleExcept
<1> QED
  BY <1>2, <1>6, <1>7, BeginTodo DEF TodoPlain

LEMMA AdjustTodo ==
  ASSUME Typed, NEW c \in Calls, NEW q \in Requests, q.op = "adjust", Adjust(c, q.lines)
  PROVE  TodoPlain(c)
<1> DEFINE counts == q.lines
           t == [i \in DOMAIN counts |-> Counted(counts[i].sku, counts[i].qty)]
           call == [Idle EXCEPT !.pc = "next", !.todo = t]
<1>1. Len(counts) \in Nat /\ DOMAIN counts = 1 .. Len(counts) /\ \A i \in 1 .. Len(counts) : counts[i] \in Lines
  BY LenProperties, RequestsAssumption
<1>2. Begin(c, "adjust", call)
  BY DEF Adjust
<1>3. ASSUME NEW i \in 1 .. Len(counts)
      PROVE  LET w == Counted(counts[i].sku, counts[i].qty)
             IN  w \in Movements /\ w.kind = "adjust" /\ AskedFor(w)
  <2> DEFINE w == Counted(counts[i].sku, counts[i].qty)
  <2>1. w \in Movements /\ w.kind = "adjust"
    BY <1>1 DEF Lines, Counted, Movements, Keys, Refs, Kinds
  <2>2. \E r \in Requests : r.op = "adjust" /\ \E h \in DOMAIN r.lines : w = Counted(r.lines[h].sku, r.lines[h].qty)
    BY <1>1
  <2> HIDE DEF w
  <2>3. AskedFor(w)
    BY <2>1, <2>2 DEF AskedFor
  <2> QED
    BY <2>1, <2>3 DEF w
<1> HIDE DEF counts
<1>4. t \in [1 .. Len(counts) -> Work] /\ \A i \in 1 .. Len(counts) : t[i].kind = "adjust" /\ AskedFor(t[i])
  BY <1>1, <1>3 DEF Work
<1> HIDE DEF t
<1>5. t \in Seq(Work) /\ Len(t) = Len(counts)
  BY <1>1, <1>4, SeqOfFunction
<1>6. PlainWork(t)
  BY <1>4, <1>5 DEF PlainWork
<1>7. call \in CallRecords /\ call.todo = t
  BY <1>5, IdleExcept
<1> QED
  BY <1>2, <1>6, <1>7, BeginTodo DEF TodoPlain

LEMMA ScanTodo ==
  ASSUME Typed, NEW c \in Calls, NEW o \in Orders, NEW s \in Skus, NEW r \in BOOLEAN, ScanOut(c, o, s, r),
         s \in Ledger!ScannedAs(o)
  PROVE  TodoScan(c)
<1> DEFINE t == <<Scan(o, s, r)>>
           call == [Idle EXCEPT !.pc = "next", !.order = o, !.todo = t]
<1>1. t \in Seq(Work)
  BY ScanType
<1>2. Begin(c, "scan", call)
  BY DEF ScanOut
<1> HIDE DEF t
<1>3. call \in CallRecords /\ call.todo = t
  BY <1>1, IdleExcept
<1>4. calls'[c].todo = t
  BY <1>2, <1>3, BeginTodo
<1> QED
  BY <1>4 DEF TodoScan, t

LEMMA ReconcileTodo ==
  ASSUME Typed, NEW c \in Calls, ReconcileApply(c)
  PROVE  TodoPlain(c)
<1> DEFINE D == {o \in Orders : OutRows(o) = {}}
           due == SetToSeq(D)
           t == [i \in DOMAIN due |-> Scan(due[i], OrderSku[due[i]], FALSE)]
           call == [Idle EXCEPT !.pc = "next", !.todo = t]
<1>1. due \in Seq(Orders)
  <2>1. IsFiniteSet(D)
    BY FS_Subset, InventoryAssumption
  <2>2. due \in Seq(D)
    BY <2>1, SetToSeqType
  <2> QED
    BY <2>2, SeqMonotonic
<1>2. Begin(c, "reconcile", call)
  BY DEF ReconcileApply
<1> HIDE DEF D, due
<1>3. Len(due) \in Nat /\ DOMAIN due = 1 .. Len(due) /\ \A i \in 1 .. Len(due) : due[i] \in Orders
  BY <1>1, LenProperties
<1>4. ASSUME NEW i \in 1 .. Len(due)
      PROVE  LET w == Scan(due[i], OrderSku[due[i]], FALSE)
             IN  w \in Work /\ w.kind = "scan" /\ ~w.rework /\ w.sku = OrderSku[w.order] /\ AskedFor(w)
  <2>1. due[i] \in Orders /\ OrderSku[due[i]] \in Skus
    BY <1>3, InventoryAssumption
  <2> DEFINE w == Scan(due[i], OrderSku[due[i]], FALSE)
  <2>2. w \in Work /\ w.kind = "scan" /\ ~w.rework /\ w.sku = OrderSku[w.order]
    BY <2>1 DEF Scan, Scans, Work
  <2> HIDE DEF w
  <2>3. AskedFor(w)
    BY <2>2 DEF AskedFor, Ledger!ScannedAs
  <2> QED
    BY <2>2, <2>3 DEF w
<1>5. t \in [1 .. Len(due) -> Work]
      /\ \A i \in 1 .. Len(due) :
           t[i].kind = "scan" /\ ~t[i].rework /\ t[i].sku = OrderSku[t[i].order] /\ AskedFor(t[i])
  BY <1>3, <1>4
<1> HIDE DEF t
<1>6. t \in Seq(Work) /\ Len(t) = Len(due)
  BY <1>3, <1>5, SeqOfFunction
<1>7. PlainWork(t)
  BY <1>5, <1>6 DEF PlainWork
<1>8. call \in CallRecords /\ call.todo = t
  BY <1>6, IdleExcept
<1> QED
  BY <1>2, <1>7, <1>8, BeginTodo DEF TodoPlain

LEMMA CountTodo ==
  ASSUME Typed, NEW c \in Calls, CountDeductions(c)
  PROVE  TodoNext(c) \/ TodoCounted(c)
<1> DEFINE m == Movement(c)
           before == OutRows(m.order)
<1>1. calls \in [Calls -> CallRecords] /\ calls[c] \in CallRecords
  BY DEF Typed
<1>2. calls[c].todo # <<>> /\ m.kind = "scan"
  BY DEF CountDeductions
<1>3. m \in Scans /\ calls[c].todo \in Seq(Work)
  <2>1. m \in Work
    BY <1>2, TodoType, AppendListed DEF Typed, Movement
  <2>2. m \notin Movements
    BY <1>2 DEF Movements, Kinds
  <2>3. calls[c].todo \in Seq(Work)
    BY <1>1 DEF CallRecords
  <2> QED
    BY <2>1, <2>2, <2>3 DEF Work
<1>4. m.order \in Orders /\ Count[m.order] = Cardinality(before)
  BY <1>3 DEF Scans, Count
<1>5. CASE \E i \in before : calls' = [calls EXCEPT ![c] = Moved(c, i, TRUE)]
  <2>1. PICK i \in before : calls'[c] = Moved(c, i, TRUE)
    BY <1>1, <1>5
  <2>2. Moved(c, i, TRUE).todo = Tail(calls[c].todo)
    BY <1>1 DEF Moved, CallRecords
  <2> QED
    BY <1>2, <2>1, <2>2 DEF TodoNext
<1>6. CASE /\ m.rework \/ before = {}
           /\ calls' = [calls EXCEPT ![c].todo[1] =
                 Adding(m.sku, "out", -OrderQty[m.order], <<m.order, Cardinality(before) + 1>>, m.order)]
  <2> DEFINE a == Adding(m.sku, "out", -OrderQty[m.order], <<m.order, Count[m.order] + 1>>, m.order)
  <2>1. calls' = [calls EXCEPT ![c].todo[1] = a]
    BY <1>4, <1>6
  <2> HIDE DEF a
  <2>2. calls'[c].todo = [calls[c].todo EXCEPT ![1] = a]
    BY <1>1, <2>1 DEF CallRecords
  <2>3. m.rework \/ Count[m.order] = 0
    <3>1. before = {} => Cardinality(before) = 0
      BY FS_EmptySet
    <3> QED
      BY <1>4, <1>6, <3>1
  <2> QED
    BY <1>2, <1>3, <2>2, <2>3 DEF TodoCounted, a
<1> QED
  BY <1>5, <1>6 DEF CountDeductions

\* What is left to do after a step.
LEMMA TodoStep ==
  ASSUME Typed, NEW c \in Calls, Step(c)
  PROVE  /\ TodoSame(c) \/ TodoNext(c) \/ TodoPlain(c) \/ TodoScan(c) \/ TodoCounted(c)
         /\ Commit(c) => TodoNext(c)
<1>1. calls \in [Calls -> CallRecords] /\ calls[c] \in CallRecords
  BY DEF Typed
<1>2. \A i, d : Moved(c, i, d).todo = Tail(calls[c].todo)
  BY <1>1 DEF Moved, CallRecords
<1>3. ASSUME \E i, d : calls' = [calls EXCEPT ![c] = Moved(c, i, d)], calls[c].todo # <<>>
      PROVE  TodoNext(c)
  <2>1. PICK i, d : calls'[c] = Moved(c, i, d)
    BY <1>1, <1>3
  <2> QED
    BY <1>2, <1>3, <2>1 DEF TodoNext
<1>4. ASSUME calls' = [calls EXCEPT ![c] = Idle]
      PROVE  TodoPlain(c)
  <2>1. calls'[c] = Idle
    BY <1>1, <1>4
  <2> QED
    BY <2>1, IdleTodo DEF TodoPlain
<1>5. CASE Commit(c)
  <2>1. calls[c].todo # <<>>
    BY <1>5, CommitFacts DEF Commit
  <2>2. \E i, d : calls' = [calls EXCEPT ![c] = Moved(c, i, d)]
    BY <1>5, Zenon DEF Commit
  <2> QED
    BY <1>3, <2>1, <2>2
<1>6. CASE CommitNothing(c)
  <2>1. calls[c].todo # <<>>
    BY <1>6, CommitFacts DEF CommitNothing
  <2>2. \E i, d : calls' = [calls EXCEPT ![c] = Moved(c, i, d)]
    BY <1>6, Zenon DEF CommitNothing
  <2>3. ~Commit(c)
    BY <1>6 DEF Commit, CommitNothing
  <2> QED
    BY <1>3, <2>1, <2>2, <2>3
<1>7. CASE Request(c)
  <2>1. Free(c)
    BY <1>7, Zenon DEF Request, CreateReceiptIn, Adjust, ScanOut, ReconcileApply, CloseOut
  <2>2. ~Commit(c)
    BY <2>1 DEF Free, Commit
  <2>3. CASE \E r \in Requests : r.op = "in" /\ CreateReceiptIn(c, r.lines)
    BY <2>3, <2>2, InTodo, RequestsAssumption
  <2>4. CASE \E r \in Requests : r.op = "adjust" /\ Adjust(c, r.lines)
    BY <2>4, <2>2, AdjustTodo
  <2>5. CASE \E r \in Requests : r.op = "scan" /\ ScanOut(c, r.order, r.sku, r.rework)
    <3>1. PICK r \in Requests : r.op = "scan" /\ ScanOut(c, r.order, r.sku, r.rework)
      BY <2>5
    <3>2. r.order \in Orders /\ r.sku \in Skus /\ r.rework \in BOOLEAN
      BY <3>1, RequestsAssumption
    <3>3. r.sku \in Ledger!ScannedAs(r.order)
      BY <3>1 DEF Ledger!ScannedAs
    <3> QED
      BY <2>2, <3>1, <3>2, <3>3, ScanTodo
  <2>6. CASE ReconcileApply(c)
    BY <2>6, <2>2, ReconcileTodo
  <2>7. CASE CloseOut(c)
    <3> DEFINE open == {i \in DOMAIN book : book[i].kind = "out" /\ book[i].receipt = 0}
               call == [Idle EXCEPT !.pc = "close", !.rows = open]
    <3>1. Begin(c, "close", call)
      BY <2>7 DEF CloseOut
    <3>2. open \in SUBSET Nat
      BY LenProperties DEF Typed
    <3> HIDE DEF open
    <3>3. call \in CallRecords /\ call.todo = Idle.todo
      <4>1. <<>> \in Seq(Work)
        BY EmptySeq
      <4> QED
        BY <3>2, <4>1, IdleExcept
    <3>4. calls'[c].todo = <<>>
      BY <3>1, <3>3, BeginTodo, IdleTodo
    <3> QED
      BY <2>2, <3>4, IdleTodo DEF TodoPlain
  <2> QED
    BY <1>7, <2>3, <2>4, <2>5, <2>6, <2>7 DEF Request
<1>8. CASE CountDeductions(c)
  <2>1. ~Commit(c)
    BY <1>8 DEF CountDeductions, Commit
  <2> QED
    BY <1>8, <2>1, CountTodo
<1>9. CASE CloseWrite(c) \/ Again(c)
  <2>1. calls'[c].todo = calls[c].todo /\ calls'[c].pc \in {"mark", "again"}
    <3>1. CASE CloseWrite(c)
      BY <1>1, <3>1 DEF CloseWrite, CallRecords
    <3>2. CASE Again(c)
      BY <1>1, <3>2 DEF Again, CallRecords
    <3> QED
      BY <1>9, <3>1, <3>2
  <2>2. ~Commit(c)
    <3>1. calls'[c].pc \in {"mark", "again"}
      BY <2>1
    <3>2. ASSUME Commit(c) PROVE calls'[c].pc = "next"
      <4>1. PICK i, d : calls'[c] = Moved(c, i, d)
        BY <1>1, <3>2 DEF Commit
      <4> QED
        BY <1>1, <4>1 DEF Moved, CallRecords
    <3> QED
      BY <3>1, <3>2
  <2> QED
    BY <2>1, <2>2 DEF TodoSame
<1>10. CASE Read(c)
  <2>1. calls'[c].todo = calls[c].todo
    BY <1>1, <1>10 DEF Read, CallRecords
  <2>2. ~Commit(c)
    BY <1>10 DEF Read, Commit
  <2> QED
    BY <2>1, <2>2 DEF TodoSame
<1>11. CASE DuplicateKey(c) /\ ~Commit(c)
  <2>1. calls[c].todo # <<>>
    BY <1>11, CommitFacts DEF DuplicateKey
  <2>2. CASE \E i \in Keyed(Movement(c)) : calls' = [calls EXCEPT ![c] = Moved(c, i, TRUE)]
    <3>1. \E i, d : calls' = [calls EXCEPT ![c] = Moved(c, i, d)]
      BY <2>2
    <3> QED
      BY <1>3, <1>11, <2>1, <3>1
  <2>3. CASE calls' = [calls EXCEPT ![c] = Idle]
    BY <1>4, <1>11, <2>3
  <2> QED
    BY <1>11, <2>2, <2>3 DEF DuplicateKey
<1>12. CASE (CloseMark(c) \/ Answer(c) \/ Die(c)) /\ ~Commit(c)
  <2>1. calls' = [calls EXCEPT ![c] = Idle]
    BY <1>12 DEF CloseMark, Answer, Die
  <2> QED
    BY <1>4, <1>12, <2>1
<1> QED
  BY <1>5, <1>6, <1>7, <1>8, <1>9, <1>10, <1>11, <1>12 DEF Step

-----------------------------------------------------------------------------
(* Every part of the invariant is kept by a step *)

\* An order once scanned as another SKU stays so, and only a second scan that was meant raises
\* what may be deducted.
LEMMA HistoryStep ==
  ASSUME Typed, NEW c \in Calls, Step(c)
  PROVE  /\ overridden \subseteq overridden'
         /\ Commit(c) => UNCHANGED <<overridden, reworks>>
         /\ \A o \in Orders :
              \/ reworks'[o] = reworks[o] /\ ~\E s \in Skus : ScanOut(c, o, s, TRUE)
              \/ reworks'[o] = reworks[o] + 1
         /\ \A o \in Orders, s \in Skus : ScanOut(c, o, s, TRUE) => reworks'[o] = reworks[o] + 1
<1>1. reworks \in [Orders -> Nat]
  BY DEF Typed
<1>2. ASSUME NEW o \in Orders, NEW s, NEW r \in BOOLEAN, ScanOut(c, o, s, r)
      PROVE  /\ overridden \subseteq overridden' /\ ~Commit(c)
             /\ reworks' = IF r THEN [reworks EXCEPT ![o] = @ + 1] ELSE reworks
  BY <1>2 DEF ScanOut, Free, Commit
<1>3. ASSUME NEW o \in Orders, NEW s, ScanOut(c, o, s, TRUE)
      PROVE  reworks'[o] = reworks[o] + 1
  BY <1>1, <1>2, <1>3
<1>4. CASE \E o \in Orders, s \in Skus, r \in BOOLEAN : ScanOut(c, o, s, r)
  <2>1. PICK o \in Orders, s \in Skus, r \in BOOLEAN : ScanOut(c, o, s, r)
    BY <1>4
  <2>2. /\ overridden \subseteq overridden' /\ ~Commit(c)
        /\ reworks' = IF r THEN [reworks EXCEPT ![o] = @ + 1] ELSE reworks
    BY <1>2, <2>1
  <2>3. \A p \in Orders : reworks'[p] = reworks[p] \/ reworks'[p] = reworks[p] + 1
    BY <1>1, <2>2
  <2>4. \A p \in Orders : (\E t \in Skus : ScanOut(c, p, t, TRUE)) => reworks'[p] = reworks[p] + 1
    BY <1>3
  <2> QED
    BY <1>3, <2>2, <2>3, <2>4
<1>5. CASE UNCHANGED <<reworks, overridden>>
  <2>1. \A o \in Orders, s \in Skus : ~ScanOut(c, o, s, TRUE)
    <3>1. \A o \in Orders : reworks[o] + 1 # reworks[o]
      BY <1>1
    <3>2. \A o \in Orders : reworks'[o] = reworks[o]
      BY <1>5
    <3> QED
      BY <1>3, <3>1, <3>2, Zenon
  <2> QED
    BY <1>5, <2>1
<1>6. CASE \E r \in Requests : r.op = "scan" /\ ScanOut(c, r.order, r.sku, r.rework)
  BY <1>4, <1>6, RequestsAssumption
<1> QED
  BY <1>5, <1>6, Zenon DEF Step, Request, CreateReceiptIn, Adjust, ReconcileApply, CloseOut, CloseWrite,
    CloseMark, CountDeductions, Read, CommitNothing, Commit, Again, DuplicateKey, Answer, Die, history

\* Work that was in order is so when more orders are set aside and more is deducted.
LEMMA WorkMonotone ==
  ASSUME NEW t, NEW over, NEW over2, NEW count, NEW count2, WorkOK(t, over, count), over \subseteq over2,
         \A o \in Orders : count[o] \in Nat /\ count2[o] \in Nat /\ count[o] <= count2[o]
  PROVE  WorkOK(t, over2, count2)
<1>1. ASSUME NEW w, OutWork(w, over, count) PROVE OutWork(w, over2, count2)
  <2>1. PICK o \in Orders, j \in Nat \ {0} :
          /\ w = Adding(w.sku, "out", -OrderQty[o], <<o, j>>, o)
          /\ j <= count[o] + 1
          /\ o \notin over => w.sku = OrderSku[o]
    BY <1>1 DEF OutWork
  <2>2. j <= count2[o] + 1
    BY <2>1
  <2> QED
    BY <2>1, <2>2 DEF OutWork
<1> QED
  BY <1>1 DEF WorkOK

LEMMA PlainIsOK ==
  ASSUME NEW t, NEW over, NEW count, PlainWork(t)
  PROVE  WorkOK(t, over, count)
BY DEF PlainWork, WorkOK

LEMMA CountGrows ==
  ASSUME Typed, NEW c \in Calls, Step(c)
  PROVE  \A o \in Orders : Count[o] \in Nat /\ Count'[o] \in Nat /\ Count[o] <= Count'[o]
BY CountStep

LEMMA WorkStep ==
  ASSUME Typed, NEW c \in Calls, Step(c), CallsInStep, NEW d \in Calls
  PROVE  WorkOK(calls'[d].todo, overridden', Count')
<1> DEFINE t == calls[c].todo
<1>1. /\ overridden \subseteq overridden'
      /\ \A o \in Orders : Count[o] \in Nat /\ Count'[o] \in Nat /\ Count[o] <= Count'[o]
  BY HistoryStep, CountGrows
<1>2. \A e \in Calls : WorkOK(calls[e].todo, overridden, Count)
  BY DEF CallsInStep
<1>3. ASSUME calls'[d].todo = calls[d].todo PROVE WorkOK(calls'[d].todo, overridden', Count')
  BY <1>1, <1>2, <1>3, WorkMonotone
<1>4. ASSUME d # c PROVE calls'[d].todo = calls[d].todo
  BY <1>4, Frame
<1>5. t \in Seq(Work)
  BY DEF Typed, CallRecords
<1>6. CASE d = c /\ TodoSame(c)
  BY <1>3, <1>6 DEF TodoSame
<1>7. CASE d = c /\ TodoPlain(c)
  BY <1>7, PlainIsOK DEF TodoPlain
<1>8. CASE d = c /\ TodoNext(c)
  <2>1. t # <<>> /\ calls'[c].todo = Tail(t)
    BY <1>8 DEF TodoNext
  <2>2. Len(t) \in Nat /\ Len(Tail(t)) = Len(t) - 1 /\ \A i \in 1 .. Len(Tail(t)) : Tail(t)[i] = t[i + 1]
    BY <1>5, <2>1, HeadTailProperties
  <2>3. WorkOK(t, overridden, Count)
    BY <1>2
  <2> HIDE DEF t
  <2>4. WorkOK(Tail(t), overridden, Count)
    <3>1. ASSUME NEW i \in 1 .. Len(Tail(t)) PROVE Tail(t)[i] = t[i + 1] /\ i + 1 \in 1 .. Len(t) /\ i + 1 > 1
      BY <2>2
    <3> QED
      BY <2>3, <3>1 DEF WorkOK
  <2> QED
    BY <1>1, <1>8, <2>1, <2>4, WorkMonotone
<1>9. CASE d = c /\ TodoScan(c)
  <2>1. PICK o \in Orders, s \in Skus, r \in BOOLEAN :
          ScanOut(c, o, s, r) /\ calls'[c].todo = <<Scan(o, s, r)>> /\ s \in Ledger!ScannedAs(o)
    BY <1>9 DEF TodoScan
  <2>2. o \notin overridden' => s = OrderSku[o]
    BY <2>1 DEF ScanOut
  <2> DEFINE w == Scan(o, s, r)
  <2>3. w.kind = "scan" /\ w.order = o /\ w.sku = s
    BY DEF Scan
  <2> HIDE DEF w
  <2>4. Len(<<w>>) = 1 /\ <<w>>[1] = w
    OBVIOUS
  <2>5. AskedFor(w)
    BY <2>1, <2>3 DEF AskedFor
  <2>6. WorkOK(<<w>>, overridden', Count')
    BY <2>2, <2>3, <2>4, <2>5 DEF WorkOK
  <2> QED
    BY <1>9, <2>1, <2>6 DEF w
<1>10. CASE d = c /\ TodoCounted(c)
  <2> DEFINE m == Movement(c)
             j == Count[m.order] + 1
             a == Adding(m.sku, "out", -OrderQty[m.order], <<m.order, j>>, m.order)
  <2>1. t # <<>> /\ m \in Scans /\ calls'[c].todo = [t EXCEPT ![1] = a]
    BY <1>10 DEF TodoCounted
  <2>2. Len(t) \in Nat \ {0} /\ m = t[1]
    BY <1>5, <2>1, EmptySeq DEF Movement
  <2>3. m.kind = "scan" /\ m.order \in Orders /\ m.sku \in Skus
    BY <2>1 DEF Scans
  <2>4. m.order \notin overridden => m.sku = OrderSku[m.order]
    BY <1>2, <2>2, <2>3 DEF WorkOK
  <2> HIDE DEF t, m
  <2>5. j \in Nat \ {0} /\ j <= Count[m.order] + 1
    BY <1>1, <2>3
  <2>6. a.sku = m.sku /\ a.kind = "out" /\ a.refs = m.order /\ a = Adding(a.sku, "out", -OrderQty[m.order], <<m.order, j>>, m.order)
    BY DEF Adding
  <2> HIDE DEF j
  <2>7. OutWork(a, overridden, Count)
    <3> HIDE DEF a
    <3> QED
      BY <2>3, <2>4, <2>5, <2>6 DEF OutWork
  <2>8. a \in Movements
    <3>1. -OrderQty[m.order] \in Int
      BY <2>3, InventoryAssumption
    <3>2. <<m.order, j>> \in Keys
      BY <2>3, <2>5 DEF Keys
    <3> QED
      BY <2>3, <3>1, <3>2 DEF Adding, Movements, Kinds, Refs
  <2> HIDE DEF a
  <2>9. Len([t EXCEPT ![1] = a]) = Len(t)
        /\ \A i \in 1 .. Len(t) : [t EXCEPT ![1] = a][i] = IF i = 1 THEN a ELSE t[i]
    <3>1. a \in Work /\ 1 \in 1 .. Len(t) /\ t \in Seq(Work)
      BY <1>5, <2>2, <2>8 DEF Work, t
    <3> QED
      BY <3>1, ExceptSeq
  <2>10. WorkOK(t, overridden, Count)
    BY <1>2 DEF t
  <2>11. AskedFor(a)
    <3>1. m.sku \in Ledger!ScannedAs(m.order)
      BY <2>2, <2>3, <2>10 DEF WorkOK, AskedFor
    <3> QED
      BY <2>6, <3>1 DEF AskedFor
  <2>12. WorkOK([t EXCEPT ![1] = a], overridden, Count)
    BY <2>6, <2>7, <2>9, <2>10, <2>11 DEF WorkOK
  <2> QED
    BY <1>1, <1>10, <2>1, <2>12, WorkMonotone
<1> QED
  BY <1>3, <1>4, <1>6, <1>7, <1>8, <1>9, <1>10, TodoStep

Reconciling(i, t, op, id) == [[i EXCEPT !.pc = "next", !.todo = t] EXCEPT !.op = op, !.id = id]
Closing(i, rows, op, id) == [[i EXCEPT !.pc = "close", !.rows = rows] EXCEPT !.op = op, !.id = id]

\* A request opens no transaction.
LEMMA RequestPc ==
  ASSUME Typed, NEW c \in Calls, Request(c)
  PROVE  calls'[c].pc = "next" \/ (CloseOut(c) /\ calls'[c].pc = "close")
<1>1. ASSUME NEW i \in CallRecords, NEW t, NEW r, NEW o, NEW op, NEW id
      PROVE  /\ Receiving(i, r, t, op, id).pc = "next" /\ Working(i, o, t, op, id).pc = "next"
             /\ Reconciling(i, t, op, id).pc = "next" /\ Closing(i, t, op, id).pc = "close"
  BY DEF CallRecords, Receiving, Working, Reconciling, Closing
<1>2. ASSUME NEW t, NEW r, NEW o, NEW op, NEW id
      PROVE  /\ Receiving(Idle, r, t, op, id).pc = "next" /\ Working(Idle, o, t, op, id).pc = "next"
             /\ Reconciling(Idle, t, op, id).pc = "next" /\ Closing(Idle, t, op, id).pc = "close"
  BY <1>1, IdleType
<1>3. ASSUME NEW op, NEW call, Begin(c, op, call)
      PROVE  calls'[c] = [call EXCEPT !.op = op, !.id = begun + 1]
  BY <1>3 DEF Begin, Typed
<1>4. CASE \E r \in Requests : CreateReceiptIn(c, r.lines)
  <2>1. PICK t, n : Begin(c, "in", [Idle EXCEPT !.pc = "next", !.receipt = n, !.todo = t])
    BY <1>4, Zenon DEF CreateReceiptIn
  <2>2. calls'[c] = Receiving(Idle, n, t, "in", begun + 1)
    BY <1>3, <2>1, Zenon DEF Receiving
  <2> QED
    BY <1>2, <2>2
<1>5. CASE (\E r \in Requests : Adjust(c, r.lines)) \/ ReconcileApply(c)
  <2>1. PICK t, op : Begin(c, op, [Idle EXCEPT !.pc = "next", !.todo = t])
    BY <1>5, Zenon DEF Adjust, ReconcileApply
  <2>2. calls'[c] = Reconciling(Idle, t, op, begun + 1)
    BY <1>3, <2>1, Zenon DEF Reconciling
  <2> QED
    BY <1>2, <2>2
<1>6. CASE \E r \in Requests : ScanOut(c, r.order, r.sku, r.rework)
  <2>1. PICK t, o : Begin(c, "scan", [Idle EXCEPT !.pc = "next", !.order = o, !.todo = t])
    BY <1>6, Zenon DEF ScanOut
  <2>2. calls'[c] = Working(Idle, o, t, "scan", begun + 1)
    BY <1>3, <2>1, Zenon DEF Working
  <2> QED
    BY <1>2, <2>2
<1>7. CASE CloseOut(c)
  <2>1. PICK t : Begin(c, "close", [Idle EXCEPT !.pc = "close", !.rows = t])
    BY <1>7, Zenon DEF CloseOut
  <2>2. calls'[c] = Closing(Idle, t, "close", begun + 1)
    BY <1>3, <2>1, Zenon DEF Closing
  <2> QED
    BY <1>2, <1>7, <2>2
<1> QED
  BY <1>4, <1>5, <1>6, <1>7 DEF Request

\* Only reading does.
LEMMA ReadOpens ==
  ASSUME Typed, NEW c \in Calls, Step(c), ~Read(c)
  PROVE  calls'[c].pc # "commit"
<1>1. calls \in [Calls -> CallRecords] /\ calls[c] \in CallRecords
  BY DEF Typed
<1>2. ASSUME NEW k, calls' = [calls EXCEPT ![c] = k] PROVE calls'[c] = k
  BY <1>1, <1>2
<1>3. \A i, d : Moved(c, i, d).pc = "next"
  BY <1>1 DEF Moved, CallRecords
<1>4. Idle.pc = "idle"
  BY DEF Idle
<1>5. ASSUME \E i, d : calls' = [calls EXCEPT ![c] = Moved(c, i, d)] PROVE calls'[c].pc # "commit"
  BY <1>2, <1>3, <1>5
<1>6. ASSUME calls' = [calls EXCEPT ![c] = Idle] PROVE calls'[c].pc # "commit"
  BY <1>2, <1>4, <1>6
<1>7. CASE Commit(c) \/ CommitNothing(c)
  <2>1. \E i, d : calls' = [calls EXCEPT ![c] = Moved(c, i, d)]
    BY <1>7, Zenon DEF Commit, CommitNothing
  <2> QED
    BY <1>5, <2>1
<1>8. CASE DuplicateKey(c)
  <2>1. (\E i, d : calls' = [calls EXCEPT ![c] = Moved(c, i, d)]) \/ calls' = [calls EXCEPT ![c] = Idle]
    BY <1>8, Zenon DEF DuplicateKey
  <2> QED
    BY <1>5, <1>6, <2>1
<1>9. CASE CloseMark(c) \/ Answer(c) \/ Die(c)
  BY <1>6, <1>9 DEF CloseMark, Answer, Die
<1>10. CASE CloseWrite(c) \/ Again(c)
  BY <1>1, <1>10 DEF CloseWrite, Again, CallRecords
<1>11. CASE CountDeductions(c)
  <2>1. calls[c].pc = "next"
    BY <1>11 DEF CountDeductions
  <2>2. CASE \E i, d : calls' = [calls EXCEPT ![c] = Moved(c, i, d)]
    BY <1>5, <2>2
  <2>3. CASE \E a : calls' = [calls EXCEPT ![c].todo[1] = a]
    BY <1>1, <2>1, <2>3 DEF CallRecords
  <2>4. \/ \E i, d : calls' = [calls EXCEPT ![c] = Moved(c, i, d)]
        \/ \E a : calls' = [calls EXCEPT ![c].todo[1] = a]
    BY <1>11, Zenon DEF CountDeductions
  <2> QED
    BY <2>2, <2>3, <2>4
<1> QED
  BY <1>7, <1>8, <1>9, <1>10, <1>11, RequestPc DEF Step

LEMMA SnapshotKept ==
  ASSUME Typed, NEW c \in Calls, Step(c), NEW k, SnapshotOK(k, book)
  PROVE  SnapshotOK(k, book')
<1>1. /\ Len(book) \in Nat
      /\ \A i \in 1 .. Len(book) :
           book'[i].sku = book[i].sku /\ book'[i].kind = book[i].kind /\ book'[i].key = book[i].key
      /\ Len(book') = Len(book) \/ Len(book') = Len(book) + 1
  BY BookStep
<1>2. 1 .. Len(book) \subseteq 1 .. Len(book')
  BY <1>1
<1> DEFINE m == k.todo[1]
<1>3. CASE k.pc = "commit"
  <2>1. /\ k.seen.rows \subseteq 1 .. Len(book)
        /\ \A i \in k.seen.rows : book[i].sku = m.sku
        /\ k.seen.found = IF m.key = None THEN {}
                          ELSE {i \in k.seen.rows : book[i].kind = m.kind /\ book[i].key = m.key}
        /\ k.seen.qty = IF m.set THEN m.qty - k.seen.stock ELSE m.qty
    BY <1>3 DEF SnapshotOK
  <2> HIDE DEF m
  <2>2. \A i \in k.seen.rows :
          book'[i].sku = book[i].sku /\ book'[i].kind = book[i].kind /\ book'[i].key = book[i].key
    BY <1>1, <2>1
  <2>3. {i \in k.seen.rows : book[i].kind = m.kind /\ book[i].key = m.key}
        = {i \in k.seen.rows : book'[i].kind = m.kind /\ book'[i].key = m.key}
    BY <2>2
  <2>4. k.seen.rows \subseteq 1 .. Len(book') /\ \A i \in k.seen.rows : book'[i].sku = m.sku
    BY <1>2, <2>1, <2>2
  <2> QED
    BY <2>1, <2>3, <2>4 DEF SnapshotOK, m
<1> QED
  BY <1>3 DEF SnapshotOK

LEMMA SnapshotStep ==
  ASSUME Typed, NEW c \in Calls, Step(c), CallsInStep, NEW d \in Calls
  PROVE  SnapshotOK(calls'[d], book')
<1>1. CASE d # c
  BY <1>1, Frame, SnapshotKept DEF CallsInStep
<1>2. CASE d = c /\ ~Read(c)
  BY <1>2, ReadOpens DEF SnapshotOK
<1>3. CASE d = c /\ Read(c)
  <2> DEFINE m == Movement(c)
             s == [item |-> quantity[m.sku], stock |-> Stock(m.sku), rows |-> RowsOf(m.sku),
                   found |-> Keyed(m), qty |-> Qty(m)]
  <2>1. calls[c] \in CallRecords /\ calls \in [Calls -> CallRecords]
    BY DEF Typed
  <2>2. m = calls[c].todo[1]
    BY <1>3, TodoType, AppendListed DEF Read, Typed, Movement
  <2>3. calls'[c].seen = s /\ calls'[c].todo = calls[c].todo
    <3> HIDE DEF s
    <3>1. PICK u, w : calls' = [calls EXCEPT ![c] = [calls[c] EXCEPT !.pc = "commit", !.seen = s, !.dup = u, !.unchanged = w]]
      <4> DEFINE u == calls[c].dup \/ Keyed(m) # {}
                 w == calls[c].unchanged \/ (Keyed(m) = {} /\ Qty(m) = 0)
      <4>1. calls' = [calls EXCEPT ![c] = [calls[c] EXCEPT !.pc = "commit", !.seen = s, !.dup = u, !.unchanged = w]]
        BY <1>3, <2>1 DEF Read, CallRecords, s
      <4> QED
        BY <4>1
    <3> QED
      BY <2>1, <3>1 DEF CallRecords
  <2>4. s.stock = Stock(m.sku) /\ s.rows = RowsOf(m.sku) /\ s.found = Keyed(m) /\ s.qty = Qty(m)
    OBVIOUS
  <2>5. DOMAIN book = 1 .. Len(book) /\ book' = book
    BY <1>3, BookStep DEF Read
  <2> HIDE DEF m, s
  <2>6. SnapshotOK(calls'[c], book)
    BY <2>2, <2>3, <2>4, <2>5 DEF SnapshotOK, RowsOf, Keyed, Qty
  <2> QED
    BY <1>3, <2>5, <2>6
<1> QED
  BY <1>1, <1>2, <1>3

LEMMA BookDomain == Typed => DOMAIN book = 1 .. Len(book)
BY LenProperties DEF Typed

\* The row a call commits: its deduction is what the call had to do.
LEMMA DeductionRow ==
  ASSUME Typed, NEW c \in Calls, Commit(c), CallsInStep
  PROVE  LET m == Movement(c)
             row == book'[Len(book) + 1]
         IN  /\ m = calls[c].todo[1] /\ m \in Movements
             /\ row.kind = m.kind /\ row.key = m.key /\ row.refs = m.refs /\ row.sku = m.sku
             /\ m.kind = "out" =>
                  \E o \in Orders, j \in Nat \ {0} :
                    /\ m.refs = o /\ m.key = <<o, j>> /\ j <= Count[o] + 1 /\ m.key # None
                    /\ row.qty = -OrderQty[o]
                    /\ o \notin overridden => m.sku = OrderSku[o]
<1> DEFINE m == Movement(c)
           k == calls[c]
           row == Row(m, k.seen.stock, k.seen.qty)
<1>1. book'[Len(book) + 1] = row
  BY Booked
<1>2. k \in CallRecords /\ k.todo # <<>> /\ m \in Movements /\ k.pc = "commit"
  BY CommitFacts DEF Commit
<1>3. m = k.todo[1] /\ 1 \in 1 .. Len(k.todo)
  <2>1. k.todo \in Seq(Work)
    BY <1>2 DEF CallRecords
  <2> QED
    BY <1>2, <2>1, EmptySeq DEF Movement
<1>4. row.kind = m.kind /\ row.key = m.key /\ row.refs = m.refs /\ row.sku = m.sku /\ row.qty = k.seen.qty
  BY DEF Row
<1>5. ASSUME m.kind = "out"
      PROVE  \E o \in Orders, j \in Nat \ {0} :
               /\ m.refs = o /\ m.key = <<o, j>> /\ j <= Count[o] + 1 /\ m.key # None
               /\ row.qty = -OrderQty[o]
               /\ o \notin overridden => m.sku = OrderSku[o]
  <2>1. OutWork(m, overridden, Count)
    BY <1>3, <1>5 DEF CallsInStep, WorkOK
  <2>2. PICK o \in Orders, j \in Nat \ {0} :
          /\ m = Adding(m.sku, "out", -OrderQty[o], <<o, j>>, o)
          /\ j <= Count[o] + 1
          /\ o \notin overridden => m.sku = OrderSku[o]
    BY <2>1 DEF OutWork
  <2>3. m.refs = o /\ m.key = <<o, j>> /\ m.qty = -OrderQty[o] /\ m.set = FALSE
    <3> HIDE DEF m
    <3> QED
      BY <2>2 DEF Adding
  <2>4. k.seen.qty = m.qty
    BY <1>2, <1>3, <2>3 DEF CallsInStep, SnapshotOK
  <2>5. m.key # None
    BY <2>3, InventoryAssumption
  <2> QED
    BY <1>4, <2>2, <2>3, <2>4, <2>5
<1> QED
  BY <1>1, <1>2, <1>3, <1>4, <1>5

LEMMA RowsStep ==
  ASSUME Typed, NEW c \in Calls, Step(c), CallsInStep, RowsInStep
  PROVE  RowsInStep'
<1> DEFINE n == Len(book)
<1>1. /\ n \in Nat
      /\ \A i \in 1 .. n :
           /\ book'[i].sku = book[i].sku /\ book'[i].kind = book[i].kind /\ book'[i].qty = book[i].qty
           /\ book'[i].key = book[i].key /\ book'[i].refs = book[i].refs
      /\ ~Commit(c) => Len(book') = n
      /\ Commit(c) => Len(book') = n + 1
  BY BookStep
<1>2. overridden \subseteq overridden' /\ (Commit(c) => overridden' = overridden)
  BY HistoryStep
<1> HIDE DEF n
<1>3. ASSUME NEW i \in 1 .. n PROVE OutRowOK(book'[i], overridden')
  <2>1. OutRowOK(book[i], overridden)
    BY DEF RowsInStep, n
  <2> QED
    BY <1>1, <1>2, <2>1 DEF OutRowOK
<1>4. ASSUME Commit(c) PROVE OutRowOK(book'[n + 1], overridden')
  BY <1>2, <1>4, DeductionRow DEF OutRowOK, n
<1>5. ASSUME NEW i \in 1 .. Len(book') PROVE i \in 1 .. n \/ (Commit(c) /\ i = n + 1)
  BY <1>1
<1> QED
  BY <1>3, <1>4, <1>5 DEF RowsInStep

\* A deduction that commits is the next of its order: had it been made before, its row would
\* be among those the transaction found, for the snapshot is not stale.
LEMMA NextNumber ==
  ASSUME Typed, NEW c \in Calls, Commit(c), Deductions, Movement(c).kind = "out",
         Movement(c).refs \in Orders \ overridden
  PROVE  Movement(c).key = <<Movement(c).refs, Count[Movement(c).refs] + 1>>
<1> DEFINE m == Movement(c)
           k == calls[c]
<1>1. CallsInStep /\ RowsInStep
  BY DEF Deductions
<1>2. m = k.todo[1]
  BY <1>1, DeductionRow
<1>3. PICK o \in Orders, j \in Nat \ {0} :
        m.refs = o /\ m.key = <<o, j>> /\ j <= Count[o] + 1 /\ m.key # None
        /\ (o \notin overridden => m.sku = OrderSku[o])
  BY <1>1, DeductionRow
<1>4. o \in Orders \ overridden /\ m.sku = OrderSku[o] /\ Count[o] \in Nat
  BY <1>3, RowsCounted DEF Count
<1>5. /\ k.seen.found = {} /\ k.seen.rows = RowsOf(m.sku)
      /\ k.seen.found = {i \in k.seen.rows : book[i].kind = m.kind /\ book[i].key = m.key}
  <2>1. k.pc = "commit" /\ k.seen.found = {} /\ k.seen.rows = RowsOf(m.sku)
    BY DEF Commit, Current
  <2> QED
    BY <1>1, <1>2, <1>3, <2>1 DEF CallsInStep, SnapshotOK
<1>6. ASSUME j \in 1 .. Count[o] PROVE FALSE
  <2>1. {book[i].key[2] : i \in OutRows(o)} = 1 .. Count[o]
    BY <1>4 DEF Deductions, Numbered
  <2>2. PICK i \in OutRows(o) : book[i].key[2] = j
    BY <1>6, <2>1
  <2>3. i \in 1 .. Len(book) /\ i \in DOMAIN book /\ book[i].kind = "out" /\ book[i].refs = o
    BY BookDomain DEF OutRows
  <2>4. OutRowOK(book[i], overridden)
    BY <1>1, <2>3 DEF RowsInStep
  <2>5. PICK h \in Nat \ {0} : book[i].key = <<o, h>>
    BY <2>3, <2>4 DEF OutRowOK
  <2>6. book[i].sku = OrderSku[o]
    BY <1>4, <2>3, <2>4 DEF OutRowOK
  <2>7. book[i].key = m.key
    BY <1>3, <2>2, <2>5
  <2>8. i \in RowsOf(m.sku)
    BY <1>4, <2>3, <2>6 DEF RowsOf
  <2> QED
    BY <1>5, <2>3, <2>7, <2>8
<1>7. j = Count[o] + 1
  BY <1>3, <1>4, <1>6
<1> QED
  BY <1>3, <1>7

LEMMA NumberedStep ==
  ASSUME Typed, NEW c \in Calls, Step(c), Deductions, NEW o \in Orders \ overridden
  PROVE  Numbered(o)'
<1> DEFINE n == Len(book)
           keys == {book[i].key[2] : i \in OutRows(o)}
<1>1. keys = 1 .. Count[o]
  BY DEF Deductions, Numbered
<1>2. /\ n \in Nat /\ \A i \in 1 .. n : book'[i].key = book[i].key
      /\ OutRows(o) \subseteq 1 .. n
  BY BookStep, RowsCounted
<1>3. Count[o] \in Nat
  BY CountStep
<1>4. CASE Commit(c) /\ Movement(c).kind = "out" /\ Movement(c).refs = o
  <2>1. OutRows(o)' = OutRows(o) \cup {n + 1} /\ Count'[o] = Count[o] + 1
    <3>1. OutRows(o)' = OutRows(o) \cup
            (IF Commit(c) /\ Movement(c).kind = "out" /\ Movement(c).refs = o THEN {Len(book) + 1} ELSE {})
      BY OutRowsStep
    <3>2. OutRows(o)' = OutRows(o) \cup {n + 1}
      BY <1>4, <3>1, Zenon
    <3>3. Count'[o] = Count[o] + 1
      BY <1>4, CountStep
    <3> QED
      BY <3>2, <3>3
  <2>2. Movement(c).key = <<o, Count[o] + 1>>
    BY <1>4, NextNumber
  <2>3. book'[n + 1].key[2] = Count[o] + 1
    BY <1>4, <2>2, DeductionRow DEF Deductions
  <2> HIDE DEF n
  <2>4. {book'[i].key[2] : i \in OutRows(o) \cup {n + 1}} = keys \cup {Count[o] + 1}
    <3>1. \A i \in OutRows(o) : book'[i].key[2] = book[i].key[2]
      BY <1>2
    <3> QED
      BY <2>3, <3>1
  <2>5. (1 .. Count[o]) \cup {Count[o] + 1} = 1 .. Count[o] + 1
    BY <1>3
  <2> QED
    BY <1>1, <2>1, <2>4, <2>5 DEF Numbered
<1>5. CASE ~(Commit(c) /\ Movement(c).kind = "out" /\ Movement(c).refs = o)
  <2>1. OutRows(o)' = OutRows(o) /\ Count'[o] = Count[o]
    <3>1. OutRows(o)' = OutRows(o) \cup
            (IF Commit(c) /\ Movement(c).kind = "out" /\ Movement(c).refs = o THEN {Len(book) + 1} ELSE {})
      BY OutRowsStep
    <3>2. OutRows(o)' = OutRows(o) \cup {}
      BY <1>5, <3>1, Zenon
    <3>3. OutRows(o)' = OutRows(o)
      BY <3>2
    <3>4. Count'[o] = Count[o]
      BY <1>5, CountStep
    <3> QED
      BY <3>3, <3>4
  <2>2. {book'[i].key[2] : i \in OutRows(o)} = keys
    BY <1>2
  <2> QED
    BY <1>1, <2>1, <2>2 DEF Numbered
<1> QED
  BY <1>4, <1>5

\* Nobody comes to be about to deduct an order again but by a scan that was meant to, and a
\* call that has deducted is not.
LEMMA PendingStep ==
  ASSUME Typed, NEW c \in Calls, Step(c), CallsInStep, NEW o \in Orders
  PROVE  /\ Pending(o)' \subseteq Pending(o) \cup (IF \E s \in Skus : ScanOut(c, o, s, TRUE) THEN {c} ELSE {})
         /\ Commit(c) => Pending(o)' \subseteq Pending(o) \ {c}
<1> DEFINE t == calls[c].todo
<1>1. t \in Seq(Work)
  BY DEF Typed, CallRecords
<1>2. \A d \in Calls : d # c => calls'[d].todo = calls[d].todo
  BY Frame
<1>3. ASSUME TodoSame(c), Reworks(calls'[c].todo, o) PROVE Reworks(t, o)
  BY <1>3 DEF TodoSame
<1>4. ASSUME TodoNext(c) PROVE ~Reworks(calls'[c].todo, o)
  <2>1. t # <<>> /\ calls'[c].todo = Tail(t)
    BY <1>4 DEF TodoNext
  <2>2. /\ Len(t) \in Nat /\ Len(Tail(t)) = Len(t) - 1 /\ Tail(t) \in Seq(Work)
        /\ \A i \in 1 .. Len(Tail(t)) : Tail(t)[i] = t[i + 1]
    BY <1>1, <2>1, HeadTailProperties
  <2>3. WorkOK(t, overridden, Count)
    BY DEF CallsInStep
  <2> HIDE DEF t
  <2>4. ASSUME Tail(t) # <<>> PROVE Tail(t)[1] = t[2] /\ 2 \in 1 .. Len(t)
    <3>1. Len(Tail(t)) \in Nat \ {0}
      BY <2>2, <2>4, EmptySeq
    <3> QED
      BY <2>2, <3>1
  <2>5. ASSUME Tail(t) # <<>>
        PROVE  t[2].kind # "out" /\ (t[2].kind = "scan" => ~t[2].rework)
    BY <2>3, <2>4, <2>5 DEF WorkOK
  <2> QED
    BY <2>1, <2>4, <2>5 DEF Reworks
<1>5. ASSUME TodoPlain(c), calls'[c].todo \in Seq(Work) PROVE ~Reworks(calls'[c].todo, o)
  <2> DEFINE u == calls'[c].todo
  <2>1. u # <<>> => 1 \in 1 .. Len(u)
    BY <1>5, EmptySeq
  <2>2. PlainWork(u)
    BY <1>5 DEF TodoPlain
  <2> HIDE DEF u
  <2>3. ~Reworks(u, o)
    BY <2>1, <2>2 DEF PlainWork, Reworks
  <2> QED
    BY <2>3 DEF u
<1>6. ASSUME TodoScan(c), Reworks(calls'[c].todo, o) PROVE \E s \in Skus : ScanOut(c, o, s, TRUE)
  <2>1. PICK p \in Orders, s \in Skus, r \in BOOLEAN : ScanOut(c, p, s, r) /\ calls'[c].todo = <<Scan(p, s, r)>>
    BY <1>6 DEF TodoScan
  <2> DEFINE w == Scan(p, s, r)
  <2>2. w.kind = "scan" /\ w.order = p /\ w.rework = r
    BY DEF Scan
  <2> HIDE DEF w
  <2>3. Reworks(<<w>>, o) /\ <<w>>[1] = w
    BY <1>6, <2>1 DEF w
  <2>4. w.rework /\ w.order = o
    BY <2>2, <2>3 DEF Reworks
  <2> QED
    BY <2>1, <2>2, <2>4
<1>7. ASSUME TodoCounted(c), Reworks(calls'[c].todo, o) PROVE Reworks(t, o)
  <2> DEFINE m == Movement(c)
             j == Count[m.order] + 1
             a == Adding(m.sku, "out", -OrderQty[m.order], <<m.order, j>>, m.order)
  <2>1. t # <<>> /\ m \in Scans /\ (m.rework \/ Count[m.order] = 0) /\ calls'[c].todo = [t EXCEPT ![1] = a]
    BY <1>7 DEF TodoCounted
  <2>2. Len(t) \in Nat \ {0} /\ m = t[1]
    BY <1>1, <2>1, EmptySeq DEF Movement
  <2>3. m.kind = "scan"
    BY <2>1 DEF Scans
  <2>4. a.kind = "out" /\ a.refs = m.order /\ a.key[2] = j
    BY DEF Adding
  <2> HIDE DEF a, t
  <2>5. [t EXCEPT ![1] = a][1] = a
    BY <1>1, <2>2
  <2>6. m.order = o /\ j >= 2
    BY <1>7, <2>1, <2>4, <2>5 DEF Reworks
  <2>7. m.rework
    BY <2>1, <2>6
  <2> QED
    BY <2>1, <2>2, <2>3, <2>6, <2>7 DEF Reworks
<1>8. calls'[c].todo \in Seq(Work)
  <2>1. Typed'
    BY TypedStep DEF Next, Step
  <2> QED
    BY <2>1 DEF Typed, CallRecords
<1>9. Reworks(calls'[c].todo, o) => Reworks(t, o) \/ \E s \in Skus : ScanOut(c, o, s, TRUE)
  BY <1>3, <1>4, <1>5, <1>6, <1>7, <1>8, TodoStep
<1>10. Commit(c) => ~Reworks(calls'[c].todo, o)
  BY <1>4, TodoStep
<1> QED
  BY <1>2, <1>9, <1>10 DEF Pending

LEMMA BudgetStep ==
  ASSUME Typed, NEW c \in Calls, Step(c), Deductions, NEW o \in Orders \ overridden
  PROVE  WithinBudget(o)'
<1> DEFINE P == Pending(o)
           Q == Pending(o)'
           n == Count[o]
           made(x) == IF x = 0 THEN 1 ELSE x
<1>1. CallsInStep /\ WithinBudget(o) /\ Numbered(o)
  BY DEF Deductions
<1>2. IsFiniteSet(P) /\ Cardinality(P) \in Nat /\ IsFiniteSet(Q) /\ Cardinality(Q) \in Nat
  BY FS_Subset, FS_CardinalityType, InventoryAssumption DEF Pending
<1>3. n \in Nat /\ reworks[o] \in Nat
  BY CountStep DEF Typed
<1>4. made(n) + Cardinality(P) <= 1 + reworks[o]
  BY <1>1 DEF WithinBudget
<1>5. WithinBudget(o)' <=> made(Count'[o]) + Cardinality(Q) <= 1 + reworks'[o]
  BY DEF WithinBudget
<1>6. ASSUME Q \subseteq P PROVE Cardinality(Q) <= Cardinality(P)
  BY <1>2, <1>6, FS_Subset
<1>7. \/ reworks'[o] = reworks[o] /\ ~\E s \in Skus : ScanOut(c, o, s, TRUE)
      \/ reworks'[o] = reworks[o] + 1
  BY HistoryStep
<1>8. Q \subseteq P \cup (IF \E s \in Skus : ScanOut(c, o, s, TRUE) THEN {c} ELSE {})
  BY <1>1, PendingStep
<1>9. Commit(c) => Q \subseteq P \ {c} /\ reworks'[o] = reworks[o]
  BY <1>1, PendingStep, HistoryStep
<1>10. Count'[o] = IF Commit(c) /\ Movement(c).kind = "out" /\ Movement(c).refs = o THEN n + 1 ELSE n
  BY CountStep
<1>11. Cardinality(P \cup {c}) <= Cardinality(P) + 1 /\ IsFiniteSet(P \cup {c})
  <2>1. Cardinality(P \cup {c}) = Cardinality(P) \/ Cardinality(P \cup {c}) = Cardinality(P) + 1
    <3> HIDE DEF P
    <3> QED
      BY <1>2, FS_AddElement
  <2>2. IsFiniteSet(P \cup {c})
    BY <1>2, FS_AddElement
  <2> QED
    BY <1>2, <2>1, <2>2
<1>12. IsFiniteSet(P \ {c}) /\ (c \in P => Cardinality(P \ {c}) = Cardinality(P) - 1)
  BY <1>2, FS_RemoveElement
<1>13. CASE Commit(c) /\ Movement(c).kind = "out" /\ Movement(c).refs = o
  <2>1. Count'[o] = n + 1 /\ reworks'[o] = reworks[o] /\ Q \subseteq P \ {c} /\ Q \subseteq P
    BY <1>9, <1>10, <1>13
  <2>2. CASE n = 0
    <3>1. made(Count'[o]) = made(n)
      BY <2>1, <2>2
    <3>2. made(n) \in Nat /\ Cardinality(Q) <= Cardinality(P)
      BY <1>3, <1>6, <2>1
    <3> HIDE DEF P, Q, n, made
    <3> QED
      BY <1>2, <1>3, <1>4, <1>5, <2>1, <3>1, <3>2
  <2>3. CASE n # 0
    <3>1. Movement(c).key = <<o, n + 1>>
      BY <1>13, NextNumber
    <3>2. Movement(c) = calls[c].todo[1] /\ calls[c].todo # <<>>
      BY <1>1, <1>13, DeductionRow, CommitFacts DEF Commit
    <3>3. n + 1 >= 2
      BY <1>3, <2>3
    <3>4. c \in P
      <4> HIDE DEF n
      <4> QED
        BY <1>13, <3>1, <3>2, <3>3 DEF Pending, Reworks
    <3>5. Cardinality(Q) <= Cardinality(P) - 1
      BY <1>12, <2>1, <3>4, FS_Subset
    <3>6. made(n) = n /\ made(Count'[o]) = n + 1
      BY <1>3, <2>1, <2>3
    <3> HIDE DEF P, Q, n, made
    <3> QED
      BY <1>2, <1>3, <1>4, <1>5, <2>1, <3>5, <3>6
  <2> QED
    BY <2>2, <2>3
<1>14. CASE ~(Commit(c) /\ Movement(c).kind = "out" /\ Movement(c).refs = o)
  <2>1. Count'[o] = n
    BY <1>10, <1>14
  <2>2. CASE reworks'[o] = reworks[o] /\ ~\E s \in Skus : ScanOut(c, o, s, TRUE)
    <3>1. Q \subseteq P
      BY <1>8, <2>2
    <3>2. Cardinality(Q) <= Cardinality(P)
      BY <1>6, <3>1
    <3>3. made(Count'[o]) = made(n)
      BY <2>1
    <3>4. made(n) \in Nat
      BY <1>3
    <3> HIDE DEF P, Q, n, made
    <3> QED
      BY <1>2, <1>3, <1>4, <1>5, <2>2, <3>2, <3>3, <3>4
  <2>3. CASE reworks'[o] = reworks[o] + 1
    <3>1. Q \subseteq P \cup {c}
      BY <1>8
    <3>2. Cardinality(P \cup {c}) \in Nat
      BY <1>11, FS_CardinalityType
    <3>3. Cardinality(Q) <= Cardinality(P \cup {c})
      BY <1>11, <3>1, FS_Subset
    <3>4. made(Count'[o]) = made(n)
      BY <2>1
    <3>5. made(n) \in Nat
      BY <1>3
    <3> HIDE DEF P, Q, n, made
    <3> QED
      BY <1>2, <1>3, <1>4, <1>5, <1>11, <2>3, <3>2, <3>3, <3>4, <3>5
  <2> QED
    BY <1>7, <2>2, <2>3
<1> QED
  BY <1>13, <1>14

-----------------------------------------------------------------------------
LEMMA DeductionsInit == Init => Deductions
<1> SUFFICES ASSUME Init PROVE Deductions
  OBVIOUS
<1>1. book = <<>> /\ Len(book) = 0 /\ DOMAIN book = {} /\ reworks = [o \in Orders |-> 0]
  BY EmptySeq DEF Init
<1>2. \A c \in Calls : calls[c].todo = <<>> /\ calls[c].pc = "idle"
  <2>1. \A c \in Calls : calls[c] = Idle
    BY DEF Init
  <2>2. Idle.pc = "idle" /\ Idle.todo = <<>>
    BY DEF Idle
  <2> QED
    BY <2>1, <2>2
<1>3. \A o : OutRows(o) = {}
  BY <1>1 DEF OutRows
<1>4. \A o \in Orders : Count[o] = 0
  BY <1>3, FS_EmptySet DEF Count
<1>5. CallsInStep
  <2>1. Len(<<>>) = 0
    BY EmptySeq
  <2> QED
    BY <1>2, <2>1 DEF CallsInStep, WorkOK, SnapshotOK
<1>6. RowsInStep
  BY <1>1 DEF RowsInStep
<1>7. ASSUME NEW o \in Orders PROVE Numbered(o) /\ WithinBudget(o)
  <2>1. Pending(o) = {} /\ reworks[o] = 0
    BY <1>1, <1>2 DEF Pending, Reworks
  <2>2. Cardinality(Pending(o)) = 0
    BY <2>1, FS_EmptySet
  <2> QED
    BY <1>3, <1>4, <2>1, <2>2 DEF Numbered, WithinBudget
<1> QED
  BY <1>5, <1>6, <1>7 DEF Deductions

LEMMA DeductionsStep == Typed /\ Deductions /\ [Next]_vars => Deductions'
<1> SUFFICES ASSUME Typed, Deductions, [Next]_vars PROVE Deductions'
  OBVIOUS
<1>1. CASE \E c \in Calls : Step(c)
  <2>1. PICK c \in Calls : Step(c)
    BY <1>1
  <2>2. CallsInStep /\ RowsInStep
    BY DEF Deductions
  <2>3. CallsInStep'
    BY <2>1, <2>2, WorkStep, SnapshotStep DEF CallsInStep
  <2>4. RowsInStep'
    BY <2>1, <2>2, RowsStep
  <2>5. overridden \subseteq overridden'
    BY <2>1, HistoryStep
  <2>6. ASSUME NEW o \in Orders \ overridden' PROVE Numbered(o)' /\ WithinBudget(o)'
    BY <2>1, <2>5, NumberedStep, BudgetStep
  <2> QED
    BY <2>3, <2>4, <2>6 DEF Deductions
<1>2. CASE UNCHANGED vars
  <2>1. UNCHANGED <<book, calls, reworks, overridden>>
    BY <1>2 DEF vars
  <2>2. \A o : OutRows(o)' = OutRows(o)
    BY <2>1 DEF OutRows
  <2>3. Count' = Count /\ \A o : Pending(o)' = Pending(o)
    BY <2>1, <2>2 DEF Count, Pending
  <2>4. CallsInStep' /\ RowsInStep'
    BY <2>1, <2>3 DEF Deductions, CallsInStep, RowsInStep
  <2>5. ASSUME NEW o \in Orders \ overridden' PROVE Numbered(o)' /\ WithinBudget(o)'
    BY <2>1, <2>2, <2>3 DEF Deductions, Numbered, WithinBudget
  <2> QED
    BY <2>4, <2>5 DEF Deductions
<1> QED
  BY <1>1, <1>2 DEF Next, Step

LEMMA DeductionsImply == Typed /\ Deductions => DeductedAsOrdered
<1> SUFFICES ASSUME Typed, Deductions, NEW o \in Orders \ overridden
             PROVE  LET n == Cardinality(OutRows(o)) IN
                    /\ n <= 1 + reworks[o]
                    /\ {book[i].key[2] : i \in OutRows(o)} = 1 .. n
                    /\ \A i \in OutRows(o) : book[i].sku = OrderSku[o] /\ book[i].qty = -OrderQty[o]
  BY DEF DeductedAsOrdered
<1> DEFINE n == Cardinality(OutRows(o))
<1>1. n = Count[o] /\ n \in Nat /\ reworks[o] \in Nat
  BY RowsCounted DEF Count, Typed
<1>2. Numbered(o) /\ WithinBudget(o) /\ RowsInStep
  BY DEF Deductions
<1>3. Cardinality(Pending(o)) \in Nat
  BY FS_Subset, FS_CardinalityType, InventoryAssumption DEF Pending
<1>4. n <= 1 + reworks[o]
  BY <1>1, <1>2, <1>3 DEF WithinBudget
<1>5. {book[i].key[2] : i \in OutRows(o)} = 1 .. n
  BY <1>1, <1>2 DEF Numbered
<1>6. ASSUME NEW i \in OutRows(o) PROVE book[i].sku = OrderSku[o] /\ book[i].qty = -OrderQty[o]
  <2>1. i \in 1 .. Len(book) /\ book[i].kind = "out" /\ book[i].refs = o
    BY BookDomain DEF OutRows
  <2> QED
    BY <1>2, <2>1 DEF RowsInStep, OutRowOK
<1> QED
  BY <1>4, <1>5, <1>6

\* An order that nobody scans as another SKU is deducted once, and once more at most for each
\* scan that was meant to, whatever scans, reconciliations and retried transactions overlap
\* (scanOut, reconcileApply and applyTransaction of InventoryService).
THEOREM DeductionsCorrect == Spec => []DeductedAsOrdered
<1>1. Init => Typed /\ Deductions
  BY TypedInit, DeductionsInit
<1>2. Typed /\ Deductions /\ [Next]_vars => (Typed /\ Deductions)'
  BY TypedStep, DeductionsStep
<1>3. Typed /\ Deductions => DeductedAsOrdered
  BY DeductionsImply
<1> QED
  BY <1>1, <1>2, <1>3, PTL DEF Spec
=============================================================================
