----------------------------- MODULE Inventory -----------------------------
(***************************************************************************)
(* The stock of one factory: InventoryService.  Every movement is a row of *)
(* an append-only book, written in one MongoDB transaction with the cached *)
(* quantity of its item (applyTransaction).  The requests around it are    *)
(* not transactions: a goods receipt books its lines one by one, a scan    *)
(* counts an order's deductions before it books the next, reconciling is a *)
(* scan for each order of a list read before, and closing reads the open   *)
(* deductions, writes a receipt over them and then marks them.             *)
(***************************************************************************)
EXTENDS Integers, Sequences, FiniteSets, FiniteSetsExt, SequencesExt

CONSTANTS
  Calls,      \* requests being handled at the same time
  MaxCalls,   \* how many there are in all
  Skus,
  Orders,     \* orders whose printing is complete
  OrderSku,   \* what resolveInventorySku finds for an order.  It is asked anew at every
              \* scan: an answer that has changed is like a scan as another SKU
  OrderQty,
  Requests,   \* what may be asked for
  NoItem, None

ASSUME InventoryAssumption ==
  /\ MaxCalls \in Nat
  /\ IsFiniteSet(Calls) /\ IsFiniteSet(Orders)
  /\ OrderSku \in [Orders -> Skus]
  /\ OrderQty \in [Orders -> Nat \ {0}]
  /\ NoItem \notin Int /\ None \notin (Nat \cup Orders) \X Nat

Lines == [sku : Skus, qty : Int]

ASSUME RequestsAssumption == \A r \in Requests :
  /\ r.op \in {"in", "adjust"} => r.lines \in Seq(Lines)
  /\ r.op = "in" => \A i \in DOMAIN r.lines : r.lines[i].qty > 0
  /\ r.op = "scan" => r.order \in Orders /\ r.sku \in Skus /\ r.rework \in BOOLEAN

VARIABLES
  quantity,  \* inventory_items: the cached stock, NoItem before the first movement
  book,      \* inventory_transactions
  receipts,  \* inventory_receipts
  calls,     \* the requests being handled
  begun,     \* how many have been
  told,      \* the answers given
  reworks,   \* how many scans of each order were deliberate second ones,
  overridden, \* the orders somebody scanned as another SKU,
  tangled    \* TRUE once two closings overlapped, or one died before its marks

vars == <<quantity, book, receipts, calls, begun, told, reworks, overridden, tangled>>
history == <<reworks, overridden, tangled>>

(***************************************************************************)
(* A request is a list of movements, made one after the other.  A movement *)
(* adds qty, or sets the stock to a count; its key is refs.requestId.      *)
(***************************************************************************)
Adding(sku, kind, qty, key, refs) ==
  [sku |-> sku, kind |-> kind, set |-> FALSE, qty |-> qty, key |-> key, refs |-> refs]
Counted(sku, n) ==
  [sku |-> sku, kind |-> "adjust", set |-> TRUE, qty |-> n, key |-> None, refs |-> None]

\* What a scan is still to work out.
Scan(order, sku, rework) == [kind |-> "scan", order |-> order, sku |-> sku, rework |-> rework]

Idle == [pc |-> "idle", op |-> "", id |-> 0, todo |-> <<>>, last |-> None,
         order |-> None, receipt |-> 0, seen |-> None, dup |-> FALSE, unchanged |-> FALSE, rows |-> {}]

Init ==
  /\ quantity = [s \in Skus |-> NoItem]
  /\ book = <<>>
  /\ receipts = <<>>
  /\ calls = [c \in Calls |-> Idle]
  /\ begun = 0
  /\ told = {}
  /\ reworks = [o \in Orders |-> 0]
  /\ overridden = {}
  /\ tangled = FALSE

RowsOf(s) == {i \in DOMAIN book : book[i].sku = s}
OutRows(o) == {i \in DOMAIN book : book[i].kind = "out" /\ book[i].refs = o}
Keyed_Never(m) == {}   \* mutant: no key is looked for, and none is unique
Keyed(m) == IF m.key = None THEN {}
            ELSE {i \in RowsOf(m.sku) : book[i].kind = m.kind /\ book[i].key = m.key}

Free(c) == calls[c].pc = "idle" /\ begun < MaxCalls
Begin(c, op, call) ==
  /\ calls' = [calls EXCEPT ![c] = [call EXCEPT !.op = op, !.id = begun + 1]]
  /\ begun' = begun + 1

CreateReceiptIn_OneKey(c, lines) ==   \* mutant: one requestId for all lines
  LET r == Len(receipts) + 1 IN
  /\ Free(c)
  /\ receipts' = Append(receipts, [type |-> "in", lines |-> lines])
  /\ Begin(c, "in",
       [Idle EXCEPT !.pc = "next", !.receipt = r,
          !.todo = [i \in DOMAIN lines |-> Adding(lines[i].sku, "in", lines[i].qty, <<r, 1>>, r)]])
  /\ UNCHANGED <<quantity, book, told, history>>

(***************************************************************************)
(* The requests.                                                           *)
(***************************************************************************)
\* createReceiptIn: the receipt first, its lines after.
CreateReceiptIn(c, lines) ==
  LET r == Len(receipts) + 1 IN
  /\ Free(c)
  /\ receipts' = Append(receipts, [type |-> "in", lines |-> lines])
  /\ Begin(c, "in",
       [Idle EXCEPT !.pc = "next", !.receipt = r,
          !.todo = [i \in DOMAIN lines |-> Adding(lines[i].sku, "in", lines[i].qty, <<r, i>>, r)]])
  /\ UNCHANGED <<quantity, book, told, history>>

Adjust(c, counts) ==
  /\ Free(c)
  /\ Begin(c, "adjust",
       [Idle EXCEPT !.pc = "next",
          !.todo = [i \in DOMAIN counts |-> Counted(counts[i].sku, counts[i].qty)]])
  /\ UNCHANGED <<quantity, book, receipts, told, history>>

ScanOut(c, o, sku, rework) ==
  /\ Free(c)
  /\ Begin(c, "scan", [Idle EXCEPT !.pc = "next", !.order = o, !.todo = <<Scan(o, sku, rework)>>])
  /\ reworks' = IF rework THEN [reworks EXCEPT ![o] = @ + 1] ELSE reworks
  /\ overridden' = IF sku # OrderSku[o] THEN overridden \cup {o} ELSE overridden
  /\ UNCHANGED <<quantity, book, receipts, told, tangled>>

\* reconcilePreview, then a normal scan for each order it found undeducted.
ReconcileApply(c) ==
  LET due == SetToSeq({o \in Orders : OutRows(o) = {}}) IN
  /\ Free(c)
  /\ Begin(c, "reconcile",
       [Idle EXCEPT !.pc = "next", !.todo = [i \in DOMAIN due |-> Scan(due[i], OrderSku[due[i]], FALSE)]])
  /\ UNCHANGED <<quantity, book, receipts, told, history>>

\* closeOutReceipt: the deductions on no receipt; without any there is nothing to do.
CloseOut(c) ==
  LET open == {i \in DOMAIN book : book[i].kind = "out" /\ book[i].receipt = 0} IN
  /\ Free(c)
  /\ open # {}
  /\ Begin(c, "close", [Idle EXCEPT !.pc = "close", !.rows = open])
  /\ tangled' = (tangled \/ \E d \in Calls : calls[d].op = "close")
  /\ UNCHANGED <<quantity, book, receipts, told, reworks, overridden>>

Deducted(rows, s) == - SumFunction([i \in rows |-> IF book[i].sku = s THEN book[i].qty ELSE 0])

CloseWrite(c) ==
  LET rows == calls[c].rows IN
  /\ calls[c].pc = "close"
  /\ receipts' = Append(receipts, [type |-> "out", lines |-> [s \in Skus |-> Deducted(rows, s)]])
  /\ calls' = [calls EXCEPT ![c].pc = "mark", ![c].receipt = Len(receipts) + 1]
  /\ UNCHANGED <<quantity, book, begun, told, history>>

CloseMark_AllOpen(c) ==   \* mutant: marks what is open, not what it read
  /\ calls[c].pc = "mark"
  /\ book' = [i \in DOMAIN book |->
       IF book[i].kind = "out" /\ book[i].receipt = 0
       THEN [book[i] EXCEPT !.receipt = calls[c].receipt] ELSE book[i]]
  /\ calls' = [calls EXCEPT ![c] = Idle]
  /\ UNCHANGED <<quantity, receipts, begun, told, history>>

CloseMark(c) ==
  /\ calls[c].pc = "mark"
  /\ book' = [i \in DOMAIN book |->
       IF i \in calls[c].rows THEN [book[i] EXCEPT !.receipt = calls[c].receipt] ELSE book[i]]
  /\ calls' = [calls EXCEPT ![c] = Idle]
  /\ UNCHANGED <<quantity, receipts, begun, told, history>>

(***************************************************************************)
(* One movement after the other.                                           *)
(***************************************************************************)
Movement(c) == Head(calls[c].todo)

Moved_New(c, row, dup) ==   \* mutant: nobody is told that it had been done
  [calls[c] EXCEPT !.pc = "next", !.todo = Tail(@), !.last = [row |-> row, dup |-> FALSE],
                   !.seen = None, !.dup = FALSE, !.unchanged = FALSE]

\* One movement is done (dup: it had been done before), and the next is due.
Moved(c, row, dup) ==
  [calls[c] EXCEPT !.pc = "next", !.todo = Tail(@), !.last = [row |-> row, dup |-> dup],
                   !.seen = None, !.dup = FALSE, !.unchanged = FALSE]

\* scanOut counts, outside of any transaction.  An order that was deducted is not again,
\* unless on purpose; the key of the next deduction is its number.
CountDeductions(c) ==
  /\ calls[c].pc = "next" /\ calls[c].todo # <<>> /\ Movement(c).kind = "scan"
  /\ LET m == Movement(c)
         before == OutRows(m.order)
     IN  \/ /\ ~m.rework /\ before # {}
            /\ \E i \in before : calls' = [calls EXCEPT ![c] = Moved(c, i, TRUE)]
         \/ /\ m.rework \/ before = {}
            /\ calls' = [calls EXCEPT ![c].todo[1] =
                 Adding(m.sku, "out", -OrderQty[m.order],
                        <<m.order, Cardinality(before) + 1>>, m.order)]
  /\ UNCHANGED <<quantity, book, receipts, begun, told, history>>

\* The change a movement makes to the stock its transaction has read.
Stock(s) == IF quantity[s] = NoItem THEN 0 ELSE quantity[s]
Qty_Blind(m) == m.qty   \* mutant: a count is booked as if it were a difference
Qty(m) == IF m.set THEN m.qty - Stock(m.sku) ELSE m.qty

\* applyTransaction begins, or begins again: its snapshot, the look for an earlier row with
\* the same key, and the flags its retries do not reset.
Read(c) ==
  LET m == Movement(c) IN
  /\ calls[c].pc \in {"next", "again"} /\ calls[c].todo # <<>> /\ m.kind # "scan"
  /\ calls' = [calls EXCEPT
       ![c].pc = "commit",
       ![c].seen = [item |-> quantity[m.sku], stock |-> Stock(m.sku), rows |-> RowsOf(m.sku),
                    found |-> Keyed(m), qty |-> Qty(m)],
       ![c].dup = @ \/ Keyed(m) # {},
       ![c].unchanged = @ \/ (Keyed(m) = {} /\ Qty(m) = 0)]
  /\ UNCHANGED <<quantity, book, receipts, begun, told, history>>

\* The item is as the snapshot has it: MongoDB lets the transaction write it.
Current_Always(c) == TRUE   \* mutant: no write conflicts
Current(c) ==
  LET m == Movement(c) IN
  calls[c].seen.item = quantity[m.sku] /\ calls[c].seen.rows = RowsOf(m.sku)

\* What it writes comes from its snapshot.
Row(m, was, qty) ==
  [sku |-> m.sku, kind |-> m.kind, qty |-> qty, before |-> was,
   after |-> was + qty, key |-> m.key, refs |-> m.refs,
   receipt |-> IF m.kind = "in" THEN m.refs ELSE 0]

\* The transaction commits: nothing to write,
CommitNothing(c) ==
  LET m == Movement(c)
      k == calls[c]
  IN
  /\ k.pc = "commit"
  /\ \/ /\ k.seen.found # {}
        /\ \E i \in k.seen.found : calls' = [calls EXCEPT ![c] = Moved(c, i, TRUE)]
        /\ UNCHANGED quantity
     \/ /\ k.seen.found = {} /\ k.seen.qty = 0
        /\ k.seen.item = NoItem => Current(c)
        /\ quantity' = [quantity EXCEPT ![m.sku] = Stock(m.sku)]
        /\ calls' = [calls EXCEPT ![c] = Moved(c, 0, FALSE)]
  /\ UNCHANGED <<book, receipts, begun, told, history>>

Commit_Zero(c) ==   \* mutant: no look whether anything changes
  LET m == Movement(c)
      k == calls[c]
  IN
  /\ k.pc = "commit" /\ k.seen.found = {} /\ Current(c)
  /\ book' = Append(book, Row(m, k.seen.stock, k.seen.qty))
  /\ quantity' = [quantity EXCEPT ![m.sku] = k.seen.stock + k.seen.qty]
  /\ calls' = [calls EXCEPT ![c] = Moved(c, Len(book) + 1, FALSE)]
  /\ UNCHANGED <<receipts, begun, told, history>>

\* or a row, and the stock with it.
Commit(c) ==
  LET m == Movement(c)
      k == calls[c]
  IN
  /\ k.pc = "commit"
  /\ k.seen.found = {} /\ k.seen.qty # 0
  /\ Current(c)
  /\ book' = Append(book, Row(m, k.seen.stock, k.seen.qty))
  /\ quantity' = [quantity EXCEPT ![m.sku] = k.seen.stock + k.seen.qty]
  /\ calls' = [calls EXCEPT ![c] = Moved(c, IF k.unchanged THEN 0 ELSE Len(book) + 1, k.dup)]
  /\ UNCHANGED <<receipts, begun, told, history>>

\* A write conflict, or a commit that fails for the moment: withTransaction runs it again.
Again(c) ==
  /\ calls[c].pc = "commit"
  /\ calls' = [calls EXCEPT ![c].pc = "again", ![c].seen = None]
  /\ UNCHANGED <<quantity, book, receipts, begun, told, history>>

\* E11000, on the key or on the item that another call made meanwhile: the row with the
\* key is the answer, if there is one.
DuplicateKey(c) ==
  LET m == Movement(c) IN
  /\ calls[c].pc = "commit" /\ calls[c].seen.found = {}
  /\ Keyed(m) # {} \/ (calls[c].seen.item = NoItem /\ quantity[m.sku] # NoItem)
  /\ \/ \E i \in Keyed(m) : calls' = [calls EXCEPT ![c] = Moved(c, i, TRUE)]
     \/ Keyed(m) = {} /\ calls' = [calls EXCEPT ![c] = Idle]
  /\ UNCHANGED <<quantity, book, receipts, begun, told, history>>

\* All movements are made.
Answer(c) ==
  LET k == calls[c] IN
  /\ k.pc = "next" /\ k.todo = <<>>
  /\ told' = told \cup
       (IF k.op = "in" THEN {[op |-> "in", receipt |-> k.receipt]}
        ELSE IF k.op = "scan" THEN {[op |-> "scan", id |-> k.id, order |-> k.order, last |-> k.last]} ELSE {})
  /\ calls' = [calls EXCEPT ![c] = Idle]
  /\ UNCHANGED <<quantity, book, receipts, begun, history>>

\* The process dies, or the database fails the call.
Die(c) ==
  /\ calls[c].pc # "idle"
  /\ calls' = [calls EXCEPT ![c] = Idle]
  /\ tangled' = (tangled \/ calls[c].pc = "mark")
  /\ UNCHANGED <<quantity, book, receipts, begun, told, reworks, overridden>>

Request(c) ==
  \/ \E r \in Requests :
       \/ r.op = "in" /\ CreateReceiptIn(c, r.lines)
       \/ r.op = "adjust" /\ Adjust(c, r.lines)
       \/ r.op = "scan" /\ ScanOut(c, r.order, r.sku, r.rework)
  \/ ReconcileApply(c)
  \/ CloseOut(c)

Next == \E c \in Calls :
  \/ Request(c) \/ CloseWrite(c) \/ CloseMark(c)
  \/ CountDeductions(c) \/ Read(c) \/ CommitNothing(c) \/ Commit(c)
  \/ Again(c) \/ DuplicateKey(c) \/ Answer(c) \/ Die(c)

Spec == Init /\ [][Next]_vars

(***************************************************************************)
(* Properties.                                                             *)
(***************************************************************************)
TypeOK ==
  /\ quantity \in [Skus -> Int \cup {NoItem}]
  /\ \A i \in DOMAIN book :
       /\ book[i].sku \in Skus
       /\ book[i].kind \in {"in", "out", "adjust"}
       /\ book[i].qty \in Int \ {0}
       /\ book[i].receipt \in 0 .. Len(receipts)
  /\ \A c \in Calls : calls[c].pc \in {"idle", "next", "commit", "again", "close", "mark"}
  /\ begun \in 0 .. MaxCalls
  /\ reworks \in [Orders -> Nat]
  /\ overridden \subseteq Orders
  /\ tangled \in BOOLEAN

\* The stock of an item is what its last row leaves, and its rows are a chain, each
\* beginning where the one before ended, whatever movements interleave.
StockIsLedger ==
  \A s \in Skus :
    /\ \A i \in RowsOf(s) :
         LET earlier == {j \in RowsOf(s) : j < i} IN
         /\ book[i].before = (IF earlier = {} THEN 0 ELSE book[Max(earlier)].after)
         /\ book[i].after = book[i].before + book[i].qty
    /\ IF RowsOf(s) = {} THEN quantity[s] \in {NoItem, 0}
       ELSE quantity[s] = book[Max(RowsOf(s))].after

\* An order that nobody scans as another SKU is deducted once, and once more at most for
\* each scan that was meant to: not by a repeated scan, and not by a reconciliation that
\* overlaps one.  Its deductions are numbered without a gap.
DeductedAsOrdered ==
  \A o \in Orders \ overridden :
    LET n == Cardinality(OutRows(o)) IN
    /\ n <= 1 + reworks[o]
    /\ {book[i].key[2] : i \in OutRows(o)} = 1 .. n
    /\ \A i \in OutRows(o) : book[i].sku = OrderSku[o] /\ book[i].qty = -OrderQty[o]

\* No line of one goods receipt is booked twice, whatever its transaction had to repeat, and
\* when the receipt is answered every line is on the books.
BookedLines(r) == {i \in DOMAIN book : book[i].kind = "in" /\ book[i].receipt = r}
ReceiptsAreBooked ==
  \A r \in DOMAIN receipts : receipts[r].type = "in" =>
    /\ \A i \in BookedLines(r) :
         LET line == receipts[r].lines[book[i].key[2]] IN
         book[i].sku = line.sku /\ book[i].qty = line.qty
    /\ \A i, j \in BookedLines(r) : book[i].key = book[j].key => i = j
    /\ [op |-> "in", receipt |-> r] \in told =>
         Cardinality(BookedLines(r)) = Len(receipts[r].lines)

\* A delivery that is posted again because the first request was not answered is not
\* counted twice: of two receipts with the same lines, the later books a line that the
\* earlier has on the books only if the earlier was answered.
PostedOnce ==
  \A i, j \in DOMAIN book :
    /\ book[i].kind = "in" /\ book[j].kind = "in"
    /\ book[i].receipt < book[j].receipt
    /\ receipts[book[i].receipt].lines = receipts[book[j].receipt].lines
    /\ book[i].key[2] = book[j].key[2]
    => [op |-> "in", receipt |-> book[i].receipt] \in told

\* A closing receipt that is finished says how much was taken of each SKU by the deductions
\* marked with it: also when orders are scanned while it is written.  Closings at the same
\* time, and one that dies before it has marked its deductions, are set aside.
ClosingsAddUp ==
  ~tangled =>
    \A r \in DOMAIN receipts :
      receipts[r].type = "out" /\ (\A c \in Calls : ~(calls[c].pc = "mark" /\ calls[c].receipt = r)) =>
        \A s \in Skus : receipts[r].lines[s] = Deducted({i \in DOMAIN book : book[i].receipt = r /\ book[i].kind = "out"}, s)

\* A scan is answered with a deduction of its order, and every deduction is the new one of
\* one scan at most: the others are told that it had been made.
ScansAreAnswered ==
  \A a \in told : a.op = "scan" =>
    /\ a.last.row \in OutRows(a.order)
    /\ \A b \in told :
         b.op = "scan" /\ ~a.last.dup /\ ~b.last.dup /\ a.last.row = b.last.row => a = b

\* With all its interleavings, repetitions and deaths the inventory is the book StockLedger
\* describes: every movement is made once and at one moment, of the stock as it is then, and
\* is one that a receipt, a count or an order asks for.
Entry(row) == [sku |-> row.sku, kind |-> row.kind, qty |-> row.qty, before |-> row.before,
               after |-> row.after, key |-> row.key, refs |-> row.refs]
Ledger == INSTANCE StockLedger WITH
  rows <- [i \in DOMAIN book |-> Entry(book[i])],
  issued <- [n \in DOMAIN receipts |-> IF receipts[n].type = "in" THEN receipts[n].lines ELSE <<>>]
ImplementsStockLedger == Ledger!Spec
=============================================================================
