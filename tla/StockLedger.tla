---------------------------- MODULE StockLedger ----------------------------
(***************************************************************************)
(* What the inventory of a factory promises, with its transactions, their  *)
(* repetitions and their races abstracted away: a book in which every      *)
(* movement of stock is one row, made of the stock as it is at that        *)
(* moment.  A line of a goods receipt is booked once and as the receipt    *)
(* has it, a count leaves the stock that was counted, and a deduction      *)
(* takes what its order needs.  There is no cached stock here: what the    *)
(* last row of an item leaves IS its stock.  Inventory implements this.    *)
(***************************************************************************)
EXTENDS Integers, Sequences, FiniteSets, FiniteSetsExt

CONSTANTS Skus, Orders, OrderSku, OrderQty, Requests, None

VARIABLES
  rows,    \* the movements, oldest first
  issued   \* the receipts, by number: the lines of goods that came in

stockVars == <<rows, issued>>

Init == rows = <<>> /\ issued = <<>>

RowsOf(s) == {i \in DOMAIN rows : rows[i].sku = s}
Stock(s) == IF RowsOf(s) = {} THEN 0 ELSE rows[Max(RowsOf(s))].after

\* An item has no two movements of a kind with one key.
Used(s, kind, key) ==
  key # None /\ \E i \in RowsOf(s) : rows[i].kind = kind /\ rows[i].key = key

Book(s, kind, qty, key, refs) ==
  /\ qty # 0
  /\ ~Used(s, kind, key)
  /\ rows' = Append(rows, [sku |-> s, kind |-> kind, qty |-> qty, before |-> Stock(s),
                           after |-> Stock(s) + qty, key |-> key, refs |-> refs])
  /\ UNCHANGED issued

\* Goods have come in, or (no lines) deductions are put on a receipt.
Issue(lines) == issued' = Append(issued, lines) /\ UNCHANGED rows

Receive(n, i) == Book(issued[n][i].sku, "in", issued[n][i].qty, <<n, i>>, n)

Count(line) == Book(line.sku, "adjust", line.qty - Stock(line.sku), None, None)

\* The SKUs an order may be deducted as: its own, and what it is scanned as.
ScannedAs(o) == {OrderSku[o]} \cup {r.sku : r \in {q \in Requests : q.op = "scan" /\ q.order = o}}
Deductions(o) == {i \in DOMAIN rows : rows[i].kind = "out" /\ rows[i].refs = o}
Deduct(o, s, n) == Book(s, "out", -OrderQty[o], <<o, n>>, o)

Next ==
  \/ Issue(<<>>)
  \/ \E r \in Requests : r.op = "in" /\ Issue(r.lines)
  \/ \E n \in DOMAIN issued : \E i \in DOMAIN issued[n] : Receive(n, i)
  \/ \E r \in Requests : r.op = "adjust" /\ \E i \in DOMAIN r.lines : Count(r.lines[i])
  \/ \E o \in Orders : \E s \in ScannedAs(o), n \in 1 .. Cardinality(Deductions(o)) + 1 : Deduct(o, s, n)

\* Said this way TLC tries no booking for a step that books nothing.
Spec == Init /\ [][UNCHANGED stockVars \/ Next]_stockVars
=============================================================================
