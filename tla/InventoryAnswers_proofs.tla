------------------------ MODULE InventoryAnswers_proofs ------------------------
(***************************************************************************)
(* That what the callers of the inventory are told is so: a goods receipt  *)
(* is booked, line by line and once, a scan was answered with a deduction  *)
(* of its order that no other scan was answered with, and a closing        *)
(* receipt says what the deductions on it took                             *)
(***************************************************************************)
EXTENDS InventoryDeductions_proofs

-----------------------------------------------------------------------------
(* The inductive invariants of receipts and of scans *)

\* The movement that books a line.
LineWork(recs, r, j) == Adding(recs[r].lines[j].sku, "in", recs[r].lines[j].qty, <<r, j>>, r)
LineBooked(r, j, b) == \E i \in 1 .. Len(b) : b[i].kind = "in" /\ b[i].key = <<r, j>>

\* A call that books a goods receipt has its last lines to do, and the others are booked.
InWorkOK(k, recs, b) ==
  /\ k.pc \in {"next", "commit", "again"}
  /\ k.receipt \in 1 .. Len(recs) /\ recs[k.receipt].type = "in"
  /\ \E done \in 0 .. Len(recs[k.receipt].lines) :
       /\ done + Len(k.todo) = Len(recs[k.receipt].lines)
       /\ \A i \in 1 .. Len(k.todo) : k.todo[i] = LineWork(recs, k.receipt, done + i)
       /\ \A j \in 1 .. done : LineBooked(k.receipt, j, b)

InCallOK(k, recs, b) ==
  /\ \A i \in k.rows : i \in 1 .. Len(b) /\ b[i].kind = "out"
  /\ IF k.op = "in" THEN InWorkOK(k, recs, b) ELSE \A i \in 1 .. Len(k.todo) : k.todo[i].kind # "in"

InRowOK(row, recs) ==
  row.kind = "in" =>
    /\ row.receipt \in 1 .. Len(recs) /\ recs[row.receipt].type = "in"
    /\ \E j \in 1 .. Len(recs[row.receipt].lines) :
         /\ row.key = <<row.receipt, j>>
         /\ row.sku = recs[row.receipt].lines[j].sku /\ row.qty = recs[row.receipt].lines[j].qty

InToldOK(a, recs, b) ==
  a.op = "in" => a.receipt \in 1 .. Len(recs) /\ \A j \in 1 .. Len(recs[a.receipt].lines) : LineBooked(a.receipt, j, b)

LinesOK(rec) ==
  rec.type = "in" => rec.lines \in Seq(Lines) /\ \A j \in 1 .. Len(rec.lines) : rec.lines[j].qty > 0

OnceBooked(b) ==
  \A i, h \in 1 .. Len(b) : b[i].kind = "in" /\ b[h].kind = "in" /\ b[i].key = b[h].key => i = h

ReceiptsInOrder ==
  /\ \A r \in 1 .. Len(receipts) : LinesOK(receipts[r])
  /\ \A c \in Calls : InCallOK(calls[c], receipts, book)
  /\ \A i \in 1 .. Len(book) : InRowOK(book[i], receipts)
  /\ OnceBooked(book)
  /\ \A a \in told : InToldOK(a, receipts, book)

\* A scan has its order to deduct, or an answer.
Scanned(k) == k.op = "scan" /\ k.todo = <<>>
ScanCallOK(k, b) ==
  k.op = "scan" =>
    /\ k.pc \in {"next", "commit", "again"} /\ k.order \in Orders /\ ~k.unchanged
    /\ IF k.todo = <<>>
       THEN k.last.row \in 1 .. Len(b) /\ b[k.last.row].kind = "out" /\ b[k.last.row].refs = k.order
       ELSE /\ Len(k.todo) = 1
            /\ \/ k.todo[1].kind = "scan" /\ k.todo[1].order = k.order
               \/ k.todo[1].kind = "out" /\ k.todo[1].refs = k.order

ScanToldOK(a, b) ==
  a.op = "scan" => a.last.row \in 1 .. Len(b) /\ b[a.last.row].kind = "out" /\ b[a.last.row].refs = a.order

\* Nobody else has been given the deduction that a scan says it made.
OwnRow(c) ==
  LET last == calls[c].last IN
  Scanned(calls[c]) /\ ~last.dup =>
    /\ \A d \in Calls \ {c} : Scanned(calls[d]) /\ ~calls[d].last.dup => calls[d].last.row # last.row
    /\ \A a \in told : a.op = "scan" /\ ~a.last.dup => a.last.row # last.row

OneAnswer ==
  \A a, b \in told :
    a.op = "scan" /\ b.op = "scan" /\ ~a.last.dup /\ ~b.last.dup /\ a.last.row = b.last.row => a = b

ScansInOrder ==
  /\ \A c \in Calls : ScanCallOK(calls[c], book)
  /\ \A a \in told : ScanToldOK(a, book)
  /\ \A c \in Calls : OwnRow(c)
  /\ OneAnswer

-----------------------------------------------------------------------------
(* What a step does to its call, and to the receipts *)

LEMMA AppendedLast ==
  ASSUME NEW s, Listed(s), NEW e
  PROVE  /\ Len(s) \in Nat /\ Len(Append(s, e)) = Len(s) + 1
         /\ Append(s, e)[Len(s) + 1] = e /\ \A i \in 1 .. Len(s) : Append(s, e)[i] = s[i]
<1>1. PICK S : s \in Seq(S)
  BY DEF Listed
<1> DEFINE T == S \cup {e}
<1>2. s \in Seq(T) /\ e \in T
  BY <1>1, SeqMonotonic
<1> HIDE DEF T
<1> QED
  BY <1>2, AppendProperties, LenProperties

LEMMA ListedDomain ==
  ASSUME NEW s, Listed(s)
  PROVE  DOMAIN s = 1 .. Len(s)
BY LenProperties DEF Listed

\* The receipts only grow.
LEMMA ReceiptsGrow ==
  ASSUME Typed, NEW c \in Calls, Step(c)
  PROVE  /\ Len(receipts) \in Nat /\ Len(receipts') \in Nat /\ Len(receipts) <= Len(receipts')
         /\ \A r \in 1 .. Len(receipts) : r \in 1 .. Len(receipts') /\ receipts'[r] = receipts[r]
<1>1. Listed(receipts) /\ Len(receipts) \in Nat
  BY AppendListed DEF Typed
<1>2. ASSUME NEW e, receipts' = Append(receipts, e)
      PROVE  Len(receipts') = Len(receipts) + 1 /\ \A r \in 1 .. Len(receipts) : receipts'[r] = receipts[r]
  BY <1>1, <1>2, AppendedLast
<1>3. receipts' = receipts \/ \E e : receipts' = Append(receipts, e)
  BY Zenon DEF Step, Request, CreateReceiptIn, Adjust, ScanOut, ReconcileApply, CloseOut, CloseWrite,
    CloseMark, CountDeductions, Read, CommitNothing, Commit, Again, DuplicateKey, Answer, Die
<1>4. CASE receipts' = receipts
  BY <1>1, <1>4
<1>5. CASE \E e : receipts' = Append(receipts, e)
  <2>1. Len(receipts') = Len(receipts) + 1 /\ \A r \in 1 .. Len(receipts) : receipts'[r] = receipts[r]
    BY <1>2, <1>5
  <2> QED
    BY <1>1, <2>1
<1> QED
  BY <1>3, <1>4, <1>5

\* What a request makes of its call.
LEMMA ReceivingFields ==
  ASSUME NEW r, NEW t, NEW op, NEW id
  PROVE  LET k == Receiving(Idle, r, t, op, id)
         IN  k.op = op /\ k.todo = t /\ k.rows = {} /\ k.pc = "next" /\ k.receipt = r
<1>1. ASSUME NEW i \in CallRecords
      PROVE  LET k == Receiving(i, r, t, op, id)
             IN  k.op = op /\ k.todo = t /\ k.rows = i.rows /\ k.pc = "next" /\ k.receipt = r
  BY DEF CallRecords, Receiving
<1>2. Idle.rows = {}
  BY DEF Idle
<1> QED
  BY <1>1, <1>2, IdleType

LEMMA WorkingFields ==
  ASSUME NEW o, NEW t, NEW op, NEW id
  PROVE  LET k == Working(Idle, o, t, op, id)
         IN  k.op = op /\ k.todo = t /\ k.rows = {} /\ k.pc = "next" /\ k.order = o /\ ~k.unchanged
<1>1. ASSUME NEW i \in CallRecords
      PROVE  LET k == Working(i, o, t, op, id)
             IN  k.op = op /\ k.todo = t /\ k.rows = i.rows /\ k.pc = "next" /\ k.order = o /\ k.unchanged = i.unchanged
  BY DEF CallRecords, Working
<1>2. Idle.rows = {} /\ ~Idle.unchanged
  BY DEF Idle
<1> QED
  BY <1>1, <1>2, IdleType

LEMMA ReconcilingFields ==
  ASSUME NEW t, NEW op, NEW id
  PROVE  LET k == Reconciling(Idle, t, op, id)
         IN  k.op = op /\ k.todo = t /\ k.rows = {}
<1>1. ASSUME NEW i \in CallRecords
      PROVE  LET k == Reconciling(i, t, op, id)
             IN  k.op = op /\ k.todo = t /\ k.rows = i.rows
  BY DEF CallRecords, Reconciling
<1>2. Idle.rows = {}
  BY DEF Idle
<1> QED
  BY <1>1, <1>2, IdleType

LEMMA ClosingFields ==
  ASSUME NEW t, NEW op, NEW id
  PROVE  LET k == Closing(Idle, t, op, id)
         IN  k.pc = "close" /\ k.op = op /\ k.todo = <<>> /\ k.rows = t
<1>1. ASSUME NEW i \in CallRecords
      PROVE  LET k == Closing(i, t, op, id)
             IN  k.pc = "close" /\ k.op = op /\ k.todo = i.todo /\ k.rows = t
  BY DEF CallRecords, Closing
<1>2. Idle.todo = <<>>
  BY IdleTodo
<1> QED
  BY <1>1, <1>2, IdleType

\* The requests, one by one.
BeginsIn(c, k) ==
  \E lines \in Seq(Lines) :
    /\ \A j \in 1 .. Len(lines) : lines[j].qty > 0
    /\ receipts' = Append(receipts, [type |-> "in", lines |-> lines])
    /\ k.op = "in" /\ k.pc = "next" /\ k.receipt = Len(receipts) + 1 /\ k.rows = {}
    /\ k.todo \in [1 .. Len(lines) -> Work]
    /\ \A i \in 1 .. Len(lines) :
         k.todo[i] = Adding(lines[i].sku, "in", lines[i].qty, <<Len(receipts) + 1, i>>, Len(receipts) + 1)
BeginsScan(c, k) ==
  /\ k.op = "scan" /\ k.pc = "next" /\ k.rows = {} /\ ~k.unchanged
  /\ \E o \in Orders, s \in Skus, r \in BOOLEAN : k.order = o /\ k.todo = <<Scan(o, s, r)>>
BeginsOther(c, k) ==
  /\ k.op \in {"adjust", "reconcile"} /\ k.rows = {}
  /\ k.todo \in Seq(Work) /\ \A i \in 1 .. Len(k.todo) : k.todo[i].kind # "in"
BeginsClose(c, k) ==
  k.op = "close" /\ k.todo = <<>> /\ k.rows = {i \in DOMAIN book : book[i].kind = "out" /\ book[i].receipt = 0}

LEMMA Begun ==
  ASSUME Typed, NEW c \in Calls, NEW op, NEW call, Begin(c, op, call)
  PROVE  calls'[c] = [call EXCEPT !.op = op, !.id = begun + 1]
BY DEF Begin, Typed

LEMMA InBegins ==
  ASSUME Typed, NEW c \in Calls, NEW lines \in Seq(Lines), \A j \in DOMAIN lines : lines[j].qty > 0,
         CreateReceiptIn(c, lines)
  PROVE  BeginsIn(c, calls'[c])
<1> DEFINE r == Len(receipts) + 1
           t == [i \in DOMAIN lines |-> Adding(lines[i].sku, "in", lines[i].qty, <<r, i>>, r)]
<1>1. r \in Nat /\ Len(lines) \in Nat /\ DOMAIN lines = 1 .. Len(lines)
      /\ \A i \in 1 .. Len(lines) : lines[i] \in Lines
  BY LenProperties, AppendListed DEF Typed
<1>2. Begin(c, "in", [Idle EXCEPT !.pc = "next", !.receipt = r, !.todo = t])
  BY DEF CreateReceiptIn
<1>3. calls'[c] = Receiving(Idle, r, t, "in", begun + 1)
  <2> HIDE DEF t
  <2> QED
    BY <1>2, Begun, Zenon DEF Receiving
<1>4. ASSUME NEW i \in 1 .. Len(lines)
      PROVE  Adding(lines[i].sku, "in", lines[i].qty, <<r, i>>, r) \in Movements
  <2> HIDE DEF r
  <2> QED
    BY <1>1 DEF Lines, Adding, Movements, Keys, Refs, Kinds
<1> HIDE DEF r
<1>5. t \in [1 .. Len(lines) -> Work]
      /\ \A i \in 1 .. Len(lines) : t[i] = Adding(lines[i].sku, "in", lines[i].qty, <<r, i>>, r)
  BY <1>1, <1>4 DEF Work
<1> HIDE DEF t
<1>6. LET k == calls'[c] IN k.op = "in" /\ k.pc = "next" /\ k.receipt = r /\ k.rows = {} /\ k.todo = t
  BY <1>3, ReceivingFields
<1>7. receipts' = Append(receipts, [type |-> "in", lines |-> lines])
  BY DEF CreateReceiptIn
<1> QED
  BY <1>1, <1>5, <1>6, <1>7 DEF BeginsIn, r

LEMMA AdjustBegins ==
  ASSUME Typed, NEW c \in Calls, NEW counts \in Seq(Lines), Adjust(c, counts)
  PROVE  BeginsOther(c, calls'[c])
<1> DEFINE t == [i \in DOMAIN counts |-> Counted(counts[i].sku, counts[i].qty)]
<1>1. Len(counts) \in Nat /\ DOMAIN counts = 1 .. Len(counts) /\ \A i \in 1 .. Len(counts) : counts[i] \in Lines
  BY LenProperties
<1>2. Begin(c, "adjust", [Idle EXCEPT !.pc = "next", !.todo = t])
  BY DEF Adjust
<1>3. ASSUME NEW i \in 1 .. Len(counts)
      PROVE  Counted(counts[i].sku, counts[i].qty) \in Movements /\ Counted(counts[i].sku, counts[i].qty).kind = "adjust"
  BY <1>1 DEF Lines, Counted, Movements, Keys, Refs, Kinds
<1>4. t \in [1 .. Len(counts) -> Work] /\ \A i \in 1 .. Len(counts) : t[i].kind = "adjust"
  BY <1>1, <1>3 DEF Work
<1> HIDE DEF t
<1>5. t \in Seq(Work) /\ Len(t) = Len(counts)
  BY <1>1, <1>4, SeqOfFunction
<1>6. calls'[c] = Reconciling(Idle, t, "adjust", begun + 1)
  BY <1>2, Begun, Zenon DEF Reconciling
<1>7. LET k == calls'[c] IN k.op = "adjust" /\ k.rows = {} /\ k.todo = t
  BY <1>6, ReconcilingFields
<1> QED
  BY <1>4, <1>5, <1>7 DEF BeginsOther

LEMMA ReconcileBegins ==
  ASSUME Typed, NEW c \in Calls, ReconcileApply(c)
  PROVE  BeginsOther(c, calls'[c])
<1> DEFINE due == SetToSeq({o \in Orders : OutRows(o) = {}})
           t == [i \in DOMAIN due |-> Scan(due[i], OrderSku[due[i]], FALSE)]
<1>1. Begin(c, "reconcile", [Idle EXCEPT !.pc = "next", !.todo = t])
  BY DEF ReconcileApply
<1> HIDE DEF due
<1>4. \A i \in DOMAIN t : t[i].kind = "scan"
  BY DEF Scan
<1> HIDE DEF t
<1>2. calls'[c] = Reconciling(Idle, t, "reconcile", begun + 1)
  BY <1>1, Begun, Zenon DEF Reconciling
<1>3. LET k == calls'[c] IN k.op = "reconcile" /\ k.rows = {} /\ k.todo = t
  BY <1>2, ReconcilingFields
<1>5. calls'[c].todo \in Seq(Work)
  <2>1. Typed'
    BY TypedStep DEF Next, Request
  <2> QED
    BY <2>1 DEF Typed, CallRecords
<1>6. ASSUME NEW i \in 1 .. Len(calls'[c].todo) PROVE calls'[c].todo[i].kind # "in"
  <2>1. DOMAIN t = 1 .. Len(t)
    BY <1>3, <1>5, LenProperties
  <2> QED
    BY <1>3, <1>4, <2>1
<1> QED
  BY <1>3, <1>5, <1>6 DEF BeginsOther

LEMMA ScanBegins ==
  ASSUME Typed, NEW c \in Calls, NEW o \in Orders, NEW s \in Skus, NEW r \in BOOLEAN, ScanOut(c, o, s, r)
  PROVE  BeginsScan(c, calls'[c])
<1> DEFINE t == <<Scan(o, s, r)>>
<1>1. Begin(c, "scan", [Idle EXCEPT !.pc = "next", !.order = o, !.todo = t])
  BY DEF ScanOut
<1>2. calls'[c] = Working(Idle, o, t, "scan", begun + 1)
  <2> HIDE DEF t
  <2> QED
    BY <1>1, Begun, Zenon DEF Working
<1> HIDE DEF t
<1>3. LET k == calls'[c] IN k.op = "scan" /\ k.pc = "next" /\ k.rows = {} /\ ~k.unchanged /\ k.order = o /\ k.todo = t
  BY <1>2, WorkingFields
<1> QED
  BY <1>3 DEF BeginsScan, t

LEMMA CloseBegins ==
  ASSUME Typed, NEW c \in Calls, CloseOut(c)
  PROVE  BeginsClose(c, calls'[c])
<1> DEFINE open == {i \in DOMAIN book : book[i].kind = "out" /\ book[i].receipt = 0}
<1>1. Begin(c, "close", [Idle EXCEPT !.pc = "close", !.rows = open])
  BY DEF CloseOut
<1>2. calls'[c] = Closing(Idle, open, "close", begun + 1)
  <2> HIDE DEF open
  <2> QED
    BY <1>1, Begun, Zenon DEF Closing
<1> HIDE DEF open
<1>3. LET k == calls'[c] IN k.op = "close" /\ k.todo = <<>> /\ k.rows = open
  BY <1>2, ClosingFields
<1> QED
  BY <1>3 DEF BeginsClose, open

LEMMA RequestBegins ==
  ASSUME Typed, NEW c \in Calls, Request(c)
  PROVE  LET k == calls'[c]
         IN  \/ BeginsIn(c, k)
             \/ UNCHANGED receipts /\ (BeginsScan(c, k) \/ BeginsOther(c, k) \/ BeginsClose(c, k))
<1>1. CASE \E r \in Requests : r.op = "in" /\ CreateReceiptIn(c, r.lines)
  BY <1>1, InBegins, RequestsAssumption
<1>2. CASE \E r \in Requests : r.op = "adjust" /\ Adjust(c, r.lines)
  BY <1>2, AdjustBegins, RequestsAssumption DEF Adjust
<1>3. CASE \E r \in Requests : r.op = "scan" /\ ScanOut(c, r.order, r.sku, r.rework)
  BY <1>3, ScanBegins, RequestsAssumption DEF ScanOut
<1>4. CASE ReconcileApply(c)
  BY <1>4, ReconcileBegins DEF ReconcileApply
<1>5. CASE CloseOut(c)
  BY <1>5, CloseBegins DEF CloseOut
<1> QED
  BY <1>1, <1>2, <1>3, <1>4, <1>5 DEF Request

\* A call goes on with its next movement.
LEMMA MovedFields ==
  ASSUME Typed, NEW c \in Calls, NEW i, NEW d, calls' = [calls EXCEPT ![c] = Moved(c, i, d)]
  PROVE  LET k == calls[c]
             h == calls'[c]
         IN  /\ h.pc = "next" /\ h.op = k.op /\ h.order = k.order /\ h.receipt = k.receipt /\ h.rows = k.rows
             /\ h.todo = Tail(k.todo) /\ ~h.unchanged
BY DEF Typed, Moved, CallRecords

LEMMA MovedLast ==
  ASSUME Typed, NEW c \in Calls, NEW i, NEW d, calls' = [calls EXCEPT ![c] = Moved(c, i, d)]
  PROVE  calls'[c].last.row = i /\ calls'[c].last.dup = d
BY DEF Typed, Moved, CallRecords

LEMMA ReadFields ==
  ASSUME Typed, NEW c \in Calls, Read(c) \/ Again(c)
  PROVE  LET k == calls[c]
             h == calls'[c]
         IN  /\ h.pc \in {"commit", "again"} /\ h.op = k.op /\ h.order = k.order /\ h.receipt = k.receipt
             /\ h.rows = k.rows /\ h.todo = k.todo
             /\ k.todo # <<>> /\ k.pc \in {"next", "again", "commit"}
             /\ h.unchanged => k.unchanged \/ (Read(c) /\ Qty(Movement(c)) = 0)
<1>1. calls \in [Calls -> CallRecords] /\ calls[c] \in CallRecords
  BY DEF Typed
<1>2. CASE Again(c)
  <2>1. calls[c].todo # <<>>
    BY <1>2, CommitFacts DEF Again
  <2> QED
    BY <1>1, <1>2, <2>1 DEF Again, CallRecords
<1>3. CASE Read(c)
  <2> DEFINE m == Movement(c)
             s == [item |-> quantity[m.sku], stock |-> Stock(m.sku), rows |-> RowsOf(m.sku),
                   found |-> Keyed(m), qty |-> Qty(m)]
             u == calls[c].dup \/ Keyed(m) # {}
             w == calls[c].unchanged \/ (Keyed(m) = {} /\ Qty(m) = 0)
  <2>1. calls' = [calls EXCEPT ![c] = [calls[c] EXCEPT !.pc = "commit", !.seen = s, !.dup = u, !.unchanged = w]]
    BY <1>1, <1>3 DEF Read, CallRecords
  <2>2. calls[c].todo # <<>> /\ calls[c].pc \in {"next", "again", "commit"}
    BY <1>3 DEF Read
  <2>3. w => calls[c].unchanged \/ Qty(m) = 0
    BY Zenon
  <2> HIDE DEF s, u, w
  <2>4. LET k == calls[c]
            h == calls'[c]
        IN  /\ h.pc = "commit" /\ h.op = k.op /\ h.order = k.order /\ h.receipt = k.receipt
            /\ h.rows = k.rows /\ h.todo = k.todo /\ h.unchanged = w
    BY <1>1, <2>1 DEF CallRecords
  <2> QED
    BY <1>3, <2>2, <2>3, <2>4
<1> QED
  BY <1>2, <1>3

\* A movement that is done is booked: by its row, or by the one that was found.
LEMMA MovementBooked ==
  ASSUME Typed, NEW c \in Calls, CallsInStep, NEW i, NEW d,
         calls' = [calls EXCEPT ![c] = Moved(c, i, d)],
         Movement(c).key # None, ~Movement(c).set, Movement(c).qty # 0,
         Commit(c) \/ CommitNothing(c) \/ DuplicateKey(c)
  PROVE  /\ i \in Nat
         /\ \/ Commit(c)
            \/ /\ i \in 1 .. Len(book) /\ book[i].kind = Movement(c).kind /\ book[i].key = Movement(c).key
               /\ ~Commit(c) /\ calls'[c].last.dup
         /\ Commit(c) => i = IF calls[c].unchanged THEN 0 ELSE Len(book) + 1
<1> DEFINE m == Movement(c)
           k == calls[c]
<1>1. k \in CallRecords /\ calls \in [Calls -> CallRecords]
  BY DEF Typed
<1>2. calls'[c].last.row = i /\ calls'[c].last.dup = d
  BY MovedLast, Zenon
<1>3. ASSUME NEW x, NEW y, calls' = [calls EXCEPT ![c] = Moved(c, x, y)] PROVE x = i /\ y = d
  <2>1. calls'[c].last.row = x /\ calls'[c].last.dup = y
    BY <1>3, MovedLast, Zenon
  <2> QED
    BY <1>2, <2>1
<1>4. m = k.todo[1] /\ k.pc = "commit"
  <2>1. k.pc = "commit"
    BY DEF Commit, CommitNothing, DuplicateKey
  <2>2. k.todo # <<>>
    BY <2>1, CommitFacts
  <2>3. k.todo \in Seq(Work)
    BY <1>1 DEF CallRecords
  <2>4. Head(k.todo) = k.todo[1]
    BY <2>2, <2>3, HeadTailProperties
  <2> QED
    BY <2>1, <2>4 DEF Movement
<1>5. /\ k.seen.rows \subseteq 1 .. Len(book) /\ k.seen.qty = m.qty
      /\ k.seen.found = {x \in k.seen.rows : book[x].kind = m.kind /\ book[x].key = m.key}
  BY <1>4 DEF CallsInStep, SnapshotOK
<1>6. CASE Commit(c)
  <2>1. i = IF k.unchanged THEN 0 ELSE Len(book) + 1
    BY <1>3, <1>6 DEF Commit
  <2>2. Len(book) \in Nat
    BY LenProperties DEF Typed
  <2> QED
    BY <1>6, <2>1, <2>2
<1>7. CASE CommitNothing(c)
  <2>1. k.seen.qty # 0
    BY <1>5
  <2>2. PICK x \in k.seen.found : calls' = [calls EXCEPT ![c] = Moved(c, x, TRUE)]
    BY <1>7, <2>1 DEF CommitNothing
  <2>3. x = i /\ d = TRUE
    BY <1>3, <2>2
  <2>4. ~Commit(c)
    BY <1>7, <2>1, <2>2 DEF CommitNothing, Commit
  <2>5. calls'[c].last.dup
    BY <1>2, <2>3, Zenon
  <2>6. i \in 1 .. Len(book) /\ i \in Nat /\ book[i].kind = m.kind /\ book[i].key = m.key
    BY <1>5, <2>2, <2>3
  <2> QED
    BY <2>4, <2>5, <2>6, Zenon
<1>8. CASE DuplicateKey(c) /\ ~Commit(c)
  <2>1. calls' # [calls EXCEPT ![c] = Idle]
    <3>1. calls'[c].pc = "next"
      BY MovedFields, Zenon
    <3>2. Idle.pc = "idle"
      BY DEF Idle
    <3> QED
      BY <1>1, <3>1, <3>2
  <2>2. PICK x \in Keyed(m) : calls' = [calls EXCEPT ![c] = Moved(c, x, TRUE)]
    BY <1>8, <2>1, Zenon DEF DuplicateKey
  <2>3. x = i /\ d = TRUE
    BY <1>3, <2>2
  <2>4. x \in DOMAIN book /\ book[x].kind = m.kind /\ book[x].key = m.key
    BY <2>2 DEF Keyed, RowsOf
  <2>5. calls'[c].last.dup
    BY <1>2, <2>3, Zenon
  <2>6. i \in 1 .. Len(book) /\ i \in Nat /\ book[i].kind = m.kind /\ book[i].key = m.key
    BY <2>3, <2>4, BookDomain
  <2> QED
    BY <1>8, <2>5, <2>6, Zenon
<1> QED
  BY <1>6, <1>7, <1>8

-----------------------------------------------------------------------------
(* Goods receipts *)

LEMMA LineKept ==
  ASSUME Typed, NEW c \in Calls, Step(c), NEW r, NEW j, LineBooked(r, j, book)
  PROVE  LineBooked(r, j, book')
<1>1. PICK i \in 1 .. Len(book) : book[i].kind = "in" /\ book[i].key = <<r, j>>
  BY DEF LineBooked
<1>2. i \in 1 .. Len(book') /\ book'[i].kind = "in" /\ book'[i].key = <<r, j>>
  BY <1>1, BookStep
<1> QED
  BY <1>2 DEF LineBooked

LEMMA InWorkKept ==
  ASSUME Typed, NEW c \in Calls, Step(c), NEW k, InWorkOK(k, receipts, book)
  PROVE  InWorkOK(k, receipts', book')
<1> DEFINE r == k.receipt
<1>1. r \in 1 .. Len(receipts') /\ receipts'[r] = receipts[r]
  BY ReceiptsGrow DEF InWorkOK
<1>2. PICK done \in 0 .. Len(receipts[r].lines) :
        /\ done + Len(k.todo) = Len(receipts[r].lines)
        /\ \A i \in 1 .. Len(k.todo) : k.todo[i] = LineWork(receipts, r, done + i)
        /\ \A j \in 1 .. done : LineBooked(r, j, book)
  BY DEF InWorkOK
<1>3. \A j : LineWork(receipts', r, j) = LineWork(receipts, r, j)
  BY <1>1 DEF LineWork
<1>4. \A j \in 1 .. done : LineBooked(r, j, book')
  BY <1>2, LineKept
<1> HIDE DEF r
<1> QED
  BY <1>1, <1>2, <1>3, <1>4 DEF InWorkOK, r

LEMMA InCallKept ==
  ASSUME Typed, NEW c \in Calls, Step(c), NEW k, InCallOK(k, receipts, book)
  PROVE  InCallOK(k, receipts', book')
<1>1. \A i \in k.rows : i \in 1 .. Len(book') /\ book'[i].kind = "out"
  <2>1. \A i \in 1 .. Len(book) : i \in 1 .. Len(book') /\ book'[i].kind = book[i].kind
    BY BookStep
  <2> QED
    BY <2>1 DEF InCallOK
<1> QED
  BY <1>1, InWorkKept DEF InCallOK

LEMMA IdleInOrder == \A recs, b : InCallOK(Idle, recs, b)
<1>1. Idle.rows = {} /\ Idle.op = "" /\ Idle.todo = <<>>
  BY DEF Idle
<1>2. Len(Idle.todo) = 0
  <2>1. Len(<<>>) = 0
    BY EmptySeq
  <2> QED
    BY <1>1, <2>1
<1>3. \A i : i \notin Idle.rows /\ i \notin 1 .. Len(Idle.todo)
  <2>1. Idle.rows = {} /\ 1 .. Len(Idle.todo) = {}
    <3>1. 1 .. 0 = {}
      OBVIOUS
    <3> QED
      BY <1>1, <1>2, <3>1, Zenon
  <2> QED
    BY <2>1, Zenon
<1> QED
  BY <1>1, <1>3, Zenon DEF InCallOK

\* A goods receipt begins with all its lines to do.
LEMMA InBeginsInOrder ==
  ASSUME Typed, NEW c \in Calls, BeginsIn(c, calls'[c]), NEW b
  PROVE  InCallOK(calls'[c], receipts', b)
<1> DEFINE k == calls'[c]
           r == Len(receipts) + 1
<1>1. PICK lines \in Seq(Lines) :
        /\ receipts' = Append(receipts, [type |-> "in", lines |-> lines])
        /\ k.op = "in" /\ k.pc = "next" /\ k.receipt = r /\ k.rows = {}
        /\ k.todo \in [1 .. Len(lines) -> Work]
        /\ \A i \in 1 .. Len(lines) : k.todo[i] = Adding(lines[i].sku, "in", lines[i].qty, <<r, i>>, r)
  BY DEF BeginsIn
<1>2. Len(receipts) \in Nat /\ Len(receipts') = r /\ receipts'[r] = [type |-> "in", lines |-> lines]
  BY <1>1, AppendedLast DEF Typed
<1>3. Len(lines) \in Nat
  BY LenProperties
<1>4. Len(k.todo) = Len(lines)
  BY <1>1, <1>3, SeqOfFunction
<1>5. r \in 1 .. Len(receipts') /\ receipts'[r].type = "in" /\ receipts'[r].lines = lines
  BY <1>2
<1> HIDE DEF r
<1>6. \A i \in 1 .. Len(lines) : k.todo[i] = LineWork(receipts', r, i)
  BY <1>1, <1>5 DEF LineWork
<1> HIDE DEF k
<1>7. /\ 0 \in 0 .. Len(lines) /\ 0 + Len(k.todo) = Len(lines)
      /\ \A i \in 1 .. Len(k.todo) : k.todo[i] = LineWork(receipts', r, 0 + i)
      /\ \A j \in 1 .. 0 : LineBooked(r, j, b)
  BY <1>3, <1>4, <1>6
<1>8. InWorkOK(k, receipts', b)
  BY <1>1, <1>5, <1>7 DEF InWorkOK
<1> QED
  BY <1>1, <1>8 DEF InCallOK, k

\* The head of a goods receipt's work.
LEMMA InHead ==
  ASSUME Typed, NEW c \in Calls, ReceiptsInOrder, calls[c].op = "in", calls[c].todo # <<>>
  PROVE  LET m == Movement(c)
         IN  \E j \in Nat \ {0} :
               /\ m = LineWork(receipts, calls[c].receipt, j) /\ m.kind = "in" /\ m.key = <<calls[c].receipt, j>>
               /\ m.refs = calls[c].receipt /\ m.key # None /\ ~m.set /\ m.qty # 0
               /\ j \in 1 .. Len(receipts[calls[c].receipt].lines)
               /\ calls[c].receipt \in 1 .. Len(receipts) /\ receipts[calls[c].receipt].type = "in"
               /\ m.sku = receipts[calls[c].receipt].lines[j].sku
               /\ m.qty = receipts[calls[c].receipt].lines[j].qty
<1> DEFINE k == calls[c]
           r == k.receipt
           n == Len(receipts[r].lines)
           m == Movement(c)
<1>1. InWorkOK(k, receipts, book)
  BY DEF ReceiptsInOrder, InCallOK
<1>2. PICK done \in 0 .. n :
        /\ done + Len(k.todo) = n
        /\ \A i \in 1 .. Len(k.todo) : k.todo[i] = LineWork(receipts, r, done + i)
  BY <1>1 DEF InWorkOK
<1>3. r \in 1 .. Len(receipts) /\ receipts[r].type = "in" /\ r \in Nat
  <2>1. Len(receipts) \in Nat
    BY AppendListed DEF Typed
  <2> QED
    BY <1>1, <2>1 DEF InWorkOK
<1>4. receipts[r].lines \in Seq(Lines) /\ \A j \in 1 .. n : receipts[r].lines[j].qty > 0
  BY <1>3 DEF ReceiptsInOrder, LinesOK
<1>5. Len(k.todo) \in Nat \ {0} /\ m = k.todo[1]
  <2>1. k.todo \in Seq(Work)
    BY DEF Typed, CallRecords
  <2> QED
    BY <2>1, EmptySeq DEF Movement
<1>6. n \in Nat
  BY <1>4, LenProperties
<1> DEFINE j == done + 1
<1>7. j \in Nat \ {0} /\ j \in 1 .. n
  <2>1. Len(k.todo) \in Nat \ {0} /\ done + Len(k.todo) = n /\ done \in Nat
    BY <1>2, <1>5, <1>6
  <2> HIDE DEF n, k, m
  <2> QED
    BY <1>6, <2>1
<1>8. m = LineWork(receipts, r, j)
  BY <1>2, <1>5
<1> HIDE DEF j, m, n
<1>9. m.kind = "in" /\ m.key = <<r, j>> /\ m.refs = r /\ ~m.set
      /\ m.sku = receipts[r].lines[j].sku /\ m.qty = receipts[r].lines[j].qty
  BY <1>8 DEF LineWork, Adding
<1>10. m.qty # 0
  <2>1. receipts[r].lines[j] \in Lines /\ receipts[r].lines[j].qty > 0
    BY <1>4, <1>7 DEF n
  <2> QED
    BY <1>9, <2>1 DEF Lines
<1>11. m.key # None
  BY <1>3, <1>7, <1>9, InventoryAssumption
<1> QED
  BY <1>3, <1>7, <1>8, <1>9, <1>10, <1>11 DEF m, n

\* The line that a call has done is booked after it.
LEMMA InLineDone ==
  ASSUME Typed, NEW c \in Calls, Step(c), CallsInStep, ReceiptsInOrder, calls[c].op = "in", calls[c].todo # <<>>,
         NEW i, NEW d, calls' = [calls EXCEPT ![c] = Moved(c, i, d)],
         Commit(c) \/ CommitNothing(c) \/ DuplicateKey(c)
  PROVE  \A j : Movement(c).key = <<calls[c].receipt, j>> => LineBooked(calls[c].receipt, j, book')
<1> DEFINE m == Movement(c)
<1>1. m.kind = "in" /\ m.key # None /\ ~m.set /\ m.qty # 0
  BY InHead
<1> SUFFICES ASSUME NEW j, m.key = <<calls[c].receipt, j>> PROVE LineBooked(calls[c].receipt, j, book')
  OBVIOUS
<1>2. CASE Commit(c)
  <2>1. Len(book) \in Nat /\ Len(book') = Len(book) + 1
        /\ book'[Len(book) + 1] = Row(m, calls[c].seen.stock, calls[c].seen.qty)
    BY <1>2, BookStep
  <2>2. book'[Len(book) + 1].kind = "in" /\ book'[Len(book) + 1].key = m.key
    BY <1>1, <2>1 DEF Row
  <2>3. Len(book) + 1 \in 1 .. Len(book')
    BY <2>1
  <2> QED
    BY <2>2, <2>3 DEF LineBooked
<1>3. CASE ~Commit(c)
  <2>1. i \in 1 .. Len(book) /\ book[i].kind = m.kind /\ book[i].key = m.key
    BY <1>1, <1>3, MovementBooked
  <2>2. LineBooked(calls[c].receipt, j, book)
    BY <1>1, <2>1 DEF LineBooked
  <2> QED
    BY <2>2, LineKept
<1> QED
  BY <1>2, <1>3

\* A call that goes on with its next movement is in order.
LEMMA InMoved ==
  ASSUME Typed, NEW c \in Calls, Step(c), CallsInStep, ReceiptsInOrder, calls[c].todo # <<>>,
         NEW i, NEW d, calls' = [calls EXCEPT ![c] = Moved(c, i, d)],
         calls[c].op = "in" => Commit(c) \/ CommitNothing(c) \/ DuplicateKey(c)
  PROVE  InCallOK(calls'[c], receipts', book')
<1> DEFINE k == calls[c]
           h == calls'[c]
           t == k.todo
<1>1. h.pc = "next" /\ h.op = k.op /\ h.receipt = k.receipt /\ h.rows = k.rows /\ h.todo = Tail(t)
  BY MovedFields
<1>2. t \in Seq(Work)
  BY DEF Typed, CallRecords
<1>3. Len(t) \in Nat \ {0} /\ Len(Tail(t)) = Len(t) - 1 /\ \A x \in 1 .. Len(Tail(t)) : Tail(t)[x] = t[x + 1]
  BY <1>2, EmptySeq, HeadTailProperties
<1>4. InCallOK(k, receipts', book') /\ InCallOK(k, receipts, book)
  BY InCallKept DEF ReceiptsInOrder
<1>5. CASE k.op # "in"
  <2>1. \A x \in 1 .. Len(t) : t[x].kind # "in"
    BY <1>4, <1>5 DEF InCallOK
  <2>2. \A x \in 1 .. Len(Tail(t)) : Tail(t)[x].kind # "in"
    <3>1. \A x \in 1 .. Len(Tail(t)) : x + 1 \in 1 .. Len(t)
      BY <1>3
    <3> QED
      BY <1>3, <2>1, <3>1
  <2> QED
    BY <1>1, <1>4, <1>5, <2>2 DEF InCallOK
<1>6. CASE k.op = "in"
  <2> DEFINE r == k.receipt
             n == Len(receipts'[r].lines)
  <2>1. InWorkOK(k, receipts', book')
    BY <1>4, <1>6 DEF InCallOK
  <2>2. PICK done \in 0 .. n :
          /\ done + Len(t) = n
          /\ \A x \in 1 .. Len(t) : t[x] = LineWork(receipts', r, done + x)
          /\ \A j \in 1 .. done : LineBooked(r, j, book')
    BY <2>1 DEF InWorkOK
  <2>3. Movement(c) = t[1]
    BY <1>2, <1>3, HeadTailProperties DEF Movement
  <2>4. Movement(c).key = <<r, done + 1>>
    <3>1. 1 \in 1 .. Len(t)
      BY <1>3
    <3>2. Movement(c) = LineWork(receipts', r, done + 1)
      BY <2>2, <2>3, <3>1
    <3> QED
      BY <3>2 DEF LineWork, Adding
  <2>5. LineBooked(r, done + 1, book')
    BY <1>6, <2>4, InLineDone
  <2>6. n \in Nat
    <3>1. receipts'[r] = receipts[r] /\ r \in 1 .. Len(receipts)
      BY <1>4, <1>6, ReceiptsGrow DEF InCallOK, InWorkOK
    <3>2. receipts[r].type = "in"
      BY <1>4, <1>6 DEF InCallOK, InWorkOK
    <3> QED
      BY <3>1, <3>2, LenProperties DEF ReceiptsInOrder, LinesOK
  <2> HIDE DEF t, n, k, h
  <2>7. done + 1 \in 0 .. n /\ (done + 1) + Len(Tail(t)) = n
    BY <1>3, <2>2, <2>6
  <2>8. \A x \in 1 .. Len(Tail(t)) : Tail(t)[x] = LineWork(receipts', r, (done + 1) + x)
    <3>1. ASSUME NEW x \in 1 .. Len(Tail(t)) PROVE x + 1 \in 1 .. Len(t) /\ done + (x + 1) = (done + 1) + x
      BY <1>3, <2>2, <2>6
    <3> QED
      BY <1>3, <2>2, <3>1
  <2>9. \A j \in 1 .. done + 1 : LineBooked(r, j, book')
    <3>1. \A j \in 1 .. done + 1 : j \in 1 .. done \/ j = done + 1
      BY <2>2, <2>6
    <3> QED
      BY <2>2, <2>5, <3>1
  <2>10. InWorkOK(h, receipts', book')
    <3>1. h.pc \in {"next", "commit", "again"} /\ h.receipt = r /\ h.todo = Tail(t)
      BY <1>1 DEF k
    <3>2. r \in 1 .. Len(receipts') /\ receipts'[r].type = "in"
      BY <2>1 DEF InWorkOK
    <3> QED
      BY <2>7, <2>8, <2>9, <3>1, <3>2 DEF InWorkOK, n
  <2> QED
    BY <1>1, <1>4, <1>6, <2>10 DEF InCallOK, h, k
<1> QED
  BY <1>5, <1>6

LEMMA InCallStep ==
  ASSUME Typed, NEW c \in Calls, Step(c), CallsInStep, ReceiptsInOrder, NEW d \in Calls
  PROVE  InCallOK(calls'[d], receipts', book')
<1>1. calls \in [Calls -> CallRecords] /\ calls[c] \in CallRecords
  BY DEF Typed
<1>2. \A e \in Calls : InCallOK(calls[e], receipts, book) /\ InCallOK(calls[e], receipts', book')
  BY InCallKept DEF ReceiptsInOrder
<1>3. CASE d # c
  BY <1>2, <1>3, Frame
<1>4. ASSUME calls' = [calls EXCEPT ![c] = Idle] PROVE InCallOK(calls'[c], receipts', book')
  <2>1. calls'[c] = Idle
    BY <1>1, <1>4
  <2> QED
    BY <2>1, IdleInOrder
<1>5. CASE d = c /\ Request(c)
  <2> DEFINE k == calls'[c]
  <2>1. CASE BeginsIn(c, k)
    BY <1>5, <2>1, InBeginsInOrder
  <2>2. CASE BeginsScan(c, k)
    <3>1. PICK o \in Orders, s \in Skus, r \in BOOLEAN : k.todo = <<Scan(o, s, r)>>
      BY <2>2 DEF BeginsScan
    <3>2. k.rows = {} /\ k.op # "in"
      BY <2>2 DEF BeginsScan
    <3> DEFINE w == Scan(o, s, r)
    <3>3. w.kind = "scan"
      BY DEF Scan
    <3> HIDE DEF w
    <3>4. Len(<<w>>) = 1 /\ <<w>>[1] = w
      OBVIOUS
    <3>5. \A x \in 1 .. Len(<<w>>) : <<w>>[x].kind # "in"
      BY <3>3, <3>4
    <3>6. k.todo = <<w>>
      BY <3>1 DEF w
    <3> HIDE DEF k
    <3>7. InCallOK(k, receipts', book')
      BY <3>2, <3>5, <3>6 DEF InCallOK
    <3> QED
      BY <1>5, <3>7 DEF k
  <2>3. CASE BeginsOther(c, k)
    <3>1. k.op # "in" /\ k.rows = {} /\ \A x \in 1 .. Len(k.todo) : k.todo[x].kind # "in"
      BY <2>3 DEF BeginsOther
    <3> QED
      BY <1>5, <3>1 DEF InCallOK
  <2>4. CASE BeginsClose(c, k)
    <3>1. k.op # "in" /\ k.todo = <<>> /\ \A x \in k.rows : x \in DOMAIN book /\ book[x].kind = "out"
      BY <2>4 DEF BeginsClose
    <3>2. \A x \in k.rows : x \in 1 .. Len(book') /\ book'[x].kind = "out"
      BY <3>1, BookStep
    <3>3. Len(k.todo) = 0
      BY <3>1, EmptySeq
    <3> QED
      BY <1>5, <3>1, <3>2, <3>3 DEF InCallOK
  <2> QED
    BY <1>5, <2>1, <2>2, <2>3, <2>4, RequestBegins
<1>6. CASE d = c /\ (CloseMark(c) \/ Answer(c) \/ Die(c))
  BY <1>4, <1>6 DEF CloseMark, Answer, Die
<1>7. CASE d = c /\ CloseWrite(c)
  <2>1. calls'[c].op = calls[c].op /\ calls'[c].rows = calls[c].rows /\ calls'[c].todo = calls[c].todo
        /\ calls[c].pc = "close"
    BY <1>1, <1>7 DEF CloseWrite, CallRecords
  <2>2. calls[c].op # "in"
    BY <1>2, <2>1 DEF InCallOK, InWorkOK
  <2> QED
    BY <1>2, <1>7, <2>1, <2>2 DEF InCallOK
<1>8. CASE d = c /\ (Read(c) \/ Again(c))
  <2>1. LET k == calls[c]
            h == calls'[c]
        IN  /\ h.pc \in {"commit", "again"} /\ h.op = k.op /\ h.receipt = k.receipt
            /\ h.rows = k.rows /\ h.todo = k.todo
    BY <1>8, ReadFields
  <2>2. CASE calls[c].op = "in"
    <3>1. InWorkOK(calls[c], receipts', book')
      BY <1>2, <2>2 DEF InCallOK
    <3>2. InWorkOK(calls'[c], receipts', book')
      BY <2>1, <3>1 DEF InWorkOK
    <3> QED
      BY <1>2, <1>8, <2>1, <2>2, <3>2 DEF InCallOK
  <2>3. CASE calls[c].op # "in"
    BY <1>2, <1>8, <2>1, <2>3 DEF InCallOK
  <2> QED
    BY <2>2, <2>3
<1>9. CASE d = c /\ (Commit(c) \/ CommitNothing(c))
  <2>1. PICK i, e : calls' = [calls EXCEPT ![c] = Moved(c, i, e)]
    BY <1>9, Zenon DEF Commit, CommitNothing
  <2>2. calls[c].todo # <<>>
    BY <1>9, CommitFacts DEF Commit, CommitNothing
  <2> QED
    BY <1>9, <2>1, <2>2, InMoved
<1>10. CASE d = c /\ DuplicateKey(c)
  <2>1. calls[c].todo # <<>>
    BY <1>10, CommitFacts DEF DuplicateKey
  <2>2. CASE \E i, e : calls' = [calls EXCEPT ![c] = Moved(c, i, e)]
    BY <1>10, <2>1, <2>2, InMoved
  <2>3. (\E i, e : calls' = [calls EXCEPT ![c] = Moved(c, i, e)]) \/ calls' = [calls EXCEPT ![c] = Idle]
    BY <1>10, Zenon DEF DuplicateKey
  <2> QED
    BY <1>4, <1>10, <2>2, <2>3
<1>11. CASE d = c /\ CountDeductions(c)
  <2>1. calls[c].todo # <<>> /\ Movement(c).kind = "scan" /\ calls[c].pc = "next"
    BY <1>11 DEF CountDeductions
  <2>2. calls[c].op # "in"
    BY <2>1, InHead
  <2>3. CASE \E i, e : calls' = [calls EXCEPT ![c] = Moved(c, i, e)]
    BY <1>11, <2>1, <2>2, <2>3, InMoved
  <2>4. CASE \E a : a.kind = "out" /\ calls' = [calls EXCEPT ![c].todo[1] = a]
    <3>1. PICK a : a.kind = "out" /\ calls' = [calls EXCEPT ![c].todo[1] = a]
      BY <2>4
    <3> DEFINE t == calls[c].todo
               u == [t EXCEPT ![1] = a]
    <3>2. calls'[c].op = calls[c].op /\ calls'[c].rows = calls[c].rows /\ calls'[c].todo = u
      BY <1>1, <3>1 DEF CallRecords
    <3>3. t \in Seq(Work)
      BY <1>1 DEF CallRecords
    <3>4. \A x \in 1 .. Len(t) : t[x].kind # "in"
      BY <1>2, <2>2 DEF InCallOK
    <3> HIDE DEF t
    <3>5. Len(u) = Len(t) /\ \A x \in 1 .. Len(t) : u[x] = IF x = 1 THEN a ELSE t[x]
      <4>1. t \in Seq(Work \cup {a}) /\ a \in Work \cup {a}
        BY <3>3, SeqMonotonic
      <4>2. 1 \in 1 .. Len(t)
        BY <2>1, <3>3, EmptySeq DEF t
      <4> QED
        BY <4>1, <4>2, ExceptSeq
    <3>6. \A x \in 1 .. Len(u) : u[x].kind # "in"
      BY <3>1, <3>4, <3>5
    <3> HIDE DEF u
    <3> QED
      BY <1>2, <1>11, <2>2, <3>2, <3>6 DEF InCallOK
  <2>5. \/ \E i, e : calls' = [calls EXCEPT ![c] = Moved(c, i, e)]
        \/ \E a : a.kind = "out" /\ calls' = [calls EXCEPT ![c].todo[1] = a]
    <3> DEFINE m == Movement(c)
               a == Adding(m.sku, "out", -OrderQty[m.order],
                           <<m.order, Cardinality(OutRows(m.order)) + 1>>, m.order)
    <3>1. a.kind = "out"
      BY DEF Adding
    <3>2. (\E i, e : calls' = [calls EXCEPT ![c] = Moved(c, i, e)]) \/ calls' = [calls EXCEPT ![c].todo[1] = a]
      BY <1>11, Zenon DEF CountDeductions
    <3> HIDE DEF a
    <3> QED
      BY <3>1, <3>2, Zenon
  <2> QED
    BY <2>3, <2>4, <2>5
<1> QED
  BY <1>3, <1>5, <1>6, <1>7, <1>8, <1>9, <1>10, <1>11 DEF Step

\* No closing touches a row of a goods receipt.
LEMMA InRowKept ==
  ASSUME Typed, NEW c \in Calls, Step(c), ReceiptsInOrder, NEW i \in 1 .. Len(book), book[i].kind = "in"
  PROVE  book'[i].receipt = book[i].receipt
<1>1. CASE Commit(c)
  BY <1>1, Booked
<1>2. CASE CloseMark(c)
  <2>1. i \notin calls[c].rows
    BY DEF ReceiptsInOrder, InCallOK
  <2>2. i \in DOMAIN book
    BY BookDomain
  <2> QED
    BY <1>2, <2>1, <2>2 DEF CloseMark
<1>3. CASE UNCHANGED book
  BY <1>3
<1>4. ASSUME ~Commit(c), ~CloseMark(c) PROVE UNCHANGED book
  BY <1>4, Zenon DEF Step, Request, CreateReceiptIn, Adjust, ScanOut, ReconcileApply, CloseOut, CloseWrite,
    CountDeductions, Read, CommitNothing, Again, DuplicateKey, Answer, Die
<1> QED
  BY <1>1, <1>2, <1>3, <1>4

\* The row that a goods receipt commits is that of its line, and there was none of that line.
LEMMA InRowNew ==
  ASSUME Typed, NEW c \in Calls, Commit(c), CallsInStep, ReceiptsInOrder, Movement(c).kind = "in"
  PROVE  LET row == book'[Len(book) + 1]
         IN  /\ InRowOK(row, receipts)
             /\ row.kind = "in" /\ \A i \in 1 .. Len(book) : book[i].kind = "in" => book[i].key # row.key
<1> DEFINE m == Movement(c)
           k == calls[c]
           r == k.receipt
           row == Row(m, k.seen.stock, k.seen.qty)
<1>1. k \in CallRecords /\ k.todo # <<>> /\ k.pc = "commit"
  BY CommitFacts DEF Commit
<1>2. m = k.todo[1] /\ 1 \in 1 .. Len(k.todo)
  <2>1. k.todo \in Seq(Work)
    BY <1>1 DEF CallRecords
  <2> QED
    BY <1>1, <2>1, EmptySeq DEF Movement
<1>3. k.op = "in"
  <2>1. InCallOK(k, receipts, book)
    BY DEF ReceiptsInOrder
  <2> QED
    BY <1>2, <2>1 DEF InCallOK
<1>4. PICK j \in Nat \ {0} :
        /\ m.key = <<r, j>> /\ m.refs = r /\ m.key # None /\ ~m.set
        /\ j \in 1 .. Len(receipts[r].lines) /\ r \in 1 .. Len(receipts) /\ receipts[r].type = "in"
        /\ m.sku = receipts[r].lines[j].sku /\ m.qty = receipts[r].lines[j].qty
  BY <1>1, <1>3, InHead
<1>5. book'[Len(book) + 1] = row
  BY Booked
<1>6. /\ k.seen.qty = m.qty
      /\ k.seen.found = {x \in k.seen.rows : book[x].kind = m.kind /\ book[x].key = m.key}
  BY <1>1, <1>2, <1>4 DEF CallsInStep, SnapshotOK
<1>7. k.seen.found = {} /\ k.seen.rows = RowsOf(m.sku)
  BY DEF Commit, Current
<1> HIDE DEF m, r
<1>8. row.kind = "in" /\ row.receipt = r /\ row.key = <<r, j>> /\ row.sku = m.sku /\ row.qty = m.qty
  BY <1>4, <1>6 DEF Row, m
<1> HIDE DEF row
<1>9. InRowOK(row, receipts)
  BY <1>4, <1>8 DEF InRowOK
<1>10. ASSUME NEW i \in 1 .. Len(book), book[i].kind = "in", book[i].key = <<r, j>>
       PROVE  FALSE
  <2>1. PICK h \in 1 .. Len(receipts[book[i].receipt].lines) :
          /\ book[i].key = <<book[i].receipt, h>>
          /\ book[i].sku = receipts[book[i].receipt].lines[h].sku
    BY <1>10 DEF ReceiptsInOrder, InRowOK
  <2>2. book[i].receipt = r /\ h = j
    BY <1>10, <2>1
  <2>3. book[i].sku = m.sku
    BY <1>4, <2>1, <2>2
  <2>4. i \in RowsOf(m.sku)
    BY <2>3, BookDomain DEF RowsOf
  <2>5. book[i].kind = m.kind /\ book[i].key = m.key
    BY <1>4, <1>10 DEF m
  <2> QED
    BY <1>6, <1>7, <2>4, <2>5
<1> QED
  BY <1>5, <1>8, <1>9, <1>10

LEMMA InBookStep ==
  ASSUME Typed, NEW c \in Calls, Step(c), CallsInStep, ReceiptsInOrder
  PROVE  (\A i \in 1 .. Len(book') : InRowOK(book'[i], receipts')) /\ OnceBooked(book')
<1> DEFINE n == Len(book)
<1>1. /\ n \in Nat
      /\ \A i \in 1 .. n :
           /\ book'[i].sku = book[i].sku /\ book'[i].kind = book[i].kind /\ book'[i].qty = book[i].qty
           /\ book'[i].key = book[i].key
      /\ ~Commit(c) => Len(book') = n
      /\ Commit(c) => Len(book') = n + 1
  BY BookStep
<1>2. \A r \in 1 .. Len(receipts) : r \in 1 .. Len(receipts') /\ receipts'[r] = receipts[r]
  BY ReceiptsGrow
<1>3. ASSUME NEW row, InRowOK(row, receipts) PROVE InRowOK(row, receipts')
  BY <1>2, <1>3 DEF InRowOK
<1>4. ASSUME NEW i \in 1 .. n PROVE InRowOK(book'[i], receipts')
  <2>1. InRowOK(book[i], receipts)
    BY DEF ReceiptsInOrder
  <2>2. CASE book[i].kind = "in"
    <3>1. book'[i].receipt = book[i].receipt
      BY <2>2, InRowKept
    <3>2. InRowOK(book[i], receipts')
      BY <1>3, <2>1
    <3> QED
      BY <1>1, <3>1, <3>2 DEF InRowOK
  <2>3. CASE book[i].kind # "in"
    BY <1>1, <2>3 DEF InRowOK
  <2> QED
    BY <2>2, <2>3
<1>5. \A i, h \in 1 .. n : book'[i].kind = "in" /\ book'[h].kind = "in" /\ book'[i].key = book'[h].key => i = h
  BY <1>1 DEF ReceiptsInOrder, OnceBooked
<1>6. CASE ~Commit(c)
  BY <1>1, <1>4, <1>5, <1>6 DEF OnceBooked
<1>7. CASE Commit(c)
  <2> DEFINE row == book'[n + 1]
  <2>0. row = Row(Movement(c), calls[c].seen.stock, calls[c].seen.qty)
    BY <1>7, BookStep
  <2>1. row.kind = Movement(c).kind
    BY <2>0 DEF Row
  <2>2. CASE Movement(c).kind = "in"
    <3>1. InRowOK(row, receipts) /\ \A i \in 1 .. n : book[i].kind = "in" => book[i].key # row.key
      BY <1>7, <2>2, InRowNew
    <3>2. InRowOK(row, receipts')
      BY <1>3, <3>1
    <3> QED
      BY <1>1, <1>4, <1>5, <1>7, <3>1, <3>2 DEF OnceBooked
  <2>3. CASE Movement(c).kind # "in"
    <3>1. InRowOK(row, receipts')
      BY <2>1, <2>3 DEF InRowOK
    <3> QED
      BY <1>1, <1>4, <1>5, <1>7, <2>1, <2>3, <3>1 DEF OnceBooked
  <2> QED
    BY <2>2, <2>3
<1> QED
  BY <1>6, <1>7

\* A receipt is answered when all its lines are done.
LEMMA InToldStep ==
  ASSUME Typed, NEW c \in Calls, Step(c), ReceiptsInOrder, NEW a \in told'
  PROVE  InToldOK(a, receipts', book')
<1> DEFINE k == calls[c]
<1>1. ASSUME NEW b, InToldOK(b, receipts, book) PROVE InToldOK(b, receipts', book')
  <2>1. CASE b.op = "in"
    <3>1. b.receipt \in 1 .. Len(receipts)
          /\ \A j \in 1 .. Len(receipts[b.receipt].lines) : LineBooked(b.receipt, j, book)
      BY <1>1, <2>1 DEF InToldOK
    <3>2. b.receipt \in 1 .. Len(receipts') /\ receipts'[b.receipt] = receipts[b.receipt]
      BY <3>1, ReceiptsGrow
    <3>3. \A j \in 1 .. Len(receipts[b.receipt].lines) : LineBooked(b.receipt, j, book')
      BY <3>1, LineKept
    <3> QED
      BY <3>2, <3>3 DEF InToldOK
  <2> QED
    BY <2>1 DEF InToldOK
<1>2. CASE a \in told
  BY <1>1, <1>2 DEF ReceiptsInOrder
<1>3. CASE a \notin told
  <2>1. Answer(c)
    BY <1>3, Zenon DEF Step, Request, CreateReceiptIn, Adjust, ScanOut, ReconcileApply, CloseOut, CloseWrite,
      CloseMark, CountDeductions, Read, CommitNothing, Commit, Again, DuplicateKey, Die
  <2>2. CASE k.op = "in"
    <3>1. a = [op |-> "in", receipt |-> k.receipt]
      BY <1>3, <2>1, <2>2 DEF Answer
    <3>2. InWorkOK(k, receipts, book)
      BY <2>2 DEF ReceiptsInOrder, InCallOK
    <3>3. PICK done \in 0 .. Len(receipts[k.receipt].lines) :
            /\ done + Len(k.todo) = Len(receipts[k.receipt].lines)
            /\ \A j \in 1 .. done : LineBooked(k.receipt, j, book)
      BY <3>2 DEF InWorkOK
    <3>4. Len(k.todo) = 0
      BY <2>1, EmptySeq DEF Answer
    <3>5. done = Len(receipts[k.receipt].lines)
      BY <3>3, <3>4
    <3>6. InToldOK(a, receipts, book)
      BY <3>1, <3>2, <3>3, <3>5 DEF InToldOK, InWorkOK
    <3> QED
      BY <1>1, <3>6
  <2>3. CASE k.op # "in"
    <3>1. a = [op |-> "scan", id |-> k.id, order |-> k.order, last |-> k.last]
      BY <1>3, <2>1, <2>3 DEF Answer
    <3>2. a.op = "scan"
      BY <3>1
    <3> QED
      BY <3>2 DEF InToldOK
  <2> QED
    BY <2>2, <2>3
<1> QED
  BY <1>2, <1>3

LEMMA LinesStep ==
  ASSUME Typed, NEW c \in Calls, Step(c), ReceiptsInOrder, NEW r \in 1 .. Len(receipts')
  PROVE  LinesOK(receipts'[r])
<1>1. CASE UNCHANGED receipts
  BY <1>1 DEF ReceiptsInOrder
<1>2. ASSUME NEW e, receipts' = Append(receipts, e), LinesOK(e) PROVE LinesOK(receipts'[r])
  <2>1. /\ Len(receipts) \in Nat /\ Len(receipts') = Len(receipts) + 1 /\ receipts'[Len(receipts) + 1] = e
        /\ \A i \in 1 .. Len(receipts) : receipts'[i] = receipts[i]
    BY <1>2, AppendedLast DEF Typed
  <2>2. r \in 1 .. Len(receipts) \/ r = Len(receipts) + 1
    BY <2>1
  <2> QED
    BY <1>2, <2>1, <2>2 DEF ReceiptsInOrder
<1>3. CASE Request(c)
  <2>1. CASE BeginsIn(c, calls'[c])
    <3>1. PICK lines \in Seq(Lines) :
            /\ \A j \in 1 .. Len(lines) : lines[j].qty > 0
            /\ receipts' = Append(receipts, [type |-> "in", lines |-> lines])
      BY <2>1 DEF BeginsIn
    <3>2. LinesOK([type |-> "in", lines |-> lines])
      BY <3>1 DEF LinesOK
    <3> QED
      BY <1>2, <3>1, <3>2
  <2> QED
    BY <1>1, <1>3, <2>1, RequestBegins
<1>4. CASE CloseWrite(c)
  <2>1. PICK lines : receipts' = Append(receipts, [type |-> "out", lines |-> lines])
    BY <1>4, Zenon DEF CloseWrite
  <2>2. LinesOK([type |-> "out", lines |-> lines])
    BY DEF LinesOK
  <2> QED
    BY <1>2, <2>1, <2>2
<1> QED
  BY <1>1, <1>3, <1>4, Zenon DEF Step, CloseMark, CountDeductions, Read, CommitNothing, Commit, Again,
    DuplicateKey, Answer, Die

LEMMA ReceiptsInit == Init => ReceiptsInOrder
<1> SUFFICES ASSUME Init PROVE ReceiptsInOrder
  OBVIOUS
<1>1. Len(book) = 0 /\ Len(receipts) = 0 /\ told = {} /\ \A c \in Calls : calls[c] = Idle
  BY EmptySeq DEF Init
<1>2. \A c \in Calls : InCallOK(calls[c], receipts, book)
  BY <1>1, IdleInOrder
<1> QED
  BY <1>1, <1>2 DEF ReceiptsInOrder, OnceBooked

LEMMA ReceiptsStep == Typed /\ Deductions /\ ReceiptsInOrder /\ [Next]_vars => ReceiptsInOrder'
<1> SUFFICES ASSUME Typed, Deductions, ReceiptsInOrder, [Next]_vars PROVE ReceiptsInOrder'
  OBVIOUS
<1>1. CASE \E c \in Calls : Step(c)
  <2>1. PICK c \in Calls : Step(c)
    BY <1>1
  <2>2. CallsInStep
    BY DEF Deductions
  <2> QED
    BY <2>1, <2>2, LinesStep, InCallStep, InBookStep, InToldStep DEF ReceiptsInOrder
<1>2. CASE UNCHANGED vars
  BY <1>2 DEF vars, ReceiptsInOrder
<1> QED
  BY <1>1, <1>2 DEF Next, Step

\* Every line of an answered receipt has its one row, so there are as many.
LEMMA AllBooked ==
  ASSUME Typed, ReceiptsInOrder, NEW r \in DOMAIN receipts, receipts[r].type = "in",
         [op |-> "in", receipt |-> r] \in told
  PROVE  Cardinality(BookedLines(r)) = Len(receipts[r].lines)
<1> DEFINE n == Len(receipts[r].lines)
           B == BookedLines(r)
           f == [i \in B |-> book[i].key[2]]
<1>1. r \in 1 .. Len(receipts)
  BY ListedDomain DEF Typed
<1>2. n \in Nat
  BY <1>1, LenProperties DEF ReceiptsInOrder, LinesOK
<1>3. ASSUME NEW i \in B
      PROVE  /\ i \in 1 .. Len(book) /\ book[i].kind = "in" /\ book[i].key[2] \in 1 .. n
             /\ book[i].key = <<r, book[i].key[2]>>
  <2>1. i \in 1 .. Len(book) /\ book[i].kind = "in" /\ book[i].receipt = r
    BY BookDomain DEF BookedLines
  <2>2. InRowOK(book[i], receipts)
    BY <2>1 DEF ReceiptsInOrder
  <2> QED
    BY <2>1, <2>2 DEF InRowOK
<1>4. ASSUME NEW j \in 1 .. n PROVE \E i \in B : book[i].key[2] = j
  <2>1. LineBooked(r, j, book)
    <3>1. InToldOK([op |-> "in", receipt |-> r], receipts, book)
      BY DEF ReceiptsInOrder
    <3> QED
      BY <3>1 DEF InToldOK
  <2>2. PICK i \in 1 .. Len(book) : book[i].kind = "in" /\ book[i].key = <<r, j>>
    BY <2>1 DEF LineBooked
  <2>3. InRowOK(book[i], receipts)
    BY DEF ReceiptsInOrder
  <2>4. book[i].receipt = r
    BY <2>2, <2>3 DEF InRowOK
  <2> QED
    BY <2>2, <2>4, BookDomain DEF BookedLines
<1>5. \A i, h \in B : book[i].key[2] = book[h].key[2] => i = h
  BY <1>3 DEF ReceiptsInOrder, OnceBooked
<1> HIDE DEF n, B
<1>6. f \in Bijection(B, 1 .. n)
  <2>1. f \in [B -> 1 .. n]
    BY <1>3
  <2>2. \A i, h \in B : f[i] = f[h] => i = h
    BY <1>5
  <2>3. \A j \in 1 .. n : \E i \in B : f[i] = j
    BY <1>4
  <2> HIDE DEF f
  <2> QED
    BY <2>1, <2>2, <2>3 DEF Bijection, Injection, Surjection, IsInjective
<1>7. IsFiniteSet(B)
  <2> HIDE DEF f
  <2>1. B \subseteq 1 .. Len(book)
    BY <1>3
  <2>2. Len(book) \in Int
    BY LenProperties DEF Typed
  <2>3. IsFiniteSet(1 .. Len(book))
    BY <2>2, FS_Interval
  <2> QED
    BY <2>1, <2>3, FS_Subset
<1>8. Cardinality(1 .. n) = Cardinality(B)
  BY <1>6, <1>7, FS_Bijection DEF ExistsBijection
<1>9. Cardinality(1 .. n) = n
  BY <1>2, FS_Interval
<1> QED
  BY <1>8, <1>9 DEF n, B

LEMMA ReceiptsImply == Typed /\ ReceiptsInOrder => ReceiptsAreBooked
<1> SUFFICES ASSUME Typed, ReceiptsInOrder, NEW r \in DOMAIN receipts, receipts[r].type = "in"
             PROVE  /\ \A i \in BookedLines(r) :
                         LET line == receipts[r].lines[book[i].key[2]] IN
                         book[i].sku = line.sku /\ book[i].qty = line.qty
                    /\ \A i, j \in BookedLines(r) : book[i].key = book[j].key => i = j
                    /\ [op |-> "in", receipt |-> r] \in told =>
                         Cardinality(BookedLines(r)) = Len(receipts[r].lines)
  BY DEF ReceiptsAreBooked
<1>1. \A i \in BookedLines(r) : i \in 1 .. Len(book) /\ book[i].kind = "in" /\ book[i].receipt = r
  BY BookDomain DEF BookedLines
<1>2. ASSUME NEW i \in BookedLines(r)
      PROVE  LET line == receipts[r].lines[book[i].key[2]] IN book[i].sku = line.sku /\ book[i].qty = line.qty
  <2>1. InRowOK(book[i], receipts)
    BY <1>1 DEF ReceiptsInOrder
  <2> QED
    BY <1>1, <2>1 DEF InRowOK
<1>3. \A i, j \in BookedLines(r) : book[i].key = book[j].key => i = j
  BY <1>1 DEF ReceiptsInOrder, OnceBooked
<1> QED
  BY <1>2, <1>3, AllBooked

\* No line of a goods receipt is booked twice, every row of a receipt is that of its line, and a
\* receipt that is answered is on the books whole, whatever its transactions had to repeat and
\* whatever else goes on meanwhile (createReceiptIn and applyTransaction of InventoryService).
THEOREM ReceiptsCorrect == Spec => []ReceiptsAreBooked
<1>1. Init => Typed /\ Deductions /\ ReceiptsInOrder
  BY TypedInit, DeductionsInit, ReceiptsInit
<1>2. Typed /\ Deductions /\ ReceiptsInOrder /\ [Next]_vars => (Typed /\ Deductions /\ ReceiptsInOrder)'
  BY TypedStep, DeductionsStep, ReceiptsStep
<1>3. Typed /\ ReceiptsInOrder => ReceiptsAreBooked
  BY ReceiptsImply
<1> QED
  BY <1>1, <1>2, <1>3, PTL DEF Spec

-----------------------------------------------------------------------------
(* Scans *)

\* A deduction of an order stays one.
LEMMA DeductionKept ==
  ASSUME Typed, NEW c \in Calls, Step(c), NEW i \in 1 .. Len(book)
  PROVE  i \in 1 .. Len(book') /\ book'[i].kind = book[i].kind /\ book'[i].refs = book[i].refs
<1>1. book'[i].kind = book[i].kind /\ book'[i].refs = book[i].refs
  BY BookStep
<1>2. Len(book) \in Nat /\ (Len(book') = Len(book) \/ Len(book') = Len(book) + 1)
  BY BookStep
<1> QED
  BY <1>1, <1>2

LEMMA ScanCallKept ==
  ASSUME Typed, NEW c \in Calls, Step(c), NEW k, ScanCallOK(k, book)
  PROVE  ScanCallOK(k, book')
BY DeductionKept DEF ScanCallOK

\* What a scan has to do next, as a movement.
LEMMA ScanHead ==
  ASSUME Typed, NEW c \in Calls, ScansInOrder, calls[c].op = "scan", calls[c].todo # <<>>
  PROVE  /\ Movement(c) = calls[c].todo[1] /\ Len(calls[c].todo) = 1 /\ Tail(calls[c].todo) = <<>>
         /\ calls[c].order \in Orders /\ ~calls[c].unchanged
         /\ \/ Movement(c).kind = "scan" /\ Movement(c).order = calls[c].order
            \/ Movement(c).kind = "out" /\ Movement(c).refs = calls[c].order
<1> DEFINE t == calls[c].todo
<1>1. t \in Seq(Work)
  BY DEF Typed, CallRecords
<1>2. ScanCallOK(calls[c], book)
  BY DEF ScansInOrder
<1>3. Len(t) = 1
  BY <1>2 DEF ScanCallOK
<1>4. Movement(c) = t[1]
  BY <1>1, <1>3, HeadTailProperties, EmptySeq DEF Movement
<1>5. Tail(t) = <<>>
  <2>1. Tail(t) \in Seq(Work) /\ Len(Tail(t)) = 0
    BY <1>1, <1>3, HeadTailProperties, EmptySeq
  <2> QED
    BY <2>1, EmptySeq
<1> QED
  BY <1>2, <1>3, <1>4, <1>5 DEF ScanCallOK

\* The deduction that a scan has to make.
LEMMA ScanDeduction ==
  ASSUME Typed, NEW c \in Calls, Deductions, ScansInOrder, calls[c].op = "scan", calls[c].todo # <<>>,
         Movement(c).kind # "scan"
  PROVE  LET m == Movement(c)
         IN  /\ m.kind = "out" /\ m.refs = calls[c].order /\ m.key # None /\ ~m.set /\ m.qty # 0
             /\ \E j \in Nat \ {0} : m.key = <<calls[c].order, j>>
<1> DEFINE m == Movement(c)
<1>1. m = calls[c].todo[1] /\ Len(calls[c].todo) = 1 /\ m.kind = "out" /\ m.refs = calls[c].order
  BY ScanHead
<1>2. OutWork(m, overridden, Count)
  BY <1>1 DEF Deductions, CallsInStep, WorkOK
<1>3. PICK o \in Orders, j \in Nat \ {0} : m = Adding(m.sku, "out", -OrderQty[o], <<o, j>>, o)
  BY <1>2 DEF OutWork
<1>4. m.refs = o /\ m.key = <<o, j>> /\ m.qty = -OrderQty[o] /\ m.set = FALSE
  <2> HIDE DEF m
  <2> QED
    BY <1>3 DEF Adding
<1>5. m.key # None
  BY <1>4, InventoryAssumption
<1>6. m.qty # 0
  <2>1. OrderQty[o] \in Nat \ {0}
    BY InventoryAssumption
  <2> QED
    BY <1>4, <2>1
<1> QED
  BY <1>1, <1>4, <1>5, <1>6

\* What a step of a call may do to a scan: it is left unanswered, it gets a deduction that
\* was there or the one being made, or it is over.
Unscanned(c) == ~Scanned(calls'[c]) /\ ScanCallOK(calls'[c], book') /\ told' \subseteq told
GetsRow(c) ==
  /\ ~Scanned(calls[c]) /\ Scanned(calls'[c]) /\ ScanCallOK(calls'[c], book') /\ told' \subseteq told
  /\ calls'[c].last.dup \/ calls'[c].last.row = Len(book) + 1
Answered(c) ==
  /\ ~Scanned(calls'[c]) /\ ScanCallOK(calls'[c], book')
  /\ \A a \in told' : a \in told \/ (a.op = "scan" => Scanned(calls[c]) /\ a.last = calls[c].last /\ a.order = calls[c].order)
  /\ \A a, b \in told' : a \in told \/ b \in told \/ a = b

LEMMA IdleScan == ~Scanned(Idle) /\ \A b : ScanCallOK(Idle, b)
<1>1. Idle.op = ""
  BY DEF Idle
<1> QED
  BY <1>1 DEF Scanned, ScanCallOK

\* A scan whose deduction is made, or was, has its answer.
LEMMA ScanMoved ==
  ASSUME Typed, NEW c \in Calls, Step(c), Deductions, ScansInOrder, calls[c].todo # <<>>,
         NEW i, NEW d, calls' = [calls EXCEPT ![c] = Moved(c, i, d)], told' = told,
         calls[c].op = "scan" =>
           \/ Movement(c).kind # "scan" /\ (Commit(c) \/ CommitNothing(c) \/ DuplicateKey(c))
           \/ d = TRUE /\ i \in OutRows(calls[c].order)
  PROVE  Unscanned(c) \/ GetsRow(c)
<1> DEFINE k == calls[c]
           h == calls'[c]
<1>1. h.pc = "next" /\ h.op = k.op /\ h.order = k.order /\ h.todo = Tail(k.todo) /\ ~h.unchanged
  BY MovedFields
<1>2. h.last.row = i /\ h.last.dup = d
  BY MovedLast, Zenon
<1>3. CASE k.op # "scan"
  BY <1>1, <1>3 DEF Unscanned, Scanned, ScanCallOK
<1>4. CASE k.op = "scan"
  <2>1. Tail(k.todo) = <<>> /\ k.order \in Orders /\ ~k.unchanged
    BY <1>4, ScanHead
  <2>2. ASSUME i \in 1 .. Len(book'), book'[i].kind = "out", book'[i].refs = k.order, h.last.dup \/ i = Len(book) + 1
        PROVE  GetsRow(c)
    <3>1. ScanCallOK(h, book')
      BY <1>1, <1>2, <2>1, <2>2 DEF ScanCallOK
    <3>2. Scanned(h) /\ ~Scanned(k)
      BY <1>1, <1>4, <2>1 DEF Scanned
    <3> HIDE DEF h, k
    <3> QED
      BY <1>2, <2>2, <3>1, <3>2 DEF GetsRow, h, k
  <2>3. CASE d = TRUE /\ i \in OutRows(k.order)
    <3>1. i \in 1 .. Len(book) /\ book[i].kind = "out" /\ book[i].refs = k.order
      BY <2>3, BookDomain DEF OutRows
    <3> QED
      BY <1>2, <2>2, <2>3, <3>1, DeductionKept
  <2>4. CASE Movement(c).kind # "scan" /\ (Commit(c) \/ CommitNothing(c) \/ DuplicateKey(c))
    <3> DEFINE m == Movement(c)
    <3>1. m.kind = "out" /\ m.refs = k.order /\ m.key # None /\ ~m.set /\ m.qty # 0
      BY <1>4, <2>4, ScanDeduction
    <3>2. PICK j \in Nat \ {0} : m.key = <<k.order, j>>
      BY <1>4, <2>4, ScanDeduction
    <3>3. CallsInStep
      BY DEF Deductions
    <3>4. CASE Commit(c)
      <4>1. i = Len(book) + 1
        BY <2>1, <2>4, <3>1, <3>3, <3>4, MovementBooked
      <4>2. Len(book) \in Nat /\ Len(book') = Len(book) + 1
        BY <3>4, BookStep
      <4>3. book'[Len(book) + 1].kind = m.kind /\ book'[Len(book) + 1].refs = m.refs
        BY <3>3, <3>4, DeductionRow
      <4> QED
        BY <2>2, <3>1, <4>1, <4>2, <4>3
    <3>5. CASE ~Commit(c)
      <4>1. i \in 1 .. Len(book) /\ book[i].kind = "out" /\ book[i].key = m.key /\ h.last.dup
        <5>1. \/ Commit(c)
              \/ /\ i \in 1 .. Len(book) /\ book[i].kind = m.kind /\ book[i].key = m.key
                 /\ ~Commit(c) /\ h.last.dup
          BY <2>4, <3>1, <3>3, MovementBooked
        <5> QED
          BY <3>1, <3>5, <5>1
      <4>2. OutRowOK(book[i], overridden)
        BY <4>1 DEF Deductions, RowsInStep
      <4>3. PICK n \in Nat \ {0} : book[i].key = <<book[i].refs, n>>
        BY <4>1, <4>2 DEF OutRowOK
      <4>4. book[i].refs = k.order
        BY <3>2, <4>1, <4>3
      <4> QED
        BY <2>2, <4>1, <4>4, DeductionKept
    <3> QED
      BY <3>4, <3>5
  <2> QED
    BY <1>4, <2>3, <2>4
<1> QED
  BY <1>3, <1>4

LEMMA ScanStep ==
  ASSUME Typed, NEW c \in Calls, Step(c), Deductions, ScansInOrder
  PROVE  Unscanned(c) \/ GetsRow(c) \/ Answered(c)
<1> DEFINE k == calls[c]
           h == calls'[c]
<1>1. calls \in [Calls -> CallRecords] /\ k \in CallRecords
  BY DEF Typed
<1>2. ScanCallOK(k, book) /\ ScanCallOK(k, book')
  BY ScanCallKept DEF ScansInOrder
<1>3. Answer(c) \/ told' = told
  BY Zenon DEF Step, Request, CreateReceiptIn, Adjust, ScanOut, ReconcileApply, CloseOut, CloseWrite,
    CloseMark, CountDeductions, Read, CommitNothing, Commit, Again, DuplicateKey, Die, history
<1>4. ASSUME calls' = [calls EXCEPT ![c] = Idle] PROVE h = Idle /\ ~Scanned(h) /\ ScanCallOK(h, book')
  <2>1. h = Idle
    BY <1>1, <1>4
  <2> QED
    BY <2>1, IdleScan
<1>5. CASE Request(c)
  <2>1. told' = told
    BY <1>5, Zenon DEF Request, CreateReceiptIn, Adjust, ScanOut, ReconcileApply, CloseOut
  <2>2. CASE BeginsScan(c, h)
    <3>1. PICK o \in Orders, s \in Skus, r \in BOOLEAN : h.order = o /\ h.todo = <<Scan(o, s, r)>>
      BY <2>2 DEF BeginsScan
    <3> DEFINE w == Scan(o, s, r)
    <3>2. w.kind = "scan" /\ w.order = o
      BY DEF Scan
    <3> HIDE DEF w
    <3>3. Len(<<w>>) = 1 /\ <<w>>[1] = w /\ <<w>> # <<>>
      OBVIOUS
    <3>4. h.todo = <<w>> /\ h.order = o
      BY <3>1 DEF w
    <3>5. h.pc = "next" /\ ~h.unchanged
      BY <2>2 DEF BeginsScan
    <3> HIDE DEF h
    <3>6. ScanCallOK(h, book') /\ ~Scanned(h)
      BY <3>2, <3>3, <3>4, <3>5 DEF ScanCallOK, Scanned
    <3> QED
      BY <2>1, <3>6 DEF Unscanned, h
  <2>3. CASE ~BeginsScan(c, h)
    <3>1. BeginsIn(c, h) \/ BeginsOther(c, h) \/ BeginsClose(c, h)
      BY <1>5, <2>3, RequestBegins
    <3>2. h.op # "scan"
      BY <3>1 DEF BeginsIn, BeginsOther, BeginsClose
    <3> QED
      BY <2>1, <3>2 DEF Unscanned, Scanned, ScanCallOK
  <2> QED
    BY <2>2, <2>3
<1>6. CASE CloseMark(c) \/ Die(c)
  <2>1. calls' = [calls EXCEPT ![c] = Idle] /\ told' = told
    BY <1>6 DEF CloseMark, Die
  <2> QED
    BY <1>4, <2>1 DEF Unscanned
<1>7. CASE CloseWrite(c)
  <2>1. h.op = k.op /\ k.pc = "close" /\ told' = told
    BY <1>1, <1>7 DEF CloseWrite, CallRecords
  <2>2. k.op # "scan"
    BY <1>2, <2>1 DEF ScanCallOK
  <2> QED
    BY <2>1, <2>2 DEF Unscanned, Scanned, ScanCallOK
<1>8. CASE Read(c) \/ Again(c)
  <2>1. /\ h.pc \in {"commit", "again"} /\ h.op = k.op /\ h.order = k.order /\ h.todo = k.todo /\ k.todo # <<>>
        /\ h.unchanged => k.unchanged \/ (Read(c) /\ Qty(Movement(c)) = 0)
    BY <1>8, ReadFields
  <2>2. told' = told
    BY <1>8 DEF Read, Again
  <2>3. CASE k.op = "scan"
    <3>1. ASSUME Read(c) PROVE Qty(Movement(c)) # 0
      <4>1. Movement(c).kind # "scan"
        BY <3>1 DEF Read
      <4>2. ~Movement(c).set /\ Movement(c).qty # 0
        BY <2>1, <2>3, <4>1, ScanDeduction
      <4> QED
        BY <4>2 DEF Qty
    <3>2. ~h.unchanged
      BY <1>2, <2>1, <2>3, <3>1 DEF ScanCallOK
    <3>3. ScanCallOK(h, book') /\ ~Scanned(h)
      BY <1>2, <2>1, <2>3, <3>2 DEF ScanCallOK, Scanned
    <3> QED
      BY <2>2, <3>3 DEF Unscanned
  <2>4. CASE k.op # "scan"
    BY <2>1, <2>2, <2>4 DEF Unscanned, Scanned, ScanCallOK
  <2> QED
    BY <2>3, <2>4
<1>9. ASSUME k.op = "scan", k.pc = "commit" PROVE k.todo # <<>> /\ Movement(c).kind # "scan"
  <2>1. k.todo # <<>> /\ Movement(c) \in Movements
    BY <1>9, CommitFacts
  <2> QED
    BY <2>1 DEF Movements, Kinds
<1>10. CASE Commit(c) \/ CommitNothing(c)
  <2>1. PICK i, e : calls' = [calls EXCEPT ![c] = Moved(c, i, e)]
    BY <1>10, Zenon DEF Commit, CommitNothing
  <2>2. k.pc = "commit" /\ told' = told
    BY <1>10 DEF Commit, CommitNothing
  <2>3. k.todo # <<>>
    BY <2>2, CommitFacts
  <2> QED
    BY <1>9, <1>10, <2>1, <2>2, <2>3, ScanMoved
<1>11. CASE DuplicateKey(c)
  <2>1. k.pc = "commit" /\ told' = told
    BY <1>11 DEF DuplicateKey
  <2>2. k.todo # <<>>
    BY <2>1, CommitFacts
  <2>3. CASE \E i, e : calls' = [calls EXCEPT ![c] = Moved(c, i, e)]
    BY <1>9, <1>11, <2>1, <2>2, <2>3, ScanMoved
  <2>4. (\E i, e : calls' = [calls EXCEPT ![c] = Moved(c, i, e)]) \/ calls' = [calls EXCEPT ![c] = Idle]
    BY <1>11, Zenon DEF DuplicateKey
  <2> QED
    BY <1>4, <2>1, <2>3, <2>4 DEF Unscanned
<1>12. CASE CountDeductions(c)
  <2> DEFINE m == Movement(c)
             a == Adding(m.sku, "out", -OrderQty[m.order],
                         <<m.order, Cardinality(OutRows(m.order)) + 1>>, m.order)
  <2>1. k.todo # <<>> /\ m.kind = "scan" /\ k.pc = "next" /\ told' = told
    BY <1>12 DEF CountDeductions
  <2>2. \/ \E i \in OutRows(m.order) : calls' = [calls EXCEPT ![c] = Moved(c, i, TRUE)]
        \/ calls' = [calls EXCEPT ![c].todo[1] = a]
    BY <1>12, Zenon DEF CountDeductions
  <2>3. CASE \E i \in OutRows(m.order) : calls' = [calls EXCEPT ![c] = Moved(c, i, TRUE)]
    <3>1. PICK i \in OutRows(m.order) : calls' = [calls EXCEPT ![c] = Moved(c, i, TRUE)]
      BY <2>3
    <3>2. ASSUME k.op = "scan" PROVE m.order = k.order
      BY <2>1, <3>2, ScanHead
    <3> HIDE DEF m
    <3> QED
      BY <2>1, <3>1, <3>2, ScanMoved
  <2>4. CASE calls' = [calls EXCEPT ![c].todo[1] = a]
    <3>1. a.kind = "out" /\ a.refs = m.order
      BY DEF Adding
    <3> HIDE DEF a
    <3> DEFINE u == [k.todo EXCEPT ![1] = a]
    <3>2. h.op = k.op /\ h.order = k.order /\ h.pc = k.pc /\ h.unchanged = k.unchanged /\ h.todo = u
      BY <1>1, <2>4 DEF CallRecords
    <3>3. CASE k.op = "scan"
      <4>1. Len(k.todo) = 1 /\ m.order = k.order /\ k.order \in Orders /\ ~k.unchanged
        BY <2>1, <3>3, ScanHead
      <4>2. k.todo \in Seq(Work \cup {a}) /\ a \in Work \cup {a}
        BY <1>1, SeqMonotonic DEF CallRecords
      <4>3. 1 \in 1 .. Len(k.todo)
        BY <4>1
      <4>4. Len(u) = 1 /\ u[1] = a /\ u \in Seq(Work \cup {a})
        BY <4>1, <4>2, <4>3, ExceptSeq
      <4>5. u # <<>>
        BY <4>4, EmptySeq
      <4> HIDE DEF u, m
      <4>6. ScanCallOK(h, book') /\ ~Scanned(h)
        BY <2>1, <3>1, <3>2, <4>1, <4>4, <4>5 DEF ScanCallOK, Scanned
      <4> QED
        BY <2>1, <4>6 DEF Unscanned
    <3>4. CASE k.op # "scan"
      BY <2>1, <3>2, <3>4 DEF Unscanned, Scanned, ScanCallOK
    <3> QED
      BY <3>3, <3>4
  <2> QED
    BY <2>2, <2>3, <2>4
<1>13. CASE Answer(c)
  <2>1. calls' = [calls EXCEPT ![c] = Idle] /\ k.todo = <<>>
    BY <1>13 DEF Answer
  <2>2. ~Scanned(h) /\ ScanCallOK(h, book')
    BY <1>4, <2>1
  <2>3. CASE k.op = "scan"
    <3> DEFINE e == [op |-> "scan", id |-> k.id, order |-> k.order, last |-> k.last]
    <3>1. told' = told \cup {e}
      BY <1>13, <2>3 DEF Answer
    <3>2. e.last = k.last /\ e.order = k.order
      OBVIOUS
    <3>3. Scanned(k)
      BY <2>1, <2>3 DEF Scanned
    <3> HIDE DEF e, h, k
    <3> QED
      BY <2>2, <3>1, <3>2, <3>3 DEF Answered, h, k
  <2>4. CASE k.op # "scan"
    <3>1. told' = told \/ told' = told \cup {[op |-> "in", receipt |-> k.receipt]}
      BY <1>13, <2>4 DEF Answer
    <3>2. [op |-> "in", receipt |-> k.receipt].op # "scan"
      OBVIOUS
    <3> QED
      BY <2>2, <3>1, <3>2 DEF Answered
  <2> QED
    BY <2>3, <2>4
<1> QED
  BY <1>5, <1>6, <1>7, <1>8, <1>10, <1>11, <1>12, <1>13 DEF Step

\* The answers stay true, and the ones being given are each other's.
LEMMA ScansStep == Typed /\ Deductions /\ ScansInOrder /\ [Next]_vars => ScansInOrder'
<1> SUFFICES ASSUME Typed, Deductions, ScansInOrder, [Next]_vars PROVE ScansInOrder'
  OBVIOUS
<1>1. CASE \E c \in Calls : Step(c)
  <2>1. PICK c \in Calls : Step(c)
    BY <1>1
  <2>2. \A d \in Calls \ {c} : calls'[d] = calls[d]
    BY <2>1, Frame
  <2>3. Len(book) \in Nat
    BY <2>1, BookStep
  <2>4. \A k : ScanCallOK(k, book) => ScanCallOK(k, book')
    BY <2>1, ScanCallKept
  <2>5. \A a : ScanToldOK(a, book) => ScanToldOK(a, book')
    BY <2>1, DeductionKept DEF ScanToldOK
  <2>6. \A d \in Calls : Scanned(calls[d]) => calls[d].last.row \in 1 .. Len(book)
    BY DEF ScansInOrder, ScanCallOK, Scanned
  <2>7. \A a \in told : a.op = "scan" => a.last.row \in 1 .. Len(book)
    BY DEF ScansInOrder, ScanToldOK
  <2>8. Unscanned(c) \/ GetsRow(c) \/ Answered(c)
    BY <2>1, ScanStep
  <2>9. \A d \in Calls : ScanCallOK(calls'[d], book')
    BY <2>2, <2>4, <2>8 DEF ScansInOrder, Unscanned, GetsRow, Answered
  <2>10. CASE Unscanned(c)
    <3>1. told' \subseteq told /\ ~Scanned(calls'[c])
      BY <2>10 DEF Unscanned
    <3>2. \A a \in told' : ScanToldOK(a, book')
      BY <2>5, <3>1 DEF ScansInOrder
    <3>3. ASSUME NEW d \in Calls PROVE OwnRow(d)'
      <4>1. CASE d = c
        BY <3>1, <4>1 DEF OwnRow
      <4>2. CASE d # c
        <5>1. OwnRow(d) /\ calls'[d] = calls[d]
          BY <2>2, <4>2 DEF ScansInOrder
        <5>2. \A e \in Calls \ {d} : Scanned(calls'[e]) => calls'[e] = calls[e]
          BY <2>2, <3>1
        <5> QED
          BY <3>1, <5>1, <5>2 DEF OwnRow
      <4> QED
        BY <4>1, <4>2
    <3>4. OneAnswer'
      BY <3>1 DEF ScansInOrder, OneAnswer
    <3> QED
      BY <2>9, <3>2, <3>3, <3>4 DEF ScansInOrder
  <2>11. CASE GetsRow(c)
    <3>1. told' \subseteq told /\ (calls'[c].last.dup \/ calls'[c].last.row = Len(book) + 1)
      BY <2>11 DEF GetsRow
    <3>2. \A a \in told' : ScanToldOK(a, book')
      BY <2>5, <3>1 DEF ScansInOrder
    <3>3. OwnRow(c)'
      <4>1. \A d \in Calls \ {c} : Scanned(calls'[d]) => calls'[d].last.row # Len(book) + 1
        BY <2>2, <2>3, <2>6
      <4>2. \A a \in told' : a.op = "scan" => a.last.row # Len(book) + 1
        BY <2>3, <2>7, <3>1
      <4> QED
        BY <3>1, <4>1, <4>2 DEF OwnRow
    <3>4. ASSUME NEW d \in Calls \ {c} PROVE OwnRow(d)'
      <4>1. OwnRow(d) /\ calls'[d] = calls[d]
            /\ (Scanned(calls[d]) => calls[d].last.row # Len(book) + 1)
        BY <2>2, <2>3, <2>6 DEF ScansInOrder
      <4> QED
        BY <2>2, <3>1, <4>1 DEF OwnRow
    <3>5. OneAnswer'
      BY <3>1 DEF ScansInOrder, OneAnswer
    <3> QED
      BY <2>9, <3>2, <3>3, <3>4, <3>5 DEF ScansInOrder
  <2>12. CASE Answered(c)
    <3>1. ~Scanned(calls'[c])
      BY <2>12 DEF Answered
    <3>2. \A a \in told' : a \in told \/ (a.op = "scan" => Scanned(calls[c]) /\ a.last = calls[c].last /\ a.order = calls[c].order)
      BY <2>12 DEF Answered
    <3>3. \A a, b \in told' : a \in told \/ b \in told \/ a = b
      BY <2>12 DEF Answered
    <3>4. ASSUME NEW a \in told' PROVE ScanToldOK(a, book')
      <4>1. CASE a \in told
        BY <2>5, <4>1 DEF ScansInOrder
      <4>2. CASE a \notin told
        <5>1. a.op = "scan" => Scanned(calls[c]) /\ a.last = calls[c].last /\ a.order = calls[c].order
          BY <3>2, <4>2
        <5>2. ScanCallOK(calls[c], book)
          BY DEF ScansInOrder
        <5>3. ScanToldOK(a, book)
          BY <5>1, <5>2 DEF ScanCallOK, Scanned, ScanToldOK
        <5> QED
          BY <2>5, <5>3
      <4> QED
        BY <4>1, <4>2
    <3>5. ASSUME NEW d \in Calls, Scanned(calls'[d]) PROVE OwnRow(d)'
      <4>1. d # c /\ calls'[d] = calls[d] /\ OwnRow(d)
        BY <2>2, <3>1, <3>5 DEF ScansInOrder
      <4>2. \A e \in Calls \ {d} : Scanned(calls'[e]) => e # c /\ calls'[e] = calls[e]
        BY <2>2, <3>1
      <4>3. \A a \in told' : a \in told \/ (a.op = "scan" => Scanned(calls[c]) /\ a.last = calls[c].last)
        BY <3>2
      <4> QED
        BY <4>1, <4>2, <4>3 DEF OwnRow
    <3>6. OneAnswer'
      <4>1. \A a \in told, b \in told' \ told :
              a.op = "scan" /\ b.op = "scan" /\ ~a.last.dup /\ ~b.last.dup => a.last.row # b.last.row
        BY <3>2 DEF ScansInOrder, OwnRow
      <4>2. OneAnswer
        BY DEF ScansInOrder
      <4> QED
        BY <3>3, <4>1, <4>2 DEF OneAnswer
    <3>7. \A d \in Calls : OwnRow(d)'
      BY <3>5 DEF OwnRow
    <3> QED
      BY <2>9, <3>4, <3>6, <3>7 DEF ScansInOrder
  <2> QED
    BY <2>8, <2>10, <2>11, <2>12
<1>2. CASE UNCHANGED vars
  BY <1>2 DEF vars, ScansInOrder, OwnRow, OneAnswer
<1> QED
  BY <1>1, <1>2 DEF Next, Step

\* Every scan that was answered has a deduction of its order, and no two the same new one,
\* for any number of requests, retries and deaths.
THEOREM ScansCorrect == Spec => []ScansAreAnswered
<1>1. Init => Typed /\ Deductions /\ ScansInOrder
  <2>1. Init => ScansInOrder
    <3> SUFFICES ASSUME Init PROVE ScansInOrder
      OBVIOUS
    <3>1. told = {} /\ \A c \in Calls : calls[c] = Idle
      BY DEF Init
    <3>2. \A c \in Calls : OwnRow(c)
      BY <3>1, IdleScan DEF OwnRow
    <3> QED
      BY <3>1, <3>2, IdleScan DEF ScansInOrder, OneAnswer
  <2> QED
    BY <2>1, TypedInit, DeductionsInit
<1>2. Typed /\ Deductions /\ ScansInOrder /\ [Next]_vars => (Typed /\ Deductions /\ ScansInOrder)'
  BY TypedStep, DeductionsStep, ScansStep
<1>3. Typed /\ ScansInOrder => ScansAreAnswered
  <2> SUFFICES ASSUME Typed, ScansInOrder, NEW a \in told, a.op = "scan"
               PROVE  /\ a.last.row \in OutRows(a.order)
                      /\ \A b \in told :
                           b.op = "scan" /\ ~a.last.dup /\ ~b.last.dup /\ a.last.row = b.last.row => a = b
    BY DEF ScansAreAnswered
  <2>1. ScanToldOK(a, book) /\ OneAnswer
    BY DEF ScansInOrder
  <2>2. a.last.row \in OutRows(a.order)
    BY <2>1, BookDomain DEF ScanToldOK, OutRows
  <2> QED
    BY <2>1, <2>2 DEF OneAnswer
<1> QED
  BY <1>1, <1>2, <1>3, PTL DEF Spec

-----------------------------------------------------------------------------
(* Closings: the inductive invariant, which compares sums but needs none worked out *)

\* What was taken of an item by some rows of a book.
Taken(b, rows, s) == SumFunction([i \in rows |-> IF b[i].sku = s THEN b[i].qty ELSE 0])

\* The deductions on a receipt, and a closing receipt that says what they took.
OnReceipt(b, r) == {i \in 1 .. Len(b) : b[i].kind = "out" /\ b[i].receipt = r}
Tells(rec, b, rows) == rec.type = "out" => \A s \in Skus : rec.lines[s] = -Taken(b, rows, s)

\* A closing that has not marked its deductions has open ones; when its receipt is written,
\* it says what they took, and there is nothing on it yet.
Closes(k) == k.pc \in {"close", "mark"}
ClosingOK(k, recs, b) ==
  Closes(k) =>
    /\ \A i \in k.rows : i \in 1 .. Len(b) /\ b[i].kind = "out" /\ b[i].receipt = 0
    /\ k.pc = "mark" =>
         /\ k.receipt \in 1 .. Len(recs) /\ Tells(recs[k.receipt], b, k.rows)
         /\ OnReceipt(b, k.receipt) = {}

\* One closing at a time; and every receipt that is finished tells what is on it.
Marks(k, r) == k.pc = "mark" /\ k.receipt = r
ClosingsInOrder ==
  /\ \A c \in Calls : Closes(calls[c]) => calls[c].op = "close"
  /\ ~tangled =>
       /\ \A c, d \in Calls : Closes(calls[c]) /\ Closes(calls[d]) => c = d
       /\ \A c \in Calls : ClosingOK(calls[c], receipts, book)
       /\ \A r \in 1 .. Len(receipts) :
            (\A c \in Calls : ~Marks(calls[c], r)) => Tells(receipts[r], book, OnReceipt(book, r))

\* It is the same in any book that has the same rows.
LEMMA TakenKept ==
  ASSUME NEW b, NEW h, NEW rows, NEW s,
         \A i \in rows : h[i].sku = b[i].sku /\ h[i].qty = b[i].qty
  PROVE  Taken(h, rows, s) = Taken(b, rows, s)
<1>1. [i \in rows |-> IF h[i].sku = s THEN h[i].qty ELSE 0]
        = [i \in rows |-> IF b[i].sku = s THEN b[i].qty ELSE 0]
  OBVIOUS
<1> QED
  BY <1>1, Zenon DEF Taken

LEMMA TellsKept ==
  ASSUME NEW rec, NEW b, NEW h, NEW rows, Tells(rec, b, rows),
         \A i \in rows : h[i].sku = b[i].sku /\ h[i].qty = b[i].qty
  PROVE  Tells(rec, h, rows)
<1>1. \A s \in Skus : Taken(h, rows, s) = Taken(b, rows, s)
  BY TakenKept
<1> QED
  BY <1>1 DEF Tells

LEMMA ClosingsInit == Init => ClosingsInOrder
<1> SUFFICES ASSUME Init PROVE ClosingsInOrder
  OBVIOUS
<1>1. \A c \in Calls : calls[c].pc = "idle"
  BY DEF Init, Idle
<1>2. Len(receipts) = 0
  BY EmptySeq DEF Init
<1> QED
  BY <1>1, <1>2 DEF ClosingsInOrder, Closes, ClosingOK

\* Only closing a receipt makes a call one that closes, and nobody but such a call marks.
LEMMA ClosesOnly ==
  ASSUME Typed, NEW c \in Calls, Step(c)
  PROVE  /\ ~CloseOut(c) /\ ~CloseWrite(c) => ~Closes(calls'[c])
         /\ calls[c].pc = "mark" => CloseMark(c) \/ tangled'
         /\ tangled => tangled'
<1>1. calls \in [Calls -> CallRecords] /\ calls[c] \in CallRecords
  BY DEF Typed
<1>2. ASSUME NEW k, calls' = [calls EXCEPT ![c] = k] PROVE calls'[c] = k
  BY <1>1, <1>2
<1>3. Idle.pc = "idle" /\ \A i, d : Moved(c, i, d).pc = "next"
  BY <1>1 DEF Moved, CallRecords, Idle
<1>4. ASSUME (\E i, d : calls' = [calls EXCEPT ![c] = Moved(c, i, d)]) \/ calls' = [calls EXCEPT ![c] = Idle]
      PROVE  ~Closes(calls'[c])
  BY <1>2, <1>3, <1>4 DEF Closes
<1>5. tangled => tangled'
  BY Zenon DEF Step, Request, CreateReceiptIn, Adjust, ScanOut, ReconcileApply, CloseOut, CloseWrite, CloseMark,
    CountDeductions, Read, CommitNothing, Commit, Again, DuplicateKey, Answer, Die, history
<1>6. CASE Request(c)
  <2>1. calls[c].pc = "idle"
    BY <1>6, Zenon DEF Request, CreateReceiptIn, Adjust, ScanOut, ReconcileApply, CloseOut, Free
  <2> QED
    BY <1>6, <1>5, <2>1, RequestPc DEF Closes
<1>7. CASE Commit(c) \/ CommitNothing(c) \/ DuplicateKey(c)
  <2>1. (\E i, d : calls' = [calls EXCEPT ![c] = Moved(c, i, d)]) \/ calls' = [calls EXCEPT ![c] = Idle]
    BY <1>7, Zenon DEF Commit, CommitNothing, DuplicateKey
  <2>2. calls[c].pc = "commit"
    BY <1>7 DEF Commit, CommitNothing, DuplicateKey
  <2> QED
    BY <1>4, <1>5, <2>1, <2>2
<1>8. CASE CloseMark(c) \/ Answer(c) \/ Die(c)
  <2>1. calls' = [calls EXCEPT ![c] = Idle]
    BY <1>8 DEF CloseMark, Answer, Die
  <2>2. calls[c].pc = "mark" => CloseMark(c) \/ tangled'
    <3>1. Answer(c) => calls[c].pc = "next"
      BY DEF Answer
    <3>2. Die(c) => (tangled' <=> tangled \/ calls[c].pc = "mark")
      BY Zenon DEF Die
    <3> QED
      BY <1>8, <3>1, <3>2
  <2> QED
    BY <1>4, <1>5, <2>1, <2>2
<1>9. CASE Read(c) \/ Again(c)
  <2>1. calls'[c].pc \in {"commit", "again"} /\ calls[c].pc \in {"next", "again", "commit"}
    BY <1>9, ReadFields
  <2> QED
    BY <1>5, <2>1 DEF Closes
<1>10. CASE CountDeductions(c)
  <2>1. calls[c].pc = "next"
    BY <1>10 DEF CountDeductions
  <2>2. CASE \E i, d : calls' = [calls EXCEPT ![c] = Moved(c, i, d)]
    BY <1>4, <1>5, <2>1, <2>2
  <2>3. CASE \E a : calls' = [calls EXCEPT ![c].todo[1] = a]
    <3>1. calls'[c].pc = "next"
      BY <1>1, <2>1, <2>3 DEF CallRecords
    <3> QED
      BY <1>5, <2>1, <3>1 DEF Closes
  <2>4. \/ \E i, d : calls' = [calls EXCEPT ![c] = Moved(c, i, d)]
        \/ \E a : calls' = [calls EXCEPT ![c].todo[1] = a]
    BY <1>10, Zenon DEF CountDeductions
  <2> QED
    BY <2>2, <2>3, <2>4
<1>11. CASE CloseWrite(c)
  <2>1. calls[c].pc = "close"
    BY <1>11 DEF CloseWrite
  <2> QED
    BY <1>11, <1>5, <2>1
<1> QED
  BY <1>6, <1>7, <1>8, <1>9, <1>10, <1>11 DEF Step

\* Nobody but a closing puts a deduction on a receipt.
LEMMA OnReceiptKept ==
  ASSUME Typed, NEW c \in Calls, Step(c), ~CloseMark(c)
  PROVE  /\ \A i \in 1 .. Len(book) : i \in 1 .. Len(book') /\ book'[i] = book[i]
         /\ \A r \in Nat \ {0} : OnReceipt(book', r) = OnReceipt(book, r)
<1>1. Len(book) \in Nat /\ Len(book') \in Nat
  <2>1. Len(book) \in Nat
    BY BookStep
  <2> QED
    BY <2>1, BookStep
<1>2. CASE Commit(c)
  <2>1. /\ Len(book') = Len(book) + 1 /\ \A i \in 1 .. Len(book) : book'[i] = book[i]
        /\ book'[Len(book) + 1] = Row(Movement(c), calls[c].seen.stock, calls[c].seen.qty)
    BY <1>2, Booked
  <2>2. book'[Len(book) + 1].kind = "out" => book'[Len(book) + 1].receipt = 0
    BY <2>1 DEF Row
  <2>3. \A i \in 1 .. Len(book') : i \in 1 .. Len(book) \/ i = Len(book) + 1
    BY <1>1, <2>1
  <2>4. \A i \in 1 .. Len(book) : i \in 1 .. Len(book')
    BY <1>1, <2>1
  <2> QED
    BY <2>1, <2>2, <2>3, <2>4 DEF OnReceipt
<1>3. CASE ~Commit(c)
  <2>1. UNCHANGED book
    BY <1>3, Zenon DEF Step, Request, CreateReceiptIn, Adjust, ScanOut, ReconcileApply, CloseOut, CloseWrite,
      CountDeductions, Read, CommitNothing, Again, DuplicateKey, Answer, Die
  <2> QED
    BY <2>1 DEF OnReceipt
<1> QED
  BY <1>2, <1>3

\* A receipt that no closing writes is one of goods received.
LEMMA OtherReceipts ==
  ASSUME Typed, NEW c \in Calls, Step(c), ~CloseWrite(c), NEW r \in 1 .. Len(receipts')
  PROVE  (r \in 1 .. Len(receipts) /\ receipts'[r] = receipts[r]) \/ receipts'[r].type = "in"
<1>1. Listed(receipts) /\ Len(receipts) \in Nat
  BY AppendListed DEF Typed
<1>2. receipts' = receipts \/ \E e : e.type = "in" /\ receipts' = Append(receipts, e)
  <2>1. ASSUME NEW lines, CreateReceiptIn(c, lines)
        PROVE  \E e : e.type = "in" /\ receipts' = Append(receipts, e)
    <3> DEFINE e == [type |-> "in", lines |-> lines]
    <3>1. e.type = "in" /\ receipts' = Append(receipts, e)
      BY <2>1 DEF CreateReceiptIn
    <3> QED
      BY <3>1
  <2>2. receipts' = receipts \/ \E lines : CreateReceiptIn(c, lines)
    BY Zenon DEF Step, Request, Adjust, ScanOut, ReconcileApply, CloseOut, CloseMark,
      CountDeductions, Read, CommitNothing, Commit, Again, DuplicateKey, Answer, Die
  <2> QED
    BY <2>1, <2>2
<1>3. ASSUME NEW e, e.type = "in", receipts' = Append(receipts, e)
      PROVE  (r \in 1 .. Len(receipts) /\ receipts'[r] = receipts[r]) \/ receipts'[r].type = "in"
  <2>1. /\ Len(receipts') = Len(receipts) + 1 /\ receipts'[Len(receipts) + 1] = e
        /\ \A i \in 1 .. Len(receipts) : receipts'[i] = receipts[i]
    BY <1>1, <1>3, AppendedLast
  <2> QED
    BY <1>1, <1>3, <2>1
<1> QED
  BY <1>2, <1>3

\* A closing notes the open deductions,
LEMMA CloseOutStep ==
  ASSUME Typed, ClosingsInOrder, NEW c \in Calls, CloseOut(c), Step(c), ~tangled'
  PROVE  ClosingsInOrder'
<1>1. /\ \A d \in Calls : ~Closes(calls[d])
      /\ UNCHANGED <<book, receipts>>
  <2>1. ~ \E d \in Calls : calls[d].op = "close"
    BY Zenon DEF CloseOut
  <2> QED
    BY <2>1 DEF ClosingsInOrder, CloseOut
<1>2. \A d \in Calls \ {c} : calls'[d] = calls[d]
  BY Frame
<1>3. DOMAIN book = 1 .. Len(book)
  BY BookDomain
<1>4. calls'[c].op = "close" /\ calls'[c].pc # "mark"
      /\ \A i \in calls'[c].rows : i \in 1 .. Len(book) /\ book[i].kind = "out" /\ book[i].receipt = 0
  <2>1. Request(c)
    BY DEF Request
  <2> QED
    BY <1>3, <2>1, CloseBegins, RequestPc DEF BeginsClose
<1>5. ~tangled
  BY ClosesOnly
<1>6. \A d \in Calls : d # c => ~Closes(calls'[d])
  BY <1>1, <1>2
<1>7. \A d \in Calls : ClosingOK(calls'[d], receipts', book')
  BY <1>1, <1>4, <1>6 DEF ClosingOK
<1>8. \A r \in 1 .. Len(receipts) : Tells(receipts[r], book, OnReceipt(book, r))
  BY <1>1, <1>5 DEF ClosingsInOrder, Marks, Closes
<1> QED
  BY <1>1, <1>4, <1>6, <1>7, <1>8 DEF ClosingsInOrder

\* says what they took,
LEMMA CloseWriteStep ==
  ASSUME Typed, ClosingsInOrder, NEW c \in Calls, CloseWrite(c), Step(c), ~tangled'
  PROVE  ClosingsInOrder'
<1> DEFINE n == Len(receipts) + 1
           rows == calls[c].rows
           rec == [type |-> "out", lines |-> [s \in Skus |-> Deducted(rows, s)]]
<1>1. receipts' = Append(receipts, rec) /\ book' = book /\ calls[c].pc = "close"
  BY DEF CloseWrite
<1>2. /\ Len(receipts) \in Nat /\ Len(receipts') = n /\ receipts'[n] = rec
      /\ \A r \in 1 .. Len(receipts) : receipts'[r] = receipts[r]
  BY <1>1, AppendedLast DEF Typed
<1>3. /\ calls'[c].pc = "mark" /\ calls'[c].receipt = n /\ calls'[c].rows = rows
      /\ calls'[c].op = calls[c].op
  BY DEF Typed, CallRecords, CloseWrite
<1>4. ~tangled /\ \A d \in Calls \ {c} : calls'[d] = calls[d]
  BY ClosesOnly, Frame
<1>5. /\ calls[c].op = "close"
      /\ \A i \in rows : i \in 1 .. Len(book) /\ book[i].kind = "out" /\ book[i].receipt = 0
      /\ \A d \in Calls \ {c} : ~Closes(calls'[d])
  BY <1>1, <1>4 DEF ClosingsInOrder, ClosingOK, Closes
<1>6. Tells(rec, book, rows)
  BY DEF Tells, Deducted, Taken
<1> HIDE DEF rec, rows
<1>7. OnReceipt(book, n) = {}
  BY <1>2 DEF OnReceipt, Typed
<1>8. \A d \in Calls : ClosingOK(calls'[d], receipts', book')
  BY <1>1, <1>2, <1>3, <1>5, <1>6, <1>7 DEF ClosingOK
<1>9. ASSUME NEW r \in 1 .. n, \A d \in Calls : ~Marks(calls'[d], r)
      PROVE  Tells(receipts'[r], book, OnReceipt(book, r))
  <2>1. r # n
    BY <1>3, <1>9 DEF Marks
  <2>2. r \in 1 .. Len(receipts)
    BY <1>2, <2>1
  <2>3. \A d \in Calls : ~Marks(calls[d], r)
    BY <1>1, <1>4, <1>9 DEF Marks
  <2> QED
    BY <1>2, <1>4, <2>2, <2>3 DEF ClosingsInOrder
<1> QED
  BY <1>1, <1>2, <1>3, <1>5, <1>8, <1>9 DEF ClosingsInOrder

\* and marks them.
LEMMA CloseMarkStep ==
  ASSUME Typed, ClosingsInOrder, NEW c \in Calls, CloseMark(c), Step(c), ~tangled'
  PROVE  ClosingsInOrder'
<1> DEFINE n == calls[c].receipt
           rows == calls[c].rows
<1>1. ~tangled /\ \A d \in Calls \ {c} : calls'[d] = calls[d]
  BY ClosesOnly, Frame
<1>2. calls[c].pc = "mark" /\ receipts' = receipts /\ ~Closes(calls'[c])
  <2>1. ~CloseOut(c) /\ ~CloseWrite(c)
    BY DEF CloseMark, CloseOut, CloseWrite, Free
  <2> QED
    BY <2>1, ClosesOnly DEF CloseMark
<1>3. \A d \in Calls : ~Closes(calls'[d])
  BY <1>1, <1>2 DEF ClosingsInOrder, Closes
<1>4. /\ \A i \in rows : i \in 1 .. Len(book) /\ book[i].kind = "out" /\ book[i].receipt = 0
      /\ n \in 1 .. Len(receipts) /\ Tells(receipts[n], book, rows) /\ OnReceipt(book, n) = {}
  BY <1>1, <1>2 DEF ClosingsInOrder, ClosingOK, Closes
<1>5. /\ Len(book') = Len(book) /\ Len(receipts) \in Nat
      /\ \A i \in 1 .. Len(book) :
           book'[i].sku = book[i].sku /\ book'[i].kind = book[i].kind /\ book'[i].qty = book[i].qty
  BY Marked, AppendListed DEF Typed
<1>6. \A i \in 1 .. Len(book) : book'[i].receipt = IF i \in rows THEN n ELSE book[i].receipt
  <2>1. DOMAIN book = 1 .. Len(book) /\ \A i \in 1 .. Len(book) : book[i] \in BookRows
    BY LenProperties DEF Typed
  <2>2. \A i \in 1 .. Len(book) :
          book'[i] = IF i \in rows THEN [book[i] EXCEPT !.receipt = n] ELSE book[i]
    BY <2>1 DEF CloseMark
  <2> HIDE DEF n
  <2> QED
    BY <2>1, <2>2 DEF BookRows
<1> HIDE DEF n, rows
<1>7. OnReceipt(book', n) = rows
  BY <1>4, <1>5, <1>6 DEF OnReceipt
<1>8. ASSUME NEW r \in 1 .. Len(receipts) PROVE Tells(receipts[r], book', OnReceipt(book', r))
  <2>1. CASE r = n
    BY <1>4, <1>5, <1>7, <2>1, TellsKept
  <2>2. CASE r # n
    <3>1. OnReceipt(book', r) = OnReceipt(book, r)
      <4>1. r # 0
        BY <1>5
      <4> QED
        BY <1>4, <1>5, <1>6, <2>2, <4>1 DEF OnReceipt
    <3>2. \A d \in Calls : ~Marks(calls[d], r)
      BY <1>1, <1>2, <2>2 DEF ClosingsInOrder, Closes, Marks, n
    <3>3. Tells(receipts[r], book, OnReceipt(book, r))
      BY <1>1, <3>2 DEF ClosingsInOrder
    <3>4. \A i \in OnReceipt(book, r) : i \in 1 .. Len(book)
      BY DEF OnReceipt
    <3> QED
      BY <1>5, <3>1, <3>3, <3>4, TellsKept
  <2> QED
    BY <2>1, <2>2
<1> QED
  BY <1>2, <1>3, <1>8 DEF ClosingsInOrder, ClosingOK

\* What anybody else does leaves them alone, scans of more orders included.
LEMMA OtherClosingStep ==
  ASSUME Typed, ClosingsInOrder, NEW c \in Calls, Step(c), ~tangled',
         ~CloseOut(c), ~CloseWrite(c), ~CloseMark(c)
  PROVE  ClosingsInOrder'
<1>1. ~tangled /\ (\A d \in Calls \ {c} : calls'[d] = calls[d])
      /\ calls[c].pc # "mark" /\ ~Closes(calls'[c])
  BY ClosesOnly, Frame
<1>2. /\ \A i \in 1 .. Len(book) : i \in 1 .. Len(book') /\ book'[i] = book[i]
      /\ \A r \in Nat \ {0} : OnReceipt(book', r) = OnReceipt(book, r)
  BY OnReceiptKept
<1>3. /\ Len(receipts) \in Nat /\ Len(receipts') \in Nat
      /\ \A r \in 1 .. Len(receipts) : r \in 1 .. Len(receipts') /\ receipts'[r] = receipts[r]
  BY ReceiptsGrow
<1>4. ASSUME NEW d \in Calls PROVE ClosingOK(calls'[d], receipts', book')
  <2> SUFFICES ASSUME Closes(calls'[d]) PROVE ClosingOK(calls'[d], receipts', book')
    BY DEF ClosingOK
  <2>1. calls'[d] = calls[d] /\ ClosingOK(calls[d], receipts, book)
    BY <1>1 DEF ClosingsInOrder
  <2> DEFINE k == calls[d]
  <2>2. \A i \in k.rows : i \in 1 .. Len(book) /\ book[i].kind = "out" /\ book[i].receipt = 0
    BY <2>1 DEF ClosingOK
  <2>3. ASSUME k.pc = "mark"
        PROVE  /\ k.receipt \in 1 .. Len(receipts') /\ Tells(receipts'[k.receipt], book', k.rows)
               /\ OnReceipt(book', k.receipt) = {}
    <3>1. /\ k.receipt \in 1 .. Len(receipts) /\ Tells(receipts[k.receipt], book, k.rows)
          /\ OnReceipt(book, k.receipt) = {}
      BY <2>1, <2>3 DEF ClosingOK, Closes
    <3>2. k.receipt \in Nat \ {0}
      BY <1>3, <3>1
    <3>3. Tells(receipts[k.receipt], book', k.rows)
      BY <1>2, <2>2, <3>1, TellsKept
    <3> QED
      BY <1>2, <1>3, <3>1, <3>2, <3>3
  <2> QED
    BY <1>2, <2>1, <2>2, <2>3 DEF ClosingOK
<1>5. ASSUME NEW r \in 1 .. Len(receipts'), \A d \in Calls : ~Marks(calls'[d], r)
      PROVE  Tells(receipts'[r], book', OnReceipt(book', r))
  <2>1. CASE receipts'[r].type = "in"
    BY <2>1 DEF Tells
  <2>2. CASE r \in 1 .. Len(receipts) /\ receipts'[r] = receipts[r]
    <3>1. \A d \in Calls : ~Marks(calls[d], r)
      BY <1>1, <1>5 DEF Marks
    <3>2. Tells(receipts[r], book, OnReceipt(book, r))
      BY <1>1, <2>2, <3>1 DEF ClosingsInOrder
    <3>3. OnReceipt(book', r) = OnReceipt(book, r) /\ \A i \in OnReceipt(book, r) : i \in 1 .. Len(book)
      BY <1>2, <1>3, <2>2 DEF OnReceipt
    <3> QED
      BY <1>2, <2>2, <3>2, <3>3, TellsKept
  <2> QED
    BY <2>1, <2>2, OtherReceipts
<1> QED
  BY <1>1, <1>4, <1>5 DEF ClosingsInOrder

LEMMA ClosingsStep == Typed /\ ClosingsInOrder /\ [Next]_vars => ClosingsInOrder'
<1> SUFFICES ASSUME Typed, ClosingsInOrder, [Next]_vars PROVE ClosingsInOrder'
  OBVIOUS
<1>1. CASE UNCHANGED vars
  BY <1>1 DEF vars, ClosingsInOrder
<1>2. ASSUME NEW c \in Calls, Step(c) PROVE ClosingsInOrder'
  <2>1. CASE ~tangled'
    BY <1>2, <2>1, CloseOutStep, CloseWriteStep, CloseMarkStep, OtherClosingStep
  <2>2. CASE tangled'
    <3>1. \A d \in Calls \ {c} : calls'[d] = calls[d]
      BY <1>2, Frame
    <3>2. Closes(calls'[c]) => calls'[c].op = "close"
      <4>1. CASE CloseOut(c)
        BY <4>1, CloseBegins DEF BeginsClose
      <4>2. CASE CloseWrite(c)
        <5>1. calls'[c].op = calls[c].op /\ calls[c].pc = "close"
          BY <4>2 DEF Typed, CallRecords, CloseWrite
        <5> QED
          BY <5>1 DEF ClosingsInOrder, Closes
      <4> QED
        BY <1>2, <4>1, <4>2, ClosesOnly
    <3> QED
      BY <2>2, <3>1, <3>2 DEF ClosingsInOrder
  <2> QED
    BY <2>1, <2>2
<1> QED
  BY <1>1, <1>2 DEF Next, Step

\* A finished closing receipt says how much was taken of each SKU by the deductions marked
\* with it: also when orders are scanned while it is written.
THEOREM ClosingsCorrect == Spec => []ClosingsAddUp
<1>1. Init => Typed /\ ClosingsInOrder
  BY TypedInit, ClosingsInit
<1>2. Typed /\ ClosingsInOrder /\ [Next]_vars => (Typed /\ ClosingsInOrder)'
  BY TypedStep, ClosingsStep
<1>3. Typed /\ ClosingsInOrder => ClosingsAddUp
  <2> SUFFICES ASSUME Typed, ClosingsInOrder, ~tangled, NEW r \in DOMAIN receipts,
                      receipts[r].type = "out", \A c \in Calls : ~Marks(calls[c], r),
                      NEW s \in Skus
               PROVE  receipts[r].lines[s]
                        = Deducted({i \in DOMAIN book : book[i].receipt = r /\ book[i].kind = "out"}, s)
    BY DEF ClosingsAddUp, Marks
  <2>1. r \in 1 .. Len(receipts) /\ DOMAIN book = 1 .. Len(book)
    BY ListedDomain, BookDomain DEF Typed
  <2>2. {i \in DOMAIN book : book[i].receipt = r /\ book[i].kind = "out"} = OnReceipt(book, r)
    BY <2>1 DEF OnReceipt
  <2>3. receipts[r].lines[s] = -Taken(book, OnReceipt(book, r), s)
    BY <2>1 DEF ClosingsInOrder, Tells
  <2> QED
    BY <2>2, <2>3 DEF Deducted, Taken
<1> QED
  BY <1>1, <1>2, <1>3, PTL DEF Spec

-----------------------------------------------------------------------------
(* The refinement of StockLedger: a commit is a movement, a receipt is     *)
(* issued as it is written, and nothing else can be seen                   *)

Rows == [i \in DOMAIN book |-> Entry(book[i])]
LinesIn(rec) == IF rec.type = "in" THEN rec.lines ELSE <<>>
Issued == [n \in DOMAIN receipts |-> LinesIn(receipts[n])]

\* A row keeps its entry but for the receipt it is put on, and a commit adds one.
LEMMA RowsType == Typed => Rows \in Seq({Entry(b) : b \in BookRows}) /\ Len(Rows) = Len(book) /\ Len(book) \in Nat
<1> SUFFICES ASSUME Typed PROVE Rows \in Seq({Entry(b) : b \in BookRows}) /\ Len(Rows) = Len(book) /\ Len(book) \in Nat
  OBVIOUS
<1>1. Len(book) \in Nat /\ DOMAIN book = 1 .. Len(book) /\ \A i \in 1 .. Len(book) : book[i] \in BookRows
  BY LenProperties DEF Typed
<1>2. Rows \in [1 .. Len(book) -> {Entry(b) : b \in BookRows}]
  BY <1>1 DEF Rows
<1> QED
  BY <1>1, <1>2, SeqOfFunction

LEMMA RowsKept ==
  ASSUME Typed, NEW c \in Calls, Step(c), ~Commit(c)
  PROVE  Rows' = Rows
<1>1. CASE CloseMark(c)
  <2>1. /\ book' \in Seq(BookRows) /\ Len(book') = Len(book)
        /\ \A i \in 1 .. Len(book) :
              /\ book'[i].sku = book[i].sku /\ book'[i].kind = book[i].kind /\ book'[i].qty = book[i].qty
              /\ book'[i].before = book[i].before /\ book'[i].after = book[i].after
              /\ book'[i].key = book[i].key /\ book'[i].refs = book[i].refs
    BY <1>1, Marked
  <2>2. DOMAIN book = 1 .. Len(book) /\ DOMAIN book' = 1 .. Len(book)
    BY <2>1, LenProperties DEF Typed
  <2>3. \A i \in 1 .. Len(book) : Entry(book'[i]) = Entry(book[i])
    BY <2>1 DEF Entry
  <2> QED
    BY <2>2, <2>3 DEF Rows
<1>2. CASE ~CloseMark(c)
  <2>1. UNCHANGED book
    BY <1>2, Zenon DEF Step, Request, CreateReceiptIn, Adjust, ScanOut, ReconcileApply, CloseOut, CloseWrite,
      CountDeductions, Read, CommitNothing, Again, DuplicateKey, Answer, Die
  <2> QED
    BY <2>1 DEF Rows
<1> QED
  BY <1>1, <1>2

LEMMA RowAppended ==
  ASSUME Typed, NEW c \in Calls, Commit(c)
  PROVE  Rows' = Append(Rows, Entry(Row(Movement(c), calls[c].seen.stock, calls[c].seen.qty)))
<1> DEFINE row == Row(Movement(c), calls[c].seen.stock, calls[c].seen.qty)
           n == Len(book)
           S == {Entry(b) : b \in BookRows}
<1>1. /\ book' \in Seq(BookRows) /\ n \in Nat /\ Len(book') = n + 1
      /\ \A i \in 1 .. n : book'[i] = book[i]
      /\ book'[n + 1] = row
  BY Booked
<1>2. row \in BookRows
  BY RowType
<1>3. Rows \in Seq(S) /\ Len(Rows) = n /\ DOMAIN book = 1 .. n
  BY RowsType, BookDomain
<1> HIDE DEF row, n
<1>4. Entry(row) \in S
  BY <1>2
<1>5. DOMAIN book' = 1 .. n + 1
  BY <1>1, LenProperties
<1>6. Rows' = [i \in 1 .. n + 1 |-> Entry(book'[i])]
  BY <1>5 DEF Rows
<1>7. \A i \in 1 .. n : Rows[i] = Entry(book[i])
  BY <1>3 DEF Rows
<1> HIDE DEF S
<1>8. /\ Append(Rows, Entry(row)) \in Seq(S) /\ Len(Append(Rows, Entry(row))) = n + 1
      /\ \A i \in 1 .. n : Append(Rows, Entry(row))[i] = Rows[i]
      /\ Append(Rows, Entry(row))[n + 1] = Entry(row)
  BY <1>3, <1>4, AppendProperties
<1>9. Append(Rows, Entry(row)) \in [1 .. n + 1 -> S]
  BY <1>8, LenProperties
<1>10. \A i \in 1 .. n + 1 : Rows'[i] = Append(Rows, Entry(row))[i]
  <2>1. \A i \in 1 .. n + 1 : i \in 1 .. n \/ i = n + 1
    BY <1>1
  <2> QED
    BY <1>1, <1>6, <1>7, <1>8, <2>1
<1> QED
  BY <1>6, <1>9, <1>10 DEF row

\* A receipt is issued by the request that brings goods in, or by a closing.
LEMMA IssuedStep ==
  ASSUME Typed, NEW c \in Calls, Step(c)
  PROVE  \/ Issued' = Issued
         \/ ~Commit(c) /\ Issued' = Append(Issued, <<>>)
         \/ ~Commit(c) /\ \E r \in Requests : r.op = "in" /\ Issued' = Append(Issued, r.lines)
<1> DEFINE n == Len(receipts)
<1>1. Listed(receipts) /\ n \in Nat /\ DOMAIN receipts = 1 .. n
  BY AppendListed, ListedDomain DEF Typed
<1>2. Listed(Issued) /\ Len(Issued) = n /\ \A i \in 1 .. n : Issued[i] = LinesIn(receipts[i])
  <2> DEFINE S == {LinesIn(receipts[i]) : i \in 1 .. n}
  <2>1. Issued \in [1 .. n -> S]
    BY <1>1 DEF Issued
  <2> HIDE DEF S
  <2>2. Issued \in Seq(S) /\ Len(Issued) = n
    BY <1>1, <2>1, SeqOfFunction
  <2> QED
    BY <1>1, <2>2 DEF Issued, Listed
<1> HIDE DEF n
<1>3. ASSUME NEW e, receipts' = Append(receipts, e)
      PROVE  Issued' = Append(Issued, LinesIn(e))
  <2>1. /\ Listed(receipts') /\ Len(receipts') = n + 1
        /\ receipts'[n + 1] = e /\ \A i \in 1 .. n : receipts'[i] = receipts[i]
    BY <1>1, <1>3, AppendedLast, AppendListed DEF n
  <2>2. Issued' = [i \in 1 .. n + 1 |-> LinesIn(receipts'[i])]
    BY <2>1, ListedDomain DEF Issued
  <2> DEFINE a == Append(Issued, LinesIn(e))
  <2>3. /\ Listed(a) /\ Len(a) = n + 1
        /\ a[n + 1] = LinesIn(e) /\ \A i \in 1 .. n : a[i] = Issued[i]
    BY <1>2, AppendedLast, AppendListed
  <2>4. PICK S : a \in [1 .. n + 1 -> S]
    <3>1. PICK S : a \in Seq(S)
      BY <2>3 DEF Listed
    <3>2. a \in [1 .. n + 1 -> S]
      BY <2>3, <3>1, LenProperties
    <3> QED
      BY <3>2
  <2> HIDE DEF a
  <2>5. \A i \in 1 .. n + 1 : Issued'[i] = a[i]
    <3>1. \A i \in 1 .. n + 1 : i \in 1 .. n \/ i = n + 1
      BY <1>1
    <3> QED
      BY <1>2, <2>1, <2>2, <2>3, <3>1
  <2> QED
    BY <2>2, <2>4, <2>5 DEF a
<1>4. CASE \E r \in Requests : r.op = "in" /\ CreateReceiptIn(c, r.lines)
  <2>1. PICK r \in Requests : r.op = "in" /\ CreateReceiptIn(c, r.lines)
    BY <1>4
  <2>2. receipts' = Append(receipts, [type |-> "in", lines |-> r.lines]) /\ ~Commit(c)
    BY <2>1 DEF CreateReceiptIn, Free, Commit
  <2>3. LinesIn([type |-> "in", lines |-> r.lines]) = r.lines
    BY DEF LinesIn
  <2> QED
    BY <1>3, <2>1, <2>2, <2>3
<1>5. CASE CloseWrite(c)
  <2>1. PICK out : receipts' = Append(receipts, [type |-> "out", lines |-> out])
    BY <1>5, Zenon DEF CloseWrite
  <2>2. LinesIn([type |-> "out", lines |-> out]) = <<>>
    BY DEF LinesIn
  <2>3. ~Commit(c)
    BY <1>5 DEF CloseWrite, Commit
  <2> QED
    BY <1>3, <2>1, <2>2, <2>3
<1>6. CASE UNCHANGED receipts
  BY <1>6 DEF Issued
<1> QED
  BY <1>4, <1>5, <1>6, Zenon DEF Step, Request, Adjust, ScanOut, ReconcileApply, CloseOut,
    CloseMark, CountDeductions, Read, CommitNothing, Commit, Again, DuplicateKey, Answer, Die

\* The ledger's view of an item: its rows, and what the last of them leaves.
LEMMA StockInLedger ==
  ASSUME Typed, NEW s \in Skus
  PROVE  /\ Ledger!RowsOf(s) = RowsOf(s)
         /\ Ledger!Stock(s) = IF RowsOf(s) = {} THEN 0 ELSE book[Max(RowsOf(s))].after
         /\ \A kind, key : Ledger!Used(s, kind, key) <=>
              key # None /\ \E i \in RowsOf(s) : book[i].kind = kind /\ book[i].key = key
<1>1. \A i \in DOMAIN book :
        /\ Rows[i].sku = book[i].sku /\ Rows[i].kind = book[i].kind /\ Rows[i].key = book[i].key
        /\ Rows[i].after = book[i].after
  BY DEF Rows, Entry
<1>2. DOMAIN Rows = DOMAIN book
  BY DEF Rows
<1>3. Ledger!RowsOf(s) = {i \in DOMAIN Rows : Rows[i].sku = s}
  BY DEF Ledger!RowsOf, Rows
<1>4. Ledger!RowsOf(s) = RowsOf(s)
  BY <1>1, <1>2, <1>3 DEF RowsOf
<1>5. Ledger!Stock(s) = IF RowsOf(s) = {} THEN 0 ELSE Rows[Max(RowsOf(s))].after
  BY <1>4 DEF Ledger!Stock, Rows, Max, Ledger!Max
<1>6. RowsOf(s) # {} => Max(RowsOf(s)) \in DOMAIN book
  BY LastRow DEF RowsOf
<1>7. ASSUME NEW kind, NEW key
      PROVE  Ledger!Used(s, kind, key) <=>
               key # None /\ \E i \in RowsOf(s) : Rows[i].kind = kind /\ Rows[i].key = key
  BY <1>4 DEF Ledger!Used, Rows
<1>8. RowsOf(s) \subseteq DOMAIN book
  BY DEF RowsOf
<1> QED
  BY <1>1, <1>4, <1>5, <1>6, <1>7, <1>8

\* A commit makes one movement, of the stock as it is then, with a key that its item has not.
LEMMA CommitIsBooked ==
  ASSUME Typed, StockIsLedger, CallsInStep, NEW c \in Calls, Commit(c)
  PROVE  /\ Ledger!Stock(Movement(c).sku) = calls[c].seen.stock
         /\ Ledger!Book(Movement(c).sku, Movement(c).kind, calls[c].seen.qty, Movement(c).key, Movement(c).refs)
<1> DEFINE m == Movement(c)
           k == calls[c]
           s == m.sku
<1>1. /\ k.pc = "commit" /\ k.seen.found = {} /\ k.seen.qty # 0
      /\ k.seen.item = quantity[s] /\ k.seen.rows = RowsOf(s)
  BY DEF Commit, Current
<1>2. /\ s \in Skus /\ k.todo # <<>> /\ k \in CallRecords
      /\ k.seen.stock = IF k.seen.item = NoItem THEN 0 ELSE k.seen.item
  BY <1>1, CommitFacts
<1>3. Ledger!Stock(s) = k.seen.stock
  <2>1. IF RowsOf(s) = {} THEN quantity[s] \in {NoItem, 0} ELSE quantity[s] = book[Max(RowsOf(s))].after
    BY <1>2 DEF StockIsLedger
  <2>2. RowsOf(s) # {} => book[Max(RowsOf(s))].after \in Int
    BY <1>2, LastRow, AfterType
  <2>3. Ledger!Stock(s) = IF RowsOf(s) = {} THEN 0 ELSE book[Max(RowsOf(s))].after
    BY <1>2, StockInLedger
  <2> QED
    BY <1>1, <1>2, <2>1, <2>2, <2>3, InventoryAssumption
<1>4. ~Ledger!Used(s, m.kind, m.key)
  <2>1. m = k.todo[1]
    <3>1. k.todo \in Seq(Work)
      BY <1>2 DEF CallRecords
    <3> QED
      BY <1>2, <3>1, EmptySeq DEF Movement
  <2>2. k.seen.found = IF m.key = None THEN {}
                       ELSE {i \in k.seen.rows : book[i].kind = m.kind /\ book[i].key = m.key}
    BY <1>1, <2>1 DEF CallsInStep, SnapshotOK
  <2>3. ~(m.key # None /\ \E i \in RowsOf(s) : book[i].kind = m.kind /\ book[i].key = m.key)
    BY <1>1, <2>2
  <2> QED
    BY <1>2, <2>3, StockInLedger
<1>5. UNCHANGED Issued
  BY DEF Commit, Issued
<1>6. Entry(Row(m, k.seen.stock, k.seen.qty)) =
        [sku |-> s, kind |-> m.kind, qty |-> k.seen.qty, before |-> Ledger!Stock(s),
         after |-> Ledger!Stock(s) + k.seen.qty, key |-> m.key, refs |-> m.refs]
  BY <1>3 DEF Entry, Row
<1>7. Rows' = Append(Rows, [sku |-> s, kind |-> m.kind, qty |-> k.seen.qty, before |-> Ledger!Stock(s),
                            after |-> Ledger!Stock(s) + k.seen.qty, key |-> m.key, refs |-> m.refs])
  BY <1>6, RowAppended
<1>8. Ledger!Book(s, m.kind, k.seen.qty, m.key, m.refs)
  BY <1>1, <1>4, <1>5, <1>7 DEF Ledger!Book, Rows, Issued, LinesIn
<1> QED
  BY <1>3, <1>8

\* What a commit books is a line of its receipt, a count, or a deduction of an order.
LEMMA CommitIsAskedFor ==
  ASSUME Typed, StockIsLedger, Deductions, ReceiptsInOrder, NEW c \in Calls, Commit(c)
  PROVE  Ledger!Next
<1> DEFINE m == Movement(c)
           k == calls[c]
<1>1. CallsInStep /\ RowsInStep
  BY DEF Deductions
<1>2. /\ Ledger!Stock(m.sku) = k.seen.stock
      /\ Ledger!Book(m.sku, m.kind, k.seen.qty, m.key, m.refs)
  BY <1>1, CommitIsBooked
<1>3. /\ m = k.todo[1] /\ m \in Movements /\ k.pc = "commit" /\ 1 \in 1 .. Len(k.todo)
      /\ book'[Len(book) + 1] = Row(m, k.seen.stock, k.seen.qty)
  <2>1. k.pc = "commit"
    BY DEF Commit
  <2>2. k \in CallRecords /\ k.todo # <<>>
    BY <2>1, CommitFacts
  <2>3. Len(k.todo) \in Nat \ {0}
    BY <2>2, EmptySeq DEF CallRecords
  <2> QED
    BY <1>1, <2>1, <2>3, DeductionRow, Booked
<1>4. AskedFor(m) /\ k.seen.qty = IF m.set THEN m.qty - k.seen.stock ELSE m.qty
  BY <1>1, <1>3 DEF CallsInStep, WorkOK, SnapshotOK
<1>5. CASE m.kind = "in"
  <2> DEFINE row == Row(m, k.seen.stock, k.seen.qty)
             r == m.refs
  <2>1. InRowOK(row, receipts) /\ row.kind = "in"
    BY <1>1, <1>3, <1>5, InRowNew
  <2>2. row.receipt = r /\ row.key = m.key /\ row.sku = m.sku /\ row.qty = k.seen.qty
    BY <1>5 DEF Row
  <2> HIDE DEF row
  <2>3. PICK j \in 1 .. Len(receipts[r].lines) :
          /\ r \in 1 .. Len(receipts) /\ receipts[r].type = "in" /\ m.key = <<r, j>>
          /\ m.sku = receipts[r].lines[j].sku /\ k.seen.qty = receipts[r].lines[j].qty
    BY <2>1, <2>2 DEF InRowOK
  <2>4. receipts[r].lines \in Seq(Lines)
    BY <2>3 DEF ReceiptsInOrder, LinesOK
  <2>5. r \in DOMAIN Issued /\ Issued[r] = receipts[r].lines /\ j \in DOMAIN Issued[r]
    <3>1. r \in DOMAIN receipts
      BY <2>3, ListedDomain DEF Typed
    <3> QED
      BY <2>3, <2>4, <3>1, LenProperties DEF Issued, LinesIn
  <2>6. Ledger!Book(Issued[r][j].sku, "in", Issued[r][j].qty, <<r, j>>, r)
    BY <1>2, <1>5, <2>3, <2>5
  <2>7. Ledger!Receive(r, j)
    BY <2>6 DEF Ledger!Receive, Issued, LinesIn
  <2> QED
    BY <2>5, <2>7 DEF Ledger!Next, Issued, LinesIn
<1>6. CASE m.kind = "adjust"
  <2>1. PICK r \in Requests : r.op = "adjust" /\ \E i \in DOMAIN r.lines : m = Counted(r.lines[i].sku, r.lines[i].qty)
    BY <1>4, <1>6 DEF AskedFor
  <2>2. PICK i \in DOMAIN r.lines : m = Counted(r.lines[i].sku, r.lines[i].qty)
    BY <2>1
  <2>3. m.set /\ m.sku = r.lines[i].sku /\ m.qty = r.lines[i].qty /\ m.key = None /\ m.refs = None
    <3> HIDE DEF m
    <3> QED
      BY <2>2 DEF Counted
  <2>4. k.seen.qty = r.lines[i].qty - Ledger!Stock(r.lines[i].sku)
    BY <1>2, <1>4, <2>3
  <2>5. Ledger!Count(r.lines[i])
    BY <1>2, <1>6, <2>3, <2>4 DEF Ledger!Count
  <2> QED
    BY <2>1, <2>5 DEF Ledger!Next
<1>7. CASE m.kind = "out"
  <2>1. PICK o \in Orders, j \in Nat \ {0} :
          /\ m.refs = o /\ m.key = <<o, j>> /\ j <= Count[o] + 1
          /\ book'[Len(book) + 1].qty = -OrderQty[o]
    BY <1>1, <1>7, DeductionRow
  <2>2. k.seen.qty = -OrderQty[o]
    BY <1>3, <2>1 DEF Row
  <2>3. m.sku \in Ledger!ScannedAs(o)
    BY <1>4, <1>7, <2>1 DEF AskedFor
  <2>4. Ledger!Deductions(o) = OutRows(o)
    BY DEF Ledger!Deductions, OutRows, Entry
  <2>5. Count[o] \in Nat /\ Count[o] = Cardinality(Ledger!Deductions(o))
    BY <2>4, RowsCounted DEF Count
  <2>6. j \in 1 .. Cardinality(Ledger!Deductions(o)) + 1
    BY <2>1, <2>5
  <2>7. Ledger!Deduct(o, m.sku, j)
    BY <1>2, <1>7, <2>1, <2>2 DEF Ledger!Deduct
  <2> QED
    BY <2>3, <2>6, <2>7 DEF Ledger!Next, Cardinality, Ledger!Cardinality
<1> QED
  BY <1>3, <1>5, <1>6, <1>7 DEF Movements, Kinds

\* Whatever its requests, transactions and closings do in between, the inventory does what
\* StockLedger says: applyTransaction is one movement, made when it commits, of the stock as
\* it is then; every other step, of scanOut, createReceiptIn, adjust, reconcileApply and
\* closeOutReceipt, issues a receipt or changes nothing that the ledger sees.
THEOREM Refinement == Spec => ImplementsStockLedger
<1> DEFINE Inv == Typed /\ StockIsLedger /\ Deductions /\ ReceiptsInOrder
<1>1. Init => Inv
  <2>1. Init => StockIsLedger
    BY DEF Init, StockIsLedger, RowsOf
  <2> QED
    BY <2>1, TypedInit, DeductionsInit, ReceiptsInit
<1>2. Inv /\ [Next]_vars => Inv'
  BY TypedStep, StockStep, DeductionsStep, ReceiptsStep
<1>3. Init => Ledger!Init
  <2> SUFFICES ASSUME Init PROVE Ledger!Init
    OBVIOUS
  <2>1. DOMAIN book = {} /\ DOMAIN receipts = {}
    BY DEF Init
  <2>2. [i \in DOMAIN book |-> Entry(book[i])] = <<>>
    BY <2>1
  <2>3. [n \in DOMAIN receipts |-> IF receipts[n].type = "in" THEN receipts[n].lines ELSE <<>>] = <<>>
    BY <2>1
  <2> QED
    BY <2>2, <2>3 DEF Ledger!Init
<1>4. Inv /\ [Next]_vars => [UNCHANGED Ledger!stockVars \/ Ledger!Next]_(Ledger!stockVars)
  <2> SUFFICES ASSUME Inv, [Next]_vars
               PROVE  UNCHANGED <<Rows, Issued>> \/ Ledger!Next
    BY DEF Ledger!stockVars, Rows, Issued, LinesIn
  <2>1. CASE UNCHANGED vars
    BY <2>1 DEF vars, Rows, Issued
  <2>2. ASSUME NEW c \in Calls, Step(c)
        PROVE  UNCHANGED <<Rows, Issued>> \/ Ledger!Next
    <3>1. CASE Commit(c)
      BY <3>1, CommitIsAskedFor
    <3>2. CASE ~Commit(c)
      <4>1. Rows' = Rows
        BY <2>2, <3>2, RowsKept
      <4>2. CASE Issued' = Append(Issued, <<>>)
        <5>1. Ledger!Issue(<<>>)
          BY <4>1, <4>2 DEF Ledger!Issue, Rows, Issued, LinesIn
        <5> QED
          BY <5>1 DEF Ledger!Next
      <4>3. CASE \E r \in Requests : r.op = "in" /\ Issued' = Append(Issued, r.lines)
        <5>1. PICK r \in Requests : r.op = "in" /\ Issued' = Append(Issued, r.lines)
          BY <4>3
        <5>2. Ledger!Issue(r.lines)
          BY <4>1, <5>1 DEF Ledger!Issue, Rows, Issued, LinesIn
        <5> QED
          BY <5>1, <5>2 DEF Ledger!Next
      <4> QED
        BY <2>2, <4>1, <4>2, <4>3, IssuedStep
    <3> QED
      BY <3>1, <3>2
  <2> QED
    BY <2>1, <2>2 DEF Next, Step
<1> QED
  BY <1>1, <1>2, <1>3, <1>4, PTL DEF Spec, ImplementsStockLedger, Ledger!Spec
=============================================================================
