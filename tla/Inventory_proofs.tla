-------------------------- MODULE Inventory_proofs --------------------------
(***************************************************************************)
(* What applyTransaction guarantees for any number of requests, items and  *)
(* orders: the book and the cached stock never drift apart                 *)
(***************************************************************************)
EXTENDS Inventory, FiniteSetTheorems, SequenceTheorems, TLAPS

-----------------------------------------------------------------------------
(* Facts about the operators the model is built from *)

\* Numbers have a least one.
LEMMA Least ==
  \A T \in SUBSET Nat : T # {} => \E x \in T : \A y \in T : x <= y
<1> DEFINE R == OpToRel(<, Nat)
<1>1. IsWellFoundedOn(R, Nat)
  BY NatLessThanWellFounded
<1>2. \A x, y \in Nat : x < y => <<x, y>> \in R
  BY DEF OpToRel
<1> HIDE DEF R
<1> QED
  <2> TAKE T \in SUBSET Nat
  <2> HAVE T # {}
  <2>1. PICK x \in T : \A y \in T : ~(<<y, x>> \in R)
    BY <1>1, WFMin
  <2>2. \A y \in T : ~(y < x)
    BY <1>2, <2>1
  <2>3. \A y \in T : x <= y
    BY <2>2
  <2> QED
    BY <2>3

\* Rows of a book have a last one, and Max is it.
LEMMA MaxIsLast ==
  ASSUME NEW n \in Nat, NEW T \in SUBSET (1 .. n), T # {}
  PROVE  Max(T) \in T /\ \A y \in T : y <= Max(T)
<1> DEFINE U == {n - x : x \in T}
<1>1. U \in SUBSET Nat /\ U # {}
  <2>1. ASSUME NEW x \in T PROVE n - x \in Nat
    OBVIOUS
  <2> QED
    BY <2>1
<1>2. PICK u \in U : \A y \in U : u <= y
  BY <1>1, Least
<1>3. PICK x \in T : u = n - x
  OBVIOUS
<1>4. \A y \in T : n - y \in U
  OBVIOUS
<1>5. \A y \in T : x >= y
  <2> TAKE y \in T
  <2>1. n - x <= n - y
    BY <1>2, <1>3, <1>4
  <2> QED
    BY <2>1
<1> QED
  BY <1>5 DEF Max

\* The new row is the last of its rows.
LEMMA MaxOfNew ==
  ASSUME NEW n \in Nat, NEW T \in SUBSET (1 .. n)
  PROVE  Max(T \cup {n + 1}) = n + 1
<1>1. \A y \in T \cup {n + 1} : n + 1 >= y
  OBVIOUS
<1>2. \A x \in T \cup {n + 1} : (\A y \in T \cup {n + 1} : x >= y) => x = n + 1
  OBVIOUS
<1> QED
  BY <1>1, <1>2 DEF Max

\* A finite set can be listed.
LEMMA SetToSeqType ==
  ASSUME NEW S, IsFiniteSet(S)
  PROVE  SetToSeq(S) \in Seq(S)
<1>1. Cardinality(S) \in Nat /\ ExistsBijection(1 .. Cardinality(S), S)
  BY FS_CardinalityType
<1>2. PICK f \in [1 .. Cardinality(S) -> S] : IsInjective(f)
  BY <1>1 DEF ExistsBijection, Bijection, Injection
<1>3. SetToSeq(S) \in [1 .. Cardinality(S) -> S]
  BY <1>2 DEF SetToSeq
<1> QED
  BY <1>1, <1>3, SeqDef

\* A function on 1 .. n is a sequence.
LEMMA SeqOfFunction ==
  ASSUME NEW S, NEW n \in Nat, NEW f \in [1 .. n -> S]
  PROVE  f \in Seq(S) /\ Len(f) = n
<1>1. f \in Seq(S)
  BY SeqDef
<1> QED
  BY <1>1, LenProperties

\* An append keeps a list a list, one longer.
Listed(s) == \E S : s \in Seq(S)

LEMMA AppendListed ==
  ASSUME NEW s, Listed(s), NEW e
  PROVE  Listed(Append(s, e)) /\ Len(s) \in Nat /\ Len(Append(s, e)) = Len(s) + 1
<1>1. PICK S : s \in Seq(S)
  BY DEF Listed
<1> DEFINE T == S \cup {e}
<1>2. s \in Seq(T) /\ e \in T
  BY <1>1, SeqMonotonic
<1> HIDE DEF T
<1>3. Append(s, e) \in Seq(T) /\ Len(Append(s, e)) = Len(s) + 1 /\ Len(s) \in Nat
  BY <1>2, AppendProperties, LenProperties
<1> QED
  BY <1>3 DEF Listed

-----------------------------------------------------------------------------
(* The inductive invariant *)

Kinds == {"in", "out", "adjust"}
Keys == ((Nat \cup Orders) \X Nat) \cup {None}
Refs == Nat \cup Orders \cup {None}

BookRows == [sku : Skus, kind : Kinds, qty : Int \ {0}, before : Int, after : Int,
             key : Keys, refs : Refs, receipt : Nat]
Movements == [sku : Skus, kind : Kinds, set : BOOLEAN, qty : Int, key : Keys, refs : Refs]
Scans == [kind : {"scan"}, order : Orders, sku : Skus, rework : BOOLEAN]
Work == Movements \cup Scans

Snapshots == [item : Int \cup {NoItem}, stock : Int, rows : SUBSET Nat, found : SUBSET Nat, qty : Int]
Made == [row : Nat, dup : BOOLEAN]
PCs == {"idle", "next", "commit", "again", "close", "mark"}
CallRecords ==
  [pc : PCs, op : {"", "in", "adjust", "scan", "reconcile", "close"}, id : Nat, todo : Seq(Work),
   last : Made \cup {None}, order : Orders \cup {None}, receipt : Nat,
   seen : Snapshots \cup {None}, dup : BOOLEAN, unchanged : BOOLEAN, rows : SUBSET Nat]

\* A call refers to receipts that are there (n of them), and while its transaction is open it
\* has a movement to make and a snapshot in which the stock is the quantity of the item.
CallOK(k, n) ==
  /\ k.pc = "mark" => k.receipt \in 1 .. n
  /\ \A i \in 1 .. Len(k.todo) : k.todo[i].kind = "in" => k.todo[i].refs \in 1 .. n
  /\ k.pc = "commit" =>
       /\ k.todo # <<>> /\ Head(k.todo) \in Movements
       /\ k.seen \in Snapshots
       /\ k.seen.stock = IF k.seen.item = NoItem THEN 0 ELSE k.seen.item

Typed ==
  /\ quantity \in [Skus -> Int \cup {NoItem}]
  /\ Listed(receipts)
  /\ book \in Seq(BookRows)
  /\ \A i \in 1 .. Len(book) : book[i].receipt \in 0 .. Len(receipts)
  /\ calls \in [Calls -> CallRecords]
  /\ \A c \in Calls : CallOK(calls[c], Len(receipts))
  /\ begun \in 0 .. MaxCalls
  /\ reworks \in [Orders -> Nat]
  /\ overridden \subseteq Orders
  /\ tangled \in BOOLEAN

\* An idle call refers to nothing.
LEMMA IdleType == Idle \in CallRecords /\ \A n \in Nat : CallOK(Idle, n)
<1>1. <<>> \in Seq(Work) /\ Len(<<>>) = 0
  BY EmptySeq
<1>2. Idle \in CallRecords
  BY <1>1 DEF Idle, CallRecords, PCs
<1>3. Idle.pc = "idle" /\ Len(Idle.todo) = 0
  BY <1>1 DEF Idle
<1> QED
  BY <1>2, <1>3 DEF CallOK

\* The first of what a call has to do, and what is left after it.
LEMMA TodoType ==
  ASSUME NEW k \in CallRecords, NEW n \in Nat, CallOK(k, n), k.todo # <<>>
  PROVE  /\ Len(k.todo) \in Nat \ {0} /\ Head(k.todo) = k.todo[1] /\ Head(k.todo) \in Work
         /\ Tail(k.todo) \in Seq(Work)
         /\ \A i \in 1 .. Len(Tail(k.todo)) :
              Tail(k.todo)[i].kind = "in" => Tail(k.todo)[i].refs \in 1 .. n
         /\ Head(k.todo).kind = "in" => Head(k.todo).refs \in 1 .. n
<1>1. k.todo \in Seq(Work)
  BY DEF CallRecords
<1>2. Len(k.todo) \in Nat \ {0} /\ Head(k.todo) = k.todo[1]
  BY <1>1, EmptySeq
<1>3. /\ Head(k.todo) \in Work /\ Tail(k.todo) \in Seq(Work)
      /\ Len(Tail(k.todo)) = Len(k.todo) - 1
      /\ \A i \in 1 .. Len(Tail(k.todo)) : Tail(k.todo)[i] = k.todo[i + 1]
  BY <1>1, HeadTailProperties
<1>4. \A i \in 1 .. Len(k.todo) : k.todo[i].kind = "in" => k.todo[i].refs \in 1 .. n
  BY DEF CallOK
<1> QED
  BY <1>2, <1>3, <1>4

\* A call that is done with a movement goes on with the next.
LEMMA MovedType ==
  ASSUME Typed, NEW c \in Calls, calls[c].todo # <<>>, NEW i \in Nat, NEW d \in BOOLEAN
  PROVE  Moved(c, i, d) \in CallRecords /\ CallOK(Moved(c, i, d), Len(receipts))
<1>1. calls[c] \in CallRecords /\ CallOK(calls[c], Len(receipts)) /\ Len(receipts) \in Nat
  BY AppendListed DEF Typed
<1>2. /\ Tail(calls[c].todo) \in Seq(Work)
      /\ \A j \in 1 .. Len(Tail(calls[c].todo)) :
           Tail(calls[c].todo)[j].kind = "in" => Tail(calls[c].todo)[j].refs \in 1 .. Len(receipts)
  BY <1>1, TodoType
<1>3. Moved(c, i, d) \in CallRecords
  BY <1>1, <1>2 DEF Moved, CallRecords, PCs, Made
<1>4. Moved(c, i, d).pc = "next" /\ Moved(c, i, d).todo = Tail(calls[c].todo)
  BY <1>1 DEF Moved, CallRecords
<1> QED
  BY <1>2, <1>3, <1>4 DEF CallOK

\* A step of one call, that makes no receipts fewer, leaves the other calls as they should be.
LEMMA OneCall ==
  ASSUME Typed, NEW c \in Calls, NEW k \in CallRecords,
         Len(receipts') \in Nat, Len(receipts') >= Len(receipts),
         calls' = [calls EXCEPT ![c] = k], CallOK(k, Len(receipts'))
  PROVE  calls' \in [Calls -> CallRecords] /\ \A d \in Calls : CallOK(calls'[d], Len(receipts'))
<1>1. calls \in [Calls -> CallRecords] /\ Len(receipts) \in Nat
  BY AppendListed DEF Typed
<1>2. calls' \in [Calls -> CallRecords]
  BY <1>1
<1>3. ASSUME NEW d \in Calls, d # c PROVE CallOK(calls'[d], Len(receipts'))
  <2>1. calls'[d] = calls[d] /\ CallOK(calls[d], Len(receipts))
    BY <1>1, <1>3 DEF Typed
  <2> QED
    BY <1>1, <2>1 DEF CallOK
<1>4. calls'[c] = k
  BY <1>1
<1> QED
  BY <1>2, <1>3, <1>4

-----------------------------------------------------------------------------
(* Type correctness *)

LEMMA TypedInit == Init => Typed
<1> SUFFICES ASSUME Init PROVE Typed
  OBVIOUS
<1>1. Listed(receipts) /\ Len(receipts) = 0 /\ book \in Seq(BookRows) /\ Len(book) = 0
  BY EmptySeq DEF Init, Listed
<1>2. calls \in [Calls -> CallRecords] /\ \A c \in Calls : CallOK(calls[c], Len(receipts))
  BY <1>1, IdleType DEF Init
<1>3. quantity \in [Skus -> Int \cup {NoItem}] /\ reworks \in [Orders -> Nat]
  BY DEF Init
<1>4. begun \in 0 .. MaxCalls
  BY InventoryAssumption DEF Init
<1>5. overridden \subseteq Orders /\ tangled \in BOOLEAN
  BY Zenon DEF Init
<1>6. \A i \in 1 .. Len(book) : book[i].receipt \in 0 .. Len(receipts)
  BY <1>1
<1> QED
  BY <1>1, <1>2, <1>3, <1>4, <1>5, <1>6 DEF Typed

\* A step that writes no row and no receipt, and does not touch the stock.
LEMMA OnlyCalls ==
  ASSUME Typed, NEW c \in Calls, NEW k \in CallRecords, CallOK(k, Len(receipts)),
         calls' = [calls EXCEPT ![c] = k], UNCHANGED <<quantity, book, receipts>>,
         begun' \in 0 .. MaxCalls, reworks' \in [Orders -> Nat], overridden' \subseteq Orders,
         tangled' \in BOOLEAN
  PROVE  Typed'
<1>1. Len(receipts') \in Nat /\ Len(receipts') >= Len(receipts)
  BY AppendListed DEF Typed
<1>2. calls' \in [Calls -> CallRecords] /\ \A d \in Calls : CallOK(calls'[d], Len(receipts'))
  BY <1>1, OneCall
<1> QED
  BY <1>2 DEF Typed

\* What a request makes of an idle call.
Receiving(i, r, t, op, id) == [[i EXCEPT !.pc = "next", !.receipt = r, !.todo = t] EXCEPT !.op = op, !.id = id]
Working(i, o, t, op, id) == [[i EXCEPT !.pc = "next", !.order = o, !.todo = t] EXCEPT !.op = op, !.id = id]

LEMMA ReceivingType ==
  ASSUME NEW i \in CallRecords, NEW r \in Nat, NEW t \in Seq(Work), NEW id \in Nat
  PROVE  /\ Receiving(i, r, t, "in", id) \in CallRecords
         /\ Receiving(i, r, t, "in", id).pc = "next" /\ Receiving(i, r, t, "in", id).todo = t
  BY DEF CallRecords, PCs, Receiving

LEMMA WorkingType ==
  ASSUME NEW i \in CallRecords, NEW o \in Orders \cup {None}, NEW t \in Seq(Work),
         NEW op \in {"adjust", "scan", "reconcile"}, NEW id \in Nat
  PROVE  /\ Working(i, o, t, op, id) \in CallRecords
         /\ Working(i, o, t, op, id).pc = "next" /\ Working(i, o, t, op, id).todo = t
  BY DEF CallRecords, PCs, Working

\* A goods receipt is a list of movements that refer to it.
LEMMA InType ==
  ASSUME Typed, NEW c \in Calls, NEW lines \in Seq(Lines), CreateReceiptIn(c, lines)
  PROVE  Typed'
<1> DEFINE r == Len(receipts) + 1
           t == [i \in DOMAIN lines |-> Adding(lines[i].sku, "in", lines[i].qty, <<r, i>>, r)]
           k == Receiving(Idle, r, t, "in", begun + 1)
<1>1. Listed(receipts') /\ Len(receipts') = r /\ Len(receipts) \in Nat
  BY AppendListed DEF Typed, CreateReceiptIn
<1>2. Len(lines) \in Nat /\ DOMAIN lines = 1 .. Len(lines) /\ \A i \in 1 .. Len(lines) : lines[i] \in Lines
  BY LenProperties
<1>3. ASSUME NEW i \in 1 .. Len(lines)
      PROVE  Adding(lines[i].sku, "in", lines[i].qty, <<r, i>>, r) \in Movements
  BY <1>1, <1>2 DEF Lines, Adding, Movements, Keys, Refs, Kinds
<1>4. t \in Seq(Work) /\ Len(t) = Len(lines) /\ \A i \in 1 .. Len(t) : t[i].refs = r
  <2>1. t \in [1 .. Len(lines) -> Work]
    BY <1>2, <1>3 DEF Work
  <2>2. t \in Seq(Work) /\ Len(t) = Len(lines)
    <3> HIDE DEF t
    <3> QED
      BY <1>2, <2>1, SeqOfFunction
  <2> QED
    BY <1>2, <2>2 DEF Adding
<1> HIDE DEF t
<1>5. k \in CallRecords /\ k.pc = "next" /\ k.todo = t
  <2>2. r \in Nat /\ begun + 1 \in Nat
    BY <1>1, InventoryAssumption DEF Typed
  <2> QED
    BY <1>4, <2>2, IdleType, ReceivingType
<1>6. CallOK(k, Len(receipts'))
  BY <1>1, <1>4, <1>5 DEF CallOK
<1>7. calls' = [calls EXCEPT ![c] = k] /\ begun' = begun + 1 /\ begun < MaxCalls
  BY DEF CreateReceiptIn, Begin, Free, Receiving, t
<1> HIDE DEF k
<1>8. calls' \in [Calls -> CallRecords] /\ \A d \in Calls : CallOK(calls'[d], Len(receipts'))
  <2>1. Len(receipts') \in Nat /\ Len(receipts') >= Len(receipts)
    BY <1>1
  <2> QED
    BY <1>5, <1>6, <1>7, <2>1, OneCall
<1> QED
  BY <1>1, <1>7, <1>8, InventoryAssumption DEF Typed, CreateReceiptIn, history

\* A request that begins with a list of work that refers to no goods receipt.
LEMMA BeginType ==
  ASSUME Typed, NEW c \in Calls, NEW t \in Seq(Work), NEW op \in {"adjust", "scan", "reconcile"},
         NEW o \in Orders \cup {None},
         \A i \in 1 .. Len(t) : t[i].kind # "in",
         Free(c),
         Begin(c, op, [Idle EXCEPT !.pc = "next", !.order = o, !.todo = t]),
         UNCHANGED <<quantity, book, receipts, tangled>>,
         reworks' \in [Orders -> Nat], overridden' \subseteq Orders
  PROVE  Typed'
<1> DEFINE k == Working(Idle, o, t, op, begun + 1)
<1>1. k \in CallRecords /\ k.pc = "next" /\ k.todo = t
  <2>2. begun + 1 \in Nat
    BY InventoryAssumption DEF Typed
  <2> QED
    BY <2>2, IdleType, WorkingType
<1>2. CallOK(k, Len(receipts))
  BY <1>1 DEF CallOK
<1>3. calls' = [calls EXCEPT ![c] = k] /\ begun' = begun + 1 /\ begun < MaxCalls
  BY DEF Begin, Free, Working
<1> HIDE DEF k
<1>4. begun' \in 0 .. MaxCalls /\ tangled' \in BOOLEAN
  BY <1>3, InventoryAssumption DEF Typed
<1> QED
  BY <1>1, <1>2, <1>3, <1>4, OnlyCalls

\* A request that is about no order.
LEMMA NoOrder ==
  ASSUME NEW c, NEW op, NEW t, Begin(c, op, [Idle EXCEPT !.pc = "next", !.todo = t])
  PROVE  Begin(c, op, [Idle EXCEPT !.pc = "next", !.order = None, !.todo = t])
<1>1. ASSUME NEW i \in CallRecords, i.order = None
      PROVE  [i EXCEPT !.pc = "next", !.todo = t] = [i EXCEPT !.pc = "next", !.order = None, !.todo = t]
  BY <1>1 DEF CallRecords
<1>2. Idle \in CallRecords /\ Idle.order = None
  <2>1. Idle.order = None
    BY DEF Idle
  <2> QED
    BY <2>1, IdleType
<1>3. [Idle EXCEPT !.pc = "next", !.todo = t] = [Idle EXCEPT !.pc = "next", !.order = None, !.todo = t]
  BY <1>1, <1>2, Zenon
<1> QED
  BY <1>3, Zenon

LEMMA AdjustType ==
  ASSUME Typed, NEW c \in Calls, NEW counts \in Seq(Lines), Adjust(c, counts)
  PROVE  Typed'
<1> DEFINE t == [i \in DOMAIN counts |-> Counted(counts[i].sku, counts[i].qty)]
<1>1. Len(counts) \in Nat /\ DOMAIN counts = 1 .. Len(counts) /\ \A i \in 1 .. Len(counts) : counts[i] \in Lines
  BY LenProperties
<1>2. ASSUME NEW i \in 1 .. Len(counts)
      PROVE  Counted(counts[i].sku, counts[i].qty) \in Movements
  BY <1>1 DEF Lines, Counted, Movements, Keys, Refs, Kinds
<1>3. t \in [1 .. Len(counts) -> Work]
  BY <1>1, <1>2 DEF Work
<1>4. t \in Seq(Work) /\ Len(t) = Len(counts)
  <2> HIDE DEF t
  <2> QED
    BY <1>1, <1>3, SeqOfFunction
<1>5. \A i \in 1 .. Len(t) : t[i].kind # "in"
  BY <1>1, <1>4 DEF Counted
<1>6. Begin(c, "adjust", [Idle EXCEPT !.pc = "next", !.order = None, !.todo = t])
  <2>1. Begin(c, "adjust", [Idle EXCEPT !.pc = "next", !.todo = t])
    BY DEF Adjust
  <2> HIDE DEF t
  <2> QED
    BY <2>1, NoOrder
<1> QED
  BY <1>4, <1>5, <1>6, BeginType DEF Adjust, Typed, history

\* A scan that is to be worked out.
LEMMA ScanType ==
  ASSUME NEW o \in Orders, NEW s \in Skus, NEW r \in BOOLEAN
  PROVE  Scan(o, s, r) \in Work /\ Scan(o, s, r).kind = "scan"
  BY DEF Scan, Scans, Work

LEMMA ScanOutType ==
  ASSUME Typed, NEW c \in Calls, NEW o \in Orders, NEW s \in Skus, NEW r \in BOOLEAN,
         ScanOut(c, o, s, r)
  PROVE  Typed'
<1> DEFINE t == <<Scan(o, s, r)>>
<1>1. t \in Seq(Work) /\ \A i \in 1 .. Len(t) : t[i].kind # "in"
  BY ScanType
<1> HIDE DEF t
<1>2. Begin(c, "scan", [Idle EXCEPT !.pc = "next", !.order = o, !.todo = t])
  BY DEF ScanOut, t
<1>3. reworks' \in [Orders -> Nat] /\ overridden' \subseteq Orders
  BY DEF ScanOut, Typed
<1> QED
  BY <1>1, <1>2, <1>3, BeginType DEF ScanOut

LEMMA ReconcileType ==
  ASSUME Typed, NEW c \in Calls, ReconcileApply(c)
  PROVE  Typed'
<1> DEFINE D == {o \in Orders : OutRows(o) = {}}
           due == SetToSeq(D)
           t == [i \in DOMAIN due |-> Scan(due[i], OrderSku[due[i]], FALSE)]
<1>1. due \in Seq(Orders)
  <2>1. IsFiniteSet(D)
    BY FS_Subset, InventoryAssumption
  <2>2. due \in Seq(D)
    BY <2>1, SetToSeqType
  <2> QED
    BY <2>2, SeqMonotonic
<1>2. Begin(c, "reconcile", [Idle EXCEPT !.pc = "next", !.todo = t])
  BY DEF ReconcileApply
<1> HIDE DEF D, due
<1>3. Len(due) \in Nat /\ DOMAIN due = 1 .. Len(due) /\ \A i \in 1 .. Len(due) : due[i] \in Orders
  BY <1>1, LenProperties
<1>4. \A i \in 1 .. Len(due) :
        Scan(due[i], OrderSku[due[i]], FALSE) \in Work /\ Scan(due[i], OrderSku[due[i]], FALSE).kind = "scan"
  BY <1>3, ScanType, InventoryAssumption
<1>5. t \in [1 .. Len(due) -> Work]
  BY <1>3, <1>4
<1>6. t \in Seq(Work) /\ Len(t) = Len(due)
  <2> HIDE DEF t
  <2> QED
    BY <1>3, <1>5, SeqOfFunction
<1>7. \A i \in 1 .. Len(t) : t[i].kind # "in"
  BY <1>3, <1>4, <1>6
<1> HIDE DEF t
<1>8. Begin(c, "reconcile", [Idle EXCEPT !.pc = "next", !.order = None, !.todo = t])
  BY <1>2, NoOrder
<1> QED
  BY <1>6, <1>7, <1>8, BeginType DEF ReconcileApply, Typed, history

LEMMA CloseOutType ==
  ASSUME Typed, NEW c \in Calls, CloseOut(c)
  PROVE  Typed'
<1> DEFINE open == {i \in DOMAIN book : book[i].kind = "out" /\ book[i].receipt = 0}
           k == [[Idle EXCEPT !.pc = "close", !.rows = open] EXCEPT !.op = "close", !.id = begun + 1]
<1>1. calls' = [calls EXCEPT ![c] = k] /\ begun' = begun + 1 /\ begun < MaxCalls
  BY DEF CloseOut, Begin, Free
<1>2. open \subseteq Nat /\ begun + 1 \in Nat
  BY LenProperties, InventoryAssumption DEF Typed
<1> HIDE DEF open
<1>3. k \in CallRecords /\ k.pc = "close" /\ k.todo = Idle.todo
  <2>1. ASSUME NEW i \in CallRecords
        PROVE  LET j == [[i EXCEPT !.pc = "close", !.rows = open] EXCEPT !.op = "close", !.id = begun + 1]
               IN  j \in CallRecords /\ j.pc = "close" /\ j.todo = i.todo
    BY <1>2 DEF CallRecords, PCs
  <2> QED
    BY <2>1, IdleType, Zenon
<1> HIDE DEF k
<1>4. CallOK(k, Len(receipts))
  <2>1. Len(k.todo) = 0
    BY <1>3, EmptySeq DEF Idle
  <2> QED
    BY <1>3, <2>1 DEF CallOK
<1>5. begun' \in 0 .. MaxCalls
  BY <1>1, InventoryAssumption DEF Typed
<1>6. tangled' \in BOOLEAN /\ reworks' \in [Orders -> Nat] /\ overridden' \subseteq Orders
  <2>1. tangled' \in BOOLEAN
    BY Zenon DEF CloseOut
  <2> QED
    BY <2>1 DEF CloseOut, Typed
<1> QED
  BY <1>1, <1>3, <1>4, <1>5, <1>6, OnlyCalls DEF CloseOut

LEMMA CloseWriteType ==
  ASSUME Typed, NEW c \in Calls, CloseWrite(c)
  PROVE  Typed'
<1> DEFINE k == [calls[c] EXCEPT !.pc = "mark", !.receipt = Len(receipts) + 1]
<1>1. Listed(receipts') /\ Len(receipts') = Len(receipts) + 1 /\ Len(receipts) \in Nat
  BY AppendListed DEF Typed, CloseWrite
<1>2. calls[c] \in CallRecords /\ CallOK(calls[c], Len(receipts))
  BY DEF Typed
<1>3. k \in CallRecords /\ k.pc = "mark" /\ k.receipt = Len(receipts') /\ k.todo = calls[c].todo
  <2>1. ASSUME NEW j \in CallRecords, NEW r \in Nat
        PROVE  LET h == [j EXCEPT !.pc = "mark", !.receipt = r]
               IN  h \in CallRecords /\ h.pc = "mark" /\ h.receipt = r /\ h.todo = j.todo
    BY DEF CallRecords, PCs
  <2>2. Len(receipts) + 1 \in Nat
    BY <1>1
  <2> QED
    BY <1>1, <1>2, <2>1, <2>2
<1>4. calls' = [calls EXCEPT ![c] = k]
  BY DEF CloseWrite, Typed
<1> HIDE DEF k
<1>5. CallOK(k, Len(receipts'))
  BY <1>1, <1>2, <1>3 DEF CallOK
<1>6. calls' \in [Calls -> CallRecords] /\ \A d \in Calls : CallOK(calls'[d], Len(receipts'))
  <2>1. Len(receipts') \in Nat /\ Len(receipts') >= Len(receipts)
    BY <1>1
  <2> QED
    BY <1>3, <1>4, <1>5, <2>1, OneCall
<1>7. \A i \in 1 .. Len(book) : book'[i].receipt \in 0 .. Len(receipts')
  BY <1>1 DEF Typed, CloseWrite
<1> QED
  BY <1>1, <1>6, <1>7 DEF Typed, CloseWrite, history

\* Marking changes nothing of a row but its receipt.
LEMMA Marked ==
  ASSUME Typed, NEW c \in Calls, CloseMark(c)
  PROVE  /\ book' \in Seq(BookRows) /\ Len(book') = Len(book)
         /\ \A i \in 1 .. Len(book) :
              /\ book'[i].receipt \in 0 .. Len(receipts)
              /\ book'[i].sku = book[i].sku /\ book'[i].kind = book[i].kind /\ book'[i].qty = book[i].qty
              /\ book'[i].before = book[i].before /\ book'[i].after = book[i].after
              /\ book'[i].key = book[i].key /\ book'[i].refs = book[i].refs
<1>1. Len(book) \in Nat /\ DOMAIN book = 1 .. Len(book) /\ \A i \in 1 .. Len(book) : book[i] \in BookRows
  BY LenProperties DEF Typed
<1>2. calls[c].receipt \in 1 .. Len(receipts) /\ Len(receipts) \in Nat
  BY AppendListed DEF Typed, CallOK, CloseMark
<1>3. ASSUME NEW i \in 1 .. Len(book), NEW r \in Nat
      PROVE  LET b == [book[i] EXCEPT !.receipt = r]
             IN  /\ b \in BookRows /\ b.receipt = r /\ b.sku = book[i].sku /\ b.qty = book[i].qty
                 /\ b.kind = book[i].kind /\ b.key = book[i].key /\ b.refs = book[i].refs
                 /\ b.before = book[i].before /\ b.after = book[i].after
  BY <1>1 DEF BookRows
<1>4. \A i \in 1 .. Len(book) : book[i].receipt \in 0 .. Len(receipts)
  BY DEF Typed
<1>5. book' = [i \in 1 .. Len(book) |->
        IF i \in calls[c].rows THEN [book[i] EXCEPT !.receipt = calls[c].receipt] ELSE book[i]]
  BY <1>1 DEF CloseMark
<1>6. book' \in [1 .. Len(book) -> BookRows]
  BY <1>1, <1>2, <1>3, <1>5
<1>7. book' \in Seq(BookRows) /\ Len(book') = Len(book)
  BY <1>1, <1>6, SeqOfFunction
<1>8. ASSUME NEW i \in 1 .. Len(book)
      PROVE  /\ book'[i].receipt \in 0 .. Len(receipts)
             /\ book'[i].sku = book[i].sku /\ book'[i].kind = book[i].kind /\ book'[i].qty = book[i].qty
             /\ book'[i].before = book[i].before /\ book'[i].after = book[i].after
             /\ book'[i].key = book[i].key /\ book'[i].refs = book[i].refs
  <2>1. CASE i \in calls[c].rows
    BY <1>2, <1>3, <1>5, <2>1
  <2>2. CASE i \notin calls[c].rows
    BY <1>4, <1>5, <2>2
  <2> QED
    BY <2>1, <2>2
<1> QED
  BY <1>7, <1>8

LEMMA CloseMarkType ==
  ASSUME Typed, NEW c \in Calls, CloseMark(c)
  PROVE  Typed'
<1>1. book' \in Seq(BookRows) /\ \A i \in 1 .. Len(book') : book'[i].receipt \in 0 .. Len(receipts')
  BY Marked DEF CloseMark
<1>2. Len(receipts') = Len(receipts) /\ Len(receipts) \in Nat
  BY AppendListed DEF Typed, CloseMark
<1>3. calls' \in [Calls -> CallRecords] /\ \A d \in Calls : CallOK(calls'[d], Len(receipts'))
  <2>1. CallOK(Idle, Len(receipts')) /\ Len(receipts') \in Nat /\ Len(receipts') >= Len(receipts)
    BY <1>2, IdleType
  <2>2. calls' = [calls EXCEPT ![c] = Idle] /\ Idle \in CallRecords
    BY IdleType DEF CloseMark
  <2> QED
    BY <2>1, <2>2, OneCall
<1> QED
  BY <1>1, <1>3 DEF Typed, CloseMark, history

\* The deductions of an order can be counted.
LEMMA RowsCounted ==
  ASSUME Typed, NEW o
  PROVE  OutRows(o) \subseteq 1 .. Len(book) /\ Cardinality(OutRows(o)) \in Nat
<1>1. DOMAIN book = 1 .. Len(book) /\ Len(book) \in Nat
  BY LenProperties DEF Typed
<1>2. IsFiniteSet(1 .. Len(book))
  BY <1>1, FS_Interval
<1>3. OutRows(o) \subseteq 1 .. Len(book)
  BY <1>1 DEF OutRows
<1>4. IsFiniteSet(OutRows(o))
  BY <1>2, <1>3, FS_Subset
<1> QED
  BY <1>3, <1>4, FS_CardinalityType

LEMMA CountType ==
  ASSUME Typed, NEW c \in Calls, CountDeductions(c)
  PROVE  Typed'
<1> DEFINE m == Movement(c)
           before == OutRows(m.order)
           a == Adding(m.sku, "out", -OrderQty[m.order], <<m.order, Cardinality(before) + 1>>, m.order)
<1>1. calls[c] \in CallRecords /\ CallOK(calls[c], Len(receipts)) /\ Len(receipts) \in Nat
  BY AppendListed DEF Typed
<1>2. calls[c].todo # <<>> /\ m.kind = "scan" /\ calls[c].pc = "next"
  BY DEF CountDeductions
<1>3. m \in Scans /\ Len(calls[c].todo) \in Nat \ {0}
  <2>1. m \in Work /\ Len(calls[c].todo) \in Nat \ {0}
    BY <1>1, <1>2, TodoType DEF Movement
  <2>2. m \notin Movements
    BY <1>2 DEF Movements, Kinds
  <2> QED
    BY <2>1, <2>2 DEF Work
<1>4. m.order \in Orders /\ m.sku \in Skus
  BY <1>3 DEF Scans
<1>5. before \subseteq Nat /\ Cardinality(before) \in Nat
  BY RowsCounted, LenProperties DEF Typed
<1>6. a \in Movements /\ a.kind = "out"
  <2>1. -OrderQty[m.order] \in Int
    BY <1>4, InventoryAssumption
  <2>2. <<m.order, Cardinality(before) + 1>> \in Keys
    BY <1>4, <1>5 DEF Keys
  <2> HIDE DEF before, m
  <2> QED
    BY <1>4, <2>1, <2>2 DEF Adding, Movements, Kinds, Refs
<1>7. CASE \E i \in before : calls' = [calls EXCEPT ![c] = Moved(c, i, TRUE)]
  <2>1. PICK i \in Nat : calls' = [calls EXCEPT ![c] = Moved(c, i, TRUE)]
    BY <1>5, <1>7
  <2>2. Moved(c, i, TRUE) \in CallRecords /\ CallOK(Moved(c, i, TRUE), Len(receipts))
    BY <1>2, MovedType
  <2> QED
    BY <2>1, <2>2, OnlyCalls DEF CountDeductions, Typed, history
<1>8. CASE calls' = [calls EXCEPT ![c].todo[1] = a]
  <2> HIDE DEF a
  <2> DEFINE t == [calls[c].todo EXCEPT ![1] = a]
             k == [calls[c] EXCEPT !.todo = t]
  <2>1. /\ t \in Seq(Work) /\ Len(t) = Len(calls[c].todo)
        /\ \A j \in 1 .. Len(calls[c].todo) : t[j] = IF j = 1 THEN a ELSE calls[c].todo[j]
    <3>1. calls[c].todo \in Seq(Work) /\ a \in Work /\ 1 \in 1 .. Len(calls[c].todo)
      <4>1. calls[c].todo \in Seq(Work)
        BY <1>1 DEF CallRecords
      <4>2. a \in Work
        BY <1>6 DEF Work
      <4> QED
        BY <1>3, <4>1, <4>2
    <3> QED
      BY <3>1, ExceptSeq
  <2>2. calls' = [calls EXCEPT ![c] = k]
    BY <1>8 DEF Typed, CallRecords
  <2> HIDE DEF t
  <2>3. k \in CallRecords /\ k.todo = t /\ k.pc = "next"
    BY <1>1, <1>2, <2>1 DEF CallRecords
  <2> HIDE DEF k
  <2>4. \A j \in 1 .. Len(t) : t[j].kind = "in" => t[j].refs \in 1 .. Len(receipts)
    BY <1>1, <1>6, <2>1 DEF CallOK
  <2>5. CallOK(k, Len(receipts))
    BY <2>3, <2>4 DEF CallOK
  <2> QED
    BY <2>2, <2>3, <2>5, OnlyCalls DEF CountDeductions, Typed, history
<1> QED
  BY <1>7, <1>8 DEF CountDeductions

LEMMA ReadType ==
  ASSUME Typed, NEW c \in Calls, Read(c)
  PROVE  Typed'
<1> DEFINE m == Movement(c)
           s == [item |-> quantity[m.sku], stock |-> Stock(m.sku), rows |-> RowsOf(m.sku),
                 found |-> Keyed(m), qty |-> Qty(m)]
<1>1. calls[c] \in CallRecords /\ CallOK(calls[c], Len(receipts)) /\ Len(receipts) \in Nat
  BY AppendListed DEF Typed
<1>2. calls[c].todo # <<>> /\ m.kind # "scan"
  BY DEF Read
<1>3. m \in Movements
  <2>1. m \in Work
    BY <1>1, <1>2, TodoType DEF Movement
  <2> QED
    BY <1>2, <2>1 DEF Work, Scans
<1>4. m.sku \in Skus /\ m.qty \in Int /\ m.set \in BOOLEAN
  BY <1>3 DEF Movements
<1>5. quantity[m.sku] \in Int \cup {NoItem} /\ Stock(m.sku) \in Int
  BY <1>4 DEF Typed, Stock
<1>6. Qty(m) \in Int
  BY <1>4, <1>5 DEF Qty
<1>7. RowsOf(m.sku) \subseteq Nat /\ Keyed(m) \subseteq Nat
  <2>1. DOMAIN book \subseteq Nat
    BY LenProperties DEF Typed
  <2> QED
    BY <2>1 DEF RowsOf, Keyed
<1>8. s \in Snapshots /\ s.stock = IF s.item = NoItem THEN 0 ELSE s.item
  BY <1>5, <1>6, <1>7 DEF Snapshots, Stock
<1>9. PICK d \in BOOLEAN, u \in BOOLEAN :
        calls' = [calls EXCEPT ![c] = [calls[c] EXCEPT !.pc = "commit", !.seen = s, !.dup = d, !.unchanged = u]]
  <2>1. calls[c].dup \in BOOLEAN /\ calls[c].unchanged \in BOOLEAN
    BY <1>1 DEF CallRecords
  <2> DEFINE d == calls[c].dup \/ Keyed(m) # {}
             u == calls[c].unchanged \/ (Keyed(m) = {} /\ Qty(m) = 0)
  <2>2. d \in BOOLEAN /\ u \in BOOLEAN
    BY Zenon
  <2>3. calls' = [calls EXCEPT ![c] = [calls[c] EXCEPT !.pc = "commit", !.seen = s, !.dup = d, !.unchanged = u]]
    BY DEF Read, Typed, CallRecords
  <2> QED
    BY <2>2, <2>3
<1> DEFINE k == [calls[c] EXCEPT !.pc = "commit", !.seen = s, !.dup = d, !.unchanged = u]
<1> HIDE DEF s
<1>10. k \in CallRecords /\ k.seen = s /\ k.todo = calls[c].todo /\ k.pc = "commit"
  BY <1>1, <1>8 DEF CallRecords, PCs
<1> HIDE DEF k
<1>11. CallOK(k, Len(receipts))
  BY <1>1, <1>2, <1>3, <1>8, <1>10 DEF CallOK, Movement
<1> QED
  BY <1>9, <1>10, <1>11, OnlyCalls DEF Read, Typed, history, k

\* What a call does whose transaction is open.
LEMMA CommitFacts ==
  ASSUME Typed, NEW c \in Calls, calls[c].pc = "commit"
  PROVE  /\ calls[c] \in CallRecords /\ calls[c].todo # <<>>
         /\ Movement(c) \in Movements /\ Movement(c).sku \in Skus
         /\ Movement(c).kind = "in" => Movement(c).refs \in 1 .. Len(receipts)
         /\ calls[c].seen \in Snapshots
         /\ calls[c].seen.stock = IF calls[c].seen.item = NoItem THEN 0 ELSE calls[c].seen.item
<1>1. calls[c] \in CallRecords /\ CallOK(calls[c], Len(receipts)) /\ Len(receipts) \in Nat
  BY AppendListed DEF Typed
<1>2. calls[c].todo # <<>> /\ Movement(c) \in Movements
  BY <1>1 DEF CallOK, Movement
<1>3. Movement(c).kind = "in" => Movement(c).refs \in 1 .. Len(receipts)
  BY <1>1, <1>2, TodoType DEF Movement
<1>4. Movement(c).sku \in Skus
  BY <1>2 DEF Movements
<1> QED
  BY <1>1, <1>2, <1>3, <1>4 DEF CallOK

LEMMA CommitNothingType ==
  ASSUME Typed, NEW c \in Calls, CommitNothing(c)
  PROVE  Typed'
<1> DEFINE m == Movement(c)
<1>1. calls[c].pc = "commit"
  BY DEF CommitNothing
<1>2. calls[c] \in CallRecords /\ calls[c].todo # <<>> /\ m.sku \in Skus /\ calls[c].seen \in Snapshots
  BY <1>1, CommitFacts
<1>3. calls[c].seen.found \subseteq Nat
  BY <1>2 DEF Snapshots
<1>4. PICK i \in Nat, d \in BOOLEAN : calls' = [calls EXCEPT ![c] = Moved(c, i, d)]
  BY <1>3 DEF CommitNothing
<1>5. Moved(c, i, d) \in CallRecords /\ CallOK(Moved(c, i, d), Len(receipts))
  BY <1>2, MovedType
<1>6. Len(receipts') = Len(receipts) /\ Len(receipts) \in Nat
  BY AppendListed DEF Typed, CommitNothing
<1>7. calls' \in [Calls -> CallRecords] /\ \A e \in Calls : CallOK(calls'[e], Len(receipts'))
  <2>1. Len(receipts') \in Nat /\ Len(receipts') >= Len(receipts)
    BY <1>6
  <2> QED
    BY <1>4, <1>5, <1>6, <2>1, OneCall
<1>8. quantity' \in [Skus -> Int \cup {NoItem}]
  <2>1. Stock(m.sku) \in Int
    BY <1>2 DEF Stock, Typed
  <2>2. quantity' = quantity \/ quantity' = [quantity EXCEPT ![m.sku] = Stock(m.sku)]
    BY DEF CommitNothing
  <2> QED
    BY <1>2, <2>1, <2>2 DEF Typed
<1> QED
  BY <1>7, <1>8 DEF Typed, CommitNothing, history

\* The row a transaction writes.
LEMMA RowType ==
  ASSUME Typed, NEW c \in Calls, Commit(c)
  PROVE  LET k == calls[c]
             row == Row(Movement(c), k.seen.stock, k.seen.qty)
         IN  /\ row \in BookRows /\ row.receipt \in 0 .. Len(receipts)
             /\ row.sku = Movement(c).sku /\ row.qty = k.seen.qty
             /\ row.before = k.seen.stock /\ row.after = k.seen.stock + k.seen.qty
             /\ k.seen.stock \in Int /\ k.seen.qty \in Int \ {0}
<1> DEFINE m == Movement(c)
           k == calls[c]
           row == Row(m, k.seen.stock, k.seen.qty)
<1>1. /\ m \in Movements /\ k.seen \in Snapshots
      /\ m.kind = "in" => m.refs \in 1 .. Len(receipts)
  BY CommitFacts DEF Commit
<1>2. k.seen.stock \in Int /\ k.seen.qty \in Int \ {0}
  BY <1>1 DEF Snapshots, Commit
<1>3. Len(receipts) \in Nat
  BY AppendListed DEF Typed
<1> HIDE DEF m
<1>4. /\ row.sku = m.sku /\ row.qty = k.seen.qty /\ row.before = k.seen.stock
      /\ row.after = k.seen.stock + k.seen.qty
  BY DEF Row
<1>5. (IF m.kind = "in" THEN m.refs ELSE 0) \in 0 .. Len(receipts)
  BY <1>1, <1>3
<1>6. row.receipt \in 0 .. Len(receipts)
  BY <1>5 DEF Row
<1>7. row \in BookRows
  <2> DEFINE r == IF m.kind = "in" THEN m.refs ELSE 0
  <2>1. r \in Nat
    BY <1>3, <1>5
  <2>2. row = [sku |-> m.sku, kind |-> m.kind, qty |-> k.seen.qty, before |-> k.seen.stock,
               after |-> k.seen.stock + k.seen.qty, key |-> m.key, refs |-> m.refs, receipt |-> r]
    BY DEF Row
  <2> HIDE DEF r
  <2>3. m.sku \in Skus /\ m.kind \in Kinds /\ m.key \in Keys /\ m.refs \in Refs
    BY <1>1 DEF Movements
  <2>4. k.seen.stock + k.seen.qty \in Int
    BY <1>2
  <2> QED
    BY <1>2, <2>1, <2>2, <2>3, <2>4 DEF BookRows
<1> QED
  BY <1>2, <1>4, <1>6, <1>7 DEF m

\* A row is added to the book, and nothing else in it changes.
LEMMA Booked ==
  ASSUME Typed, NEW c \in Calls, Commit(c)
  PROVE  /\ book' \in Seq(BookRows) /\ Len(book) \in Nat /\ Len(book') = Len(book) + 1
         /\ \A i \in 1 .. Len(book) : book'[i] = book[i]
         /\ book'[Len(book) + 1] = Row(Movement(c), calls[c].seen.stock, calls[c].seen.qty)
<1>1. book \in Seq(BookRows) /\ Len(book) \in Nat
  BY LenProperties DEF Typed
<1>2. Row(Movement(c), calls[c].seen.stock, calls[c].seen.qty) \in BookRows
  BY RowType
<1> QED
  BY <1>1, <1>2, AppendProperties DEF Commit

LEMMA CommitType ==
  ASSUME Typed, NEW c \in Calls, Commit(c)
  PROVE  Typed'
<1> DEFINE m == Movement(c)
           row == Row(m, calls[c].seen.stock, calls[c].seen.qty)
<1>1. calls[c] \in CallRecords /\ calls[c].todo # <<>> /\ m.sku \in Skus
  BY CommitFacts DEF Commit
<1>2. /\ row \in BookRows /\ row.receipt \in 0 .. Len(receipts)
      /\ calls[c].seen.stock \in Int /\ calls[c].seen.qty \in Int
  BY RowType
<1>3. /\ book' \in Seq(BookRows) /\ Len(book) \in Nat /\ Len(book') = Len(book) + 1
      /\ \A i \in 1 .. Len(book) : book'[i] = book[i]
      /\ book'[Len(book) + 1] = row
  BY Booked
<1> HIDE DEF row
<1>4. \A i \in 1 .. Len(book') : book'[i].receipt \in 0 .. Len(receipts)
  <2>1. \A i \in 1 .. Len(book) : book[i].receipt \in 0 .. Len(receipts)
    BY DEF Typed
  <2> QED
    BY <1>2, <1>3, <2>1
<1>5. PICK i \in Nat, d \in BOOLEAN : calls' = [calls EXCEPT ![c] = Moved(c, i, d)]
  <2>1. calls[c].dup \in BOOLEAN
    BY <1>1 DEF CallRecords
  <2>2. (IF calls[c].unchanged THEN 0 ELSE Len(book) + 1) \in Nat
    BY <1>3
  <2> QED
    BY <2>1, <2>2 DEF Commit
<1>6. Moved(c, i, d) \in CallRecords /\ CallOK(Moved(c, i, d), Len(receipts))
  BY <1>1, MovedType
<1>7. Len(receipts') = Len(receipts) /\ Len(receipts) \in Nat
  BY AppendListed DEF Typed, Commit
<1>8. calls' \in [Calls -> CallRecords] /\ \A e \in Calls : CallOK(calls'[e], Len(receipts'))
  <2>1. Len(receipts') \in Nat /\ Len(receipts') >= Len(receipts)
    BY <1>7
  <2> QED
    BY <1>5, <1>6, <1>7, <2>1, OneCall
<1>9. quantity' \in [Skus -> Int \cup {NoItem}]
  <2>1. calls[c].seen.stock + calls[c].seen.qty \in Int
    BY <1>2
  <2> QED
    BY <1>1, <2>1 DEF Commit, Typed
<1> QED
  BY <1>3, <1>4, <1>8, <1>9 DEF Typed, Commit, history

LEMMA AgainType ==
  ASSUME Typed, NEW c \in Calls, Again(c)
  PROVE  Typed'
<1> DEFINE k == [calls[c] EXCEPT !.pc = "again", !.seen = None]
<1>1. calls[c] \in CallRecords /\ CallOK(calls[c], Len(receipts))
  BY DEF Typed
<1>2. k \in CallRecords /\ k.pc = "again" /\ k.todo = calls[c].todo
  BY <1>1 DEF CallRecords, PCs
<1>3. calls' = [calls EXCEPT ![c] = k]
  BY DEF Again, Typed
<1> HIDE DEF k
<1>4. CallOK(k, Len(receipts))
  BY <1>1, <1>2 DEF CallOK
<1> QED
  BY <1>2, <1>3, <1>4, OnlyCalls DEF Again, Typed, history

LEMMA DuplicateKeyType ==
  ASSUME Typed, NEW c \in Calls, DuplicateKey(c)
  PROVE  Typed'
<1> DEFINE m == Movement(c)
<1>1. calls[c].todo # <<>>
  BY CommitFacts DEF DuplicateKey
<1>2. Keyed(m) \subseteq Nat
  <2>1. DOMAIN book \subseteq Nat
    BY LenProperties DEF Typed
  <2> QED
    BY <2>1 DEF RowsOf, Keyed
<1>3. CASE \E i \in Keyed(m) : calls' = [calls EXCEPT ![c] = Moved(c, i, TRUE)]
  <2>1. PICK i \in Nat : calls' = [calls EXCEPT ![c] = Moved(c, i, TRUE)]
    BY <1>2, <1>3
  <2>2. Moved(c, i, TRUE) \in CallRecords /\ CallOK(Moved(c, i, TRUE), Len(receipts))
    BY <1>1, MovedType
  <2> QED
    BY <2>1, <2>2, OnlyCalls DEF DuplicateKey, Typed, history
<1>4. CASE calls' = [calls EXCEPT ![c] = Idle]
  <2>1. Idle \in CallRecords /\ CallOK(Idle, Len(receipts))
    BY IdleType, AppendListed DEF Typed
  <2> QED
    BY <1>4, <2>1, OnlyCalls DEF DuplicateKey, Typed, history
<1> QED
  BY <1>3, <1>4 DEF DuplicateKey

LEMMA EndType ==
  ASSUME Typed, NEW c \in Calls, Answer(c) \/ Die(c)
  PROVE  Typed'
<1>1. Idle \in CallRecords /\ CallOK(Idle, Len(receipts))
  BY IdleType, AppendListed DEF Typed
<1>2. /\ calls' = [calls EXCEPT ![c] = Idle]
      /\ UNCHANGED <<quantity, book, receipts, begun, reworks, overridden>>
  BY DEF Answer, Die, history
<1>3. tangled' \in BOOLEAN
  <2>1. CASE Answer(c)
    BY <2>1 DEF Answer, history, Typed
  <2>2. CASE Die(c)
    BY <2>2, Zenon DEF Die
  <2> QED
    BY <2>1, <2>2
<1> QED
  BY <1>1, <1>2, <1>3, OnlyCalls DEF Typed

\* Every step leaves every variable in its type, every call with receipts that are there, and
\* every open transaction with a snapshot whose stock is that of its item.
LEMMA TypedStep == Typed /\ [Next]_vars => Typed'
<1> SUFFICES ASSUME Typed, [Next]_vars PROVE Typed'
  OBVIOUS
<1>1. CASE UNCHANGED vars
  BY <1>1 DEF vars, Typed
<1>2. CASE Next
  <2> PICK c \in Calls :
        \/ Request(c) \/ CloseWrite(c) \/ CloseMark(c)
        \/ CountDeductions(c) \/ Read(c) \/ CommitNothing(c) \/ Commit(c)
        \/ Again(c) \/ DuplicateKey(c) \/ Answer(c) \/ Die(c)
    BY <1>2 DEF Next
  <2>1. CASE Request(c)
    <3>1. CASE \E r \in Requests : r.op = "in" /\ CreateReceiptIn(c, r.lines)
      BY <3>1, InType, RequestsAssumption
    <3>2. CASE \E r \in Requests : r.op = "adjust" /\ Adjust(c, r.lines)
      BY <3>2, AdjustType, RequestsAssumption
    <3>3. CASE \E r \in Requests : r.op = "scan" /\ ScanOut(c, r.order, r.sku, r.rework)
      BY <3>3, ScanOutType, RequestsAssumption
    <3>4. CASE ReconcileApply(c)
      BY <3>4, ReconcileType
    <3>5. CASE CloseOut(c)
      BY <3>5, CloseOutType
    <3> QED
      BY <2>1, <3>1, <3>2, <3>3, <3>4, <3>5 DEF Request
  <2>2. CASE CloseWrite(c)
    BY <2>2, CloseWriteType
  <2>3. CASE CloseMark(c)
    BY <2>3, CloseMarkType
  <2>4. CASE CountDeductions(c)
    BY <2>4, CountType
  <2>5. CASE Read(c)
    BY <2>5, ReadType
  <2>6. CASE CommitNothing(c)
    BY <2>6, CommitNothingType
  <2>7. CASE Commit(c)
    BY <2>7, CommitType
  <2>8. CASE Again(c)
    BY <2>8, AgainType
  <2>9. CASE DuplicateKey(c)
    BY <2>9, DuplicateKeyType
  <2>10. CASE Answer(c) \/ Die(c)
    BY <2>10, EndType
  <2> QED
    BY <2>1, <2>2, <2>3, <2>4, <2>5, <2>6, <2>7, <2>8, <2>9, <2>10
<1> QED
  BY <1>1, <1>2

\* What is typed so is typed as the run checks it.
LEMMA TypedImpliesTypeOK == Typed => TypeOK
<1> SUFFICES ASSUME Typed PROVE TypeOK
  OBVIOUS
<1>1. DOMAIN book = 1 .. Len(book) /\ \A i \in 1 .. Len(book) : book[i] \in BookRows
  BY LenProperties DEF Typed
<1>2. \A i \in DOMAIN book :
        /\ book[i].sku \in Skus
        /\ book[i].kind \in {"in", "out", "adjust"}
        /\ book[i].qty \in Int \ {0}
        /\ book[i].receipt \in 0 .. Len(receipts)
  BY <1>1 DEF BookRows, Kinds, Typed
<1>3. \A c \in Calls : calls[c].pc \in {"idle", "next", "commit", "again", "close", "mark"}
  BY DEF Typed, CallRecords, PCs
<1> QED
  BY <1>2, <1>3 DEF Typed, TypeOK

\* Every variable keeps its type: above all, a row moves something, of an item that is there,
\* and refers to a receipt that was written before it.
THEOREM TypeCorrect == Spec => []TypeOK
<1>1. Init => Typed
  BY TypedInit
<1>2. Typed /\ [Next]_vars => Typed'
  BY TypedStep
<1>3. Typed => TypeOK
  BY TypedImpliesTypeOK
<1> QED
  BY <1>1, <1>2, <1>3, PTL DEF Spec

-----------------------------------------------------------------------------
(* The stock is what the book says *)

\* The rows of an item have a last one.
LEMMA LastRow ==
  ASSUME Typed, NEW s \in Skus
  PROVE  /\ RowsOf(s) \subseteq 1 .. Len(book) /\ Len(book) \in Nat
         /\ RowsOf(s) # {} => Max(RowsOf(s)) \in RowsOf(s) /\ \A j \in RowsOf(s) : j <= Max(RowsOf(s))
         /\ \A i \in RowsOf(s) :
              LET earlier == {j \in RowsOf(s) : j < i}
              IN  earlier # {} => Max(earlier) \in earlier
<1>1. DOMAIN book = 1 .. Len(book) /\ Len(book) \in Nat
  BY LenProperties DEF Typed
<1>2. RowsOf(s) \in SUBSET (1 .. Len(book))
  BY <1>1 DEF RowsOf
<1>3. ASSUME NEW i \in RowsOf(s), {j \in RowsOf(s) : j < i} # {}
      PROVE  Max({j \in RowsOf(s) : j < i}) \in {j \in RowsOf(s) : j < i}
  BY <1>1, <1>2, <1>3, MaxIsLast
<1>4. RowsOf(s) # {} => Max(RowsOf(s)) \in RowsOf(s) /\ \A j \in RowsOf(s) : j <= Max(RowsOf(s))
  BY <1>1, <1>2, MaxIsLast
<1> QED
  BY <1>1, <1>2, <1>3, <1>4

\* An item whose rows are the same, with the same quantities, and whose stock is the same (or
\* an item that begins at 0 without a row) is as its book says if it was.
Chained(s) ==
  /\ \A i \in RowsOf(s) :
       LET earlier == {j \in RowsOf(s) : j < i} IN
       /\ book[i].before = (IF earlier = {} THEN 0 ELSE book[Max(earlier)].after)
       /\ book[i].after = book[i].before + book[i].qty
  /\ IF RowsOf(s) = {} THEN quantity[s] \in {NoItem, 0}
     ELSE quantity[s] = book[Max(RowsOf(s))].after

LEMMA StockIsChained == StockIsLedger <=> \A s \in Skus : Chained(s)
  BY DEF StockIsLedger, Chained

LEMMA SameRows ==
  ASSUME Typed, NEW s \in Skus, Chained(s),
         RowsOf(s)' = RowsOf(s),
         \A i \in RowsOf(s) : /\ book'[i].before = book[i].before /\ book'[i].after = book[i].after
                              /\ book'[i].qty = book[i].qty,
         quantity'[s] = quantity[s] \/ (RowsOf(s) = {} /\ quantity'[s] = 0)
  PROVE  Chained(s)'
<1>1. ASSUME NEW i \in RowsOf(s)
      PROVE  LET earlier == {j \in RowsOf(s) : j < i} IN
             /\ book'[i].before = (IF earlier = {} THEN 0 ELSE book'[Max(earlier)].after)
             /\ book'[i].after = book'[i].before + book'[i].qty
  <2> DEFINE earlier == {j \in RowsOf(s) : j < i}
  <2>1. /\ book[i].before = (IF earlier = {} THEN 0 ELSE book[Max(earlier)].after)
        /\ book[i].after = book[i].before + book[i].qty
    BY DEF Chained
  <2>2. earlier # {} => Max(earlier) \in RowsOf(s)
    BY LastRow
  <2> HIDE DEF earlier
  <2>3. earlier # {} => book'[Max(earlier)].after = book[Max(earlier)].after
    BY <2>2
  <2>4. book'[i].before = (IF earlier = {} THEN 0 ELSE book'[Max(earlier)].after)
    BY <2>1, <2>3
  <2>5. book'[i].after = book'[i].before + book'[i].qty
    BY <2>1
  <2> QED
    BY <2>4, <2>5 DEF earlier
<1>2. IF RowsOf(s) = {} THEN quantity'[s] \in {NoItem, 0}
      ELSE quantity'[s] = book'[Max(RowsOf(s))].after
  <2>1. RowsOf(s) # {} => Max(RowsOf(s)) \in RowsOf(s)
    BY LastRow
  <2>2. IF RowsOf(s) = {} THEN quantity[s] \in {NoItem, 0}
        ELSE quantity[s] = book[Max(RowsOf(s))].after
    BY DEF Chained
  <2> QED
    BY <2>1, <2>2
<1> QED
  BY <1>1, <1>2 DEF Chained

\* What a row leaves is a number.
LEMMA AfterType == Typed => \A i \in 1 .. Len(book) : book[i].after \in Int
<1> SUFFICES ASSUME Typed, NEW i \in 1 .. Len(book) PROVE book[i].after \in Int
  OBVIOUS
<1>1. book[i] \in BookRows
  BY ElementOfSeq DEF Typed
<1> QED
  BY <1>1 DEF BookRows

\* A committed movement adds one row to its item's, that begins with the stock there is: its
\* snapshot may be old, but Current says that nothing has happened to the item since.
LEMMA CommitChained ==
  ASSUME Typed, NEW c \in Calls, Commit(c), NEW s \in Skus, Chained(s)
  PROVE  Chained(s)'
<1> DEFINE n == Len(book)
           m == Movement(c)
           k == calls[c]
<1>1. /\ book' \in Seq(BookRows) /\ n \in Nat /\ Len(book') = n + 1
      /\ \A i \in 1 .. n : book'[i] = book[i]
      /\ book'[n + 1].sku = m.sku /\ book'[n + 1].qty = k.seen.qty
      /\ book'[n + 1].before = k.seen.stock /\ book'[n + 1].after = k.seen.stock + k.seen.qty
      /\ k.seen.stock \in Int
  BY Booked, RowType
<1>2. DOMAIN book = 1 .. n /\ DOMAIN book' = 1 .. n + 1
  BY <1>1, LenProperties DEF Typed
<1>3. m.sku \in Skus /\ k.seen.stock = IF k.seen.item = NoItem THEN 0 ELSE k.seen.item
  BY CommitFacts DEF Commit
<1>4. quantity' = [quantity EXCEPT ![m.sku] = k.seen.stock + k.seen.qty] /\ k.seen.item = quantity[m.sku]
  BY DEF Commit, Current
<1>5. RowsOf(s) \subseteq 1 .. n
  BY LastRow
<1>6. RowsOf(s)' = RowsOf(s) \cup (IF s = m.sku THEN {n + 1} ELSE {})
  <2>1. RowsOf(s)' = {i \in 1 .. n + 1 : book'[i].sku = s}
    BY <1>2 DEF RowsOf
  <2>2. RowsOf(s) = {i \in 1 .. n : book[i].sku = s}
    BY <1>2 DEF RowsOf
  <2> HIDE DEF n, m
  <2>3. \A i \in 1 .. n + 1 : i \in 1 .. n \/ i = n + 1
    BY <1>1
  <2>4. \A i \in 1 .. n : i \in 1 .. n + 1
    BY <1>1
  <2>5. n + 1 \in 1 .. n + 1
    BY <1>1
  <2>6. ASSUME NEW i PROVE i \in RowsOf(s)' <=> i \in RowsOf(s) \cup (IF s = m.sku THEN {n + 1} ELSE {})
    <3>1. CASE i \in 1 .. n
      <4>1. i # n + 1
        BY <1>1, <3>1
      <4> QED
        BY <1>1, <2>1, <2>2, <2>4, <3>1, <4>1
    <3>2. CASE i = n + 1
      <4>1. i \notin 1 .. n
        BY <1>1, <3>2
      <4> QED
        BY <1>1, <2>1, <2>2, <2>5, <3>2, <4>1
    <3>3. CASE i \notin 1 .. n /\ i # n + 1
      BY <2>1, <2>2, <2>3, <3>3
    <3> QED
      BY <3>1, <3>2, <3>3
  <2> QED
    BY <2>6
<1>7. CASE s # m.sku
  <2>1. RowsOf(s)' = RowsOf(s)
    BY <1>6, <1>7
  <2>2. quantity'[s] = quantity[s]
    BY <1>4, <1>7 DEF Typed
  <2>3. \A i \in RowsOf(s) : book'[i] = book[i]
    BY <1>1, <1>5
  <2> QED
    BY <2>1, <2>2, <2>3, SameRows
<1>8. CASE s = m.sku
  <2> DEFINE R == RowsOf(s)
  <2>1. RowsOf(s)' = R \cup {n + 1}
    BY <1>6, <1>8
  <2>2. quantity'[s] = k.seen.stock + k.seen.qty
    BY <1>3, <1>4, <1>8 DEF Typed
  <2>3. Max(R \cup {n + 1}) = n + 1
    BY <1>1, <1>5, MaxOfNew
  <2>4. k.seen.stock = IF R = {} THEN 0 ELSE book[Max(R)].after
    <3>1. CASE R = {}
      <4>1. quantity[s] \in {NoItem, 0}
        BY <3>1 DEF Chained
      <4> QED
        BY <1>3, <1>4, <1>8, <3>1, <4>1
    <3>2. CASE R # {}
      <4>1. quantity[s] = book[Max(R)].after
        BY <3>2 DEF Chained
      <4>2. Max(R) \in 1 .. n
        BY <1>5, <3>2, LastRow
      <4>3. book[Max(R)].after \in Int
        BY <4>2, AfterType
      <4>4. quantity[s] # NoItem
        BY <4>1, <4>3, InventoryAssumption
      <4> QED
        BY <1>3, <1>4, <1>8, <3>2, <4>1, <4>4
    <3> QED
      BY <3>1, <3>2
  <2>5. R \subseteq 1 .. n /\ \A i \in R : book'[i] = book[i]
    BY <1>1, <1>5
  <2>6. ASSUME NEW i \in R
        PROVE  LET earlier == {j \in R \cup {n + 1} : j < i} IN
               /\ book'[i].before = (IF earlier = {} THEN 0 ELSE book'[Max(earlier)].after)
               /\ book'[i].after = book'[i].before + book'[i].qty
    <3> DEFINE earlier == {j \in R : j < i}
    <3>1. {j \in R \cup {n + 1} : j < i} = earlier
      <4>1. i \in Nat /\ ~(n + 1 < i)
        BY <1>1, <2>5
      <4> QED
        BY <4>1
    <3>2. /\ book[i].before = (IF earlier = {} THEN 0 ELSE book[Max(earlier)].after)
          /\ book[i].after = book[i].before + book[i].qty
      BY DEF Chained
    <3>3. earlier # {} => Max(earlier) \in R
      BY LastRow
    <3> HIDE DEF earlier, R
    <3>4. book'[i].before = (IF earlier = {} THEN 0 ELSE book'[Max(earlier)].after)
      BY <2>5, <3>2, <3>3
    <3>5. book'[i].after = book'[i].before + book'[i].qty
      BY <2>5, <3>2
    <3> QED
      BY <3>1, <3>4, <3>5
  <2>7. LET earlier == {j \in R \cup {n + 1} : j < n + 1} IN
        /\ book'[n + 1].before = (IF earlier = {} THEN 0 ELSE book'[Max(earlier)].after)
        /\ book'[n + 1].after = book'[n + 1].before + book'[n + 1].qty
    <3>1. {j \in R \cup {n + 1} : j < n + 1} = R
      BY <1>1, <2>5
    <3>2. R # {} => Max(R) \in R
      BY LastRow
    <3> HIDE DEF R
    <3>3. book'[n + 1].before = (IF R = {} THEN 0 ELSE book'[Max(R)].after)
      BY <1>1, <2>4, <2>5, <3>2
    <3>4. book'[n + 1].after = book'[n + 1].before + book'[n + 1].qty
      BY <1>1
    <3> QED
      BY <3>1, <3>3, <3>4
  <2>8. quantity'[s] = book'[Max(R \cup {n + 1})].after
    BY <1>1, <2>2, <2>3
  <2>9. ASSUME NEW i \in R \cup {n + 1}
        PROVE  LET earlier == {j \in R \cup {n + 1} : j < i} IN
               /\ book'[i].before = (IF earlier = {} THEN 0 ELSE book'[Max(earlier)].after)
               /\ book'[i].after = book'[i].before + book'[i].qty
    BY <2>6, <2>7
  <2> HIDE DEF R
  <2> QED
    BY <2>1, <2>8, <2>9 DEF Chained
<1> QED
  BY <1>7, <1>8

\* No step but a commit changes an item's rows or their quantities, and its stock only from
\* nothing to 0.
LEMMA OtherChained ==
  ASSUME Typed, NEW s \in Skus, Chained(s),
         \A i \in 1 .. Len(book) :
           /\ book'[i].sku = book[i].sku /\ book'[i].qty = book[i].qty
           /\ book'[i].before = book[i].before /\ book'[i].after = book[i].after,
         DOMAIN book' = DOMAIN book,
         quantity'[s] = quantity[s] \/ (RowsOf(s) = {} /\ quantity'[s] = 0)
  PROVE  Chained(s)'
<1>1. DOMAIN book = 1 .. Len(book)
  BY LenProperties DEF Typed
<1>2. RowsOf(s)' = RowsOf(s)
  BY <1>1 DEF RowsOf
<1>3. RowsOf(s) \subseteq 1 .. Len(book)
  BY LastRow
<1> QED
  BY <1>2, <1>3, SameRows

LEMMA NothingChained ==
  ASSUME Typed, NEW c \in Calls, CommitNothing(c), NEW s \in Skus, Chained(s)
  PROVE  quantity'[s] = quantity[s] \/ (RowsOf(s) = {} /\ quantity'[s] = 0)
<1> DEFINE m == Movement(c)
<1>1. m.sku \in Skus
  BY CommitFacts DEF CommitNothing
<1>2. quantity' = quantity \/ quantity' = [quantity EXCEPT ![m.sku] = Stock(m.sku)]
  BY DEF CommitNothing
<1>3. CASE s = m.sku /\ quantity' = [quantity EXCEPT ![m.sku] = Stock(m.sku)]
  <2>1. quantity'[s] = IF quantity[s] = NoItem THEN 0 ELSE quantity[s]
    BY <1>1, <1>3 DEF Stock, Typed
  <2>2. CASE quantity[s] # NoItem
    BY <2>1, <2>2
  <2>3. CASE quantity[s] = NoItem
    <3>1. ASSUME RowsOf(s) # {} PROVE FALSE
      <4>1. quantity[s] = book[Max(RowsOf(s))].after
        BY <3>1 DEF Chained
      <4>2. Max(RowsOf(s)) \in 1 .. Len(book)
        BY <3>1, LastRow
      <4>3. book[Max(RowsOf(s))].after \in Int
        BY <4>2, AfterType
      <4> QED
        BY <2>3, <4>1, <4>3, InventoryAssumption
    <3> QED
      BY <2>1, <2>3, <3>1
  <2> QED
    BY <2>2, <2>3
<1> QED
  BY <1>1, <1>2, <1>3 DEF Typed

LEMMA StockStep == Typed /\ StockIsLedger /\ [Next]_vars => StockIsLedger'
<1> SUFFICES ASSUME Typed, StockIsLedger, [Next]_vars, NEW s \in Skus PROVE Chained(s)'
  BY StockIsChained DEF StockIsLedger, Chained
<1>1. Chained(s)
  BY StockIsChained
<1>2. CASE UNCHANGED <<book, quantity>>
  BY <1>1, <1>2 DEF Chained, RowsOf
<1>3. CASE \E c \in Calls : Commit(c)
  BY <1>1, <1>3, CommitChained
<1>4. CASE \E c \in Calls : CommitNothing(c)
  <2>1. UNCHANGED book
    BY <1>4 DEF CommitNothing
  <2>2. quantity'[s] = quantity[s] \/ (RowsOf(s) = {} /\ quantity'[s] = 0)
    BY <1>1, <1>4, NothingChained
  <2> QED
    BY <1>1, <2>1, <2>2, OtherChained
<1>5. CASE \E c \in Calls : CloseMark(c)
  <2>1. UNCHANGED quantity
    BY <1>5 DEF CloseMark
  <2>2. /\ book' \in Seq(BookRows) /\ Len(book') = Len(book)
        /\ \A i \in 1 .. Len(book) :
              /\ book'[i].sku = book[i].sku /\ book'[i].qty = book[i].qty
              /\ book'[i].before = book[i].before /\ book'[i].after = book[i].after
    BY <1>5, Marked
  <2>3. DOMAIN book' = DOMAIN book
    BY <2>2, LenProperties DEF Typed
  <2> QED
    BY <1>1, <2>1, <2>2, <2>3, OtherChained
<1> QED
  <2>1. CASE UNCHANGED vars
    BY <1>2, <2>1 DEF vars
  <2>2. CASE Next
    BY <1>2, <1>3, <1>4, <1>5, <2>2
    DEF Next, Request, CreateReceiptIn, Adjust, ScanOut, ReconcileApply, CloseOut, CloseWrite,
        CountDeductions, Read, Again, DuplicateKey, Answer, Die
  <2> QED
    BY <2>1, <2>2

\* The cached quantity of an item is what its rows in the book leave, and each of them begins
\* where the one before it ended: for any number of requests that interleave, fail, are
\* repeated or die between any two steps.
THEOREM StockIsTheLedger == Spec => []StockIsLedger
<1>1. Init => Typed /\ StockIsLedger
  <2>1. Init => StockIsLedger
    BY DEF Init, StockIsLedger, RowsOf
  <2> QED
    BY <2>1, TypedInit
<1>2. Typed /\ StockIsLedger /\ [Next]_vars => Typed' /\ StockIsLedger'
  BY TypedStep, StockStep
<1> QED
  BY <1>1, <1>2, PTL DEF Spec
=============================================================================
