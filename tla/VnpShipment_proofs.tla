-------------------------- MODULE VnpShipment_proofs --------------------------
(***************************************************************************)
(* What createShipment, cancelShipment and the tracking cron guarantee for *)
(* any number of seller orders, purchases, cancellations and requestIds    *)
(***************************************************************************)
EXTENDS VnpShipment, SequenceTheorems, WellFoundedInduction, TLAPS

-----------------------------------------------------------------------------
(* The inductive invariant.  Its first half needs no help from the carrier. *)

Early == {"idle", "lookup", "pending", "reserve"}
AtCarrier == {"buy", "retry"}
Labelled == {"created", "in_transit", "delivered", "cancelling", "cancelled"}

\* How far a purchase has come says what there is of its record and of its labels.
PurchaseOK(k) ==
  /\ pc[k] \in Early => rec[k].status = "none" /\ MadeBy(k) = {}
  /\ pc[k] \in AtCarrier => rec[k].status = "purchasing" /\ rec[k].label = NoLabel
  /\ pc[k] \in {"note", "finalise", "snapshot"} =>
       got[k] \in LabelIds /\ labels[got[k]].by = k
  /\ pc[k] \in {"finalise", "snapshot"} => rec[k].label # NoLabel
  /\ pc[k] \notin Early \cup {"done"} => rec[k].status # "none"

\* A record past "purchasing" has a label unless the purchase has failed.
RecordOK(r) ==
  /\ rec[r].status = "none" => rec[r].label = NoLabel
  /\ rec[r].status \in Labelled => rec[r].label # NoLabel

\* What a cancellation holds, and that it goes on only when the carrier has confirmed.
CancelOK(c) ==
  /\ cancel[c].pc \notin {"idle", "done"} => cancel[c].label # NoLabel
  /\ cancel[c].pc \in {"book", "close"} => labels[cancel[c].label].state = "void"
  /\ cancel[c].rec # "none" => rec[cancel[c].rec].label # NoLabel

\* What the cron can learn of each kind of record; it takes no purchase from a call that
\* may still be given a label.
CronOK ==
  cron.task # "none" =>
    /\ cron.rec \in Purchases
    /\ cron.task = "purchasing" =>
         /\ pc[cron.rec] \notin Early \cup AtCarrier
         /\ rec[cron.rec].status # "none"
         /\ cron.seen \in {"none", "found", "notfound"}
         /\ cron.seen = "found" => cron.label # NoLabel
    /\ cron.task \in {"cancelling", "poll"} =>
         /\ rec[cron.rec].label # NoLabel /\ cron.label # NoLabel
         /\ cron.seen \in {"none", "in_transit", "delivered"}
                           \cup (IF cron.task = "cancelling" THEN {"gone"} ELSE {})
    /\ cron.seen = "gone" => labels[cron.label].state = "void"

BooksInv ==
  /\ TypeOK
  /\ \A k \in Purchases : PurchaseOK(k) /\ RecordOK(k)
  /\ \A c \in Cancels : CancelOK(c)
  /\ CronOK

(* The second half does: a carrier that repeats its answer makes one label a purchase. *)

OneLabelEach ==
  /\ \A l \in LabelIds : labels[l].group = GroupOf[labels[l].by]
  /\ \A l, m \in LabelIds : labels[l].by = labels[m].by => l = m

\* A record has its own purchase's label.
OwnLabel == \A r \in Purchases : rec[r].label # NoLabel => labels[rec[r].label].by = r

\* A label that its record does not have yet is in doubt: the record is "purchasing".
KnownOrInDoubt ==
  \A l \in LabelIds :
    \/ rec[labels[l].by].label = l
    \/ rec[labels[l].by].label = NoLabel /\ rec[labels[l].by].status = "purchasing"

\* While a purchase is in doubt nobody else buys for its group: its label is the latest.
DoubtIsLatest ==
  \A r \in Purchases : rec[r].status = "purchasing" =>
    \A m \in MadeBy(r), l \in OfGroup(GroupOf[r]) : l <= m

\* "failed" is said of purchases that made no label.
FailedIsUnsold ==
  \A r \in Purchases :
    \/ rec[r].status = "failed"
    \/ pc[r] = "refused"
    \/ cron.task = "purchasing" /\ cron.rec = r /\ cron.seen = "notfound"
    => MadeBy(r) = {}

\* The cron's document has the record's label; a purchase it has found is that label's.
CronTrue ==
  cron.task # "none" /\ cron.label # NoLabel =>
    IF cron.task = "purchasing"
    THEN /\ labels[cron.label].group = GroupOf[cron.rec]
         /\ rec[cron.rec].status = "purchasing" /\ MadeBy(cron.rec) # {} =>
              labels[cron.label].by = cron.rec
    ELSE rec[cron.rec].label = cron.label

\* What a caller was told of, at the end of its call, is on a record with its requestId.
AnswersOK ==
  \A k \in Purchases : answer[k] = "ok" =>
    /\ pc[k] = "done"
    /\ got[k] = NoLabel \/ \E r \in Purchases : KeyOf[r] = KeyOf[k] /\ rec[r].label = got[k]

LabelsInv ==
  /\ BooksInv
  /\ OneLabelEach /\ OwnLabel /\ KnownOrInDoubt /\ DoubtIsLatest
  /\ FailedIsUnsold /\ CronTrue /\ CancelledMeansVoid /\ AnswersOK

-----------------------------------------------------------------------------
(* What one step can do to each part of the state *)

LabelRecord ==
  [group : Groups, by : Purchases, state : {"printed", "moving", "delivered", "void"}]

\* The carrier prints a label for a call that is asking, or a label goes on: never back
\* from being void.
LabelsMove ==
  \/ labels' = labels
  \/ \E k \in Purchases :
       pc[k] \in AtCarrier /\ (CarrierDedups => MadeBy(k) = {}) /\ labels' = NewLabel(k)
  \/ \E l \in LabelIds, st \in {"moving", "delivered", "void"} :
       /\ labels[l].state = "void" => st = "void"
       /\ labels' = [labels EXCEPT ![l].state = st]

CronFound(r) ==
  cron.task = "purchasing" /\ cron.rec = r /\ cron.seen \in {"found", "notfound"}

Relabelled(r) == \E q \in Purchases \ {r} : rec[q].label = cron.label

\* The life of a record: reserved, given up, given its label, created, moved on, cancelled.
RecordMove(r) ==
  \/ rec'[r] = rec[r]
  \/ pc[r] = "reserve" /\ pc'[r] = "buy" /\ rec'[r] = [rec[r] EXCEPT !.status = "purchasing"]
  \/ /\ rec[r].status = "purchasing"
     /\ pc[r] = "refused" \/ (CronFound(r) /\ (cron.seen = "notfound" \/ Relabelled(r)))
     /\ rec'[r] = [rec[r] EXCEPT !.status = "failed"]
  \/ pc[r] = "note" /\ pc'[r] = "finalise" /\ rec'[r] = [rec[r] EXCEPT !.label = got[r]]
  \/ /\ rec[r].status = "purchasing" /\ pc[r] = "finalise"
     /\ rec'[r] = [rec[r] EXCEPT !.status = "created"]
  \/ /\ rec[r].status = "purchasing"
     /\ CronFound(r) /\ cron.seen = "found" /\ ~Relabelled(r)
     /\ rec'[r] = [rec[r] EXCEPT !.status = "created", !.label = cron.label]
  \/ /\ rec[r].label # NoLabel
     /\ \E st \in {"created", "in_transit", "delivered", "cancelling", rec[r].status},
           sc \in BOOLEAN :
          rec'[r] = [rec[r] EXCEPT !.status = st, !.scanned = sc]
  \/ /\ rec[r].label # NoLabel
     /\ \/ \E c \in Cancels : cancel[c].pc = "close" /\ cancel[c].label = rec[r].label
        \/ cron.task = "cancelling" /\ cron.rec = r /\ cron.seen = "gone"
     /\ rec'[r] = [rec[r] EXCEPT !.status = "cancelled"]

\* Of all records one at most is opened, and the indexes have nothing against it.
OpenMove ==
  \E r \in Purchases \cup {"none"} :
    /\ \A q \in Purchases \ {r} : rec'[q].status \in Open => rec[q].status \in Open
    /\ r \in Purchases /\ rec'[r].status \in Open =>
         rec[r].status \in Open \/ IndexAllows(r, rec'[r].status)

RecordsMove ==
  /\ rec' = [r \in Purchases |-> rec'[r]]
  /\ \A r \in Purchases : RecordMove(r)
  /\ OpenMove

\* The life of a purchase call.
PurchaseMove(k) ==
  \/ pc'[k] = pc[k] /\ got'[k] = got[k] /\ answer'[k] = answer[k]
  \/ pc[k] # "done" /\ pc'[k] = "done" /\ answer'[k] = "error" /\ got'[k] = NoLabel
  \/ /\ pc'[k] = "done" /\ answer'[k] = "ok" /\ rec' = rec
     /\ \/ pc[k] = "snapshot" /\ got'[k] = got[k]
        \/ /\ pc[k] \in Early
           /\ \E r \in Purchases :
                /\ KeyOf[r] = KeyOf[k] /\ got'[k] = rec[r].label
                /\ rec[r].status \notin {"none", "purchasing"}
  \/ /\ got'[k] = got[k] /\ answer'[k] = answer[k]
     /\ \/ pc[k] \in Early /\ pc'[k] \in Early \ {"idle"} /\ rec' = rec
        \/ pc[k] = "reserve" /\ pc'[k] = "buy" /\ rec'[k].status = "purchasing"
        \/ pc[k] = "buy" /\ pc'[k] = "retry"
        \/ /\ pc[k] \in AtCarrier /\ pc'[k] = "refused" /\ labels' = labels
           /\ CarrierDedups => MadeBy(k) = {}
        \/ pc[k] = "note" /\ pc'[k] = "finalise" /\ rec'[k].label = got[k]
        \/ pc[k] = "finalise" /\ pc'[k] = "snapshot"
  \/ /\ pc[k] \in AtCarrier /\ pc'[k] = "note" /\ answer'[k] = answer[k]
     /\ got'[k] \in 1 .. Len(labels') /\ labels'[got'[k]].by = k

PurchasesMove ==
  /\ pc' = [k \in Purchases |-> pc'[k]]
  /\ got' = [k \in Purchases |-> got'[k]]
  /\ answer' = [k \in Purchases |-> answer'[k]]
  /\ blocked' \in [Purchases -> BOOLEAN]
  /\ \A k \in Purchases : PurchaseMove(k)

\* The life of a cancellation.
CancelMove(c) ==
  \/ cancel'[c] = cancel[c]
  \/ cancel'[c] = [NewCancel EXCEPT !.pc = "done"]
  \/ \E l \in LabelIds, r \in Purchases \cup {"none"}, was \in Statuses :
       /\ cancel'[c] = [pc |-> "track", rec |-> r, label |-> l, was |-> was]
       /\ rec' = rec
       /\ r # "none" => rec[r].label # NoLabel
  \/ /\ cancel[c].pc \notin {"idle", "done"}
     /\ \E p \in CancelPCs \ {"idle", "done"} :
          /\ cancel'[c] = [cancel[c] EXCEPT !.pc = p]
          /\ p = "book" => labels'[cancel[c].label].state = "void"
          /\ p = "close" => cancel[c].pc = "book"

\* The cron takes up a record, learns of its label, or is done with it.
CronMove ==
  \/ cron' = cron
  \/ cron' = NoWork
  \/ /\ labels' = labels /\ rec' = rec /\ pc' = pc
     /\ \E r \in Purchases, task \in {"purchasing", "cancelling", "poll"} :
          /\ cron' = [task |-> task, rec |-> r, label |-> rec[r].label, seen |-> "none",
                      status |-> rec[r].status, scanned |-> rec[r].scanned]
          /\ IF task = "purchasing"
             THEN rec[r].status = "purchasing" /\ pc[r] \notin AtCarrier
             ELSE rec[r].label # NoLabel
  \/ /\ labels' = labels /\ rec' = rec /\ pc' = pc
     /\ cron.task = "purchasing"
     /\ LET mine == OfGroup(GroupOf[cron.rec])
            l == IF cron.label # NoLabel THEN cron.label
                 ELSE IF mine = {} THEN NoLabel ELSE Latest(mine)
        IN  cron' = [cron EXCEPT !.seen = IF l = NoLabel THEN "notfound" ELSE "found", !.label = l]
  \/ /\ labels' = labels /\ rec' = rec /\ pc' = pc
     /\ \E seen \in {"gone", "in_transit", "delivered"} :
          /\ cron.task \in {"cancelling", "poll"}
          /\ cron' = [cron EXCEPT !.seen = seen]
          /\ seen = "gone" => cron.task = "cancelling" /\ labels[cron.label].state = "void"

SnapshotType(n) ==
  [Groups -> [label : (1 .. n) \cup {NoLabel}, cancelled : BOOLEAN, scanned : BOOLEAN]]

Moves ==
  /\ LabelsMove
  /\ RecordsMove
  /\ PurchasesMove
  /\ snapshot' \in SnapshotType(Len(labels'))
  /\ cancel' = [c \in Cancels |-> cancel'[c]] /\ \A c \in Cancels : CancelMove(c)
  /\ CronMove

-----------------------------------------------------------------------------
(* Every step is made of such moves *)

\* A part of the state that a step leaves alone has made a move.
LEMMA Stays ==
  ASSUME TypeOK
  PROVE  /\ UNCHANGED labels => LabelsMove
         /\ UNCHANGED rec => RecordsMove
         /\ UNCHANGED <<pc, blocked, got, answer>> => PurchasesMove
         /\ UNCHANGED cancel => cancel' = [c \in Cancels |-> cancel'[c]] /\ \A c \in Cancels : CancelMove(c)
         /\ UNCHANGED cron => CronMove
<1> USE DEF TypeOK
<1>1. UNCHANGED labels => LabelsMove
  BY DEF LabelsMove
<1>2. UNCHANGED rec => RecordsMove
  <2> HAVE UNCHANGED rec
  <2>1. rec' = [r \in Purchases |-> rec'[r]]
    OBVIOUS
  <2>2. \A r \in Purchases : RecordMove(r)
    BY DEF RecordMove
  <2>3. OpenMove
    BY DEF OpenMove
  <2> QED
    BY <2>1, <2>2, <2>3 DEF RecordsMove
<1>3. UNCHANGED <<pc, blocked, got, answer>> => PurchasesMove
  BY DEF PurchasesMove, PurchaseMove
<1>4. UNCHANGED cancel => cancel' = [c \in Cancels |-> cancel'[c]] /\ \A c \in Cancels : CancelMove(c)
  BY DEF CancelMove
<1>5. UNCHANGED cron => CronMove
  BY DEF CronMove
<1> QED
  BY <1>1, <1>2, <1>3, <1>4, <1>5

\* A printed label is the last one; all others stay as they are.
LEMMA NewLabelIsLast ==
  ASSUME TypeOK, NEW k \in Purchases
  PROVE  /\ Len(labels) \in Nat
         /\ NewLabel(k) \in Seq(LabelRecord)
         /\ Len(NewLabel(k)) = Len(labels) + 1
         /\ \A l \in LabelIds : NewLabel(k)[l] = labels[l]
         /\ NewLabel(k)[Len(labels) + 1] = [group |-> GroupOf[k], by |-> k, state |-> "printed"]
<1>1. labels \in Seq(LabelRecord)
  BY DEF TypeOK, LabelRecord
<1>2. [group |-> GroupOf[k], by |-> k, state |-> "printed"] \in LabelRecord
  BY PurchasesAssumption DEF LabelRecord
<1> QED
  BY <1>1, <1>2, AppendProperties, LenProperties DEF NewLabel, LabelIds

\* Labels are never taken back or given to another purchase, and a void one stays void; a
\* label that is new was made for a purchase whose call is asking the carrier.
LEMMA LabelsMoved ==
  ASSUME TypeOK, LabelsMove
  PROVE  /\ Len(labels) \in Nat /\ Len(labels') \in Nat /\ Len(labels) <= Len(labels')
         /\ labels' \in Seq(LabelRecord)
         /\ \A l \in LabelIds :
              /\ labels'[l].by = labels[l].by /\ labels'[l].group = labels[l].group
              /\ labels[l].state = "void" => labels'[l].state = "void"
         /\ \A l \in (1 .. Len(labels')) \ LabelIds :
              /\ l = Len(labels) + 1
              /\ labels'[l].by \in Purchases /\ pc[labels'[l].by] \in AtCarrier
              /\ CarrierDedups => MadeBy(labels'[l].by) = {}
              /\ labels'[l].group = GroupOf[labels'[l].by]
              /\ labels'[l].state = "printed"
<1>1. labels \in Seq(LabelRecord) /\ Len(labels) \in Nat
  BY LenProperties DEF TypeOK, LabelRecord
<1>2. CASE labels' = labels
  BY <1>1, <1>2 DEF LabelIds
<1>3. CASE \E k \in Purchases :
              pc[k] \in AtCarrier /\ (CarrierDedups => MadeBy(k) = {}) /\ labels' = NewLabel(k)
  <2> PICK k \in Purchases :
             pc[k] \in AtCarrier /\ (CarrierDedups => MadeBy(k) = {}) /\ labels' = NewLabel(k)
    BY <1>3
  <2>1. \A l \in LabelIds : labels'[l] = labels[l]
    BY NewLabelIsLast
  <2>2. Len(labels') = Len(labels) + 1 /\ labels' \in Seq(LabelRecord)
    BY NewLabelIsLast
  <2>3. labels'[Len(labels) + 1] = [group |-> GroupOf[k], by |-> k, state |-> "printed"]
    BY NewLabelIsLast
  <2>4. \A l \in (1 .. Len(labels')) \ LabelIds : l = Len(labels) + 1
    BY <1>1, <2>2 DEF LabelIds
  <2> QED
    BY <1>1, <2>1, <2>2, <2>3, <2>4 DEF LabelIds
<1>4. CASE \E l \in LabelIds, st \in {"moving", "delivered", "void"} :
             /\ labels[l].state = "void" => st = "void"
             /\ labels' = [labels EXCEPT ![l].state = st]
  <2> PICK l \in LabelIds, st \in {"moving", "delivered", "void"} :
             /\ labels[l].state = "void" => st = "void"
             /\ labels' = [labels EXCEPT ![l].state = st]
    BY <1>4
  <2>1. labels[l] \in LabelRecord /\ [labels[l] EXCEPT !.state = st] \in LabelRecord
    <3>1. labels[l] \in LabelRecord
      BY <1>1, ElementOfSeq DEF LabelIds
    <3> QED
      BY <3>1 DEF LabelRecord
  <2>2. labels' = [labels EXCEPT ![l] = [labels[l] EXCEPT !.state = st]]
    OBVIOUS
  <2> HIDE DEF LabelRecord
  <2>3. labels' \in Seq(LabelRecord) /\ Len(labels') = Len(labels)
    BY <1>1, <2>1, <2>2, ExceptSeq DEF LabelIds
  <2>4. \A m \in LabelIds : labels'[m] = IF m = l THEN [labels[l] EXCEPT !.state = st] ELSE labels[m]
    BY <1>1, <2>2, ExceptSeq DEF LabelIds
  <2>5. /\ [labels[l] EXCEPT !.state = st].by = labels[l].by
        /\ [labels[l] EXCEPT !.state = st].group = labels[l].group
        /\ [labels[l] EXCEPT !.state = st].state = st
    BY <2>1 DEF LabelRecord
  <2> QED
    BY <1>1, <2>3, <2>4, <2>5 DEF LabelIds
<1> QED
  BY <1>2, <1>3, <1>4 DEF LabelsMove

\* A set of labels that is not empty has a latest one.
LEMMA LatestIsLast ==
  ASSUME TypeOK, NEW T \in SUBSET LabelIds, T # {}
  PROVE  Latest(T) \in T /\ \A l \in T : l <= Latest(T)
<1> DEFINE n == Len(labels)
           U == {n - l : l \in T}
           R == OpToRel(<, Nat)
<1>1. n \in Nat /\ T \subseteq 1 .. n
  BY LenProperties DEF TypeOK, LabelIds
<1> HIDE DEF n
<1>2. U \subseteq Nat /\ U # {}
  <2>1. ASSUME NEW l \in T PROVE n - l \in Nat
    BY <1>1
  <2> QED
    BY <2>1
<1>3. IsWellFoundedOn(R, Nat)
  BY NatLessThanWellFounded
<1>4. \A x, y \in Nat : x < y => <<x, y>> \in R
  BY DEF OpToRel
<1> HIDE DEF R
<1>5. PICK u \in U : \A v \in U : ~(<<v, u>> \in R)
  BY <1>2, <1>3, WFMin
<1>6. PICK l \in T : u = n - l
  BY DEF U
<1>7. \A m \in T : m <= l
  <2> TAKE m \in T
  <2>1. n - m \in U
    OBVIOUS
  <2>2. ~(n - m < n - l)
    BY <1>2, <1>4, <1>5, <1>6, <2>1
  <2> QED
    BY <1>1, <2>2
<1> QED
  BY <1>7 DEF Latest

\* A record that is written alone, and that the indexes have nothing against.
LEMMA OneRecordMoves ==
  ASSUME TypeOK, NEW r \in Purchases, rec' = [rec EXCEPT ![r] = rec'[r]], RecordMove(r),
         rec'[r].status \in Open => rec[r].status \in Open \/ IndexAllows(r, rec'[r].status)
  PROVE  RecordsMove
<1>1. \A q \in Purchases \ {r} : rec'[q] = rec[q]
  BY DEF TypeOK
<1>2. rec' = [q \in Purchases |-> rec'[q]]
  BY DEF TypeOK
<1>3. ASSUME NEW q \in Purchases PROVE RecordMove(q)
  <2>1. CASE q = r
    BY <2>1
  <2>2. CASE q # r
    BY <1>1, <2>2 DEF RecordMove
  <2> QED
    BY <2>1, <2>2
<1>4. OpenMove
  BY <1>1 DEF OpenMove
<1> QED
  BY <1>2, <1>3, <1>4 DEF RecordsMove

\* One call goes on.
LEMMA OnePurchaseMoves ==
  ASSUME TypeOK, NEW k \in Purchases, blocked' \in [Purchases -> BOOLEAN],
         pc' = [pc EXCEPT ![k] = pc'[k]], got' = [got EXCEPT ![k] = got'[k]],
         answer' = [answer EXCEPT ![k] = answer'[k]], PurchaseMove(k)
  PROVE  PurchasesMove
<1>1. \A j \in Purchases \ {k} : pc'[j] = pc[j] /\ got'[j] = got[j] /\ answer'[j] = answer[j]
  BY DEF TypeOK
<1>2. \A j \in Purchases : PurchaseMove(j)
  BY <1>1 DEF PurchaseMove
<1>3. /\ pc' = [j \in Purchases |-> pc'[j]] /\ got' = [j \in Purchases |-> got'[j]]
      /\ answer' = [j \in Purchases |-> answer'[j]]
  BY DEF TypeOK
<1> QED
  BY <1>2, <1>3 DEF PurchasesMove

\* One cancellation does.
LEMMA OneCancelMoves ==
  ASSUME TypeOK, NEW c \in Cancels, cancel' = [cancel EXCEPT ![c] = cancel'[c]], CancelMove(c)
  PROVE  cancel' = [d \in Cancels |-> cancel'[d]] /\ \A d \in Cancels : CancelMove(d)
<1>1. \A d \in Cancels \ {c} : cancel'[d] = cancel[d]
  BY DEF TypeOK
<1>2. ASSUME NEW d \in Cancels PROVE CancelMove(d)
  <2>1. CASE d = c
    BY <2>1
  <2>2. CASE d # c
    BY <1>1, <2>2 DEF CancelMove
  <2> QED
    BY <2>1, <2>2
<1> QED
  BY <1>2 DEF TypeOK

\* What the orders show stays a snapshot however the labels move.
LEMMA SnapshotStays ==
  ASSUME TypeOK, LabelsMove, UNCHANGED snapshot
  PROVE  snapshot' \in SnapshotType(Len(labels'))
<1>1. LabelIds \subseteq 1 .. Len(labels')
  BY LabelsMoved DEF LabelIds
<1> QED
  BY <1>1 DEF TypeOK, SnapshotType

LEMMA SnapshotMarked ==
  ASSUME TypeOK, UNCHANGED labels, NEW l \in LabelIds,
         UNCHANGED snapshot \/ MarkOrdersScanned(l) \/ MarkOrdersCancelled(l)
  PROVE  snapshot' \in SnapshotType(Len(labels'))
<1> DEFINE Shown == [label : LabelIds \cup {NoLabel}, cancelled : BOOLEAN, scanned : BOOLEAN]
<1>1. snapshot \in [Groups -> Shown]
  BY DEF TypeOK
<1>2. ASSUME NEW s \in Shown, NEW b \in BOOLEAN
      PROVE  [s EXCEPT !.scanned = @ \/ b] \in Shown /\ [s EXCEPT !.cancelled = @ \/ b] \in Shown
  OBVIOUS
<1>3. SnapshotType(Len(labels')) = [Groups -> Shown]
  BY DEF SnapshotType, LabelIds
<1> HIDE DEF Shown
<1>4. CASE UNCHANGED snapshot
  BY <1>1, <1>3, <1>4
<1>5. CASE MarkOrdersScanned(l)
  BY <1>1, <1>2, <1>3, <1>5 DEF MarkOrdersScanned
<1>6. CASE MarkOrdersCancelled(l)
  BY <1>1, <1>2, <1>3, <1>6 DEF MarkOrdersCancelled
<1> QED
  BY <1>4, <1>5, <1>6

LEMMA SnapshotSaved ==
  ASSUME TypeOK, UNCHANGED labels, NEW g \in Groups, NEW l \in LabelIds, SaveSnapshot(g, l)
  PROVE  snapshot' \in SnapshotType(Len(labels'))
<1> DEFINE Shown == [label : LabelIds \cup {NoLabel}, cancelled : BOOLEAN, scanned : BOOLEAN]
<1>1. snapshot \in [Groups -> Shown]
  BY DEF TypeOK
<1>2. ASSUME NEW s \in Shown
      PROVE  [s EXCEPT !.label = l] \in Shown /\ [s EXCEPT !.label = l, !.cancelled = FALSE] \in Shown
  OBVIOUS
<1>3. SnapshotType(Len(labels')) = [Groups -> Shown]
  BY DEF SnapshotType, LabelIds
<1> HIDE DEF Shown
<1>4. \/ UNCHANGED snapshot
      \/ snapshot' = [snapshot EXCEPT ![g] = [snapshot[g] EXCEPT !.label = l]]
      \/ snapshot' = [snapshot EXCEPT ![g] = [snapshot[g] EXCEPT !.label = l, !.cancelled = FALSE]]
  BY DEF SaveSnapshot
<1>5. snapshot[g] \in Shown
  BY <1>1
<1> QED
  BY <1>1, <1>2, <1>3, <1>4, <1>5

\* A call of createShipment, step by step.
LEMMA CallMoves ==
  ASSUME BooksInv, NEW k \in Purchases, CallStep(k) \/ Die(k)
  PROVE  Moves
<1>0. TypeOK /\ PurchaseOK(k) /\ RecordOK(k)
  BY DEF BooksInv
<1>1. ASSUME UNCHANGED <<cancel, cron>>, LabelsMove, RecordsMove, PurchasesMove,
             snapshot' \in SnapshotType(Len(labels'))
      PROVE  Moves
  BY <1>0, <1>1, Stays DEF Moves
<1>2. ASSUME UNCHANGED <<labels, snapshot, cancel, cron>>, RecordsMove, PurchasesMove
      PROVE  Moves
  BY <1>0, <1>1, <1>2, Stays, SnapshotStays
<1>3. ASSUME UNCHANGED <<labels, rec, snapshot, cancel, cron>>, PurchasesMove
      PROVE  Moves
  BY <1>0, <1>2, <1>3, Stays
<1>4. ASSUME NEW r \in Purchases, KeyOf[r] = KeyOf[k], rec[r].status # "none", Replay(k, r),
             pc[k] \in Early, UNCHANGED rec, blocked' \in [Purchases -> BOOLEAN]
      PROVE  PurchasesMove
  <2>1. /\ pc' = [pc EXCEPT ![k] = pc'[k]] /\ got' = [got EXCEPT ![k] = got'[k]]
        /\ answer' = [answer EXCEPT ![k] = answer'[k]]
    BY <1>0, <1>4 DEF TypeOK, Replay, Fail, Finish, Goto
  <2>2. PurchaseMove(k)
    BY <1>0, <1>4 DEF TypeOK, Replay, Fail, Finish, Goto, PurchaseMove, Early
  <2> QED
    BY <1>0, <1>4, <2>1, <2>2, OnePurchaseMoves
<1>5. ASSUME Fail(k), pc[k] # "done", UNCHANGED blocked \/ blocked' = [blocked EXCEPT ![k] = FALSE]
      PROVE  PurchasesMove
  <2>1. /\ pc' = [pc EXCEPT ![k] = pc'[k]] /\ got' = [got EXCEPT ![k] = got'[k]]
        /\ answer' = [answer EXCEPT ![k] = answer'[k]] /\ blocked' \in [Purchases -> BOOLEAN]
    BY <1>0, <1>5 DEF TypeOK, Fail, Finish, Goto
  <2>2. PurchaseMove(k)
    BY <1>0, <1>5 DEF TypeOK, Fail, Finish, Goto, PurchaseMove
  <2> QED
    BY <1>0, <2>1, <2>2, OnePurchaseMoves
<1>6. ASSUME NEW where, Goto(k, where), UNCHANGED <<got, answer>>, PurchaseMove(k),
             blocked' \in [Purchases -> BOOLEAN]
      PROVE  PurchasesMove
  <2>1. /\ pc' = [pc EXCEPT ![k] = pc'[k]] /\ got' = [got EXCEPT ![k] = got'[k]]
        /\ answer' = [answer EXCEPT ![k] = answer'[k]]
    BY <1>0, <1>6 DEF TypeOK, Goto
  <2> QED
    BY <1>0, <1>6, <2>1, OnePurchaseMoves
<1> USE <1>0
<1>11. CASE Begin(k)
  <2>1. blocked' \in [Purchases -> BOOLEAN]
    BY <1>11 DEF Begin, TypeOK
  <2>2. PurchaseMove(k) /\ Goto(k, "lookup")
    BY <1>11 DEF Begin, TypeOK, PurchaseMove, Goto, Early
  <2> QED
    BY <1>11, <1>3, <1>6, <2>1, <2>2 DEF Begin
<1>12. CASE Lookup(k)
  <2>1. blocked' \in [Purchases -> BOOLEAN]
    BY <1>12 DEF Lookup, TypeOK
  <2>2. CASE \E r \in OpenWithKey(KeyOf[k]) : Replay(k, r)
    <3>1. PICK r \in Purchases : KeyOf[r] = KeyOf[k] /\ rec[r].status \in Open /\ Replay(k, r)
      BY <2>2 DEF OpenWithKey
    <3> QED
      BY <1>12, <1>3, <1>4, <2>1, <3>1 DEF Lookup, Open, Early
  <2>3. CASE Fail(k)
    BY <1>12, <1>3, <1>5, <2>3 DEF Lookup
  <2>4. CASE Goto(k, "pending") /\ UNCHANGED <<got, answer>>
    <3>1. PurchaseMove(k)
      BY <1>12, <2>4 DEF Lookup, TypeOK, PurchaseMove, Goto, Early
    <3> QED
      BY <1>12, <1>3, <1>6, <2>1, <2>4, <3>1 DEF Lookup
  <2> QED
    BY <1>12, <2>2, <2>3, <2>4 DEF Lookup
<1>13. CASE Pending(k)
  <2>1. CASE Fail(k)
    BY <1>13, <1>3, <1>5, <2>1 DEF Pending
  <2>2. CASE Goto(k, "reserve") /\ UNCHANGED <<got, answer>>
    <3>1. PurchaseMove(k) /\ blocked' \in [Purchases -> BOOLEAN]
      BY <1>13, <2>2 DEF Pending, TypeOK, PurchaseMove, Goto, Early
    <3> QED
      BY <1>13, <1>3, <1>6, <2>2, <3>1 DEF Pending
  <2> QED
    BY <1>13, <2>1, <2>2 DEF Pending
<1>14. CASE Reserve(k)
  <2>1. PurchaseMove(k) /\ blocked' \in [Purchases -> BOOLEAN] /\ Goto(k, "buy")
    BY <1>14 DEF Reserve, TypeOK, PurchaseMove, Goto
  <2>2. PurchasesMove
    BY <1>14, <1>6, <2>1 DEF Reserve
  <2>3. rec' = [rec EXCEPT ![k] = rec'[k]] /\ RecordMove(k) /\ rec'[k].status = "purchasing"
    BY <1>14 DEF Reserve, TypeOK, RecordMove, Goto
  <2>4. RecordsMove
    BY <1>14, <2>3, OneRecordMoves DEF Reserve
  <2> QED
    BY <1>14, <1>2, <2>2, <2>4 DEF Reserve
<1>15. CASE ReserveRefused(k)
  <2>1. CASE Fail(k)
    BY <1>15, <1>3, <1>5, <2>1 DEF ReserveRefused
  <2>2. CASE \E r \in {r \in Purchases : rec[r].status # "none" /\ KeyOf[r] = KeyOf[k]} : Replay(k, r)
    <3>1. PICK r \in Purchases : KeyOf[r] = KeyOf[k] /\ rec[r].status # "none" /\ Replay(k, r)
      BY <2>2
    <3>2. blocked' \in [Purchases -> BOOLEAN]
      BY <1>15 DEF ReserveRefused, TypeOK
    <3> QED
      BY <1>15, <1>3, <1>4, <3>1, <3>2 DEF ReserveRefused, Early
  <2> QED
    BY <1>15, <2>1, <2>2 DEF ReserveRefused
<1>16. CASE CarrierOk(k)
  <2>1. blocked' \in [Purchases -> BOOLEAN]
    BY <1>16 DEF CarrierOk, TypeOK
  <2>2. LabelsMove
    BY <1>16 DEF CarrierOk, LabelsMove, AtCarrier
  <2>3. got'[k] \in 1 .. Len(labels') /\ labels'[got'[k]].by = k
    <3>1. CASE CarrierDedups /\ MadeBy(k) # {}
      <4>1. labels' = labels /\ got'[k] = Latest(MadeBy(k))
        BY <1>16, <3>1 DEF CarrierOk, TypeOK
      <4>2. Latest(MadeBy(k)) \in MadeBy(k)
        BY <3>1, LatestIsLast DEF MadeBy
      <4> QED
        BY <4>1, <4>2 DEF MadeBy, LabelIds
    <3>2. CASE ~(CarrierDedups /\ MadeBy(k) # {})
      <4>1. labels' = NewLabel(k) /\ got'[k] = Len(labels) + 1
        BY <1>16, <3>2 DEF CarrierOk, TypeOK
      <4> QED
        <5>1. /\ Len(labels) \in Nat /\ Len(NewLabel(k)) = Len(labels) + 1
              /\ NewLabel(k)[Len(labels) + 1] = [group |-> GroupOf[k], by |-> k, state |-> "printed"]
          BY NewLabelIsLast
        <5> QED
          BY <4>1, <5>1
    <3> QED
      BY <3>1, <3>2
  <2>4. PurchaseMove(k)
    BY <1>16, <2>3 DEF CarrierOk, PurchaseMove, TypeOK, Goto, AtCarrier
  <2>5. /\ pc' = [pc EXCEPT ![k] = pc'[k]] /\ got' = [got EXCEPT ![k] = got'[k]]
        /\ answer' = [answer EXCEPT ![k] = answer'[k]]
    BY <1>16 DEF CarrierOk, TypeOK, Goto
  <2>6. PurchasesMove
    BY <2>1, <2>4, <2>5, OnePurchaseMoves
  <2>7. RecordsMove
    BY <1>16, Stays DEF CarrierOk
  <2> QED
    BY <1>16, <1>1, <2>2, <2>6, <2>7, SnapshotStays DEF CarrierOk
<1>17. CASE CarrierRefuses(k)
  <2>1. PurchaseMove(k) /\ blocked' \in [Purchases -> BOOLEAN]
    BY <1>17 DEF CarrierRefuses, PurchaseMove, TypeOK, Goto, AtCarrier
  <2> QED
    BY <1>17, <1>3, <1>6, <2>1 DEF CarrierRefuses
<1>18. CASE CarrierSilent(k)
  <2>1. LabelsMove
    BY <1>18, CarrierAssumption DEF CarrierSilent, LabelsMove, AtCarrier
  <2>2. PurchasesMove
    <3>1. CASE Fail(k)
      BY <1>18, <1>5, <3>1 DEF CarrierSilent
    <3>2. CASE pc[k] = "buy" /\ Goto(k, "retry") /\ UNCHANGED <<got, answer>>
      <4>1. PurchaseMove(k) /\ blocked' \in [Purchases -> BOOLEAN]
        BY <1>18, <3>2 DEF CarrierSilent, PurchaseMove, TypeOK, Goto
      <4> QED
        BY <1>6, <3>2, <4>1
    <3> QED
      BY <1>18, <3>1, <3>2 DEF CarrierSilent
  <2>3. RecordsMove
    BY <1>18, Stays DEF CarrierSilent
  <2> QED
    BY <1>18, <1>1, <2>1, <2>2, <2>3, SnapshotStays DEF CarrierSilent
<1>19. CASE Refused(k)
  <2>1. PurchasesMove
    BY <1>19, <1>5 DEF Refused
  <2>2. RecordsMove
    <3>1. CASE UNCHANGED rec
      BY <3>1, Stays
    <3>2. CASE rec[k].status = "purchasing"
      <4>1. rec' = [rec EXCEPT ![k].status = "failed"]
        BY <1>19, <3>2 DEF Refused, SetStatusFrom, SetStatus
      <4>2. rec' = [rec EXCEPT ![k] = rec'[k]] /\ RecordMove(k) /\ rec'[k].status = "failed"
        BY <1>19, <3>2, <4>1 DEF Refused, TypeOK, RecordMove
      <4> QED
        BY <4>2, OneRecordMoves DEF Open
    <3> QED
      BY <1>19, <3>1, <3>2 DEF Refused, SetStatusFrom
  <2> QED
    BY <1>19, <1>2, <2>1, <2>2 DEF Refused
<1>20. CASE Note(k)
  <2>1. PurchaseMove(k) /\ blocked' \in [Purchases -> BOOLEAN]
    BY <1>20 DEF Note, PurchaseMove, TypeOK, Goto
  <2>2. PurchasesMove
    BY <1>20, <1>6, <2>1 DEF Note
  <2>3. rec' = [rec EXCEPT ![k] = rec'[k]] /\ RecordMove(k) /\ rec'[k].status = rec[k].status
    BY <1>20 DEF Note, TypeOK, RecordMove, Goto
  <2>4. RecordsMove
    BY <2>3, OneRecordMoves
  <2> QED
    BY <1>20, <1>2, <2>2, <2>4 DEF Note
<1>21. CASE Finalise(k)
  <2>1. PurchaseMove(k) /\ blocked' \in [Purchases -> BOOLEAN]
    BY <1>21 DEF Finalise, PurchaseMove, TypeOK, Goto
  <2>2. PurchasesMove
    BY <1>21, <1>6, <2>1 DEF Finalise
  <2>3. RecordsMove
    <3>1. CASE UNCHANGED rec
      BY <3>1, Stays
    <3>2. CASE rec[k].status = "purchasing"
      <4>1. rec' = [rec EXCEPT ![k].status = "created"]
        BY <1>21, <3>2 DEF Finalise, SetStatusFrom, SetStatus
      <4>2. rec' = [rec EXCEPT ![k] = rec'[k]] /\ RecordMove(k)
        BY <1>21, <3>2, <4>1 DEF Finalise, TypeOK, RecordMove
      <4> QED
        BY <3>2, <4>2, OneRecordMoves DEF Open
    <3> QED
      BY <1>21, <3>1, <3>2 DEF Finalise, SetStatusFrom
  <2> QED
    BY <1>21, <1>2, <2>2, <2>3 DEF Finalise
<1>22. CASE Snapshot(k)
  <2>1. /\ pc' = [pc EXCEPT ![k] = pc'[k]] /\ got' = [got EXCEPT ![k] = got'[k]]
        /\ answer' = [answer EXCEPT ![k] = answer'[k]]
    BY <1>22 DEF Snapshot, TypeOK, Finish, Goto
  <2>2. PurchaseMove(k) /\ blocked' \in [Purchases -> BOOLEAN]
    BY <1>22 DEF Snapshot, PurchaseMove, TypeOK, Finish, Goto
  <2>3. PurchasesMove
    BY <2>1, <2>2, OnePurchaseMoves
  <2>4. got[k] \in LabelIds /\ GroupOf[k] \in Groups /\ SaveSnapshot(GroupOf[k], got[k])
    BY <1>22, PurchasesAssumption DEF Snapshot, PurchaseOK
  <2>5. snapshot' \in SnapshotType(Len(labels'))
    BY <1>22, <2>4, SnapshotSaved DEF Snapshot
  <2> QED
    BY <1>22, <1>1, <2>3, <2>5, Stays DEF Snapshot
<1>23. CASE Die(k)
  BY <1>23, <1>3, <1>5 DEF Die
<1> QED
  BY <1>11, <1>12, <1>13, <1>14, <1>15, <1>16, <1>17, <1>18, <1>19, <1>20, <1>21, <1>22, <1>23
  DEF CallStep

\* What track can say of a label, and a label at the carrier changing its state.
LEMMA LabelGoesOn ==
  ASSUME NEW l \in LabelIds, NEW st \in {"moving", "delivered", "void"},
         labels[l].state = "void" => st = "void",
         labels' = [labels EXCEPT ![l].state = st]
  PROVE  LabelsMove
BY DEF LabelsMove

LEMMA VoidIsVoid ==
  ASSUME TypeOK, NEW l \in LabelIds, Void(l)
  PROVE  LabelsMove /\ labels'[l].state = "void"
<1>1. labels' = [labels EXCEPT ![l].state = "void"]
  BY DEF Void
<1>2. labels[l] \in LabelRecord /\ l \in DOMAIN labels
  <2>1. labels \in Seq(LabelRecord)
    BY DEF TypeOK, LabelRecord
  <2> QED
    BY <2>1, ElementOfSeq DEF LabelIds
<1>3. labels'[l].state = "void"
  BY <1>1, <1>2 DEF LabelRecord
<1> QED
  BY <1>1, <1>3, LabelGoesOn

\* A record with a label moves on to an open status, from an open one.
LEMMA RecordGoesOn ==
  ASSUME BooksInv, NEW r \in Purchases, rec[r].label # NoLabel,
         NEW st \in {"created", "in_transit", "delivered", "cancelling", rec[r].status},
         NEW sc \in BOOLEAN, rec[r].status \in Open \/ IndexAllows(r, st),
         rec' = [rec EXCEPT ![r].status = st, ![r].scanned = sc]
  PROVE  RecordsMove
<1>1. TypeOK /\ rec[r] \in [status : Statuses, label : LabelIds \cup {NoLabel}, scanned : BOOLEAN]
  BY DEF BooksInv, TypeOK
<1>2. rec' = [rec EXCEPT ![r] = rec'[r]] /\ rec'[r] = [rec[r] EXCEPT !.status = st, !.scanned = sc]
  BY <1>1 DEF TypeOK
<1>3. RecordMove(r)
  BY <1>2 DEF RecordMove
<1>4. rec'[r].status = st
  BY <1>1, <1>2
<1> QED
  BY <1>1, <1>2, <1>3, <1>4, OneRecordMoves

\* The same when only its status is written, if it is one of those asked for.
LEMMA StatusGoesOn ==
  ASSUME BooksInv, NEW r \in Purchases, rec[r].label # NoLabel,
         NEW from \in SUBSET Open,
         NEW st \in {"created", "in_transit", "delivered", "cancelling"},
         SetStatusFrom(r, from, st)
  PROVE  RecordsMove
<1>1. CASE UNCHANGED rec
  BY <1>1, Stays DEF BooksInv
<1>2. CASE rec[r].status \in from
  <2>1. rec[r].scanned \in BOOLEAN /\ rec' = [rec EXCEPT ![r].status = st]
    BY <1>2 DEF BooksInv, TypeOK, SetStatusFrom, SetStatus
  <2>2. rec' = [rec EXCEPT ![r].status = st, ![r].scanned = rec[r].scanned]
    BY <2>1 DEF BooksInv, TypeOK
  <2> QED
    BY <1>2, <2>1, <2>2, RecordGoesOn
<1> QED
  BY <1>1, <1>2 DEF SetStatusFrom

\* A call of cancelShipment, step by step.
LEMMA CancelMoves ==
  ASSUME BooksInv, NEW c \in Cancels, CancelStep(c)
  PROVE  Moves
<1>0. TypeOK /\ CancelOK(c)
  BY DEF BooksInv
<1> DEFINE Goes == cancel' = [d \in Cancels |-> cancel'[d]] /\ \A d \in Cancels : CancelMove(d)
<1>1. ASSUME UNCHANGED <<purchaseVars, cron>>, LabelsMove, RecordsMove, Goes,
             snapshot' \in SnapshotType(Len(labels'))
      PROVE  Moves
  BY <1>0, <1>1, Stays DEF Moves, purchaseVars
<1>2. ASSUME UNCHANGED <<labels, rec, snapshot, purchaseVars, cron>>, Goes
      PROVE  Moves
  <2>1. LabelsMove /\ RecordsMove
    BY <1>0, <1>2, Stays
  <2> QED
    BY <1>0, <1>1, <1>2, <2>1, SnapshotStays
<1>3. ASSUME CEnd(c) PROVE Goes
  <2>1. cancel' = [cancel EXCEPT ![c] = cancel'[c]] /\ CancelMove(c)
    BY <1>0, <1>3 DEF TypeOK, CEnd, CancelMove
  <2> QED
    BY <1>0, <2>1, OneCancelMoves
<1>4. ASSUME NEW p \in CancelPCs \ {"idle", "done"}, CGoto(c, p), cancel[c].pc \notin {"idle", "done"},
             p = "book" => labels'[cancel[c].label].state = "void",
             p = "close" => cancel[c].pc = "book"
      PROVE  Goes
  <2>1. cancel' = [cancel EXCEPT ![c] = cancel'[c]] /\ cancel'[c] = [cancel[c] EXCEPT !.pc = p]
    BY <1>0, <1>4 DEF TypeOK, CGoto
  <2>2. CancelMove(c)
    BY <1>4, <2>1 DEF CancelMove
  <2> QED
    BY <1>0, <2>1, <2>2, OneCancelMoves
<1>5. cancel[c].pc \notin {"idle", "done"} => cancel[c].label \in LabelIds
  BY <1>0 DEF TypeOK, CancelOK
<1>6. cancel[c].rec # "none" => cancel[c].rec \in Purchases /\ rec[cancel[c].rec].label # NoLabel
  BY <1>0 DEF TypeOK, CancelOK
<1> HIDE DEF Goes
<1> USE <1>0
<1>11. ASSUME NEW g \in Groups, CBegin(c, g) PROVE Moves
  <2>1. snapshot[g].label \in LabelIds
    BY <1>11 DEF CBegin, TypeOK
  <2>2. CASE CEnd(c)
    BY <1>2, <1>3, <1>11, <2>2 DEF CBegin
  <2>3. CASE ~CEnd(c)
    <3>1. PICK r \in Purchases \cup {"none"}, was \in Statuses :
            /\ cancel' = [cancel EXCEPT ![c] = [pc |-> "track", rec |-> r,
                                                label |-> snapshot[g].label, was |-> was]]
            /\ r # "none" => rec[r].label = snapshot[g].label
      <4>1. ASSUME NEW r \in Purchases, rec[r].label = snapshot[g].label,
                   cancel' = [cancel EXCEPT ![c] = [pc |-> "track", rec |-> r,
                                label |-> snapshot[g].label, was |-> rec[r].status]]
            PROVE  \E q \in Purchases \cup {"none"}, was \in Statuses :
                     /\ cancel' = [cancel EXCEPT ![c] = [pc |-> "track", rec |-> q,
                                                label |-> snapshot[g].label, was |-> was]]
                     /\ q # "none" => rec[q].label = snapshot[g].label
        <5>1. rec[r].status \in Statuses
          BY DEF TypeOK
        <5> QED
          BY <4>1, <5>1
      <4>2. "none" \in Statuses
        BY DEF Statuses
      <4> QED
        BY <1>11, <2>3, <4>1, <4>2 DEF CBegin
    <3>2. /\ cancel' = [cancel EXCEPT ![c] = cancel'[c]]
          /\ cancel'[c] = [pc |-> "track", rec |-> r, label |-> snapshot[g].label, was |-> was]
      BY <3>1 DEF TypeOK
    <3>3. CancelMove(c)
      <4>1. r # "none" => rec[r].label # NoLabel
        BY <1>11, <3>1 DEF CBegin
      <4>2. rec' = rec
        BY <1>11 DEF CBegin
      <4> QED
        BY <2>1, <3>2, <4>1, <4>2 DEF CancelMove
    <3>4. Goes
      BY <3>2, <3>3, OneCancelMoves DEF Goes
    <3> QED
      BY <1>2, <1>11, <3>4 DEF CBegin
  <2> QED
    BY <2>2, <2>3
<1>12. CASE CTrack(c)
  <2>1. PICK a \in TrackAnswers(cancel[c].label) :
          IF a = "error" THEN CEnd(c) ELSE CGoto(c, IF a = "nosignal" THEN "mark" ELSE a)
    BY <1>12 DEF CTrack
  <2>2. a \in {"error", "nosignal", "in_transit", "delivered"}
    BY DEF TrackAnswers
  <2>3. Goes
    <3>1. CASE a = "error"
      BY <1>3, <2>1, <3>1
    <3>2. CASE a # "error"
      BY <1>4, <1>12, <2>1, <2>2, <3>2 DEF CTrack, CancelPCs
    <3> QED
      BY <3>1, <3>2
  <2> QED
    BY <1>2, <1>12, <2>3 DEF CTrack
<1>13. CASE CEvidence(c)
  <2>1. Goes
    BY <1>3, <1>13 DEF CEvidence
  <2>2. cancel[c].label \in LabelIds
    BY <1>5, <1>13 DEF CEvidence
  <2>3. UNCHANGED labels /\ (UNCHANGED snapshot \/ MarkOrdersScanned(cancel[c].label))
    BY <1>13 DEF CEvidence
  <2>4. snapshot' \in SnapshotType(Len(labels'))
    BY <2>2, <2>3, SnapshotMarked
  <2>5. RecordsMove
    <3>1. CASE UNCHANGED rec
      BY <3>1, Stays
    <3>2. CASE ~UNCHANGED rec
      <4> DEFINE r == cancel[c].rec
                 st == IF cancel[c].pc = cancel[c].was THEN rec[r].status ELSE cancel[c].pc
      <4>1. /\ r \in Purchases /\ rec[r].label # NoLabel /\ IndexAllows(r, st)
            /\ rec' = [rec EXCEPT ![r].status = st, ![r].scanned = TRUE]
        BY <1>6, <1>13, <3>2 DEF CEvidence
      <4>2. st \in {"created", "in_transit", "delivered", "cancelling", rec[r].status}
        BY <1>13 DEF CEvidence
      <4> HIDE DEF r, st
      <4> QED
        BY <4>1, <4>2, RecordGoesOn
    <3> QED
      BY <3>1, <3>2
  <2> QED
    BY <1>1, <1>13, <2>1, <2>3, <2>4, <2>5, Stays DEF CEvidence
<1>14. CASE CMark(c)
  <2>1. Goes
    BY <1>4, <1>14 DEF CMark, CancelPCs
  <2>2. RecordsMove
    <3>1. CASE cancel[c].rec = "none"
      BY <1>14, <3>1, Stays DEF CMark
    <3>2. CASE cancel[c].rec # "none"
      BY <1>6, <1>14, <3>2, StatusGoesOn DEF CMark, Cancellable, Open
    <3> QED
      BY <3>1, <3>2
  <2>3. LabelsMove /\ snapshot' \in SnapshotType(Len(labels'))
    BY <1>14, Stays, SnapshotStays DEF CMark
  <2> QED
    BY <1>1, <1>14, <2>1, <2>2, <2>3 DEF CMark
<1>15. CASE CarrierCancels(c)
  <2>1. LabelsMove /\ labels'[cancel[c].label].state = "void"
    BY <1>5, <1>15, VoidIsVoid DEF CarrierCancels
  <2>2. Goes
    BY <1>4, <1>15, <2>1 DEF CarrierCancels, CancelPCs
  <2>3. RecordsMove /\ snapshot' \in SnapshotType(Len(labels'))
    BY <1>15, <2>1, Stays, SnapshotStays DEF CarrierCancels
  <2> QED
    BY <1>1, <1>15, <2>1, <2>2, <2>3 DEF CarrierCancels
<1>16. CASE CarrierWont(c)
  <2>1. Goes
    BY <1>4, <1>16 DEF CarrierWont, CancelPCs
  <2> QED
    BY <1>2, <1>16, <2>1 DEF CarrierWont
<1>17. CASE CarrierCancelSilent(c)
  <2>1. Goes
    BY <1>3, <1>4, <1>17 DEF CarrierCancelSilent, CancelPCs
  <2>2. LabelsMove
    BY <1>5, <1>17, VoidIsVoid, Stays DEF CarrierCancelSilent
  <2>3. RecordsMove /\ snapshot' \in SnapshotType(Len(labels'))
    BY <1>17, <2>2, Stays, SnapshotStays DEF CarrierCancelSilent
  <2> QED
    BY <1>1, <1>17, <2>1, <2>2, <2>3 DEF CarrierCancelSilent
<1>18. CASE CRevert(c)
  <2>1. Goes
    BY <1>3, <1>18 DEF CRevert
  <2>2. RecordsMove
    <3>1. CASE cancel[c].rec = "none"
      BY <1>18, <3>1, Stays DEF CRevert
    <3>2. CASE cancel[c].rec # "none"
      BY <1>6, <1>18, <3>2, StatusGoesOn DEF CRevert, Open
    <3> QED
      BY <3>1, <3>2
  <2>3. LabelsMove /\ snapshot' \in SnapshotType(Len(labels'))
    BY <1>18, Stays, SnapshotStays DEF CRevert
  <2> QED
    BY <1>1, <1>18, <2>1, <2>2, <2>3 DEF CRevert
<1>19. CASE CBook(c)
  <2>1. Goes
    BY <1>4, <1>19 DEF CBook, CancelPCs
  <2>2. snapshot' \in SnapshotType(Len(labels'))
    BY <1>5, <1>19, SnapshotMarked DEF CBook
  <2>3. LabelsMove /\ RecordsMove
    BY <1>19, Stays DEF CBook
  <2> QED
    BY <1>1, <1>19, <2>1, <2>2, <2>3 DEF CBook
<1>20. CASE CClose(c)
  <2>1. Goes
    BY <1>3, <1>20 DEF CClose
  <2>2. RecordsMove
    <3>1. rec' = [r \in Purchases |-> rec'[r]]
      BY <1>20 DEF CClose
    <3>2. ASSUME NEW r \in Purchases
          PROVE  RecordMove(r) /\ (rec'[r].status \in Open => rec[r].status \in Open)
      <4>1. CASE rec'[r] = rec[r]
        BY <4>1 DEF RecordMove
      <4>2. CASE rec'[r] # rec[r]
        <5>1. rec[r].label = cancel[c].label /\ rec'[r] = [rec[r] EXCEPT !.status = "cancelled"]
          BY <1>20, <4>2 DEF CClose
        <5>2. rec[r].label # NoLabel
          BY <1>20, <5>1 DEF CClose, CancelOK
        <5>3. RecordMove(r)
          BY <1>20, <5>1, <5>2 DEF RecordMove, CClose
        <5>4. rec'[r].status = "cancelled"
          BY <5>1 DEF TypeOK
        <5> QED
          BY <5>3, <5>4 DEF Open
      <4> QED
        BY <4>1, <4>2
    <3>3. OpenMove
      BY <3>2 DEF OpenMove
    <3> QED
      BY <3>1, <3>2, <3>3 DEF RecordsMove
  <2>3. LabelsMove /\ snapshot' \in SnapshotType(Len(labels'))
    BY <1>20, Stays, SnapshotStays DEF CClose
  <2> QED
    BY <1>1, <1>20, <2>1, <2>2, <2>3 DEF CClose
<1>21. CASE CDie(c)
  BY <1>2, <1>3, <1>21 DEF CDie
<1> QED
  BY <1>11, <1>12, <1>13, <1>14, <1>15, <1>16, <1>17, <1>18, <1>19, <1>20, <1>21 DEF CancelStep

\* The cron, step by step.
LEMMA CronMoves ==
  ASSUME BooksInv, (\E r \in Purchases : CronTakes(r)) \/ CronWork \/ CronAbandon
  PROVE  Moves
<1>0. TypeOK /\ CronOK
  BY DEF BooksInv
<1>1. ASSUME UNCHANGED <<labels, purchaseVars, cancel>>, RecordsMove, CronMove,
             snapshot' \in SnapshotType(Len(labels'))
      PROVE  Moves
  BY <1>0, <1>1, Stays DEF Moves, purchaseVars
<1>2. ASSUME UNCHANGED <<labels, rec, snapshot, purchaseVars, cancel>>, CronMove
      PROVE  Moves
  BY <1>0, <1>1, <1>2, Stays, SnapshotStays
<1> USE <1>0
<1>3. ASSUME NEW r \in Purchases, CronTakes(r) PROVE Moves
  <2>1. PICK task \in {"purchasing", "cancelling", "poll"} :
          /\ CronTake(task, r)
          /\ IF task = "purchasing"
             THEN rec[r].status = "purchasing" /\ pc[r] \notin AtCarrier
             ELSE rec[r].label # NoLabel
    <3>1. CASE TakePurchasing(r)
      BY <3>1 DEF TakePurchasing, AtCarrier
    <3>2. CASE TakeCancelling(r)
      BY <3>2 DEF TakeCancelling, BooksInv, RecordOK, Labelled
    <3>3. CASE TakePoll(r)
      BY <3>3 DEF TakePoll
    <3> QED
      BY <1>3, <3>1, <3>2, <3>3 DEF CronTakes
  <2>2. CronMove
    BY <2>1 DEF CronMove, CronTake, purchaseVars
  <2> QED
    BY <1>2, <2>1, <2>2 DEF CronTake
<1>4. ASSUME NEW out, Probe(out) PROVE Moves
  <2>1. CronMove
    BY <1>4 DEF CronMove, Probe, CronLearn, purchaseVars
  <2> QED
    BY <1>2, <1>4, <2>1 DEF Probe
<1>5. ASSUME NEW seen \in {"gone", "in_transit", "delivered"}, CronLearn(seen, cron.label),
             cron.task \in {"cancelling", "poll"}, UNCHANGED <<labels, rec, pc>>,
             seen = "gone" => cron.task = "cancelling" /\ labels[cron.label].state = "void"
      PROVE  CronMove
  <2>1. cron' = [cron EXCEPT !.seen = seen]
    BY <1>5 DEF CronLearn, TypeOK
  <2> QED
    BY <1>5, <2>1 DEF CronMove
<1>6. ASSUME NEW out \in {"unknown", "gone", "in_transit", "delivered"}, AskCancelling(out)
      PROVE  Moves
  <2>1. CASE cron' = NoWork
    BY <1>2, <1>6, <2>1 DEF AskCancelling, CronMove
  <2>2. CASE cron' # NoWork
    <3>1. out # "unknown" /\ CronLearn(out, cron.label) /\ (out = "gone" => labels[cron.label].state = "void")
      BY <1>6, <2>2 DEF AskCancelling, TrackAnswers
    <3>2. CronMove
      BY <1>5, <1>6, <3>1 DEF AskCancelling, purchaseVars
    <3> QED
      BY <1>2, <1>6, <3>2 DEF AskCancelling
  <2> QED
    BY <2>1, <2>2
<1>7. ASSUME NEW out \in {"error", "nosignal", "in_transit", "delivered"}, AskPoll(out)
      PROVE  Moves
  <2>1. CASE cron' = NoWork
    BY <1>2, <1>7, <2>1 DEF AskPoll, CronMove
  <2>2. CASE cron' # NoWork
    <3>1. out \in {"in_transit", "delivered"} /\ CronLearn(out, cron.label)
      BY <1>7, <2>2 DEF AskPoll
    <3>2. CronMove
      BY <1>5, <1>7, <3>1 DEF AskPoll, purchaseVars
    <3> QED
      BY <1>2, <1>7, <3>2 DEF AskPoll
  <2> QED
    BY <2>1, <2>2
<1>8. CASE SettlePurchasing
  <2> DEFINE r == cron.rec
  <2>1. CronFound(r) /\ r \in Purchases
    BY <1>8 DEF SettlePurchasing, CronFound, CronOK
  <2>2. CronMove /\ labels' = labels
    BY <1>8 DEF SettlePurchasing, CronMove
  <2>3. CASE cron.seen = "found" /\ rec[r].status = "purchasing" /\ ~Relabelled(r)
    <3>1. /\ rec' = [rec EXCEPT ![r].status = "created", ![r].label = cron.label]
          /\ SaveSnapshot(GroupOf[r], cron.label)
      BY <1>8, <2>3 DEF SettlePurchasing, Relabelled
    <3>2. /\ rec' = [rec EXCEPT ![r] = rec'[r]]
          /\ rec'[r] = [rec[r] EXCEPT !.status = "created", !.label = cron.label]
      BY <2>1, <3>1 DEF TypeOK
    <3>3. RecordMove(r)
      BY <2>1, <2>3, <3>2 DEF RecordMove
    <3>4. RecordsMove
      BY <2>1, <2>3, <3>2, <3>3, OneRecordMoves DEF Open
    <3>5. cron.label \in LabelIds /\ GroupOf[r] \in Groups
      BY <2>1, <2>3, <1>8, PurchasesAssumption DEF TypeOK, CronOK, SettlePurchasing
    <3>6. snapshot' \in SnapshotType(Len(labels'))
      BY <2>2, <3>1, <3>5, SnapshotSaved
    <3> QED
      BY <1>1, <1>8, <2>2, <3>4, <3>6 DEF SettlePurchasing
  <2>4. CASE ~(cron.seen = "found" /\ rec[r].status = "purchasing" /\ ~Relabelled(r))
    <3>1. SetStatusFrom(r, {"purchasing"}, "failed") /\ UNCHANGED snapshot
      BY <1>8, <2>4 DEF SettlePurchasing, Relabelled
    <3>2. RecordsMove
      <4>1. CASE UNCHANGED rec
        BY <4>1, Stays
      <4>2. CASE rec[r].status = "purchasing"
        <5>1. rec' = [rec EXCEPT ![r].status = "failed"]
          BY <3>1, <4>2 DEF SetStatusFrom, SetStatus
        <5>2. /\ rec' = [rec EXCEPT ![r] = rec'[r]]
              /\ rec'[r] = [rec[r] EXCEPT !.status = "failed"] /\ rec'[r].status = "failed"
          BY <2>1, <5>1 DEF TypeOK
        <5>3. cron.seen = "notfound" \/ Relabelled(r)
          BY <2>1, <2>4, <4>2 DEF CronFound
        <5>4. RecordMove(r)
          BY <2>1, <4>2, <5>2, <5>3 DEF RecordMove
        <5> QED
          BY <2>1, <5>2, <5>4, OneRecordMoves DEF Open
      <4> QED
        BY <3>1, <4>1, <4>2 DEF SetStatusFrom
    <3>3. snapshot' \in SnapshotType(Len(labels'))
      BY <2>2, <3>1, SnapshotStays, Stays
    <3> QED
      BY <1>1, <1>8, <2>2, <3>2, <3>3 DEF SettlePurchasing
  <2> QED
    BY <2>3, <2>4
<1>9. CASE SettleCancelling
  <2> DEFINE r == cron.rec
  <2>1. r \in Purchases /\ rec[r].label # NoLabel /\ cron.label \in LabelIds
    BY <1>9 DEF SettleCancelling, CronOK, TypeOK
  <2>2. CronMove /\ labels' = labels
    BY <1>9 DEF SettleCancelling, CronMove
  <2>3. snapshot' \in SnapshotType(Len(labels'))
    BY <1>9, <2>1, <2>2, SnapshotMarked DEF SettleCancelling
  <2>4. RecordsMove
    <3>1. CASE UNCHANGED rec
      BY <3>1, Stays
    <3>2. CASE ~UNCHANGED rec /\ cron.seen = "gone"
      <4>1. rec[r].status = "cancelling" /\ rec' = [rec EXCEPT ![r].status = "cancelled"]
        BY <1>9, <3>2 DEF SettleCancelling, SetStatusFrom, SetStatus
      <4>2. /\ rec' = [rec EXCEPT ![r] = rec'[r]]
            /\ rec'[r] = [rec[r] EXCEPT !.status = "cancelled"] /\ rec'[r].status = "cancelled"
        BY <2>1, <4>1 DEF TypeOK
      <4>3. RecordMove(r)
        BY <1>9, <2>1, <3>2, <4>2 DEF RecordMove, SettleCancelling
      <4> QED
        BY <2>1, <4>2, <4>3, OneRecordMoves DEF Open
    <3>3. CASE ~UNCHANGED rec /\ cron.seen # "gone"
      <4>1. /\ rec[r].status = "cancelling"
            /\ rec' = [rec EXCEPT ![r].status = cron.seen, ![r].scanned = TRUE]
        BY <1>9, <3>3 DEF SettleCancelling
      <4>2. cron.seen \in {"in_transit", "delivered"}
        BY <1>9, <3>3 DEF SettleCancelling, CronOK
      <4> QED
        BY <2>1, <4>1, <4>2, RecordGoesOn DEF Open
    <3> QED
      BY <3>1, <3>2, <3>3
  <2> QED
    BY <1>1, <1>9, <2>2, <2>3, <2>4 DEF SettleCancelling
<1>10. CASE SettlePoll
  <2> DEFINE r == cron.rec
             st == IF cron.seen = cron.status THEN rec[r].status ELSE cron.seen
  <2>1. r \in Purchases /\ rec[r].label # NoLabel /\ cron.label \in LabelIds
    BY <1>10 DEF SettlePoll, CronOK, TypeOK
  <2>2. CronMove /\ labels' = labels
    BY <1>10 DEF SettlePoll, CronMove
  <2>3. snapshot' \in SnapshotType(Len(labels'))
    BY <1>10, <2>1, <2>2, SnapshotMarked DEF SettlePoll
  <2>4. RecordsMove
    <3>1. CASE UNCHANGED rec
      BY <3>1, Stays
    <3>2. CASE ~UNCHANGED rec
      <4>1. IndexAllows(r, st) /\ rec' = [rec EXCEPT ![r].status = st, ![r].scanned = TRUE]
        BY <1>10, <3>2 DEF SettlePoll
      <4>2. st \in {"created", "in_transit", "delivered", "cancelling", rec[r].status}
        BY <1>10 DEF SettlePoll, CronOK
      <4> HIDE DEF r, st
      <4> QED
        BY <2>1, <4>1, <4>2, RecordGoesOn
    <3> QED
      BY <3>1, <3>2
  <2> QED
    BY <1>1, <1>10, <2>2, <2>3, <2>4 DEF SettlePoll
<1>11. CASE CronAbandon
  BY <1>2, <1>11 DEF CronAbandon, CronMove
<1> QED
  BY <1>3, <1>4, <1>6, <1>7, <1>8, <1>9, <1>10, <1>11 DEF CronWork

\* getTracking writes to several records, each of them on its own account.
LEMMA TrackMoves ==
  ASSUME BooksInv, NEW g \in Groups, Track(g)
  PROVE  Moves
<1> DEFINE l == snapshot[g].label
<1>1. TypeOK /\ l \in LabelIds /\ UNCHANGED <<labels, purchaseVars, cancel, cron>>
  BY DEF BooksInv, TypeOK, Track
<1>2. snapshot' \in SnapshotType(Len(labels'))
  BY <1>1, SnapshotMarked DEF Track
<1>3. RecordsMove
  <2>1. CASE UNCHANGED rec
    BY <1>1, <2>1, Stays
  <2>2. CASE ~UNCHANGED rec
    <3>1. PICK a \in {"in_transit", "delivered"} :
            rec' = [r \in Purchases |->
              IF rec[r].label = l /\ rec[r].status \in {"created", "in_transit"}
              THEN [rec[r] EXCEPT !.status = a, !.scanned = TRUE] ELSE rec[r]]
      BY <2>2 DEF Track, TrackAnswers
    <3>2. ASSUME NEW r \in Purchases
          PROVE  RecordMove(r) /\ (rec'[r].status \in Open => rec[r].status \in Open)
      <4>1. CASE rec'[r] = rec[r]
        BY <4>1 DEF RecordMove
      <4>2. CASE rec'[r] # rec[r]
        <5>1. /\ rec[r].label = l /\ rec[r].status \in {"created", "in_transit"}
              /\ rec'[r] = [rec[r] EXCEPT !.status = a, !.scanned = TRUE]
          BY <3>1, <4>2
        <5>2. l # NoLabel
          BY DEF Track
        <5>3. RecordMove(r)
          BY <5>1, <5>2 DEF RecordMove
        <5> QED
          BY <5>1, <5>3 DEF Open
      <4> QED
        BY <4>1, <4>2
    <3>3. OpenMove
      BY <3>2 DEF OpenMove
    <3>4. rec' = [r \in Purchases |-> rec'[r]]
      BY <3>1
    <3> QED
      BY <3>2, <3>3, <3>4 DEF RecordsMove
  <2> QED
    BY <2>1, <2>2
<1> QED
  BY <1>1, <1>2, <1>3, Stays DEF Moves, purchaseVars

LEMMA ScanMoves ==
  ASSUME BooksInv, NEW l \in LabelIds, Scan(l)
  PROVE  Moves
<1>1. TypeOK /\ UNCHANGED <<rec, snapshot, purchaseVars, cancel, cron>>
  BY DEF BooksInv, Scan
<1>2. LabelsMove
  BY LabelGoesOn DEF Scan
<1> QED
  BY <1>1, <1>2, Stays, SnapshotStays DEF Moves, purchaseVars

\* Every step is made of such moves.
LEMMA NextMoves ==
  ASSUME BooksInv, [Next]_vars
  PROVE  Moves
<1>1. CASE UNCHANGED vars
  BY <1>1, Stays, SnapshotStays DEF BooksInv, Moves, vars, purchaseVars
<1> QED
  BY <1>1, CallMoves, CancelMoves, CronMoves, TrackMoves, ScanMoves DEF Next

-----------------------------------------------------------------------------
(* The moves keep the books in order *)

\* Both indexes, as pairs of records.
UniqueOpen ==
  \A q, r \in Purchases :
    /\ rec[q].status \in Open /\ rec[r].status \in Open
    /\ GroupOf[q] = GroupOf[r] \/ KeyOf[q] = KeyOf[r]
    => q = r

LEMMA IndexIsUnique == (\A r \in Purchases : IndexAllows(r, rec[r].status)) <=> UniqueOpen
BY DEF IndexAllows, OpenInGroup, OpenWithKey, UniqueOpen

\* What is on a record once stays there: that it exists, and that it has a label.
LEMMA RecordKeeps ==
  ASSUME BooksInv, Moves, NEW r \in Purchases
  PROVE  /\ rec'[r] \in [status : Statuses, label : (1 .. Len(labels')) \cup {NoLabel},
                         scanned : BOOLEAN]
         /\ rec[r].status # "none" => rec'[r].status # "none"
         /\ rec[r].label # NoLabel => rec'[r].label # NoLabel
         /\ RecordOK(r)'
<1>1. /\ rec[r] \in [status : Statuses, label : LabelIds \cup {NoLabel}, scanned : BOOLEAN]
      /\ LabelIds \subseteq 1 .. Len(labels') /\ RecordMove(r)
      /\ PurchaseOK(r) /\ RecordOK(r) /\ CronOK
      /\ got[r] \in LabelIds \cup {NoLabel} /\ cron.label \in LabelIds \cup {NoLabel}
      /\ \A c \in Cancels : CancelOK(c)
  BY LabelsMoved DEF BooksInv, TypeOK, Moves, RecordsMove, LabelIds
<1> DEFINE T == [status : Statuses, label : (1 .. Len(labels')) \cup {NoLabel}, scanned : BOOLEAN]
<1>2. ASSUME NEW st \in Statuses \ {"none"}, NEW l \in (1 .. Len(labels')) \cup {NoLabel},
             NEW sc \in BOOLEAN, st \in Labelled => l # NoLabel,
             rec'[r] = [status |-> st, label |-> l, scanned |-> sc],
             rec[r].label # NoLabel => l # NoLabel
      PROVE  /\ rec'[r] \in T
             /\ rec[r].status # "none" => rec'[r].status # "none"
             /\ rec[r].label # NoLabel => rec'[r].label # NoLabel
             /\ RecordOK(r)'
  BY <1>2 DEF RecordOK
<1>3. CASE rec'[r] = rec[r]
  BY <1>1, <1>3 DEF RecordOK
<1>4. CASE pc[r] = "reserve" /\ rec'[r] = [rec[r] EXCEPT !.status = "purchasing"]
  <2>1. rec[r].label \in (1 .. Len(labels')) \cup {NoLabel} /\ rec[r].scanned \in BOOLEAN
    BY <1>1
  <2>2. rec'[r] = [status |-> "purchasing", label |-> rec[r].label, scanned |-> rec[r].scanned]
    BY <1>1, <1>4
  <2> QED
    BY <1>2, <2>1, <2>2 DEF Statuses, Open, Labelled
<1>5. CASE rec'[r] = [rec[r] EXCEPT !.status = "failed"]
  <2>1. rec[r].label \in (1 .. Len(labels')) \cup {NoLabel} /\ rec[r].scanned \in BOOLEAN
    BY <1>1
  <2>2. rec'[r] = [status |-> "failed", label |-> rec[r].label, scanned |-> rec[r].scanned]
    BY <1>1, <1>5
  <2> QED
    BY <1>2, <2>1, <2>2 DEF Statuses, Open, Labelled
<1>6. CASE pc[r] = "note" /\ rec'[r] = [rec[r] EXCEPT !.label = got[r]]
  <2>1. got[r] # NoLabel /\ rec[r].status # "none"
    BY <1>1, <1>6 DEF PurchaseOK, LabelIds, NoLabel, Early
  <2>2. /\ rec[r].status \in Statuses /\ rec[r].scanned \in BOOLEAN
        /\ rec'[r] = [status |-> rec[r].status, label |-> got[r], scanned |-> rec[r].scanned]
        /\ got[r] \in (1 .. Len(labels')) \cup {NoLabel}
    BY <1>1, <1>6
  <2> QED
    BY <1>2, <2>1, <2>2
<1>7. CASE pc[r] = "finalise" /\ rec'[r] = [rec[r] EXCEPT !.status = "created"]
  <2>1. rec[r].label # NoLabel
    BY <1>1, <1>7 DEF PurchaseOK
  <2>2. rec[r].label \in (1 .. Len(labels')) \cup {NoLabel} /\ rec[r].scanned \in BOOLEAN
    BY <1>1
  <2>3. rec'[r] = [status |-> "created", label |-> rec[r].label, scanned |-> rec[r].scanned]
    BY <1>1, <1>7
  <2> QED
    BY <1>2, <2>1, <2>2, <2>3 DEF Statuses, Open
<1>8. CASE /\ CronFound(r) /\ cron.seen = "found"
           /\ rec'[r] = [rec[r] EXCEPT !.status = "created", !.label = cron.label]
  <2>1. cron.label # NoLabel
    BY <1>1, <1>8 DEF CronOK, CronFound
  <2>2. cron.label \in (1 .. Len(labels')) \cup {NoLabel} /\ rec[r].scanned \in BOOLEAN
    BY <1>1
  <2>3. rec'[r] = [status |-> "created", label |-> cron.label, scanned |-> rec[r].scanned]
    BY <1>1, <1>8
  <2> QED
    BY <1>2, <2>1, <2>2, <2>3 DEF Statuses, Open
<1>9. CASE /\ rec[r].label # NoLabel
           /\ \E st \in {"created", "in_transit", "delivered", "cancelling", rec[r].status},
                 sc \in BOOLEAN :
                rec'[r] = [rec[r] EXCEPT !.status = st, !.scanned = sc]
  <2>1. PICK st \in {"created", "in_transit", "delivered", "cancelling", rec[r].status},
             sc \in BOOLEAN :
          rec'[r] = [rec[r] EXCEPT !.status = st, !.scanned = sc]
    BY <1>9
  <2>2. rec[r].label \in (1 .. Len(labels')) \cup {NoLabel} /\ rec[r].status # "none"
    BY <1>1, <1>9 DEF RecordOK
  <2>3. st \in Statuses \ {"none"}
    BY <1>1, <2>2 DEF Statuses, Open
  <2>4. rec'[r] = [status |-> st, label |-> rec[r].label, scanned |-> sc]
    BY <1>1, <2>1
  <2> QED
    BY <1>2, <1>9, <2>2, <2>3, <2>4
<1>10. CASE rec[r].label # NoLabel /\ rec'[r] = [rec[r] EXCEPT !.status = "cancelled"]
  <2>1. rec[r].label \in (1 .. Len(labels')) \cup {NoLabel} /\ rec[r].scanned \in BOOLEAN
    BY <1>1
  <2>2. rec'[r] = [status |-> "cancelled", label |-> rec[r].label, scanned |-> rec[r].scanned]
    BY <1>1, <1>10
  <2> QED
    BY <1>2, <1>10, <2>1, <2>2 DEF Statuses, Open
<1> QED
  BY <1>1, <1>3, <1>4, <1>5, <1>6, <1>7, <1>8, <1>9, <1>10 DEF RecordMove

\* The indexes hold: only one record can have been opened, and they had nothing against it.
LEMMA UniqueOpenStep ==
  ASSUME BooksInv, Moves
  PROVE  UniqueOpen'
<1>1. UniqueOpen
  BY IndexIsUnique DEF BooksInv, TypeOK
<1>2. PICK r \in Purchases \cup {"none"} :
        /\ \A q \in Purchases \ {r} : rec'[q].status \in Open => rec[q].status \in Open
        /\ r \in Purchases /\ rec'[r].status \in Open =>
             rec[r].status \in Open \/ IndexAllows(r, rec'[r].status)
  BY DEF Moves, RecordsMove, OpenMove
<1>3. CASE \A q \in Purchases : rec'[q].status \in Open => rec[q].status \in Open
  BY <1>1, <1>3 DEF UniqueOpen
<1>4. CASE /\ r \in Purchases
           /\ \A q \in Purchases : rec[q].status \in Open =>
                (GroupOf[q] # GroupOf[r] /\ KeyOf[q] # KeyOf[r]) \/ q = r
  BY <1>1, <1>2, <1>4 DEF UniqueOpen
<1>5. \/ \A q \in Purchases : rec'[q].status \in Open => rec[q].status \in Open
      \/ r \in Purchases /\ IndexAllows(r, rec'[r].status) /\ rec'[r].status \in Open
  BY <1>2
<1> QED
  BY <1>3, <1>4, <1>5 DEF IndexAllows, OpenInGroup, OpenWithKey

\* Everything keeps its type.
LEMMA TypeStep ==
  ASSUME BooksInv, Moves
  PROVE  TypeOK'
<1>1. /\ TypeOK /\ LabelIds \subseteq 1 .. Len(labels') /\ LabelIds' = 1 .. Len(labels')
      /\ labels' \in Seq(LabelRecord) /\ CronOK
  BY LabelsMoved DEF BooksInv, Moves, LabelIds
<1>2. rec' \in [Purchases -> [status : Statuses, label : LabelIds' \cup {NoLabel}, scanned : BOOLEAN]]
  <2>1. rec' = [r \in Purchases |-> rec'[r]]
    BY DEF Moves, RecordsMove
  <2>2. \A r \in Purchases :
          rec'[r] \in [status : Statuses, label : LabelIds' \cup {NoLabel}, scanned : BOOLEAN]
    BY <1>1, RecordKeeps
  <2> QED
    BY <2>1, <2>2
<1>3. \A r \in Purchases : IndexAllows(r, rec[r].status)'
  BY UniqueOpenStep DEF IndexAllows, OpenInGroup, OpenWithKey, UniqueOpen
<1>4. snapshot' \in [Groups -> [label : LabelIds' \cup {NoLabel}, cancelled : BOOLEAN, scanned : BOOLEAN]]
  BY <1>1 DEF Moves, SnapshotType
<1>5. /\ pc' \in [Purchases -> PurchasePCs] /\ got' \in [Purchases -> LabelIds' \cup {NoLabel}]
      /\ answer' \in [Purchases -> {"none", "ok", "error"}] /\ blocked' \in [Purchases -> BOOLEAN]
  <2>1. ASSUME NEW k \in Purchases
        PROVE  /\ pc'[k] \in PurchasePCs /\ got'[k] \in LabelIds' \cup {NoLabel}
               /\ answer'[k] \in {"none", "ok", "error"}
    <3>1. /\ pc[k] \in PurchasePCs /\ got[k] \in LabelIds' \cup {NoLabel}
          /\ answer[k] \in {"none", "ok", "error"}
          /\ \A r \in Purchases : rec[r].label \in LabelIds' \cup {NoLabel}
      BY <1>1 DEF TypeOK
    <3>2. PurchaseMove(k)
      BY DEF Moves, PurchasesMove
    <3> QED
      BY <1>1, <3>1, <3>2 DEF PurchaseMove, PurchasePCs, Early
  <2>2. /\ pc' = [k \in Purchases |-> pc'[k]] /\ got' = [k \in Purchases |-> got'[k]]
        /\ answer' = [k \in Purchases |-> answer'[k]] /\ blocked' \in [Purchases -> BOOLEAN]
    BY DEF Moves, PurchasesMove
  <2> QED
    BY <2>1, <2>2
<1>6. cancel' \in [Cancels -> [pc : CancelPCs, rec : Purchases \cup {"none"},
                               label : LabelIds' \cup {NoLabel}, was : Statuses]]
  <2> DEFINE T == [pc : CancelPCs, rec : Purchases \cup {"none"},
                   label : LabelIds' \cup {NoLabel}, was : Statuses]
  <2>1. ASSUME NEW c \in Cancels PROVE cancel'[c] \in T
    <3>1. cancel[c] \in T
      BY <1>1 DEF TypeOK
    <3>2. [NewCancel EXCEPT !.pc = "done"] \in T
      BY DEF NewCancel, CancelPCs, Statuses
    <3>3. \A p \in CancelPCs : [cancel[c] EXCEPT !.pc = p] \in T
      BY <3>1
    <3>4. \A l \in LabelIds, r \in Purchases \cup {"none"}, was \in Statuses :
            [pc |-> "track", rec |-> r, label |-> l, was |-> was] \in T
      BY <1>1 DEF CancelPCs
    <3>5. CancelMove(c)
      BY DEF Moves
    <3> HIDE DEF T
    <3> QED
      BY <3>1, <3>2, <3>3, <3>4, <3>5 DEF CancelMove
  <2>2. cancel' = [c \in Cancels |-> cancel'[c]]
    BY DEF Moves
  <2> HIDE DEF T
  <2>3. cancel' \in [Cancels -> T]
    BY <2>1, <2>2
  <2> QED
    BY <2>3 DEF T
<1>7. cron' \in [task : {"none", "purchasing", "cancelling", "poll"}, rec : Purchases \cup {"none"},
                 label : LabelIds' \cup {NoLabel}, seen : Seen, status : Statuses, scanned : BOOLEAN]
  <2> DEFINE T == [task : {"none", "purchasing", "cancelling", "poll"},
                   rec : Purchases \cup {"none"}, label : LabelIds' \cup {NoLabel}, seen : Seen,
                   status : Statuses, scanned : BOOLEAN]
  <2>1. cron \in T
    BY <1>1 DEF TypeOK
  <2>2. CASE cron' = cron
    BY <1>1, <2>1, <2>2
  <2>3. CASE cron' = NoWork
    BY <2>3 DEF NoWork, Seen, Statuses
  <2>4. CASE \E r \in Purchases, task \in {"purchasing", "cancelling", "poll"} :
                cron' = [task |-> task, rec |-> r, label |-> rec[r].label, seen |-> "none",
                         status |-> rec[r].status, scanned |-> rec[r].scanned]
    <3> PICK r \in Purchases, task \in {"purchasing", "cancelling", "poll"} :
               cron' = [task |-> task, rec |-> r, label |-> rec[r].label, seen |-> "none",
                        status |-> rec[r].status, scanned |-> rec[r].scanned]
      BY <2>4
    <3>1. /\ rec[r].label \in LabelIds' \cup {NoLabel} /\ rec[r].status \in Statuses
          /\ rec[r].scanned \in BOOLEAN
      BY <1>1 DEF TypeOK
    <3> QED
      BY <3>1 DEF Seen
  <2>5. CASE \E seen \in {"found", "notfound"}, l \in LabelIds \cup {NoLabel} :
                cron' = [cron EXCEPT !.seen = seen, !.label = l]
    <3> PICK seen \in {"found", "notfound"}, l \in LabelIds \cup {NoLabel} :
               cron' = [cron EXCEPT !.seen = seen, !.label = l]
      BY <2>5
    <3> QED
      BY <1>1, <2>1 DEF Seen
  <2>6. CASE \E seen \in {"gone", "in_transit", "delivered"} : cron' = [cron EXCEPT !.seen = seen]
    <3> PICK seen \in {"gone", "in_transit", "delivered"} : cron' = [cron EXCEPT !.seen = seen]
      BY <2>6
    <3> QED
      BY <1>1, <2>1 DEF Seen
  <2>7. \A g : OfGroup(g) # {} => Latest(OfGroup(g)) \in LabelIds
    BY <1>1, LatestIsLast DEF OfGroup
  <2>8. cron.label \in LabelIds \cup {NoLabel}
    BY <1>1 DEF TypeOK
  <2>9. CronMove
    BY DEF Moves
  <2>10. \/ cron' = cron \/ cron' = NoWork
         \/ \E r \in Purchases, task \in {"purchasing", "cancelling", "poll"} :
                cron' = [task |-> task, rec |-> r, label |-> rec[r].label, seen |-> "none",
                         status |-> rec[r].status, scanned |-> rec[r].scanned]
         \/ \E seen \in {"gone", "in_transit", "delivered"} : cron' = [cron EXCEPT !.seen = seen]
         \/ \E seen \in {"found", "notfound"}, l \in LabelIds \cup {NoLabel} :
                cron' = [cron EXCEPT !.seen = seen, !.label = l]
    BY <2>7, <2>8, <2>9 DEF CronMove
  <2> QED
    BY <2>2, <2>3, <2>4, <2>5, <2>6, <2>10
<1> QED
  BY <1>1, <1>2, <1>3, <1>4, <1>5, <1>6, <1>7 DEF TypeOK, LabelRecord

\* A purchase has got as far as its record and its labels say.
LEMMA PurchaseStep ==
  ASSUME BooksInv, Moves, NEW k \in Purchases
  PROVE  PurchaseOK(k)'
<1>1. /\ TypeOK /\ PurchaseOK(k) /\ RecordOK(k) /\ CronOK
      /\ LabelsMove /\ RecordMove(k) /\ PurchaseMove(k)
      /\ LabelIds' = 1 .. Len(labels')
  BY DEF BooksInv, Moves, RecordsMove, PurchasesMove, LabelIds
<1>2. /\ LabelIds \subseteq LabelIds'
      /\ \A l \in LabelIds : labels'[l].by = labels[l].by
      /\ \A l \in LabelIds' \ LabelIds : pc[labels'[l].by] \in AtCarrier
  BY <1>1, LabelsMoved DEF LabelIds
<1>3. MadeBy(k) = {} /\ pc[k] \notin AtCarrier => MadeBy(k)' = {}
  BY <1>1, <1>2 DEF MadeBy
<1>4. pc'[k] \in Early => pc[k] \in Early /\ rec'[k].status = "none"
  <2>1. pc'[k] \in Early => pc[k] \in Early /\ (pc'[k] = pc[k] \/ rec' = rec)
    BY <1>1 DEF PurchaseMove, Early, AtCarrier
  <2>2. pc[k] \in Early => rec[k].status = "none" /\ rec[k].label = NoLabel
    BY <1>1 DEF PurchaseOK, RecordOK
  <2>3. pc[k] \in Early /\ pc'[k] = pc[k] => rec'[k] = rec[k]
    BY <1>1, <2>2 DEF RecordMove, CronFound, CronOK, Early
  <2> QED
    BY <2>1, <2>2, <2>3
<1>5. pc'[k] \in AtCarrier => rec'[k].status = "purchasing" /\ rec'[k].label = NoLabel
  <2>1. pc'[k] \in AtCarrier => pc[k] \in AtCarrier \/ (pc[k] = "reserve" /\ rec'[k].status = "purchasing")
    BY <1>1 DEF PurchaseMove, Early, AtCarrier
  <2>2. pc[k] \in AtCarrier => rec'[k] = rec[k]
    BY <1>1 DEF PurchaseOK, RecordMove, CronFound, CronOK, AtCarrier, NoLabel
  <2>3. pc[k] = "reserve" => rec[k].label = NoLabel /\ rec[k].status = "none"
    BY <1>1 DEF PurchaseOK, RecordOK, Early
  <2>4. pc[k] = "reserve" => rec'[k] = rec[k] \/ rec'[k] = [rec[k] EXCEPT !.status = "purchasing"]
    BY <1>1, <2>3 DEF RecordMove, CronFound
  <2>5. pc[k] = "reserve" => rec'[k].label = NoLabel
    BY <1>1, <2>3, <2>4 DEF TypeOK
  <2> QED
    BY <1>1, <2>1, <2>2, <2>5 DEF PurchaseOK
<1>6. pc'[k] \in {"note", "finalise", "snapshot"} => got'[k] \in LabelIds' /\ labels'[got'[k]].by = k
  <2>1. pc'[k] \in {"note", "finalise", "snapshot"} =>
          \/ got'[k] = got[k] /\ pc[k] \in {"note", "finalise", "snapshot"}
          \/ got'[k] \in LabelIds' /\ labels'[got'[k]].by = k
    BY <1>1 DEF PurchaseMove, Early
  <2> QED
    BY <1>1, <1>2, <2>1 DEF PurchaseOK
<1>7. pc'[k] \in {"finalise", "snapshot"} => rec'[k].label # NoLabel
  <2>1. pc'[k] \in {"finalise", "snapshot"} =>
          \/ pc[k] \in {"finalise", "snapshot"}
          \/ pc[k] = "note" /\ rec'[k].label = got[k]
    BY <1>1 DEF PurchaseMove, Early
  <2>2. pc[k] = "note" => got[k] # NoLabel
    BY <1>1 DEF PurchaseOK, LabelIds, NoLabel
  <2> QED
    BY <1>1, <2>1, <2>2, RecordKeeps DEF PurchaseOK
<1>8. pc'[k] \notin Early \cup {"done"} => rec'[k].status # "none"
  <2>1. pc'[k] \notin Early \cup {"done"} =>
          pc[k] \notin Early \cup {"done"} \/ rec'[k].status = "purchasing"
    BY <1>1 DEF PurchaseMove, Early, AtCarrier
  <2> QED
    BY <1>1, <2>1, RecordKeeps DEF PurchaseOK
<1>9. pc'[k] \in Early => MadeBy(k)' = {}
  BY <1>1, <1>3, <1>4 DEF PurchaseOK, Early, AtCarrier
<1> QED
  BY <1>4, <1>5, <1>6, <1>7, <1>8, <1>9 DEF PurchaseOK

\* A cancellation goes on to book only what the carrier has confirmed.
LEMMA CancelStepOK ==
  ASSUME BooksInv, Moves, NEW c \in Cancels
  PROVE  CancelOK(c)'
<1>1. TypeOK /\ CancelOK(c) /\ CancelMove(c) /\ LabelsMove
  BY DEF BooksInv, Moves
<1>2. cancel[c] \in [pc : CancelPCs, rec : Purchases \cup {"none"},
                     label : LabelIds \cup {NoLabel}, was : Statuses]
  BY <1>1 DEF TypeOK
<1>3. /\ \A l \in LabelIds : labels[l].state = "void" => labels'[l].state = "void"
      /\ \A r \in Purchases : rec[r].label # NoLabel => rec'[r].label # NoLabel
      /\ \A l \in LabelIds : l # NoLabel
  BY <1>1, LabelsMoved, RecordKeeps DEF LabelIds, NoLabel
<1>4. CASE cancel'[c] = cancel[c]
  BY <1>1, <1>2, <1>3, <1>4 DEF CancelOK
<1>5. CASE cancel'[c] = [NewCancel EXCEPT !.pc = "done"]
  BY <1>5 DEF CancelOK, NewCancel
<1>6. CASE \E l \in LabelIds, r \in Purchases \cup {"none"}, was \in Statuses :
             /\ cancel'[c] = [pc |-> "track", rec |-> r, label |-> l, was |-> was]
             /\ rec' = rec
             /\ r # "none" => rec[r].label # NoLabel
  BY <1>3, <1>6 DEF CancelOK
<1>7. ASSUME NEW p \in CancelPCs \ {"idle", "done"}, cancel[c].pc \notin {"idle", "done"},
             cancel'[c] = [cancel[c] EXCEPT !.pc = p],
             p = "book" => labels'[cancel[c].label].state = "void",
             p = "close" => cancel[c].pc = "book"
      PROVE  CancelOK(c)'
  <2>1. cancel'[c].label = cancel[c].label /\ cancel'[c].rec = cancel[c].rec /\ cancel'[c].pc = p
    BY <1>2, <1>7
  <2>2. cancel[c].label \in LabelIds
    BY <1>1, <1>2, <1>7 DEF CancelOK
  <2>3. p \in {"book", "close"} => labels'[cancel[c].label].state = "void"
    BY <1>1, <1>3, <1>7, <2>2 DEF CancelOK
  <2>4. cancel[c].rec # "none" => rec'[cancel[c].rec].label # NoLabel
    BY <1>1, <1>2, <1>3 DEF CancelOK
  <2> QED
    BY <1>3, <2>1, <2>2, <2>3, <2>4 DEF CancelOK
<1> QED
  BY <1>1, <1>4, <1>5, <1>6, <1>7 DEF CancelMove

\* The cron has a document in hand that it may settle by what it has learnt.
LEMMA CronStepOK ==
  ASSUME BooksInv, Moves
  PROVE  CronOK'
<1>1. TypeOK /\ CronOK /\ CronMove /\ LabelsMove
  BY DEF BooksInv, Moves
<1>2. cron \in [task : {"none", "purchasing", "cancelling", "poll"}, rec : Purchases \cup {"none"},
                label : LabelIds \cup {NoLabel}, seen : Seen, status : Statuses, scanned : BOOLEAN]
  BY <1>1 DEF TypeOK
<1>3. /\ \A l \in LabelIds : labels[l].state = "void" => labels'[l].state = "void"
      /\ \A r \in Purchases : rec[r].label # NoLabel => rec'[r].label # NoLabel
      /\ \A r \in Purchases : rec[r].status # "none" => rec'[r].status # "none"
      /\ \A l \in LabelIds : l # NoLabel
  BY <1>1, LabelsMoved, RecordKeeps DEF LabelIds, NoLabel
<1>4. \A r \in Purchases : pc[r] \notin Early \cup AtCarrier => pc'[r] \notin Early \cup AtCarrier
  BY DEF Moves, PurchasesMove, PurchaseMove, Early, AtCarrier
<1>5. CASE cron' = cron
  BY <1>1, <1>2, <1>3, <1>4, <1>5 DEF CronOK
<1>6. CASE cron' = NoWork
  BY <1>6 DEF CronOK, NoWork
<1>7. ASSUME rec' = rec, pc' = pc, NEW r \in Purchases,
             NEW task \in {"purchasing", "cancelling", "poll"},
             cron' = [task |-> task, rec |-> r, label |-> rec[r].label, seen |-> "none",
                      status |-> rec[r].status, scanned |-> rec[r].scanned],
             IF task = "purchasing"
             THEN rec[r].status = "purchasing" /\ pc[r] \notin AtCarrier
             ELSE rec[r].label # NoLabel
      PROVE  CronOK'
  <2>1. task = "purchasing" => pc[r] \notin Early
    BY <1>7 DEF BooksInv, PurchaseOK
  <2> QED
    BY <1>7, <2>1 DEF CronOK
<1>8. ASSUME rec' = rec, pc' = pc, labels' = labels, cron.task = "purchasing",
             NEW l, cron' = [cron EXCEPT !.seen = IF l = NoLabel THEN "notfound" ELSE "found",
                                         !.label = l]
      PROVE  CronOK'
  BY <1>1, <1>2, <1>8 DEF CronOK
<1>9. ASSUME rec' = rec, pc' = pc, labels' = labels, NEW seen \in {"gone", "in_transit", "delivered"},
             cron.task \in {"cancelling", "poll"}, cron' = [cron EXCEPT !.seen = seen],
             seen = "gone" => cron.task = "cancelling" /\ labels[cron.label].state = "void"
      PROVE  CronOK'
  BY <1>1, <1>2, <1>9 DEF CronOK
<1> QED
  BY <1>1, <1>5, <1>6, <1>7, <1>8, <1>9 DEF CronMove

LEMMA BooksStep == ASSUME BooksInv, Moves PROVE BooksInv'
BY TypeStep, PurchaseStep, RecordKeeps, CancelStepOK, CronStepOK DEF BooksInv

LEMMA BooksInit == ASSUME Init PROVE BooksInv
<1> USE DEF Init, NoRecord, NewCancel, NoWork, NoLabel
<1>1. labels \in Seq(LabelRecord) /\ LabelIds = {}
  BY DEF LabelIds
<1>2. TypeOK
  BY <1>1 DEF TypeOK, LabelRecord, IndexAllows, Open, Statuses, PurchasePCs, CancelPCs, Seen
<1>3. \A k \in Purchases : PurchaseOK(k) /\ RecordOK(k)
  BY <1>1 DEF PurchaseOK, RecordOK, MadeBy, Early, AtCarrier, Labelled
<1>4. \A c \in Cancels : CancelOK(c)
  BY DEF CancelOK
<1>5. CronOK
  BY DEF CronOK
<1> QED
  BY <1>2, <1>3, <1>4, <1>5 DEF BooksInv

LEMMA BooksKept == Spec => []BooksInv
<1>1. Init => BooksInv
  BY BooksInit
<1>2. BooksInv /\ [Next]_vars => BooksInv'
  BY NextMoves, BooksStep
<1> QED
  BY <1>1, <1>2, PTL DEF Spec

\* Every variable of the label purchase keeps its type, and the records obey both unique
\* indexes, whatever the carrier answers and wherever a call or the cron dies.
THEOREM TypeCorrect == Spec => []TypeOK
<1>1. BooksInv => TypeOK
  BY DEF BooksInv
<1> QED
  BY <1>1, BooksKept, PTL

-----------------------------------------------------------------------------
(* A carrier that repeats its answer: which label a record, a caller and the cron mean *)

\* A label is a record of the carrier's with a name that is not "no label".
LEMMA LabelIsOne ==
  ASSUME TypeOK, NEW l \in LabelIds
  PROVE  l # NoLabel /\ labels[l] \in LabelRecord /\ labels[l].by \in Purchases
<1>1. labels \in Seq(LabelRecord) /\ Len(labels) \in Nat
  BY LenProperties DEF TypeOK, LabelRecord
<1>2. labels[l] \in LabelRecord
  BY <1>1, ElementOfSeq DEF LabelIds
<1> QED
  BY <1>1, <1>2 DEF LabelRecord, LabelIds, NoLabel

\* A label is new to the books only while its purchase is asking the carrier.
LEMMA MadeByKeeps ==
  ASSUME LabelsInv, CarrierDedups, Moves, NEW r \in Purchases
  PROVE  /\ MadeBy(r) \subseteq MadeBy(r)'
         /\ MadeBy(r)' # {} => MadeBy(r) # {} \/ pc[r] \in AtCarrier
         /\ MadeBy(r) # {} => MadeBy(r)' = MadeBy(r)
<1>1. TypeOK /\ LabelsMove
  BY DEF LabelsInv, BooksInv, Moves
<1> QED
  BY <1>1, LabelsMoved DEF MadeBy, LabelIds

\* An open record is the only one of its group and of its requestId.
LEMMA OpenIsOne ==
  ASSUME LabelsInv, NEW q \in Purchases, NEW r \in Purchases,
         rec[q].status \in Open, rec[r].status \in Open,
         GroupOf[q] = GroupOf[r] \/ KeyOf[q] = KeyOf[r]
  PROVE  q = r
BY IndexIsUnique DEF LabelsInv, BooksInv, TypeOK, UniqueOpen

\* A record is only ever given its own purchase's label, and keeps it.
LEMMA RecordLabel ==
  ASSUME LabelsInv, CarrierDedups, Moves, NEW r \in Purchases
  PROVE  /\ rec[r].label # NoLabel => rec'[r].label = rec[r].label
         /\ rec'[r].label # NoLabel => rec'[r].label \in LabelIds /\ labels[rec'[r].label].by = r
<1>1. /\ TypeOK /\ PurchaseOK(r) /\ CronOK /\ RecordMove(r)
      /\ OneLabelEach /\ OwnLabel /\ KnownOrInDoubt /\ CronTrue
  BY DEF LabelsInv, BooksInv, Moves, RecordsMove
<1>2. /\ rec[r] \in [status : Statuses, label : LabelIds \cup {NoLabel}, scanned : BOOLEAN]
      /\ \A l \in LabelIds : l # NoLabel /\ labels[l].by \in Purchases
  BY <1>1, LabelIsOne DEF TypeOK
<1>3. ASSUME rec'[r].label = rec[r].label
      PROVE  rec'[r].label # NoLabel => rec'[r].label \in LabelIds /\ labels[rec'[r].label].by = r
  BY <1>1, <1>2, <1>3 DEF OwnLabel
<1>4. ASSUME rec'[r].label \in LabelIds, labels[rec'[r].label].by = r
      PROVE  rec[r].label # NoLabel => rec'[r].label = rec[r].label
  BY <1>1, <1>2, <1>4 DEF OwnLabel, OneLabelEach
<1>5. CASE pc[r] = "note" /\ rec'[r] = [rec[r] EXCEPT !.label = got[r]]
  <2>1. got[r] \in LabelIds /\ labels[got[r]].by = r
    BY <1>1, <1>5 DEF PurchaseOK
  <2>2. rec'[r].label = got[r]
    BY <1>2, <1>5
  <2> QED
    BY <1>4, <2>1, <2>2
<1>6. CASE /\ rec[r].status = "purchasing" /\ CronFound(r) /\ cron.seen = "found" /\ ~Relabelled(r)
           /\ rec'[r] = [rec[r] EXCEPT !.status = "created", !.label = cron.label]
  <2> DEFINE l == cron.label
             q == labels[l].by
  <2>1. cron.task = "purchasing" /\ cron.rec = r /\ l # NoLabel /\ l \in LabelIds
    BY <1>1, <1>6 DEF CronFound, CronOK, TypeOK
  <2>2. q \in Purchases /\ GroupOf[q] = GroupOf[r] /\ (MadeBy(r) # {} => q = r)
    BY <1>1, <1>2, <1>6, <2>1 DEF CronTrue, OneLabelEach
  <2>3. rec[q].label # l \/ q = r
    BY <1>6, <2>2 DEF Relabelled
  <2>4. q = r
    <3>1. CASE rec[q].label # l
      <4>1. rec[q].status = "purchasing"
        BY <1>1, <2>1, <3>1 DEF KnownOrInDoubt
      <4> QED
        BY <1>6, <2>2, <4>1, OpenIsOne DEF Open
    <3> QED
      BY <2>3, <3>1
  <2>5. rec'[r].label = l
    BY <1>2, <1>6
  <2> QED
    BY <1>4, <2>1, <2>4, <2>5
<1>7. CASE rec'[r].label = rec[r].label
  BY <1>3, <1>7
<1>8. CASE \E st \in {"created", "in_transit", "delivered", "cancelling", rec[r].status},
              sc \in BOOLEAN :
             rec'[r] = [rec[r] EXCEPT !.status = st, !.scanned = sc]
  BY <1>2, <1>7, <1>8
<1>9. CASE \E st : rec'[r] = [rec[r] EXCEPT !.status = st]
  BY <1>2, <1>7, <1>9
<1>10. CASE rec'[r] = rec[r]
  BY <1>7, <1>10
<1> QED
  BY <1>1, <1>5, <1>6, <1>8, <1>9, <1>10 DEF RecordMove

\* What a step can make of a record's status, given that the label of one record is never
\* another's: only purchases without a label are given up.
LEMMA RecordStatus ==
  ASSUME LabelsInv, CarrierDedups, Moves, NEW r \in Purchases
  PROVE  /\ rec'[r].status = "purchasing" =>
              rec[r].status = "purchasing" \/ (pc[r] = "reserve" /\ MadeBy(r)' = {})
         /\ rec'[r].status = "failed" => MadeBy(r)' = {}
         /\ rec'[r].status = "cancelled" => labels[rec[r].label].state = "void" /\ rec[r].label # NoLabel
         /\ rec[r].status = "purchasing" /\ rec'[r].label = NoLabel =>
              rec'[r].status \in {"purchasing", "failed"}
<1>1. /\ TypeOK /\ PurchaseOK(r) /\ CronOK /\ RecordMove(r) /\ RecordOK(r)
      /\ OneLabelEach /\ OwnLabel /\ KnownOrInDoubt /\ CronTrue /\ FailedIsUnsold /\ CancelledMeansVoid
      /\ \A c \in Cancels : CancelOK(c)
  BY DEF LabelsInv, BooksInv, Moves, RecordsMove
<1>2. /\ rec[r] \in [status : Statuses, label : LabelIds \cup {NoLabel}, scanned : BOOLEAN]
      /\ \A l \in LabelIds : l # NoLabel /\ labels[l].by \in Purchases
  BY <1>1, LabelIsOne DEF TypeOK
<1>3. ASSUME MadeBy(r) = {}, pc[r] \notin AtCarrier PROVE MadeBy(r)' = {}
  BY <1>3, MadeByKeeps
<1>4. ASSUME rec[r].status = "failed" PROVE MadeBy(r)' = {}
  BY <1>1, <1>3, <1>4 DEF FailedIsUnsold, PurchaseOK, AtCarrier
<1>5. ASSUME rec'[r].status = rec[r].status
      PROVE  /\ rec'[r].status = "failed" => MadeBy(r)' = {}
             /\ rec'[r].status = "cancelled" =>
                  labels[rec[r].label].state = "void" /\ rec[r].label # NoLabel
  BY <1>1, <1>4, <1>5 DEF CancelledMeansVoid
<1>6. CASE rec'[r].status = rec[r].status
  BY <1>5, <1>6
<1>7. CASE pc[r] = "reserve" /\ rec'[r] = [rec[r] EXCEPT !.status = "purchasing"]
  <2>1. MadeBy(r)' = {} /\ rec'[r].status = "purchasing"
    BY <1>1, <1>2, <1>3, <1>7 DEF PurchaseOK, Early, AtCarrier
  <2> QED
    BY <1>7, <2>1
<1>8. CASE /\ rec[r].status = "purchasing"
           /\ pc[r] = "refused" \/ (CronFound(r) /\ (cron.seen = "notfound" \/ Relabelled(r)))
           /\ rec'[r] = [rec[r] EXCEPT !.status = "failed"]
  <2>1. pc[r] \notin AtCarrier
    BY <1>1, <1>8 DEF CronFound, CronOK, AtCarrier
  <2>2. MadeBy(r) = {}
    <3>1. CASE pc[r] = "refused" \/ (CronFound(r) /\ cron.seen = "notfound")
      BY <1>1, <3>1 DEF FailedIsUnsold, CronFound
    <3>2. CASE CronFound(r) /\ cron.seen # "notfound" /\ Relabelled(r)
      <4>1. cron.label # NoLabel /\ cron.task = "purchasing" /\ cron.rec = r
        BY <1>1, <3>2 DEF CronFound, CronOK
      <4>2. PICK q \in Purchases \ {r} : rec[q].label = cron.label
        BY <3>2 DEF Relabelled
      <4>3. labels[cron.label].by = q
        BY <1>1, <4>1, <4>2 DEF OwnLabel
      <4> QED
        BY <1>1, <1>8, <4>1, <4>2, <4>3 DEF CronTrue
    <3> QED
      BY <1>8, <3>1, <3>2
  <2>3. rec'[r].status = "failed"
    BY <1>2, <1>8
  <2> QED
    BY <1>3, <2>1, <2>2, <2>3
<1>9. CASE rec'[r].status = "created" /\ rec'[r].label # NoLabel
  BY <1>9
<1>10. CASE /\ rec[r].label # NoLabel /\ rec'[r].label # NoLabel
            /\ rec'[r].status \in {"created", "in_transit", "delivered", "cancelling", rec[r].status}
  BY <1>5, <1>10
<1>11. CASE /\ rec[r].label # NoLabel
            /\ \/ \E c \in Cancels : cancel[c].pc = "close" /\ cancel[c].label = rec[r].label
               \/ cron.task = "cancelling" /\ cron.rec = r /\ cron.seen = "gone"
            /\ rec'[r] = [rec[r] EXCEPT !.status = "cancelled"]
  <2>1. labels[rec[r].label].state = "void"
    <3>1. CASE \E c \in Cancels : cancel[c].pc = "close" /\ cancel[c].label = rec[r].label
      BY <1>1, <3>1 DEF CancelOK
    <3>2. CASE cron.task = "cancelling" /\ cron.rec = r /\ cron.seen = "gone"
      BY <1>1, <3>2 DEF CronOK, CronTrue
    <3> QED
      BY <1>11, <3>1, <3>2
  <2>2. rec'[r].status = "cancelled" /\ rec'[r].label # NoLabel
    BY <1>2, <1>11
  <2> QED
    BY <1>11, <2>1, <2>2
<1>12. CASE rec'[r] = rec[r]
  BY <1>6, <1>12
<1>13. CASE pc[r] = "note" /\ rec'[r] = [rec[r] EXCEPT !.label = got[r]]
  BY <1>2, <1>6, <1>13
<1>14. CASE /\ rec[r].status = "purchasing" /\ pc[r] = "finalise"
            /\ rec'[r] = [rec[r] EXCEPT !.status = "created"]
  <2>1. rec'[r].status = "created" /\ rec'[r].label # NoLabel
    BY <1>1, <1>2, <1>14 DEF PurchaseOK
  <2> QED
    BY <1>9, <2>1
<1>15. CASE /\ CronFound(r) /\ cron.seen = "found"
            /\ rec'[r] = [rec[r] EXCEPT !.status = "created", !.label = cron.label]
  <2>1. rec'[r].status = "created" /\ rec'[r].label # NoLabel
    BY <1>1, <1>2, <1>15 DEF CronFound, CronOK
  <2> QED
    BY <1>9, <2>1
<1>16. CASE /\ rec[r].label # NoLabel
            /\ \E st \in {"created", "in_transit", "delivered", "cancelling", rec[r].status},
                  sc \in BOOLEAN :
                 rec'[r] = [rec[r] EXCEPT !.status = st, !.scanned = sc]
  BY <1>2, <1>10, <1>16
<1> QED
  BY <1>1, <1>7, <1>8, <1>11, <1>12, <1>13, <1>14, <1>15, <1>16 DEF RecordMove

\* One purchase, one label, and the label is of the purchase's group.
LEMMA OneLabelEachStep ==
  ASSUME LabelsInv, CarrierDedups, Moves
  PROVE  OneLabelEach' /\ OwnLabel'
<1>1. TypeOK /\ OneLabelEach /\ LabelsMove /\ LabelIds' = 1 .. Len(labels')
  BY DEF LabelsInv, BooksInv, Moves, LabelIds
<1>2. /\ \A l \in LabelIds :
           labels'[l].by = labels[l].by /\ labels'[l].group = labels[l].group
      /\ \A l \in LabelIds' \ LabelIds :
           /\ l = Len(labels) + 1 /\ MadeBy(labels'[l].by) = {}
           /\ labels'[l].group = GroupOf[labels'[l].by]
  BY <1>1, LabelsMoved DEF LabelIds
<1> LabelIds \subseteq LabelIds'
  BY <1>1, LabelsMoved DEF LabelIds
<1>3. \A l \in LabelIds' : labels'[l].group = GroupOf[labels'[l].by]
  BY <1>1, <1>2 DEF OneLabelEach
<1>4. ASSUME NEW l \in LabelIds', NEW m \in LabelIds', labels'[l].by = labels'[m].by
      PROVE  l = m
  <2>1. CASE l \in LabelIds /\ m \in LabelIds
    BY <1>1, <1>2, <1>4, <2>1 DEF OneLabelEach
  <2>2. CASE l \notin LabelIds /\ m \notin LabelIds
    BY <1>2, <2>2
  <2>3. CASE l \in LabelIds /\ m \notin LabelIds
    BY <1>2, <1>4, <2>3 DEF MadeBy
  <2>4. CASE l \notin LabelIds /\ m \in LabelIds
    BY <1>2, <1>4, <2>4 DEF MadeBy
  <2> QED
    BY <2>1, <2>2, <2>3, <2>4
<1>5. OwnLabel'
  BY <1>2, RecordLabel DEF OwnLabel
<1> QED
  BY <1>3, <1>4, <1>5 DEF OneLabelEach

\* Every label is on its record or in doubt.
LEMMA KnownOrInDoubtStep ==
  ASSUME LabelsInv, CarrierDedups, Moves
  PROVE  KnownOrInDoubt'
<1>1. /\ TypeOK /\ KnownOrInDoubt /\ LabelsMove /\ LabelIds' = 1 .. Len(labels')
      /\ \A k \in Purchases : PurchaseOK(k)
  BY DEF LabelsInv, BooksInv, Moves, LabelIds
<1>2. SUFFICES ASSUME NEW l \in LabelIds'
               PROVE  \/ rec'[labels'[l].by].label = l
                      \/ /\ rec'[labels'[l].by].label = NoLabel
                         /\ rec'[labels'[l].by].status = "purchasing"
  BY DEF KnownOrInDoubt
<1>q. PICK q \in Purchases : q = labels'[l].by
  <2>1. l \in LabelIds => labels'[l].by = labels[l].by
    BY <1>1, LabelsMoved
  <2>2. l \notin LabelIds => labels'[l].by \in Purchases
    BY <1>1, LabelsMoved
  <2> QED
    BY <1>1, <2>1, <2>2, LabelIsOne
<1>3. CASE l \in LabelIds
  <2>1. q = labels[l].by /\ l # NoLabel /\ MadeBy(q) # {}
    BY <1>1, <1>3, <1>q, LabelsMoved, LabelIsOne DEF MadeBy
  <2>2. CASE rec[q].label = l
    BY <1>q, <2>1, <2>2, RecordLabel
  <2>3. CASE rec[q].label = NoLabel /\ rec[q].status = "purchasing"
    <3>1. rec'[q].label # NoLabel => rec'[q].label = l
      <4>1. rec'[q].label # NoLabel => rec'[q].label \in LabelIds /\ labels[rec'[q].label].by = q
        BY <2>1, RecordLabel
      <4> QED
        BY <1>3, <2>1, <4>1 DEF LabelsInv, OneLabelEach
    <3>2. MadeBy(q)' # {}
      BY <2>1, MadeByKeeps
    <3> QED
      BY <1>q, <2>1, <2>3, <3>1, <3>2, RecordStatus
  <2>4. rec[q].label = l \/ (rec[q].label = NoLabel /\ rec[q].status = "purchasing")
    BY <1>1, <1>3, <2>1 DEF KnownOrInDoubt
  <2> QED
    BY <1>q, <2>2, <2>3, <2>4
<1>4. CASE l \notin LabelIds
  <2>1. pc[q] \in AtCarrier
    BY <1>1, <1>4, <1>q, LabelsMoved
  <2>2. rec[q].status = "purchasing" /\ rec[q].label = NoLabel
    BY <1>1, <2>1 DEF PurchaseOK
  <2>3. RecordMove(q) /\ CronOK
    BY DEF LabelsInv, BooksInv, Moves, RecordsMove
  <2>4. rec'[q] = rec[q]
    BY <2>1, <2>2, <2>3 DEF RecordMove, CronFound, CronOK, AtCarrier, NoLabel
  <2> QED
    BY <1>q, <2>2, <2>4
<1> QED
  BY <1>3, <1>4

\* Nobody buys for the group of a purchase in doubt.
LEMMA DoubtIsLatestStep ==
  ASSUME LabelsInv, CarrierDedups, Moves
  PROVE  DoubtIsLatest'
<1>1. /\ TypeOK /\ DoubtIsLatest /\ LabelsMove /\ LabelIds' = 1 .. Len(labels')
      /\ \A k \in Purchases : PurchaseOK(k)
      /\ Len(labels) \in Nat
  BY LabelsMoved DEF LabelsInv, BooksInv, Moves, LabelIds
<1>2. /\ \A l \in LabelIds :
           labels'[l].by = labels[l].by /\ labels'[l].group = labels[l].group
      /\ \A l \in LabelIds' \ LabelIds :
           /\ l = Len(labels) + 1 /\ MadeBy(labels'[l].by) = {}
           /\ labels'[l].by \in Purchases /\ pc[labels'[l].by] \in AtCarrier
           /\ labels'[l].group = GroupOf[labels'[l].by]
  BY <1>1, LabelsMoved DEF LabelIds
<1>3. SUFFICES ASSUME NEW r \in Purchases, rec'[r].status = "purchasing",
                      NEW m \in MadeBy(r)', NEW l \in OfGroup(GroupOf[r])'
               PROVE  l <= m
  BY DEF DoubtIsLatest
<1>4. rec[r].status = "purchasing"
  BY <1>3, RecordStatus
<1>5. m \in LabelIds' /\ labels'[m].by = r /\ l \in LabelIds' /\ labels'[l].group = GroupOf[r]
  BY <1>3 DEF MadeBy, OfGroup
<1>6. CASE m \notin LabelIds
  BY <1>1, <1>2, <1>5, <1>6 DEF LabelIds
<1>7. CASE m \in LabelIds /\ l \in LabelIds
  <2>1. m \in MadeBy(r) /\ l \in OfGroup(GroupOf[r])
    BY <1>2, <1>5, <1>7 DEF MadeBy, OfGroup
  <2> QED
    BY <1>1, <1>4, <2>1 DEF DoubtIsLatest
<1>8. CASE m \in LabelIds /\ l \notin LabelIds
  <2> DEFINE q == labels'[l].by
  <2>1. q \in Purchases /\ pc[q] \in AtCarrier /\ GroupOf[q] = GroupOf[r] /\ MadeBy(q) = {}
    BY <1>2, <1>5, <1>8
  <2>2. rec[q].status = "purchasing"
    BY <1>1, <2>1 DEF PurchaseOK
  <2> HIDE DEF q
  <2>3. q = r
    BY <1>4, <2>1, <2>2, OpenIsOne DEF Open
  <2>4. m \in MadeBy(r)
    BY <1>2, <1>5, <1>8 DEF MadeBy
  <2> QED
    BY <2>1, <2>3, <2>4
<1> QED
  BY <1>6, <1>7, <1>8

\* A purchase is given up only if it has made no label.
LEMMA FailedIsUnsoldStep ==
  ASSUME LabelsInv, CarrierDedups, Moves
  PROVE  FailedIsUnsold'
<1>1. /\ TypeOK /\ FailedIsUnsold /\ OneLabelEach /\ CronOK
      /\ CronMove /\ \A k \in Purchases : PurchaseMove(k)
  BY DEF LabelsInv, BooksInv, Moves, PurchasesMove
<1>2. SUFFICES ASSUME NEW r \in Purchases
               PROVE  /\ rec'[r].status = "failed" => MadeBy(r)' = {}
                      /\ pc'[r] = "refused" => MadeBy(r)' = {}
                      /\ cron'.task = "purchasing" /\ cron'.rec = r /\ cron'.seen = "notfound" =>
                           MadeBy(r)' = {}
  BY DEF FailedIsUnsold
<1>3. rec'[r].status = "failed" => MadeBy(r)' = {}
  BY RecordStatus
<1>4. labels' = labels => MadeBy(r)' = MadeBy(r)
  BY DEF MadeBy, LabelIds
<1>5. pc'[r] = "refused" => MadeBy(r)' = {}
  <2>1. pc'[r] = "refused" => pc[r] = "refused" \/ (labels' = labels /\ MadeBy(r) = {})
    BY <1>1 DEF PurchaseMove, Early
  <2>2. pc[r] = "refused" => MadeBy(r)' = {}
    BY <1>1, MadeByKeeps DEF FailedIsUnsold, AtCarrier
  <2> QED
    BY <1>4, <2>1, <2>2
<1>6. ASSUME cron'.task = "purchasing", cron'.rec = r, cron'.seen = "notfound"
      PROVE  MadeBy(r)' = {}
  <2>1. CASE cron' = cron
    BY <1>1, <1>6, <2>1, MadeByKeeps DEF FailedIsUnsold, CronOK
  <2>2. cron \in [task : {"none", "purchasing", "cancelling", "poll"},
                  rec : Purchases \cup {"none"}, label : LabelIds \cup {NoLabel}, seen : Seen,
                  status : Statuses, scanned : BOOLEAN]
    BY <1>1 DEF TypeOK
  <2>3. CASE /\ labels' = labels /\ cron.task = "purchasing"
             /\ LET mine == OfGroup(GroupOf[cron.rec])
                    l == IF cron.label # NoLabel THEN cron.label
                         ELSE IF mine = {} THEN NoLabel ELSE Latest(mine)
                IN  cron' = [cron EXCEPT !.seen = IF l = NoLabel THEN "notfound" ELSE "found",
                                         !.label = l]
    <3>1. cron.rec = r /\ OfGroup(GroupOf[r]) = {}
      <4>1. OfGroup(GroupOf[r]) # {} => Latest(OfGroup(GroupOf[r])) # NoLabel
        BY <1>1, LatestIsLast, LabelIsOne DEF OfGroup
      <4> HIDE DEF NoLabel
      <4> QED
        BY <1>6, <2>2, <2>3, <4>1
    <3>2. MadeBy(r) = {}
      BY <1>1, <3>1 DEF MadeBy, OfGroup, OneLabelEach
    <3> QED
      BY <1>4, <2>3, <3>2
  <2> QED
    BY <1>1, <1>6, <2>1, <2>2, <2>3 DEF CronMove, NoWork
<1> QED
  BY <1>3, <1>5, <1>6

\* The cron's document stays true of the record, and a search finds the label in doubt.
LEMMA CronTrueStep ==
  ASSUME LabelsInv, CarrierDedups, Moves
  PROVE  CronTrue'
<1>1. /\ TypeOK /\ CronTrue /\ OneLabelEach /\ OwnLabel /\ DoubtIsLatest /\ CronOK
      /\ CronMove /\ LabelsMove
      /\ \A l \in LabelIds :
           labels'[l].by = labels[l].by /\ labels'[l].group = labels[l].group
  BY LabelsMoved DEF LabelsInv, BooksInv, Moves
<1>2. cron \in [task : {"none", "purchasing", "cancelling", "poll"}, rec : Purchases \cup {"none"},
                label : LabelIds \cup {NoLabel}, seen : Seen, status : Statuses, scanned : BOOLEAN]
  BY <1>1 DEF TypeOK
<1>3. \A g : OfGroup(g) # {} =>
        Latest(OfGroup(g)) \in OfGroup(g) /\ \A l \in OfGroup(g) : l <= Latest(OfGroup(g))
  BY <1>1, LatestIsLast DEF OfGroup
<1>4. CASE cron' = cron
  <2>1. CASE cron.task = "purchasing" /\ cron.label # NoLabel
    <3>1. cron.rec \in Purchases /\ pc[cron.rec] \notin AtCarrier /\ pc[cron.rec] # "reserve"
      BY <1>1, <2>1 DEF CronOK, Early
    <3>2. PICK r \in Purchases : r = cron.rec
      BY <3>1
    <3>3. rec'[r].status = "purchasing" /\ MadeBy(r)' # {} =>
            rec[r].status = "purchasing" /\ MadeBy(r) # {}
      BY <3>1, <3>2, RecordStatus, MadeByKeeps
    <3> QED
      BY <1>1, <1>2, <1>4, <2>1, <3>2, <3>3 DEF CronTrue
  <2>2. CASE cron.task \in {"cancelling", "poll"} /\ cron.label # NoLabel
    <3>1. cron.rec \in Purchases /\ rec[cron.rec].label = cron.label
      BY <1>1, <2>2 DEF CronOK, CronTrue
    <3>2. rec'[cron.rec].label = cron.label
      BY <2>2, <3>1, RecordLabel
    <3> QED
      BY <1>4, <2>2, <3>2 DEF CronTrue
  <2> QED
    BY <1>2, <1>4, <2>1, <2>2 DEF CronTrue
<1>5. CASE cron' = NoWork
  BY <1>5 DEF CronTrue, NoWork
<1>6. ASSUME labels' = labels, rec' = rec, NEW r \in Purchases,
             NEW task \in {"purchasing", "cancelling", "poll"},
             cron' = [task |-> task, rec |-> r, label |-> rec[r].label, seen |-> "none",
                      status |-> rec[r].status, scanned |-> rec[r].scanned]
      PROVE  CronTrue'
  <2>1. rec[r].label # NoLabel =>
          labels[rec[r].label].group = GroupOf[r] /\ labels[rec[r].label].by = r
    BY <1>1 DEF OwnLabel, OneLabelEach, TypeOK
  <2> QED
    BY <1>6, <2>1 DEF CronTrue
<1>7. ASSUME labels' = labels, rec' = rec, cron.task = "purchasing", NEW l,
             l = IF cron.label # NoLabel THEN cron.label
                 ELSE IF OfGroup(GroupOf[cron.rec]) = {} THEN NoLabel
                 ELSE Latest(OfGroup(GroupOf[cron.rec])),
             cron' = [cron EXCEPT !.seen = IF l = NoLabel THEN "notfound" ELSE "found", !.label = l]
      PROVE  CronTrue'
  <2>1. cron'.task = "purchasing" /\ cron'.rec = cron.rec /\ cron'.label = l /\ cron.rec \in Purchases
    BY <1>1, <1>2, <1>7 DEF CronOK
  <2>2. MadeBy(cron.rec)' = MadeBy(cron.rec)
    BY <1>7 DEF MadeBy, LabelIds
  <2>3. CASE cron.label # NoLabel
    BY <1>1, <1>7, <2>1, <2>2, <2>3 DEF CronTrue
  <2>4. CASE cron.label = NoLabel /\ OfGroup(GroupOf[cron.rec]) # {}
    <3>1. l \in OfGroup(GroupOf[cron.rec]) /\ \A m \in OfGroup(GroupOf[cron.rec]) : m <= l
      BY <1>3, <1>7, <2>4
    <3>2. labels[l].group = GroupOf[cron.rec] /\ l \in LabelIds
      BY <3>1 DEF OfGroup
    <3>3. ASSUME rec[cron.rec].status = "purchasing", NEW m \in MadeBy(cron.rec)
          PROVE  labels[l].by = cron.rec
      <4>1. m \in LabelIds /\ labels[m].by = cron.rec /\ m \in OfGroup(GroupOf[cron.rec])
        BY <1>1 DEF MadeBy, OfGroup, OneLabelEach
      <4>2. l <= m
        BY <1>1, <2>1, <3>1, <3>3 DEF DoubtIsLatest
      <4>3. l = m
        BY <3>1, <3>2, <4>1, <4>2 DEF LabelIds
      <4> QED
        BY <4>1, <4>3
    <3> QED
      BY <1>7, <2>1, <2>2, <3>2, <3>3 DEF CronTrue
  <2>5. CASE cron.label = NoLabel /\ OfGroup(GroupOf[cron.rec]) = {}
    BY <1>7, <2>1, <2>5 DEF CronTrue
  <2> QED
    BY <2>3, <2>4, <2>5
<1>8. ASSUME labels' = labels, rec' = rec, NEW seen \in {"gone", "in_transit", "delivered"},
             cron.task \in {"cancelling", "poll"}, cron' = [cron EXCEPT !.seen = seen]
      PROVE  CronTrue'
  BY <1>1, <1>2, <1>8 DEF CronTrue
<1> QED
  BY <1>1, <1>4, <1>5, <1>6, <1>7, <1>8 DEF CronMove

\* Only a label the carrier has voided is cancelled on the books.
LEMMA CancelledStep ==
  ASSUME LabelsInv, CarrierDedups, Moves
  PROVE  CancelledMeansVoid'
<1>1. TypeOK /\ LabelsMove
  BY DEF LabelsInv, BooksInv, Moves
<1>2. ASSUME NEW r \in Purchases, rec'[r].status = "cancelled"
      PROVE  rec'[r].label # NoLabel /\ labels'[rec'[r].label].state = "void"
  <2>1. rec[r].label # NoLabel /\ labels[rec[r].label].state = "void"
    BY <1>2, RecordStatus
  <2>2. rec[r].label \in LabelIds /\ rec'[r].label = rec[r].label
    BY <1>1, <2>1, RecordLabel DEF TypeOK
  <2> QED
    BY <1>1, <2>1, <2>2, LabelsMoved
<1> QED
  BY <1>2 DEF CancelledMeansVoid

\* An answer names the label on a record of that requestId.
LEMMA AnswersStep ==
  ASSUME LabelsInv, CarrierDedups, Moves
  PROVE  AnswersOK'
<1>1. TypeOK /\ AnswersOK /\ OneLabelEach /\ OwnLabel
  BY DEF LabelsInv, BooksInv
<1>2. ASSUME NEW k \in Purchases, answer'[k] = "ok"
      PROVE  /\ pc'[k] = "done"
             /\ got'[k] = NoLabel \/
                \E r \in Purchases : KeyOf[r] = KeyOf[k] /\ rec'[r].label = got'[k]
  <2>1. PurchaseMove(k) /\ PurchaseOK(k)
    BY DEF LabelsInv, BooksInv, Moves, PurchasesMove
  <2>2. CASE pc'[k] = pc[k] /\ got'[k] = got[k] /\ answer'[k] = answer[k]
    <3>1. CASE got[k] = NoLabel
      BY <1>1, <1>2, <2>2, <3>1 DEF AnswersOK
    <3>2. CASE got[k] # NoLabel
      <4>1. PICK r \in Purchases : KeyOf[r] = KeyOf[k] /\ rec[r].label = got[k]
        BY <1>1, <1>2, <2>2, <3>2 DEF AnswersOK
      <4>2. rec'[r].label = got[k]
        BY <3>2, <4>1, RecordLabel
      <4> QED
        BY <1>1, <1>2, <2>2, <4>1, <4>2 DEF AnswersOK
    <3> QED
      BY <3>1, <3>2
  <2>3. CASE pc'[k] = "done" /\ rec' = rec /\ pc[k] = "snapshot" /\ got'[k] = got[k]
    <3>1. /\ got[k] \in LabelIds /\ labels[got[k]].by = k
          /\ rec[k].label \in LabelIds /\ labels[rec[k].label].by = k
      BY <1>1, <2>1, <2>3 DEF PurchaseOK, OwnLabel, TypeOK
    <3>2. rec[k].label = got[k]
      BY <1>1, <3>1 DEF OneLabelEach
    <3> QED
      BY <2>3, <3>2
  <2>4. CASE /\ pc'[k] = "done" /\ rec' = rec
             /\ \E r \in Purchases : KeyOf[r] = KeyOf[k] /\ got'[k] = rec[r].label
    BY <2>4
  <2>5. answer[k] = "ok" => pc[k] = "done"
    BY <1>1 DEF AnswersOK
  <2> QED
    BY <1>2, <2>1, <2>2, <2>3, <2>4, <2>5 DEF PurchaseMove, Early, AtCarrier
<1> QED
  BY <1>2 DEF AnswersOK

LEMMA LabelsStep ==
  ASSUME LabelsInv, CarrierDedups, Moves
  PROVE  LabelsInv'
<1>1. BooksInv'
  BY BooksStep DEF LabelsInv
<1>2. OneLabelEach' /\ OwnLabel' /\ KnownOrInDoubt' /\ DoubtIsLatest'
  BY OneLabelEachStep, KnownOrInDoubtStep, DoubtIsLatestStep
<1>3. FailedIsUnsold' /\ CronTrue' /\ CancelledMeansVoid' /\ AnswersOK'
  BY FailedIsUnsoldStep, CronTrueStep, CancelledStep, AnswersStep
<1> QED
  BY <1>1, <1>2, <1>3 DEF LabelsInv

LEMMA LabelsInit == ASSUME Init PROVE LabelsInv
<1>1. BooksInv
  BY BooksInit
<1>2. LabelIds = {} /\ (\A r \in Purchases : MadeBy(r) = {})
  BY DEF Init, LabelIds, MadeBy
<1>3. OneLabelEach /\ OwnLabel /\ KnownOrInDoubt /\ DoubtIsLatest /\ FailedIsUnsold
  BY <1>2 DEF Init, NoRecord, OneLabelEach, OwnLabel, KnownOrInDoubt, DoubtIsLatest, FailedIsUnsold
<1>4. CronTrue /\ CancelledMeansVoid /\ AnswersOK
  BY DEF Init, NoRecord, NoWork, CronTrue, CancelledMeansVoid, AnswersOK
<1> QED
  BY <1>1, <1>3, <1>4 DEF LabelsInv

LEMMA LabelsKept == ASSUME CarrierDedups PROVE Spec => []LabelsInv
<1>1. Init => LabelsInv
  BY LabelsInit
<1>2. LabelsInv /\ [Next]_vars => LabelsInv'
  BY NextMoves, LabelsStep DEF LabelsInv
<1> QED
  BY <1>1, <1>2, PTL DEF Spec

\* A label that is not void has its record, and the record still counts for both indexes.
LEMMA LiveLabelIsOpen ==
  ASSUME LabelsInv, NEW l \in LabelIds, labels[l].state # "void"
  PROVE  labels[l].by \in Purchases /\ rec[labels[l].by].status \in Open
<1> DEFINE r == labels[l].by
<1>1. TypeOK /\ l # NoLabel /\ r \in Purchases /\ l \in MadeBy(r)
  BY LabelIsOne DEF LabelsInv, BooksInv, MadeBy
<1> HIDE DEF r
<1>2. CASE rec[r].status = "purchasing"
  BY <1>1, <1>2 DEF Open, r
<1>3. CASE rec[r].label = l
  <2>1. rec[r].status # "none" /\ rec[r].status # "failed" /\ rec[r].status # "cancelled"
    BY <1>1, <1>3 DEF LabelsInv, BooksInv, RecordOK, FailedIsUnsold, CancelledMeansVoid
  <2>2. rec[r].status \in Statuses
    BY <1>1 DEF TypeOK
  <2> QED
    BY <1>1, <2>1, <2>2 DEF Statuses, r
<1> QED
  BY <1>2, <1>3 DEF LabelsInv, KnownOrInDoubt, r

\* Two labels of one order that are not void are one label.
LEMMA LabelsAreUsable == ASSUME LabelsInv PROVE OneUsableLabel
<1>1. ASSUME NEW k \in LabelIds, NEW l \in LabelIds, labels[k].group = labels[l].group,
             labels[k].state # "void", labels[l].state # "void"
      PROVE  k = l
  <2>1. /\ GroupOf[labels[k].by] = GroupOf[labels[l].by]
        /\ labels[k].by \in Purchases /\ labels[l].by \in Purchases
        /\ rec[labels[k].by].status \in Open /\ rec[labels[l].by].status \in Open
    BY <1>1, LiveLabelIsOpen DEF LabelsInv, OneLabelEach
  <2>2. labels[k].by = labels[l].by
    BY <2>1, OpenIsOne
  <2> QED
    BY <2>2 DEF LabelsInv, OneLabelEach
<1> QED
  BY <1>1 DEF OneUsableLabel

\* No seller order has two labels that could both be shipped, whatever its purchases,
\* cancellations and the cron do, wherever they die and however often a request is
\* repeated, for any number of them, provided that the carrier answers a repeated request
\* as it did the first.
THEOREM NoSecondLabel == ASSUME CarrierDedups PROVE Spec => []OneUsableLabel
BY LabelsAreUsable, LabelsKept, PTL

\* No label that costs money is lost to the books: its record has it, or is "purchasing"
\* for the cron to look into.
THEOREM NoLabelLost == ASSUME CarrierDedups PROVE Spec => []EveryLabelOnTheBooks
<1>1. LabelsInv => EveryLabelOnTheBooks
  BY LabelIsOne DEF LabelsInv, BooksInv, KnownOrInDoubt, EveryLabelOnTheBooks
<1> QED
  BY <1>1, LabelsKept, PTL

\* "cancelled", which opens the way to a refund, is said only of a label that the carrier
\* has voided, even by a cancellation or a cron that comes back to an old document.
THEOREM CancelledAtCarrier == ASSUME CarrierDedups PROVE Spec => []CancelledMeansVoid
<1>1. LabelsInv => CancelledMeansVoid
  BY DEF LabelsInv
<1> QED
  BY <1>1, LabelsKept, PTL

\* Callers that repeat a requestId are never told of two labels both of which could be
\* shipped.
THEOREM RepeatedRequest == ASSUME CarrierDedups PROVE Spec => []SameKeySameLabel
<1>1. ASSUME LabelsInv PROVE SameKeySameLabel
  <2>1. SUFFICES ASSUME NEW j \in Purchases, NEW k \in Purchases, KeyOf[j] = KeyOf[k],
                        answer[j] = "ok", answer[k] = "ok", got[j] # NoLabel, got[k] # NoLabel,
                        labels[got[j]].state # "void", labels[got[k]].state # "void"
                 PROVE  got[j] = got[k]
    BY DEF SameKeySameLabel
  <2>2. PICK q \in Purchases : KeyOf[q] = KeyOf[j] /\ rec[q].label = got[j]
    BY <1>1, <2>1 DEF LabelsInv, AnswersOK
  <2>3. PICK r \in Purchases : KeyOf[r] = KeyOf[k] /\ rec[r].label = got[k]
    BY <1>1, <2>1 DEF LabelsInv, AnswersOK
  <2>4. /\ got[j] \in LabelIds /\ got[k] \in LabelIds
        /\ labels[got[j]].by = q /\ labels[got[k]].by = r
    BY <1>1, <2>1, <2>2, <2>3 DEF LabelsInv, BooksInv, TypeOK, OwnLabel
  <2>5. rec[q].status \in Open /\ rec[r].status \in Open
    BY <1>1, <2>1, <2>4, LiveLabelIsOpen
  <2>6. q = r
    BY <1>1, <2>1, <2>2, <2>3, <2>5, OpenIsOne
  <2> QED
    BY <2>2, <2>3, <2>6
<1> QED
  BY <1>1, LabelsKept, PTL
=============================================================================
