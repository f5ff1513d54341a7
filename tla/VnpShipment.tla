---------------------------- MODULE VnpShipment ----------------------------
(***************************************************************************)
(* Buying, tracking and cancelling a shipping label: ShippingVnpService    *)
(* against the VNP carrier.  A label lives at the carrier; the books       *)
(* (collection shipments, and a snapshot on the orders of the group) live  *)
(* here.  Each call's awaits are separate steps, and between two of them   *)
(* any other call, the cron or the carrier may move, or the process die.   *)
(*                                                                         *)
(* A purchase call creates at most one shipment record, so a record has    *)
(* the name of its call.  A label stands for its VNP id, its tracking code *)
(* and its PDF, which the carrier hands out together.                      *)
(***************************************************************************)
EXTENDS Integers, Sequences, FiniteSets

CONSTANTS
  Groups,        \* seller orders: one label each, however many items
  Purchases,     \* requests that reach createShipment
  Cancels,       \* requests that reach cancelShipment
  Keys,          \* dto.requestId
  GroupOf,       \* what a purchase is for
  KeyOf,         \* and its idempotency key
  CarrierDedups  \* the carrier answers a repeated request as it did the first

ASSUME PurchasesAssumption ==
  GroupOf \in [Purchases -> Groups] /\ KeyOf \in [Purchases -> Keys]
ASSUME CarrierAssumption == CarrierDedups \in BOOLEAN

VARIABLES
  labels,    \* what exists at the carrier: a label is its position here
  rec,       \* collection shipments
  snapshot,  \* orders.vnpShipment of each group
  pc,        \* where each purchase call is
  blocked,   \* the snapshot it read at the start held an active label
  got,       \* the label it was told about
  answer,    \* what it answered
  cancel,    \* each cancel call, with the record it read
  cron       \* the cron's work on one record, with the document it read

purchaseVars == <<pc, blocked, got, answer>>
vars == <<labels, rec, snapshot, purchaseVars, cancel, cron>>

NoLabel == 0
LabelIds == 1..Len(labels)
Open == {"purchasing", "created", "in_transit", "delivered", "cancelling"}
Cancellable == {"created", "in_transit", "cancelling"}
NoWork == [task |-> "none", rec |-> "none", label |-> NoLabel, seen |-> "none", status |-> "none",
           scanned |-> FALSE]
NoRecord == [status |-> "none", label |-> NoLabel, scanned |-> FALSE]
NewCancel == [pc |-> "idle", rec |-> "none", label |-> NoLabel, was |-> "none"]

Init ==
  /\ labels = <<>>
  /\ rec = [k \in Purchases |-> NoRecord]
  /\ snapshot = [g \in Groups |-> [label |-> NoLabel, cancelled |-> FALSE, scanned |-> FALSE]]
  /\ pc = [k \in Purchases |-> "idle"]
  /\ blocked = [k \in Purchases |-> FALSE]
  /\ got = [k \in Purchases |-> NoLabel]
  /\ answer = [k \in Purchases |-> "none"]
  /\ cancel = [c \in Cancels |-> NewCancel]
  /\ cron = NoWork
-----------------------------------------------------------------------------
(* The books *)

\* unique_vnp_group_active and unique_vnp_purchase_key: partial over the open statuses.
OpenInGroup_NotCancelling(g) ==   \* mutant: the index forgets records being cancelled
  {r \in Purchases : rec[r].status \in Open \ {"cancelling"} /\ GroupOf[r] = g}

OpenInGroup(g) == {r \in Purchases : rec[r].status \in Open /\ GroupOf[r] = g}

OpenWithKey_Fresh(key) ==   \* mutant: the index forgets records that have moved on
  {r \in Purchases : rec[r].status \in {"purchasing", "created"} /\ KeyOf[r] = key}

OpenWithKey(key) == {r \in Purchases : rec[r].status \in Open /\ KeyOf[r] = key}

IndexAllows(r, status) ==
  status \in Open => OpenInGroup(GroupOf[r]) \cup OpenWithKey(KeyOf[r]) \subseteq {r}

SetStatus(r, status) == rec' = [rec EXCEPT ![r].status = status]

\* updateOne({_id, status: {$in: from}}, {status: to}): no match, no write.
SetStatusFrom(r, from, to) ==
  IF rec[r].status \in from THEN SetStatus(r, to) ELSE UNCHANGED rec

\* saveShipmentInfoMany, then $unset cancelledAt: two writes of which the second, or
\* both, may fail without failing the caller.
SaveSnapshot(g, l) ==
  \/ snapshot' = [snapshot EXCEPT ![g].label = l, ![g].cancelled = FALSE]
  \/ snapshot' = [snapshot EXCEPT ![g].label = l]
  \/ UNCHANGED snapshot

\* updateMany over the orders whose snapshot has this label.
MarkOrdersScanned(l) ==
  snapshot' = [g \in Groups |-> [snapshot[g] EXCEPT !.scanned = @ \/ snapshot[g].label = l]]
MarkOrdersCancelled(l) ==
  snapshot' = [g \in Groups |-> [snapshot[g] EXCEPT !.cancelled = @ \/ snapshot[g].label = l]]

-----------------------------------------------------------------------------
(* The carrier *)

NewLabel(k) == Append(labels, [group |-> GroupOf[k], by |-> k, state |-> "printed"])
MadeBy(k) == {l \in LabelIds : labels[l].by = k}
OfGroup(g) == {l \in LabelIds : labels[l].group = g}
Latest(S) == CHOOSE l \in S : \A m \in S : m <= l

\* What tracking/public/track says of a label: an error, no news, or a status text.
\* The scan of a moving label may show up late; a voided label may carry a text.
TrackAnswers(l) ==
  {"error"} \cup CASE labels[l].state = "printed" -> {"nosignal"}
                   [] labels[l].state = "moving" -> {"nosignal", "in_transit"}
                   [] labels[l].state = "delivered" -> {"delivered"}
                   [] OTHER -> {"nosignal", "in_transit"}

\* A parcel can only travel under a label that somebody here knows of.
Scan(l) ==
  /\ labels[l].state \in {"printed", "moving"}
  /\ \E r \in Purchases : rec[r].label = l
  /\ labels' = [labels EXCEPT ![l].state = IF @ = "printed" THEN "moving" ELSE "delivered"]
  /\ UNCHANGED <<rec, snapshot, purchaseVars, cancel, cron>>

-----------------------------------------------------------------------------
(* createShipment *)

Goto(k, where) == pc' = [pc EXCEPT ![k] = where]

Finish(k, what, l) ==
  /\ Goto(k, "done")
  /\ answer' = [answer EXCEPT ![k] = what]
  /\ got' = [got EXCEPT ![k] = l]

Fail(k) == Finish(k, "error", NoLabel)   \* an exception to the caller

\* replayPurchase: the result of the earlier purchase, unless it is still under way.
Replay(k, r) ==
  IF rec[r].status \in {"purchasing", "cancelling"}
  THEN Fail(k)
  ELSE Finish(k, "ok", rec[r].label)

\* loadGroup: the snapshots are read before anything else.
Begin(k) ==
  LET s == snapshot[GroupOf[k]] IN
  /\ pc[k] = "idle"
  /\ blocked' = [blocked EXCEPT ![k] = s.label # NoLabel /\ ~s.cancelled]
  /\ Goto(k, "lookup")
  /\ UNCHANGED <<labels, rec, snapshot, got, answer, cancel, cron>>

\* A purchase with this requestId is on the books; else the snapshot decides.
Lookup(k) ==
  LET prev == OpenWithKey(KeyOf[k]) IN
  /\ pc[k] = "lookup"
  /\ \/ \E r \in prev : Replay(k, r)
     \/ prev = {} /\ blocked[k] /\ Fail(k)
     \/ prev = {} /\ ~blocked[k] /\ Goto(k, "pending") /\ UNCHANGED <<got, answer>>
  /\ blocked' = [blocked EXCEPT ![k] = FALSE]
  /\ UNCHANGED <<labels, rec, snapshot, cancel, cron>>

\* An unfinished purchase of the group blocks another; then the address is made.
Pending(k) ==
  /\ pc[k] = "pending"
  /\ \/ /\ \E r \in OpenInGroup(GroupOf[k]) : rec[r].status = "purchasing"
        /\ Fail(k)
     \/ /\ \A r \in OpenInGroup(GroupOf[k]) : rec[r].status # "purchasing"
        /\ \/ Goto(k, "reserve") /\ UNCHANGED <<got, answer>>
           \/ Fail(k)
  /\ UNCHANGED <<labels, rec, snapshot, blocked, cancel, cron>>

\* (1) The record is on the books before the carrier hears of it.
Reserve(k) ==
  /\ pc[k] = "reserve"
  /\ IndexAllows(k, "purchasing")
  /\ rec' = [rec EXCEPT ![k].status = "purchasing"]
  /\ Goto(k, "buy")
  /\ UNCHANGED <<labels, snapshot, blocked, got, answer, cancel, cron>>

\* E11000.  MongoDB names the first index that refuses, and the group's comes first.
\* The lookup by requestId that follows does not look at the status.
ReserveRefused(k) ==
  LET prev == {r \in Purchases : rec[r].status # "none" /\ KeyOf[r] = KeyOf[k]} IN
  /\ pc[k] = "reserve"
  /\ ~IndexAllows(k, "purchasing")
  /\ IF OpenInGroup(GroupOf[k]) # {}
     THEN Fail(k)
     ELSE \E r \in prev : Replay(k, r)
  /\ UNCHANGED <<labels, rec, snapshot, blocked, cancel, cron>>

\* (2) The request: the carrier prints a label and says so; or refuses; or fails with
\* an error of its own (5xx) or with no answer at all, label or not.  request() repeats
\* it once when there is no answer.
CarrierOk(k) ==
  LET mine == MadeBy(k)
      repeated == CarrierDedups /\ mine # {}
  IN
  /\ pc[k] \in {"buy", "retry"}
  /\ labels' = IF repeated THEN labels ELSE NewLabel(k)
  /\ got' = [got EXCEPT ![k] = IF repeated THEN Latest(mine) ELSE Len(labels) + 1]
  /\ Goto(k, "note")
  /\ UNCHANGED <<rec, snapshot, blocked, answer, cancel, cron>>

CarrierRefuses(k) ==
  /\ pc[k] \in {"buy", "retry"}
  /\ CarrierDedups => MadeBy(k) = {}
  /\ Goto(k, "refused")
  /\ UNCHANGED <<labels, rec, snapshot, blocked, got, answer, cancel, cron>>

CarrierSilent(k) ==
  /\ pc[k] \in {"buy", "retry"}
  /\ labels' \in {labels} \cup (IF CarrierDedups /\ MadeBy(k) # {} THEN {} ELSE {NewLabel(k)})
  /\ \/ pc[k] = "buy" /\ Goto(k, "retry") /\ UNCHANGED <<got, answer>>
     \/ Fail(k)
  /\ UNCHANGED <<rec, snapshot, blocked, cancel, cron>>

\* The carrier said no: nothing was bought.
Refused(k) ==
  /\ pc[k] = "refused"
  /\ SetStatusFrom(k, {"purchasing"}, "failed")
  /\ Fail(k)
  /\ UNCHANGED <<labels, snapshot, blocked, cancel, cron>>

\* (3) The carrier's ids go on the record at once, whatever its status.
Note_Skipped(k) ==   \* mutant: the ids are not written before the record is closed
  /\ pc[k] = "note"
  /\ Goto(k, "finalise")
  /\ UNCHANGED <<labels, rec, snapshot, blocked, got, answer, cancel, cron>>

Note(k) ==
  /\ pc[k] = "note"
  /\ rec' = [rec EXCEPT ![k].label = got[k]]
  /\ Goto(k, "finalise")
  /\ UNCHANGED <<labels, snapshot, blocked, got, answer, cancel, cron>>

\* (4) Only a record that is still "purchasing" becomes "created".
Finalise(k) ==
  /\ pc[k] = "finalise"
  /\ SetStatusFrom(k, {"purchasing"}, "created")
  /\ Goto(k, "snapshot")
  /\ UNCHANGED <<labels, snapshot, blocked, got, answer, cancel, cron>>

\* From here on nothing fails the call.
Snapshot(k) ==
  /\ pc[k] = "snapshot"
  /\ SaveSnapshot(GroupOf[k], got[k])
  /\ Finish(k, "ok", got[k])
  /\ UNCHANGED <<labels, rec, blocked, cancel, cron>>

\* The process dies, or a database call of the purchase fails.  (Before Reserve, and
\* while the carrier is being asked, that is Pending's error and CarrierSilent.)
Die(k) ==
  /\ pc[k] \in {"refused", "note", "finalise", "snapshot"}
  /\ Fail(k)
  /\ UNCHANGED <<labels, rec, snapshot, blocked, cancel, cron>>
-----------------------------------------------------------------------------
(* cancelShipment *)

CGoto(c, where) == cancel' = [cancel EXCEPT ![c].pc = where]
CEnd(c) == cancel' = [cancel EXCEPT ![c] = [NewCancel EXCEPT !.pc = "done"]]

\* The snapshot names the label; its record is read; a known scan refuses outright.
CBegin(c, g) ==
  LET l == snapshot[g].label
      held == {r \in Purchases : rec[r].label = l /\ rec[r].status \in Cancellable}
      known == snapshot[g].scanned \/ \E r \in held : rec[r].scanned
      to(r, was) ==
        cancel' = [cancel EXCEPT ![c] = [pc |-> "track", rec |-> r, label |-> l, was |-> was]]
  IN
  /\ cancel[c].pc = "idle" /\ l # NoLabel
  /\ \/ known /\ CEnd(c)
     \/ ~known /\ \E r \in held : to(r, rec[r].status)
     \/ ~known /\ held = {} /\ to("none", "none")
  /\ UNCHANGED <<labels, rec, snapshot, purchaseVars, cron>>

\* (1) Has the label entered the network?  No answer, or an error, refuses (fail-closed).
CTrack(c) ==
  /\ cancel[c].pc = "track"
  /\ \E a \in TrackAnswers(cancel[c].label) :
       IF a = "error" THEN CEnd(c) ELSE CGoto(c, IF a = "nosignal" THEN "mark" ELSE a)
  /\ UNCHANGED <<labels, rec, snapshot, purchaseVars, cron>>

\* It has: keep the evidence, on the record whatever its status and then on the orders
\* unless the first write failed or the process dies here, and refuse.
CEvidence(c) ==
  LET r == cancel[c].rec
      phase == cancel[c].pc
      status == IF phase = cancel[c].was THEN rec[r].status ELSE phase
      orders == MarkOrdersScanned(cancel[c].label) \/ UNCHANGED snapshot
  IN
  /\ phase \in {"in_transit", "delivered"}
  /\ IF r = "none" THEN orders /\ UNCHANGED rec
     ELSE IF IndexAllows(r, status)
     THEN orders /\ rec' = [rec EXCEPT ![r].status = status, ![r].scanned = TRUE]
     ELSE UNCHANGED <<rec, snapshot>>
  /\ CEnd(c)
  /\ UNCHANGED <<labels, purchaseVars, cron>>

\* (2) "cancelling" until the carrier has confirmed.  The call goes on even if the
\* record was not there to be marked.
CMark(c) ==
  /\ cancel[c].pc = "mark"
  /\ IF cancel[c].rec = "none" THEN UNCHANGED rec
     ELSE SetStatusFrom(cancel[c].rec, Cancellable, "cancelling")
  /\ CGoto(c, "order")
  /\ UNCHANGED <<labels, snapshot, purchaseVars, cron>>

\* (3) The request, repeated once when there is no answer.
Void(l) == labels' = [labels EXCEPT ![l].state = "void"]

CarrierCancels(c) ==
  LET l == cancel[c].label IN
  /\ cancel[c].pc \in {"order", "reorder"}
  /\ labels[l].state # "delivered"
  /\ Void(l)
  /\ CGoto(c, "book")
  /\ UNCHANGED <<rec, snapshot, purchaseVars, cron>>

CarrierWont_Unread(c) ==   \* mutant: looksOk is not asked
  /\ cancel[c].pc \in {"order", "reorder"}
  /\ CGoto(c, "book")
  /\ UNCHANGED <<labels, rec, snapshot, purchaseVars, cron>>

CarrierWont(c) ==
  /\ cancel[c].pc \in {"order", "reorder"}
  /\ CGoto(c, "revert")
  /\ UNCHANGED <<labels, rec, snapshot, purchaseVars, cron>>

CarrierCancelSilent(c) ==
  LET l == cancel[c].label IN
  /\ cancel[c].pc \in {"order", "reorder"}
  /\ UNCHANGED labels \/ (labels[l].state # "delivered" /\ Void(l))
  /\ CEnd(c) \/ (cancel[c].pc = "order" /\ CGoto(c, "reorder"))
  /\ UNCHANGED <<rec, snapshot, purchaseVars, cron>>

\* The carrier refused: back to the status the record was read with.
CRevert(c) ==
  /\ cancel[c].pc = "revert"
  /\ IF cancel[c].rec = "none" THEN UNCHANGED rec
     ELSE SetStatusFrom(cancel[c].rec, {"cancelling"},
                        IF cancel[c].was = "in_transit" THEN "in_transit" ELSE "created")
  /\ CEnd(c)
  /\ UNCHANGED <<labels, snapshot, purchaseVars, cron>>

\* (4) The carrier confirmed: the orders first, then the record.
CBook(c) ==
  /\ cancel[c].pc = "book"
  /\ MarkOrdersCancelled(cancel[c].label)
  /\ CGoto(c, "close")
  /\ UNCHANGED <<labels, rec, purchaseVars, cron>>

CClose(c) ==
  /\ cancel[c].pc = "close"
  /\ rec' = [r \in Purchases |->
       IF rec[r].label = cancel[c].label /\ rec[r].status \in Cancellable
       THEN [rec[r] EXCEPT !.status = "cancelled"] ELSE rec[r]]
  /\ CEnd(c)
  /\ UNCHANGED <<labels, snapshot, purchaseVars, cron>>

CDie(c) ==
  /\ cancel[c].pc \in {"in_transit", "delivered", "mark", "revert", "book", "close"}
  /\ CEnd(c)
  /\ UNCHANGED <<labels, rec, snapshot, purchaseVars, cron>>

-----------------------------------------------------------------------------
(* getTracking, as one step: what it writes depends on the carrier's answer and on
   records that are created or in transit at that moment.  The orders are written
   first, and the process may die there. *)
Track(g) ==
  LET l == snapshot[g].label
      active == {r \in Purchases : rec[r].label = l /\ rec[r].status \in {"created", "in_transit"}}
  IN
  /\ l # NoLabel
  /\ \E a \in TrackAnswers(l) \ {"error", "nosignal"} :
       \/ rec' = [r \in Purchases |->
            IF r \in active THEN [rec[r] EXCEPT !.status = a, !.scanned = TRUE] ELSE rec[r]]
       \/ UNCHANGED rec
  /\ IF \E r \in active : rec[r].scanned THEN UNCHANGED snapshot ELSE MarkOrdersScanned(l)
  /\ UNCHANGED <<labels, purchaseVars, cancel, cron>>
-----------------------------------------------------------------------------
(* pollTrackingCron, one record at a time: read the record, ask the carrier, write.
   An in-flight flag keeps a second run out; the process may die at any moment. *)

CronTake(task, r) ==
  /\ cron.task = "none"
  /\ cron' = [task |-> task, rec |-> r, label |-> rec[r].label, seen |-> "none",
              status |-> rec[r].status, scanned |-> rec[r].scanned]
  /\ UNCHANGED <<labels, rec, snapshot, purchaseVars, cancel>>

CronLearn(seen, l) == cron' = [cron EXCEPT !.seen = seen, !.label = l]

CronAbandon ==
  /\ cron.task # "none"
  /\ cron' = NoWork
  /\ UNCHANGED <<labels, rec, snapshot, purchaseVars, cancel>>

\* reconcilePurchasing.  RECONCILE_MIN_AGE_MS (15 minutes) outlasts every request to
\* the carrier (30 s, repeated once), not every wait for the database.
TakePurchasing(r) ==
  /\ rec[r].status = "purchasing"
  /\ pc[r] \notin {"buy", "retry"}
  /\ CronTake("purchasing", r)

\* By the id of step (3) if it is there, else by productionId: the latest of the group.
Probe(out) ==
  LET mine == OfGroup(GroupOf[cron.rec])
      l == IF cron.label # NoLabel THEN cron.label
           ELSE IF mine = {} THEN NoLabel ELSE Latest(mine)
  IN
  /\ cron.task = "purchasing" /\ cron.seen = "none"
  /\ \/ out = "unknown" /\ cron' = NoWork
     \/ out = "answered" /\ CronLearn(IF l = NoLabel THEN "notfound" ELSE "found", l)
  /\ UNCHANGED <<labels, rec, snapshot, purchaseVars, cancel>>

SettlePurchasing_StayOpen ==   \* mutant: "not found" is taken for "could not ask"
  LET r == cron.rec
      owned == \E q \in Purchases \ {r} : rec[q].label = cron.label
  IN
  /\ cron.task = "purchasing" /\ cron.seen \in {"found", "notfound"}
  /\ IF cron.seen = "found" /\ rec[r].status = "purchasing" /\ ~owned
     THEN /\ rec' = [rec EXCEPT ![r].status = "created", ![r].label = cron.label]
          /\ SaveSnapshot(GroupOf[r], cron.label)
     ELSE UNCHANGED <<rec, snapshot>>
  /\ cron' = NoWork
  /\ UNCHANGED <<labels, purchaseVars, cancel>>

\* A label that another record holds was bought earlier: this purchase made none.
SettlePurchasing ==
  LET r == cron.rec
      owned == \E q \in Purchases \ {r} : rec[q].label = cron.label
  IN
  /\ cron.task = "purchasing" /\ cron.seen \in {"found", "notfound"}
  /\ IF cron.seen = "found" /\ rec[r].status = "purchasing" /\ ~owned
     THEN /\ rec' = [rec EXCEPT ![r].status = "created", ![r].label = cron.label]
          /\ SaveSnapshot(GroupOf[r], cron.label)
     ELSE SetStatusFrom(r, {"purchasing"}, "failed") /\ UNCHANGED snapshot
  /\ cron' = NoWork
  /\ UNCHANGED <<labels, purchaseVars, cancel>>

\* reconcileCancelling, on records whose cancelRequestedAt is 15 minutes old.
TakeCancelling(r) ==
  /\ rec[r].status = "cancelling"
  /\ \A c \in Cancels : cancel[c].rec = r => cancel[c].pc \notin {"order", "reorder"}
  /\ CronTake("cancelling", r)

\* A label that is gone (404 or a cancelled text) closes the book; one that moves was
\* not cancelled; anything else is left as it is.
AskCancelling(out) ==
  LET l == cron.label IN
  /\ cron.task = "cancelling" /\ cron.seen = "none"
  /\ \/ out = "unknown" /\ cron' = NoWork
     \/ out = "gone" /\ labels[l].state = "void" /\ CronLearn("gone", l)
     \/ out \in TrackAnswers(l) \ {"error", "nosignal"} /\ CronLearn(out, l)
  /\ UNCHANGED <<labels, rec, snapshot, purchaseVars, cancel>>

\* The record first, then the orders unless the process dies between the two.
SettleCancelling ==
  LET r == cron.rec IN
  /\ cron.task = "cancelling" /\ cron.seen # "none"
  /\ \/ /\ cron.seen = "gone"
        /\ SetStatusFrom(r, {"cancelling"}, "cancelled")
        /\ MarkOrdersCancelled(cron.label) \/ UNCHANGED snapshot
     \/ /\ cron.seen # "gone"
        /\ rec' = IF rec[r].status = "cancelling"
                  THEN [rec EXCEPT ![r].status = cron.seen, ![r].scanned = TRUE] ELSE rec
        /\ UNCHANGED snapshot
  /\ cron' = NoWork
  /\ UNCHANGED <<labels, purchaseVars, cancel>>

\* The poll itself.
TakePoll(r) ==
  /\ rec[r].status \in {"created", "in_transit"} /\ rec[r].label # NoLabel
  /\ CronTake("poll", r)

AskPoll(out) ==
  /\ cron.task = "poll" /\ cron.seen = "none"
  /\ out \in TrackAnswers(cron.label)
  /\ IF out \in {"error", "nosignal"} THEN cron' = NoWork ELSE CronLearn(out, cron.label)
  /\ UNCHANGED <<labels, rec, snapshot, purchaseVars, cancel>>

\* updateOne by _id alone: the status of the answer, if it is not the one read, goes
\* onto the record whatever its status is by now; then the orders, if this is the first
\* scan and the process is still alive.
SettlePoll ==
  LET r == cron.rec
      status == IF cron.seen = cron.status THEN rec[r].status ELSE cron.seen
  IN
  /\ cron.task = "poll" /\ cron.seen # "none"
  /\ IF IndexAllows(r, status)
     THEN /\ rec' = [rec EXCEPT ![r].status = status, ![r].scanned = TRUE]
          /\ UNCHANGED snapshot \/ (~cron.scanned /\ MarkOrdersScanned(cron.label))
     ELSE UNCHANGED <<rec, snapshot>>
  /\ cron' = NoWork
  /\ UNCHANGED <<labels, purchaseVars, cancel>>

-----------------------------------------------------------------------------
CallStep(k) ==
  \/ Begin(k) \/ Lookup(k) \/ Pending(k) \/ Reserve(k) \/ ReserveRefused(k)
  \/ CarrierOk(k) \/ CarrierRefuses(k) \/ CarrierSilent(k)
  \/ Refused(k) \/ Note(k) \/ Finalise(k) \/ Snapshot(k)

CancelStep(c) ==
  \/ \E g \in Groups : CBegin(c, g)
  \/ CTrack(c) \/ CEvidence(c) \/ CMark(c)
  \/ CarrierCancels(c) \/ CarrierWont(c) \/ CarrierCancelSilent(c)
  \/ CRevert(c) \/ CBook(c) \/ CClose(c) \/ CDie(c)

CronTakes(r) == TakePurchasing(r) \/ TakeCancelling(r) \/ TakePoll(r)

CronWork ==
  \/ \E out \in {"answered", "unknown"} : Probe(out)
  \/ \E out \in {"unknown", "gone", "in_transit", "delivered"} : AskCancelling(out)
  \/ \E out \in {"error", "nosignal", "in_transit", "delivered"} : AskPoll(out)
  \/ SettlePurchasing \/ SettleCancelling \/ SettlePoll

Next ==
  \/ \E k \in Purchases : CallStep(k) \/ Die(k)
  \/ \E c \in Cancels : CancelStep(c)
  \/ \E r \in Purchases : CronTakes(r)
  \/ CronWork \/ CronAbandon
  \/ \E g \in Groups : Track(g)
  \/ \E l \in LabelIds : Scan(l)

\* Nobody has to call; a call that is made ends, because every request has a time limit;
\* the cron comes round again and again, and is not forever unable to ask the carrier or
\* to write its answer.
Fairness ==
  /\ \A k \in Purchases : WF_vars(pc[k] # "idle" /\ (CallStep(k) \/ Die(k)))
  /\ \A r \in Purchases : SF_vars(TakePurchasing(r))
  /\ SF_vars(Probe("answered"))
  /\ SF_vars(SettlePurchasing)
  /\ WF_vars(CronWork)

Spec == Init /\ [][Next]_vars
FairSpec == Spec /\ Fairness
-----------------------------------------------------------------------------
(* What is checked *)

PurchasePCs == {"idle", "lookup", "pending", "reserve", "buy", "retry", "refused", "note",
                "finalise", "snapshot", "done"}
CancelPCs == {"idle", "track", "in_transit", "delivered", "mark", "order", "reorder",
              "revert", "book", "close", "done"}
Seen == {"none", "found", "notfound", "gone", "in_transit", "delivered"}
Statuses == Open \cup {"none", "failed", "cancelled"}

\* The type invariant; the records in it obey both unique indexes.
TypeOK ==
  /\ labels \in Seq([group: Groups, by: Purchases, state: {"printed", "moving", "delivered", "void"}])
  /\ rec \in [Purchases -> [status: Statuses, label: LabelIds \cup {NoLabel}, scanned: BOOLEAN]]
  /\ \A r \in Purchases : IndexAllows(r, rec[r].status)
  /\ snapshot \in [Groups -> [label: LabelIds \cup {NoLabel}, cancelled: BOOLEAN, scanned: BOOLEAN]]
  /\ pc \in [Purchases -> PurchasePCs]
  /\ blocked \in [Purchases -> BOOLEAN]
  /\ got \in [Purchases -> LabelIds \cup {NoLabel}]
  /\ answer \in [Purchases -> {"none", "ok", "error"}]
  /\ cancel \in [Cancels -> [pc: CancelPCs, rec: Purchases \cup {"none"},
                             label: LabelIds \cup {NoLabel}, was: Statuses]]
  /\ cron \in [task: {"none", "purchasing", "cancelling", "poll"}, rec: Purchases \cup {"none"},
               label: LabelIds \cup {NoLabel}, seen: Seen, status: Statuses, scanned: BOOLEAN]

\* No seller order has two labels that could both be shipped, however its purchases,
\* cancellations and the cron interleave, fail half-way or are repeated.
OneUsableLabel ==
  \A k, l \in LabelIds :
    labels[k].group = labels[l].group /\ labels[k].state # "void" /\ labels[l].state # "void"
    => k = l

\* No label that costs money is lost: it is on a record, or the record of the purchase
\* that made it is still "purchasing", for the cron to look into.
EveryLabelOnTheBooks ==
  \A l \in LabelIds :
    labels[l].state # "void" =>
      \/ \E r \in Purchases : rec[r].label = l
      \/ rec[labels[l].by].status = "purchasing"

\* A record says "cancelled", which is what opens the way to a refund, only of a label
\* that the carrier has voided.
CancelledMeansVoid ==
  \A r \in Purchases :
    rec[r].status = "cancelled" => rec[r].label # NoLabel /\ labels[rec[r].label].state = "void"

\* Callers that repeat a requestId are never told of two labels both of which could
\* be shipped.
SameKeySameLabel ==
  \A j, k \in Purchases :
    KeyOf[j] = KeyOf[k] /\ answer[j] = "ok" /\ answer[k] = "ok" /\ got[j] # got[k] =>
      \E l \in {got[j], got[k]} : l = NoLabel \/ labels[l].state = "void"

\* Once a record is cancelled its status no longer follows the carrier.
CancelledIsFinal ==
  [][\A r \in Purchases : rec[r].status = "cancelled" => rec'[r].status = "cancelled"]_vars

\* A record does not stay "purchasing" for ever.
PurchasingResolves ==
  \A r \in Purchases : rec[r].status = "purchasing" ~> rec[r].status # "purchasing"
=============================================================================
