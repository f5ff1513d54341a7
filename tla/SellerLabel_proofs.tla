-------------------------- MODULE SellerLabel_proofs --------------------------
(***************************************************************************)
(* What a seller who buys a label is guaranteed: that the wallet paid for  *)
(* it first, and that money taken bought a label or went back              *)
(***************************************************************************)
EXTENDS SellerLabel, VnpShipment_proofs

-----------------------------------------------------------------------------
(* The inductive invariant *)

WalletOK ==
  /\ ledger \in [{Seller} -> Seq(W!Row)]
  /\ creditLimit = [c \in {Seller} |-> 0] /\ limitTrail = [c \in {Seller} |-> <<>>]

\* The seller's call and the purchase in it: the one begins inside the other and is
\* answered before money goes back; what was sold was answered.
BuyerOK(k) ==
  /\ bpc[k] \in {"idle", "debit"} => pc[k] = "idle"
  /\ bpc[k] = "refund" => pc[k] = "done"
  /\ answer[k] # "none" => pc[k] = "done"
  /\ k \in sold => answer[k] = "ok"

\* A purchase is under way only for a requestId that has paid.
PaidFirst(k) == bpc[k] \in {"buying", "refund"} \/ pc[k] # "idle" => Charged(KeyOf[k])

\* The call has gone past the wallet, or died before it could say so.
PastWallet(k) == bpc[k] \in {"buying", "refund", "lost"} \/ (bpc[k] = "done" /\ pc[k] # "idle")

\* Money is taken by a call that is past the wallet; such a call ends with a sale or with
\* the money sent back.
MoneyOK(k) ==
  /\ Charged(KeyOf[k]) => \E j \in Purchases : KeyOf[j] = KeyOf[k] /\ PastWallet(j)
  /\ bpc[k] = "done" /\ pc[k] # "idle" => k \in sold \/ Refunded(KeyOf[k])

\* A call that reserved a record and was not refused is told of its own label; one that is
\* told of no label replays a record that another call reserved and lost.
AnswerOK(k) ==
  answer[k] = "ok" /\ got[k] = NoLabel =>
    /\ rec[k].status = "none"
    /\ \E r \in Purchases : KeyOf[r] = KeyOf[k] /\ rec[r].status # "none"

SellerInv ==
  /\ BooksInv
  /\ STypeOK
  /\ \A k \in Purchases : BuyerOK(k) /\ PaidFirst(k) /\ MoneyOK(k) /\ AnswerOK(k)

-----------------------------------------------------------------------------
(* What one step can do *)

Marked(k) == k \in sold

\* The life of a seller's call.
BuyerMove(k) ==
  \/ bpc'[k] = bpc[k] /\ Marked(k)' = Marked(k) /\ (pc'[k] = pc[k] \/ bpc[k] = "buying")
  \/ /\ pc'[k] = pc[k] /\ Marked(k)' = Marked(k)
     /\ \/ bpc[k] = "idle" /\ bpc'[k] \in {"debit", "done"}
        \/ bpc[k] = "debit" /\ bpc'[k] = "buying" /\ Charged(KeyOf[k])'
        \/ bpc[k] = "debit" /\ bpc'[k] \in {"done", "lost"}
        \/ bpc[k] = "buying" /\ bpc'[k] = "refund" /\ answer[k] # "none"
        \/ bpc[k] = "refund" /\ bpc'[k] = "done" /\ Refunded(KeyOf[k])'
  \/ pc'[k] = pc[k] /\ bpc[k] = "buying" /\ bpc'[k] = "done" /\ answer[k] = "ok" /\ Marked(k)'
  \/ bpc[k] \in {"buying", "refund"} /\ bpc'[k] = "lost" /\ Marked(k)' = Marked(k)

\* The ledger only grows; a charge is the debit of a call that goes on, or dies of it.
MoneyMove ==
  /\ WalletOK'
  /\ \A key \in Keys : /\ Charged(key) => Charged(key)'
                       /\ Refunded(key) => Refunded(key)'
                       /\ Charged(key)' /\ ~Charged(key) =>
                            \E j \in Purchases :
                              KeyOf[j] = key /\ bpc[j] = "debit" /\ bpc'[j] \in {"buying", "lost"}

SellerMoves ==
  /\ Moves
  /\ MoneyMove
  /\ bpc' = [k \in Purchases |-> bpc'[k]]
  /\ sold' \subseteq Purchases /\ stamped' \subseteq Purchases
  /\ \A k \in Purchases : BuyerMove(k)

\* A posting adds its row, and with it the charge or the refund of its requestId alone.
LEMMA PostAdds ==
  ASSUME WalletOK, NEW kind \in {"topup", "label", "label_refund"}, NEW key \in Keys \cup {"topup"},
         NEW amount \in Int, W!Post(WalletOp(kind, key, amount))
  PROVE  /\ WalletOK'
         /\ \A q \in Keys : /\ Charged(q)' <=> Charged(q) \/ (kind = "label" /\ q = key)
                            /\ Refunded(q)' <=> Refunded(q) \/ (kind = "label_refund" /\ q = key)
<1> DEFINE o == WalletOp(kind, key, amount)
           row == W!NewRow(o, W!BalanceOf(Seller))
           old == ledger[Seller]
<1>1. old \in Seq(W!Row) /\ Len(old) \in Nat
  BY LenProperties DEF WalletOK
<1>2. W!BalanceOf(Seller) \in Int
  <2>1. old # <<>> => old[Len(old)] \in W!Row
    BY <1>1, EmptySeq, ElementOfSeq
  <2> QED
    BY <2>1 DEF W!BalanceOf, W!Row
<1>3. row \in W!Row /\ row.kind = kind /\ row.req = key
  BY <1>2 DEF W!NewRow, W!Row, WalletOp
<1>4. ledger' = [ledger EXCEPT ![Seller] = Append(old, row)] /\ UNCHANGED <<creditLimit, limitTrail>>
  BY DEF W!Post, WalletOp
<1> HIDE DEF row
<1>5. ledger' \in [{Seller} -> Seq(W!Row)] /\ ledger'[Seller] = Append(old, row)
  BY <1>1, <1>3, <1>4, AppendProperties DEF WalletOK
<1>6. WalletOK'
  BY <1>4, <1>5 DEF WalletOK, W!Row
<1>7. /\ Len(Append(old, row)) = Len(old) + 1
      /\ \A i \in 1 .. Len(old) : Append(old, row)[i] = old[i]
      /\ Append(old, row)[Len(old) + 1] = row
  BY <1>1, <1>3, AppendProperties
<1>8. Rows' = Rows \cup {row}
  BY <1>1, <1>5, <1>7 DEF Rows
<1> QED
  BY <1>3, <1>6, <1>8 DEF Charged, Refunded

\* The wallet is untouched.
LEMMA MoneyStays ==
  ASSUME STypeOK, UNCHANGED wallet
  PROVE  MoneyMove /\ \A q \in Keys : Charged(q)' = Charged(q) /\ Refunded(q)' = Refunded(q)
<1>1. WalletOK'
  BY DEF STypeOK, wallet, WalletOK
<1>2. Rows' = Rows
  BY DEF Rows, wallet
<1> QED
  BY <1>1, <1>2 DEF MoneyMove, Charged, Refunded

\* Only call k has moved.
LEMMA OneBuyerMoves ==
  ASSUME STypeOK, Moves, MoneyMove, NEW k \in Purchases, NEW where, BGoto(k, where), BuyerMove(k),
         sold' \in {sold, sold \cup {k}}, stamped' \subseteq Purchases,
         \A j \in Purchases \ {k} : pc'[j] = pc[j]
  PROVE  SellerMoves
<1>1. \A j \in Purchases \ {k} : bpc'[j] = bpc[j] /\ Marked(j)' = Marked(j)
  BY DEF STypeOK, BGoto, Marked
<1>2. bpc' = [j \in Purchases |-> bpc'[j]]
  BY DEF STypeOK, BGoto
<1>3. \A j \in Purchases : BuyerMove(j)
  BY <1>1 DEF BuyerMove
<1> QED
  BY <1>2, <1>3 DEF SellerMoves, STypeOK

\* No call of this seller has moved, nor has the wallet.
LEMMA OthersMove ==
  ASSUME STypeOK, Moves, UNCHANGED <<sellerVars, pc>>
  PROVE  SellerMoves
<1>1. \A k \in Purchases : BuyerMove(k)
  BY DEF BuyerMove, sellerVars, Marked
<1>2. MoneyMove
  BY MoneyStays DEF sellerVars
<1> QED
  BY <1>1, <1>2 DEF SellerMoves, STypeOK, sellerVars

\* What a debit, and what a refund, does to the wallet.
LEMMA DebitAdds ==
  ASSUME STypeOK, NEW k \in Purchases, W!Post(DebitOp(k))
  PROVE  /\ WalletOK' /\ Charged(KeyOf[k])'
         /\ \A q \in Keys : /\ Charged(q)' <=> Charged(q) \/ q = KeyOf[k]
                            /\ Refunded(q)' <=> Refunded(q)
BY PostAdds, PurchasesAssumption, PriceAssumption DEF DebitOp, STypeOK, WalletOK

LEMMA RefundAdds ==
  ASSUME STypeOK, NEW k \in Purchases, W!Post(RefundOp(k))
  PROVE  /\ MoneyMove /\ Refunded(KeyOf[k])'
<1>1. /\ WalletOK' /\ Refunded(KeyOf[k])'
      /\ \A q \in Keys : /\ Charged(q)' <=> Charged(q)
                         /\ Refunded(q)' <=> Refunded(q) \/ q = KeyOf[k]
  BY PostAdds, PurchasesAssumption, PriceAssumption DEF RefundOp, STypeOK, WalletOK
<1> QED
  BY <1>1 DEF MoneyMove

\* A row of this operation's kind and requestId is a charge, or a refund.
LEMMA PostedMeans ==
  ASSUME NEW k \in Purchases
  PROVE  /\ W!Posted(DebitOp(k)) <=> Charged(KeyOf[k])
         /\ W!Posted(RefundOp(k)) <=> Refunded(KeyOf[k])
BY DEF W!Posted, DebitOp, RefundOp, WalletOp, Charged, Refunded, Rows

\* A call of the seller's, step by step.
LEMMA BuyerMoves ==
  ASSUME SellerInv, NEW k \in Purchases,
         Quote(k) \/ Debit(k) \/ Buy(k) \/ Stamp(k) \/ BuyFails(k) \/ Refund(k) \/ WalletFails(k)
           \/ Crash(k)
  PROVE  SellerMoves
<1>1. STypeOK /\ BooksInv /\ TypeOK /\ BuyerOK(k)
  BY DEF SellerInv, BooksInv
<1>2. UNCHANGED vars => Moves /\ \A j \in Purchases : pc'[j] = pc[j]
  BY <1>1, NextMoves DEF vars, purchaseVars
<1>3. \A where : BGoto(k, where) => bpc'[k] = where
  BY <1>1 DEF STypeOK, BGoto
<1>4. CASE Quote(k)
  <2>1. PICK where \in {"debit", "done"} : BGoto(k, where)
    BY <1>4 DEF Quote
  <2>2. BuyerMove(k)
    BY <1>2, <1>3, <1>4, <2>1 DEF Quote, BuyerMove, Marked
  <2> QED
    BY <1>1, <1>2, <1>4, <2>1, <2>2, MoneyStays, OneBuyerMoves DEF Quote, STypeOK
<1>5. CASE Debit(k)
  <2>1. Moves /\ (\A j \in Purchases : pc'[j] = pc[j]) /\ UNCHANGED <<sold, stamped>> /\ bpc[k] = "debit"
    BY <1>2, <1>5 DEF Debit
  <2>2. CASE W!Posted(DebitOp(k)) /\ BGoto(k, "buying") /\ UNCHANGED wallet
    <3>1. MoneyMove /\ Charged(KeyOf[k])'
      BY <1>1, <2>2, MoneyStays, PostedMeans, PurchasesAssumption
    <3>2. BuyerMove(k)
      BY <1>3, <2>1, <2>2, <3>1 DEF BuyerMove, Marked
    <3> QED
      BY <1>1, <2>1, <2>2, <3>1, <3>2, OneBuyerMoves DEF STypeOK
  <2>3. CASE BGoto(k, "done") /\ UNCHANGED wallet
    <3>1. MoneyMove
      BY <1>1, <2>3, MoneyStays
    <3>2. BuyerMove(k)
      BY <1>3, <2>1, <2>3 DEF BuyerMove, Marked
    <3> QED
      BY <1>1, <2>1, <2>3, <3>1, <3>2, OneBuyerMoves DEF STypeOK
  <2>4. CASE W!Post(DebitOp(k)) /\ BGoto(k, "buying")
    <3>1. MoneyMove /\ Charged(KeyOf[k])'
      BY <1>1, <1>3, <2>1, <2>4, DebitAdds DEF MoneyMove
    <3>2. BuyerMove(k)
      BY <1>3, <2>1, <2>4, <3>1 DEF BuyerMove, Marked
    <3> QED
      BY <1>1, <2>1, <2>4, <3>1, <3>2, OneBuyerMoves DEF STypeOK
  <2> QED
    BY <1>5, <2>2, <2>3, <2>4 DEF Debit
<1>6. CASE Buy(k)
  <2>1. Moves
    BY <1>1, <1>6, CallMoves DEF Buy
  <2>2. \A j \in Purchases \ {k} : pc'[j] = pc[j]
    BY <1>1, <1>6 DEF Buy, CallStep, Begin, Lookup, Pending, Reserve, ReserveRefused, CarrierOk,
       CarrierRefuses, CarrierSilent, Refused, Note, Finalise, Snapshot, Die, Replay, Fail, Finish,
       Goto, TypeOK
  <2>3. BuyerMove(k) /\ BGoto(k, bpc[k]) /\ UNCHANGED <<wallet, sold, stamped>>
    BY <1>1, <1>6 DEF Buy, BuyerMove, BGoto, STypeOK, sellerVars, Marked
  <2> QED
    BY <1>1, <2>1, <2>2, <2>3, MoneyStays, OneBuyerMoves DEF STypeOK
<1>7. CASE Stamp(k)
  <2>1. stamped' \subseteq Purchases /\ sold' = sold \cup {k} /\ BGoto(k, "done")
    BY <1>1, <1>7 DEF Stamp, STypeOK
  <2>2. BuyerMove(k)
    BY <1>2, <1>3, <1>7, <2>1 DEF Stamp, BuyerMove, Marked
  <2> QED
    BY <1>1, <1>2, <1>7, <2>1, <2>2, MoneyStays, OneBuyerMoves DEF Stamp
<1>8. CASE BuyFails(k)
  <2>1. BuyerMove(k)
    BY <1>2, <1>3, <1>8 DEF BuyFails, BuyerMove, Marked
  <2> QED
    BY <1>1, <1>2, <1>8, <2>1, MoneyStays, OneBuyerMoves DEF BuyFails, STypeOK
<1>9. CASE Refund(k)
  <2>1. MoneyMove /\ Refunded(KeyOf[k])'
    BY <1>1, <1>9, MoneyStays, RefundAdds, PostedMeans, PurchasesAssumption DEF Refund
  <2>2. BuyerMove(k)
    BY <1>2, <1>3, <1>9, <2>1 DEF Refund, BuyerMove, Marked
  <2> QED
    BY <1>1, <1>2, <1>9, <2>1, <2>2, OneBuyerMoves DEF Refund, STypeOK
<1>10. CASE WalletFails(k)
  <2>1. BGoto(k, "lost") /\ bpc'[k] = "lost" /\ UNCHANGED <<vars, sold, stamped>>
    BY <1>3, <1>10 DEF WalletFails
  <2>2. BuyerMove(k)
    BY <1>2, <1>10, <2>1 DEF WalletFails, BuyerMove, Marked
  <2>3. MoneyMove
    <3>1. CASE UNCHANGED wallet
      BY <1>1, <3>1, MoneyStays
    <3>2. CASE bpc[k] = "debit" /\ W!Post(DebitOp(k))
      BY <1>1, <2>1, <3>2, DebitAdds DEF MoneyMove
    <3>3. CASE bpc[k] # "debit" /\ W!Post(RefundOp(k))
      BY <1>1, <3>3, RefundAdds
    <3> QED
      BY <1>10, <3>1, <3>2, <3>3 DEF WalletFails
  <2> QED
    BY <1>1, <1>2, <2>1, <2>2, <2>3, OneBuyerMoves DEF STypeOK
<1>11. CASE Crash(k)
  <2>1. /\ BGoto(k, "lost") /\ bpc'[k] = "lost" /\ bpc[k] = "buying"
        /\ UNCHANGED <<labels, rec, snapshot, blocked, cancel, cron, wallet, sold, stamped>>
    BY <1>3, <1>11 DEF Crash
  <2>2. PurchasesMove /\ \A j \in Purchases \ {k} : pc'[j] = pc[j]
    <3>1. CASE UNCHANGED <<pc, answer, got>>
      BY <1>1, <2>1, <3>1, Stays
    <3>2. CASE pc[k] # "done" /\ Fail(k)
      <4>1. /\ pc' = [pc EXCEPT ![k] = pc'[k]] /\ got' = [got EXCEPT ![k] = got'[k]]
            /\ answer' = [answer EXCEPT ![k] = answer'[k]] /\ blocked' \in [Purchases -> BOOLEAN]
        BY <1>1, <2>1, <3>2 DEF TypeOK, Fail, Finish, Goto
      <4>2. PurchaseMove(k)
        BY <1>1, <3>2 DEF TypeOK, Fail, Finish, Goto, PurchaseMove
      <4>3. \A j \in Purchases \ {k} : pc'[j] = pc[j]
        BY <1>1, <3>2 DEF TypeOK, Fail, Finish, Goto
      <4> QED
        BY <1>1, <4>1, <4>2, <4>3, OnePurchaseMoves
    <3> QED
      BY <1>11, <3>1, <3>2 DEF Crash
  <2>3. Moves
    BY <1>1, <2>1, <2>2, Stays, SnapshotStays DEF Moves
  <2>4. BuyerMove(k)
    BY <2>1 DEF BuyerMove, Marked
  <2> QED
    BY <1>1, <2>1, <2>2, <2>3, <2>4, MoneyStays, OneBuyerMoves DEF STypeOK
<1> QED
  BY <1>4, <1>5, <1>6, <1>7, <1>8, <1>9, <1>10, <1>11

LEMMA SellerNextMoves ==
  ASSUME SellerInv, [SNext]_allVars
  PROVE  SellerMoves
<1>1. STypeOK /\ BooksInv
  BY DEF SellerInv
<1>2. CASE UNCHANGED allVars
  BY <1>1, <1>2, NextMoves, OthersMove DEF allVars, vars, purchaseVars
<1>3. CASE StaffTopup
  <2>1. Moves /\ UNCHANGED <<pc, bpc, sold, stamped>>
    BY <1>1, <1>3, NextMoves DEF StaffTopup, vars, purchaseVars
  <2>2. MoneyMove
    <3>1. /\ WalletOK'
          /\ \A q \in Keys : (Charged(q)' <=> Charged(q)) /\ (Refunded(q)' <=> Refunded(q))
      <4>1. WalletOK /\ W!Post(WalletOp("topup", "topup", Topup)) /\ Topup \in Int
        BY <1>1, <1>3, PriceAssumption DEF StaffTopup, TopupOp, STypeOK, WalletOK
      <4> QED
        BY <4>1, PostAdds
    <3> QED
      BY <3>1 DEF MoneyMove
  <2>3. \A k \in Purchases : BuyerMove(k)
    BY <2>1 DEF BuyerMove, Marked
  <2> QED
    BY <1>1, <2>1, <2>2, <2>3 DEF SellerMoves, STypeOK
<1>4. CASE \/ \E c \in Cancels : CancelStep(c) /\ UNCHANGED sellerVars
           \/ (\E r \in Purchases : CronTakes(r)) /\ UNCHANGED sellerVars
           \/ (CronWork \/ CronAbandon) /\ UNCHANGED sellerVars
           \/ (\E g \in Groups : Track(g)) /\ UNCHANGED sellerVars
           \/ (\E l \in LabelIds : Scan(l)) /\ UNCHANGED sellerVars
  <2>1. UNCHANGED pc
    BY <1>4 DEF CancelStep, CBegin, CTrack, CEvidence, CMark, CarrierCancels, CarrierWont,
       CarrierCancelSilent, CRevert, CBook, CClose, CDie, CronTakes, TakePurchasing, TakeCancelling,
       TakePoll, CronTake, CronWork, Probe, AskCancelling, AskPoll, SettlePurchasing,
       SettleCancelling, SettlePoll, CronAbandon, Track, Scan, purchaseVars
  <2>2. Moves
    BY <1>1, <1>4, CancelMoves, CronMoves, TrackMoves, ScanMoves
  <2> QED
    BY <1>1, <1>4, <2>1, <2>2, OthersMove DEF sellerVars
<1> QED
  BY <1>2, <1>3, <1>4, BuyerMoves DEF SNext

-----------------------------------------------------------------------------
(* The moves keep the promises *)

\* What a purchase was answered stays, and a record is opened by its own call alone.
LEMMA AnswersStay ==
  ASSUME BooksInv, Moves, NEW k \in Purchases, BuyerOK(k)
  PROVE  /\ pc[k] = "done" => pc'[k] = "done" /\ got'[k] = got[k] /\ answer'[k] = answer[k]
         /\ pc[k] # "idle" => pc'[k] # "idle"
         /\ answer'[k] # "none" => pc'[k] = "done"
         /\ rec'[k].status # "none" => rec[k].status # "none" \/ pc[k] = "reserve"
<1>1. /\ TypeOK /\ PurchaseOK(k) /\ RecordOK(k) /\ CronOK /\ PurchaseMove(k) /\ RecordMove(k)
  BY DEF BooksInv, Moves, PurchasesMove, RecordsMove
<1>2. PurchaseMove(k) => /\ pc[k] = "done" => pc'[k] = "done" /\ got'[k] = got[k] /\ answer'[k] = answer[k]
                         /\ pc[k] # "idle" => pc'[k] # "idle"
  BY DEF PurchaseMove, Early, AtCarrier
<1>3. answer'[k] # "none" => pc'[k] = "done"
  BY <1>1 DEF PurchaseMove, BuyerOK, Early, AtCarrier
<1>4. rec'[k].status # "none" => rec[k].status # "none" \/ pc[k] = "reserve"
  BY <1>1 DEF RecordMove, CronFound, PurchaseOK, RecordOK, Early
<1> QED
  BY <1>1, <1>2, <1>3, <1>4

LEMMA BuyerStep ==
  ASSUME SellerInv, SellerMoves, NEW k \in Purchases
  PROVE  BuyerOK(k)' /\ PaidFirst(k)' /\ MoneyOK(k)'
<1>1. /\ BuyerOK(k) /\ PaidFirst(k) /\ MoneyOK(k) /\ BuyerMove(k) /\ BooksInv /\ Moves
      /\ KeyOf[k] \in Keys
  BY PurchasesAssumption DEF SellerInv, SellerMoves
<1>2. /\ Charged(KeyOf[k]) => Charged(KeyOf[k])'
      /\ Refunded(KeyOf[k]) => Refunded(KeyOf[k])'
      /\ Charged(KeyOf[k])' /\ ~Charged(KeyOf[k]) =>
           \E j \in Purchases : KeyOf[j] = KeyOf[k] /\ bpc[j] = "debit" /\ bpc'[j] \in {"buying", "lost"}
  BY <1>1 DEF SellerMoves, MoneyMove
<1>3. BuyerOK(k)'
  BY <1>1, AnswersStay DEF BuyerOK, BuyerMove, Marked
<1>4. PaidFirst(k)'
  BY <1>1, <1>2 DEF PaidFirst, BuyerMove
<1>5. ASSUME Charged(KeyOf[k])'
      PROVE  \E j \in Purchases : KeyOf[j] = KeyOf[k] /\ PastWallet(j)'
  <2>1. CASE Charged(KeyOf[k])
    <3>1. PICK j \in Purchases : KeyOf[j] = KeyOf[k] /\ PastWallet(j)
      BY <1>1, <2>1 DEF MoneyOK
    <3>2. BuyerOK(j) /\ BuyerMove(j)
      BY DEF SellerInv, SellerMoves
    <3>3. PastWallet(j)'
      BY <1>1, <3>1, <3>2, AnswersStay DEF PastWallet, BuyerMove, BuyerOK
    <3> QED
      BY <3>1, <3>3
  <2>2. CASE ~Charged(KeyOf[k])
    BY <1>2, <1>5, <2>2 DEF PastWallet
  <2> QED
    BY <2>1, <2>2
<1>6. bpc'[k] = "done" /\ pc'[k] # "idle" => k \in sold' \/ Refunded(KeyOf[k])'
  BY <1>1, <1>2 DEF MoneyOK, BuyerMove, BuyerOK, Marked
<1> QED
  BY <1>3, <1>4, <1>5, <1>6 DEF MoneyOK

LEMMA AnswerStep ==
  ASSUME SellerInv, SellerMoves, NEW k \in Purchases
  PROVE  AnswerOK(k)'
<1>1. /\ BuyerOK(k) /\ AnswerOK(k) /\ BooksInv /\ Moves /\ PurchaseMove(k) /\ PurchaseOK(k) /\ TypeOK
  BY DEF SellerInv, SellerMoves, BooksInv, Moves, PurchasesMove
<1>2. SUFFICES ASSUME answer'[k] = "ok", got'[k] = NoLabel
               PROVE  /\ rec'[k].status = "none"
                      /\ \E r \in Purchases : KeyOf[r] = KeyOf[k] /\ rec'[r].status # "none"
  BY DEF AnswerOK
<1>3. CASE answer[k] = "ok"
  <2>1. pc[k] = "done" /\ got[k] = NoLabel
    BY <1>1, <1>2, <1>3, AnswersStay DEF BuyerOK
  <2>2. rec[k].status = "none" /\ \E r \in Purchases : KeyOf[r] = KeyOf[k] /\ rec[r].status # "none"
    BY <1>1, <1>3, <2>1 DEF AnswerOK
  <2> QED
    BY <1>1, <2>1, <2>2, AnswersStay, RecordKeeps
<1>4. CASE answer[k] # "ok"
  <2>1. /\ rec' = rec /\ pc[k] \in Early
        /\ \E r \in Purchases : KeyOf[r] = KeyOf[k] /\ rec[r].status \notin {"none", "purchasing"}
    BY <1>1, <1>2, <1>4 DEF PurchaseMove, PurchaseOK, LabelIds, NoLabel
  <2> QED
    BY <1>1, <2>1 DEF PurchaseOK
<1> QED
  BY <1>3, <1>4

LEMMA SellerStep ==
  ASSUME SellerInv, SellerMoves
  PROVE  SellerInv'
<1>1. BooksInv' /\ TypeOK'
  BY BooksStep DEF SellerInv, SellerMoves, BooksInv
<1>2. STypeOK'
  <2>1. \A k \in Purchases : bpc'[k] \in {"idle", "debit", "buying", "refund", "lost", "done"}
    BY DEF SellerInv, SellerMoves, STypeOK, BuyerMove
  <2> QED
    BY <1>1, <2>1 DEF SellerMoves, MoneyMove, WalletOK, STypeOK
<1> QED
  BY <1>1, <1>2, BuyerStep, AnswerStep DEF SellerInv

LEMMA SellerInit == ASSUME SInit PROVE SellerInv
<1>1. BooksInv /\ TypeOK
  BY BooksInit DEF SInit, BooksInv
<1>2. ledger = [c \in {Seller} |-> <<>>] /\ ledger \in [{Seller} -> Seq(W!Row)] /\ Rows = {}
  BY DEF SInit, W!Init, Rows
<1>3. STypeOK
  BY <1>1, <1>2 DEF SInit, W!Init, STypeOK
<1>4. \A k \in Purchases : BuyerOK(k) /\ PaidFirst(k) /\ MoneyOK(k) /\ AnswerOK(k)
  BY <1>2 DEF SInit, Init, BuyerOK, PaidFirst, MoneyOK, AnswerOK, Charged, Refunded
<1> QED
  BY <1>1, <1>3, <1>4 DEF SellerInv

LEMMA SellerKept == SSpec => []SellerInv
<1>1. SInit => SellerInv
  BY SellerInit
<1>2. SellerInv /\ [SNext]_allVars => SellerInv'
  BY SellerNextMoves, SellerStep
<1> QED
  BY <1>1, <1>2, PTL DEF SSpec

\* Wallet, calls and label purchase keep their types, for any prices and numbers of calls.
THEOREM SellerTypeCorrect == SSpec => []STypeOK
<1>1. SellerInv => STypeOK
  BY DEF SellerInv
<1> QED
  BY <1>1, SellerKept, PTL

\* No label is bought at the carrier for a requestId that has not paid, also when the
\* process dies between the payment and the purchase, or a second call uses the requestId.
THEOREM PaymentFirst == SSpec => []PaidBeforeBought
<1>1. ASSUME SellerInv PROVE PaidBeforeBought
  <2>1. ASSUME NEW l \in LabelIds PROVE Charged(KeyOf[labels[l].by])
    <3>1. PICK k \in Purchases : labels[l].by = k
      BY <1>1, LabelIsOne DEF SellerInv, BooksInv
    <3>2. PurchaseOK(k) /\ PaidFirst(k) /\ l \in MadeBy(k)
      BY <1>1, <3>1 DEF SellerInv, BooksInv, MadeBy
    <3>3. pc[k] # "idle"
      BY <3>2 DEF PurchaseOK, Early
    <3> QED
      BY <3>1, <3>2, <3>3 DEF PaidFirst
  <2> QED
    BY <2>1 DEF PaidBeforeBought
<1> QED
  BY <1>1, SellerKept, PTL

\* Money taken for a requestId whose calls have all come to their end bought a label that
\* one of them was told of, or went back: unless a call died or lost a wallet call.
THEOREM ChargesAnswered == SSpec => []ChargeIsAnswered
<1>1. ASSUME SellerInv PROVE ChargeIsAnswered
  <2>1. SUFFICES ASSUME NEW k \in Purchases, Charged(KeyOf[k]),
                        \A j \in Purchases : KeyOf[j] = KeyOf[k] /\ bpc[j] # "idle" => bpc[j] = "done",
                        ~Refunded(KeyOf[k])
                 PROVE  \E j \in Purchases :
                          KeyOf[j] = KeyOf[k] /\ bpc[j] # "idle" /\ j \in sold /\ got[j] # NoLabel
    BY DEF ChargeIsAnswered
  <2>2. ASSUME NEW j \in Purchases, KeyOf[j] = KeyOf[k], pc[j] # "idle", bpc[j] # "idle"
        PROVE  j \in sold /\ answer[j] = "ok"
    BY <1>1, <2>1, <2>2 DEF SellerInv, MoneyOK, BuyerOK
  <2>3. PICK j \in Purchases : KeyOf[j] = KeyOf[k] /\ PastWallet(j)
    BY <1>1, <2>1 DEF SellerInv, MoneyOK
  <2>4. j \in sold /\ answer[j] = "ok" /\ bpc[j] # "idle"
    BY <2>1, <2>2, <2>3 DEF PastWallet
  <2>5. CASE got[j] # NoLabel
    BY <2>3, <2>4, <2>5
  <2>6. CASE got[j] = NoLabel
    <3>1. PICK r \in Purchases : KeyOf[r] = KeyOf[k] /\ rec[r].status # "none"
      BY <1>1, <2>3, <2>4, <2>6 DEF SellerInv, AnswerOK
    <3>2. pc[r] # "idle" /\ bpc[r] # "idle"
      BY <1>1, <3>1 DEF SellerInv, BooksInv, PurchaseOK, BuyerOK, Early
    <3>3. r \in sold /\ answer[r] = "ok" /\ got[r] # NoLabel
      BY <1>1, <2>2, <3>1, <3>2 DEF SellerInv, AnswerOK
    <3> QED
      BY <3>1, <3>2, <3>3
  <2> QED
    BY <2>5, <2>6
<1> QED
  BY <1>1, SellerKept, PTL

\* Also the seller's purchases, with their payments, refunds and crashes, never leave an
\* order with two labels that could both be shipped.
THEOREM SellerNoSecondLabel == ASSUME CarrierDedups PROVE SSpec => []OneUsableLabel
<1>1. SInit => SellerInv /\ LabelsInv
  BY SellerInit, LabelsInit DEF SInit
<1>2. SellerInv /\ LabelsInv /\ [SNext]_allVars => (SellerInv /\ LabelsInv)'
  BY SellerNextMoves, SellerStep, LabelsStep DEF SellerMoves
<1>3. LabelsInv => OneUsableLabel
  BY LabelsAreUsable
<1> QED
  BY <1>1, <1>2, <1>3, PTL DEF SSpec

-----------------------------------------------------------------------------
(* Refunds.  How much the service sends back is the quote of the call that failed, and the
   calls of one requestId may be quoted different prices: that a refund is no more than
   the charge is not a theorem.  That there is one, and after a charge, is. *)

\* A posting of the seller's wallet: a refund only by a call that failed to buy.
Posting(kind, key, amount) ==
  /\ W!Post(WalletOp(kind, key, amount))
  /\ kind = "label_refund" => \E k \in Purchases : key = KeyOf[k] /\ bpc[k] = "refund"

LEMMA LedgerGrows ==
  ASSUME SellerInv, [SNext]_allVars
  PROVE  \/ UNCHANGED ledger
         \/ \E kind \in {"topup", "label", "label_refund"}, key \in Keys \cup {"topup"}, amount \in Int :
              Posting(kind, key, amount)
<1>1. ASSUME NEW k \in Purchases, W!Post(DebitOp(k))
      PROVE  \E kind \in {"topup", "label", "label_refund"}, key \in Keys \cup {"topup"}, amount \in Int :
               Posting(kind, key, amount)
  <2>1. Posting("label", KeyOf[k], -PriceOf[k])
    BY <1>1 DEF Posting, DebitOp
  <2> QED
    BY <2>1, PurchasesAssumption, PriceAssumption
<1>2. ASSUME NEW k \in Purchases, W!Post(RefundOp(k)), bpc[k] = "refund"
      PROVE  \E kind \in {"topup", "label", "label_refund"}, key \in Keys \cup {"topup"}, amount \in Int :
               Posting(kind, key, amount)
  <2>1. Posting("label_refund", KeyOf[k], PriceOf[k])
    BY <1>2 DEF Posting, RefundOp
  <2> QED
    BY <2>1, PurchasesAssumption, PriceAssumption
<1>3. CASE StaffTopup
  <2>1. Posting("topup", "topup", Topup)
    BY <1>3 DEF StaffTopup, TopupOp, Posting
  <2> QED
    BY <2>1, PriceAssumption
<1>4. CASE \E k \in Purchases : Debit(k) \/ Refund(k) \/ WalletFails(k)
  BY <1>1, <1>2, <1>4 DEF Debit, Refund, WalletFails, wallet
<1>5. CASE \E k \in Purchases : Quote(k) \/ Buy(k) \/ Stamp(k) \/ BuyFails(k) \/ Crash(k)
  BY <1>5 DEF Quote, Buy, Stamp, BuyFails, Crash, sellerVars, wallet
<1>6. CASE UNCHANGED sellerVars
  BY <1>6 DEF sellerVars, wallet
<1>7. CASE UNCHANGED allVars
  BY <1>6, <1>7 DEF allVars
<1> QED
  BY <1>3, <1>4, <1>5, <1>6, <1>7 DEF SNext

LEMMA RefundStep ==
  ASSUME SellerInv, RefundedOnce, [SNext]_allVars
  PROVE  RefundedOnce'
<1>1. CASE UNCHANGED ledger
  BY <1>1 DEF RefundedOnce
<1>2. CASE \E kind \in {"topup", "label", "label_refund"}, key \in Keys \cup {"topup"}, amount \in Int :
             Posting(kind, key, amount)
  <2> PICK kind \in {"topup", "label", "label_refund"}, key \in Keys \cup {"topup"}, amount \in Int :
             Posting(kind, key, amount)
    BY <1>2
  <2> DEFINE old == ledger[Seller]
             new == ledger'[Seller]
             n == Len(old)
  <2>1. W!Post(WalletOp(kind, key, amount)) /\ STypeOK
    BY DEF Posting, SellerInv
  <2>2. PICK row : /\ ledger' = [ledger EXCEPT ![Seller] = Append(old, row)]
                   /\ row.kind = kind /\ row.req = key /\ row.amount = amount /\ row \in W!Row
    <3>1. W!BalanceOf(Seller) \in Int
      <4>1. old \in Seq(W!Row)
        BY <2>1 DEF STypeOK
      <4>2. old # <<>> => old[Len(old)] \in W!Row
        BY <4>1, EmptySeq, ElementOfSeq, LenProperties
      <4> QED
        BY <4>2 DEF W!BalanceOf, W!Row
    <3> DEFINE r == W!NewRow(WalletOp(kind, key, amount), W!BalanceOf(Seller))
    <3>2. r.kind = kind /\ r.req = key /\ r.amount = amount /\ r \in W!Row
      BY <3>1 DEF WalletOp, W!NewRow, W!Row
    <3>3. ledger' = [ledger EXCEPT ![Seller] = Append(old, r)]
      BY <2>1 DEF W!Post, WalletOp
    <3> HIDE DEF r
    <3> QED
      BY <3>2, <3>3
  <2>3. /\ old \in Seq(W!Row) /\ n \in Nat /\ new = Append(old, row)
        /\ Len(new) = n + 1 /\ new[n + 1] = row
        /\ \A i \in 1 .. n : new[i] = old[i]
    BY <2>1, <2>2, AppendProperties, LenProperties DEF STypeOK
  <2> HIDE DEF new, n, old
  <2>4. ASSUME NEW i \in 1 .. n + 1, new[i].kind = "label_refund"
        PROVE  /\ \E j \in 1 .. (i - 1) : new[j].kind = "label" /\ new[j].req = new[i].req
               /\ \A j \in 1 .. (i - 1) : new[j].kind = "label_refund" => new[j].req # new[i].req
    <3>1. CASE i \in 1 .. n
      <4>1. 1 .. (i - 1) \subseteq 1 .. n
        BY <2>3, <3>1
      <4>2. new[i] = old[i] /\ \A j \in 1 .. (i - 1) : new[j] = old[j]
        BY <2>3, <3>1, <4>1
      <4>3. /\ \E j \in 1 .. (i - 1) : old[j].kind = "label" /\ old[j].req = old[i].req
            /\ \A j \in 1 .. (i - 1) : old[j].kind = "label_refund" => old[j].req # old[i].req
        BY <2>4, <3>1, <4>2 DEF RefundedOnce, old, n
      <4> QED
        BY <4>2, <4>3
    <3>2. CASE i = n + 1
      <4>1. PICK k \in Purchases : key = KeyOf[k] /\ bpc[k] = "refund"
        BY <2>2, <2>3, <2>4, <3>2 DEF Posting
      <4>2. PICK j \in 1 .. n : old[j].kind = "label" /\ old[j].req = key
        BY <4>1 DEF SellerInv, PaidFirst, Charged, Rows, old, n
      <4>3. \A m \in 1 .. n : old[m].kind = "label_refund" => old[m].req # key
        BY <2>1, <2>2, <2>3, <2>4, <3>2 DEF W!Post, W!Posted, WalletOp, old, n
      <4>4. i - 1 = n
        BY <2>3, <3>2
      <4> QED
        BY <2>2, <2>3, <3>2, <4>2, <4>3, <4>4
    <3> QED
      BY <2>3, <3>1, <3>2
  <2> QED
    BY <2>3, <2>4 DEF RefundedOnce, new
<1> QED
  BY <1>1, <1>2, LedgerGrows

\* Whatever calls repeat, fail or die, and whatever each of them was quoted, a requestId is
\* refunded at most once, and only after it was charged.
THEOREM RefundsHappenOnce == SSpec => []RefundedOnce
<1>1. SInit => SellerInv /\ RefundedOnce
  <2>1. SInit => ledger[Seller] = <<>>
    BY DEF SInit, W!Init
  <2> QED
    BY <2>1, SellerInit DEF RefundedOnce
<1>2. SellerInv /\ RefundedOnce /\ [SNext]_allVars => (SellerInv /\ RefundedOnce)'
  BY SellerNextMoves, SellerStep, RefundStep
<1> QED
  BY <1>1, <1>2, PTL DEF SSpec
=============================================================================
