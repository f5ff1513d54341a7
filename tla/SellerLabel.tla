---------------------------- MODULE SellerLabel ----------------------------
(***************************************************************************)
(* A seller buys a label with wallet money: SellerShippingService.buy over *)
(* the wallet (WalletLedger, whose posting is one step: CustomerWallet     *)
(* shows that the service's transactions look like that) and over the      *)
(* purchase of VnpShipment, step by step.  A call has the name of the      *)
(* purchase it makes.                                                      *)
(***************************************************************************)
EXTENDS VnpShipment

CONSTANTS
  Seller,
  PriceOf,   \* the quote of each call: from the weight the seller gives in that very
             \* request and the price table of the day, whatever its requestId
  Topup      \* the money staff put in the wallet, with its own requestId

ASSUME PriceAssumption == PriceOf \in [Purchases -> Nat \ {0}] /\ Topup \in Nat \ {0}

VARIABLES
  ledger, creditLimit, limitTrail,
  bpc,       \* where each call is
  sold,      \* calls that told the seller of a label
  stamped    \* records with sellerPrice, sellerCustomerId and sellerWalletTxnId

wallet == <<ledger, creditLimit, limitTrail>>
sellerVars == <<wallet, bpc, sold, stamped>>
allVars == <<vars, sellerVars>>

WalletOp(kind, key, amount) ==
  [cust |-> Seller, kind |-> kind, req |-> key, ext |-> "none", amount |-> amount,
   strict |-> FALSE]
TopupOp == WalletOp("topup", "topup", Topup)
DebitOp(k) == WalletOp("label", KeyOf[k], -PriceOf[k])
RefundOp(k) == WalletOp("label_refund", KeyOf[k], PriceOf[k])

W == INSTANCE WalletLedger WITH
       Customers <- {Seller}, Kinds <- {"topup", "label", "label_refund"},
       Requests <- Keys \cup {"topup"}, ExtIds <- {}, NoExt <- "none",
       Ops <- {TopupOp} \cup {DebitOp(k) : k \in Purchases} \cup {RefundOp(k) : k \in Purchases},
       LimitOps <- {}

SInit ==
  /\ Init /\ W!Init
  /\ bpc = [k \in Purchases |-> "idle"]
  /\ sold = {}
  /\ stamped = {}

BGoto(k, where) == bpc' = [bpc EXCEPT ![k] = where]

StaffTopup == W!Post(TopupOp) /\ UNCHANGED <<vars, bpc, sold, stamped>>

\* Eligibility and quote: an active label on the orders ends it here.  The price is this
\* request's own, PriceOf[k].
Quote(k) ==
  LET s == snapshot[GroupOf[k]] IN
  /\ bpc[k] = "idle"
  /\ BGoto(k, IF s.label # NoLabel /\ ~s.cancelled THEN "done" ELSE "debit")
  /\ UNCHANGED <<vars, wallet, sold, stamped>>

\* 1) The wallet pays first.  A requestId that has paid is not charged again; a wallet
\* that is short ends the call.
Debit_Unpaid(k) ==   \* mutant: a wallet that is short does not end the call
  LET o == DebitOp(k)
      short == ~W!GuardOK(W!BalanceOf(Seller), creditLimit[Seller], o.amount)
  IN
  /\ bpc[k] = "debit"
  /\ \/ (W!Posted(o) \/ short) /\ BGoto(k, "buying") /\ UNCHANGED wallet
     \/ W!Post(o) /\ BGoto(k, "buying")
  /\ UNCHANGED <<vars, sold, stamped>>

Debit(k) ==
  LET o == DebitOp(k)
      short == ~W!GuardOK(W!BalanceOf(Seller), creditLimit[Seller], o.amount)
  IN
  /\ bpc[k] = "debit"
  /\ \/ W!Posted(o) /\ BGoto(k, "buying") /\ UNCHANGED wallet
     \/ ~W!Posted(o) /\ short /\ BGoto(k, "done") /\ UNCHANGED wallet
     \/ W!Post(o) /\ BGoto(k, "buying")
  /\ UNCHANGED <<vars, sold, stamped>>

\* 2) createShipment, to its end.
Buy(k) ==
  /\ bpc[k] = "buying"
  /\ CallStep(k) \/ Die(k)
  /\ UNCHANGED sellerVars

\* 3) The price goes on a record with this purchaseKey, whichever updateOne finds.
Stamp(k) ==
  /\ bpc[k] = "buying" /\ answer[k] = "ok"
  /\ \E r \in Purchases :
       /\ rec[r].status # "none" /\ KeyOf[r] = KeyOf[k]
       /\ stamped' = stamped \cup {r}
  /\ sold' = sold \cup {k}
  /\ BGoto(k, "done")
  /\ UNCHANGED <<vars, wallet>>

\* 4) An exception of 2), or of 3), sends the money back under the same requestId.
BuyFails_KeepsMoney(k) ==   \* mutant: the failure is answered without a refund
  /\ bpc[k] = "buying" /\ answer[k] \in {"ok", "error"}
  /\ BGoto(k, "done")
  /\ UNCHANGED <<vars, wallet, sold, stamped>>

BuyFails(k) ==
  /\ bpc[k] = "buying" /\ answer[k] \in {"ok", "error"}
  /\ BGoto(k, "refund")
  /\ UNCHANGED <<vars, wallet, sold, stamped>>

Refund_OwnKey(k) ==   \* mutant: the refund of a call is not the refund of its requestId
  LET o == RefundOp(k) IN
  /\ bpc[k] = "refund"
  /\ ledger' = [ledger EXCEPT ![Seller] = Append(@, W!NewRow(o, W!BalanceOf(Seller)))]
  /\ BGoto(k, "done")
  /\ UNCHANGED <<vars, creditLimit, limitTrail, sold, stamped>>

Refund(k) ==
  LET o == RefundOp(k) IN
  /\ bpc[k] = "refund"
  /\ IF W!Posted(o) THEN UNCHANGED wallet ELSE W!Post(o)
  /\ BGoto(k, "done")
  /\ UNCHANGED <<vars, sold, stamped>>

\* The wallet call of 1) or 4) throws, committed or not.  A failed refund is logged for
\* staff; a debit is outside the try and nothing sends it back.
WalletFails(k) ==
  LET o == IF bpc[k] = "debit" THEN DebitOp(k) ELSE RefundOp(k) IN
  /\ bpc[k] \in {"debit", "refund"}
  /\ UNCHANGED wallet \/ W!Post(o)
  /\ BGoto(k, "lost")
  /\ UNCHANGED <<vars, sold, stamped>>

\* The process dies with the call in it.
Crash(k) ==
  /\ bpc[k] = "buying"
  /\ IF pc[k] \in {"idle", "done"} THEN UNCHANGED <<pc, answer, got>> ELSE Fail(k)
  /\ BGoto(k, "lost")
  /\ UNCHANGED <<labels, rec, snapshot, blocked, cancel, cron, wallet, sold, stamped>>

-----------------------------------------------------------------------------
SNext ==
  \/ StaffTopup
  \/ \E k \in Purchases : \/ Quote(k) \/ Debit(k) \/ Buy(k) \/ Stamp(k) \/ BuyFails(k)
                          \/ Refund(k) \/ WalletFails(k) \/ Crash(k)
  \/ \E c \in Cancels : CancelStep(c) /\ UNCHANGED sellerVars
  \/ (\E r \in Purchases : CronTakes(r)) /\ UNCHANGED sellerVars
  \/ (CronWork \/ CronAbandon) /\ UNCHANGED sellerVars
  \/ (\E g \in Groups : Track(g)) /\ UNCHANGED sellerVars
  \/ (\E l \in LabelIds : Scan(l)) /\ UNCHANGED sellerVars

SSpec == SInit /\ [][SNext]_allVars

-----------------------------------------------------------------------------
(* What is checked *)

Rows == {ledger[Seller][i] : i \in 1..Len(ledger[Seller])}
Charged(key) == \E r \in Rows : r.kind = "label" /\ r.req = key
Refunded(key) == \E r \in Rows : r.kind = "label_refund" /\ r.req = key

\* The type invariant.
STypeOK ==
  /\ TypeOK
  /\ ledger \in [{Seller} -> Seq(W!Row)]
  /\ creditLimit = [c \in {Seller} |-> 0] /\ limitTrail = [c \in {Seller} |-> <<>>]
  /\ bpc \in [Purchases -> {"idle", "debit", "buying", "refund", "lost", "done"}]
  /\ sold \subseteq Purchases /\ stamped \subseteq Purchases

\* No label is bought at the carrier for a seller who has not paid for its requestId.
PaidBeforeBought ==
  \A l \in LabelIds : Charged(KeyOf[labels[l].by])

\* Money taken is answered for: when every call with its requestId has ended, and none of
\* them died or lost a wallet call, it bought a label somebody was told of or went back.
ChargeIsAnswered ==
  \A k \in Purchases :
    LET calls == {j \in Purchases : KeyOf[j] = KeyOf[k] /\ bpc[j] # "idle"} IN
    Charged(KeyOf[k]) /\ (\A j \in calls : bpc[j] = "done") =>
      Refunded(KeyOf[k]) \/ \E j \in calls \cap sold : got[j] # NoLabel

\* A failed purchase is paid back once: a requestId is refunded only after it was charged,
\* and never again, however often it is called and whichever calls fail.
RefundedOnce ==
  LET row == ledger[Seller] IN
  \A i \in 1..Len(row) : row[i].kind = "label_refund" =>
    /\ \E j \in 1..(i - 1) : row[j].kind = "label" /\ row[j].req = row[i].req
    /\ \A j \in 1..(i - 1) : row[j].kind = "label_refund" => row[j].req # row[i].req

\* Nobody is paid for having a label: the requestId of a record that carries a price and
\* is in use has not been given back more than it was charged.
NoLabelPaysItsBuyer ==
  \A r \in stamped : rec[r].status \in {"created", "in_transit", "delivered"} =>
    \A charge, refund \in Rows :
      /\ charge.kind = "label" /\ charge.req = KeyOf[r]
      /\ refund.kind = "label_refund" /\ refund.req = KeyOf[r]
      => refund.amount <= -charge.amount
=============================================================================
