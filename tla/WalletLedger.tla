---------------------------- MODULE WalletLedger ----------------------------
(***************************************************************************)
(* What the seller wallet promises, with its concurrency abstracted away:  *)
(* an append-only ledger per seller, in which one business operation       *)
(* (kind, requestId) and one bank reference are booked at most once, no    *)
(* debit passes the credit limit, and every change of a credit limit       *)
(* leaves a row in its audit trail.  There is no cached balance here: the  *)
(* balance IS the ledger.  CustomerWallet implements this specification.   *)
(***************************************************************************)
EXTENDS Integers, Sequences

CONSTANTS
  Customers,   \* sellers
  Kinds,       \* kinds of ledger rows (WALLET_TXN_KINDS)
  Requests,    \* idempotency keys (refs.requestId)
  ExtIds,      \* normalised bank references (refs.externalTxnId)
  NoExt,       \* "no bank reference"
  Ops,         \* the money operations clients may ask for
  LimitOps     \* the credit limits staff may set, in cents

\* An operation moves amount cents: positive in, negative out.  strict: it must not
\* be answered with a row of another amount (staff operations).
ASSUME OpsAssumption ==
  Ops \subseteq [cust: Customers, kind: Kinds, req: Requests,
                 ext: ExtIds \cup {NoExt}, amount: Int, strict: BOOLEAN]
ASSUME LimitOpsAssumption == LimitOps \subseteq [cust: Customers, limit: Int]

VARIABLES
  ledger,      \* customer_wallet_transactions, per seller, oldest first
  creditLimit, \* customers.creditLimit
  limitTrail   \* customer_credit_limit_changes, per seller, oldest first

walletVars == <<ledger, creditLimit, limitTrail>>

Row == [kind: Kinds, req: Requests, ext: ExtIds \cup {NoExt}, amount: Int,
        before: Int, after: Int]

LimitChange == [from: Int, to: Int]

Init ==
  /\ ledger = [c \in Customers |-> <<>>]
  /\ creditLimit = [c \in Customers |-> 0]
  /\ limitTrail = [c \in Customers |-> <<>>]

BalanceOf(c) ==
  IF ledger[c] = <<>> THEN 0 ELSE ledger[c][Len(ledger[c])].after

\* The unique index on (customerId, kind, refs.requestId) holds o's key.
Posted_SameAmount(o) ==           \* mutant: a retry is recognised by its amount too
  \E i \in 1..Len(ledger[o.cust]) :
    LET r == ledger[o.cust][i] IN r.kind = o.kind /\ r.req = o.req /\ r.amount = o.amount

Posted(o) ==
  \E i \in 1..Len(ledger[o.cust]) :
    ledger[o.cust][i].kind = o.kind /\ ledger[o.cust][i].req = o.req

\* The unique partial index on refs.externalTxnId, over the top-ups of ALL sellers.
ExtUsed_SameSeller(o) ==          \* mutant: the index is scoped to one seller
  /\ o.kind = "topup" /\ o.ext # NoExt
  /\ \E i \in 1..Len(ledger[o.cust]) :
        ledger[o.cust][i].kind = "topup" /\ ledger[o.cust][i].ext = o.ext

ExtUsed(o) ==
  /\ o.kind = "topup" /\ o.ext # NoExt
  /\ \E c \in Customers : \E i \in 1..Len(ledger[c]) :
        ledger[c][i].kind = "topup" /\ ledger[c][i].ext = o.ext

\* checkWalletGuard: money in is always accepted, money out down to -limit.
GuardOK(balance, limit, amount) == amount >= 0 \/ balance + amount >= -limit

NewRow_NoRequest(o, balance) ==   \* mutant: the row does not keep its requestId
  [kind |-> o.kind, req |-> NoExt, ext |-> o.ext, amount |-> o.amount,
   before |-> balance, after |-> balance + o.amount]

NewRow(o, balance) ==
  [kind |-> o.kind, req |-> o.req, ext |-> o.ext, amount |-> o.amount,
   before |-> balance, after |-> balance + o.amount]

Post(o) ==
  /\ ~Posted(o) /\ ~ExtUsed(o)
  /\ o.amount # 0
  /\ GuardOK(BalanceOf(o.cust), creditLimit[o.cust], o.amount)
  /\ ledger' = [ledger EXCEPT ![o.cust] = Append(@, NewRow(o, BalanceOf(o.cust)))]
  /\ UNCHANGED <<creditLimit, limitTrail>>

SetLimit(o) ==
  /\ creditLimit[o.cust] # o.limit
  /\ creditLimit' = [creditLimit EXCEPT ![o.cust] = o.limit]
  /\ limitTrail' = [limitTrail EXCEPT ![o.cust] =
                      Append(@, [from |-> creditLimit[o.cust], to |-> o.limit])]
  /\ UNCHANGED ledger

Next ==
  \/ \E o \in Ops : Post(o)
  \/ \E o \in LimitOps : SetLimit(o)

Spec == Init /\ [][Next]_walletVars
=============================================================================
