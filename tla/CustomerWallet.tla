--------------------------- MODULE CustomerWallet ---------------------------
(***************************************************************************)
(* CustomerWalletService: applyTransaction and updateCreditLimit as        *)
(* concurrent calls over MongoDB.  A call is one HTTP request; a client    *)
(* that retries makes another call with the same operation.  Inside a call *)
(* the database can serve any other call between two of its steps.         *)
(*                                                                         *)
(* A Mongo multi-document transaction is a snapshot read (Read, LimitRead) *)
(* and an atomic commit; a commit aborts when the customer document was    *)
(* written since the snapshot ("conflicted"), and withTransaction then     *)
(* runs the callback again.  Money is in integer cents: round2 keeps every *)
(* stored amount a whole number of cents.                                  *)
(***************************************************************************)
EXTENDS WalletLedger

CONSTANTS
  Calls,       \* requests that reach applyTransaction
  LimitCalls,  \* requests that reach updateCreditLimit
  NoOp

ASSUME CallsAssumption == Calls \cap LimitCalls = {}

VARIABLES
  balance,     \* customers.walletBalance, the cached balance
  deleted,     \* sellers with deletedAt set
  pc,          \* where each call is
  op,          \* what each call asks for
  snap,        \* what its snapshot said: the balance, or the limit in force
  conflicted,  \* calls whose snapshot of the customer document is out of date
  answer       \* what the call answered

txnVars == <<snap, conflicted>>
vars == <<walletVars, balance, deleted, pc, op, txnVars, answer>>

AllCalls == Calls \cup LimitCalls

-----------------------------------------------------------------------------
WInit ==
  /\ Init
  /\ balance = [c \in Customers |-> 0]
  /\ deleted = {}
  /\ pc = [k \in AllCalls |-> "idle"]
  /\ op = [k \in AllCalls |-> NoOp]
  /\ snap = [k \in AllCalls |-> 0]
  /\ conflicted = {}
  /\ answer = [k \in AllCalls |-> "none"]

Goto(k, where) == pc' = [pc EXCEPT ![k] = where] /\ UNCHANGED answer

Answer(k, what) ==
  /\ pc' = [pc EXCEPT ![k] = "done"]
  /\ answer' = [answer EXCEPT ![k] = what]

BeginTxn(k, value) ==
  snap' = [snap EXCEPT ![k] = value] /\ UNCHANGED conflicted

EndTxn(k) ==
  snap' = [snap EXCEPT ![k] = 0] /\ conflicted' = conflicted \ {k}

\* k commits its write of c's document: every other transaction that has read the
\* document in its snapshot can no longer commit.
CommitTxn_NoConflict(k, c) ==   \* mutant: no transaction, so no write conflict
  snap' = [snap EXCEPT ![k] = 0] /\ UNCHANGED conflicted

CommitTxn(k, c) ==
  /\ snap' = [snap EXCEPT ![k] = 0]
  /\ conflicted' = conflicted \cup {j \in AllCalls \ {k} : pc[j] = "write" /\ op[j].cust = c}

\* findExternalTxnConflict: a top-up of another operation holds the bank reference.
ExtConflict(o) ==
  /\ o.kind = "topup" /\ o.ext # NoExt
  /\ \E c \in Customers : \E i \in 1..Len(ledger[c]) :
        LET r == ledger[c][i] IN
        /\ r.kind = "topup" /\ r.ext = o.ext
        /\ ~(c = o.cust /\ r.req = o.req)

\* assertSameAmount on the row that already carries o's requestId.
Replay_AnyAmount(k) == Answer(k, "replayed")   \* mutant: no assertSameAmount

Replay(k) ==
  LET o == op[k]
      other == \E i \in 1..Len(ledger[o.cust]) :
                 /\ ledger[o.cust][i].kind = o.kind
                 /\ ledger[o.cust][i].req = o.req
                 /\ ledger[o.cust][i].amount # o.amount
  IN Answer(k, IF o.strict /\ other THEN "mismatch" ELSE "replayed")
-----------------------------------------------------------------------------
(* applyTransaction *)

Call(k, o) ==
  /\ pc[k] = "idle"
  /\ op' = [op EXCEPT ![k] = o]
  /\ IF o.amount = 0 THEN Answer(k, "badrequest") ELSE Goto(k, "precheck")
  /\ UNCHANGED <<walletVars, balance, deleted, txnVars>>

\* The friendly check of the bank reference, before and outside the transaction.
PreCheck(k) ==
  /\ pc[k] = "precheck"
  /\ IF ExtConflict(op[k]) THEN Answer(k, "exttaken") ELSE Goto(k, "read")
  /\ UNCHANGED <<walletVars, balance, deleted, op, txnVars>>

\* The transaction's reads, all from one snapshot, and the guard computed from them.
Read_NoGuard(k) ==   \* mutant: the balance is not checked
  LET o == op[k] IN
  /\ k \in Calls /\ pc[k] = "read"
  /\ IF Posted(o) THEN Replay(k) /\ UNCHANGED txnVars
     ELSE IF o.cust \in deleted THEN Answer(k, "notfound") /\ UNCHANGED txnVars
     ELSE Goto(k, "write") /\ BeginTxn(k, balance[o.cust])
  /\ UNCHANGED <<walletVars, balance, deleted, op>>

Read(k) ==
  LET o == op[k] IN
  /\ k \in Calls /\ pc[k] = "read"
  /\ IF Posted(o) THEN Replay(k) /\ UNCHANGED txnVars
     ELSE IF o.cust \in deleted THEN Answer(k, "notfound") /\ UNCHANGED txnVars
     ELSE IF ~GuardOK(balance[o.cust], creditLimit[o.cust], o.amount)
          THEN Answer(k, "insufficient") /\ UNCHANGED txnVars
     ELSE Goto(k, "write") /\ BeginTxn(k, balance[o.cust])
  /\ UNCHANGED <<walletVars, balance, deleted, op>>

\* Insert the row, set the cached balance, commit.  The answer may never reach
\* the client ("lost": the process dies or the connection drops after commit).
Commit(k, out) ==
  LET o == op[k] IN
  /\ k \in Calls /\ pc[k] = "write" /\ k \notin conflicted
  /\ ~Posted(o) /\ ~ExtUsed(o)
  /\ ledger' = [ledger EXCEPT ![o.cust] = Append(@, NewRow(o, snap[k]))]
  /\ balance' = [balance EXCEPT ![o.cust] = snap[k] + o.amount]
  /\ CommitTxn(k, o.cust)
  /\ Answer(k, out)
  /\ UNCHANGED <<creditLimit, limitTrail, deleted, op>>

\* E11000: a unique index already holds the key of the row.
Duplicate(k) ==
  /\ k \in Calls /\ pc[k] = "write"
  /\ Posted(op[k]) \/ ExtUsed(op[k])
  /\ Goto(k, "fallback") /\ EndTxn(k)
  /\ UNCHANGED <<walletVars, balance, deleted, op>>

\* The catch block, reading outside any transaction.
Fallback(k) ==
  LET o == op[k] IN
  /\ pc[k] = "fallback"
  /\ IF Posted(o) THEN Replay(k)
     ELSE Answer(k, IF ExtConflict(o) THEN "exttaken" ELSE "error")
  /\ UNCHANGED <<walletVars, balance, deleted, op, txnVars>>
-----------------------------------------------------------------------------
(* updateCreditLimit *)

LimitCall(k, o) ==
  /\ pc[k] = "idle"
  /\ op' = [op EXCEPT ![k] = o]
  /\ Goto(k, "read")
  /\ UNCHANGED <<walletVars, balance, deleted, txnVars>>

LimitRead(k) ==
  LET c == op[k].cust IN
  /\ k \in LimitCalls /\ pc[k] = "read"
  /\ IF c \in deleted THEN Answer(k, "notfound") /\ UNCHANGED txnVars
     ELSE IF creditLimit[c] = op[k].limit THEN Answer(k, "unchanged") /\ UNCHANGED txnVars
     ELSE Goto(k, "write") /\ BeginTxn(k, creditLimit[c])
  /\ UNCHANGED <<walletVars, balance, deleted, op>>

LimitCommit_OtherDoc(k, out) ==   \* mutant: the limit is not on the customer document
  LET o == op[k] IN
  /\ k \in LimitCalls /\ pc[k] = "write" /\ k \notin conflicted
  /\ creditLimit' = [creditLimit EXCEPT ![o.cust] = o.limit]
  /\ limitTrail' = [limitTrail EXCEPT ![o.cust] =
                      Append(@, [from |-> snap[k], to |-> o.limit])]
  /\ EndTxn(k)
  /\ Answer(k, out)
  /\ UNCHANGED <<ledger, balance, deleted, op>>

LimitCommit(k, out) ==
  LET o == op[k] IN
  /\ k \in LimitCalls /\ pc[k] = "write" /\ k \notin conflicted
  /\ creditLimit' = [creditLimit EXCEPT ![o.cust] = o.limit]
  /\ limitTrail' = [limitTrail EXCEPT ![o.cust] =
                      Append(@, [from |-> snap[k], to |-> o.limit])]
  /\ CommitTxn(k, o.cust)
  /\ Answer(k, out)
  /\ UNCHANGED <<ledger, balance, deleted, op>>
-----------------------------------------------------------------------------
(* Both *)

\* A write conflict is transient: withTransaction runs the callback again.
Conflict(k) ==
  /\ pc[k] = "write" /\ k \in conflicted
  /\ Goto(k, "read") /\ EndTxn(k)
  /\ UNCHANGED <<walletVars, balance, deleted, op>>

\* A database error, a dead process or withTransaction's time limit: nothing is written.
Abort(k) ==
  /\ pc[k] \in {"precheck", "read", "write", "fallback"}
  /\ Answer(k, "error") /\ EndTxn(k)
  /\ UNCHANGED <<walletVars, balance, deleted, op>>

\* CustomerService.softDelete and restore write the same document.
SoftDelete_OtherDoc(c) ==   \* mutant: the deletion mark is not on the customer document
  /\ c \notin deleted
  /\ deleted' = deleted \cup {c}
  /\ UNCHANGED <<walletVars, balance, pc, op, txnVars, answer>>

SoftDelete(c) ==
  /\ c \notin deleted
  /\ deleted' = deleted \cup {c}
  /\ conflicted' = conflicted \cup {j \in AllCalls : pc[j] = "write" /\ op[j].cust = c}
  /\ UNCHANGED <<walletVars, balance, pc, op, snap, answer>>

Restore(c) ==
  /\ c \in deleted
  /\ deleted' = deleted \ {c}
  /\ conflicted' = conflicted \cup {j \in AllCalls : pc[j] = "write" /\ op[j].cust = c}
  /\ UNCHANGED <<walletVars, balance, pc, op, snap, answer>>

WNext ==
  \/ \E k \in Calls :
       \/ \E o \in Ops : Call(k, o)
       \/ PreCheck(k) \/ Read(k) \/ Duplicate(k) \/ Fallback(k)
       \/ \E out \in {"applied", "lost"} : Commit(k, out)
  \/ \E k \in LimitCalls :
       \/ \E o \in LimitOps : LimitCall(k, o)
       \/ LimitRead(k)
       \/ \E out \in {"applied", "lost"} : LimitCommit(k, out)
  \/ \E k \in AllCalls : Conflict(k) \/ Abort(k)
  \/ \E c \in Customers : SoftDelete(c) \/ Restore(c)

WSpec == WInit /\ [][WNext]_vars
-----------------------------------------------------------------------------
(* What is checked *)

PCs == {"idle", "precheck", "read", "write", "fallback", "done"}
Answers == {"none", "applied", "lost", "replayed", "mismatch", "exttaken", "insufficient",
            "notfound", "badrequest", "unchanged", "error"}

\* The type invariant.
TypeOK ==
  /\ ledger \in [Customers -> Seq(Row)]
  /\ creditLimit \in [Customers -> Int]
  /\ limitTrail \in [Customers -> Seq(LimitChange)]
  /\ balance \in [Customers -> Int]
  /\ deleted \subseteq Customers
  /\ pc \in [AllCalls -> PCs]
  /\ op \in [AllCalls -> Ops \cup LimitOps \cup {NoOp}]
  /\ \A k \in Calls : op[k] \in Ops \cup {NoOp} /\ (pc[k] # "idle" => op[k] \in Ops)
  /\ \A k \in LimitCalls : op[k] \in LimitOps \cup {NoOp} /\ (pc[k] # "idle" => op[k] \in LimitOps)
  /\ snap \in [AllCalls -> Int]
  /\ conflicted \subseteq AllCalls
  /\ answer \in [AllCalls -> Answers]

\* The cached balance on the customer document is the balance the ledger adds up
\* to: every row starts where the one before it ended, the first at zero.
BalanceIsLedger ==
  \A c \in Customers :
    /\ balance[c] = BalanceOf(c)
    /\ \A i \in 1..Len(ledger[c]) :
         /\ ledger[c][i].after = ledger[c][i].before + ledger[c][i].amount
         /\ ledger[c][i].before = IF i = 1 THEN 0 ELSE ledger[c][i-1].after

\* A requestId books money once per seller and kind, however many calls carry it,
\* whatever they raced with and however many of their answers were lost.
OncePerRequest ==
  \A c \in Customers : \A i, j \in 1..Len(ledger[c]) :
    ledger[c][i].kind = ledger[c][j].kind /\ ledger[c][i].req = ledger[c][j].req => i = j

\* A bank reference is credited once, over all sellers and all requestIds.
OncePerReference ==
  \A c, d \in Customers : \A i \in 1..Len(ledger[c]), j \in 1..Len(ledger[d]) :
    /\ ledger[c][i].kind = "topup" /\ ledger[d][j].kind = "topup"
    /\ ledger[c][i].ext = ledger[d][j].ext /\ ledger[c][i].ext # NoExt
    => c = d /\ i = j

Booked(k) == answer[k] \in {"applied", "lost"}

\* What calls are told agrees with the ledger: "applied" is told (or lost) once per
\* row, "replayed" only when the row exists, and to a strict call only when the
\* amount is the one it asked for.
AnswersMatchLedger ==
  /\ \A k \in Calls :
       (Booked(k) \/ answer[k] = "replayed") =>
         \E i \in 1..Len(ledger[op[k].cust]) :
           LET r == ledger[op[k].cust][i] IN
           /\ r.kind = op[k].kind /\ r.req = op[k].req
           /\ Booked(k) \/ op[k].strict => r.amount = op[k].amount
  /\ \A c \in Customers : \A i \in 1..Len(ledger[c]) :
       \E k \in Calls : /\ Booked(k) /\ op[k].cust = c
                        /\ op[k].kind = ledger[c][i].kind /\ op[k].req = ledger[c][i].req
  /\ \A j, k \in Calls :
       Booked(j) /\ Booked(k) /\ op[j].cust = op[k].cust
       /\ op[j].kind = op[k].kind /\ op[j].req = op[k].req => j = k

\* The audit trail of a credit limit is a chain: each change starts from what the
\* previous one set, and the last one set the limit in force.
LimitTrailChains ==
  \A c \in Customers :
    LET t == limitTrail[c] IN
    /\ creditLimit[c] = IF t = <<>> THEN 0 ELSE t[Len(t)].to
    /\ \A i \in 1..Len(t) : /\ t[i].from # t[i].to
                            /\ t[i].from = IF i = 1 THEN 0 ELSE t[i-1].to

\* Money leaves a wallet only down to the limit in force at that very moment, even
\* when other debits or a lowered limit commit while the debit is being decided.
DebitsStayWithinLimit ==
  [][\A c \in Customers :
       balance'[c] < balance[c] => balance'[c] >= -creditLimit[c]]_vars

\* Nothing moves on a soft-deleted seller's wallet, whatever was under way when
\* staff deleted it.
DeletedWalletIsFrozen ==
  [][\A c \in deleted : ledger'[c] = ledger[c] /\ creditLimit'[c] = creditLimit[c]]_vars

\* Every interleaving of calls looks like a sequence of atomic postings.
ImplementsLedger == Spec
=============================================================================
