------------------------ MODULE CustomerWallet_proofs ------------------------
(***************************************************************************)
(* The wallet's guarantees for any number of sellers, calls and operations *)
(***************************************************************************)
EXTENDS CustomerWallet, TLAPS

-----------------------------------------------------------------------------
(* Type correctness *)

\* Every action keeps every variable in its type: the rows it appends are rows,
\* and a call that has left "idle" carries an operation of its own sort.
LEMMA TypeStep == TypeOK /\ [WNext]_vars => TypeOK'
<1> USE OpsAssumption, LimitOpsAssumption, CallsAssumption DEF AllCalls, PCs, Answers
<1> SUFFICES ASSUME TypeOK, [WNext]_vars PROVE TypeOK'
  OBVIOUS
<1> USE DEF TypeOK
<1>1. CASE \E k \in Calls, o \in Ops : Call(k, o)
  <2> PICK k \in Calls, o \in Ops : Call(k, o)
    BY <1>1
  <2>1. pc' \in [AllCalls -> PCs] /\ answer' \in [AllCalls -> Answers]
    BY DEF Call, Answer, Goto
  <2>2. op' = [op EXCEPT ![k] = o] /\ \A j \in AllCalls \ {k} : pc'[j] = pc[j]
    BY DEF Call, Answer, Goto
  <2>3. /\ op' \in [AllCalls -> Ops \cup LimitOps \cup {NoOp}]
        /\ op'[k] = o
        /\ \A j \in AllCalls \ {k} : op'[j] = op[j]
    BY <2>2
  <2>4. k \notin LimitCalls
    OBVIOUS
  <2> QED
    BY <2>1, <2>2, <2>3, <2>4 DEF Call, walletVars, txnVars
<1>2. CASE \E k \in Calls : PreCheck(k)
  BY <1>2 DEF PreCheck, Answer, Goto, walletVars, txnVars
<1>3. CASE \E k \in Calls : Read(k)
  <2> PICK k \in Calls : Read(k)
    BY <1>3
  <2>1. /\ pc' \in [AllCalls -> PCs] /\ answer' \in [AllCalls -> Answers]
        /\ \A j \in AllCalls \ {k} : pc'[j] = pc[j]
    BY DEF Read, Replay, Answer, Goto
  <2>2. op[k] \in Ops /\ op[k].cust \in Customers
    BY DEF Read
  <2>3. snap' \in [AllCalls -> Int] /\ conflicted' \subseteq AllCalls
    BY <2>2 DEF Read, BeginTxn, txnVars
  <2> QED
    BY <2>1, <2>2, <2>3 DEF Read, walletVars
<1>4. CASE \E k \in Calls : Duplicate(k)
  BY <1>4 DEF Duplicate, EndTxn, Goto, walletVars
<1>5. CASE \E k \in Calls : Fallback(k)
  BY <1>5 DEF Fallback, Replay, Answer, walletVars, txnVars
<1>6. CASE \E k \in Calls, out \in {"applied", "lost"} : Commit(k, out)
  <2> PICK k \in Calls, out \in {"applied", "lost"} : Commit(k, out)
    BY <1>6
  <2>1. op[k] \in Ops /\ op[k].cust \in Customers /\ snap[k] \in Int
    BY DEF Commit
  <2>2. NewRow(op[k], snap[k]) \in Row
    BY <2>1 DEF NewRow, Row
  <2>3. ledger' \in [Customers -> Seq(Row)]
    BY <2>1, <2>2 DEF Commit
  <2>4. balance' \in [Customers -> Int]
    BY <2>1 DEF Commit
  <2>5. /\ pc' \in [AllCalls -> PCs] /\ answer' \in [AllCalls -> Answers]
        /\ pc[k] # "idle" /\ \A j \in AllCalls \ {k} : pc'[j] = pc[j]
    BY DEF Commit, Answer
  <2>6. snap' \in [AllCalls -> Int] /\ conflicted' \subseteq AllCalls
    BY DEF Commit, CommitTxn
  <2> QED
    BY <2>3, <2>4, <2>5, <2>6 DEF Commit
<1>7. CASE \E k \in LimitCalls, o \in LimitOps : LimitCall(k, o)
  <2> PICK k \in LimitCalls, o \in LimitOps : LimitCall(k, o)
    BY <1>7
  <2>1. /\ pc' \in [AllCalls -> PCs] /\ answer' = answer
        /\ op' = [op EXCEPT ![k] = o] /\ \A j \in AllCalls \ {k} : pc'[j] = pc[j]
    BY DEF LimitCall, Goto
  <2>2. /\ op' \in [AllCalls -> Ops \cup LimitOps \cup {NoOp}]
        /\ op'[k] = o
        /\ \A j \in AllCalls \ {k} : op'[j] = op[j]
    BY <2>1
  <2>3. k \notin Calls
    OBVIOUS
  <2> QED
    BY <2>1, <2>2, <2>3 DEF LimitCall, walletVars, txnVars
<1>8. CASE \E k \in LimitCalls : LimitRead(k)
  <2> PICK k \in LimitCalls : LimitRead(k)
    BY <1>8
  <2>1. /\ pc' \in [AllCalls -> PCs] /\ answer' \in [AllCalls -> Answers]
        /\ \A j \in AllCalls \ {k} : pc'[j] = pc[j]
    BY DEF LimitRead, Answer, Goto
  <2>2. op[k] \in LimitOps /\ op[k].cust \in Customers
    BY DEF LimitRead
  <2>3. snap' \in [AllCalls -> Int] /\ conflicted' \subseteq AllCalls
    BY <2>2 DEF LimitRead, BeginTxn, txnVars
  <2> QED
    BY <2>1, <2>2, <2>3 DEF LimitRead, walletVars
<1>9. CASE \E k \in LimitCalls, out \in {"applied", "lost"} : LimitCommit(k, out)
  <2> PICK k \in LimitCalls, out \in {"applied", "lost"} : LimitCommit(k, out)
    BY <1>9
  <2>1. op[k] \in LimitOps /\ op[k].cust \in Customers /\ op[k].limit \in Int /\ snap[k] \in Int
    BY DEF LimitCommit
  <2>2. [from |-> snap[k], to |-> op[k].limit] \in LimitChange
    BY <2>1 DEF LimitChange
  <2>3. limitTrail' \in [Customers -> Seq(LimitChange)]
    BY <2>1, <2>2 DEF LimitCommit
  <2>4. creditLimit' \in [Customers -> Int]
    BY <2>1 DEF LimitCommit
  <2>5. /\ pc' \in [AllCalls -> PCs] /\ answer' \in [AllCalls -> Answers]
        /\ pc[k] # "idle" /\ \A j \in AllCalls \ {k} : pc'[j] = pc[j]
    BY DEF LimitCommit, Answer
  <2>6. snap' \in [AllCalls -> Int] /\ conflicted' \subseteq AllCalls
    BY DEF LimitCommit, CommitTxn
  <2> QED
    BY <2>3, <2>4, <2>5, <2>6 DEF LimitCommit
<1>10. CASE \E k \in AllCalls : Conflict(k) \/ Abort(k)
  <2> PICK k \in AllCalls : Conflict(k) \/ Abort(k)
    BY <1>10
  <2>1. /\ pc' \in [AllCalls -> PCs] /\ answer' \in [AllCalls -> Answers]
        /\ \A j \in AllCalls \ {k} : pc'[j] = pc[j]
        /\ pc[k] # "idle"
    BY DEF Conflict, Abort, Answer, Goto
  <2> QED
    BY <2>1 DEF Conflict, Abort, EndTxn, walletVars
<1>11. CASE \E c \in Customers : SoftDelete(c) \/ Restore(c)
  BY <1>11 DEF SoftDelete, Restore, walletVars
<1>12. CASE UNCHANGED vars
  BY <1>12 DEF vars, walletVars, txnVars
<1> QED
  BY <1>1, <1>2, <1>3, <1>4, <1>5, <1>6, <1>7, <1>8, <1>9, <1>10, <1>11, <1>12 DEF WNext

\* Every initial state is well-typed.
LEMMA TypeInit == WInit => TypeOK
BY DEF WInit, Init, TypeOK, AllCalls, PCs, Answers

\* The variables keep their types in every reachable state.
THEOREM TypeCorrect == WSpec => []TypeOK
BY TypeInit, TypeStep, PTL DEF WSpec
-----------------------------------------------------------------------------
(* The inductive invariant *)

\* What an open transaction knows as long as no write has put it in conflict: its
\* snapshot is the present, so its guard holds of the present.
Current(k) ==
  pc[k] = "write" /\ k \notin conflicted =>
    /\ op[k].cust \notin deleted
    /\ k \in Calls =>
         /\ snap[k] = balance[op[k].cust]
         /\ GuardOK(balance[op[k].cust], creditLimit[op[k].cust], op[k].amount)
    /\ k \in LimitCalls =>
         snap[k] = creditLimit[op[k].cust] /\ creditLimit[op[k].cust] # op[k].limit

SnapshotIsCurrent == \A k \in AllCalls : Current(k)

\* An operation of no money is turned away before it reaches the database.
AmountsNonzero ==
  \A k \in Calls : pc[k] \notin {"idle", "done"} => op[k].amount # 0

LedgerInv == BalanceIsLedger /\ OncePerRequest /\ OncePerReference

IInv == TypeOK /\ SnapshotIsCurrent /\ AmountsNonzero /\ LedgerInv /\ LimitTrailChains

\* What Append leaves alone and what it adds.
LEMMA AppendFacts ==
  ASSUME NEW S, NEW s \in Seq(S), NEW e \in S
  PROVE  /\ Append(s, e) \in Seq(S) /\ Append(s, e) # <<>>
         /\ Len(Append(s, e)) = Len(s) + 1
         /\ Append(s, e)[Len(s) + 1] = e
         /\ \A i \in 1..Len(s) : Append(s, e)[i] = s[i]
  OBVIOUS

\* A step that touches neither the money nor the sellers only moves one call.
Quiet(k) ==
  /\ UNCHANGED <<ledger, creditLimit, limitTrail, balance, deleted>>
  /\ \A j \in AllCalls \ {k} : pc'[j] = pc[j] /\ op'[j] = op[j] /\ snap'[j] = snap[j]
  /\ \A j \in AllCalls \ {k} : j \in conflicted <=> j \in conflicted'

LEMMA QuietSteps ==
  ASSUME TypeOK,
         NEW k \in AllCalls,
         \/ k \in Calls /\ \E o \in Ops : Call(k, o)
         \/ k \in Calls /\ (PreCheck(k) \/ Read(k) \/ Duplicate(k) \/ Fallback(k))
         \/ k \in LimitCalls /\ \E o \in LimitOps : LimitCall(k, o)
         \/ LimitRead(k) \/ Conflict(k) \/ Abort(k)
  PROVE  Quiet(k)
<1> USE DEF Quiet, TypeOK, walletVars, txnVars, Answer, Goto, BeginTxn, EndTxn
<1>1. ASSUME NEW o, Call(k, o) PROVE Quiet(k)
  BY <1>1 DEF Call
<1>2. ASSUME NEW o, LimitCall(k, o) PROVE Quiet(k)
  BY <1>2 DEF LimitCall
<1>3. CASE PreCheck(k)
  BY <1>3 DEF PreCheck
<1>4. CASE Read(k)
  BY <1>4 DEF Read, Replay
<1>5. CASE Duplicate(k)
  BY <1>5 DEF Duplicate
<1>6. CASE Fallback(k)
  BY <1>6 DEF Fallback, Replay
<1>7. CASE LimitRead(k)
  BY <1>7 DEF LimitRead
<1>8. CASE Conflict(k) \/ Abort(k)
  BY <1>8 DEF Conflict, Abort
<1> QED
  BY <1>1, <1>2, <1>3, <1>4, <1>5, <1>6, <1>7, <1>8

\* Commits and deletions put every transaction they outdate in conflict.
LEMMA SnapshotStep ==
  ASSUME TypeOK, SnapshotIsCurrent, WNext
  PROVE  SnapshotIsCurrent'
<1> USE CallsAssumption DEF AllCalls, TypeOK
<1> SUFFICES ASSUME NEW j \in AllCalls PROVE Current(j)'
  BY DEF SnapshotIsCurrent
<1>a. Current(j)
  BY DEF SnapshotIsCurrent
<1>1. ASSUME NEW k \in AllCalls, Quiet(k), k # j PROVE Current(j)'
  BY <1>1, <1>a DEF Quiet, Current
<1>2. ASSUME NEW o, Call(j, o) \/ LimitCall(j, o) PROVE Current(j)'
  BY <1>2 DEF Call, LimitCall, Current, Answer, Goto
<1>3. CASE PreCheck(j) \/ Duplicate(j) \/ Fallback(j) \/ Conflict(j) \/ Abort(j)
  BY <1>3 DEF PreCheck, Duplicate, Fallback, Conflict, Abort, Replay, Current, Answer, Goto
<1>4. CASE j \in Calls /\ Read(j)
  <2>1. op[j] \in Ops /\ op[j].cust \in Customers
    BY <1>4, OpsAssumption DEF Read
  <2>2. CASE pc'[j] = "write"
    <3>1. /\ op[j].cust \notin deleted
          /\ GuardOK(balance[op[j].cust], creditLimit[op[j].cust], op[j].amount)
          /\ snap' = [snap EXCEPT ![j] = balance[op[j].cust]]
      BY <1>4, <2>2 DEF Read, Replay, Answer, BeginTxn
    <3>2. UNCHANGED <<walletVars, balance, deleted, op>>
      BY <1>4 DEF Read
    <3> QED
      BY <1>4, <3>1, <3>2 DEF Current, walletVars, GuardOK
  <2> QED
    BY <2>2 DEF Current
<1>5. CASE j \in LimitCalls /\ LimitRead(j)
  <2>1. op[j] \in LimitOps /\ op[j].cust \in Customers
    BY <1>5, LimitOpsAssumption DEF LimitRead
  <2>2. CASE pc'[j] = "write"
    <3>1. /\ op[j].cust \notin deleted
          /\ creditLimit[op[j].cust] # op[j].limit
          /\ snap' = [snap EXCEPT ![j] = creditLimit[op[j].cust]]
      BY <1>5, <2>2 DEF LimitRead, Answer, BeginTxn
    <3>2. UNCHANGED <<walletVars, balance, deleted, op>>
      BY <1>5 DEF LimitRead
    <3> QED
      BY <1>5, <3>1, <3>2 DEF Current, walletVars
  <2> QED
    BY <2>2 DEF Current
<1>6. ASSUME NEW k \in Calls, NEW out, Commit(k, out) PROVE Current(j)'
  <2>1. op[k] \in Ops /\ op[k].cust \in Customers
    BY <1>6, OpsAssumption DEF Commit
  <2>2. CASE j = k
    BY <1>6, <2>2 DEF Commit, Answer, Current
  <2>3. CASE j # k /\ pc[j] = "write" /\ op[j].cust = op[k].cust
    BY <1>6, <2>3 DEF Commit, CommitTxn, Current
  <2>4. CASE j # k /\ pc[j] = "write" /\ op[j].cust # op[k].cust
    <3>1. balance'[op[j].cust] = balance[op[j].cust]
      BY <1>6, <2>1, <2>4 DEF Commit
    <3>2. pc'[j] = pc[j] /\ op' = op /\ snap'[j] = snap[j] /\ (j \in conflicted => j \in conflicted')
      BY <1>6, <2>4 DEF Commit, CommitTxn, Answer
    <3>3. creditLimit' = creditLimit /\ deleted' = deleted
      BY <1>6 DEF Commit
    <3> QED
      BY <1>a, <3>1, <3>2, <3>3 DEF Current, GuardOK
  <2>5. CASE j # k /\ pc[j] # "write"
    BY <1>6, <2>5 DEF Commit, Answer, Current
  <2> QED
    BY <2>2, <2>3, <2>4, <2>5
<1>7. ASSUME NEW k \in LimitCalls, NEW out, LimitCommit(k, out) PROVE Current(j)'
  <2>1. op[k] \in LimitOps /\ op[k].cust \in Customers
    BY <1>7, LimitOpsAssumption DEF LimitCommit
  <2>2. CASE j = k
    BY <1>7, <2>2 DEF LimitCommit, Answer, Current
  <2>3. CASE j # k /\ pc[j] = "write" /\ op[j].cust = op[k].cust
    BY <1>7, <2>3 DEF LimitCommit, CommitTxn, Current
  <2>4. CASE j # k /\ pc[j] = "write" /\ op[j].cust # op[k].cust
    <3>1. creditLimit'[op[j].cust] = creditLimit[op[j].cust]
      BY <1>7, <2>1, <2>4 DEF LimitCommit
    <3>2. pc'[j] = pc[j] /\ op' = op /\ snap'[j] = snap[j] /\ (j \in conflicted => j \in conflicted')
      BY <1>7, <2>4 DEF LimitCommit, CommitTxn, Answer
    <3>3. balance' = balance /\ deleted' = deleted
      BY <1>7 DEF LimitCommit
    <3> QED
      BY <1>a, <3>1, <3>2, <3>3 DEF Current, GuardOK
  <2>5. CASE j # k /\ pc[j] # "write"
    BY <1>7, <2>5 DEF LimitCommit, Answer, Current
  <2> QED
    BY <2>2, <2>3, <2>4, <2>5
<1>8. ASSUME NEW c, SoftDelete(c) \/ Restore(c) PROVE Current(j)'
  BY <1>8, <1>a DEF SoftDelete, Restore, walletVars, Current, GuardOK
<1> QED
  BY QuietSteps, <1>1, <1>2, <1>3, <1>4, <1>5, <1>6, <1>7, <1>8 DEF WNext

\* A transaction that has reached its write was let through by the guard: the amount
\* it will book is not zero, and the limit it will set is a new one.
LEMMA AmountsStep ==
  ASSUME TypeOK, AmountsNonzero, WNext
  PROVE  AmountsNonzero'
<1> USE CallsAssumption DEF AllCalls, TypeOK
<1> SUFFICES ASSUME NEW j \in Calls, pc'[j] \notin {"idle", "done"} PROVE op'[j].amount # 0
  BY DEF AmountsNonzero
<1>1. ASSUME NEW k \in AllCalls, Quiet(k), k # j PROVE op'[j].amount # 0
  BY <1>1 DEF Quiet, AmountsNonzero
<1>2. ASSUME NEW o, Call(j, o) PROVE op'[j].amount # 0
  BY <1>2 DEF Call, Answer
<1>3. CASE \/ PreCheck(j) \/ Read(j) \/ Duplicate(j) \/ Fallback(j) \/ Conflict(j) \/ Abort(j)
  BY <1>3 DEF PreCheck, Read, Duplicate, Fallback, Conflict, Abort, AmountsNonzero
<1>4. ASSUME NEW k \in AllCalls, NEW out,
             (k \in Calls /\ Commit(k, out)) \/ (k \in LimitCalls /\ LimitCommit(k, out))
      PROVE  op'[j].amount # 0
  BY <1>4 DEF Commit, LimitCommit, Answer, AmountsNonzero
<1>5. ASSUME NEW c, SoftDelete(c) \/ Restore(c) PROVE op'[j].amount # 0
  BY <1>5 DEF SoftDelete, Restore, AmountsNonzero
<1> QED
  BY QuietSteps, <1>1, <1>2, <1>3, <1>4, <1>5 DEF WNext

\* What a commit adds to the ledger: one row, where the ledger's balance stands.
LEMMA CommitAppends ==
  ASSUME TypeOK, SnapshotIsCurrent, BalanceIsLedger,
         NEW k \in Calls, NEW out, Commit(k, out)
  PROVE  LET c == op[k].cust
             n == Len(ledger[c])
             r == NewRow(op[k], BalanceOf(c))
         IN  /\ op[k] \in Ops /\ c \in Customers
             /\ ledger' = [ledger EXCEPT ![c] = Append(@, r)]
             /\ balance' = [balance EXCEPT ![c] = r.after]
             /\ r \in Row /\ n \in Nat
             /\ Len(ledger'[c]) = n + 1 /\ ledger'[c] # <<>>
             /\ ledger'[c][n + 1] = r
             /\ \A i \in 1..n : ledger'[c][i] = ledger[c][i]
             /\ \A d \in Customers \ {c} : ledger'[d] = ledger[d] /\ balance'[d] = balance[d]
<1> DEFINE c == op[k].cust
           n == Len(ledger[c])
           r == NewRow(op[k], BalanceOf(c))
<1>1. op[k] \in Ops /\ c \in Customers /\ op[k].amount \in Int
  BY OpsAssumption DEF Commit, TypeOK
<1>2. snap[k] = BalanceOf(c) /\ balance[c] = BalanceOf(c) /\ BalanceOf(c) \in Int
  BY <1>1 DEF Commit, SnapshotIsCurrent, Current, AllCalls, BalanceIsLedger, TypeOK
<1>3. r \in Row /\ r.after = BalanceOf(c) + op[k].amount
  BY <1>1, <1>2, OpsAssumption DEF NewRow, Row
<1>4. /\ ledger' = [ledger EXCEPT ![c] = Append(@, r)]
      /\ balance' = [balance EXCEPT ![c] = r.after]
  BY <1>2, <1>3 DEF Commit
<1>5. ledger[c] \in Seq(Row)
  BY <1>1 DEF TypeOK
<1>6. ledger'[c] = Append(ledger[c], r)
  BY <1>1, <1>4 DEF TypeOK
<1>7. \A d \in Customers \ {c} : ledger'[d] = ledger[d] /\ balance'[d] = balance[d]
  BY <1>4 DEF TypeOK
<1> QED
  BY <1>1, <1>3, <1>4, <1>5, <1>6, <1>7, AppendFacts

\* A commit keeps the cached balance and the chain of rows.
LEMMA BalanceStep ==
  ASSUME TypeOK, SnapshotIsCurrent, BalanceIsLedger,
         NEW k \in Calls, NEW out, Commit(k, out)
  PROVE  BalanceIsLedger'
<1> DEFINE c == op[k].cust
           n == Len(ledger[c])
           r == NewRow(op[k], BalanceOf(c))
<1>1. /\ op[k] \in Ops /\ c \in Customers /\ r \in Row /\ n \in Nat
      /\ balance' = [balance EXCEPT ![c] = r.after]
      /\ Len(ledger'[c]) = n + 1 /\ ledger'[c] # <<>>
      /\ ledger'[c][n + 1] = r
      /\ \A i \in 1..n : ledger'[c][i] = ledger[c][i]
      /\ \A d \in Customers \ {c} : ledger'[d] = ledger[d] /\ balance'[d] = balance[d]
  BY CommitAppends
<1>2. r.before = BalanceOf(c) /\ r.after = r.before + r.amount
  BY DEF NewRow
<1>3. BalanceOf(c) = IF n = 0 THEN 0 ELSE ledger[c][n].after
  <2>1. ledger[c] \in Seq(Row)
    BY <1>1 DEF TypeOK
  <2>2. ledger[c] = <<>> <=> n = 0
    BY <2>1
  <2> QED
    BY <2>2 DEF BalanceOf
<1>6. n = Len(ledger[c])
  OBVIOUS
<1> HIDE DEF c, n, r
<1>4. ASSUME NEW d \in Customers PROVE balance'[d] = BalanceOf(d)'
  <2>1. CASE d # c
    BY <1>1, <2>1 DEF BalanceOf, BalanceIsLedger
  <2>2. CASE d = c
    <3>1. balance'[c] = r.after
      BY <1>1 DEF TypeOK
    <3> QED
      BY <1>1, <2>2, <3>1 DEF BalanceOf
  <2> QED
    BY <2>1, <2>2
<1>5. ASSUME NEW d \in Customers, NEW i \in 1..Len(ledger'[d])
      PROVE  /\ ledger'[d][i].after = ledger'[d][i].before + ledger'[d][i].amount
             /\ ledger'[d][i].before = IF i = 1 THEN 0 ELSE ledger'[d][i-1].after
  <2>1. CASE d # c
    BY <1>1, <2>1 DEF BalanceIsLedger
  <2>2. CASE d = c /\ i = n + 1
    <3>1. i # 1 => n \in 1..n /\ i - 1 = n
      BY <1>1, <2>2
    <3> QED
      BY <1>1, <1>2, <1>3, <2>2, <3>1
  <2>3. CASE d = c /\ i \in 1..n
    <3>1. i # 1 => i - 1 \in 1..n
      BY <2>3, <1>1
    <3>2. ledger'[d][i] = ledger[c][i] /\ (i # 1 => ledger'[d][i-1] = ledger[c][i-1])
      BY <1>1, <2>3, <3>1
    <3>3. i \in 1..Len(ledger[c])
      BY <2>3, <1>6
    <3> QED
      BY <1>1, <2>3, <3>2, <3>3 DEF BalanceIsLedger
  <2>4. i \in 1..n \/ i = n + 1 \/ d # c
    BY <1>1
  <2> QED
    BY <2>1, <2>2, <2>3, <2>4
<1> QED
  BY <1>4, <1>5 DEF BalanceIsLedger

\* The unique indexes let a row in only under a requestId and a reference of its own.
LEMMA UniquenessStep ==
  ASSUME TypeOK, SnapshotIsCurrent, LedgerInv,
         NEW k \in Calls, NEW out, Commit(k, out)
  PROVE  OncePerRequest' /\ OncePerReference'
<1> DEFINE c == op[k].cust
           n == Len(ledger[c])
           r == NewRow(op[k], BalanceOf(c))
<1>1. /\ c \in Customers /\ n \in Nat
      /\ Len(ledger'[c]) = n + 1
      /\ ledger'[c][n + 1] = r
      /\ \A i \in 1..n : ledger'[c][i] = ledger[c][i]
      /\ \A d \in Customers \ {c} : ledger'[d] = ledger[d]
  BY CommitAppends DEF LedgerInv
<1>2. r.kind = op[k].kind /\ r.req = op[k].req /\ r.ext = op[k].ext
  BY DEF NewRow
<1>3. \A i \in 1..n : ~(ledger[c][i].kind = r.kind /\ ledger[c][i].req = r.req)
  BY <1>2 DEF Commit, Posted
<1>4. r.kind = "topup" /\ r.ext # NoExt =>
        \A d \in Customers : \A i \in 1..Len(ledger[d]) :
          ~(ledger[d][i].kind = "topup" /\ ledger[d][i].ext = r.ext)
  BY <1>2 DEF Commit, ExtUsed
<1>5. n = Len(ledger[c])
  OBVIOUS
<1> HIDE DEF c, n, r
\* Every row of the new ledger is either the new one or an old one.
<1>6. ASSUME NEW d \in Customers, NEW i \in 1..Len(ledger'[d])
      PROVE  \/ i \in 1..Len(ledger[d]) /\ ledger'[d][i] = ledger[d][i]
             \/ d = c /\ i = n + 1 /\ ledger'[d][i] = r
  <2>1. CASE d # c
    BY <1>1, <2>1
  <2>2. CASE d = c
    <3>1. i \in 1..n \/ i = n + 1
      BY <1>1, <2>2
    <3> QED
      BY <1>1, <1>5, <2>2, <3>1
  <2> QED
    BY <2>1, <2>2
<1>7. OncePerRequest'
  <2> SUFFICES ASSUME NEW d \in Customers, NEW i \in 1..Len(ledger'[d]), NEW j \in 1..Len(ledger'[d]),
                      ledger'[d][i].kind = ledger'[d][j].kind, ledger'[d][i].req = ledger'[d][j].req
               PROVE  i = j
    BY DEF OncePerRequest
  <2>1. CASE ledger'[d][i] = ledger[d][i] /\ ledger'[d][j] = ledger[d][j]
             /\ i \in 1..Len(ledger[d]) /\ j \in 1..Len(ledger[d])
    BY <2>1 DEF LedgerInv, OncePerRequest
  <2> QED
    BY <1>3, <1>5, <1>6, <2>1
<1>8. OncePerReference'
  <2> SUFFICES ASSUME NEW d \in Customers, NEW e \in Customers,
                      NEW i \in 1..Len(ledger'[d]), NEW j \in 1..Len(ledger'[e]),
                      ledger'[d][i].kind = "topup", ledger'[e][j].kind = "topup",
                      ledger'[d][i].ext = ledger'[e][j].ext, ledger'[d][i].ext # NoExt
               PROVE  d = e /\ i = j
    BY DEF OncePerReference
  <2>1. CASE ledger'[d][i] = ledger[d][i] /\ ledger'[e][j] = ledger[e][j]
             /\ i \in 1..Len(ledger[d]) /\ j \in 1..Len(ledger[e])
    BY <2>1 DEF LedgerInv, OncePerReference
  <2> QED
    BY <1>4, <1>6, <2>1
<1> QED
  BY <1>7, <1>8

\* A change of a credit limit starts from the limit its transaction read, which is
\* the limit in force when it commits.
LEMMA LimitTrailStep ==
  ASSUME TypeOK, SnapshotIsCurrent, LimitTrailChains,
         NEW k \in LimitCalls, NEW out, LimitCommit(k, out)
  PROVE  LimitTrailChains'
<1> DEFINE c == op[k].cust
           t == limitTrail[c]
           n == Len(t)
           r == [from |-> creditLimit[c], to |-> op[k].limit]
<1>1. c \in Customers /\ op[k].limit \in Int /\ op[k] \in LimitOps
  BY LimitOpsAssumption DEF LimitCommit, TypeOK
<1>2. snap[k] = creditLimit[c] /\ creditLimit[c] # op[k].limit
  BY DEF LimitCommit, SnapshotIsCurrent, Current, AllCalls
<1>3. t \in Seq(LimitChange) /\ n \in Nat /\ r \in LimitChange
  BY <1>1 DEF TypeOK, LimitChange
<1>4. /\ limitTrail' = [limitTrail EXCEPT ![c] = Append(@, r)]
      /\ creditLimit' = [creditLimit EXCEPT ![c] = op[k].limit]
  BY <1>2 DEF LimitCommit
<1>5. limitTrail'[c] = Append(t, r) /\ creditLimit'[c] = op[k].limit
  BY <1>1, <1>4 DEF TypeOK
<1>6. /\ Len(limitTrail'[c]) = n + 1 /\ limitTrail'[c] # <<>>
      /\ limitTrail'[c][n + 1] = r
      /\ \A i \in 1..n : limitTrail'[c][i] = t[i]
  BY <1>3, <1>5, AppendFacts
<1>7. creditLimit[c] = IF n = 0 THEN 0 ELSE t[n].to
  BY <1>1, <1>3 DEF LimitTrailChains
<1>8. \A d \in Customers \ {c} : limitTrail'[d] = limitTrail[d] /\ creditLimit'[d] = creditLimit[d]
  BY <1>4 DEF TypeOK
<1>9. r.from = creditLimit[c] /\ r.to = op[k].limit /\ r.from # r.to /\ t = limitTrail[c] /\ n = Len(t)
  BY <1>2
<1>10. \A i \in 1..n : t[i].from # t[i].to /\ t[i].from = IF i = 1 THEN 0 ELSE t[i-1].to
  BY <1>1 DEF LimitTrailChains
<1> HIDE DEF c, t, n, r
<1> SUFFICES ASSUME NEW d \in Customers
             PROVE  /\ creditLimit'[d] = IF limitTrail'[d] = <<>> THEN 0 ELSE limitTrail'[d][Len(limitTrail'[d])].to
                    /\ \A i \in 1..Len(limitTrail'[d]) :
                         /\ limitTrail'[d][i].from # limitTrail'[d][i].to
                         /\ limitTrail'[d][i].from = IF i = 1 THEN 0 ELSE limitTrail'[d][i-1].to
  BY DEF LimitTrailChains
<1>11. CASE d # c
  BY <1>8, <1>11 DEF LimitTrailChains
<1>12. CASE d = c
  <2>1. creditLimit'[c] = limitTrail'[c][n + 1].to
    BY <1>5, <1>6, <1>9
  <2>2. ASSUME NEW i \in 1..(n + 1)
        PROVE  /\ limitTrail'[c][i].from # limitTrail'[c][i].to
               /\ limitTrail'[c][i].from = IF i = 1 THEN 0 ELSE limitTrail'[c][i-1].to
    <3>1. CASE i = n + 1
      <4>1. i # 1 => n \in 1..n /\ i - 1 = n /\ n # 0
        BY <1>3, <3>1
      <4> QED
        BY <1>3, <1>6, <1>7, <1>9, <3>1, <4>1
    <3>2. CASE i \in 1..n
      <4>1. i # 1 => i - 1 \in 1..n
        BY <1>3, <3>2
      <4> QED
        BY <1>6, <1>10, <3>2, <4>1
    <3> QED
      BY <1>3, <3>1, <3>2
  <2> QED
    BY <1>6, <1>12, <2>1, <2>2
<1> QED
  BY <1>11, <1>12

-----------------------------------------------------------------------------
(* The invariants of the run, for every value of the constants *)

\* Which steps move money or limits: a commit of the one or of the other.
LEMMA WhoWrites ==
  ASSUME TypeOK, WNext
  PROVE  \/ UNCHANGED <<ledger, creditLimit, limitTrail, balance>>
         \/ /\ \E k \in Calls, out \in {"applied", "lost"} : Commit(k, out)
            /\ UNCHANGED <<creditLimit, limitTrail>>
         \/ /\ \E k \in LimitCalls, out \in {"applied", "lost"} : LimitCommit(k, out)
            /\ UNCHANGED <<ledger, balance>>
<1>1. ASSUME NEW k \in AllCalls, Quiet(k) PROVE UNCHANGED <<ledger, creditLimit, limitTrail, balance>>
  BY <1>1 DEF Quiet
<1>2. ASSUME NEW c, SoftDelete(c) \/ Restore(c) PROVE UNCHANGED <<ledger, creditLimit, limitTrail, balance>>
  BY <1>2 DEF SoftDelete, Restore, walletVars
<1>3. ASSUME NEW k, NEW out, Commit(k, out) PROVE UNCHANGED <<creditLimit, limitTrail>>
  BY <1>3 DEF Commit
<1>4. ASSUME NEW k, NEW out, LimitCommit(k, out) PROVE UNCHANGED <<ledger, balance>>
  BY <1>4 DEF LimitCommit
<1> QED
  BY QuietSteps, <1>1, <1>2, <1>3, <1>4 DEF WNext, AllCalls

\* The inductive invariant holds of empty wallets.
LEMMA IInvInit == WInit => IInv
<1> SUFFICES ASSUME WInit PROVE IInv
  OBVIOUS
<1>1. TypeOK
  BY TypeInit
<1>2. SnapshotIsCurrent /\ AmountsNonzero
  BY DEF WInit, SnapshotIsCurrent, Current, AmountsNonzero, AllCalls
<1>3. LedgerInv /\ LimitTrailChains
  BY DEF WInit, Init, LedgerInv, BalanceIsLedger, BalanceOf, OncePerRequest, OncePerReference, LimitTrailChains
<1> QED
  BY <1>1, <1>2, <1>3 DEF IInv

\* Every step preserves it, each conjunct by the lemma above that carries its name.
LEMMA IInvStep == IInv /\ [WNext]_vars => IInv'
<1> SUFFICES ASSUME IInv, [WNext]_vars PROVE IInv'
  OBVIOUS
<1>1. TypeOK'
  BY TypeStep DEF IInv
<1>2. CASE UNCHANGED vars
  <2>1. SnapshotIsCurrent' /\ AmountsNonzero'
    BY <1>2 DEF IInv, SnapshotIsCurrent, Current, AmountsNonzero, vars, walletVars, txnVars
  <2>2. LedgerInv' /\ LimitTrailChains'
    BY <1>2 DEF IInv, LedgerInv, BalanceIsLedger, BalanceOf, OncePerRequest, OncePerReference,
                LimitTrailChains, vars, walletVars
  <2> QED
    BY <1>1, <2>1, <2>2 DEF IInv
<1>3. CASE WNext
  <2>1. SnapshotIsCurrent' /\ AmountsNonzero'
    BY <1>3, SnapshotStep, AmountsStep DEF IInv
  <2>2. LedgerInv'
    <3>1. CASE UNCHANGED <<ledger, balance>>
      <4>1. BalanceIsLedger /\ OncePerRequest /\ OncePerReference
        BY DEF IInv, LedgerInv
      <4>2. BalanceIsLedger'
        BY <3>1, <4>1 DEF BalanceIsLedger, BalanceOf
      <4>3. OncePerRequest' /\ OncePerReference'
        BY <3>1, <4>1 DEF OncePerRequest, OncePerReference
      <4> QED
        BY <4>2, <4>3 DEF LedgerInv
    <3>2. CASE \E k \in Calls, out \in {"applied", "lost"} : Commit(k, out)
      BY <3>2, BalanceStep, UniquenessStep DEF IInv, LedgerInv
    <3> QED
      BY <1>3, <3>1, <3>2, WhoWrites DEF IInv
  <2>3. LimitTrailChains'
    <3>1. CASE UNCHANGED <<creditLimit, limitTrail>>
      BY <3>1 DEF IInv, LimitTrailChains
    <3>2. CASE \E k \in LimitCalls, out \in {"applied", "lost"} : LimitCommit(k, out)
      BY <3>2, LimitTrailStep DEF IInv
    <3> QED
      BY <1>3, <3>1, <3>2, WhoWrites DEF IInv
  <2> QED
    BY <1>1, <2>1, <2>2, <2>3 DEF IInv
<1> QED
  BY <1>2, <1>3

\* So it holds in every reachable state.
LEMMA IInvAlways == WSpec => []IInv
BY IInvInit, IInvStep, PTL DEF WSpec

\* The cached balance never drifts from the ledger.
THEOREM BalanceCorrect == WSpec => []BalanceIsLedger
<1>1. IInv => BalanceIsLedger
  BY DEF IInv, LedgerInv
<1> QED
  BY IInvAlways, <1>1, PTL

\* Retries, double clicks and races book an operation once.
THEOREM RequestsOnce == WSpec => []OncePerRequest
<1>1. IInv => OncePerRequest
  BY DEF IInv, LedgerInv
<1> QED
  BY IInvAlways, <1>1, PTL

\* A bank reference is credited to one seller, once.
THEOREM ReferencesOnce == WSpec => []OncePerReference
<1>1. IInv => OncePerReference
  BY DEF IInv, LedgerInv
<1> QED
  BY IInvAlways, <1>1, PTL

\* The history of a credit limit has no gap and no invented step.
THEOREM LimitTrailCorrect == WSpec => []LimitTrailChains
<1>1. IInv => LimitTrailChains
  BY DEF IInv
<1> QED
  BY IInvAlways, <1>1, PTL

\* No debit passes the limit in force when it commits.
THEOREM DebitsCorrect == WSpec => DebitsStayWithinLimit
<1>1. IInv /\ [WNext]_vars =>
        [\A c \in Customers : balance'[c] < balance[c] => balance'[c] >= -creditLimit[c]]_vars
  <2> SUFFICES ASSUME IInv, WNext, NEW c \in Customers, balance'[c] < balance[c]
               PROVE  balance'[c] >= -creditLimit[c]
    OBVIOUS
  <2>1. balance[c] \in Int /\ creditLimit[c] \in Int
    BY DEF IInv, TypeOK
  <2>2. PICK k \in Calls, out \in {"applied", "lost"} : Commit(k, out)
    BY <2>1, WhoWrites DEF IInv
  <2>3. op[k] \in Ops /\ op[k].cust \in Customers /\ op[k].amount \in Int
    BY <2>2, OpsAssumption DEF Commit, IInv, TypeOK
  <2>4. snap[k] = balance[op[k].cust] /\ GuardOK(snap[k], creditLimit[op[k].cust], op[k].amount)
    BY <2>2 DEF Commit, IInv, SnapshotIsCurrent, Current, AllCalls
  <2>5. balance' = [balance EXCEPT ![op[k].cust] = snap[k] + op[k].amount]
    BY <2>2 DEF Commit
  <2>6. c = op[k].cust
    BY <2>1, <2>5 DEF IInv, TypeOK
  <2>7. balance'[c] = balance[c] + op[k].amount
    BY <2>3, <2>4, <2>5, <2>6 DEF IInv, TypeOK
  <2> QED
    BY <2>1, <2>3, <2>4, <2>6, <2>7 DEF GuardOK
<1> QED
  BY <1>1, IInvAlways, PTL DEF WSpec, DebitsStayWithinLimit

\* A deleted seller's wallet does not move, even under calls that read it before.
THEOREM DeletedFrozen == WSpec => DeletedWalletIsFrozen
<1>1. IInv /\ [WNext]_vars =>
        [\A c \in deleted : ledger'[c] = ledger[c] /\ creditLimit'[c] = creditLimit[c]]_vars
  <2> SUFFICES ASSUME IInv, WNext, NEW c \in deleted
               PROVE  ledger'[c] = ledger[c] /\ creditLimit'[c] = creditLimit[c]
    OBVIOUS
  <2>1. ASSUME NEW k \in Calls, NEW out, Commit(k, out) PROVE ledger'[c] = ledger[c]
    BY <2>1 DEF Commit, IInv, SnapshotIsCurrent, Current, AllCalls, TypeOK
  <2>2. ASSUME NEW k \in LimitCalls, NEW out, LimitCommit(k, out) PROVE creditLimit'[c] = creditLimit[c]
    BY <2>2 DEF LimitCommit, IInv, SnapshotIsCurrent, Current, AllCalls, TypeOK
  <2> QED
    BY <2>1, <2>2, WhoWrites DEF IInv
<1> QED
  BY <1>1, IInvAlways, PTL DEF WSpec, DeletedWalletIsFrozen

\* The concurrent service implements the atomic ledger: a commit is a posting or a
\* change of limit, every other step is invisible.
THEOREM Refinement == WSpec => ImplementsLedger
<1>1. WInit => Init
  BY DEF WInit
<1>2. IInv /\ [WNext]_vars => [Next]_walletVars
  <2> SUFFICES ASSUME IInv, [WNext]_vars PROVE [Next]_walletVars
    OBVIOUS
  <2>1. CASE UNCHANGED vars
    BY <2>1 DEF vars
  <2>2. ASSUME NEW k \in Calls, NEW out, Commit(k, out) PROVE Next
    <3>1. op[k] \in Ops /\ op[k].cust \in Customers /\ op[k].amount # 0
      BY <2>2, OpsAssumption DEF Commit, IInv, TypeOK, AmountsNonzero
    <3>2. /\ snap[k] = BalanceOf(op[k].cust)
          /\ GuardOK(BalanceOf(op[k].cust), creditLimit[op[k].cust], op[k].amount)
      BY <2>2, <3>1 DEF Commit, IInv, SnapshotIsCurrent, Current, AllCalls, LedgerInv, BalanceIsLedger
    <3>3. Post(op[k])
      BY <2>2, <3>1, <3>2 DEF Commit, Post
    <3> QED
      BY <3>1, <3>3 DEF Next
  <2>3. ASSUME NEW k \in LimitCalls, NEW out, LimitCommit(k, out) PROVE Next
    <3>1. op[k] \in LimitOps
      BY <2>3 DEF LimitCommit, IInv, TypeOK
    <3>2. SetLimit(op[k])
      BY <2>3 DEF LimitCommit, IInv, SnapshotIsCurrent, Current, AllCalls, SetLimit
    <3> QED
      BY <3>1, <3>2 DEF Next
  <2> QED
    BY <2>1, <2>2, <2>3, WhoWrites DEF IInv, walletVars
<1> QED
  BY <1>1, <1>2, IInvAlways, PTL DEF WSpec, ImplementsLedger, Spec

-----------------------------------------------------------------------------
(* What callers are told *)

\* A call has an answer exactly when it is done; then its operation is settled.
AnsweredWhenDone == \A k \in AllCalls : pc[k] = "done" <=> answer[k] # "none"

RowFor(k, i) ==
  LET r == ledger[op[k].cust][i] IN
  /\ r.kind = op[k].kind /\ r.req = op[k].req
  /\ Booked(k) \/ op[k].strict => r.amount = op[k].amount

\* A step of k that books nothing: only k's answer may change, and to "replayed"
\* only before the row it replays.
LEMMA QuietAnswers ==
  ASSUME TypeOK, AnsweredWhenDone,
         NEW k \in AllCalls,
         \/ k \in Calls /\ \E o \in Ops : Call(k, o)
         \/ k \in Calls /\ (PreCheck(k) \/ Read(k) \/ Duplicate(k) \/ Fallback(k))
         \/ k \in LimitCalls /\ \E o \in LimitOps : LimitCall(k, o)
         \/ LimitRead(k) \/ Conflict(k) \/ Abort(k)
  PROVE  /\ \A j \in AllCalls \ {k} : answer'[j] = answer[j]
         /\ ~Booked(k) /\ ~Booked(k)'
         /\ pc'[k] = "done" <=> answer'[k] # "none"
         /\ k \in Calls /\ answer'[k] = "replayed" =>
              \E i \in 1..Len(ledger[op[k].cust]) :
                LET r == ledger[op[k].cust][i] IN
                /\ r.kind = op[k].kind /\ r.req = op[k].req
                /\ op[k].strict => r.amount = op[k].amount
                /\ op' = op
<1> USE CallsAssumption DEF TypeOK, Booked, AnsweredWhenDone, AllCalls, PCs, Answers
<1>1. ASSUME NEW o, Call(k, o) \/ LimitCall(k, o)
      PROVE  /\ \A j \in AllCalls \ {k} : answer'[j] = answer[j]
             /\ answer'[k] \in {"none", "badrequest"} /\ ~Booked(k)
             /\ pc'[k] = "done" <=> answer'[k] # "none"
  BY <1>1 DEF Call, LimitCall, Answer, Goto
<1>2. CASE PreCheck(k) \/ Duplicate(k) \/ Conflict(k) \/ Abort(k) \/ LimitRead(k)
  BY <1>2 DEF PreCheck, Duplicate, Conflict, Abort, LimitRead, Answer, Goto
<1>3. CASE Read(k) \/ Fallback(k)
  <2>1. /\ \A j \in AllCalls \ {k} : answer'[j] = answer[j]
        /\ pc[k] # "done" /\ op' = op
        /\ answer'[k] \in {"none", "replayed", "mismatch", "notfound", "insufficient", "exttaken", "error"}
        /\ pc'[k] = "done" <=> answer'[k] # "none"
    BY <1>3 DEF Read, Fallback, Replay, Answer, Goto
  <2>2. ASSUME answer'[k] = "replayed"
        PROVE  Posted(op[k]) /\ Replay(k)
    BY <1>3, <2>2 DEF Read, Fallback, Replay, Answer, Goto
  <2>3. ASSUME answer'[k] = "replayed"
        PROVE  \E i \in 1..Len(ledger[op[k].cust]) :
                 LET r == ledger[op[k].cust][i] IN
                 /\ r.kind = op[k].kind /\ r.req = op[k].req
                 /\ op[k].strict => r.amount = op[k].amount
    BY <2>2, <2>3 DEF Posted, Replay, Answer
  <2> QED
    BY <2>1, <2>3
<1> QED
  BY <1>1, <1>2, <1>3

AInv == AnsweredWhenDone /\ AnswersMatchLedger

\* A quiet step of k leaves every other call's answer, and the ledger, as they were.
LEMMA AnswersQuiet ==
  ASSUME IInv, AInv,
         NEW k \in AllCalls,
         \/ k \in Calls /\ \E o \in Ops : Call(k, o)
         \/ k \in Calls /\ (PreCheck(k) \/ Read(k) \/ Duplicate(k) \/ Fallback(k))
         \/ k \in LimitCalls /\ \E o \in LimitOps : LimitCall(k, o)
         \/ LimitRead(k) \/ Conflict(k) \/ Abort(k)
  PROVE  AInv'
<1>1. /\ ledger' = ledger
      /\ \A j \in AllCalls \ {k} : pc'[j] = pc[j] /\ op'[j] = op[j] /\ answer'[j] = answer[j]
      /\ ~Booked(k) /\ ~Booked(k)'
      /\ pc'[k] = "done" <=> answer'[k] # "none"
  BY QuietSteps, QuietAnswers DEF IInv, AInv, Quiet
<1>2. AnsweredWhenDone'
  BY <1>1 DEF AInv, AnsweredWhenDone
<1>3. ASSUME NEW j \in Calls, Booked(j)' \/ answer'[j] = "replayed"
      PROVE  \E i \in 1..Len(ledger'[op'[j].cust]) : RowFor(j, i)'
  <2>1. CASE j = k
    <3>1. k \in Calls /\ answer'[k] = "replayed"
      BY <1>1, <1>3, <2>1
    <3>2. PICK i \in 1..Len(ledger[op[k].cust]) :
            LET r == ledger[op[k].cust][i] IN
            /\ r.kind = op[k].kind /\ r.req = op[k].req
            /\ op[k].strict => r.amount = op[k].amount
            /\ op' = op
      BY <3>1, QuietAnswers DEF IInv, AInv
    <3> QED
      BY <1>1, <2>1, <3>2 DEF RowFor
  <2>2. CASE j # k
    <3>1. PICK i \in 1..Len(ledger[op[j].cust]) : RowFor(j, i)
      BY <1>1, <1>3, <2>2 DEF AInv, AnswersMatchLedger, RowFor, AllCalls, Booked
    <3> QED
      BY <1>1, <2>2, <3>1 DEF RowFor, AllCalls, Booked
  <2> QED
    BY <2>1, <2>2
<1>4. ASSUME NEW c \in Customers, NEW i \in 1..Len(ledger'[c])
      PROVE  \E j \in Calls : /\ Booked(j)' /\ op'[j].cust = c
                              /\ op'[j].kind = ledger'[c][i].kind /\ op'[j].req = ledger'[c][i].req
  <2>1. PICK j \in Calls : /\ Booked(j) /\ op[j].cust = c
                           /\ op[j].kind = ledger[c][i].kind /\ op[j].req = ledger[c][i].req
    BY <1>1, <1>4 DEF AInv, AnswersMatchLedger
  <2>2. j # k /\ j \in AllCalls
    BY <1>1, <2>1 DEF AllCalls
  <2> QED
    BY <1>1, <2>1, <2>2 DEF Booked
<1>5. ASSUME NEW i \in Calls, NEW j \in Calls, Booked(i)', Booked(j)',
             op'[i].cust = op'[j].cust, op'[i].kind = op'[j].kind, op'[i].req = op'[j].req
      PROVE  i = j
  <2>1. i # k /\ j # k /\ i \in AllCalls /\ j \in AllCalls
    BY <1>1, <1>5 DEF AllCalls
  <2>2. Booked(i) /\ Booked(j) /\ op'[i] = op[i] /\ op'[j] = op[j]
    BY <1>1, <1>5, <2>1 DEF Booked
  <2> QED
    BY <1>5, <2>2 DEF AInv, AnswersMatchLedger
<1> QED
  BY <1>2, <1>3, <1>4, <1>5 DEF AInv, AnswersMatchLedger, RowFor

\* A commit books the one row its answer speaks of.
LEMMA AnswersCommit ==
  ASSUME IInv, AInv,
         NEW k \in Calls, NEW out \in {"applied", "lost"}, Commit(k, out)
  PROVE  AInv'
<1> DEFINE c == op[k].cust
           n == Len(ledger[c])
           r == NewRow(op[k], BalanceOf(c))
<1>1. /\ c \in Customers /\ n \in Nat
      /\ Len(ledger'[c]) = n + 1
      /\ ledger'[c][n + 1] = r
      /\ \A i \in 1..n : ledger'[c][i] = ledger[c][i]
      /\ \A d \in Customers \ {c} : ledger'[d] = ledger[d]
  BY CommitAppends DEF IInv, LedgerInv
<1>2. r.kind = op[k].kind /\ r.req = op[k].req /\ r.amount = op[k].amount
  BY DEF NewRow
<1>3. c = op[k].cust /\ n = Len(ledger[c])
  OBVIOUS
<1>4. /\ op' = op /\ answer'[k] = out /\ pc'[k] = "done" /\ pc[k] = "write"
      /\ \A j \in AllCalls \ {k} : answer'[j] = answer[j] /\ pc'[j] = pc[j]
  BY DEF Commit, Answer, IInv, TypeOK, AllCalls
<1>5. ~Booked(k) /\ Booked(k)'
  BY <1>4 DEF AInv, AnsweredWhenDone, Booked, AllCalls
<1>6. \A i \in 1..n : ~(ledger[c][i].kind = op[k].kind /\ ledger[c][i].req = op[k].req)
  BY DEF Commit, Posted
<1> HIDE DEF c, n, r
<1>7. AnsweredWhenDone'
  BY <1>4 DEF AInv, AnsweredWhenDone
<1>8. \A d \in Customers : \A i \in 1..Len(ledger[d]) :
        i \in 1..Len(ledger'[d]) /\ ledger'[d][i] = ledger[d][i]
  BY <1>1, <1>3
<1>9. ASSUME NEW j \in Calls, Booked(j)' \/ answer'[j] = "replayed"
      PROVE  \E i \in 1..Len(ledger'[op'[j].cust]) : RowFor(j, i)'
  <2>1. CASE j = k
    <3>1. n + 1 \in 1..Len(ledger'[c])
      BY <1>1
    <3> QED
      BY <1>1, <1>2, <1>3, <1>4, <2>1, <3>1 DEF RowFor
  <2>2. CASE j # k
    <3>1. answer'[j] = answer[j] /\ pc[j] = "done"
      BY <1>4, <1>9, <2>2 DEF AInv, AnsweredWhenDone, AllCalls, Booked
    <3>2. op[j].cust \in Customers
      BY <3>1, OpsAssumption DEF IInv, TypeOK
    <3>3. PICK i \in 1..Len(ledger[op[j].cust]) : RowFor(j, i)
      BY <1>9, <3>1 DEF AInv, AnswersMatchLedger, RowFor, Booked
    <3> QED
      BY <1>4, <1>8, <3>1, <3>2, <3>3 DEF RowFor, Booked
  <2> QED
    BY <2>1, <2>2
<1>10. ASSUME NEW d \in Customers, NEW i \in 1..Len(ledger'[d])
       PROVE  \E j \in Calls : /\ Booked(j)' /\ op'[j].cust = d
                               /\ op'[j].kind = ledger'[d][i].kind /\ op'[j].req = ledger'[d][i].req
  <2>1. CASE i \in 1..Len(ledger[d]) /\ ledger'[d][i] = ledger[d][i]
    <3>1. PICK j \in Calls : /\ Booked(j) /\ op[j].cust = d
                             /\ op[j].kind = ledger[d][i].kind /\ op[j].req = ledger[d][i].req
      BY <2>1 DEF AInv, AnswersMatchLedger
    <3>2. j # k /\ j \in AllCalls
      BY <1>5, <3>1 DEF AllCalls
    <3> QED
      BY <1>4, <2>1, <3>1, <3>2 DEF Booked
  <2>2. CASE d = c /\ i = n + 1
    BY <1>1, <1>2, <1>3, <1>4, <1>5, <2>2
  <2>3. CASE d # c
    BY <1>1, <1>10, <2>1, <2>3
  <2>4. d = c => i \in 1..n \/ i = n + 1
    BY <1>1, <1>10
  <2> QED
    BY <1>1, <1>3, <2>1, <2>2, <2>3, <2>4
<1>11. ASSUME NEW j \in Calls, Booked(j), j # k,
              op[j].cust = op[k].cust, op[j].kind = op[k].kind, op[j].req = op[k].req
       PROVE  FALSE
  <2>1. PICK i \in 1..Len(ledger[op[j].cust]) : RowFor(j, i)
    BY <1>11 DEF AInv, AnswersMatchLedger, RowFor
  <2> QED
    BY <1>3, <1>6, <1>11, <2>1 DEF RowFor
<1>12. ASSUME NEW i \in Calls, NEW j \in Calls, Booked(i)', Booked(j)',
              op'[i].cust = op'[j].cust, op'[i].kind = op'[j].kind, op'[i].req = op'[j].req
       PROVE  i = j
  <2>1. (i # k => Booked(i)) /\ (j # k => Booked(j))
    BY <1>4, <1>12 DEF Booked, AllCalls
  <2>2. CASE i # k /\ j # k
    BY <1>4, <1>12, <2>1, <2>2 DEF AInv, AnswersMatchLedger
  <2> QED
    BY <1>4, <1>11, <1>12, <2>1, <2>2
<1> QED
  BY <1>7, <1>9, <1>10, <1>12 DEF AInv, AnswersMatchLedger, RowFor

\* The answers clients act on (and retry on) tell the truth about the ledger.
THEOREM AnswersCorrect == WSpec => []AnswersMatchLedger
<1>1. WInit => AInv
  BY DEF WInit, Init, AInv, AnsweredWhenDone, AnswersMatchLedger, Booked, AllCalls
<1>2. IInv /\ AInv /\ [WNext]_vars => AInv'
  <2> SUFFICES ASSUME IInv, AInv, [WNext]_vars PROVE AInv'
    OBVIOUS
  <2>1. CASE UNCHANGED vars
    BY <2>1 DEF vars, walletVars, AInv, AnsweredWhenDone, AnswersMatchLedger, Booked
  <2>2. ASSUME NEW k \in LimitCalls, NEW out \in {"applied", "lost"}, LimitCommit(k, out) PROVE AInv'
    <3>1. /\ UNCHANGED <<ledger, op>> /\ answer'[k] = out /\ pc'[k] = "done"
          /\ \A j \in AllCalls \ {k} : answer'[j] = answer[j] /\ pc'[j] = pc[j]
      BY <2>2 DEF LimitCommit, Answer, IInv, TypeOK, AllCalls
    <3>2. AnsweredWhenDone'
      BY <3>1 DEF AInv, AnsweredWhenDone
    <3>3. \A j \in Calls : answer'[j] = answer[j]
      BY <3>1, CallsAssumption DEF AllCalls
    <3> QED
      BY <3>1, <3>2, <3>3 DEF AInv, AnswersMatchLedger, Booked
  <2>3. ASSUME NEW d, SoftDelete(d) \/ Restore(d) PROVE AInv'
    BY <2>3 DEF SoftDelete, Restore, walletVars, AInv, AnsweredWhenDone, AnswersMatchLedger, Booked
  <2> QED
    BY <2>1, <2>2, <2>3, AnswersQuiet, AnswersCommit DEF WNext, AllCalls
<1>3. AInv => AnswersMatchLedger
  BY DEF AInv
<1> QED
  BY <1>1, <1>2, <1>3, IInvAlways, PTL DEF WSpec
=============================================================================
