-------------------------- MODULE PushOrder_proofs --------------------------
(***************************************************************************)
(* What pushToProduction guarantees for any number of orders, pushes,      *)
(* edits and cancellations                                                 *)
(***************************************************************************)
EXTENDS PushOrder, TLAPS

-----------------------------------------------------------------------------
(* Type correctness *)

\* The initial state is well typed.
LEMMA TypeInit == Init => TypeOK
<1> SUFFICES ASSUME Init PROVE TypeOK
  OBVIOUS
<1> USE DEF Init
<1>1. staging \in [Orders -> Doc] /\ \A o \in Orders : staging[o].draft \in DraftsOf[o]
  BY DEF Doc
<1>2. request \in [Requests -> [what: {"idle", "edit", "cancel", "done"},
                                order: Orders \cup {Nobody}, draft: Drafts \cup {NoDraft}]]
  BY DEF Idle
<1>3. \A r \in Requests : request[r].what = "idle"
  BY DEF Idle
<1> QED
  BY <1>1, <1>2, <1>3 DEF TypeOK, PCs

\* A write to one order that leaves it an order, of a draft it may have, keeps them all so.
LEMMA WriteOne ==
  ASSUME TypeOK, NEW o \in Orders, NEW d \in Doc, d.draft \in DraftsOf[o],
         staging' = [staging EXCEPT ![o] = d]
  PROVE  staging' \in [Orders -> Doc] /\ \A q \in Orders : staging'[q].draft \in DraftsOf[q]
<1>1. staging \in [Orders -> Doc] /\ \A q \in Orders : staging[q].draft \in DraftsOf[q]
  BY DEF TypeOK
<1> QED
  BY <1>1

\* What DraftFor chooses is a draft.
LEMMA DraftForType ==
  ASSUME TypeOK, NEW k \in Pushes, pc[k] # "idle", NEW p \in Rows(k)
  PROVE  DraftFor(k, p) \in Drafts
<1>1. PICK o \in won[k] : p \in ItemsOf[docs[k][o].draft]
  BY DEF Rows
<1>2. \E d \in {docs[k][q].draft : q \in won[k]} : p \in ItemsOf[d]
  BY <1>1
<1>3. DraftFor(k, p) \in {docs[k][q].draft : q \in won[k]}
  BY <1>2 DEF DraftFor
<1>4. \A q \in won[k] : docs[k][q].draft \in Drafts
  BY DEF TypeOK, Doc
<1> QED
  BY <1>3, <1>4

\* Every action keeps every variable in its type: above all, a push works on orders of
\* its own, as it read them, and an edit that is written is one the order may have.
LEMMA TypeStep == TypeOK /\ [Next]_vars => TypeOK'
<1> SUFFICES ASSUME TypeOK, [Next]_vars PROVE TypeOK'
  OBVIOUS
<1> USE DraftsAssumption, PushesAssumption DEF TypeOK, PCs
<1>1. CASE \E k \in Pushes : Load(k)
  <2> PICK k \in Pushes : Load(k)
    BY <1>1
  <2>1. docs' = [j \in Pushes |-> docs'[j]] /\ docs'[k] = [o \in TargetsOf[k] |-> staging[o]]
    BY DEF Load
  <2>2. \A j \in Pushes \ {k} : docs'[j] = docs[j] /\ pc'[j] = pc[j]
    BY DEF Load, Goto
  <2> QED
    BY <2>1, <2>2 DEF Load, Goto
<1>2. CASE \E k \in Pushes : Claimed(k)
  <2> PICK k \in Pushes : Claimed(k)
    BY <1>2
  <2>1. /\ pc' \in [Pushes -> PCs] /\ \A j \in Pushes \ {k} : pc'[j] = pc[j]
        /\ answer' \in [Pushes -> {"none", "nothing", "pushed", "error"}]
    BY DEF Claimed, Goto, Answer
  <2> QED
    BY <2>1 DEF Claimed
<1>3. CASE \E k \in Pushes : Pay(k)
  BY <1>3 DEF Pay, Goto
<1>4. CASE \E k \in Pushes : Throw(k)
  BY <1>4 DEF Throw, Goto
<1>5. CASE \E k \in Pushes : Release(k)
  <2> PICK k \in Pushes : Release(k)
    BY <1>5
  <2>1. ASSUME NEW o \in Orders
        PROVE  staging'[o] \in Doc /\ staging'[o].draft = staging[o].draft
    <3>1. staging[o] \in Doc
      OBVIOUS
    <3>2. [staging[o] EXCEPT !.claim = Nobody, !.stale = FALSE] \in Doc
      BY <3>1 DEF Doc
    <3>3. [staging[o] EXCEPT !.claim = Nobody, !.stale = FALSE].draft = staging[o].draft
      BY <3>1 DEF Doc
    <3> QED
      BY <3>1, <3>2, <3>3 DEF Release
  <2>2. staging' \in [Orders -> Doc]
    BY <2>1 DEF Release
  <2> QED
    BY <2>1, <2>2 DEF Release, Answer
<1>6. CASE \E k \in Pushes : Finish(k)
  BY <1>6 DEF Finish, Answer
<1>7. CASE \E k \in Pushes : Die(k)
  BY <1>7 DEF Die, Answer
<1>8. CASE \E k \in Pushes, o \in Orders : Claim(k, o)
  <2> PICK k \in Pushes, o \in Orders : Claim(k, o)
    BY <1>8
  <2> DEFINE d == [staging[o] EXCEPT !.claim = k, !.stale = FALSE]
  <2>1. d \in Doc /\ d.draft \in DraftsOf[o]
    <3>1. staging[o] \in Doc /\ staging[o].draft \in DraftsOf[o]
      OBVIOUS
    <3>2. d \in Doc
      BY <3>1 DEF Doc
    <3>3. d.draft = staging[o].draft
      BY <3>1 DEF Doc
    <3> QED
      BY <3>1, <3>2, <3>3
  <2>2. staging' \in [Orders -> Doc] /\ \A q \in Orders : staging'[q].draft \in DraftsOf[q]
    <3>1. CASE UNCHANGED staging
      BY <3>1
    <3>2. CASE staging' = [staging EXCEPT ![o].claim = k, ![o].stale = FALSE]
      <4>1. staging' = [staging EXCEPT ![o] = d]
        BY <3>2
      <4> QED
        BY <2>1, <4>1, WriteOne
    <3> QED
      BY <3>1, <3>2 DEF Claim
  <2>3. /\ todo' \in [Pushes -> SUBSET Orders] /\ \A j \in Pushes : todo'[j] \subseteq todo[j]
        /\ won' \in [Pushes -> SUBSET Orders]
        /\ \A j \in Pushes : won'[j] \subseteq todo[j] \cup won[j]
    <3>1. todo' \in [Pushes -> SUBSET Orders] /\ \A j \in Pushes : todo'[j] \subseteq todo[j]
      BY DEF Claim
    <3>2. won' = won \/ won' = [won EXCEPT ![k] = @ \cup {o}]
      BY DEF Claim
    <3>3. o \in todo[k]
      BY DEF Claim
    <3> QED
      BY <3>1, <3>2, <3>3
  <2> QED
    BY <2>2, <2>3 DEF Claim
<1>9. CASE \E k \in Pushes, o \in Orders : Mark(k, o)
  <2> PICK k \in Pushes, o \in Orders : Mark(k, o)
    BY <1>9
  <2>1. docs[k][o] \in Doc /\ docs[k][o].draft \in DraftsOf[o] /\ docs[k][o].draft \in Drafts
    BY DEF Mark, Doc
  <2> DEFINE d == [staging[o] EXCEPT !.draft = docs[k][o].draft, !.pushed = TRUE,
                                     !.payment = k, !.claim = Nobody, !.stale = FALSE]
  <2>2. d \in Doc /\ d.draft \in DraftsOf[o]
    <3>1. staging[o] \in Doc
      OBVIOUS
    <3>2. d \in Doc
      BY <2>1, <3>1 DEF Doc
    <3>3. d.draft = docs[k][o].draft
      BY <3>1 DEF Doc
    <3> QED
      BY <2>1, <3>2, <3>3
  <2>3. staging' \in [Orders -> Doc] /\ \A q \in Orders : staging'[q].draft \in DraftsOf[q]
    <3>1. CASE staging[o].pushed
      BY <3>1 DEF Mark
    <3>2. CASE ~staging[o].pushed
      <4>1. staging' = [staging EXCEPT ![o] = d]
        BY <3>2 DEF Mark
      <4> HIDE DEF d
      <4> QED
        BY <2>2, <4>1, WriteOne
    <3> QED
      BY <3>1, <3>2
  <2>4. won' \in [Pushes -> SUBSET Orders] /\ \A j \in Pushes : won'[j] \subseteq won[j]
    BY DEF Mark
  <2> QED
    BY <2>3, <2>4 DEF Mark
<1>10. CASE \E k \in Pushes, p \in Items, ok \in BOOLEAN : ImportRow(k, p, ok)
  <2> PICK k \in Pushes, p \in Items, ok \in BOOLEAN : ImportRow(k, p, ok)
    BY <1>10
  <2>1. production' \in [Items -> Drafts \cup {NoDraft}]
    <3>1. p \in Rows(k) /\ pc[k] # "idle"
      BY DEF ImportRow
    <3>2. DraftFor(k, p) \in Drafts
      BY <3>1, DraftForType
    <3>3. \/ production' = production
          \/ production' = [production EXCEPT ![p] = DraftFor(k, p)]
      BY DEF ImportRow
    <3> QED
      BY <3>2, <3>3
  <2>2. /\ handled' \in [Pushes -> SUBSET Items] /\ skipped' \in [Pushes -> SUBSET Items]
        /\ \A j \in Pushes : skipped'[j] \subseteq handled'[j]
    <3>1. handled' = [handled EXCEPT ![k] = @ \cup {p}]
      BY DEF ImportRow
    <3>2. skipped' = skipped \/ skipped' = [skipped EXCEPT ![k] = @ \cup {p}]
      BY DEF ImportRow
    <3> QED
      BY <3>1, <3>2
  <2> QED
    BY <2>1, <2>2 DEF ImportRow
<1>11. CASE \E k \in Pushes, written \in SUBSET Items : Cost(k, written)
  <2> PICK k \in Pushes, written \in SUBSET Items : Cost(k, written)
    BY <1>11
  <2>1. \A p \in written : DraftFor(k, p) \in Drafts
    BY DraftForType DEF Cost
  <2>2. costs' \in [Items -> Drafts \cup {NoDraft}]
    BY <2>1 DEF Cost
  <2> QED
    BY <2>2 DEF Cost, Goto
<1>12. CASE \E o \in Orders : GoStale(o) \/ Trash(o) \/ Restore(o)
  <2> PICK o \in Orders : GoStale(o) \/ Trash(o) \/ Restore(o)
    BY <1>12
  <2> DEFINE after == {[staging[o] EXCEPT !.stale = TRUE], [staging[o] EXCEPT !.trashed = TRUE],
                       [staging[o] EXCEPT !.trashed = FALSE]}
  <2>1. PICK d \in after : staging' = [staging EXCEPT ![o] = d]
    BY DEF GoStale, Trash, Restore
  <2>2. d \in Doc /\ d.draft \in DraftsOf[o]
    <3>1. staging[o] \in Doc /\ staging[o].draft \in DraftsOf[o]
      OBVIOUS
    <3>2. /\ [staging[o] EXCEPT !.stale = TRUE] \in Doc
          /\ [staging[o] EXCEPT !.trashed = TRUE] \in Doc
          /\ [staging[o] EXCEPT !.trashed = FALSE] \in Doc
      BY <3>1 DEF Doc
    <3>3. \A e \in after : e.draft = staging[o].draft
      BY <3>1 DEF Doc
    <3> QED
      BY <3>1, <3>2, <3>3
  <2>3. staging' \in [Orders -> Doc] /\ \A q \in Orders : staging'[q].draft \in DraftsOf[q]
    BY <2>1, <2>2, WriteOne
  <2> QED
    BY <2>3 DEF GoStale, Trash, Restore, pushVars
<1>13. CASE \E r \in Requests : Write(r)
  <2> PICK r \in Requests : Write(r)
    BY <1>13
  <2> DEFINE q == request[r]
             d == [staging[q.order] EXCEPT !.draft = q.draft]
             e == [staging[q.order] EXCEPT !.cancelled = TRUE]
  <2>1. q.order \in Orders /\ staging[q.order] \in Doc
    BY DEF Write
  <2>2. staging' \in [Orders -> Doc] /\ \A o \in Orders : staging'[o].draft \in DraftsOf[o]
    <3>1. CASE q.what = "edit"
      <4>1. q.draft \in DraftsOf[q.order] /\ q.draft \in Drafts
        BY <2>1, <3>1
      <4>2. d \in Doc /\ d.draft = q.draft
        BY <2>1, <4>1 DEF Doc
      <4>3. staging' = [staging EXCEPT ![q.order] = d]
        BY <3>1 DEF Write
      <4> HIDE DEF d
      <4> QED
        BY <2>1, <4>1, <4>2, <4>3, WriteOne
    <3>2. CASE q.what # "edit"
      <4>1. e \in Doc /\ e.draft \in DraftsOf[q.order]
        BY <2>1 DEF Doc
      <4>2. staging' = [staging EXCEPT ![q.order] = e]
        BY <3>2 DEF Write
      <4> HIDE DEF e
      <4> QED
        BY <2>1, <4>1, <4>2, WriteOne
    <3> QED
      BY <3>1, <3>2
  <2>3. /\ request' \in [Requests -> [what: {"idle", "edit", "cancel", "done"},
                                      order: Orders \cup {Nobody}, draft: Drafts \cup {NoDraft}]]
        /\ request'[r].what = "done" /\ \A j \in Requests \ {r} : request'[j] = request[j]
    <3>1. request' = [request EXCEPT ![r] = [request[r] EXCEPT !.what = "done"]]
      BY DEF Write
    <3>2. request[r] \in [what: {"idle", "edit", "cancel", "done"},
                          order: Orders \cup {Nobody}, draft: Drafts \cup {NoDraft}]
      OBVIOUS
    <3>3. /\ [request[r] EXCEPT !.what = "done"] \in
                [what: {"idle", "edit", "cancel", "done"},
                 order: Orders \cup {Nobody}, draft: Drafts \cup {NoDraft}]
          /\ [request[r] EXCEPT !.what = "done"].what = "done"
      BY <3>2
    <3> QED
      BY <3>1, <3>3
  <2> QED
    BY <2>2, <2>3 DEF Write, pushVars
<1>14. CASE \E r \in Requests, o \in Orders : Cancel(r, o)
  BY <1>14 DEF Cancel, pushVars
<1>15. CASE \E r \in Requests, o \in Orders, d \in Drafts : Edit(r, o, d)
  BY <1>15 DEF Edit, pushVars
<1>16. CASE UNCHANGED vars
  BY <1>16 DEF vars, pushVars
<1> QED
  BY <1>1, <1>2, <1>3, <1>4, <1>5, <1>6, <1>7, <1>8, <1>9, <1>10, <1>11, <1>12, <1>13, <1>14,
     <1>15, <1>16 DEF Next

\* Every reachable state is well typed, whatever the seller, the staff and the other
\* pushes do, and however long a push takes.
THEOREM TypeCorrect == Spec => []TypeOK
BY TypeInit, TypeStep, PTL DEF Spec
-----------------------------------------------------------------------------
(* A claim is exclusive.  The step that could break it is a claim that takes over a *)
(* stale one: it is harmless because the push that held it is over.                 *)

IdleIsEmpty == \A k \in Pushes : pc[k] = "idle" => won[k] = {}

StaleIsOver ==
  \A o \in Orders :
    staging[o].stale => staging[o].claim \in Pushes /\ pc[staging[o].claim] = "done"

EInv == TypeOK /\ IdleIsEmpty /\ StaleIsOver /\ ClaimIsExclusive /\ TrashedNeverPushed

\* What a step leaves of the part of an order that pushing it is about.
After(o, claim, stale, pushed, payment, trashed) ==
  /\ staging'[o].claim = claim /\ staging'[o].stale = stale
  /\ staging'[o].pushed = pushed /\ staging'[o].payment = payment
  /\ staging'[o].trashed = trashed

\* The ways that part of an order can change in one step, and who changes it.
Untouched(o) ==
  After(o, staging[o].claim, staging[o].stale, staging[o].pushed, staging[o].payment,
        staging[o].trashed)
Taken(k, o) ==
  /\ pc[k] = "claim" /\ o \in todo[k] /\ Claimable(o)
  /\ After(o, k, FALSE, staging[o].pushed, staging[o].payment, staging[o].trashed)
  /\ UNCHANGED pc
Released(k, o) ==
  /\ pc[k] = "release" /\ o \in won[k] /\ ~staging[o].pushed
  /\ After(o, Nobody, FALSE, staging[o].pushed, staging[o].payment, staging[o].trashed)
  /\ pc'[k] = "done" /\ UNCHANGED won
Marked(k, o) ==
  /\ pc[k] = "mark" /\ o \in won[k] /\ ~staging[o].pushed
  /\ After(o, Nobody, FALSE, TRUE, k, staging[o].trashed)
  /\ UNCHANGED pc /\ won' = [won EXCEPT ![k] = @ \ {o}]
Aged(o) ==
  /\ staging[o].claim # Nobody /\ (PushesAreQuick => pc[staging[o].claim] = "done")
  /\ After(o, staging[o].claim, TRUE, staging[o].pushed, staging[o].payment, staging[o].trashed)
  /\ UNCHANGED <<pc, won>>
Trashed(o) ==
  /\ staging[o].claim = Nobody /\ ~staging[o].pushed
  /\ After(o, staging[o].claim, staging[o].stale, staging[o].pushed, staging[o].payment, TRUE)
  /\ UNCHANGED <<pc, won>>
Restored(o) ==
  /\ After(o, staging[o].claim, staging[o].stale, staging[o].pushed, staging[o].payment, FALSE)
  /\ UNCHANGED <<pc, won>>

\* There is no other way.
LEMMA WhoWrites ==
  ASSUME TypeOK, [Next]_vars, NEW o \in Orders
  PROVE  \/ Untouched(o)
         \/ \E k \in Pushes : Taken(k, o) \/ Released(k, o) \/ Marked(k, o)
         \/ Aged(o) \/ Trashed(o) \/ Restored(o)
<1> USE DEF After, Untouched
<1>0. staging \in [Orders -> Doc] /\ staging[o] \in Doc
  BY DEF TypeOK
<1>1. CASE UNCHANGED staging
  BY <1>1
<1>2. CASE \E k \in Pushes : Release(k)
  <2> PICK k \in Pushes : Release(k)
    BY <1>2
  <2>1. CASE o \in won[k] /\ ~staging[o].pushed
    <3>1. staging'[o] = [staging[o] EXCEPT !.claim = Nobody, !.stale = FALSE]
      BY <2>1 DEF Release
    <3>2. After(o, Nobody, FALSE, staging[o].pushed, staging[o].payment, staging[o].trashed)
      BY <1>0, <3>1 DEF Doc
    <3>3. pc'[k] = "done" /\ UNCHANGED won
      BY DEF Release, Answer, TypeOK
    <3> QED
      BY <2>1, <3>2, <3>3 DEF Released, Release
  <2>2. CASE ~(o \in won[k] /\ ~staging[o].pushed)
    <3>1. staging'[o] = staging[o]
      BY <2>2 DEF Release
    <3> QED
      BY <3>1
  <2> QED
    BY <2>1, <2>2
<1>3. CASE \E k \in Pushes, q \in Orders : Claim(k, q) /\ staging' # staging
  <2> PICK k \in Pushes, q \in Orders : Claim(k, q) /\ staging' # staging
    BY <1>3
  <2>1. /\ staging' = [staging EXCEPT ![q] = [staging[q] EXCEPT !.claim = k, !.stale = FALSE]]
        /\ Claimable(q)
    BY DEF Claim
  <2>2. CASE q = o
    <3>1. After(o, k, FALSE, staging[o].pushed, staging[o].payment, staging[o].trashed)
      BY <1>0, <2>1, <2>2 DEF Doc
    <3> QED
      BY <2>1, <2>2, <3>1 DEF Claim, Taken
  <2>3. CASE q # o
    BY <1>0, <2>1, <2>3
  <2> QED
    BY <2>2, <2>3
<1>4. CASE \E k \in Pushes, q \in Orders : Mark(k, q) /\ staging' # staging
  <2> PICK k \in Pushes, q \in Orders : Mark(k, q) /\ staging' # staging
    BY <1>4
  <2>1. /\ ~staging[q].pushed
        /\ staging' = [staging EXCEPT ![q] =
             [staging[q] EXCEPT !.draft = docs[k][q].draft, !.pushed = TRUE, !.payment = k,
                                !.claim = Nobody, !.stale = FALSE]]
    BY DEF Mark
  <2>2. CASE q = o
    <3>1. After(o, Nobody, FALSE, TRUE, k, staging[o].trashed)
      BY <1>0, <2>1, <2>2 DEF Doc
    <3> QED
      BY <2>1, <2>2, <3>1 DEF Mark, Marked
  <2>3. CASE q # o
    BY <1>0, <2>1, <2>3
  <2> QED
    BY <2>2, <2>3
<1>5. CASE \E q \in Orders : GoStale(q) \/ Trash(q) \/ Restore(q)
  <2> PICK q \in Orders : GoStale(q) \/ Trash(q) \/ Restore(q)
    BY <1>5
  <2>0. UNCHANGED <<pc, won>>
    BY DEF GoStale, Trash, Restore, pushVars
  <2>1. CASE q # o
    BY <1>0, <2>1 DEF GoStale, Trash, Restore
  <2>2. CASE q = o /\ GoStale(q)
    <3>1. staging' = [staging EXCEPT ![o] = [staging[o] EXCEPT !.stale = TRUE]]
      BY <2>2 DEF GoStale
    <3>2. After(o, staging[o].claim, TRUE, staging[o].pushed, staging[o].payment,
                staging[o].trashed)
      BY <1>0, <3>1 DEF Doc
    <3> QED
      BY <2>0, <2>2, <3>2 DEF GoStale, Aged
  <2>3. CASE q = o /\ Trash(q)
    <3>1. staging' = [staging EXCEPT ![o] = [staging[o] EXCEPT !.trashed = TRUE]]
      BY <2>3 DEF Trash
    <3>2. After(o, staging[o].claim, staging[o].stale, staging[o].pushed, staging[o].payment, TRUE)
      BY <1>0, <3>1 DEF Doc
    <3> QED
      BY <2>0, <2>3, <3>2 DEF Trash, Trashed
  <2>4. CASE q = o /\ Restore(q)
    <3>1. staging' = [staging EXCEPT ![o] = [staging[o] EXCEPT !.trashed = FALSE]]
      BY <2>4 DEF Restore
    <3>2. After(o, staging[o].claim, staging[o].stale, staging[o].pushed, staging[o].payment, FALSE)
      BY <1>0, <3>1 DEF Doc
    <3> QED
      BY <2>0, <3>2 DEF Restored
  <2> QED
    BY <2>1, <2>2, <2>3, <2>4
<1>6. CASE \E r \in Requests : Write(r)
  <2> PICK r \in Requests : Write(r)
    BY <1>6
  <2>1. \/ staging' = [staging EXCEPT ![request[r].order] =
             [staging[request[r].order] EXCEPT !.draft = request[r].draft]]
        \/ staging' = [staging EXCEPT ![request[r].order] =
             [staging[request[r].order] EXCEPT !.cancelled = TRUE]]
    BY DEF Write
  <2>2. request[r].order \in Orders
    BY DEF Write, TypeOK
  <2>3. CASE request[r].order = o
    BY <1>0, <2>1, <2>3 DEF Doc
  <2>4. CASE request[r].order # o
    BY <1>0, <2>1, <2>2, <2>4
  <2> QED
    BY <2>3, <2>4
<1> QED
  BY <1>1, <1>2, <1>3, <1>4, <1>5, <1>6
  DEF Next, vars, Load, Claimed, Pay, Throw, Finish, Die, ImportRow, Cost, Cancel, Edit

\* A push that is over stays over, one that is under way was under way or idle, and an
\* order joins those it has claimed by a claim.
LEMMA WhoMoves ==
  ASSUME TypeOK, [Next]_vars, NEW k \in Pushes
  PROVE  /\ pc[k] = "done" => pc'[k] = "done"
         /\ pc'[k] = "idle" => pc[k] = "idle"
         /\ \A o \in won'[k] \ won[k] : Taken(k, o)
<1> USE DEF TypeOK
<1>1. CASE \E o \in Orders : Claim(k, o)
  <2> PICK o \in Orders : Claim(k, o)
    BY <1>1
  <2>1. CASE UNCHANGED won
    BY <2>1 DEF Claim
  <2>2. CASE ~UNCHANGED won
    <3>1. /\ staging' = [staging EXCEPT ![o] = [staging[o] EXCEPT !.claim = k, !.stale = FALSE]]
          /\ won' = [won EXCEPT ![k] = @ \cup {o}]
          /\ Claimable(o)
      BY <2>2 DEF Claim
    <3>2. After(o, k, FALSE, staging[o].pushed, staging[o].payment, staging[o].trashed)
      BY <3>1 DEF After, Doc
    <3>3. won'[k] \ won[k] \subseteq {o}
      BY <3>1
    <3> QED
      BY <3>1, <3>2, <3>3 DEF Claim, Taken
  <2> QED
    BY <2>1, <2>2
<1>2. CASE \E j \in Pushes, o \in Orders : Claim(j, o) /\ j # k
  BY <1>2 DEF Claim
<1>3. CASE \E j \in Pushes, o \in Orders : Mark(j, o)
  BY <1>3 DEF Mark
<1>4. CASE \E j \in Pushes : \/ Load(j) \/ Claimed(j) \/ Pay(j) \/ Throw(j) \/ Release(j)
                             \/ Finish(j) \/ Die(j)
                             \/ \E written \in SUBSET Items : Cost(j, written)
  <2> PICK j \in Pushes : \/ Load(j) \/ Claimed(j) \/ Pay(j) \/ Throw(j) \/ Release(j)
                          \/ Finish(j) \/ Die(j)
                          \/ \E written \in SUBSET Items : Cost(j, written)
    BY <1>4
  <2>1. UNCHANGED won /\ pc[j] # "done"
    BY DEF Load, Claimed, Pay, Throw, Release, Finish, Die, Cost
  <2>2. \E where \in PCs \ {"idle"} : pc' = [pc EXCEPT ![j] = where]
    BY DEF Load, Claimed, Pay, Throw, Release, Finish, Die, Cost, Goto, Answer, PCs
  <2> QED
    BY <2>1, <2>2
<1>5. CASE \/ \E j \in Pushes, p \in Items, ok \in BOOLEAN : ImportRow(j, p, ok)
           \/ \E o \in Orders : GoStale(o) \/ Trash(o) \/ Restore(o)
           \/ \E r \in Requests : Write(r)
           \/ \E r \in Requests, o \in Orders : Cancel(r, o)
           \/ \E r \in Requests, o \in Orders, d \in Drafts : Edit(r, o, d)
           \/ UNCHANGED vars
  BY <1>5 DEF vars, pushVars, ImportRow, GoStale, Trash, Restore, Write, Cancel, Edit
<1> QED
  BY <1>1, <1>2, <1>3, <1>4, <1>5 DEF Next

\* The claims stay exclusive.
LEMMA EInvStep == PushesAreQuick /\ EInv /\ [Next]_vars => EInv'
<1> SUFFICES ASSUME PushesAreQuick, EInv, [Next]_vars PROVE EInv'
  OBVIOUS
<1> USE PushesAssumption DEF EInv
<1>1. TypeOK'
  BY TypeStep
<1>2. IdleIsEmpty'
  <2> SUFFICES ASSUME NEW k \in Pushes, pc'[k] = "idle" PROVE won'[k] = {}
    BY DEF IdleIsEmpty
  <2>1. pc[k] = "idle" /\ won[k] = {}
    BY WhoMoves DEF IdleIsEmpty
  <2>2. \A o \in won'[k] : Taken(k, o)
    BY <2>1, WhoMoves
  <2> QED
    BY <2>1, <2>2 DEF Taken
<1>3. StaleIsOver'
  <2> SUFFICES ASSUME NEW o \in Orders, staging'[o].stale
               PROVE  staging'[o].claim \in Pushes /\ pc'[staging'[o].claim] = "done"
    BY DEF StaleIsOver
  <2>1. staging[o].claim = staging'[o].claim /\ staging'[o].claim \in Pushes
        /\ pc[staging[o].claim] = "done"
    <3>1. staging[o].claim \in Pushes \cup {Nobody}
      BY DEF TypeOK, Doc
    <3>2. CASE Aged(o)
      BY <3>1, <3>2 DEF Aged, After
    <3>3. CASE Untouched(o) \/ Trashed(o) \/ Restored(o)
      BY <3>1, <3>3 DEF Untouched, Trashed, Restored, After, StaleIsOver
    <3>4. CASE \E k \in Pushes : Taken(k, o) \/ Released(k, o) \/ Marked(k, o)
      BY <3>4 DEF Taken, Released, Marked, After
    <3> QED
      BY <3>2, <3>3, <3>4, WhoWrites
  <2> QED
    BY <2>1, WhoMoves
<1>4. ClaimIsExclusive'
  <2> SUFFICES ASSUME NEW k \in Pushes, NEW o \in won'[k], Live(k)'
               PROVE  staging'[o].claim = k /\ ~staging'[o].pushed /\ ~staging'[o].trashed
    BY DEF ClaimIsExclusive
  <2>0. o \in Orders /\ k # Nobody
    BY <1>1 DEF TypeOK
  <2>1. CASE o \notin won[k]
    <3>1. Taken(k, o)
      BY <2>1, WhoMoves
    <3>2. staging[o].trashed = FALSE /\ staging[o].pushed = FALSE
      BY <2>0, <3>1 DEF Taken, Claimable, TypeOK, Doc
    <3> QED
      BY <3>1, <3>2 DEF Taken, After
  <2>2. CASE o \in won[k]
    <3>1. Live(k)
      BY <2>2, WhoMoves DEF Live, IdleIsEmpty
    <3>2. staging[o].claim = k /\ ~staging[o].pushed /\ ~staging[o].trashed
      BY <2>2, <3>1 DEF ClaimIsExclusive
    <3>3. ~staging[o].stale
      BY <2>0, <3>1, <3>2 DEF StaleIsOver, Live
    <3>4. ASSUME NEW j \in Pushes, Taken(j, o) PROVE FALSE
      BY <2>0, <3>2, <3>3, <3>4 DEF Taken, Claimable
    <3>5. ASSUME NEW j \in Pushes, Released(j, o) PROVE FALSE
      <4>1. j = k
        BY <3>2, <3>5 DEF Released, ClaimIsExclusive, Live
      <4> QED
        BY <3>5, <4>1 DEF Released, Live
    <3>6. ASSUME NEW j \in Pushes, Marked(j, o) PROVE FALSE
      <4>1. j = k
        BY <3>2, <3>6 DEF Marked, ClaimIsExclusive, Live
      <4>2. won'[k] = won[k] \ {o}
        BY <3>6, <4>1 DEF Marked, TypeOK
      <4> QED
        BY <4>2
    <3>7. ~Trashed(o)
      BY <2>0, <3>2 DEF Trashed
    <3>8. Untouched(o) \/ Aged(o) \/ Restored(o)
      BY <2>0, <3>4, <3>5, <3>6, <3>7, WhoWrites
    <3> QED
      BY <3>2, <3>8 DEF Untouched, Aged, Restored, After
  <2> QED
    BY <2>1, <2>2
<1>5. TrashedNeverPushed'
  <2> SUFFICES ASSUME NEW o \in Orders PROVE ~(staging'[o].trashed /\ staging'[o].pushed)
    BY DEF TrashedNeverPushed
  <2>1. ~(staging[o].trashed /\ staging[o].pushed)
    BY DEF TrashedNeverPushed
  <2>2. CASE \E k \in Pushes : Marked(k, o)
    BY <2>2 DEF Marked, After, ClaimIsExclusive, Live
  <2>3. CASE \E k \in Pushes : Taken(k, o) \/ Released(k, o)
    BY <2>1, <2>3 DEF Taken, Released, After
  <2>4. CASE Untouched(o) \/ Aged(o) \/ Trashed(o) \/ Restored(o)
    BY <2>1, <2>4 DEF Untouched, Aged, Trashed, Restored, After
  <2> QED
    BY <2>2, <2>3, <2>4, WhoWrites
<1> QED
  BY <1>1, <1>2, <1>3, <1>4, <1>5

\* Nothing is claimed, trashed or pushed at the start.
LEMMA EInvInit == Init => EInv
<1> SUFFICES ASSUME Init PROVE EInv
  OBVIOUS
<1>1. \A o \in Orders : staging[o].stale = FALSE /\ staging[o].pushed = FALSE
  BY DEF Init
<1>2. IdleIsEmpty /\ ClaimIsExclusive
  BY DEF Init, IdleIsEmpty, ClaimIsExclusive
<1> QED
  BY <1>1, <1>2, TypeInit DEF EInv, StaleIsOver, TrashedNeverPushed

\* The invariant holds while no push outlasts its claim.
LEMMA EInvAlways == ASSUME PushesAreQuick PROVE Spec => []EInv
<1>1. EInv /\ [Next]_vars => EInv'
  BY EInvStep
<1> QED
  BY <1>1, EInvInit, PTL DEF Spec

\* However many pushes race for an order, with the seller and the staff in between, at
\* most one is at work on it, and while it is the order is neither pushed nor trashed.
THEOREM ClaimCorrect == ASSUME PushesAreQuick PROVE Spec => []ClaimIsExclusive
BY EInvAlways, PTL DEF EInv

\* No order is ever both in the trash and pushed to production.
THEOREM TrashCorrect == ASSUME PushesAreQuick PROVE Spec => []TrashedNeverPushed
BY EInvAlways, PTL DEF EInv
-----------------------------------------------------------------------------
(* What is pushed is in production, and what the seller is told is so.  A push sees an *)
(* order through from the claim to the mark, so each stage's result has to be carried  *)
(* to the next; that no other push undoes it follows from the claim being exclusive.   *)

Answered == \A k \in Pushes : answer[k] = "pushed" => pc[k] = "done" /\ won[k] = {}

PaidOrHeld ==
  \A k \in Pushes :
    pc[k] \in {"cost", "mark"} \/ answer[k] = "pushed" =>
      \A o \in payments[k] : o \in won[k] \/ (staging[o].pushed /\ staging[o].payment = k)

HandledLate == \A k \in Pushes : pc[k] \in {"idle", "claim"} => handled[k] = {}

ImportedSoFar ==
  \A k \in Pushes : \A o \in won[k] :
    Live(k) => \A p \in (ItemsOf[docs[k][o].draft] \cap handled[k]) \ skipped[k] :
                 production[p] = docs[k][o].draft

PaidIsImported ==
  \A k \in Pushes :
    pc[k] \in {"cost", "mark"} =>
      \A o \in won[k] : o \in payments[k] /\ ItemsOf[docs[k][o].draft] \subseteq handled[k]

PushedByMark ==
  \A o \in Orders :
    staging[o].pushed => LET k == staging[o].payment IN
                         k \in Pushes /\ o \in TargetsOf[k] /\ pc[k] \in {"mark", "done"}

PInv ==
  /\ EInv
  /\ Answered /\ PaidOrHeld
  /\ HandledLate /\ ImportedSoFar /\ PaidIsImported /\ PushedByMark /\ PushedIsInProduction

\* A push answers, pays, imports and lets go of an order nowhere but in the actions that
\* say so, and its stages follow each other.
LEMMA Stages ==
  ASSUME TypeOK, [Next]_vars, NEW k \in Pushes
  PROVE  /\ payments'[k] = payments[k] \/ Pay(k)
         /\ docs'[k] = docs[k] \/ pc[k] = "idle"
         /\ \/ handled'[k] = handled[k] /\ skipped'[k] = skipped[k]
            \/ \E p \in Items, ok \in BOOLEAN : ImportRow(k, p, ok)
         /\ pc'[k] \in {"cost", "mark"} => pc[k] \in {"cost", "mark"} \/ Pay(k)
         /\ pc[k] = "mark" => pc'[k] \in {"mark", "done"}
         /\ pc'[k] \in {"idle", "claim"} => pc[k] \in {"idle", "claim"}
         /\ answer'[k] = "pushed" => answer[k] = "pushed" \/ Finish(k)
<1> USE DEF TypeOK
<1>1. CASE \E j \in Pushes : Load(j)
  BY <1>1 DEF Load, Goto
<1>2. CASE \E j \in Pushes : Claimed(j)
  BY <1>2 DEF Claimed, Goto, Answer
<1>3. CASE \E j \in Pushes : Pay(j)
  BY <1>3 DEF Pay, Goto
<1>4. CASE \E j \in Pushes : Throw(j)
  BY <1>4 DEF Throw, Goto
<1>5. CASE \E j \in Pushes : Release(j)
  <2> PICK j \in Pushes : Release(j)
    BY <1>5
  <2>1. /\ pc[j] = "release" /\ UNCHANGED <<payments, docs, handled, skipped>>
        /\ pc' = [pc EXCEPT ![j] = "done"] /\ answer' = [answer EXCEPT ![j] = "error"]
    BY DEF Release, Answer
  <2> QED
    BY <2>1
<1>6. CASE \E j \in Pushes : Finish(j)
  <2> PICK j \in Pushes : Finish(j)
    BY <1>6
  <2>1. /\ pc[j] = "mark" /\ UNCHANGED <<payments, docs, handled, skipped>>
        /\ pc' = [pc EXCEPT ![j] = "done"] /\ answer' = [answer EXCEPT ![j] = "pushed"]
    BY DEF Finish, Answer
  <2>2. answer'[k] = answer[k] \/ j = k
    BY <2>1
  <2> QED
    BY <2>1, <2>2
<1>7. CASE \E j \in Pushes : Die(j)
  BY <1>7 DEF Die, Answer
<1>8. CASE \E j \in Pushes, o \in Orders : Claim(j, o)
  BY <1>8 DEF Claim
<1>9. CASE \E j \in Pushes, o \in Orders : Mark(j, o)
  BY <1>9 DEF Mark
<1>10. CASE \E j \in Pushes, p \in Items, ok \in BOOLEAN : ImportRow(j, p, ok)
  <2> PICK j \in Pushes, p \in Items, ok \in BOOLEAN : ImportRow(j, p, ok)
    BY <1>10
  <2>1. CASE j = k
    BY <2>1 DEF ImportRow
  <2>2. CASE j # k
    <3>1. /\ handled' = [handled EXCEPT ![j] = @ \cup {p}]
          /\ skipped' = skipped \/ skipped' = [skipped EXCEPT ![j] = @ \cup {p}]
      BY DEF ImportRow
    <3>2. handled'[k] = handled[k] /\ skipped'[k] = skipped[k]
      BY <2>2, <3>1
    <3> QED
      BY <3>2 DEF ImportRow
  <2> QED
    BY <2>1, <2>2
<1>11. CASE \E j \in Pushes, written \in SUBSET Items : Cost(j, written)
  BY <1>11 DEF Cost, Goto
<1>12. CASE \/ \E o \in Orders : GoStale(o) \/ Trash(o) \/ Restore(o)
            \/ \E r \in Requests : Write(r)
            \/ \E r \in Requests, o \in Orders : Cancel(r, o)
            \/ \E r \in Requests, o \in Orders, d \in Drafts : Edit(r, o, d)
            \/ UNCHANGED vars
  BY <1>12 DEF vars, pushVars, GoStale, Trash, Restore, Write, Cancel, Edit
<1> QED
  BY <1>1, <1>2, <1>3, <1>4, <1>5, <1>6, <1>7, <1>8, <1>9, <1>10, <1>11, <1>12 DEF Next

\* An order leaves those a push has claimed only by being marked.
LEMMA OnlyMarkLetsGo ==
  ASSUME TypeOK, [Next]_vars, NEW k \in Pushes, NEW o \in won[k], o \notin won'[k]
  PROVE  Mark(k, o)
<1> USE DEF TypeOK
<1>1. ASSUME NEW j \in Pushes, NEW q \in Orders, Mark(j, q) PROVE Mark(k, o)
  <2>1. won' = [won EXCEPT ![j] = @ \ {q}]
    BY <1>1 DEF Mark
  <2>2. j = k /\ q = o
    BY <2>1
  <2> QED
    BY <1>1, <2>2
<1>2. ASSUME NEW j \in Pushes, NEW q \in Orders, Claim(j, q) PROVE FALSE
  <2>1. won' = won \/ won' = [won EXCEPT ![j] = @ \cup {q}]
    BY <1>2 DEF Claim
  <2> QED
    BY <2>1
<1>3. won' # won
  OBVIOUS
<1> QED
  BY <1>1, <1>2, <1>3
  DEF Next, vars, pushVars, Load, Claimed, Pay, Throw, Release, Finish, Die, ImportRow, Cost,
      GoStale, Trash, Restore, Write, Cancel, Edit

\* A pushed order stays pushed, and by the same push.
LEMMA PushedForGood ==
  ASSUME EInv, [Next]_vars, NEW o \in Orders, staging[o].pushed
  PROVE  staging'[o].pushed /\ staging'[o].payment = staging[o].payment
<1>1. ~\E k \in Pushes : Taken(k, o) \/ Released(k, o) \/ Marked(k, o)
  BY DEF Taken, Released, Marked, Claimable
<1>2. Untouched(o) \/ Aged(o) \/ Trashed(o) \/ Restored(o)
  BY <1>1, WhoWrites DEF EInv
<1> QED
  BY <1>2 DEF Untouched, Aged, Trashed, Restored, After

\* An order a push marks becomes pushed, by that push.
LEMMA MarkPushes ==
  ASSUME EInv, NEW k \in Pushes, NEW o \in Orders, Mark(k, o)
  PROVE  staging'[o].pushed /\ staging'[o].payment = k
<1>1. ~staging[o].pushed
  BY DEF Mark, EInv, ClaimIsExclusive, Live
<1>2. staging \in [Orders -> Doc] /\ staging[o] \in Doc
  BY DEF EInv, TypeOK
<1>3. staging' = [staging EXCEPT ![o] =
        [staging[o] EXCEPT !.draft = docs[k][o].draft, !.pushed = TRUE, !.payment = k,
                           !.claim = Nobody, !.stale = FALSE]]
  BY <1>1 DEF Mark
<1> QED
  BY <1>2, <1>3 DEF Doc

\* DraftFor finds the order an item is of: items of different orders are different.
LEMMA DraftForItem ==
  ASSUME TypeOK, NEW k \in Pushes, pc[k] # "idle",
         NEW o \in won[k], NEW p \in ItemsOf[docs[k][o].draft]
  PROVE  DraftFor(k, p) = docs[k][o].draft
<1>1. \A q \in won[k] : q \in Orders /\ docs[k][q].draft \in DraftsOf[q]
  BY PushesAssumption DEF TypeOK
<1>2. \A q \in won[k] : p \in ItemsOf[docs[k][q].draft] => q = o
  BY <1>1, ItemsAssumption
<1>3. \A d \in {docs[k][q].draft : q \in won[k]} : p \in ItemsOf[d] => d = docs[k][o].draft
  BY <1>2
<1>4. docs[k][o].draft \in {docs[k][q].draft : q \in won[k]}
  OBVIOUS
<1>5. \E d \in {docs[k][q].draft : q \in won[k]} : p \in ItemsOf[d]
  BY <1>4
<1> QED
  BY <1>3, <1>5 DEF DraftFor

\* An item of an order is only ever imported by a push that has claimed the order, and
\* as the draft which that push has read.
LEMMA OnlyHolderImports ==
  ASSUME EInv, [Next]_vars, NEW o \in Orders, NEW d \in DraftsOf[o], NEW p \in ItemsOf[d],
         production'[p] # production[p]
  PROVE  \E j \in Pushes : /\ ImportRow(j, p, TRUE) /\ o \in won[j]
                           /\ production'[p] = docs[j][o].draft
<1> USE DEF EInv
<1>0. production' # production
  OBVIOUS
<1>1. PICK j \in Pushes, q \in Items, ok \in BOOLEAN : ImportRow(j, q, ok)
  <2>1. \A j \in Pushes : ~(\/ Load(j) \/ Claimed(j) \/ Pay(j) \/ Throw(j) \/ Release(j)
                              \/ Finish(j) \/ Die(j))
    BY <1>0 DEF Load, Claimed, Pay, Throw, Release, Finish, Die
  <2>2. /\ \A j \in Pushes, q \in Orders : ~(Claim(j, q) \/ Mark(j, q))
        /\ \A j \in Pushes, written \in SUBSET Items : ~Cost(j, written)
    BY <1>0 DEF Claim, Mark, Cost
  <2>3. /\ \A q \in Orders : ~(GoStale(q) \/ Trash(q) \/ Restore(q))
        /\ \A r \in Requests : ~Write(r)
        /\ \A r \in Requests, q \in Orders : ~Cancel(r, q)
        /\ \A r \in Requests, q \in Orders, e \in Drafts : ~Edit(r, q, e)
        /\ ~UNCHANGED vars
    BY <1>0 DEF vars, GoStale, Trash, Restore, Write, Cancel, Edit
  <2> QED
    BY <2>1, <2>2, <2>3 DEF Next
<1>2. ok = TRUE /\ production' = [production EXCEPT ![q] = DraftFor(j, q)]
  BY <1>1 DEF ImportRow
<1>3. q = p /\ production'[p] = DraftFor(j, p)
  <2>1. production \in [Items -> Drafts \cup {NoDraft}] /\ p \in Items
    BY DraftsAssumption DEF TypeOK
  <2> QED
    BY <1>0, <1>2, <2>1
<1>4. pc[j] = "import" /\ p \in Rows(j)
  BY <1>1, <1>3 DEF ImportRow
<1>5. PICK x \in won[j] : p \in ItemsOf[docs[j][x].draft]
  BY <1>4 DEF Rows
<1>6. x \in Orders /\ docs[j][x].draft \in DraftsOf[x]
  BY <1>4, PushesAssumption DEF TypeOK
<1>7. x = o
  BY <1>5, <1>6, ItemsAssumption
<1>8. DraftFor(j, p) = docs[j][o].draft
  BY <1>4, <1>5, <1>7, DraftForItem
<1> QED
  BY <1>1, <1>2, <1>3, <1>5, <1>7, <1>8

\* An order the payment is for is held until it is pushed.
LEMMA PaidStep ==
  ASSUME EInv, Answered, PaidOrHeld, [Next]_vars
  PROVE  Answered' /\ PaidOrHeld'
<1> USE DEF EInv
<1>1. ASSUME NEW k \in Pushes, answer'[k] = "pushed"
      PROVE  pc'[k] = "done" /\ won'[k] = {}
  <2>1. CASE Finish(k)
    BY <2>1 DEF Finish, Answer, TypeOK
  <2>2. CASE answer[k] = "pushed"
    <3>1. pc[k] = "done" /\ won[k] = {}
      BY <2>2 DEF Answered
    <3>2. \A o \in won'[k] : Taken(k, o)
      BY <3>1, WhoMoves
    <3> QED
      BY <3>1, <3>2, WhoMoves DEF Taken
  <2> QED
    BY <1>1, <2>1, <2>2, Stages
<1>2. ASSUME NEW k \in Pushes, pc'[k] \in {"cost", "mark"} \/ answer'[k] = "pushed",
             NEW o \in payments'[k]
      PROVE  o \in won'[k] \/ (staging'[o].pushed /\ staging'[o].payment = k)
  <2>1. CASE Pay(k)
    BY <2>1 DEF Pay, TypeOK
  <2>2. CASE ~Pay(k)
    <3>1. o \in payments[k] /\ o \in Orders
      BY <2>2, Stages DEF TypeOK
    <3>2. pc[k] \in {"cost", "mark"} \/ answer[k] = "pushed"
      BY <1>2, <2>2, Stages DEF Finish
    <3>3. o \in won[k] \/ (staging[o].pushed /\ staging[o].payment = k)
      BY <3>1, <3>2 DEF PaidOrHeld
    <3>4. CASE o \in won[k] /\ o \notin won'[k]
      BY <3>1, <3>4, OnlyMarkLetsGo, MarkPushes
    <3> QED
      BY <3>1, <3>3, <3>4, PushedForGood
  <2> QED
    BY <2>1, <2>2
<1> QED
  BY <1>1, <1>2 DEF Answered, PaidOrHeld

\* A push imports before it pays, and nothing of an order it holds is imported otherwise.
LEMMA ImportStep ==
  ASSUME EInv, HandledLate, ImportedSoFar, PaidIsImported, [Next]_vars
  PROVE  HandledLate' /\ ImportedSoFar' /\ PaidIsImported'
<1> USE DEF EInv
<1>1. HandledLate'
  <2> SUFFICES ASSUME NEW k \in Pushes, pc'[k] \in {"idle", "claim"} PROVE handled'[k] = {}
    BY DEF HandledLate
  <2>1. pc[k] \in {"idle", "claim"} /\ handled[k] = {}
    BY Stages DEF HandledLate
  <2>2. handled'[k] = handled[k]
    BY <2>1, Stages DEF ImportRow
  <2> QED
    BY <2>1, <2>2
<1>2. ImportedSoFar'
  <2> SUFFICES ASSUME NEW k \in Pushes, NEW o \in won'[k], Live(k)',
                      NEW p \in ItemsOf[docs'[k][o].draft], p \in handled'[k], p \notin skipped'[k]
               PROVE  production'[p] = docs'[k][o].draft
    BY DEF ImportedSoFar
  <2>1. o \in won[k]
    <3>1. ASSUME Taken(k, o) PROVE FALSE
      <4>1. pc'[k] = "claim" /\ handled'[k] = {}
        BY <1>1, <3>1 DEF Taken, HandledLate
      <4> QED
        BY <4>1
    <3> QED
      BY <3>1, WhoMoves
  <2>2. Live(k) /\ pc[k] # "idle"
    BY <2>1, WhoMoves DEF Live, IdleIsEmpty
  <2>3. /\ docs'[k] = docs[k] /\ o \in Orders
        /\ docs[k][o].draft \in DraftsOf[o] /\ p \in ItemsOf[docs[k][o].draft]
    BY <2>1, <2>2, Stages, PushesAssumption DEF TypeOK
  <2>4. CASE production'[p] # production[p]
    <3>1. PICK j \in Pushes : /\ ImportRow(j, p, TRUE) /\ o \in won[j]
                              /\ production'[p] = docs[j][o].draft
      BY <2>3, <2>4, OnlyHolderImports
    <3>2. j = k
      BY <2>1, <2>2, <3>1 DEF ImportRow, Live, ClaimIsExclusive
    <3> QED
      BY <2>3, <3>1, <3>2
  <2>5. CASE production'[p] = production[p]
    <3>1. CASE handled'[k] = handled[k] /\ skipped'[k] = skipped[k]
      BY <2>1, <2>2, <2>3, <2>5, <3>1 DEF ImportedSoFar
    <3>2. CASE \E q \in Items, ok \in BOOLEAN : ImportRow(k, q, ok)
      <4> PICK q \in Items, ok \in BOOLEAN : ImportRow(k, q, ok)
        BY <3>2
      <4>1. handled'[k] = handled[k] \cup {q} /\ skipped[k] \subseteq skipped'[k]
        BY DEF ImportRow, TypeOK
      <4>2. CASE p \in handled[k]
        BY <2>1, <2>2, <2>3, <2>5, <4>1, <4>2 DEF ImportedSoFar
      <4>3. CASE p \notin handled[k]
        <5>1. q = p
          BY <4>1, <4>3
        <5>2. ok = TRUE
          BY <5>1 DEF ImportRow, TypeOK
        <5>3. production'[p] = DraftFor(k, p)
          BY <5>1, <5>2 DEF ImportRow, TypeOK
        <5> QED
          BY <2>1, <2>2, <2>3, <5>3, DraftForItem
      <4> QED
        BY <4>2, <4>3
    <3> QED
      BY <3>1, <3>2, Stages
  <2> QED
    BY <2>4, <2>5
<1>3. PaidIsImported'
  <2> SUFFICES ASSUME NEW k \in Pushes, pc'[k] \in {"cost", "mark"}, NEW o \in won'[k]
               PROVE  o \in payments'[k] /\ ItemsOf[docs'[k][o].draft] \subseteq handled'[k]
    BY DEF PaidIsImported
  <2>1. CASE Pay(k)
    BY <2>1 DEF Pay, Rows, TypeOK
  <2>2. CASE ~Pay(k)
    <3>1. pc[k] \in {"cost", "mark"}
      BY <2>2, Stages
    <3>2. o \in won[k]
      BY <3>1, WhoMoves DEF Taken
    <3>3. payments'[k] = payments[k] /\ docs'[k] = docs[k] /\ handled'[k] = handled[k]
      BY <2>2, <3>1, Stages DEF ImportRow
    <3> QED
      BY <3>1, <3>2, <3>3 DEF PaidIsImported
  <2> QED
    BY <2>1, <2>2
<1> QED
  BY <1>1, <1>2, <1>3

\* An order is pushed with its items in production, and there they stay.
LEMMA PushedStep ==
  ASSUME PInv, [Next]_vars
  PROVE  PushedByMark' /\ PushedIsInProduction'
<1> USE DEF PInv, EInv
<1> SUFFICES ASSUME NEW o \in Orders, staging'[o].pushed
             PROVE  LET k == staging'[o].payment IN
                    /\ k \in Pushes /\ o \in TargetsOf[k] /\ pc'[k] \in {"mark", "done"}
                    /\ o \in payments'[k]
                    /\ \A p \in ItemsOf[docs'[k][o].draft] \ skipped'[k] :
                         production'[p] = docs'[k][o].draft
  BY DEF PushedByMark, PushedIsInProduction
<1> DEFINE k == staging'[o].payment
<1>1. CASE staging[o].pushed
  <2>1. staging[o].payment = k
    BY <1>1, PushedForGood
  <2>2. /\ k \in Pushes /\ o \in TargetsOf[k] /\ pc[k] \in {"mark", "done"}
        /\ o \in payments[k]
        /\ \A p \in ItemsOf[docs[k][o].draft] \ skipped[k] : production[p] = docs[k][o].draft
    BY <1>1, <2>1 DEF PushedByMark, PushedIsInProduction
  <2> HIDE DEF k
  <2>3. pc'[k] \in {"mark", "done"}
    BY <2>2, Stages, WhoMoves
  <2>4. payments'[k] = payments[k] /\ docs'[k] = docs[k] /\ skipped'[k] = skipped[k]
    BY <2>2, Stages DEF Pay, ImportRow
  <2>5. docs[k][o].draft \in DraftsOf[o]
    BY <2>2 DEF TypeOK
  <2>6. ASSUME NEW p \in ItemsOf[docs[k][o].draft] PROVE production'[p] = production[p]
    BY <1>1, <2>5, OnlyHolderImports DEF ImportRow, ClaimIsExclusive, Live
  <2>7. \A p \in ItemsOf[docs'[k][o].draft] \ skipped'[k] : production'[p] = docs'[k][o].draft
    BY <2>2, <2>4, <2>6
  <2>8. o \in payments'[k]
    BY <2>2, <2>4
  <2> QED
    BY <2>2, <2>3, <2>7, <2>8 DEF k
<1>2. CASE ~staging[o].pushed
  <2>1. PICK j \in Pushes : Marked(j, o)
    <3>1. staging[o].pushed = FALSE
      BY <1>2 DEF TypeOK, Doc
    <3> QED
      BY <3>1, WhoWrites DEF Untouched, Taken, Released, Aged, Trashed, Restored, After
  <2>2. k = j
    BY <2>1 DEF Marked, After
  <2> HIDE DEF k
  <2>3. pc[k] = "mark" /\ o \in won[k] /\ pc'[k] = "mark" /\ k \in Pushes
    BY <2>1, <2>2 DEF Marked
  <2>4. o \in payments[k] /\ ItemsOf[docs[k][o].draft] \subseteq handled[k]
    BY <2>3 DEF PaidIsImported
  <2>5. \A p \in ItemsOf[docs[k][o].draft] \ skipped[k] : production[p] = docs[k][o].draft
    BY <2>3, <2>4 DEF ImportedSoFar, Live
  <2>6. payments'[k] = payments[k] /\ docs'[k] = docs[k] /\ skipped'[k] = skipped[k]
    BY <2>3, Stages DEF Pay, ImportRow
  <2>7. o \in TargetsOf[k] /\ docs[k][o].draft \in DraftsOf[o]
    BY <2>3 DEF TypeOK
  <2>8. ASSUME NEW p \in ItemsOf[docs[k][o].draft] PROVE production'[p] = production[p]
    <3>1. ASSUME NEW i \in Pushes, ImportRow(i, p, TRUE), o \in won[i] PROVE FALSE
      <4>1. i = k
        BY <2>3, <3>1 DEF ImportRow, ClaimIsExclusive, Live
      <4> QED
        BY <2>3, <3>1, <4>1 DEF ImportRow
    <3> QED
      BY <2>7, <3>1, OnlyHolderImports
  <2>9. \A p \in ItemsOf[docs'[k][o].draft] \ skipped'[k] : production'[p] = docs'[k][o].draft
    BY <2>5, <2>6, <2>8
  <2>10. o \in payments'[k]
    BY <2>4, <2>6
  <2> QED
    BY <2>3, <2>7, <2>9, <2>10 DEF k
<1> QED
  BY <1>1, <1>2

\* Before the first push there is nothing to show.
LEMMA PInvInit == Init => PInv
<1> SUFFICES ASSUME Init PROVE PInv
  OBVIOUS
<1>1. \A o \in Orders : ~staging[o].pushed
  BY DEF Init
<1>2. \A k \in Pushes : pc[k] = "idle" /\ won[k] = {} /\ handled[k] = {} /\ answer[k] = "none"
  BY DEF Init
<1> QED
  BY <1>1, <1>2, EInvInit
  DEF PInv, Answered, PaidOrHeld, HandledLate, ImportedSoFar, PaidIsImported, PushedByMark,
      PushedIsInProduction

\* The invariant holds while no push outlasts its claim.
LEMMA PInvAlways == ASSUME PushesAreQuick PROVE Spec => []PInv
<1>1. PInv /\ [Next]_vars => PInv'
  <2> SUFFICES ASSUME PInv, [Next]_vars PROVE PInv'
    OBVIOUS
  <2>1. EInv'
    BY EInvStep DEF PInv
  <2>2. Answered' /\ PaidOrHeld'
    BY PaidStep DEF PInv
  <2>3. HandledLate' /\ ImportedSoFar' /\ PaidIsImported'
    BY ImportStep DEF PInv
  <2>4. PushedByMark' /\ PushedIsInProduction'
    BY PushedStep
  <2> QED
    BY <2>1, <2>2, <2>3, <2>4 DEF PInv
<1> QED
  BY <1>1, PInvInit, PTL DEF Spec

\* A pushed order is in production with the items its push quoted, but for the rows that
\* push skipped; no other push has replaced them, however the pushes were interleaved.
THEOREM ProductionCorrect == ASSUME PushesAreQuick PROVE Spec => []PushedIsInProduction
BY PInvAlways, PTL DEF PInv

\* A seller who is told "pushed" finds the orders on the payment pushed, and paid by it.
THEOREM AnswerCorrect == ASSUME PushesAreQuick PROVE Spec => []ToldPushedIsPushed
<1>1. PInv => ToldPushedIsPushed
  BY DEF PInv, Answered, PaidOrHeld, ToldPushedIsPushed
<1> QED
  BY <1>1, PInvAlways, PTL
=============================================================================
