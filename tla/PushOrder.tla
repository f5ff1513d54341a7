----------------------------- MODULE PushOrder -----------------------------
(***************************************************************************)
(* From a seller's draft to production: CustomerOrderService.              *)
(* pushToProduction, against the seller who edits or cancels the draft,    *)
(* the staff who trash it, and a second push of the same order.            *)
(*                                                                         *)
(* A push reads its orders, claims them one by one (pushingAt), imports    *)
(* their items into collection orders, writes a payment and a cost ledger, *)
(* and marks them pushed with the items it read at the start.  Between two *)
(* of these steps anything else may happen, or the process die.            *)
(***************************************************************************)
EXTENDS Integers, FiniteSets

CONSTANTS
  Orders,         \* staging orders (customer_orders)
  Items,          \* productionIds
  Drafts,         \* what an order may consist of
  NoDraft,
  ItemsOf,        \* the productionIds in a draft
  DraftsOf,       \* what the seller may make of an order
  Pushes,         \* requests that reach pushToProduction
  TargetsOf,      \* the orders each names
  Requests,       \* requests that reach updateStagingOrder or cancelStagingOrder
  Nobody,
  PushesAreQuick  \* no push outlasts PUSH_CLAIM_STALE_MS

ASSUME DraftsAssumption ==
  /\ NoDraft \notin Drafts
  /\ ItemsOf \in [Drafts -> (SUBSET Items) \ {{}}]
  /\ DraftsOf \in [Orders -> (SUBSET Drafts) \ {{}}]
ASSUME PushesAssumption ==
  /\ TargetsOf \in [Pushes -> SUBSET Orders]
  /\ Nobody \notin Pushes
  /\ PushesAreQuick \in BOOLEAN

\* generateUniqueProductionId: an item belongs to one order, whatever its draft.
ASSUME ItemsAssumption ==
  \A o, q \in Orders : \A d \in DraftsOf[o], e \in DraftsOf[q] :
    o # q => ItemsOf[d] \cap ItemsOf[e] = {}

VARIABLES
  staging,     \* customer_orders
  production,  \* collection orders: the draft each item was last imported from
  payments,    \* customer_payments: the orders on the record each push wrote
  costs,       \* production_costs: the draft each item's row was priced from
  pc,          \* where each push is
  docs,        \* the orders as it read them
  todo,        \* those it has not tried to claim yet
  won,         \* those it has claimed
  handled,     \* the rows importOrders has gone through,
  skipped,     \* and those it could not write
  answer,      \* what it told the seller
  request      \* each edit or cancellation, with the order it read as pending

pushVars == <<pc, docs, todo, won, handled, skipped, answer>>
vars == <<staging, production, payments, costs, pushVars, request>>

Idle == [what |-> "idle", order |-> Nobody, draft |-> NoDraft]

Init ==
  /\ staging \in [Orders -> [draft: Drafts, cancelled: {FALSE}, trashed: {FALSE}, pushed: {FALSE},
                             claim: {Nobody}, stale: {FALSE}, payment: {Nobody}]]
  /\ \A o \in Orders : staging[o].draft \in DraftsOf[o]
  /\ production = [p \in Items |-> NoDraft]
  /\ payments = [k \in Pushes |-> {}]
  /\ costs = [p \in Items |-> NoDraft]
  /\ pc = [k \in Pushes |-> "idle"]
  /\ docs = [k \in Pushes |-> <<>>]
  /\ todo = [k \in Pushes |-> {}]
  /\ won = [k \in Pushes |-> {}]
  /\ handled = [k \in Pushes |-> {}]
  /\ skipped = [k \in Pushes |-> {}]
  /\ answer = [k \in Pushes |-> "none"]
  /\ request = [r \in Requests |-> Idle]
-----------------------------------------------------------------------------
(* pushToProduction *)

Goto(k, where) == pc' = [pc EXCEPT ![k] = where] /\ UNCHANGED answer

Answer(k, what) ==
  /\ pc' = [pc EXCEPT ![k] = "done"]
  /\ answer' = [answer EXCEPT ![k] = what]

\* getPendingStagingOrder, and validatePushable on a complete draft.
Pending(doc) == ~doc.trashed /\ ~doc.cancelled /\ ~doc.pushed

\* loadPushTargets: one read of all of them.
Load(k) ==
  /\ pc[k] = "idle"
  /\ docs' = [docs EXCEPT ![k] = [o \in TargetsOf[k] |-> staging[o]]]
  /\ todo' = [todo EXCEPT ![k] = TargetsOf[k]]
  /\ Goto(k, "claim")
  /\ UNCHANGED <<staging, production, payments, costs, won, handled, skipped, request>>

\* claimPush's condition, which is on the write itself.
Claimable_Always(o) ==   \* mutant: the claim is written without asking for a free one
  ~staging[o].pushed /\ ~staging[o].trashed

Claimable(o) ==
  /\ ~staging[o].pushed /\ ~staging[o].trashed
  /\ staging[o].claim = Nobody \/ staging[o].stale

Claim(k, o) ==
  /\ pc[k] = "claim" /\ o \in todo[k]
  /\ todo' = [todo EXCEPT ![k] = @ \ {o}]
  /\ IF Pending(docs[k][o]) /\ Claimable(o)
     THEN /\ staging' = [staging EXCEPT ![o].claim = k, ![o].stale = FALSE]
          /\ won' = [won EXCEPT ![k] = @ \cup {o}]
     ELSE UNCHANGED <<staging, won>>
  /\ UNCHANGED <<production, payments, costs, pc, docs, handled, skipped, answer, request>>

\* Every order was tried: go on with those that were claimed, if any.
Claimed_Early(k) ==   \* mutant: the loop over the orders is not awaited
  /\ pc[k] = "claim"
  /\ IF won[k] = {} THEN Answer(k, "nothing") ELSE Goto(k, "import")
  /\ UNCHANGED <<staging, production, payments, costs, docs, todo, won, handled, skipped, request>>

Claimed(k) ==
  /\ pc[k] = "claim" /\ todo[k] = {}
  /\ IF won[k] = {} THEN Answer(k, "nothing") ELSE Goto(k, "import")
  /\ UNCHANGED <<staging, production, payments, costs, docs, todo, won, handled, skipped, request>>

DraftFor(k, p) == CHOOSE d \in {docs[k][o].draft : o \in won[k]} : p \in ItemsOf[d]
Rows(k) == UNION {ItemsOf[docs[k][o].draft] : o \in won[k]}

\* importOrders, a row at a time: an upsert by productionId.  A row that throws is
\* only reported in the result, which the push does not look at.
ImportRow(k, p, ok) ==
  /\ pc[k] = "import" /\ p \in Rows(k) \ handled[k]
  /\ handled' = [handled EXCEPT ![k] = @ \cup {p}]
  /\ IF ok
     THEN production' = [production EXCEPT ![p] = DraftFor(k, p)] /\ UNCHANGED skipped
     ELSE skipped' = [skipped EXCEPT ![k] = @ \cup {p}] /\ UNCHANGED production
  /\ UNCHANGED <<staging, payments, costs, pc, docs, todo, won, answer, request>>

Pay(k) ==
  /\ pc[k] = "import" /\ handled[k] = Rows(k)
  /\ payments' = [payments EXCEPT ![k] = won[k]]
  /\ Goto(k, "cost")
  /\ UNCHANGED <<staging, production, costs, docs, todo, won, handled, skipped, request>>

\* importOrders throws before its loop, or the payment cannot be written.
Throw(k) ==
  /\ pc[k] = "import" /\ handled[k] \in {{}, Rows(k)}
  /\ Goto(k, "release")
  /\ UNCHANGED <<staging, production, payments, costs, docs, todo, won, handled, skipped, request>>

\* releasePushClaims: whoever holds them.
Release(k) ==
  /\ pc[k] = "release"
  /\ staging' = [o \in Orders |->
       IF o \in won[k] /\ ~staging[o].pushed
       THEN [staging[o] EXCEPT !.claim = Nobody, !.stale = FALSE] ELSE staging[o]]
  /\ Answer(k, "error")
  /\ UNCHANGED <<production, payments, costs, docs, todo, won, handled, skipped, request>>

\* recordProductionCosts: insert-only, and what cannot be written is only logged.
Cost(k, written) ==
  /\ pc[k] = "cost" /\ written \subseteq Rows(k)
  /\ costs' = [p \in Items |->
       IF p \in written /\ costs[p] = NoDraft THEN DraftFor(k, p) ELSE costs[p]]
  /\ Goto(k, "mark")
  /\ UNCHANGED <<staging, production, payments, docs, todo, won, handled, skipped, request>>

\* The orders are marked all at once, and each on the condition that it is not pushed.
\* An order that is marked leaves won.
Mark(k, o) ==
  /\ pc[k] = "mark" /\ o \in won[k]
  /\ staging' = IF staging[o].pushed THEN staging
                ELSE [staging EXCEPT ![o].draft = docs[k][o].draft, ![o].pushed = TRUE,
                                     ![o].payment = k, ![o].claim = Nobody, ![o].stale = FALSE]
  /\ won' = [won EXCEPT ![k] = @ \ {o}]
  /\ UNCHANGED <<production, payments, costs, pc, docs, todo, handled, skipped, answer, request>>

Finish(k) ==
  /\ pc[k] = "mark" /\ won[k] = {}
  /\ Answer(k, "pushed")
  /\ UNCHANGED <<staging, production, payments, costs, docs, todo, won, handled, skipped, request>>

\* The process dies, or a database call outside the try fails.
Die(k) ==
  /\ pc[k] \in {"claim", "import", "release", "cost", "mark"}
  /\ Answer(k, "error")
  /\ UNCHANGED <<staging, production, payments, costs, docs, todo, won, handled, skipped, request>>

\* pushingAt is five minutes old.
GoStale(o) ==
  /\ staging[o].claim # Nobody /\ ~staging[o].stale
  /\ PushesAreQuick => pc[staging[o].claim] = "done"
  /\ staging' = [staging EXCEPT ![o].stale = TRUE]
  /\ UNCHANGED <<production, payments, costs, pushVars, request>>
-----------------------------------------------------------------------------
(* The seller and the staff *)

\* updateStagingOrder and cancelStagingOrder read the order, and refuse it unless it is
\* pending; ...
Edit(r, o, d) ==
  /\ request[r].what = "idle"
  /\ Pending(staging[o]) /\ d \in DraftsOf[o]
  /\ request' = [request EXCEPT ![r] = [what |-> "edit", order |-> o, draft |-> d]]
  /\ UNCHANGED <<staging, production, payments, costs, pushVars>>

Cancel(r, o) ==
  /\ request[r].what = "idle"
  /\ Pending(staging[o])
  /\ request' = [request EXCEPT ![r] = [what |-> "cancel", order |-> o, draft |-> NoDraft]]
  /\ UNCHANGED <<staging, production, payments, costs, pushVars>>

\* ... the write that follows is by _id alone.
Write(r) ==
  LET q == request[r] IN
  /\ q.what \in {"edit", "cancel"}
  /\ staging' = IF q.what = "edit" THEN [staging EXCEPT ![q.order].draft = q.draft]
                ELSE [staging EXCEPT ![q.order].cancelled = TRUE]
  /\ request' = [request EXCEPT ![r].what = "done"]
  /\ UNCHANGED <<production, payments, costs, pushVars>>

\* trashOrdersAdmin: one conditional update per order.
Trash_MidPush(o) ==   \* mutant: trashing does not look at pushingAt
  /\ ~staging[o].trashed /\ ~staging[o].pushed
  /\ staging' = [staging EXCEPT ![o].trashed = TRUE]
  /\ UNCHANGED <<production, payments, costs, pushVars, request>>

Trash(o) ==
  /\ ~staging[o].trashed /\ ~staging[o].pushed /\ staging[o].claim = Nobody
  /\ staging' = [staging EXCEPT ![o].trashed = TRUE]
  /\ UNCHANGED <<production, payments, costs, pushVars, request>>

Restore(o) ==
  /\ staging[o].trashed
  /\ staging' = [staging EXCEPT ![o].trashed = FALSE]
  /\ UNCHANGED <<production, payments, costs, pushVars, request>>

Next ==
  \/ \E k \in Pushes :
       \/ Load(k) \/ Claimed(k) \/ Pay(k) \/ Throw(k) \/ Release(k) \/ Finish(k) \/ Die(k)
       \/ \E o \in Orders : Claim(k, o) \/ Mark(k, o)
       \/ \E p \in Items, ok \in BOOLEAN : ImportRow(k, p, ok)
       \/ \E written \in SUBSET Items : Cost(k, written)
  \/ \E o \in Orders : GoStale(o) \/ Trash(o) \/ Restore(o)
  \/ \E r \in Requests : \/ Write(r)
                         \/ \E o \in Orders : Cancel(r, o)
                         \/ \E o \in Orders, d \in Drafts : Edit(r, o, d)

Spec == Init /\ [][Next]_vars
-----------------------------------------------------------------------------
(* What is checked *)

PCs == {"idle", "claim", "import", "release", "cost", "mark", "done"}
Doc == [draft: Drafts, cancelled: BOOLEAN, trashed: BOOLEAN, pushed: BOOLEAN,
        claim: Pushes \cup {Nobody}, stale: BOOLEAN, payment: Pushes \cup {Nobody}]

\* The type invariant.
TypeOK ==
  /\ staging \in [Orders -> Doc]
  /\ \A o \in Orders : staging[o].draft \in DraftsOf[o]
  /\ production \in [Items -> Drafts \cup {NoDraft}]
  /\ costs \in [Items -> Drafts \cup {NoDraft}]
  /\ payments \in [Pushes -> SUBSET Orders]
  /\ pc \in [Pushes -> PCs]
  /\ docs = [k \in Pushes |-> docs[k]]
  /\ todo \in [Pushes -> SUBSET Orders] /\ won \in [Pushes -> SUBSET Orders]
  /\ handled \in [Pushes -> SUBSET Items] /\ skipped \in [Pushes -> SUBSET Items]
  /\ answer \in [Pushes -> {"none", "nothing", "pushed", "error"}]
  /\ request \in [Requests -> [what: {"idle", "edit", "cancel", "done"},
                               order: Orders \cup {Nobody}, draft: Drafts \cup {NoDraft}]]
  /\ \A k \in Pushes :
       /\ pc[k] # "idle" => /\ docs[k] \in [TargetsOf[k] -> Doc]
                            /\ \A o \in TargetsOf[k] : docs[k][o].draft \in DraftsOf[o]
       /\ todo[k] \cup won[k] \subseteq TargetsOf[k]
       /\ pc[k] \in {"idle", "claim", "done"} \/ todo[k] = {}
       /\ skipped[k] \subseteq handled[k]
  /\ \A r \in Requests :
       LET q == request[r] IN
       /\ q.what \in {"edit", "cancel"} => q.order \in Orders
       /\ q.what = "edit" => q.draft \in DraftsOf[q.order]

Live(k) == pc[k] \notin {"idle", "done"}

\* While a push is at work on an order it has claimed, the order is its own: not
\* pushed, not trashed, and claimed by no other.
ClaimIsExclusive ==
  \A k \in Pushes : \A o \in won[k] :
    Live(k) => /\ staging[o].claim = k
               /\ ~staging[o].pushed /\ ~staging[o].trashed

\* A trashed order is never one that was pushed: not by a push that had read it
\* before it was trashed, nor by one that outlived its claim.
TrashedNeverPushed ==
  \A o \in Orders : ~(staging[o].trashed /\ staging[o].pushed)

\* A pushed order is in production with the very items its push quoted, but for the
\* rows importOrders reported as skipped; no other push, dead or alive, and no later
\* edit of the draft has put anything else there.
PushedIsInProduction ==
  \A o \in Orders :
    staging[o].pushed =>
      LET k == staging[o].payment IN
      /\ o \in payments[k]
      /\ \A p \in ItemsOf[docs[k][o].draft] \ skipped[k] : production[p] = docs[k][o].draft

\* A seller who is told "pushed" finds the orders of that push pushed, and paid by it.
ToldPushedIsPushed ==
  \A k \in Pushes :
    answer[k] = "pushed" =>
      \A o \in payments[k] : staging[o].pushed /\ staging[o].payment = k

\* The push holds the order "so nobody can get in between": no order is both cancelled
\* by its seller and pushed to production.
CancelledNeverPushed ==
  \A o \in Orders : ~(staging[o].cancelled /\ staging[o].pushed)
=============================================================================
