# A TLA+ model of OnosFactory

OnosFactory runs a print-on-demand business: sellers send orders, staff push them to
production, a factory prints, presses, sews and packs them, and a carrier takes them
away under labels that either the company or the seller pays for. The repository is a
pnpm monorepo: `apps/api` (NestJS over MongoDB, Redis, RabbitMQ and BullMQ) holds the
business logic, `apps/web` and `apps/seller` are its front ends, `apps/design-worker`
processes design files, `packages/shared` and `packages/core` hold types and the
repository base class. Paths below are under `src/apps/api/src/modules/` unless they
start with `src/`.

The modules here model the parts of the API where money, parcels and production orders can
be lost or doubled by an interleaving, a crash or a retry. TLC checks them on small
instances, and TLAPS proves all of the properties that hold, but the one of liveness, for
all values of the constants that meet the named assumptions. `PROJECT.json` lists
components, runs, mutants, the source lines of every definition, hazards, findings and
theorems.

## 1. Inventory

| Component | State | Operations | What makes it hard | What must hold |
|---|---|---|---|---|
| Seller wallet (`customer-wallet/`) | ledger `customer_wallet_transactions`, cached `customers.walletBalance`, `creditLimit`, audit trail | applyTransaction, updateCreditLimit | retries, concurrent requests of one seller, lost answers | cache = ledger; a requestId and a bank reference book once; no debit beyond the limit |
| VNP labels (`shipping-vnp/`) | collection `shipments`, snapshot `orders.vnpShipment`, and the carrier's own labels | createShipment, getTracking, cancelShipment, reconcilePurchasing, reconcileCancelling, pollTrackingCron | a carrier that may act and not answer; crashes between carrier and database; a cron that reads, asks, writes | one usable label per seller order; no label lost; "cancelled" only if void |
| Seller label purchase (`seller-shipping/`) | uses both of the above; `sellerPrice` on the record | quote, buy | two systems, compensation by refund, one idempotency key for everything | paid before bought; every charge answered for |
| Draft orders and push (`customer-portal/`) | `customer_orders`, `orders`, `customer_payments`, `production_costs` | pushToProduction, update, cancel, trash, restore | no transaction over six collections; claims with a time limit | a claim is exclusive; a pushed order is in production as quoted |
| Production orders (`order/`) | `orders` (one document per item) | import, field edits, hold and unhold, cancel, transfer, tool-check, claims | one wide document with many writers | a cancelled or held order is not worked on |
| Fulfillment (`fulfillment/`) | `orders.fulfillmentStages`, `currentFulfillmentStage` | transition, bulkTransition, completePackBacklog | rework backwards, auto-stages, stale reads | one current stage; completed exactly once |
| OnosPod sync (`order/onospod-*`) | holds and orders pulled from an MRP | sync, import, resync | two sources of one flag | a staff decision is not undone by the sync |
| Inventory (`inventory/`) | items, ledger, receipts | applyTransaction, scanOut, createReceiptIn, adjust, closeOutReceipt, reconcile | attempt numbers counted outside the transaction | stock = ledger; an order is deducted once per attempt |
| Designer tasks (`designer/`, `order/`) | assignee, designerStatus | claim, assign, review, rework | claims in bulk, conditional on status alone | a task has one owner |
| Design storage and worker (`design-storage/`, `src/apps/design-worker/`) | `design_files`, objects in R2, a RabbitMQ queue | presign, confirm, ingest with retries, lifecycle cron | at-least-once delivery, deletion by age | a design that an order uses keeps its original |
| Packages and external tracking (`shipping-vnp/packing`, `shipment-ingest`) | `shipping_packages` | pack, hand over, record tracking | upserts without a key | one package per parcel |
| Webhooks, notifications, Zalo, mail, Telegram | deliveries | emit, deliver, retry | best effort | none that another part relies on |
| Configuration, users, roles, reports, caches, uploads | settings and derived data | CRUD, aggregation | none beyond lost updates of settings | authorisation (taken as given) |

How they interact: `seller-shipping` calls the wallet and then `shipping-vnp` in one
request. `customer-portal` calls `order.importOrders` when it pushes. Fulfillment writes
the documents that `order` writes, with no lock, and calls packing and the webhooks
without waiting. Label purchase and packing share `shipments` and `shipping_packages`. An
external scheduler calls the cron endpoints. Two processes share nothing but MongoDB and
Redis: every step between two awaits can be separated from the next by anything.

## 2. The modules

| Module | Models | Order |
|---|---|---|
| `WalletLedger` | what the wallet promises: an atomic append-only ledger | 1 |
| `CustomerWallet` | `CustomerWalletService` over MongoDB transactions; implements `WalletLedger` | 1 |
| `CustomerWallet_proofs` | theorems about it | 1 |
| `VnpShipment` | `ShippingVnpService` and the carrier | 2 |
| `VnpShipment_proofs` | theorems about it | 2 |
| `SellerLabel` | `SellerShippingService.buy`: extends `VnpShipment`, instantiates `WalletLedger` | 3 |
| `SellerLabel_proofs` | theorems about it | 3 |
| `PushOrder` | `CustomerOrderService.pushToProduction` and its rivals | 4 |
| `PushOrder_proofs` | theorems about it | 4 |
| `FactoryFlow` | stages, and the flows of a factory that complete some of them | 5 |
| `Fulfillment` | one production order: `FulfillmentTaskService.transition` and every other writer of the document | 5 |
| `Fulfillment_proofs` | theorems about it | 5 |
| `StockLedger` | what the inventory promises: an atomic book of movements | 6 |
| `Inventory` | `InventoryService`: stock, ledger, receipts; implements `StockLedger` | 6 |
| `Inventory_proofs` | its types and its stock, proved | 6 |
| `InventoryDeductions_proofs` | that orders are deducted as ordered, proved | 6 |
| `InventoryAnswers_proofs` | that goods receipts are booked, scans answered truly and closings add up, and that `StockLedger` is implemented, proved | 6 |
| `DesignFiles` | presign, queue, worker retries, lifecycle | planned, 7 |

`MC*` modules give the constants their values for TLC.

### CustomerWallet

A call of `applyTransaction` goes through `Call` (round and reject zero), `PreCheck` (the
bank reference, outside the transaction), `Read` (the snapshot: replay, deleted seller,
guard), `Commit`, or `Duplicate` and `Fallback` when a unique index refuses. A call of
`updateCreditLimit` goes through `LimitCall`, `LimitRead`, `LimitCommit`. A retry is another
call with the same operation. MongoDB is modelled by what the driver promises: the reads
of a transaction are one snapshot; `Commit` is atomic and impossible once another commit
has written the customer document (`conflicted`); `Conflict` is `withTransaction` running the
callback again. `Abort` is every other failure, and `Commit` may lose its answer.
`SoftDelete` and `Restore` are the other writers of the document. Money is whole cents
(`round2`); `strict` is `strictReplay`.

### VnpShipment

`labels` is the carrier's world, `rec` the collection `shipments`, `snapshot` what the orders
of a group show. A purchase creates at most one record, so a record has the name of its
call. The steps of `createShipment` are `Begin` (loadGroup), `Lookup` (by requestId), `Pending`,
`Reserve` or `ReserveRefused` (E11000), the carrier (`CarrierOk`, `CarrierRefuses`,
`CarrierSilent`), `Refused`, `Note` (ids), `Finalise` and `Snapshot`; `Die` may end it anywhere.
The steps of `cancelShipment` have names in `C`: `CTrack` asks the carrier first, `CMark` writes
"cancelling", the carrier cancels, refuses or is silent, `CRevert`, `CBook` and `CClose` write
the outcome. The cron works on one record at a time: Take reads the document, Ask asks the
carrier, Settle writes. `IndexAllows` is both partial unique indexes; every write of a
status meets them.

Abstractions. A label's id, tracking code and PDF are one thing. The carrier's answers
are reduced to what `carrier-status.ts` makes of them (error, no signal, in transit,
delivered). A purchase without a requestId is one whose key nobody else has. The 15
minutes of `RECONCILE_MIN_AGE_MS` outlast the requests of one call to the carrier (30
seconds each, repeated once), so the cron does not take a record whose call is still at
the carrier; it may take one whose call waits for the database. `getTracking` is one step
(its write has the condition in it). The carrier cannot void a delivered label, and a
parcel travels only under a label somebody here knows of. `Snapshot` answers its caller with
the label of its own purchase, where the code reads the order's snapshot once more
(`shipping-vnp.service.ts:754`): no property tells the two apart.

`CarrierDedups` says whether the carrier answers a repeated request as it did the first.
Nothing in the repository measures it. The runs of `VnpShipment` assume it; the seller runs do
not. Section 5 tells what happens without it.

### SellerLabel

`buy` calls the wallet and the purchase, so the module extends `VnpShipment`, takes the wallet
as atomic postings of `WalletLedger` (which the refinement justifies), and adds the steps of
`buy` itself: `Quote`, `Debit`, `Buy` (a step of the purchase), `Stamp`, `BuyFails`, `Refund`,
`WalletFails` (the wallet throws, committed or not) and `Crash`. Each call has a price of its
own (`PriceOf`), since the code prices it from the `weightGram` in that very request: two
calls with one requestId may be quoted differently, and a refund is the failing call's own
quote. Staff top the wallet up once, which is enough to have both a wallet that is short
and one that pays. The carrier, the cron and
`Track` (`getTracking`, which anybody may ask for at any time) go on meanwhile, and so may
cancellations, which the runs leave to `vnp`.

### PushOrder

A push is `Load`, one `Claim` per order, `Claimed`, one `ImportRow` per item, `Pay` or
`Throw` and `Release`, `Cost`, one `Mark` per order, `Finish`. `Edit` and `Cancel` are the
pending-order check of the seller's requests, `Write` the unconditional write that
follows. `GoStale` makes a claim five minutes old. A draft stands for the items, prices
and designs of an order. `PushesAreQuick` is the assumption that only a push that has died
lets its claim grow stale: `releasePushClaims` frees whoever's claim is there, so the code
needs it.

### FactoryFlow and Fulfillment

`order` is the document of one production order, reduced to the fields that decide what
happens on the floor. All handlers have one shape: read the document, decide, write. A
call is therefore two steps. Its first step has the handler's name (`Start`, `Complete`,
`BackToStage`, `BackToDesigner`, `DesignerComplete`, `NoteOk`, `ReportError`, `Hold`,
`ForceComplete`, `SyncHold`, ...), has the handler's guards, and leaves in `calls[c]` the
patch that the handler puts in `$set`. `Write` merges the patch into the document as it is by
then, if the filter of the write (`StillTrue`) still matches; `Conflict` is the 409. Only the
floor, the designer and the hold sync have a filter: the others write by `_id`, so their
patch overwrites whatever came between. `Heal`, `HealWrite` and `Reread` are the self-healing
of print, which writes before the request proper. `Boot` is the repair in `onModuleInit`.

A handler with a request to OnosPod between reading and writing (`Recover`, `NewDesign`)
needs nothing more: other calls may come between its two steps anyway. The hold sync
asks OnosPod first, then reads, plans, and writes order by order: its window is the one
between plan and write. `ForceComplete` fills in the note and the designer's status
where it read them missing, as the code does, and the stages it read as not done. A call
that heals print writes up to twice, the second time after reading the order again, so a
hold that comes after its first read may be followed by two writes.

`FactoryFlow` gives the auto-stages of a flow as sets; the loops of `complete` and of
`redirectAutoTarget` become `AutoRun`, `NextStop` and `redirectAutoTarget`, functions of a
factory and a stage. `cycle`, `worklog`, `told`, `outside` and `disturbed` are history for
the properties. `outside` says that something other than the stages' own workers, one
request at a time, has moved the order; `disturbed` that an error report, a note, the
designer or a boot repair has.

An order may start at any place where the floor may have brought it: `InitialOrders` gives
the documents for a factory, and `InitialOrdersAssumption` asks that each be a `SoundOrder`,
which is what an order that was imported and moved only by the floor is.

Abstractions. The settings of the order's factory do not change while it is worked on (for
orders that were there before a change the code has `completePackBacklog`, which repeats
the manager's `Start` and `Complete`). Who the designer is and which OnosPod episode was
dismissed are left out, and so are orders of the factory outside production. The sending of
packages and webhooks is one counter, `told`.

### Inventory

`book` is the ledger, `quantity` the cached stock. A request is a list of movements, made one
after the other. `Read` is the snapshot of `applyTransaction`'s transaction and all it
decides from it; `Commit` writes row and stock, `CommitNothing` ends a transaction that found
its key booked or nothing to change, `Again` is `withTransaction` repeating the callback (with
the flags `duplicated` and `unchanged`, which it does not reset), `DuplicateKey` the catch of
E11000. `CountDeductions` is what `scanOut` counts before its transaction; `CloseOut`,
`CloseWrite` and `CloseMark` are the three accesses of `closeOutReceipt`. `Die` may end any call
between two steps. One factory and one day are modelled. `overridden` and `tangled` mark the
two things the code has no defence against: an order scanned as another SKU, which the
unique index (per item) does not see, and closings that overlap or die before their marks.
What an order is scanned as and how many pieces it takes are constants (`OrderSku`,
`OrderQty`). The code works them out again at every scan from the order and its product
(`inventory.service.ts:452-464`), which may be edited between two scans; another SKU then acts
as `skuOverride` does, and is not modelled beyond it. Nor is another quantity, which would
only be the quantity of the later deduction.

`StockLedger` is the book without any of that: no transactions, no cached stock, no attempt
counted in advance. It issues receipts and books a line of a receipt, a count, or a
deduction of an order, each in one step and of the stock as it is at that step. The mapping
reads a row of `book` without the receipt a closing stamps on it (`Entry`) and the goods
receipts with their lines (a closing issues a receipt of no lines). A `Commit` is then a
movement, `CreateReceiptIn` and `CloseWrite` issue, and every other step is a stutter: a
repeated line, count or scan changes nothing that can be seen in the book.

## 3. Runs

| Run | Instance | Shows |
|---|---|---|
| `wallet` | 2 money calls, 2 limit calls, 2 sellers, 6 operations | the wallet invariants and the refinement |
| `vnp` | 1 seller order, 2 purchases with 2 keys, 1 cancellation, fair cron | one usable label, none lost, cancelled means void, nothing in doubt for ever |
| `seller` | any 2 of 3 purchases with one key (a click, a click with a higher price, another order), wallet for one label | paid before bought, answered for, refunded once; one label per key |
| `push` | 2 pushes, 2 orders, 3 drafts, 1 edit or cancellation | claims exclusive, pushed orders produced |
| `fulfillment` | 3 calls, 2 at a time, on an order anywhere (about 40 documents) in 3 factories, boot repairs | the floor against all its rivals |
| `inventory` | 3 requests at a time of 5 kinds, 2 SKUs, 2 orders, crashes | stock is ledger; deductions, receipts and closings add up; the refinement |
| `vnp_poll`, `seller_free`, `push_cancelled`, `fulfillment_limbo`, `fulfillment_cancelled`, `inventory_repost` | the same or smaller; the last three with calls one after the other (`MaxCalls`) | the disagreements of section 5 |

Bounds. Two calls are enough for every pairwise race, which is what the code's indexes,
claims and conditions are there for; each call can meet the other at every pair of steps,
plus the cron, the carrier and crashes. The wallet's operations are chosen so that each
pair collides: one requestId with two amounts, one bank reference for two sellers, two
labels of which the limit admits one, a label and its refund under one requestId. An order
on the floor needs a long history to reach its last stages; `fulfillment` starts from
every place an order can have reached and has three calls there, which is enough for two
that race and one that follows. Its factories have between them every kind of auto-stage:
in the middle, at the end, and packing by its own switch. In `inventory` everything
collides on one SKU: two receipt lines, a count and two orders, one of which may be
scanned as another SKU or again on purpose. Calls are not repeated, so TLC's runs end:
`CHECK_DEADLOCK FALSE` where all calls may be done; the wallet run checks deadlock,
because a seller can always be deleted and restored. `wallet`, `fulfillment` and `inventory`
use the symmetry of calls; no liveness property is checked under symmetry. `TwoCalls`, a
state constraint of the seller runs, keeps one of the three purchases at home, and any of
them may be that one.

Fairness (only `vnp`). Weak fairness of a purchase call that has begun, with its death:
requests have time limits, so a call ends; nobody need make one. Weak fairness of the cron's work in hand. Strong fairness of
taking each "purchasing" record, of the carrier's answering the cron, and of the cron's
write: the cron comes round again and again and is not unable to reach the carrier for
ever. The carrier is under no obligation to answer a purchase or a cancellation.

## 4. Proofs

`CustomerWallet_proofs` proves, for any sellers, operations, requestIds and numbers of calls,
from the assumptions named in the modules (`OpsAssumption`, `LimitOpsAssumption`,
`CallsAssumption`), every property that the run `wallet` checks.

The invariants are not inductive as they stand. What a commit writes is computed from
`snap`, so the induction needs to know that a transaction which can still commit has a
snapshot that is true now: for every call at "write" and not in `conflicted`, `snap` is the
balance (or the limit) of its seller, the seller is not deleted and the guard held. That
is the snapshot part of the inductive invariant; `SnapshotStep` preserves it because every
writer of the customer document puts the others in `conflicted`. With it, `CommitAppends`
says that a commit appends the row that continues the chain, `BalanceStep`, `UniquenessStep`
and `LimitTrailStep` follow, and `Refinement` reads each commit as `Post` or `SetLimit` and
every other step as a stutter. `AnswersCorrect` adds which answers a call can have at which
step.

`PushOrder_proofs` proves every property that the run `push` checks, for any orders, drafts,
pushes and requests, from `DraftsAssumption`, `PushesAssumption` and `ItemsAssumption` (an
item is of one order). All but `TypeCorrect` assume `PushesAreQuick`: a push that outlasts
PUSH_CLAIM_STALE_MS can lose its claim to another, and the code has no second defence.
`ClaimIsExclusive` is not inductive: a claim may be taken over once it is stale, and what
makes that harmless is `StaleIsOver`, that the push which holds a stale claim is over.
`WhoWrites` lists every way one step can change an order's claim, mark or trash flag, and
`EInvStep` goes through that list. `PushedIsInProduction` needs what each stage hands to the
next: what is handled is imported as it was read (`ImportedSoFar`), what is paid for is
wholly handled (`PaidIsImported`) and held until it is marked (`PaidOrHeld`).
`OnlyHolderImports` says that no row of an order is imported but by the push that has
claimed it, so exclusion keeps one push's rows safe from the others.

`VnpShipment_proofs` proves the safety properties of the run `vnp`, and `SameKeySameLabel`
of `seller`, for any purchases, cancellations, groups and requestIds. `Moves` sums up, variable by
variable, what any step may do (labels are only added or change state; which status can
follow which, and who writes it); the invariants are preserved along that summary, not
along the actions one by one. `BooksInv` needs nothing of the carrier: where each call
stands, what its record says by then, both unique indexes and what the cron has in hand.
It gives `TypeCorrect`. The other theorems are about labels and assume `CarrierDedups`
(section 2). `LabelsInv` adds why there is one label: a purchase makes one
(`OneLabelEach`), which is on its record or in doubt (`KnownOrInDoubt`), and while it is
in doubt nobody buys for that group, so that it is the group's latest (`DoubtIsLatest`)
and what the cron finds is it (`CronTrue`). "failed" is written only where there is no
label (`FailedIsUnsold`).

`SellerLabel_proofs` proves the properties of the seller's calls and their money that the
run `seller` checks, for any prices, on top of `BooksInv` and `Moves`, which hold of the purchases inside `buy` as well. `SellerInv` relates the two
systems: a purchase is under way only for a requestId that has paid (`PaidFirst`), money is
taken by a call that is past the wallet, and such a call sells or refunds (`MoneyOK`).
`RefundsHappenOnce` is about how often a requestId is refunded. How much is a different
matter: the code refunds the failing call's own quote, which may be more than was charged
(`seller_free`), so nothing is claimed of it. `SellerNoSecondLabel` carries `OneUsableLabel` over to the seller's calls,
under `CarrierDedups`.

`Fulfillment_proofs` proves every property that the run `fulfillment` checks, for any
number of requests in flight, any set of factories and any sound orders to start with,
from `FulfillmentAssumption` and `InitialOrdersAssumption`. A request in flight is a patch
computed from a document that may be long out of date, so everything hangs on what is
known of a patch by itself. `CallsInv` says that, handler by handler: which fields it
sets, to what, and that the stage it goes to is not an auto-stage of the factory. `Fresh`
is what is true the moment a handler has decided, and each handler is shown once to be
`Fresh`. On these stand `BaseInv` (types and auto-stages), `LogInv` (what is in the log of
the running cycle is behind the stage's status, which is why the condition in the write
gives work out once), `FloorInv` (a worker's request in flight is about the stage where
the order is), `ChainInv` (the stages behind the order are done in turn, not only those
behind a finished one) and `MadeInv` (a completion by hand knows every stage that is not
passed, and whoever saw the order finished saw it after its customer was told). The lemmas
on the flow, `WhereItGoesOn` above all, say what completing a stage passes over and that
where the order stops next there is a worker.

`Inventory_proofs`, `InventoryDeductions_proofs` and `InventoryAnswers_proofs` prove every
property that the run `inventory` checks, for any items, orders, requests
and numbers of calls, from `InventoryAssumption` (the calls and the orders are finitely many,
`None` is not a key) and `RequestsAssumption` (what a request asks for is well-formed, and the
lines of a goods receipt are positive, as the DTO requires). `StockIsLedger` is kept because
`Current` lets a transaction write only over the stock it has read, and the row it appends
begins there (`CommitChained`); a row that is marked by a closing keeps everything else
(`Marked`). `DeductedAsOrdered` says nothing of what calls are about to do, and that is what
makes a step safe, so the induction is over `Deductions`: every deduction that is due has a
number that is free or just taken (`OutWork`), what a transaction found is what its
snapshot has of the book (`SnapshotOK`), and the deductions made, with the calls that may
still make a second one (`Pending`), are no more than one and the scans that were meant to
repeat one (`WithinBudget`). `NextNumber` is the heart of it: a deduction commits on a
snapshot that is not stale, in which its key was not found, so its number is the next.
`TodoStep` lists what a step can leave a call to do, and each part of the invariant is
preserved along that list.

`ReceiptsAreBooked` is proved from `ReceiptsInOrder`: a call that books a goods receipt has
its last lines to do, and those before are on the books (`InWorkOK`), so when nothing is left
to do all are; `OnceBooked` is what looking for the key gives. `AllBooked` counts: the rows
of an answered receipt and its lines are in bijection. `ScansAreAnswered` is proved from
`ScansInOrder`: a scan that has its answer has a row of its order, and a row it calls its own
is nobody else's (`OwnRow`), since it was the end of the book when it was given.
`MovementBooked` serves both: a movement with a key is answered with the row it has just
written or with one that has its key, and in that case the caller is told so.

`ClosingsAddUp` is proved from `ClosingsInOrder`: unless closings are tangled there is one at a
time, the rows it has read stay open until it marks them, and a finished receipt tells what
is on it (`Tells`). What is summed stays one set of unchanged rows, so sums are compared and
never computed.

`Refinement` (in `InventoryAnswers_proofs`) shows that `Inventory` implements
`StockLedger`. `CommitIsBooked` says that a commit books on the stock as it is: `Current`
makes the snapshot true of the book, and `StockIsLedger` makes the cached stock the last
row's. `CommitIsAskedFor` says that what is booked was asked for: a line of the call's own
receipt (`InRowOK`), a difference from the stock of this moment (`SnapshotOK`: what a
count books was computed from the stock its snapshot has), or a deduction whose number is
at most one more than those made (`DeductionRow`).

Only model-checked: liveness (`PurchasingResolves`), because the prover has neither fairness
nor ENABLED. The findings of section 5 are TLC's counterexamples; the properties they
break are claimed nowhere. `EveryLabelOnTheBooks`, which a carrier that does not repeat its
answers would break, is claimed with `CarrierDedups` as its hypothesis.

## 5. Findings

- `seller_free`: a requestId that has paid lets every later call with it through, and a call
  that fails refunds its own quote whatever that requestId has bought: with a larger weight
  in the second click, the seller ends with the label and more money than before. Two
  disagreements meet in it: a refund for a label that is in use, and a refund that is not
  the amount charged.
- `vnp_poll`: the tracking poll writes by `_id` and revives a cancelled record.
- `push_cancelled`: a cancellation decided before a push claims an order is written after it.
- `fulfillment_limbo`: an error report puts an order back at print without opening print; some
  ways of settling the report leave it ready there, with print done, and nobody can start it.
- `fulfillment_cancelled`: the designer's handler does not look at cancellations, and
  completing the design of a cancelled order puts it into print or rework. The floor's
  handler refuses cancelled orders, so nobody can work on what this opens.
- `inventory_repost`: a goods receipt posted again after a request that died is another
  receipt with other keys, and is counted twice.

Each is a run that ends in a violation, on the property named in `PROJECT.json`.

Two more disagreements have no run. `request()` repeats createShipment after a network
error (`vnp-eglobal.client.ts:141`); should the carrier refuse the repetition, the refusal
is taken for "nothing was bought" (`shipping-vnp.service.ts:661-670`), the record fails,
and the label of the first attempt is on no book: `MCVnpShipment.cfg` with `CarrierDedups
= FALSE` violates `OneUsableLabel` and `EveryLabelOnTheBooks` so. It depends on a carrier
nobody here can ask. And `inventory.service.ts:440` and `Inventory.md:49` say that what is
on a closing receipt is not gathered again and that closing twice gives nothing; two
closings at once, or one after another that died before its marks, do gather it again.
`ClosingsAddUp` sets these aside (`tangled`).

Met while modelling, and not stated as findings because no document promises otherwise or
the effect is small: a rework-back from "waiting" leaves "waiting", so the condition on the
status cannot tell the order from one that has come round again; self-healing does not
look at a hold or a cancellation after it has read the order again; an order completed by
hand while its last stage is being completed is announced twice; `recoverHeldOrders` writes by `_id` after asking OnosPod and
ends a hold the staff have placed meanwhile.

## 6. What is not modelled, and why

Reports, lists, filters, notifications, uploads and the front ends keep no state that the
properties speak of. Authorisation is taken as given: the models start behind the guards.
Prices and promotions are data (one value per draft or per call). The contents of labels,
addresses and designs are not looked at. Of `order.service.ts`, `PushOrder` has
`importOrders` as its caller sees it and `Fulfillment` the handlers that write what the
floor reads; its filters, exports, bulk forms, transfers and the stale-order cleanup are
left out. Most of the repository is front ends, lists and reports: the API files modelled
here are a small part of its lines, and the map shows which. The hazards in `PROJECT.json`
without a property say why they have none; those of the planned modules are the reason
they are planned.

## 7. Plan

1. `DesignFiles`: presign, queue, worker and lifecycle; an original in use is not deleted,
   a job is not lost.
2. A change of the factory's flow while orders are on the floor, and of what an order is
   scanned as between two scans.
3. Abstract specifications of the label purchase (a group buys, holds and voids one label)
   and of the push (an order goes into production whole or not at all), with their
   refinements.
