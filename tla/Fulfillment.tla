---------------------------- MODULE Fulfillment ----------------------------
(***************************************************************************)
(* One production order on the factory floor, and everybody who writes its *)
(* document: the workers and managers of FulfillmentTaskService.transition, *)
(* the designer, Support with the tool check and the error reports, the    *)
(* staff who hold, release, cancel or force-complete it, the hold sync and *)
(* the recovery cron with OnosPod, and the repairs made when the API boots.*)
(*                                                                         *)
(* Every one of them reads the document, decides, and writes.  A call here *)
(* is therefore two steps, and other calls come between.  What it decided  *)
(* is kept in calls[c]: the fields it will set and what it asks of the     *)
(* document when it does.  A call that is refused changes nothing and is   *)
(* not a step.                                                             *)
(***************************************************************************)
EXTENDS FactoryFlow

CONSTANTS
  Calls,          \* requests being handled at the same time
  MaxCalls,       \* how many there are in all
  Factories,      \* the settings of factories an order may be in
  InitialOrders,  \* documents an order may start with, given its factory
  NoStage

ASSUME FulfillmentAssumption ==
  /\ MaxCalls \in Nat
  /\ Factories \subseteq Factory
  /\ NoStage \notin FulfillmentStage

VARIABLES
  factory,    \* flowType and autoCompletePack of the order's factory
  order,      \* its document
  calls,      \* the requests being handled
  begun,      \* how many have been
  told,       \* order.production_completed events sent to the customer
  cycle,      \* how often each stage was opened for work,
  worklog,    \* what the floor did: stage, action, and the cycle it did it in
  outside,    \* TRUE once anyone but a stage's worker, one call at a time, wrote,
  disturbed   \* TRUE once anyone wrote who may take back a stage's completion

vars == <<factory, order, calls, begun, told, cycle, worklog, outside, disturbed>>

Open == {"waiting", "rework"}
FulfillmentStageStatus == Open \cup {"absent", "in-progress", "done"}
DesignerStatus == {"unassigned", "assigned", "in-progress", "done", "rework"}
HoldSource == {"no", "staff", "waiting design", "waiting address", "onospod"}
Notes == {"", "ok", "error", "other"}

\* The fields of OrderEntity that decide what happens on the floor.  A stage that
\* fulfillmentStages does not have is "absent".
Order ==
  [current  : FulfillmentStage \cup {NoStage},          \* currentFulfillmentStage
   status   : [FulfillmentStage -> FulfillmentStageStatus],
   passed   : [FulfillmentStage -> BOOLEAN],             \* completedAt
   touched  : [FulfillmentStage -> BOOLEAN],             \* firstStartedAt
   finished : BOOLEAN,                                   \* fulfillmentCompletedAt
   ready    : BOOLEAN,                                   \* readyForFulfill
   held     : HoldSource,                                \* heldAt, holdSource, holdReason
   cancelled : BOOLEAN,
   note     : Notes,                                     \* toolResultNote
   returned : BOOLEAN,                                   \* productionErrorSource = tool-check
   designer : DesignerStatus,
   designed : BOOLEAN,                                   \* designerCompletedAt
   assignee : BOOLEAN]

Each(x) == [s \in FulfillmentStage |-> x]

\* An order as it is imported, and one that came to stage s without a detour.
Imported ==
  [current |-> NoStage, status |-> Each("absent"), passed |-> Each(FALSE),
   touched |-> Each(FALSE), finished |-> FALSE, ready |-> FALSE, held |-> "no",
   cancelled |-> FALSE, note |-> "", returned |-> FALSE,
   designer |-> "unassigned", designed |-> FALSE, assignee |-> FALSE]

ArrivedAt(s, st) ==
  LET done(t) == Before(t, s) \/ (t = s /\ st = "done")
  IN  [Imported EXCEPT
        !.current = IF st = "done" THEN NoStage ELSE s,
        !.finished = st = "done",
        !.status = [t \in FulfillmentStage |->
          IF done(t) THEN "done" ELSE IF t = s THEN st ELSE "absent"],
        !.passed = [t \in FulfillmentStage |-> done(t)],
        !.touched = [t \in FulfillmentStage |-> done(t) \/ (t = s /\ st # "waiting")],
        !.ready = TRUE, !.note = "ok"]

\* One that was sent back from stage t to s, where it is being made again.
SentBack(s, t) ==
  [ArrivedAt(t, "in-progress") EXCEPT !.current = s, !.status[s] = "in-progress",
                                      !.status[t] = "waiting"]

\* The floor's own view of an order: what is in progress is where the order is, there is
\* work where it is, a stage that it has reached comes after stages it has passed, and a
\* finished order has passed all of them.
SoundOrder(f, o) ==
  /\ o \in Order
  /\ o.current \notin AutoStages[f]
  /\ \A s \in FulfillmentStage : o.status[s] = "in-progress" => o.current = s
  /\ o.current # NoStage => o.status[o.current] \in Open \cup {"in-progress"}
  /\ \A s, t \in FulfillmentStage : Before(s, t) /\ o.status[t] # "absent" => o.passed[s]
  /\ o.finished => o.current = NoStage /\ \A s \in FulfillmentStage : o.passed[s]

ASSUME InitialOrdersAssumption ==
  \A f \in Factories : \A o \in InitialOrders[f] : SoundOrder(f, o)

(***************************************************************************)
(* Updates of the document.  A patch is what a handler puts in $set:       *)
(* "fulfillmentStages.<stage>.<field>" sets one stage and leaves the rest. *)
(***************************************************************************)
\* f where it has a field, g where it has not.
f ++ g == [x \in DOMAIN f \cup DOMAIN g |-> IF x \in DOMAIN f THEN f[x] ELSE g[x]]

PerStage == {"status", "passed", "touched"}

Set(o, patch) ==
  [f \in DOMAIN o |-> IF f \notin DOMAIN patch THEN o[f]
                      ELSE IF f \in PerStage THEN patch[f] ++ o[f]
                      ELSE patch[f]]

On(S, x) == [s \in S |-> x]
Nothing == <<>>

\* kind says whose handler the call is in; the flags, what it saw of the order.
Idle == [pc |-> "idle", kind |-> "", by |-> "", stage |-> NoStage, was |-> "",
         patch |-> Nothing, wasFinished |-> FALSE, wasCancelled |-> FALSE]

Floor == {"start", "complete", "back"}

\* Who cannot disturb the floor, and who can take back a stage's completion.
Quiet == {"assign", "hold", "unhold", "cancel", "sync hold", "sync release", "recover", "design"}
Rewriters == {"report", "note", "recheck", "designer"}

Init ==
  /\ factory \in Factories
  /\ order \in InitialOrders[factory]
  /\ calls = [c \in Calls |-> Idle]
  /\ begun = 0
  /\ told = IF order.finished THEN 1 ELSE 0
  /\ cycle = [s \in FulfillmentStage |-> 0]
  /\ worklog = <<>>
  /\ outside = FALSE
  /\ disturbed = FALSE

NotHeld == order.held = "no"
NotCancelled == ~order.cancelled

\* Call c has read the document and made up its mind: the patch, and the status (of a
\* stage, or of the designer) that its write will ask for.
Decide(c, k) ==
  /\ begun' = begun + 1
  /\ calls' = [calls EXCEPT ![c] =
       k ++ [pc |-> "write", wasFinished |-> order.finished,
             wasCancelled |-> order.cancelled] ++ Idle]
  /\ UNCHANGED <<factory, order, told, cycle, worklog, outside, disturbed>>

(***************************************************************************)
(* FulfillmentTaskService.transition.                                      *)
(***************************************************************************)
\* A worker acts at the order's current stage; a manager (OVERRIDE_ROLES) at any.
MayAct(by, s) == by = "worker" => order.current = s

\* currentStatus: a stage that the document does not have is taken to wait.
CurrentStatus(s) == IF order.status[s] = "absent" THEN "waiting" ELSE order.status[s]

\* A checked order that is not at print yet, when print begins.
NeedsHealing ==
  /\ order.note = "ok"
  /\ order.current # "print"
  /\ order.status["print"] # "done"
  /\ ~order.finished

StartPatch(s) == [status |-> On({s}, "in-progress"), touched |-> On({s}, TRUE)]

Start(c, by, s) ==
  /\ NotCancelled /\ NotHeld
  /\ s = "print" => ~NeedsHealing
  /\ MayAct(by, s)
  /\ CurrentStatus(s) \in Open
  /\ Decide(c, [kind |-> "start", by |-> by, stage |-> s, was |-> CurrentStatus(s),
                patch |-> StartPatch(s)])

\* Self-healing goes first, whoever asks.
Heal(c, by) ==
  /\ NotCancelled /\ NotHeld
  /\ NeedsHealing
  /\ Decide(c, [kind |-> "start", by |-> by, stage |-> "print", pc |-> "heal",
                patch |-> [current |-> "print", ready |-> TRUE,
                           status |-> IF order.status["print"] = "absent"
                                      THEN On({"print"}, "waiting") ELSE Nothing]])

\* The stages in run are completed with s, and the order goes on to next.
Advance(s, run, next) ==
  [status  |-> On(next, "waiting") ++ On(run \cup {s}, "done"),
   passed  |-> On(run \cup {s}, TRUE),
   touched |-> On(run, TRUE),
   current |-> IF next = {} THEN NoStage ELSE CHOOSE t \in next : TRUE]
  ++ IF next = {} THEN [finished |-> TRUE] ELSE Nothing

CompletePatch_SkipsPassed(s) ==   \* mutant: a stage passed before is not opened again
  LET ahead == {t \in FulfillmentStage \ AutoRun[factory][s] : Before(s, t) /\ ~order.passed[t]}
  IN  Advance(s, AutoRun[factory][s], {t \in ahead : \A u \in ahead : ~Before(u, t)})

CompletePatch_NoCompletedAt(s) ==   \* mutant: auto-stages get no completedAt
  [Advance(s, AutoRun[factory][s], NextStop[factory][s]) EXCEPT !.passed = On({s}, TRUE)]

CompletePatch(s) == Advance(s, AutoRun[factory][s], NextStop[factory][s])

Complete(c, by, s) ==
  /\ NotCancelled /\ NotHeld
  /\ MayAct(by, s)
  /\ CurrentStatus(s) = "in-progress"
  /\ Decide(c, [kind |-> "complete", by |-> by, stage |-> s, was |-> "in-progress",
                patch |-> CompletePatch(s)])

BackToDesigner(c, by, s) ==
  /\ NotCancelled /\ NotHeld
  /\ MayAct(by, s)
  /\ CurrentStatus(s) \in Open \cup {"in-progress"}
  /\ Decide(c, [kind |-> "back", by |-> by, stage |-> s, was |-> CurrentStatus(s),
                patch |-> [status |-> On({s}, "waiting"), designer |-> "rework",
                           returned |-> FALSE, ready |-> FALSE]])

BackToStage_KeepsReporter(c, by, s, target) ==   \* mutant: stage s stays as it is
  LET t == redirectAutoTarget[factory][target] IN
  /\ NotCancelled /\ NotHeld
  /\ MayAct(by, s)
  /\ CurrentStatus(s) \in Open \cup {"in-progress"}
  /\ Before(t, s)
  /\ Decide(c, [kind |-> "back", by |-> by, stage |-> s, was |-> CurrentStatus(s),
                patch |-> [status |-> On({t}, "rework"), current |-> t]])

BackToStage(c, by, s, target) ==
  LET t == redirectAutoTarget[factory][target] IN
  /\ NotCancelled /\ NotHeld
  /\ MayAct(by, s)
  /\ CurrentStatus(s) \in Open \cup {"in-progress"}
  /\ Before(t, s)
  /\ Decide(c, [kind |-> "back", by |-> by, stage |-> s, was |-> CurrentStatus(s),
                patch |-> [status |-> On({t}, "rework") ++ On({s}, "waiting"),
                           current |-> t]])

(***************************************************************************)
(* The designer: DesignerTaskService.transition.  It does not look at      *)
(* cancelledAt.                                                            *)
(***************************************************************************)
\* buildFulfillmentEntrySet: print is set up anew.
EntryPatch == [current |-> "print", status |-> On({"print"}, "waiting"),
               passed |-> On({"print"}, FALSE), touched |-> On({"print"}, FALSE)]

DesignerStart(c) ==
  /\ NotHeld
  /\ order.designer \in {"assigned", "rework"}
  /\ Decide(c, [kind |-> "designer", was |-> order.designer,
                patch |-> [designer |-> "in-progress"]])

BackFromDesigner_AnyStage ==   \* mutant: no case for an order that is at no stage
  [status |-> On({order.current}, "rework")]

\* applyCompleteFulfillmentHook
BackFromDesigner ==
  IF order.current # NoStage THEN [status |-> On({order.current}, "rework")]
  ELSE IF order.finished THEN Nothing ELSE EntryPatch

DesignerComplete(c) ==
  /\ NotHeld
  /\ order.designer = "in-progress"
  /\ Decide(c, [kind |-> "designer", was |-> "in-progress",
                patch |-> [designer |-> "done", designed |-> TRUE, note |-> "ok",
                           ready |-> TRUE] ++ BackFromDesigner])

\* "Cannot do it": handed over to another designer.
DesignerReject(c) ==
  /\ NotHeld
  /\ order.designer \in {"assigned", "in-progress"}
  /\ Decide(c, [kind |-> "designer", was |-> order.designer,
                patch |-> [designer |-> "assigned", assignee |-> TRUE, designed |-> FALSE]])

(***************************************************************************)
(* Support and the offices: OrderService.                                  *)
(***************************************************************************)
\* updateField('assignee'), with somebody and with nobody.
Assign(c) ==
  /\ NotHeld /\ NotCancelled
  /\ order.note # "ok"
  /\ order.designer \in {"unassigned", "assigned"} \/ (order.designer = "rework" /\ ~order.assignee)
  /\ Decide(c, [kind |-> "assign", patch |-> [assignee |-> TRUE, designer |-> "assigned"]])

Unassign(c) ==
  /\ NotHeld /\ NotCancelled
  /\ Decide(c, [kind |-> "assign",
                patch |-> [assignee |-> FALSE, designer |-> "unassigned", designed |-> FALSE]])

WaitsForSupport == order.returned /\ order.note = "error"
HasDesigner == order.assignee /\ (order.designer = "done" \/ order.designed)

\* updateField('toolResultNote'): Support finds the files in order,
NoteOk(c) ==
  /\ NotHeld /\ NotCancelled
  /\ Decide(c, [kind |-> "note", patch |->
       IF WaitsForSupport
       THEN [note |-> "ok", returned |-> FALSE, current |-> "print"] ++
            IF HasDesigner THEN [designer |-> "rework", ready |-> FALSE]
            ELSE [ready |-> TRUE, status |-> On({"print"}, "rework")]
       ELSE [note |-> "ok", ready |-> TRUE] ++
            IF order.current = NoStage /\ ~order.finished THEN EntryPatch ELSE Nothing])

\* or not: an order that no worker has touched leaves the floor again.
NoteNotOk(c, v) ==
  /\ NotHeld /\ NotCancelled
  /\ v # "ok"
  /\ Decide(c, [kind |-> "note", patch |->
       [note |-> v, ready |-> FALSE] ++
       IF order.current # NoStage /\ (\A s \in FulfillmentStage : ~order.touched[s])
       THEN [current |-> NoStage, status |-> Each("absent"),
             passed |-> Each(FALSE), touched |-> Each(FALSE)]
       ELSE Nothing])

\* setProductionError: an error of the designer or of the tool check restarts the
\* order at print (buildDesignerReworkBackFromError),
Restart == IF order.current = NoStage THEN EntryPatch ELSE [current |-> "print"]

ToDesigner == order.designer \notin {"rework", "in-progress", "assigned"}

\* any other goes back to a stage the order has passed (buildFulfillmentReworkBack).
Furthest == IF order.current # NoStage THEN order.current
            ELSE IF order.finished THEN "pack" ELSE "print"

SendBackTo(target) ==
  IF target = NoStage THEN Nothing
  ELSE LET t == redirectAutoTarget[factory][target]
       IN  IF ~Before(t, Furthest) THEN Nothing
           ELSE [current |-> t, ready |-> FALSE, status |-> On({t}, "rework")] ++
                IF order.finished THEN [finished |-> FALSE] ELSE Nothing

ReportError(c, source, target) ==
  /\ NotCancelled /\ NotHeld
  /\ Decide(c, [kind |-> "report", patch |->
       [note |-> "error", ready |-> FALSE, returned |-> source = "tool-check"] ++
       IF source = "designer" /\ ToDesigner THEN [designer |-> "rework"] ++ Restart
       ELSE IF source = "tool-check" /\ ~WaitsForSupport THEN Restart
       ELSE SendBackTo(target)])

ClearError(c) ==
  /\ NotCancelled /\ NotHeld
  /\ Decide(c, [kind |-> "report", patch |-> [returned |-> FALSE]])

\* Support has looked at a returned order and found the error real.
markToolCheckDone(c) ==
  /\ NotHeld /\ NotCancelled
  /\ WaitsForSupport
  /\ Decide(c, [kind |-> "recheck", patch |->
       [returned |-> FALSE, current |-> "print", ready |-> FALSE] ++
       IF HasDesigner THEN [designer |-> "rework"] ELSE Nothing])

(***************************************************************************)
(* Holding, cancelling, completing by hand.                                *)
(***************************************************************************)
\* holdOrder, with a reason; for a new design the old one's results are dropped.
Hold(c, reason) ==
  /\ NotHeld /\ NotCancelled
  /\ Decide(c, [kind |-> "hold", patch |->
       [held |-> reason] ++
       IF reason = "waiting design"
       THEN [note |-> "", assignee |-> FALSE, designer |-> "unassigned", designed |-> FALSE]
       ELSE Nothing])

Unhold(c) ==
  /\ ~NotHeld
  /\ Decide(c, [kind |-> "unhold", patch |-> [held |-> "no"]])

Cancel(c) ==
  /\ NotCancelled
  /\ Decide(c, [kind |-> "cancel", patch |-> [cancelled |-> TRUE]])

\* forceCompleteOrder: what planForceComplete finds missing is filled in, the design and
\* Support's verdict too.
ForceComplete(c) ==
  LET missing == {s \in FulfillmentStage : ~order.passed[s]} IN
  /\ NotCancelled /\ NotHeld
  /\ ~order.finished
  /\ Decide(c, [kind |-> "force", patch |->
       [status |-> On(missing, "done"), passed |-> On(missing, TRUE),
        touched |-> On(missing, TRUE), current |-> NoStage, finished |-> TRUE] ++
       ((IF order.note = "" THEN [note |-> "ok"] ELSE Nothing) ++
        IF order.designer = "done" /\ order.designed THEN Nothing
        ELSE [designer |-> "done", designed |-> TRUE])])

(***************************************************************************)
(* OnosPod: new designs, and the holds it has itself.  Between reading and *)
(* writing lies a request to another system.                               *)
(***************************************************************************)
\* recoverHeldOrders releases what waited for the customer's design or address,
Recover(c) ==
  /\ NotCancelled
  /\ order.held \in {"waiting design", "waiting address"}
  /\ Decide(c, [kind |-> "recover", patch |->
       [held |-> "no"] ++ IF order.held = "waiting design" THEN [note |-> ""] ELSE Nothing])

\* checkOrderDesignFromOnospod whatever is held, resyncDesignFromOnospod what is not.
NewDesign(c) ==
  /\ NotCancelled
  /\ Decide(c, [kind |-> "design", patch |->
       [note |-> ""] ++ IF NotHeld THEN Nothing ELSE [held |-> "no"]])

\* planOnospodHoldSync, when OnosPod holds the order in an episode nobody dismissed,
SyncHold(c) ==
  /\ NotHeld /\ NotCancelled /\ ~order.finished
  /\ Decide(c, [kind |-> "sync hold", patch |-> [held |-> "onospod"]])

\* and when it no longer holds one that was held for it.
SyncRelease(c) ==
  /\ order.held = "onospod"
  /\ Decide(c, [kind |-> "sync release", patch |-> [held |-> "no"]])

StillTrue_StageById(k) ==   \* mutant: a stage is written by _id
  /\ k.kind = "designer" => order.designer = k.was
  /\ k.kind = "sync hold" => NotHeld /\ NotCancelled /\ ~order.finished
  /\ k.kind = "sync release" => order.held = "onospod"

StillTrue_SyncById(k) ==   \* mutant: the sync writes by _id
  /\ k.kind \in Floor => order.status[k.stage] = k.was
  /\ k.kind = "designer" => order.designer = k.was

(***************************************************************************)
(* The writes.                                                             *)
(***************************************************************************)
\* What the filter of the write asks for; most handlers write by _id alone.
StillTrue(k) ==
  /\ k.kind \in Floor => order.status[k.stage] = k.was
  /\ k.kind = "designer" => order.designer = k.was
  /\ k.kind = "sync hold" => NotHeld /\ NotCancelled /\ ~order.finished
  /\ k.kind = "sync release" => order.held = "onospod"

Opened(k) ==
  IF "status" \in DOMAIN k.patch
  THEN {s \in DOMAIN k.patch.status : k.patch.status[s] \in Open} ELSE {}

\* A stage's own worker, who waits for each answer before the next request.
InTurn(c) ==
  /\ calls[c].by = "worker"
  /\ \A d \in Calls \ {c} : calls[d].pc # "idle" /\ calls[d].kind \in Floor =>
       calls[d].stage # calls[c].stage

\* The customer hears of an order the floor finishes if it was not finished when the
\* call read it, and of one completed by hand.
Announces(k) ==
  \/ k.kind \in Floor /\ ~k.wasFinished /\ order'.finished
  \/ k.kind = "force"

Write(c) ==
  LET k == calls[c] IN
  /\ k.pc = "write"
  /\ StillTrue(k)
  /\ order' = Set(order, k.patch)
  /\ cycle' = [s \in FulfillmentStage |-> IF s \in Opened(k) THEN cycle[s] + 1 ELSE cycle[s]]
  /\ worklog' = IF k.kind \in {"start", "complete"}
                THEN Append(worklog, <<k.kind, k.stage, cycle[k.stage]>>) ELSE worklog
  /\ told' = IF Announces(k) THEN told + 1 ELSE told
  /\ outside' = (outside \/ ~(k.kind \in Quiet \/ (k.kind \in Floor /\ InTurn(c))))
  /\ disturbed' = (disturbed \/ k.kind \in Rewriters)
  /\ calls' = [calls EXCEPT ![c] = Idle]
  /\ UNCHANGED <<factory, begun>>

\* 409, or a sync that leaves the order to whoever was faster.
Conflict(c) ==
  /\ calls[c].pc = "write"
  /\ ~StillTrue(calls[c])
  /\ calls' = [calls EXCEPT ![c] = Idle]
  /\ UNCHANGED <<factory, order, begun, told, cycle, worklog, outside, disturbed>>

\* Self-healing writes by _id; then the call reads again, and does not look again
\* whether the order is held or cancelled.
HealWrite(c) ==
  /\ calls[c].pc = "heal"
  /\ order' = Set(order, calls[c].patch)
  /\ cycle' = [s \in FulfillmentStage |->
                 IF s \in Opened(calls[c]) THEN cycle[s] + 1 ELSE cycle[s]]
  /\ calls' = [calls EXCEPT ![c].pc = "reread"]
  /\ outside' = TRUE
  /\ UNCHANGED <<factory, begun, told, worklog, disturbed>>

Reread(c) ==
  LET k == calls[c] IN
  /\ k.pc = "reread"
  /\ calls' = [calls EXCEPT ![c] =
       IF MayAct(k.by, "print") /\ CurrentStatus("print") \in Open
       THEN [k EXCEPT !.pc = "write", !.was = CurrentStatus("print"),
                      !.patch = StartPatch("print"), !.wasFinished = order.finished]
       ELSE Idle]
  /\ UNCHANGED <<factory, order, begun, told, cycle, worklog, outside, disturbed>>

\* The backfills of onModuleInit: print without a checked design is cleared if nobody started,
\* and a checked order that is nowhere is entered.
Boot ==
  /\ \/ /\ ~order.ready /\ order.current = "print" /\ ~order.touched["print"]
        /\ order' = [order EXCEPT !.current = NoStage, !.status = Each("absent"),
                                  !.passed = Each(FALSE), !.touched = Each(FALSE)]
        /\ UNCHANGED cycle
     \/ /\ order.ready /\ order.current = NoStage /\ ~order.finished
        /\ NotHeld /\ NotCancelled
        /\ order' = Set(order, EntryPatch)
        /\ cycle' = [cycle EXCEPT !["print"] = @ + 1]
  /\ outside' = TRUE
  /\ disturbed' = TRUE
  /\ UNCHANGED <<factory, calls, begun, told, worklog>>

Transition(c) ==
  \E by \in {"worker", "manager"} :
    \/ Heal(c, by)
    \/ \E s \in FulfillmentStage :
         \/ Start(c, by, s) \/ Complete(c, by, s) \/ BackToDesigner(c, by, s)
         \/ \E t \in FulfillmentStage : BackToStage(c, by, s, t)

Designer(c) == DesignerStart(c) \/ DesignerComplete(c) \/ DesignerReject(c)

Support(c) ==
  \/ Assign(c) \/ Unassign(c) \/ NoteOk(c) \/ ClearError(c) \/ markToolCheckDone(c)
  \/ \E v \in Notes : NoteNotOk(c, v)
  \/ \E source \in {"designer", "factory", "tool-check"}, t \in FulfillmentStage \cup {NoStage} :
       ReportError(c, source, t)

Office(c) ==
  \/ Unhold(c) \/ Cancel(c) \/ ForceComplete(c)
  \/ \E reason \in {"staff", "waiting design", "waiting address"} : Hold(c, reason)

OnosPod(c) == Recover(c) \/ NewDesign(c) \/ SyncHold(c) \/ SyncRelease(c)

\* A request comes in.
Call(c) ==
  /\ calls[c].pc = "idle"
  /\ begun < MaxCalls
  /\ Transition(c) \/ Designer(c) \/ Support(c) \/ Office(c) \/ OnosPod(c)

Next ==
  \/ \E c \in Calls :
       \/ Call(c)
       \/ Write(c) \/ Conflict(c) \/ HealWrite(c) \/ Reread(c)
  \/ Boot

Spec == Init /\ [][Next]_vars

(***************************************************************************)
(* Properties.                                                             *)
(***************************************************************************)
TypeOK ==
  /\ factory \in Factories
  /\ order \in Order
  /\ \A c \in Calls : calls[c].pc \in {"idle", "write", "heal", "reread"}
  /\ begun \in 0 .. MaxCalls
  /\ told \in Nat
  /\ cycle \in [FulfillmentStage -> Nat]
  /\ outside \in BOOLEAN /\ disturbed \in BOOLEAN

\* Work is given out once: of all the requests that find a stage open (or in progress),
\* one starts (or completes) it, however many read it so, until it is opened again.
WorkIsDoneOnce ==
  \A i, j \in DOMAIN worklog : worklog[i] = worklog[j] => i = j

Completions(s) == {i \in DOMAIN worklog : worklog[i][1] = "complete" /\ worklog[i][2] = s}
LastDone(s) == IF Completions(s) = {} THEN 0
               ELSE CHOOSE i \in Completions(s) : \A j \in Completions(s) : j <= i

\* As long as only the stages' own workers move the order, each waiting for his answers,
\* what is in progress is where the order is, and where the order is there is work: holds,
\* cancellations and the syncs with OnosPod come between without upsetting it.
FloorInStep ==
  ~outside =>
    /\ \A s \in FulfillmentStage : order.status[s] = "in-progress" => order.current = s
    /\ order.current # NoStage => order.status[order.current] \in Open \cup {"in-progress"}

\* What is sent back is made again, and the whole chain behind it: when the stages' own
\* workers finish an order, each stage was last completed after the stages before it.
WholeChainIsRedone ==
  order.finished /\ ~outside =>
    \A s, t \in FulfillmentStage \ AutoStages[factory] :
      Before(s, t) => LastDone(s) < LastDone(t) \/ LastDone(s) = 0

\* An order never stops at a stage which its factory has no worker for, by whatever
\* way it gets there: forwards, back for rework, healed, or sent back by an error report.
AutoStagesAreSkipped ==
  order.current \notin AutoStages[factory]

\* A finished order has passed every stage, and its customer has been told: also when
\* managers step in out of turn, or it is completed by hand while the floor works on it.
FinishedIsMade ==
  order.finished /\ ~disturbed =>
    /\ \A s \in FulfillmentStage : order.passed[s]
    /\ told > 0

\* The sync with OnosPod never ends a hold that the staff have placed, nor does it hold an
\* order that was cancelled or finished since it made its plan.
SyncYieldsToStaff ==
  [][\A c \in Calls :
       calls[c].kind \in {"sync hold", "sync release"} /\ calls'[c].pc = "idle"
       /\ order'.held # order.held =>
         \/ order.held = "onospod"
         \/ order.held = "no" /\ ~order.cancelled /\ ~order.finished]_vars

\* A cancelled order has left production for good: a request that found it cancelled moves
\* it to no stage, changes nothing there, and does not pass it for production.
CancelledStaysOut ==
  [][\A c \in Calls :
       calls[c].pc = "write" /\ calls[c].wasCancelled /\ calls'[c].pc = "idle" =>
         /\ order'.current = order.current
         /\ order'.status = order.status
         /\ order'.ready = order.ready]_vars

\* An order that Support has passed, that nobody holds and no designer has in hand, is
\* somebody's work: the stage it is at is open or in progress.
CheckedOrdersAreWork ==
  /\ order.ready /\ order.note = "ok"
  /\ NotHeld /\ NotCancelled
  /\ order.designer \in {"unassigned", "done"}
  /\ order.current # NoStage
  => order.status[order.current] \in Open \cup {"in-progress"}
=============================================================================
