------------------------- MODULE Fulfillment_proofs -------------------------
(***************************************************************************)
(* What holds of an order on the factory floor for any number of calls     *)
(* made at once, in any factory, and from any order the floor may have     *)
(* reached.                                                                *)
(***************************************************************************)
EXTENDS Fulfillment, TLAPS

-----------------------------------------------------------------------------
(* The stages, and the flows through them *)

\* FULFILLMENT_STAGE_ORDER numbers the stages from 1 to 6.
LEMMA StageNumbers ==
  /\ StageOrder["print"] = 1 /\ StageOrder["press"] = 2 /\ StageOrder["qc-post-press"] = 3
  /\ StageOrder["sew-in"] = 4 /\ StageOrder["sew-out"] = 5 /\ StageOrder["pack"] = 6
<1> USE DEF StageOrder, FULFILLMENT_STAGES, FulfillmentStage
<1>1. StageOrder["print"] = 1
  OBVIOUS
<1>2. StageOrder["press"] = 2
  OBVIOUS
<1>3. StageOrder["qc-post-press"] = 3
  OBVIOUS
<1>4. StageOrder["sew-in"] = 4
  OBVIOUS
<1>5. StageOrder["sew-out"] = 5
  OBVIOUS
<1>6. StageOrder["pack"] = 6
  OBVIOUS
<1> QED
  BY <1>1, <1>2, <1>3, <1>4, <1>5, <1>6

\* Before is a strict total order of the stages, and print comes first.
LEMMA BeforeOrder ==
  /\ \A s \in FulfillmentStage : ~Before(s, s) /\ ~Before(s, "print")
  /\ \A s, t \in FulfillmentStage : s = t \/ Before(s, t) \/ Before(t, s)
  /\ \A s, t \in FulfillmentStage : ~(Before(s, t) /\ Before(t, s))
  /\ \A s, t, u \in FulfillmentStage : Before(s, t) /\ Before(t, u) => Before(s, u)
<1> DEFINE n(s) == StageOrder[s]
<1>1. \A s \in FulfillmentStage : n(s) \in 1 .. 6
  BY StageNumbers DEF FulfillmentStage
<1>2. \A s, t \in FulfillmentStage : n(s) = n(t) => s = t
  BY StageNumbers DEF FulfillmentStage
<1>3. n("print") = 1
  BY StageNumbers
<1> QED
  BY <1>1, <1>2, <1>3 DEF Before

\* Among some stages there is a first one, and a last one.
LEMMA FirstAndLast ==
  ASSUME NEW S \in SUBSET FulfillmentStage, S # {}
  PROVE  /\ \E s \in S : \A t \in S : ~Before(t, s)
         /\ \E s \in S : \A t \in S : ~Before(s, t)
<1>1. \E s \in S : \A t \in S : ~Before(t, s)
  <2>1. CASE "print" \in S
    <3>1. \A t \in S : LET s == "print" IN ~Before(t, s)
      BY <2>1, StageNumbers DEF FulfillmentStage, Before
    <3> QED
      BY <2>1, <3>1
  <2>2. CASE "press" \in S /\ S \cap {"print"} = {}
    <3>1. \A t \in S : LET s == "press" IN ~Before(t, s)
      BY <2>2, StageNumbers DEF FulfillmentStage, Before
    <3> QED
      BY <2>2, <3>1
  <2>3. CASE "qc-post-press" \in S /\ S \cap {"print", "press"} = {}
    <3>1. \A t \in S : LET s == "qc-post-press" IN ~Before(t, s)
      BY <2>3, StageNumbers DEF FulfillmentStage, Before
    <3> QED
      BY <2>3, <3>1
  <2>4. CASE "sew-in" \in S /\ S \cap {"print", "press", "qc-post-press"} = {}
    <3>1. \A t \in S : LET s == "sew-in" IN ~Before(t, s)
      BY <2>4, StageNumbers DEF FulfillmentStage, Before
    <3> QED
      BY <2>4, <3>1
  <2>5. CASE "sew-out" \in S /\ S \cap {"print", "press", "qc-post-press", "sew-in"} = {}
    <3>1. \A t \in S : LET s == "sew-out" IN ~Before(t, s)
      BY <2>5, StageNumbers DEF FulfillmentStage, Before
    <3> QED
      BY <2>5, <3>1
  <2>6. CASE "pack" \in S /\ S \cap {"print", "press", "qc-post-press", "sew-in", "sew-out"} = {}
    <3>1. \A t \in S : LET s == "pack" IN ~Before(t, s)
      BY <2>6, StageNumbers DEF FulfillmentStage, Before
    <3> QED
      BY <2>6, <3>1
  <2> QED
    BY <2>1, <2>2, <2>3, <2>4, <2>5, <2>6 DEF FulfillmentStage
<1>2. \E s \in S : \A t \in S : ~Before(s, t)
  <2>1. CASE "pack" \in S
    <3>1. \A t \in S : LET s == "pack" IN ~Before(s, t)
      BY <2>1, StageNumbers DEF FulfillmentStage, Before
    <3> QED
      BY <2>1, <3>1
  <2>2. CASE "sew-out" \in S /\ S \cap {"pack"} = {}
    <3>1. \A t \in S : LET s == "sew-out" IN ~Before(s, t)
      BY <2>2, StageNumbers DEF FulfillmentStage, Before
    <3> QED
      BY <2>2, <3>1
  <2>3. CASE "sew-in" \in S /\ S \cap {"pack", "sew-out"} = {}
    <3>1. \A t \in S : LET s == "sew-in" IN ~Before(s, t)
      BY <2>3, StageNumbers DEF FulfillmentStage, Before
    <3> QED
      BY <2>3, <3>1
  <2>4. CASE "qc-post-press" \in S /\ S \cap {"pack", "sew-out", "sew-in"} = {}
    <3>1. \A t \in S : LET s == "qc-post-press" IN ~Before(s, t)
      BY <2>4, StageNumbers DEF FulfillmentStage, Before
    <3> QED
      BY <2>4, <3>1
  <2>5. CASE "press" \in S /\ S \cap {"pack", "sew-out", "sew-in", "qc-post-press"} = {}
    <3>1. \A t \in S : LET s == "press" IN ~Before(s, t)
      BY <2>5, StageNumbers DEF FulfillmentStage, Before
    <3> QED
      BY <2>5, <3>1
  <2>6. CASE "print" \in S /\ S \cap {"pack", "sew-out", "sew-in", "qc-post-press", "press"} = {}
    <3>1. \A t \in S : LET s == "print" IN ~Before(s, t)
      BY <2>6, StageNumbers DEF FulfillmentStage, Before
    <3> QED
      BY <2>6, <3>1
  <2> QED
    BY <2>1, <2>2, <2>3, <2>4, <2>5, <2>6 DEF FulfillmentStage
<1> QED
  BY <1>1, <1>2

\* Somebody prints in every factory.
LEMMA PrintIsWorked ==
  \A f \in Factory : "print" \notin AutoStages[f] /\ AutoStages[f] \subseteq FulfillmentStage
BY DEF AutoStages, Factory, FactoryFlowType, FACTORY_FLOW_AUTO_STAGES, FulfillmentStage

\* Rework goes back to a stage that somebody works at.
LEMMA RedirectedTarget ==
  \A f \in Factory, s \in FulfillmentStage :
    redirectAutoTarget[f][s] \in FulfillmentStage \ AutoStages[f]
<1> TAKE f \in Factory, s \in FulfillmentStage
<1> DEFINE workable == {t \in FulfillmentStage \ AutoStages[f] : ~Before(s, t)}
<1>1. redirectAutoTarget[f][s] = IF workable = {} THEN "print"
        ELSE CHOOSE t \in workable : \A u \in workable : ~Before(t, u)
  BY DEF redirectAutoTarget
<1>2. CASE workable = {}
  BY <1>1, <1>2, PrintIsWorked DEF FulfillmentStage
<1>3. CASE workable # {}
  <2>1. \E t \in workable : \A u \in workable : ~Before(t, u)
    BY <1>3, FirstAndLast
  <2> QED
    BY <1>1, <1>3, <2>1
<1> QED
  BY <1>2, <1>3

\* What completes itself with a stage comes after it and has no worker; the order goes on
\* to the first stage behind that, which has one, or has none left.
LEMMA WhereItGoesOn ==
  ASSUME NEW f \in Factory, NEW s \in FulfillmentStage
  PROVE  /\ AutoRun[f][s] \subseteq AutoStages[f]
         /\ \A u \in AutoRun[f][s] : u \in FulfillmentStage /\ Before(s, u)
         /\ \A u, t \in FulfillmentStage :
              t \in AutoRun[f][s] /\ Before(s, u) /\ Before(u, t) => u \in AutoRun[f][s]
         /\ \/ /\ NextStop[f][s] = {}
               /\ \A u \in FulfillmentStage : Before(s, u) => u \in AutoRun[f][s]
            \/ \E t \in FulfillmentStage \ AutoStages[f] :
                 /\ NextStop[f][s] = {t} /\ Before(s, t)
                 /\ \A u \in FulfillmentStage : Before(s, u) /\ Before(u, t) => u \in AutoRun[f][s]
<1> DEFINE run == {t \in FulfillmentStage : /\ Before(s, t)
                     /\ \A u \in FulfillmentStage : Before(s, u) /\ ~Before(t, u) => u \in AutoStages[f]}
           ahead == {t \in FulfillmentStage \ run : Before(s, t)}
<1>1. AutoRun[f][s] = run
  BY DEF AutoRun
<1>2. NextStop[f][s] = {t \in ahead : \A u \in ahead : ~Before(u, t)}
  BY <1>1 DEF NextStop
<1> HIDE DEF run
<1>3. \A t \in FulfillmentStage : t \in run <=>
        /\ Before(s, t)
        /\ \A u \in FulfillmentStage : Before(s, u) /\ ~Before(t, u) => u \in AutoStages[f]
  BY DEF run
<1>4. run \subseteq FulfillmentStage
  BY DEF run
<1>5. \A u \in run : u \in AutoStages[f] /\ Before(s, u)
  BY <1>3, <1>4, BeforeOrder
<1>6. ASSUME NEW u \in FulfillmentStage, NEW t \in run, Before(s, u), Before(u, t)
      PROVE  u \in run
  BY <1>3, <1>4, <1>6, BeforeOrder
<1>7. CASE ahead = {}
  BY <1>1, <1>2, <1>4, <1>5, <1>6, <1>7
<1>8. CASE ahead # {}
  <2>1. PICK t \in ahead : \A u \in ahead : ~Before(u, t)
    BY <1>8, FirstAndLast
  <2>2. \A u \in FulfillmentStage : Before(s, u) /\ Before(u, t) => u \in run
    BY <2>1
  <2>3. NextStop[f][s] = {t}
    <3>1. \A u \in ahead : u # t => Before(t, u)
      BY <2>1, BeforeOrder
    <3> QED
      BY <1>2, <2>1, <3>1
  <2>4. t \notin AutoStages[f]
    <3>1. PICK u \in FulfillmentStage : Before(s, u) /\ ~Before(t, u) /\ u \notin AutoStages[f]
      BY <1>3, <2>1
    <3>2. u \notin run
      BY <1>5, <3>1
    <3> QED
      BY <2>1, <2>2, <3>1, <3>2, BeforeOrder
  <2> QED
    BY <1>1, <1>4, <1>5, <1>6, <2>1, <2>2, <2>3, <2>4
<1> QED
  BY <1>7, <1>8

-----------------------------------------------------------------------------
(* The requests in flight: what each of them may have in mind *)

\* Some stages, each with a value of T.
StageMap(m, T) == DOMAIN m \subseteq FulfillmentStage /\ \A s \in DOMAIN m : m[s] \in T

\* What may be set of an order in factory f: fields it has, to values they may take, and
\* never a current stage that nobody works at.
PatchOK(f, p) ==
  /\ DOMAIN p \subseteq DOMAIN Imported
  /\ "current" \in DOMAIN p => p["current"] \in (FulfillmentStage \cup {NoStage}) \ AutoStages[f]
  /\ "status" \in DOMAIN p => StageMap(p["status"], FulfillmentStageStatus)
  /\ "passed" \in DOMAIN p => StageMap(p["passed"], BOOLEAN)
  /\ "touched" \in DOMAIN p => StageMap(p["touched"], BOOLEAN)
  /\ \A x \in {"finished", "ready", "cancelled", "returned", "designed", "assignee"} :
       x \in DOMAIN p => p[x] \in BOOLEAN
  /\ "held" \in DOMAIN p => p["held"] \in HoldSource
  /\ "note" \in DOMAIN p => p["note"] \in Notes
  /\ "designer" \in DOMAIN p => p["designer"] \in DesignerStatus

\* The fields that say where an order is on the floor.
FloorFields == {"current", "status", "passed", "touched", "finished"}

StartOK(k) == k.was \in Open /\ k.patch = StartPatch(k.stage)

CompleteOK(f, k) ==
  /\ k.was = "in-progress"
  /\ k.patch = Advance(k.stage, AutoRun[f][k.stage], NextStop[f][k.stage])

\* Rework: to the designer, or to a stage before.
BackOK(f, k) ==
  /\ k.was \in Open \cup {"in-progress"}
  /\ "status" \in DOMAIN k.patch
  /\ \/ /\ DOMAIN k.patch \cap FloorFields = {"status"}
        /\ k.patch["status"] = On({k.stage}, "waiting")
     \/ \E t \in FulfillmentStage \ AutoStages[f] :
          /\ Before(t, k.stage)
          /\ k.patch = [status |-> On({t}, "rework") ++ On({k.stage}, "waiting"), current |-> t]

\* A completion by hand fills in the stages that it finds not passed.
ForceOK(k) ==
  /\ FloorFields \subseteq DOMAIN k.patch
  /\ DOMAIN k.patch["status"] = DOMAIN k.patch["passed"]
  /\ \A s \in DOMAIN k.patch["passed"] : k.patch["status"][s] = "done" /\ k.patch["passed"][s] = TRUE
  /\ k.patch["current"] = NoStage /\ k.patch["finished"] = TRUE

HealOK(k) ==
  /\ k.kind = "start" /\ k.stage = "print"
  /\ \E m \in {On({"print"}, "waiting"), Nothing} :
       k.patch = [current |-> "print", ready |-> TRUE, status |-> m]

CallOK(f, k) ==
  /\ DOMAIN k = DOMAIN Idle
  /\ k.pc \in {"idle", "write", "heal", "reread"}
  /\ k.pc = "idle" => k = Idle
  /\ k.pc \in {"heal", "reread"} => HealOK(k)
  /\ k.wasFinished \in BOOLEAN
  /\ PatchOK(f, k.patch)
  /\ k.pc = "write" =>
       /\ k.kind \in Floor \cup Quiet \cup Rewriters \cup {"force"}
       /\ k.kind \in Floor => k.stage \in FulfillmentStage
       /\ k.kind = "start" => StartOK(k)
       /\ k.kind = "complete" => CompleteOK(f, k)
       /\ k.kind = "back" => BackOK(f, k)
       /\ k.kind = "force" => ForceOK(k)
       /\ k.kind \in Quiet => DOMAIN k.patch \cap FloorFields = {}
       /\ k.kind # "start" /\ "status" \in DOMAIN k.patch =>
            \A s \in DOMAIN k.patch["status"] : k.patch["status"][s] # "in-progress"

CallsInv == DOMAIN calls = Calls /\ \A c \in Calls : CallOK(factory, calls[c])

-----------------------------------------------------------------------------
(* The invariants of the floor *)

\* The log's entries are of cycles that were begun; where a start or a completion of the
\* running cycle is in it, the stage is past that.
LogInv ==
  /\ worklog \in Seq({"start", "complete"} \X FulfillmentStage \X Nat)
  /\ WorkIsDoneOnce
  /\ \A i \in DOMAIN worklog, s \in FulfillmentStage :
       worklog[i][2] = s =>
         /\ worklog[i][3] <= cycle[s]
         /\ worklog[i][3] = cycle[s] => order.status[s] \notin Open
         /\ worklog[i][3] = cycle[s] /\ worklog[i][1] = "complete" => order.status[s] # "in-progress"

\* As long as only the stages' workers move the order, what they have in mind is about
\* the stage where it is.
FloorInv ==
  ~outside =>
    /\ \A s \in FulfillmentStage : order.status[s] = "in-progress" => order.current = s
    /\ order.current # NoStage => order.status[order.current] \in Open \cup {"in-progress"}
    /\ order.finished => order.current = NoStage
    /\ \A c \in Calls : calls[c].pc = "write" /\ calls[c].kind \in Floor /\ calls[c].by = "worker" =>
         calls[c].stage = order.current

\* Behind a finished order, and behind the stage where an order is, the stages were last
\* completed one after the other.
Redone(s, t) == LastDone(s) < LastDone(t) \/ LastDone(s) = 0
IsBehind(t) == order.finished \/ (order.current # NoStage /\ Before(t, order.current))
ChainInv ==
  /\ \A s \in FulfillmentStage : LastDone(s) \in 0 .. Len(worklog)
  /\ ~outside =>
    \A s, t \in FulfillmentStage \ AutoStages[factory] : Before(s, t) /\ IsBehind(t) => Redone(s, t)

\* As long as nobody takes back a completion, a stage that has a status comes after stages
\* passed, a completion by hand knows what is not passed, and whoever saw the order
\* finished saw it after its customer was told.
Reached == \A s, t \in FulfillmentStage : Before(s, t) /\ order.status[t] # "absent" => order.passed[s]
AllPassed == \A s \in FulfillmentStage : order.passed[s]
Knows(c) ==
  /\ calls[c].pc # "idle" /\ calls[c].wasFinished => told > 0
  /\ calls[c].pc = "write" /\ calls[c].kind = "force" =>
       \A s \in FulfillmentStage : order.passed[s] \/ s \in DOMAIN calls[c].patch["passed"]
MadeInv ==
  ~disturbed =>
    /\ Reached
    /\ order.finished => AllPassed /\ told > 0
    /\ \A c \in Calls : Knows(c)

-----------------------------------------------------------------------------
(* Patches *)

\* A merge has the fields of both, and the left one's values where it has any.
LEMMA MergeFields ==
  ASSUME NEW f, NEW g
  PROVE  /\ DOMAIN (f ++ g) = DOMAIN f \cup DOMAIN g
         /\ \A x \in DOMAIN f : (f ++ g)[x] = f[x]
         /\ \A x \in DOMAIN g : x \notin DOMAIN f => (f ++ g)[x] = g[x]
BY DEF ++

LEMMA NothingIsEmpty == DOMAIN Nothing = {}
BY DEF Nothing

LEMMA OrderFields ==
  DOMAIN Imported = {"current", "status", "passed", "touched", "finished", "ready", "held",
                     "cancelled", "note", "returned", "designer", "designed", "assignee"}
BY DEF Imported

LEMMA CallFields ==
  DOMAIN Idle = {"pc", "kind", "by", "stage", "was", "patch", "wasFinished", "wasCancelled"}
BY DEF Idle

\* One value for some stages, and two maps of stages put together.
LEMMA MapOn ==
  ASSUME NEW T, NEW S \in SUBSET FulfillmentStage, NEW x \in T
  PROVE  StageMap(On(S, x), T) /\ DOMAIN On(S, x) = S
BY DEF StageMap, On

LEMMA MapMerge ==
  ASSUME NEW T, NEW m, NEW n, StageMap(m, T), StageMap(n, T)
  PROVE  StageMap(m ++ n, T)
<1>1. DOMAIN (m ++ n) = DOMAIN m \cup DOMAIN n
  BY MergeFields
<1>2. ASSUME NEW s \in DOMAIN (m ++ n) PROVE (m ++ n)[s] \in T
  <2>1. CASE s \in DOMAIN m
    BY <2>1, <1>2 DEF StageMap, ++
  <2>2. CASE s \in DOMAIN n /\ s \notin DOMAIN m
    BY <2>2, <1>2 DEF StageMap, ++
  <2> QED
    BY <1>1, <1>2, <2>1, <2>2
<1> QED
  BY <1>1, <1>2 DEF StageMap

\* Two patches make a patch.
LEMMA PatchMerge ==
  ASSUME NEW f, NEW p, NEW q, PatchOK(f, p), PatchOK(f, q)
  PROVE  PatchOK(f, p ++ q)
<1> DEFINE m == p ++ q
<1>1. DOMAIN m = DOMAIN p \cup DOMAIN q
  BY DEF ++
<1>2. \A x : x \in DOMAIN m => (x \in DOMAIN p /\ m[x] = p[x]) \/ (x \in DOMAIN q /\ m[x] = q[x])
  BY DEF ++
<1> HIDE DEF m
<1>3. DOMAIN m \subseteq DOMAIN Imported
  BY <1>1 DEF PatchOK
<1>4. "current" \in DOMAIN m => m["current"] \in (FulfillmentStage \cup {NoStage}) \ AutoStages[f]
  BY <1>2 DEF PatchOK
<1>5. /\ "status" \in DOMAIN m => StageMap(m["status"], FulfillmentStageStatus)
      /\ "passed" \in DOMAIN m => StageMap(m["passed"], BOOLEAN)
      /\ "touched" \in DOMAIN m => StageMap(m["touched"], BOOLEAN)
  BY <1>2 DEF PatchOK
<1>6. \A x \in {"finished", "ready", "cancelled", "returned", "designed", "assignee"} :
        x \in DOMAIN m => m[x] \in BOOLEAN
  BY <1>2 DEF PatchOK
<1>7. /\ "held" \in DOMAIN m => m["held"] \in HoldSource
      /\ "note" \in DOMAIN m => m["note"] \in Notes
      /\ "designer" \in DOMAIN m => m["designer"] \in DesignerStatus
  BY <1>2 DEF PatchOK
<1> QED
  BY <1>3, <1>4, <1>5, <1>6, <1>7 DEF PatchOK, m

LEMMA PatchNothing == \A f : PatchOK(f, Nothing)
BY NothingIsEmpty DEF PatchOK

\* buildFulfillmentEntrySet
LEMMA PatchEntry == \A f \in Factory : PatchOK(f, EntryPatch)
<1> TAKE f \in Factory
<1>1. DOMAIN EntryPatch = {"current", "status", "passed", "touched"}
  BY DEF EntryPatch
<1>2. /\ StageMap(EntryPatch.status, FulfillmentStageStatus)
      /\ StageMap(EntryPatch.passed, BOOLEAN) /\ StageMap(EntryPatch.touched, BOOLEAN)
  BY MapOn DEF EntryPatch, FulfillmentStageStatus, FulfillmentStage, Open
<1>3. EntryPatch.current = "print"
  BY DEF EntryPatch
<1> QED
  BY <1>1, <1>2, <1>3, OrderFields, PrintIsWorked DEF PatchOK, FulfillmentStage

-----------------------------------------------------------------------------
(* A request that comes in *)

\* A call has made up its mind, of the order as it is now; nothing else has changed.
Fresh(c) ==
  LET k == calls'[c] IN
  /\ DOMAIN calls' = Calls /\ \A d \in Calls \ {c} : calls'[d] = calls[d]
  /\ CallOK(factory, k)
  /\ k.pc \in {"write", "heal"}
  /\ k.wasFinished = order.finished
  /\ k.pc = "write" /\ k.kind \in Floor /\ k.by = "worker" => k.stage = order.current
  /\ k.pc = "write" /\ k.kind = "force" =>
       \A s \in FulfillmentStage : order.passed[s] \/ s \in DOMAIN k.patch["passed"]
  /\ begun' = begun + 1
  /\ UNCHANGED <<factory, order, told, cycle, worklog, outside, disturbed>>

LEMMA Decided ==
  ASSUME CallsInv, NEW c \in Calls, NEW k, Decide(c, k), DOMAIN k \subseteq DOMAIN Idle
  PROVE  /\ DOMAIN calls' = Calls /\ \A d \in Calls \ {c} : calls'[d] = calls[d]
         /\ DOMAIN calls'[c] = DOMAIN Idle
         /\ \A x \in DOMAIN k : calls'[c][x] = k[x]
         /\ "pc" \notin DOMAIN k => calls'[c]["pc"] = "write"
         /\ "wasFinished" \notin DOMAIN k => calls'[c]["wasFinished"] = order.finished
         /\ begun' = begun + 1
         /\ UNCHANGED <<factory, order, told, cycle, worklog, outside, disturbed>>
<1> DEFINE saw == [pc |-> "write", wasFinished |-> order.finished,
                   wasCancelled |-> order.cancelled]
           n == k ++ saw ++ Idle
<1>1. calls' = [calls EXCEPT ![c] = n]
  BY DEF Decide
<1>2. DOMAIN calls' = Calls /\ calls'[c] = n /\ \A d \in Calls \ {c} : calls'[d] = calls[d]
  BY <1>1 DEF CallsInv
<1>3. /\ DOMAIN saw = {"pc", "wasFinished", "wasCancelled"}
      /\ saw["pc"] = "write" /\ saw["wasFinished"] = order.finished
  OBVIOUS
<1> HIDE DEF saw
<1>4. DOMAIN n = DOMAIN Idle
  BY <1>3, CallFields DEF ++
<1>5. \A x \in DOMAIN k : n[x] = k[x]
  BY DEF ++
<1>6. \A x \in DOMAIN saw : x \notin DOMAIN k => n[x] = saw[x]
  BY DEF ++
<1> HIDE DEF n
<1> QED
  BY <1>2, <1>3, <1>4, <1>5, <1>6 DEF Decide

\* An order's flags are Booleans.
LEMMA OrderType ==
  ASSUME TypeOK
  PROVE  /\ order \in Order /\ factory \in Factory
         /\ order.finished \in BOOLEAN /\ order.cancelled \in BOOLEAN
         /\ order.current \in FulfillmentStage \cup {NoStage}
         /\ \A s \in FulfillmentStage : order.status[s] \in FulfillmentStageStatus
         /\ \A s \in FulfillmentStage : order.passed[s] \in BOOLEAN
BY FulfillmentAssumption DEF TypeOK, Order

\* Everybody but the floor.
LEMMA FreshOther ==
  ASSUME TypeOK, CallsInv, NEW c \in Calls, NEW k, Decide(c, k),
         DOMAIN k \subseteq {"kind", "was", "patch"}, {"kind", "patch"} \subseteq DOMAIN k,
         k.kind \in Quiet \cup Rewriters \cup {"force"},
         PatchOK(factory, k.patch),
         k.kind \in Quiet => DOMAIN k.patch \cap FloorFields = {},
         "status" \in DOMAIN k.patch =>
           \A s \in DOMAIN k.patch["status"] : k.patch["status"][s] # "in-progress",
         k.kind = "force" =>
           ForceOK(k) /\ \A s \in FulfillmentStage : order.passed[s] \/ s \in DOMAIN k.patch["passed"]
  PROVE  Fresh(c)
<1> DEFINE n == calls'[c]
<1>1. DOMAIN k \subseteq DOMAIN Idle
  BY CallFields
<1>2. /\ DOMAIN calls' = Calls /\ \A d \in Calls \ {c} : calls'[d] = calls[d]
      /\ DOMAIN n = DOMAIN Idle
      /\ n["kind"] = k["kind"] /\ n["patch"] = k["patch"] /\ n["pc"] = "write"
      /\ n["wasFinished"] = order.finished
      /\ begun' = begun + 1
      /\ UNCHANGED <<factory, order, told, cycle, worklog, outside, disturbed>>
  BY <1>1, Decided
<1>3. n["wasFinished"] \in BOOLEAN
  BY <1>2, OrderType
<1>4. n["kind"] \notin Floor
  BY <1>2 DEF Floor, Quiet, Rewriters
<1> HIDE DEF n
<1>5. n["kind"] = "force" => ForceOK(n)
  <2> SUFFICES ASSUME k.kind = "force" PROVE ForceOK(n)
    BY <1>2
  <2>1. n.patch = k.patch
    BY <1>2
  <2> QED
    BY <2>1 DEF ForceOK
<1>6. CallOK(factory, n)
  BY <1>2, <1>3, <1>4, <1>5 DEF CallOK, Floor
<1> QED
  BY <1>2, <1>4, <1>6 DEF Fresh, n

\* The floor, when it writes the transition it was asked for.
LEMMA FreshFloor ==
  ASSUME TypeOK, CallsInv, NEW c \in Calls, NEW by \in {"worker", "manager"},
         NEW s \in FulfillmentStage, NEW a \in Floor, NEW w, NEW p,
         Decide(c, [kind |-> a, by |-> by, stage |-> s, was |-> w, patch |-> p]),
         MayAct(by, s), PatchOK(factory, p),
         LET k == [kind |-> a, by |-> by, stage |-> s, was |-> w, patch |-> p]
         IN  /\ a = "start" => StartOK(k)
             /\ a = "complete" => CompleteOK(factory, k)
             /\ a = "back" => BackOK(factory, k)
             /\ a # "start" /\ "status" \in DOMAIN p => \A t \in DOMAIN p["status"] : p["status"][t] # "in-progress"
  PROVE  Fresh(c)
<1> DEFINE n == calls'[c]
           k == [kind |-> a, by |-> by, stage |-> s, was |-> w, patch |-> p]
<1>1. /\ DOMAIN k \subseteq DOMAIN Idle /\ Decide(c, k)
      /\ DOMAIN k = {"kind", "by", "stage", "was", "patch"}
      /\ k["kind"] = a /\ k["by"] = by /\ k["stage"] = s /\ k["was"] = w /\ k["patch"] = p
  BY CallFields
<1> HIDE DEF k
<1>2. /\ DOMAIN calls' = Calls /\ \A d \in Calls \ {c} : calls'[d] = calls[d]
      /\ DOMAIN n = DOMAIN Idle
      /\ n["kind"] = a /\ n["by"] = by /\ n["stage"] = s /\ n["was"] = w /\ n["patch"] = p
      /\ n["pc"] = "write"
      /\ n["wasFinished"] = order.finished
      /\ begun' = begun + 1
      /\ UNCHANGED <<factory, order, told, cycle, worklog, outside, disturbed>>
  BY <1>1, Decided
<1>3. n["wasFinished"] \in BOOLEAN
  BY <1>2, OrderType
<1>4. /\ a = "start" => StartOK(n)
      /\ a = "complete" => CompleteOK(factory, n)
      /\ a = "back" => BackOK(factory, n)
  BY <1>2 DEF StartOK, CompleteOK, BackOK
<1> HIDE DEF n
<1>6. CallOK(factory, n)
  BY <1>2, <1>3, <1>4 DEF CallOK, Floor, Quiet
<1>7. n["by"] = "worker" => n["stage"] = order.current
  BY <1>2 DEF MayAct
<1> QED
  BY <1>2, <1>6, <1>7 DEF Fresh, n, Floor

\* FulfillmentTaskService.transition, action by action.
LEMMA StartIsFresh ==
  ASSUME TypeOK, CallsInv, NEW c \in Calls, NEW by \in {"worker", "manager"},
         NEW s \in FulfillmentStage, Start(c, by, s)
  PROVE  Fresh(c)
<1> DEFINE p == StartPatch(s)
           k == [kind |-> "start", by |-> by, stage |-> s, was |-> CurrentStatus(s), patch |-> p]
<1>1. PatchOK(factory, p)
  <2>1. DOMAIN p = {"status", "touched"}
    BY DEF StartPatch
  <2>2. StageMap(p.status, FulfillmentStageStatus) /\ StageMap(p.touched, BOOLEAN)
    BY DEF StageMap, On, StartPatch, FulfillmentStageStatus
  <2> QED
    BY <2>1, <2>2, OrderFields DEF PatchOK
<1>2. StartOK(k)
  BY DEF Start, StartOK
<1>3. Decide(c, k)
  BY DEF Start
<1>4. "start" \in Floor /\ MayAct(by, s)
  BY DEF Floor, Start
<1> QED
  BY <1>1, <1>2, <1>3, <1>4, FreshFloor

\* What 'complete' sets at stage s of factory f, in both cases of where the order goes on.
LEMMA CompletePatchFields ==
  ASSUME NEW f \in Factory, NEW s \in FulfillmentStage
  PROVE  LET p == Advance(s, AutoRun[f][s], NextStop[f][s])
             done == AutoRun[f][s] \cup {s}
         IN
         /\ PatchOK(f, p)
         /\ done \in SUBSET FulfillmentStage
         /\ "status" \in DOMAIN p /\ "passed" \in DOMAIN p /\ "current" \in DOMAIN p
         /\ DOMAIN p["passed"] = done /\ \A t \in done : p["passed"][t] = TRUE
         /\ \A t \in DOMAIN p["status"] : p["status"][t] # "in-progress"
         /\ \/ /\ \A u \in FulfillmentStage : Before(s, u) => u \in done
               /\ DOMAIN p["status"] = done /\ \A t \in done : p["status"][t] = "done"
               /\ p["current"] = NoStage /\ "finished" \in DOMAIN p /\ p["finished"] = TRUE
            \/ \E t \in FulfillmentStage \ AutoStages[f] :
                 /\ Before(s, t) /\ t \notin done
                 /\ \A u \in FulfillmentStage : Before(s, u) /\ Before(u, t) => u \in done
                 /\ DOMAIN p["status"] = done \cup {t} /\ p["status"][t] = "waiting"
                 /\ \A u \in done : p["status"][u] = "done"
                 /\ p["current"] = t /\ "finished" \notin DOMAIN p
<1> DEFINE run == AutoRun[f][s]
           next == NextStop[f][s]
           p == Advance(s, run, next)
           done == run \cup {s}
<1>1. /\ run \subseteq AutoStages[f] /\ run \subseteq FulfillmentStage /\ s \notin run
      /\ \/ next = {} /\ \A u \in FulfillmentStage : Before(s, u) => u \in run
         \/ \E t \in FulfillmentStage \ AutoStages[f] :
              /\ next = {t} /\ Before(s, t)
              /\ \A u \in FulfillmentStage : Before(s, u) /\ Before(u, t) => u \in run
  BY WhereItGoesOn, BeforeOrder
<1>2. /\ DOMAIN p = IF next = {} THEN {"status", "passed", "touched", "current", "finished"}
                       ELSE {"status", "passed", "touched", "current"}
      /\ p["status"] = On(next, "waiting") ++ On(done, "done")
      /\ p["passed"] = On(done, TRUE)
      /\ p["touched"] = On(run, TRUE)
      /\ next = {} => p["current"] = NoStage /\ p["finished"] = TRUE
      /\ \A t : next = {t} => p["current"] = t
  <2>1. CASE next = {}
    <3>1. p = [status |-> On(next, "waiting") ++ On(done, "done"), passed |-> On(done, TRUE),
               touched |-> On(run, TRUE), current |-> NoStage] ++ [finished |-> TRUE]
      BY <2>1 DEF Advance
    <3> HIDE DEF run, next, p, done
    <3> QED
      BY <2>1, <3>1 DEF ++
  <2>2. CASE next # {}
    <3> DEFINE u == CHOOSE t \in next : TRUE
    <3>1. p = [status |-> On(next, "waiting") ++ On(done, "done"), passed |-> On(done, TRUE),
               touched |-> On(run, TRUE), current |-> u] ++ Nothing
      BY <2>2 DEF Advance
    <3>2. \A t : next = {t} => u = t
      OBVIOUS
    <3> HIDE DEF run, next, p, done, u
    <3> QED
      BY <2>2, <3>1, <3>2, NothingIsEmpty DEF ++
  <2> QED
    BY <2>1, <2>2
<1> HIDE DEF run, next, p
<1>3. done \in SUBSET FulfillmentStage /\ next \in SUBSET FulfillmentStage
  BY <1>1
<1>4. StageMap(p["passed"], BOOLEAN) /\ StageMap(p["touched"], BOOLEAN)
  BY <1>2, <1>1, <1>3 DEF StageMap, On
<1>5. StageMap(p["status"], FulfillmentStageStatus)
  <2>1. StageMap(On(next, "waiting"), FulfillmentStageStatus)
    BY <1>3, MapOn DEF FulfillmentStageStatus, Open
  <2>2. StageMap(On(done, "done"), FulfillmentStageStatus)
    BY <1>3, MapOn DEF FulfillmentStageStatus, Open
  <2> QED
    BY <1>2, <2>1, <2>2, MapMerge
<1>6. DOMAIN p["passed"] = done /\ \A t \in done : p["passed"][t] = TRUE
  BY <1>2 DEF On
<1>7. CASE next = {} /\ \A u \in FulfillmentStage : Before(s, u) => u \in run
  <2>1. p["current"] = NoStage /\ p["finished"] = TRUE
        /\ DOMAIN p = {"status", "passed", "touched", "current", "finished"}
    BY <1>2, <1>7
  <2>2. DOMAIN p["status"] = done /\ \A t \in done : p["status"][t] = "done"
    BY <1>2, <1>7 DEF On, ++
  <2>3. NoStage \notin AutoStages[f]
    BY PrintIsWorked, FulfillmentAssumption
  <2>4. PatchOK(f, p)
    BY <1>4, <1>5, <2>1, <2>3, OrderFields DEF PatchOK
  <2> QED
    BY <1>3, <1>6, <1>7, <2>1, <2>2, <2>4 DEF p, run, next
<1>8. ASSUME NEW t \in FulfillmentStage \ AutoStages[f], next = {t}, Before(s, t),
             \A u \in FulfillmentStage : Before(s, u) /\ Before(u, t) => u \in run
      PROVE  /\ PatchOK(f, p) /\ p["current"] = t /\ "finished" \notin DOMAIN p
             /\ "status" \in DOMAIN p /\ "passed" \in DOMAIN p /\ "current" \in DOMAIN p
             /\ t \notin done /\ DOMAIN p["status"] = done \cup {t} /\ p["status"][t] = "waiting"
             /\ \A u \in done : p["status"][u] = "done"
             /\ \A u \in DOMAIN p["status"] : p["status"][u] # "in-progress"
  <2>1. p["current"] = t /\ DOMAIN p = {"status", "passed", "touched", "current"}
    BY <1>2, <1>8
  <2>2. t \notin done
    BY <1>1, <1>8, BeforeOrder
  <2>3. DOMAIN p["status"] = done \cup {t} /\ p["status"][t] = "waiting"
        /\ \A u \in done : p["status"][u] = "done"
    BY <1>2, <1>8, <2>2 DEF On, ++
  <2>4. PatchOK(f, p)
    BY <1>4, <1>5, <2>1, OrderFields DEF PatchOK
  <2> QED
    BY <2>1, <2>2, <2>3, <2>4
<1>9. CASE \E t \in FulfillmentStage \ AutoStages[f] :
              /\ next = {t} /\ Before(s, t)
              /\ \A u \in FulfillmentStage : Before(s, u) /\ Before(u, t) => u \in run
  BY <1>3, <1>6, <1>8, <1>9 DEF p, run, next
<1> QED
  BY <1>1, <1>7, <1>9

LEMMA CompleteIsFresh ==
  ASSUME TypeOK, CallsInv, NEW c \in Calls, NEW by \in {"worker", "manager"},
         NEW s \in FulfillmentStage, Complete(c, by, s)
  PROVE  Fresh(c)
<1> DEFINE p == CompletePatch(s)
           k == [kind |-> "complete", by |-> by, stage |-> s, was |-> "in-progress", patch |-> p]
<1>1. p = Advance(s, AutoRun[factory][s], NextStop[factory][s])
  BY DEF CompletePatch
<1> HIDE DEF p
<1>2. PatchOK(factory, p) /\ "status" \in DOMAIN p
  BY <1>1, OrderType, CompletePatchFields
<1>3. \A t \in DOMAIN p["status"] : p["status"][t] # "in-progress"
  <2>1. factory \in Factory
    BY OrderType
  <2>2. LET q == Advance(s, AutoRun[factory][s], NextStop[factory][s])
        IN  \A t \in DOMAIN q["status"] : q["status"][t] # "in-progress"
    BY <2>1, CompletePatchFields
  <2> QED
    BY <1>1, <2>2
<1>4. CompleteOK(factory, k)
  BY <1>1 DEF CompleteOK
<1>5. Decide(c, k)
  BY DEF Complete, p
<1>6. "complete" \in Floor /\ MayAct(by, s)
  BY DEF Floor, Complete
<1> QED
  BY <1>2, <1>3, <1>4, <1>5, <1>6, FreshFloor

LEMMA BackToDesignerIsFresh ==
  ASSUME TypeOK, CallsInv, NEW c \in Calls, NEW by \in {"worker", "manager"},
         NEW s \in FulfillmentStage, BackToDesigner(c, by, s)
  PROVE  Fresh(c)
<1> DEFINE p == [status |-> On({s}, "waiting"), designer |-> "rework", returned |-> FALSE, ready |-> FALSE]
           k == [kind |-> "back", by |-> by, stage |-> s, was |-> CurrentStatus(s), patch |-> p]
<1>1. DOMAIN p = {"status", "designer", "returned", "ready"} /\ p["status"] = On({s}, "waiting")
      /\ p["designer"] = "rework" /\ p["returned"] = FALSE /\ p["ready"] = FALSE
  OBVIOUS
<1> HIDE DEF p
<1>2. StageMap(p["status"], FulfillmentStageStatus)
  BY <1>1 DEF StageMap, On, FulfillmentStageStatus, Open
<1>3. PatchOK(factory, p)
  BY <1>1, <1>2, OrderFields DEF PatchOK, DesignerStatus
<1>4. \A t \in DOMAIN p["status"] : p["status"][t] # "in-progress"
  BY <1>1 DEF On
<1>5. BackOK(factory, k)
  BY <1>1 DEF BackOK, BackToDesigner, FloorFields
<1>6. Decide(c, k)
  BY DEF BackToDesigner, p
<1>7. "back" \in Floor /\ MayAct(by, s)
  BY DEF Floor, BackToDesigner
<1> QED
  BY <1>3, <1>4, <1>5, <1>6, <1>7, FreshFloor

LEMMA BackToStageIsFresh ==
  ASSUME TypeOK, CallsInv, NEW c \in Calls, NEW by \in {"worker", "manager"},
         NEW s \in FulfillmentStage, NEW target \in FulfillmentStage, BackToStage(c, by, s, target)
  PROVE  Fresh(c)
<1> DEFINE t == redirectAutoTarget[factory][target]
           p == [status |-> On({t}, "rework") ++ On({s}, "waiting"), current |-> t]
           k == [kind |-> "back", by |-> by, stage |-> s, was |-> CurrentStatus(s), patch |-> p]
<1>1. t \in FulfillmentStage \ AutoStages[factory]
  BY OrderType, RedirectedTarget
<1>2. Decide(c, k) /\ Before(t, s) /\ CurrentStatus(s) \in Open \cup {"in-progress"}
      /\ "back" \in Floor /\ MayAct(by, s)
  BY DEF BackToStage, Floor
<1> HIDE DEF t
<1>3. DOMAIN p = {"status", "current"} /\ p["current"] = t
      /\ p["status"] = On({t}, "rework") ++ On({s}, "waiting")
  OBVIOUS
<1>4. BackOK(factory, k)
  BY <1>1, <1>2, <1>3 DEF BackOK
<1> HIDE DEF p
<1>5. StageMap(p["status"], FulfillmentStageStatus)
  <2>1. StageMap(On({t}, "rework"), FulfillmentStageStatus)
    BY <1>1 DEF StageMap, On, FulfillmentStageStatus, Open
  <2>2. StageMap(On({s}, "waiting"), FulfillmentStageStatus)
    BY DEF StageMap, On, FulfillmentStageStatus, Open
  <2> QED
    BY <1>3, <2>1, <2>2, MapMerge
<1>6. PatchOK(factory, p)
  BY <1>1, <1>3, <1>5, OrderFields DEF PatchOK
<1>7. \A u \in DOMAIN p["status"] : p["status"][u] # "in-progress"
  BY <1>3 DEF On, ++
<1> QED
  BY <1>2, <1>4, <1>6, <1>7, FreshFloor

LEMMA HealIsFresh ==
  ASSUME TypeOK, CallsInv, NEW c \in Calls, NEW by \in {"worker", "manager"}, Heal(c, by)
  PROVE  Fresh(c)
<1> DEFINE m == IF order.status["print"] = "absent" THEN On({"print"}, "waiting") ELSE Nothing
           p == [current |-> "print", ready |-> TRUE, status |-> m]
           k == [kind |-> "start", by |-> by, stage |-> "print", pc |-> "heal", patch |-> p]
           n == calls'[c]
<1>1. /\ DOMAIN k \subseteq DOMAIN Idle /\ Decide(c, k)
      /\ DOMAIN k = {"kind", "by", "stage", "pc", "patch"}
      /\ k["kind"] = "start" /\ k["by"] = by /\ k["stage"] = "print" /\ k["pc"] = "heal" /\ k["patch"] = p
  BY CallFields DEF Heal
<1>2. m \in {On({"print"}, "waiting"), Nothing}
  OBVIOUS
<1>3. DOMAIN p = {"current", "ready", "status"} /\ p["current"] = "print" /\ p["ready"] = TRUE
       /\ p["status"] = m
  OBVIOUS
<1>4. p = [current |-> "print", ready |-> TRUE, status |-> m]
  OBVIOUS
<1> HIDE DEF k, m, p
<1>5. /\ DOMAIN calls' = Calls /\ \A d \in Calls \ {c} : calls'[d] = calls[d]
      /\ DOMAIN n = DOMAIN Idle
      /\ n["kind"] = "start" /\ n["stage"] = "print" /\ n["patch"] = p /\ n["pc"] = "heal"
      /\ n["wasFinished"] = order.finished
      /\ begun' = begun + 1
      /\ UNCHANGED <<factory, order, told, cycle, worklog, outside, disturbed>>
  BY <1>1, Decided
<1>6. n["wasFinished"] \in BOOLEAN
  BY <1>5, OrderType
<1>7. HealOK(n)
  BY <1>2, <1>4, <1>5 DEF HealOK
<1>8. PatchOK(factory, p)
  <2>1. StageMap(m, FulfillmentStageStatus)
    BY <1>2 DEF StageMap, On, Nothing, FulfillmentStageStatus, FulfillmentStage, Open
  <2>2. "print" \in FulfillmentStage \ AutoStages[factory]
    BY OrderType, PrintIsWorked DEF FulfillmentStage
  <2> QED
    BY <1>3, <2>1, <2>2, OrderFields DEF PatchOK
<1> HIDE DEF n
<1>9. CallOK(factory, n)
  BY <1>5, <1>6, <1>7, <1>8 DEF CallOK
<1> QED
  BY <1>5, <1>9 DEF Fresh, n

\* A patch that puts no stage in progress; two of them make one.
Calm(f, p) ==
  /\ PatchOK(f, p)
  /\ "status" \in DOMAIN p => \A s \in DOMAIN p["status"] : p["status"][s] # "in-progress"

LEMMA CalmMerge ==
  ASSUME NEW f, NEW p, NEW q, Calm(f, p), Calm(f, q)
  PROVE  Calm(f, p ++ q)
<1> DEFINE m == p ++ q
<1>1. PatchOK(f, m)
  BY PatchMerge DEF Calm
<1>2. "status" \in DOMAIN m => \/ "status" \in DOMAIN p /\ m["status"] = p["status"]
                               \/ "status" \in DOMAIN q /\ m["status"] = q["status"]
  BY DEF ++
<1> HIDE DEF m
<1>3. "status" \in DOMAIN m => \A s \in DOMAIN m["status"] : m["status"][s] # "in-progress"
  BY <1>2 DEF Calm
<1> QED
  BY <1>1, <1>3 DEF Calm, m

LEMMA CalmPieces ==
  ASSUME NEW f \in Factory
  PROVE  Calm(f, Nothing) /\ Calm(f, EntryPatch)
<1>1. Calm(f, Nothing)
  BY PatchNothing, NothingIsEmpty DEF Calm
<1>2. EntryPatch["status"] = On({"print"}, "waiting")
  BY DEF EntryPatch
<1>3. Calm(f, EntryPatch)
  BY <1>2, PatchEntry DEF Calm, On
<1> QED
  BY <1>1, <1>3

\* Rework at one stage.
LEMMA CalmRework ==
  ASSUME NEW f \in Factory, NEW s \in FulfillmentStage
  PROVE  Calm(f, [status |-> On({s}, "rework")])
<1> DEFINE p == [status |-> On({s}, "rework")]
<1>1. DOMAIN p = {"status"} /\ p["status"] = On({s}, "rework")
  OBVIOUS
<1> HIDE DEF p
<1>2. StageMap(p["status"], FulfillmentStageStatus)
  BY <1>1 DEF StageMap, On, FulfillmentStageStatus, Open
<1>3. \A t \in DOMAIN p["status"] : p["status"][t] # "in-progress"
  BY <1>1 DEF On
<1>4. Calm(f, p)
  BY <1>1, <1>2, <1>3, OrderFields DEF Calm, PatchOK
<1> QED
  BY <1>4 DEF p

\* An order that leaves the floor.
LEMMA CalmCleared ==
  ASSUME NEW f \in Factory
  PROVE  Calm(f, [current |-> NoStage, status |-> Each("absent"),
                  passed |-> Each(FALSE), touched |-> Each(FALSE)])
<1> DEFINE p == [current |-> NoStage, status |-> Each("absent"),
                 passed |-> Each(FALSE), touched |-> Each(FALSE)]
<1>1. DOMAIN p = {"current", "status", "passed", "touched"} /\ p["current"] = NoStage
      /\ p["status"] = Each("absent") /\ p["passed"] = Each(FALSE) /\ p["touched"] = Each(FALSE)
  OBVIOUS
<1> HIDE DEF p
<1>2. StageMap(Each("absent"), FulfillmentStageStatus) /\ StageMap(Each(FALSE), BOOLEAN)
  BY DEF StageMap, Each, FulfillmentStageStatus, Open
<1>3. \A t \in DOMAIN p["status"] : p["status"][t] # "in-progress"
  BY <1>1 DEF Each
<1>4. NoStage \notin AutoStages[f]
  BY PrintIsWorked, FulfillmentAssumption
<1>5. Calm(f, p)
  BY <1>1, <1>2, <1>3, <1>4, OrderFields DEF Calm, PatchOK
<1> QED
  BY <1>5 DEF p

\* DesignerTaskService.transition.
LEMMA DesignerIsFresh ==
  ASSUME TypeOK, CallsInv, NEW c \in Calls, Designer(c)
  PROVE  Fresh(c)
<1>1. ASSUME NEW k, NEW p, NEW w, Decide(c, k), k = [kind |-> "designer", was |-> w, patch |-> p],
             Calm(factory, p)
      PROVE  Fresh(c)
  <2>1. DOMAIN k = {"kind", "was", "patch"} /\ k.kind = "designer" /\ k.patch = p
    BY <1>1
  <2>2. k.kind \notin Quiet /\ k.kind \in Rewriters
    BY <2>1 DEF Quiet, Rewriters
  <2> QED
    BY <1>1, <2>1, <2>2, FreshOther DEF Calm
<1>2. CASE DesignerStart(c)
  <2> DEFINE p == [designer |-> "in-progress"]
  <2>1. Calm(factory, p)
    BY OrderFields DEF Calm, PatchOK, DesignerStatus
  <2> QED
    BY <1>1, <1>2, <2>1 DEF DesignerStart
<1>3. CASE DesignerComplete(c)
  <2> DEFINE q == [designer |-> "done", designed |-> TRUE, note |-> "ok", ready |-> TRUE]
  <2>1. Calm(factory, q)
    BY OrderFields DEF Calm, PatchOK, DesignerStatus, Notes
  <2>2. Calm(factory, BackFromDesigner)
    BY OrderType, CalmPieces, CalmRework DEF BackFromDesigner
  <2> HIDE DEF q
  <2>3. Calm(factory, q ++ BackFromDesigner)
    BY <2>1, <2>2, CalmMerge
  <2> QED
    BY <1>1, <1>3, <2>3 DEF DesignerComplete, q
<1>4. CASE DesignerReject(c)
  <2> DEFINE p == [designer |-> "assigned", assignee |-> TRUE, designed |-> FALSE]
  <2>1. Calm(factory, p)
    BY OrderFields DEF Calm, PatchOK, DesignerStatus
  <2> QED
    BY <1>1, <1>4, <2>1 DEF DesignerReject
<1> QED
  BY <1>2, <1>3, <1>4 DEF Designer

\* OrderService and OnosPod: everybody else but the completion by hand.
LEMMA OtherIsFresh ==
  ASSUME TypeOK, CallsInv, NEW c \in Calls, NEW x \in (Quiet \cup Rewriters) \ {"designer"}, NEW p,
         Decide(c, [kind |-> x, patch |-> p]), Calm(factory, p),
         x \in Quiet => DOMAIN p \cap FloorFields = {}
  PROVE  Fresh(c)
<1> DEFINE k == [kind |-> x, patch |-> p]
<1>1. DOMAIN k = {"kind", "patch"} /\ k.kind = x /\ k.patch = p /\ Decide(c, k)
  OBVIOUS
<1>2. x # "force"
  BY DEF Quiet, Rewriters
<1> HIDE DEF k
<1> QED
  BY <1>1, <1>2, FreshOther DEF Calm

LEMMA SupportIsFresh ==
  ASSUME TypeOK, CallsInv, NEW c \in Calls, Support(c)
  PROVE  Fresh(c)
<1>0. factory \in Factory /\ "assign" \in Quiet
      /\ {"assign", "note", "report", "recheck"} \subseteq (Quiet \cup Rewriters) \ {"designer"}
      /\ \A x \in {"note", "report", "recheck"} : x \notin Quiet
  BY OrderType DEF Quiet, Rewriters
<1>1. CASE Assign(c)
  <2> DEFINE p == [assignee |-> TRUE, designer |-> "assigned"]
  <2>1. Calm(factory, p) /\ DOMAIN p \cap FloorFields = {}
    BY OrderFields DEF Calm, PatchOK, DesignerStatus, FloorFields
  <2> HIDE DEF p
  <2> QED
    BY <1>0, <1>1, <2>1, OtherIsFresh DEF Assign, p
<1>2. CASE Unassign(c)
  <2> DEFINE p == [assignee |-> FALSE, designer |-> "unassigned", designed |-> FALSE]
  <2>1. Calm(factory, p) /\ DOMAIN p \cap FloorFields = {}
    BY OrderFields DEF Calm, PatchOK, DesignerStatus, FloorFields
  <2> HIDE DEF p
  <2> QED
    BY <1>0, <1>2, <2>1, OtherIsFresh DEF Unassign, p
<1>3. CASE NoteOk(c)
  <2> DEFINE p == [note |-> "ok", returned |-> FALSE, current |-> "print"]
             q == [designer |-> "rework", ready |-> FALSE]
             r == [ready |-> TRUE, status |-> On({"print"}, "rework")]
             u == [note |-> "ok", ready |-> TRUE]
             back == IF HasDesigner THEN q ELSE r
             entry == IF order.current = NoStage /\ ~order.finished THEN EntryPatch ELSE Nothing
             whole == IF WaitsForSupport THEN p ++ back ELSE u ++ entry
  <2>1. "print" \in (FulfillmentStage \cup {NoStage}) \ AutoStages[factory]
    BY <1>0, PrintIsWorked DEF FulfillmentStage
  <2>2. Calm(factory, p)
    BY <2>1, OrderFields DEF Calm, PatchOK, Notes
  <2>3. Calm(factory, q)
    BY OrderFields DEF Calm, PatchOK, DesignerStatus
  <2>4. Calm(factory, u)
    BY OrderFields DEF Calm, PatchOK, Notes
  <2>5. Calm(factory, r)
    <3>1. DOMAIN r = {"ready", "status"} /\ r["ready"] = TRUE /\ r["status"] = On({"print"}, "rework")
      OBVIOUS
    <3> HIDE DEF r
    <3>2. StageMap(r["status"], FulfillmentStageStatus)
      BY <3>1 DEF StageMap, On, FulfillmentStageStatus, FulfillmentStage, Open
    <3>3. \A t \in DOMAIN r["status"] : r["status"][t] # "in-progress"
      BY <3>1 DEF On
    <3> QED
      BY <3>1, <3>2, <3>3, OrderFields DEF Calm, PatchOK
  <2>6. Decide(c, [kind |-> "note", patch |-> whole])
    BY <1>3 DEF NoteOk
  <2> HIDE DEF p, q, r, u
  <2>7. Calm(factory, back) /\ Calm(factory, entry)
    BY <1>0, <2>3, <2>5, CalmPieces
  <2> HIDE DEF back, entry
  <2>8. Calm(factory, p ++ back) /\ Calm(factory, u ++ entry)
    BY <2>2, <2>4, <2>7, CalmMerge
  <2>9. Calm(factory, whole)
    BY <2>8
  <2> HIDE DEF whole
  <2> QED
    BY <1>0, <2>6, <2>9, OtherIsFresh
<1>4. CASE \E v \in Notes : NoteNotOk(c, v)
  <2> PICK v \in Notes : NoteNotOk(c, v)
    BY <1>4
  <2> DEFINE p == [note |-> v, ready |-> FALSE]
             cleared == [current |-> NoStage, status |-> Each("absent"),
                         passed |-> Each(FALSE), touched |-> Each(FALSE)]
             q == IF order.current # NoStage /\ (\A s \in FulfillmentStage : ~order.touched[s])
                  THEN cleared ELSE Nothing
  <2>1. Calm(factory, p)
    BY OrderFields DEF Calm, PatchOK
  <2>2. Calm(factory, cleared)
    BY <1>0, CalmCleared
  <2> HIDE DEF cleared
  <2>3. Calm(factory, q)
    BY <1>0, <2>2, CalmPieces
  <2>4. Decide(c, [kind |-> "note", patch |-> p ++ q])
    BY DEF NoteNotOk, cleared
  <2> HIDE DEF p, q
  <2>5. Calm(factory, p ++ q)
    BY <2>1, <2>3, CalmMerge
  <2> QED
    BY <1>0, <2>4, <2>5, OtherIsFresh
<1>5. CASE ClearError(c)
  <2> DEFINE p == [returned |-> FALSE]
  <2>1. Calm(factory, p)
    BY OrderFields DEF Calm, PatchOK
  <2> HIDE DEF p
  <2> QED
    BY <1>0, <1>5, <2>1, OtherIsFresh DEF ClearError, p
<1>6. CASE markToolCheckDone(c)
  <2> DEFINE p == [returned |-> FALSE, current |-> "print", ready |-> FALSE]
             r == [designer |-> "rework"]
             q == IF HasDesigner THEN r ELSE Nothing
  <2>1. "print" \in (FulfillmentStage \cup {NoStage}) \ AutoStages[factory]
    BY <1>0, PrintIsWorked DEF FulfillmentStage
  <2>2. Calm(factory, p)
    BY <2>1, OrderFields DEF Calm, PatchOK
  <2>3. Calm(factory, r)
    BY OrderFields DEF Calm, PatchOK, DesignerStatus
  <2>4. Decide(c, [kind |-> "recheck", patch |-> p ++ q])
    BY <1>6 DEF markToolCheckDone
  <2> HIDE DEF p, r
  <2>5. Calm(factory, q)
    BY <1>0, <2>3, CalmPieces
  <2> HIDE DEF q
  <2>6. Calm(factory, p ++ q)
    BY <2>2, <2>5, CalmMerge
  <2> QED
    BY <1>0, <2>4, <2>6, OtherIsFresh
<1>7. ASSUME NEW source \in {"designer", "factory", "tool-check"},
             NEW target \in FulfillmentStage \cup {NoStage}, ReportError(c, source, target)
      PROVE  Fresh(c)
  <2> DEFINE p == [note |-> "error", ready |-> FALSE, returned |-> source = "tool-check"]
             r == [designer |-> "rework"]
             s == r ++ Restart
             q == IF source = "designer" /\ ToDesigner THEN s
                  ELSE IF source = "tool-check" /\ ~WaitsForSupport THEN Restart
                  ELSE SendBackTo(target)
  <2>1. Calm(factory, p)
    BY OrderFields DEF Calm, PatchOK, Notes
  <2>2. Calm(factory, r)
    BY OrderFields DEF Calm, PatchOK, DesignerStatus
  <2>3. Calm(factory, Restart)
    <3> DEFINE w == [current |-> "print"]
    <3>1. "print" \in (FulfillmentStage \cup {NoStage}) \ AutoStages[factory]
      BY <1>0, PrintIsWorked DEF FulfillmentStage
    <3>2. Calm(factory, w)
      BY <3>1, OrderFields DEF Calm, PatchOK
    <3> HIDE DEF w
    <3> QED
      BY <1>0, <3>2, CalmPieces DEF Restart, w
  <2>4. Calm(factory, SendBackTo(target))
    <3> DEFINE t == redirectAutoTarget[factory][target]
               w == [current |-> t, ready |-> FALSE, status |-> On({t}, "rework")]
               v == [finished |-> FALSE]
               z == IF order.finished THEN v ELSE Nothing
    <3>1. CASE target = NoStage
      BY <1>0, <3>1, CalmPieces DEF SendBackTo
    <3>2. CASE target # NoStage /\ ~Before(t, Furthest)
      BY <1>0, <3>2, CalmPieces DEF SendBackTo
    <3>3. CASE target # NoStage /\ Before(t, Furthest)
      <4>1. SendBackTo(target) = w ++ z
        BY <3>3 DEF SendBackTo
      <4>2. t \in FulfillmentStage \ AutoStages[factory]
        BY <1>0, <3>3, RedirectedTarget
      <4>3. Calm(factory, v)
        BY OrderFields DEF Calm, PatchOK
      <4>4. DOMAIN w = {"current", "ready", "status"} /\ w["current"] = t /\ w["ready"] = FALSE
            /\ w["status"] = On({t}, "rework")
        OBVIOUS
      <4> HIDE DEF t, w, v
      <4>5. StageMap(w["status"], FulfillmentStageStatus)
        BY <4>2, <4>4 DEF StageMap, On, FulfillmentStageStatus, Open
      <4>6. \A u \in DOMAIN w["status"] : w["status"][u] # "in-progress"
        BY <4>4 DEF On
      <4>7. Calm(factory, w)
        BY <4>2, <4>4, <4>5, <4>6, OrderFields DEF Calm, PatchOK
      <4>8. Calm(factory, z)
        BY <1>0, <4>3, CalmPieces
      <4> HIDE DEF z
      <4> QED
        BY <4>1, <4>7, <4>8, CalmMerge
    <3> QED
      BY <3>1, <3>2, <3>3
  <2>5. Decide(c, [kind |-> "report", patch |-> p ++ q])
    BY <1>7 DEF ReportError
  <2> HIDE DEF p, r
  <2>6. Calm(factory, s)
    BY <2>2, <2>3, CalmMerge
  <2> HIDE DEF s
  <2>7. Calm(factory, q)
    BY <2>3, <2>4, <2>6
  <2> HIDE DEF q
  <2>8. Calm(factory, p ++ q)
    BY <2>1, <2>7, CalmMerge
  <2> QED
    BY <1>0, <2>5, <2>8, OtherIsFresh
<1> QED
  BY <1>1, <1>2, <1>3, <1>4, <1>5, <1>6, <1>7 DEF Support

\* A completion by hand fills in what it finds not passed.
LEMMA ForceIsFresh ==
  ASSUME TypeOK, CallsInv, NEW c \in Calls, ForceComplete(c)
  PROVE  Fresh(c)
<1> DEFINE missing == {s \in FulfillmentStage : ~order.passed[s]}
           made == [status |-> On(missing, "done"), passed |-> On(missing, TRUE),
                    touched |-> On(missing, TRUE), current |-> NoStage, finished |-> TRUE]
           note == IF order.note = "" THEN [note |-> "ok"] ELSE Nothing
           design == IF order.designer = "done" /\ order.designed THEN Nothing
                     ELSE [designer |-> "done", designed |-> TRUE]
           rest == note ++ design
           p == made ++ rest
           k == [kind |-> "force", patch |-> p]
<1>1. Decide(c, k)
  BY DEF ForceComplete
<1>2. missing \subseteq FulfillmentStage /\ \A s \in FulfillmentStage : order.passed[s] \/ s \in missing
  OBVIOUS
<1> HIDE DEF missing
<1>3. DOMAIN made = {"status", "passed", "touched", "current", "finished"}
      /\ made["status"] = On(missing, "done") /\ made["passed"] = On(missing, TRUE)
      /\ made["touched"] = On(missing, TRUE) /\ made["current"] = NoStage /\ made["finished"] = TRUE
  OBVIOUS
<1>4. PatchOK(factory, note)
  BY PatchNothing, OrderFields DEF PatchOK, Notes
<1>5. PatchOK(factory, design)
  <2> DEFINE q == [designer |-> "done", designed |-> TRUE]
  <2>1. PatchOK(factory, q)
    BY OrderFields DEF PatchOK, DesignerStatus
  <2> QED
    BY <2>1, PatchNothing
<1>6. DOMAIN k = {"kind", "patch"} /\ k.kind = "force" /\ k.patch = p
  OBVIOUS
<1> HIDE DEF made, note, design
<1>7. PatchOK(factory, rest)
  BY <1>4, <1>5, PatchMerge
<1> HIDE DEF rest
<1>8. PatchOK(factory, made)
  <2>1. NoStage \notin AutoStages[factory]
    BY OrderType, PrintIsWorked, FulfillmentAssumption
  <2>2. StageMap(On(missing, "done"), FulfillmentStageStatus)
    BY <1>2 DEF StageMap, On, FulfillmentStageStatus
  <2>3. StageMap(On(missing, TRUE), BOOLEAN)
    BY <1>2 DEF StageMap, On
  <2> QED
    BY <1>3, <2>1, <2>2, <2>3, OrderFields DEF PatchOK
<1>9. PatchOK(factory, p)
  BY <1>7, <1>8, PatchMerge
<1>10. DOMAIN made \subseteq DOMAIN p /\ \A x \in DOMAIN made : p[x] = made[x]
  BY MergeFields
<1> HIDE DEF p, k
<1>11. /\ DOMAIN p["status"] = missing /\ DOMAIN p["passed"] = missing
       /\ \A s \in missing : p["status"][s] = "done" /\ p["passed"][s] = TRUE
  BY <1>3, <1>10 DEF On
<1>12. ForceOK(k)
  BY <1>3, <1>6, <1>10, <1>11 DEF ForceOK, FloorFields
<1>13. k.kind \notin Quiet /\ k.kind \in Quiet \cup Rewriters \cup {"force"}
  BY <1>6 DEF Quiet
<1>14. \A s \in FulfillmentStage : order.passed[s] \/ s \in DOMAIN k.patch["passed"]
  BY <1>2, <1>6, <1>11
<1>15. \A s \in DOMAIN k.patch["status"] : k.patch["status"][s] # "in-progress"
  BY <1>6, <1>11
<1> QED
  BY <1>1, <1>6, <1>9, <1>12, <1>13, <1>14, <1>15, FreshOther

LEMMA OfficeIsFresh ==
  ASSUME TypeOK, CallsInv, NEW c \in Calls, Office(c)
  PROVE  Fresh(c)
<1>0. factory \in Factory
      /\ {"hold", "unhold", "cancel"} \subseteq (Quiet \cup Rewriters) \ {"designer"}
  BY OrderType DEF Quiet
<1>1. CASE Unhold(c)
  <2> DEFINE p == [held |-> "no"]
  <2>1. Calm(factory, p) /\ DOMAIN p \cap FloorFields = {}
    BY OrderFields DEF Calm, PatchOK, HoldSource, FloorFields
  <2> HIDE DEF p
  <2> QED
    BY <1>0, <1>1, <2>1, OtherIsFresh DEF Unhold, p
<1>2. CASE Cancel(c)
  <2> DEFINE p == [cancelled |-> TRUE]
  <2>1. Calm(factory, p) /\ DOMAIN p \cap FloorFields = {}
    BY OrderFields DEF Calm, PatchOK, FloorFields
  <2> HIDE DEF p
  <2> QED
    BY <1>0, <1>2, <2>1, OtherIsFresh DEF Cancel, p
<1>3. ASSUME NEW reason \in {"staff", "waiting design", "waiting address"}, Hold(c, reason)
      PROVE  Fresh(c)
  <2> DEFINE p == [held |-> reason]
             r == [note |-> "", assignee |-> FALSE, designer |-> "unassigned", designed |-> FALSE]
             q == IF reason = "waiting design" THEN r ELSE Nothing
  <2>1. Calm(factory, p) /\ DOMAIN p \cap FloorFields = {}
    BY OrderFields DEF Calm, PatchOK, HoldSource, FloorFields
  <2>2. Calm(factory, r) /\ DOMAIN r \cap FloorFields = {}
    <3>1. DOMAIN r = {"note", "assignee", "designer", "designed"} /\ r["note"] = ""
          /\ r["assignee"] = FALSE /\ r["designer"] = "unassigned" /\ r["designed"] = FALSE
      OBVIOUS
    <3> HIDE DEF r
    <3> QED
      BY <3>1, OrderFields DEF Calm, PatchOK, DesignerStatus, Notes, FloorFields
  <2>3. Decide(c, [kind |-> "hold", patch |-> p ++ q])
    BY <1>3 DEF Hold
  <2> HIDE DEF p, r
  <2>4. Calm(factory, q) /\ DOMAIN q \cap FloorFields = {}
    BY <1>0, <2>2, CalmPieces, NothingIsEmpty
  <2> HIDE DEF q
  <2>5. Calm(factory, p ++ q)
    BY <2>1, <2>4, CalmMerge
  <2>6. DOMAIN (p ++ q) \cap FloorFields = {}
    BY <2>1, <2>4 DEF ++
  <2> QED
    BY <1>0, <2>3, <2>5, <2>6, OtherIsFresh
<1>4. CASE ForceComplete(c)
  BY <1>4, ForceIsFresh
<1> QED
  BY <1>1, <1>2, <1>3, <1>4 DEF Office

LEMMA OnosPodIsFresh ==
  ASSUME TypeOK, CallsInv, NEW c \in Calls, OnosPod(c)
  PROVE  Fresh(c)
<1>0. factory \in Factory
      /\ {"recover", "design", "sync hold", "sync release"} \subseteq (Quiet \cup Rewriters) \ {"designer"}
  BY OrderType DEF Quiet
<1> DEFINE held(v) == [held |-> v]
           note == [note |-> ""]
<1>1. /\ \A v \in HoldSource : Calm(factory, held(v)) /\ DOMAIN held(v) \cap FloorFields = {}
      /\ Calm(factory, note) /\ DOMAIN note \cap FloorFields = {}
  <2>1. ASSUME NEW v \in HoldSource
        PROVE  Calm(factory, held(v)) /\ DOMAIN held(v) \cap FloorFields = {}
    BY OrderFields DEF Calm, PatchOK, HoldSource, FloorFields
  <2>2. Calm(factory, note) /\ DOMAIN note \cap FloorFields = {}
    BY OrderFields DEF Calm, PatchOK, Notes, FloorFields
  <2> QED
    BY <2>1, <2>2
<1>2. "no" \in HoldSource /\ "onospod" \in HoldSource
  BY DEF HoldSource
<1>3. CASE Recover(c)
  <2> DEFINE q == IF order.held = "waiting design" THEN note ELSE Nothing
             p == held("no")
  <2>1. Decide(c, [kind |-> "recover", patch |-> p ++ q])
    BY <1>3 DEF Recover
  <2>2. Calm(factory, p) /\ DOMAIN p \cap FloorFields = {}
    BY <1>1, <1>2
  <2> HIDE DEF note, p
  <2>3. Calm(factory, q) /\ DOMAIN q \cap FloorFields = {}
    BY <1>0, <1>1, CalmPieces, NothingIsEmpty
  <2> HIDE DEF q
  <2>4. Calm(factory, p ++ q)
    BY <2>2, <2>3, CalmMerge
  <2>5. DOMAIN (p ++ q) \cap FloorFields = {}
    BY <2>2, <2>3 DEF ++
  <2> QED
    BY <1>0, <2>1, <2>4, <2>5, OtherIsFresh
<1>4. CASE NewDesign(c)
  <2> DEFINE p == held("no")
             q == IF NotHeld THEN Nothing ELSE p
  <2>1. Decide(c, [kind |-> "design", patch |-> note ++ q])
    BY <1>4 DEF NewDesign
  <2>2. Calm(factory, p) /\ DOMAIN p \cap FloorFields = {}
    BY <1>1, <1>2
  <2> HIDE DEF note, p
  <2>3. Calm(factory, q) /\ DOMAIN q \cap FloorFields = {}
    BY <1>0, <2>2, CalmPieces, NothingIsEmpty
  <2> HIDE DEF q
  <2>4. Calm(factory, note ++ q)
    BY <1>1, <2>3, CalmMerge
  <2>5. DOMAIN (note ++ q) \cap FloorFields = {}
    BY <1>1, <2>3 DEF ++
  <2> QED
    BY <1>0, <2>1, <2>4, <2>5, OtherIsFresh
<1>5. CASE SyncHold(c)
  <2> DEFINE p == held("onospod")
  <2>1. Decide(c, [kind |-> "sync hold", patch |-> p])
    BY <1>5 DEF SyncHold
  <2>2. Calm(factory, p) /\ DOMAIN p \cap FloorFields = {}
    BY <1>1, <1>2
  <2> HIDE DEF p
  <2> QED
    BY <1>0, <2>1, <2>2, OtherIsFresh
<1>6. CASE SyncRelease(c)
  <2> DEFINE p == held("no")
  <2>1. Decide(c, [kind |-> "sync release", patch |-> p])
    BY <1>6 DEF SyncRelease
  <2>2. Calm(factory, p) /\ DOMAIN p \cap FloorFields = {}
    BY <1>1, <1>2
  <2> HIDE DEF p
  <2> QED
    BY <1>0, <2>1, <2>2, OtherIsFresh
<1> QED
  BY <1>3, <1>4, <1>5, <1>6 DEF OnosPod

\* Whoever calls.
LEMMA CallIsFresh ==
  ASSUME TypeOK, CallsInv, NEW c \in Calls, Call(c)
  PROVE  Fresh(c)
<1>1. CASE Transition(c)
  BY <1>1, HealIsFresh, StartIsFresh, CompleteIsFresh, BackToDesignerIsFresh, BackToStageIsFresh
     DEF Transition
<1>2. CASE Designer(c)
  BY <1>2, DesignerIsFresh
<1>3. CASE Support(c)
  BY <1>3, SupportIsFresh
<1>4. CASE Office(c)
  BY <1>4, OfficeIsFresh
<1>5. CASE OnosPod(c)
  BY <1>5, OnosPodIsFresh
<1> QED
  BY <1>1, <1>2, <1>3, <1>4, <1>5 DEF Call

-----------------------------------------------------------------------------
(* Type correctness, and orders that never stop where nobody works *)

BaseInv == TypeOK /\ CallsInv /\ AutoStagesAreSkipped

LEMMA IdleIsOK == \A f : CallOK(f, Idle)
<1> TAKE f
<1>1. Idle.pc = "idle" /\ Idle.patch = Nothing /\ Idle.wasFinished = FALSE
  BY DEF Idle
<1> QED
  BY <1>1, PatchNothing, NothingIsEmpty DEF CallOK

\* What an update makes of an order, field by field; no update takes it out of its type.
LEMMA SetFields ==
  ASSUME NEW f \in Factory, NEW o \in Order, o.current \notin AutoStages[f], NEW p, PatchOK(f, p)
  PROVE  LET n == Set(o, p) IN
         /\ n \in Order /\ n.current \notin AutoStages[f]
         /\ n.current = IF "current" \in DOMAIN p THEN p["current"] ELSE o.current
         /\ n.finished = IF "finished" \in DOMAIN p THEN p["finished"] ELSE o.finished
         /\ \A s \in FulfillmentStage :
              n.status[s] = IF "status" \in DOMAIN p /\ s \in DOMAIN p["status"]
                            THEN p["status"][s] ELSE o.status[s]
         /\ \A s \in FulfillmentStage :
              n.passed[s] = IF "passed" \in DOMAIN p /\ s \in DOMAIN p["passed"]
                            THEN p["passed"][s] ELSE o.passed[s]
<1> DEFINE n == Set(o, p)
<1>1. DOMAIN o = DOMAIN Imported
  BY OrderFields DEF Order
<1>2. n = [x \in DOMAIN o |-> IF x \notin DOMAIN p THEN o[x]
                              ELSE IF x \in PerStage THEN p[x] ++ o[x] ELSE p[x]]
  BY DEF Set
<1>3. /\ DOMAIN n = DOMAIN Imported
      /\ \A x \in DOMAIN Imported : n[x] = IF x \notin DOMAIN p THEN o[x]
                                           ELSE IF x \in PerStage THEN p[x] ++ o[x] ELSE p[x]
  BY <1>1, <1>2
<1> HIDE DEF n
<1>4. ASSUME NEW T, NEW m, NEW q, m \in [FulfillmentStage -> T], StageMap(q, T)
      PROVE  /\ q ++ m \in [FulfillmentStage -> T]
             /\ \A s \in FulfillmentStage : (q ++ m)[s] = IF s \in DOMAIN q THEN q[s] ELSE m[s]
  BY <1>4 DEF ++, StageMap
<1>5. /\ o["status"] \in [FulfillmentStage -> FulfillmentStageStatus]
      /\ o["passed"] \in [FulfillmentStage -> BOOLEAN]
      /\ o["touched"] \in [FulfillmentStage -> BOOLEAN]
  BY DEF Order
<1>6. /\ n["status"] \in [FulfillmentStage -> FulfillmentStageStatus]
      /\ \A s \in FulfillmentStage :
           n["status"][s] = IF "status" \in DOMAIN p /\ s \in DOMAIN p["status"]
                            THEN p["status"][s] ELSE o["status"][s]
  <2>1. CASE "status" \notin DOMAIN p
    BY <1>3, <1>5, <2>1, OrderFields
  <2>2. CASE "status" \in DOMAIN p
    <3>1. n["status"] = p["status"] ++ o["status"] /\ StageMap(p["status"], FulfillmentStageStatus)
      BY <1>3, <2>2, OrderFields DEF PerStage, PatchOK
    <3> QED
      BY <1>4, <1>5, <2>2, <3>1
  <2> QED
    BY <2>1, <2>2
<1>7. /\ n["passed"] \in [FulfillmentStage -> BOOLEAN]
      /\ \A s \in FulfillmentStage :
           n["passed"][s] = IF "passed" \in DOMAIN p /\ s \in DOMAIN p["passed"]
                            THEN p["passed"][s] ELSE o["passed"][s]
  <2>1. CASE "passed" \notin DOMAIN p
    BY <1>3, <1>5, <2>1, OrderFields
  <2>2. CASE "passed" \in DOMAIN p
    <3>1. n["passed"] = p["passed"] ++ o["passed"] /\ StageMap(p["passed"], BOOLEAN)
      BY <1>3, <2>2, OrderFields DEF PerStage, PatchOK
    <3> QED
      BY <1>4, <1>5, <2>2, <3>1
  <2> QED
    BY <2>1, <2>2
<1>8. n["touched"] \in [FulfillmentStage -> BOOLEAN]
  <2>1. CASE "touched" \notin DOMAIN p
    BY <1>3, <1>5, <2>1, OrderFields
  <2>2. CASE "touched" \in DOMAIN p
    <3>1. n["touched"] = p["touched"] ++ o["touched"] /\ StageMap(p["touched"], BOOLEAN)
      BY <1>3, <2>2, OrderFields DEF PerStage, PatchOK
    <3> QED
      BY <1>4, <1>5, <3>1
  <2> QED
    BY <2>1, <2>2
<1>9. \A x \in DOMAIN Imported \ PerStage : n[x] = IF x \in DOMAIN p THEN p[x] ELSE o[x]
  BY <1>3
<1>10. /\ n["current"] = IF "current" \in DOMAIN p THEN p["current"] ELSE o["current"]
       /\ n["finished"] = IF "finished" \in DOMAIN p THEN p["finished"] ELSE o["finished"]
  BY <1>9, OrderFields DEF PerStage
<1>11. n["current"] \in (FulfillmentStage \cup {NoStage}) \ AutoStages[f]
  <2>1. o["current"] \in FulfillmentStage \cup {NoStage}
    BY DEF Order
  <2> QED
    BY <1>10, <2>1 DEF PatchOK
<1>12. \A x \in {"finished", "ready", "cancelled", "returned", "designed", "assignee"} : n[x] \in BOOLEAN
  <2>1. \A x \in {"finished", "ready", "cancelled", "returned", "designed", "assignee"} :
          o[x] \in BOOLEAN /\ x \in DOMAIN Imported \ PerStage
    BY OrderFields DEF Order, PerStage
  <2> QED
    BY <1>9, <2>1 DEF PatchOK
<1>13. n["held"] \in HoldSource /\ n["note"] \in Notes /\ n["designer"] \in DesignerStatus
  <2>1. o["held"] \in HoldSource /\ o["note"] \in Notes /\ o["designer"] \in DesignerStatus
    BY DEF Order
  <2> QED
    BY <1>9, <2>1, OrderFields DEF PatchOK, PerStage
<1>14. n \in Order
  <2>1. n = [x \in DOMAIN n |-> n[x]]
    BY <1>2 DEF n
  <2> QED
    BY <1>3, <1>6, <1>7, <1>8, <1>11, <1>12, <1>13, <2>1, OrderFields DEF Order
<1> QED
  BY <1>6, <1>7, <1>10, <1>11, <1>14 DEF n

LEMMA BaseInit == Init => BaseInv
<1> SUFFICES ASSUME Init PROVE BaseInv
  OBVIOUS
<1>1. factory \in Factories /\ SoundOrder(factory, order)
  BY InitialOrdersAssumption DEF Init
<1>2. DOMAIN calls = Calls /\ \A c \in Calls : calls[c] = Idle
  BY DEF Init
<1>3. CallsInv
  BY <1>2, IdleIsOK DEF CallsInv
<1>4. TypeOK
  <2>1. \A c \in Calls : calls[c].pc \in {"idle", "write", "heal", "reread"}
    BY <1>2, IdleIsOK DEF CallOK
  <2>2. told \in Nat /\ begun \in 0 .. MaxCalls
    BY FulfillmentAssumption DEF Init
  <2> QED
    BY <1>1, <2>1, <2>2 DEF Init, SoundOrder, TypeOK
<1> QED
  BY <1>1, <1>3, <1>4 DEF BaseInv, SoundOrder, AutoStagesAreSkipped

\* What a write does to the order and to the calls, and a repair when the API boots.
LEMMA Written ==
  ASSUME BaseInv, NEW c \in Calls, Write(c) \/ HealWrite(c)
  PROVE  LET p == calls[c].patch IN
         /\ order' \in Order /\ order'.current \notin AutoStages[factory]
         /\ order'.current = IF "current" \in DOMAIN p THEN p["current"] ELSE order.current
         /\ order'.finished = IF "finished" \in DOMAIN p THEN p["finished"] ELSE order.finished
         /\ \A s \in FulfillmentStage :
              order'.status[s] = IF "status" \in DOMAIN p /\ s \in DOMAIN p["status"]
                                 THEN p["status"][s] ELSE order.status[s]
         /\ \A s \in FulfillmentStage :
              order'.passed[s] = IF "passed" \in DOMAIN p /\ s \in DOMAIN p["passed"]
                                 THEN p["passed"][s] ELSE order.passed[s]
<1>1. PatchOK(factory, calls[c].patch)
  BY DEF BaseInv, CallsInv, CallOK
<1>2. order \in Order /\ factory \in Factory /\ order.current \notin AutoStages[factory]
  BY OrderType DEF BaseInv, AutoStagesAreSkipped
<1>3. order' = Set(order, calls[c].patch)
  BY DEF Write, HealWrite
<1> QED
  BY <1>1, <1>2, <1>3, SetFields

\* The calls that Write, Conflict, HealWrite and Reread leave.
LEMMA Answered ==
  ASSUME BaseInv, NEW c \in Calls, Write(c) \/ Conflict(c) \/ HealWrite(c) \/ Reread(c)
  PROVE  /\ DOMAIN calls' = Calls /\ \A d \in Calls \ {c} : calls'[d] = calls[d]
         /\ Write(c) \/ Conflict(c) => calls'[c] = Idle
         /\ HealWrite(c) => calls'[c] = [calls[c] EXCEPT !.pc = "reread"]
         /\ Reread(c) => \/ calls'[c] = Idle
                         \/ /\ MayAct(calls[c].by, "print") /\ CurrentStatus("print") \in Open
                            /\ calls'[c] = [calls[c] EXCEPT !.pc = "write", !.was = CurrentStatus("print"),
                                 !.patch = StartPatch("print"), !.wasFinished = order.finished]
         /\ factory' = factory /\ begun' = begun
<1>1. DOMAIN calls = Calls
  BY DEF BaseInv, CallsInv
<1>2. CASE Write(c)
  BY <1>1, <1>2 DEF Write, Conflict, HealWrite, Reread
<1>3. CASE Conflict(c)
  BY <1>1, <1>3 DEF Write, Conflict, HealWrite, Reread
<1>4. CASE HealWrite(c)
  BY <1>1, <1>4 DEF Write, Conflict, HealWrite, Reread
<1>5. CASE Reread(c)
  BY <1>1, <1>5 DEF Write, Conflict, HealWrite, Reread
<1> QED
  BY <1>2, <1>3, <1>4, <1>5

LEMMA StartPatchIsOK ==
  ASSUME NEW f, NEW s \in FulfillmentStage
  PROVE  /\ PatchOK(f, StartPatch(s))
         /\ DOMAIN StartPatch(s) = {"status", "touched"}
         /\ StartPatch(s)["status"] = On({s}, "in-progress")
<1> DEFINE p == StartPatch(s)
<1>1. DOMAIN p = {"status", "touched"} /\ p["status"] = On({s}, "in-progress")
  BY DEF StartPatch
<1>2. StageMap(p["status"], FulfillmentStageStatus) /\ StageMap(p["touched"], BOOLEAN)
  BY DEF StageMap, On, StartPatch, FulfillmentStageStatus
<1> HIDE DEF p
<1>3. PatchOK(f, p)
  BY <1>1, <1>2, OrderFields DEF PatchOK
<1> QED
  BY <1>1, <1>3 DEF p

LEMMA CallsStep ==
  ASSUME BaseInv, [Next]_vars
  PROVE  CallsInv'
<1>0. /\ DOMAIN calls = Calls /\ \A c \in Calls : CallOK(factory, calls[c])
  BY DEF BaseInv, CallsInv
<1>1. ASSUME NEW c \in Calls, Call(c) PROVE CallsInv'
  BY <1>0, <1>1, CallIsFresh DEF BaseInv, CallsInv, Fresh
<1>2. ASSUME NEW c \in Calls, Write(c) \/ Conflict(c) PROVE CallsInv'
  <2>1. /\ calls'[c] = Idle /\ factory' = factory
        /\ DOMAIN calls' = Calls /\ \A d \in Calls \ {c} : calls'[d] = calls[d]
    BY <1>2, Answered
  <2> QED
    BY <1>0, <2>1, IdleIsOK DEF CallsInv
<1>3. ASSUME NEW c \in Calls, HealWrite(c) PROVE CallsInv'
  <2> DEFINE k == calls[c]
             n == [k EXCEPT !.pc = "reread"]
  <2>1. CallOK(factory, k) /\ k.pc = "heal"
    BY <1>0, <1>3 DEF HealWrite
  <2>2. /\ DOMAIN n = DOMAIN Idle /\ n.pc = "reread" /\ n.patch = k.patch /\ n.kind = k.kind
        /\ n.stage = k.stage /\ n.wasFinished = k.wasFinished
    BY <2>1, CallFields DEF CallOK
  <2> HIDE DEF k, n
  <2>3. HealOK(n)
    BY <2>1, <2>2 DEF CallOK, HealOK
  <2>4. CallOK(factory, n)
    BY <2>1, <2>2, <2>3 DEF CallOK
  <2>5. calls'[c] = n /\ DOMAIN calls' = Calls /\ (\A d \in Calls \ {c} : calls'[d] = calls[d])
        /\ factory' = factory
    BY <1>3, Answered DEF k, n
  <2> QED
    BY <1>0, <2>4, <2>5 DEF CallsInv
<1>4. ASSUME NEW c \in Calls, Reread(c) PROVE CallsInv'
  <2> DEFINE k == calls[c]
             p == StartPatch("print")
             n == [k EXCEPT !.pc = "write", !.was = CurrentStatus("print"),
                            !.patch = p, !.wasFinished = order.finished]
  <2>1. CallOK(factory, k) /\ k.pc = "reread"
    BY <1>0, <1>4 DEF Reread
  <2>2. /\ DOMAIN n = DOMAIN Idle /\ n.pc = "write" /\ n.patch = p
        /\ n.was = CurrentStatus("print") /\ n.kind = k.kind
        /\ n.stage = k.stage /\ n.wasFinished = order.finished
    BY <2>1, CallFields DEF CallOK
  <2>3. PatchOK(factory, p)
    BY StartPatchIsOK DEF FulfillmentStage
  <2>4. order.finished \in BOOLEAN
    BY OrderType DEF BaseInv
  <2> HIDE DEF k, n, p
  <2>5. n.kind = "start" /\ n.stage = "print"
    BY <2>1, <2>2 DEF CallOK, HealOK
  <2>6. CurrentStatus("print") \in Open => CallOK(factory, n)
    BY <2>2, <2>3, <2>4, <2>5 DEF CallOK, StartOK, p, Floor, Quiet, FulfillmentStage
  <2>7. /\ calls'[c] = Idle \/ (calls'[c] = n /\ CurrentStatus("print") \in Open)
        /\ DOMAIN calls' = Calls /\ \A d \in Calls \ {c} : calls'[d] = calls[d]
        /\ factory' = factory
    BY <1>4, Answered DEF k, n, p
  <2> QED
    BY <1>0, <2>6, <2>7, IdleIsOK DEF CallsInv
<1>5. CASE Boot \/ UNCHANGED vars
  BY <1>0, <1>5 DEF CallsInv, Boot, vars
<1> QED
  BY <1>1, <1>2, <1>3, <1>4, <1>5 DEF Next

\* A repair when the API boots, field by field.
LEMMA Booted ==
  ASSUME BaseInv, Boot
  PROVE  /\ order' \in Order /\ order'.current \notin AutoStages[factory]
         /\ order'.held = order.held
         /\ \A s \in FulfillmentStage :
              order'.status[s] \in {order.status[s], "absent"} \/ (s = "print" /\ order'.status[s] = "waiting"
                /\ cycle' = [cycle EXCEPT !["print"] = @ + 1])
         /\ cycle' \in {cycle, [cycle EXCEPT !["print"] = @ + 1]}
         /\ outside' = TRUE /\ disturbed' = TRUE
         /\ UNCHANGED <<factory, calls, begun, told, worklog>>
<1>0. order \in Order /\ factory \in Factory /\ order.current \notin AutoStages[factory]
  BY OrderType DEF BaseInv, AutoStagesAreSkipped
<1>1. CASE order' = [order EXCEPT !.current = NoStage, !.status = Each("absent"),
                                  !.passed = Each(FALSE), !.touched = Each(FALSE)] /\ UNCHANGED cycle
  <2>1. NoStage \notin AutoStages[factory]
    BY <1>0, PrintIsWorked, FulfillmentAssumption
  <2>2. /\ Each("absent") \in [FulfillmentStage -> FulfillmentStageStatus]
        /\ Each(FALSE) \in [FulfillmentStage -> BOOLEAN]
        /\ \A s \in FulfillmentStage : Each("absent")[s] = "absent"
    BY DEF Each, FulfillmentStageStatus
  <2>3. order' \in Order
    BY <1>0, <1>1, <2>2 DEF Order
  <2>4. order'.current = NoStage /\ order'.status = Each("absent") /\ order'.held = order.held
    BY <1>0, <1>1 DEF Order
  <2> QED
    BY <1>1, <2>1, <2>2, <2>3, <2>4 DEF Boot
<1>2. CASE order' = Set(order, EntryPatch) /\ cycle' = [cycle EXCEPT !["print"] = @ + 1]
  <2>1. order' \in Order /\ order'.current \notin AutoStages[factory]
        /\ \A s \in FulfillmentStage :
             order'.status[s] = IF "status" \in DOMAIN EntryPatch /\ s \in DOMAIN EntryPatch["status"]
                                THEN EntryPatch["status"][s] ELSE order.status[s]
    BY <1>0, <1>2, PatchEntry, SetFields
  <2>2. DOMAIN EntryPatch = {"current", "status", "passed", "touched"}
        /\ DOMAIN EntryPatch["status"] = {"print"} /\ EntryPatch["status"]["print"] = "waiting"
    BY DEF EntryPatch, On
  <2>3. order'.held = order.held
    BY <1>0, <1>2, <2>2 DEF Set, Order
  <2> QED
    BY <1>2, <2>1, <2>2, <2>3 DEF Boot
<1> QED
  BY <1>1, <1>2 DEF Boot

LEMMA BaseStep == BaseInv /\ [Next]_vars => BaseInv'
<1> SUFFICES ASSUME BaseInv, [Next]_vars PROVE BaseInv'
  OBVIOUS
<1>0. CallsInv'
  BY CallsStep
<1>1. /\ order \in Order /\ factory \in Factories /\ factory \in Factory
      /\ order.current \notin AutoStages[factory]
      /\ begun \in 0 .. MaxCalls /\ told \in Nat /\ cycle \in [FulfillmentStage -> Nat]
      /\ outside \in BOOLEAN /\ disturbed \in BOOLEAN
  BY OrderType DEF BaseInv, AutoStagesAreSkipped, TypeOK
<1>2. \A c \in Calls : calls'[c].pc \in {"idle", "write", "heal", "reread"}
  BY <1>0 DEF CallsInv, CallOK
<1>3. SUFFICES /\ factory' = factory /\ order' \in Order /\ order'.current \notin AutoStages[factory]
               /\ begun' \in 0 .. MaxCalls /\ told' \in Nat /\ cycle' \in [FulfillmentStage -> Nat]
               /\ outside' \in BOOLEAN /\ disturbed' \in BOOLEAN
  BY <1>0, <1>1, <1>2 DEF BaseInv, AutoStagesAreSkipped, TypeOK
<1>4. ASSUME NEW c \in Calls, Call(c)
      PROVE  /\ factory' = factory /\ order' \in Order /\ order'.current \notin AutoStages[factory]
             /\ begun' \in 0 .. MaxCalls /\ told' \in Nat /\ cycle' \in [FulfillmentStage -> Nat]
             /\ outside' \in BOOLEAN /\ disturbed' \in BOOLEAN
  <2>1. begun < MaxCalls
    BY <1>4 DEF Call
  <2>2. Fresh(c)
    BY <1>4, CallIsFresh DEF BaseInv
  <2> QED
    BY <1>1, <2>1, <2>2, FulfillmentAssumption DEF Fresh
<1>5. ASSUME NEW c \in Calls, Write(c)
      PROVE  /\ factory' = factory /\ order' \in Order /\ order'.current \notin AutoStages[factory]
             /\ begun' \in 0 .. MaxCalls /\ told' \in Nat /\ cycle' \in [FulfillmentStage -> Nat]
             /\ outside' \in BOOLEAN /\ disturbed' \in BOOLEAN
  <2>1. order' \in Order /\ order'.current \notin AutoStages[factory]
    BY <1>5, Written
  <2>2. cycle' \in [FulfillmentStage -> Nat]
    BY <1>1, <1>5 DEF Write
  <2>3. told' \in Nat /\ begun' = begun /\ factory' = factory
    BY <1>1, <1>5 DEF Write
  <2>4. outside' \in BOOLEAN /\ disturbed' \in BOOLEAN
    BY <1>5 DEF Write
  <2> QED
    BY <1>1, <2>1, <2>2, <2>3, <2>4
<1>6. ASSUME NEW c \in Calls, HealWrite(c)
      PROVE  /\ factory' = factory /\ order' \in Order /\ order'.current \notin AutoStages[factory]
             /\ begun' \in 0 .. MaxCalls /\ told' \in Nat /\ cycle' \in [FulfillmentStage -> Nat]
             /\ outside' \in BOOLEAN /\ disturbed' \in BOOLEAN
  <2>1. order' \in Order /\ order'.current \notin AutoStages[factory]
    BY <1>6, Written
  <2>2. cycle' \in [FulfillmentStage -> Nat]
    BY <1>1, <1>6 DEF HealWrite
  <2> QED
    BY <1>1, <1>6, <2>1, <2>2 DEF HealWrite
<1>7. ASSUME NEW c \in Calls, Conflict(c) \/ Reread(c)
      PROVE  UNCHANGED <<factory, order, begun, told, cycle, outside, disturbed>>
  BY <1>7 DEF Conflict, Reread
<1>8. CASE Boot
  <2>1. cycle' \in [FulfillmentStage -> Nat]
    BY <1>1, <1>8, Booted DEF FulfillmentStage
  <2> QED
    BY <1>1, <1>8, <2>1, Booted
<1>9. CASE UNCHANGED vars
  BY <1>1, <1>9 DEF vars
<1> QED
  BY <1>1, <1>4, <1>5, <1>6, <1>7, <1>8, <1>9 DEF Next

\* Whatever happens, no call has more in mind than its handler reads and writes: the
\* invariant of types, and of what the requests in flight may do.
LEMMA BaseAlways == Spec => []BaseInv
<1>1. Init => BaseInv
  BY BaseInit
<1>2. BaseInv /\ [Next]_vars => BaseInv'
  BY BaseStep
<1> QED
  BY <1>1, <1>2, PTL DEF Spec

\* The document stays one that OrderEntity allows, whoever writes it.
THEOREM TypeCorrect == Spec => []TypeOK
<1>1. BaseInv => TypeOK
  BY DEF BaseInv
<1> QED
  BY <1>1, BaseAlways, PTL

\* An order never stops at a stage that its factory has no worker for: not going forwards,
\* not sent back for rework, healed, repaired, or sent back by an error report.
THEOREM NeverStopsUnworked == Spec => []AutoStagesAreSkipped
<1>1. BaseInv => AutoStagesAreSkipped
  BY DEF BaseInv
<1> QED
  BY <1>1, BaseAlways, PTL

-----------------------------------------------------------------------------
(* What a step may never do *)

\* The sync with OnosPod ends no hold of the staff, and holds no order that was held,
\* cancelled or finished since it made its plan.
THEOREM SyncYields == Spec => SyncYieldsToStaff
<1> DEFINE A == \A c \in Calls :
              calls[c].kind \in {"sync hold", "sync release"} /\ calls'[c].pc = "idle"
              /\ order'.held # order.held =>
                \/ order.held = "onospod"
                \/ order.held = "no" /\ ~order.cancelled /\ ~order.finished
<1>1. BaseInv /\ [Next]_vars => [A]_vars
  <2> SUFFICES ASSUME BaseInv, [Next]_vars, NEW c \in Calls,
                      calls[c].kind \in {"sync hold", "sync release"}, calls'[c].pc = "idle",
                      order'.held # order.held
               PROVE  \/ order.held = "onospod"
                      \/ order.held = "no" /\ ~order.cancelled /\ ~order.finished
    OBVIOUS
  <2>0. calls[c].pc # "idle"
    <3>1. Idle.kind = ""
      BY DEF Idle
    <3> QED
      BY <3>1 DEF BaseInv, CallsInv, CallOK
  <2>1. ASSUME NEW d \in Calls, Call(d) PROVE FALSE
    <3>1. order' = order
      BY <2>1, CallIsFresh DEF BaseInv, Fresh
    <3> QED
      BY <3>1
  <2>2. ASSUME NEW d \in Calls, Conflict(d) \/ Reread(d) PROVE FALSE
    <3>1. order' = order
      BY <2>2 DEF Conflict, Reread
    <3> QED
      BY <3>1
  <2>3. ASSUME NEW d \in Calls, Write(d)
        PROVE  \/ order.held = "onospod"
               \/ order.held = "no" /\ ~order.cancelled /\ ~order.finished
    <3>1. \A e \in Calls \ {d} : calls'[e] = calls[e]
      BY <2>3, Answered
    <3>2. c = d
      BY <2>0, <3>1
    <3>3. StillTrue(calls[c])
      BY <2>3, <3>2 DEF Write
    <3> QED
      BY <3>3 DEF StillTrue, NotHeld, NotCancelled
  <2>4. ASSUME NEW d \in Calls, HealWrite(d) PROVE FALSE
    <3>1. (\A e \in Calls \ {d} : calls'[e] = calls[e]) /\ calls'[d] = [calls[d] EXCEPT !.pc = "reread"]
      BY <2>4, Answered
    <3>2. c = d
      BY <2>0, <3>1
    <3>3. DOMAIN calls[d] = DOMAIN Idle
      BY DEF BaseInv, CallsInv, CallOK
    <3> QED
      BY <3>1, <3>2, <3>3, CallFields
  <2>5. CASE Boot
    BY <2>5, Booted
  <2>6. CASE UNCHANGED vars
    BY <2>6 DEF vars
  <2> QED
    BY <2>1, <2>2, <2>3, <2>4, <2>5, <2>6 DEF Next
<1> QED
  BY <1>1, BaseAlways, PTL DEF Spec, SyncYieldsToStaff

-----------------------------------------------------------------------------
(* Work is given out once *)

\* The status that a write of the floor asked for is the one its handler expected.
LEMMA FloorWrite ==
  ASSUME BaseInv, NEW c \in Calls, Write(c), calls[c].kind \in Floor
  PROVE  /\ calls[c].stage \in FulfillmentStage
         /\ order.status[calls[c].stage] = calls[c].was
         /\ calls[c].kind = "start" => StartOK(calls[c])
         /\ calls[c].kind = "complete" => CompleteOK(factory, calls[c])
         /\ calls[c].kind = "back" => BackOK(factory, calls[c])
<1>1. CallOK(factory, calls[c]) /\ calls[c].pc = "write" /\ StillTrue(calls[c])
  BY DEF BaseInv, CallsInv, Write
<1> QED
  BY <1>1 DEF CallOK, StillTrue

\* A start puts its stage, found open, in progress.
LEMMA StartWrites ==
  ASSUME BaseInv, NEW c \in Calls, Write(c), calls[c].kind = "start"
  PROVE  LET s == calls[c].stage IN
         /\ s \in FulfillmentStage /\ order.status[s] \in Open /\ order'.status[s] = "in-progress"
         /\ \A t \in FulfillmentStage \ {s} : order'.status[t] = order.status[t]
         /\ order'.passed = order.passed \/ \A t \in FulfillmentStage : order'.passed[t] = order.passed[t]
         /\ order'.current = order.current /\ order'.finished = order.finished
         /\ cycle'[s] = cycle[s] /\ Opened(calls[c]) = {}
<1> DEFINE k == calls[c]
           s == k.stage
           p == StartPatch(s)
<1>1. s \in FulfillmentStage /\ order.status[s] = k.was /\ k.was \in Open /\ k.patch = p
  BY FloorWrite DEF Floor, StartOK
<1>2. DOMAIN p = {"status", "touched"} /\ p["status"] = On({s}, "in-progress")
  BY <1>1, StartPatchIsOK
<1>3. DOMAIN p["status"] = {s} /\ p["status"][s] = "in-progress"
  BY <1>2 DEF On
<1> HIDE DEF p
<1>4. Opened(k) = {}
  BY <1>1, <1>3 DEF Opened, Open
<1>5. cycle'[s] = cycle[s]
  BY <1>1, <1>4 DEF Write
<1>6. /\ order'.status[s] = "in-progress"
      /\ \A t \in FulfillmentStage \ {s} : order'.status[t] = order.status[t]
      /\ order'.current = order.current /\ order'.finished = order.finished
      /\ \A t \in FulfillmentStage : order'.passed[t] = order.passed[t]
  BY <1>1, <1>2, <1>3, Written
<1> QED
  BY <1>1, <1>4, <1>5, <1>6

\* The stages that are completed with stage s.
Done(s) == AutoRun[factory][s] \cup {s}

\* A completion of stage s that finishes the order, and one that leaves it at stage n.
Finishes(s) ==
  /\ \A u \in FulfillmentStage : Before(s, u) => u \in Done(s)
  /\ \A t \in FulfillmentStage : order'.status[t] = IF t \in Done(s) THEN "done" ELSE order.status[t]
  /\ order'.current = NoStage /\ order'.finished = TRUE

GoesOn(s, n) ==
  /\ Before(s, n)
  /\ \A u \in FulfillmentStage : Before(s, u) /\ Before(u, n) => u \in Done(s)
  /\ \A t \in FulfillmentStage :
       order'.status[t] = IF t = n THEN "waiting"
                          ELSE IF t \in Done(s) THEN "done" ELSE order.status[t]
  /\ order'.current = n /\ order'.finished = order.finished

\* A completion leaves its stage, found in progress, done.
LEMMA CompleteWrites ==
  ASSUME BaseInv, NEW c \in Calls, Write(c), calls[c].kind = "complete"
  PROVE  LET s == calls[c].stage IN
         /\ s \in FulfillmentStage /\ order.status[s] = "in-progress" /\ order'.status[s] = "done"
         /\ cycle'[s] = cycle[s]
         /\ \A t \in FulfillmentStage : order'.passed[t] = (order.passed[t] \/ t \in Done(s))
         /\ Finishes(s) \/ \E n \in FulfillmentStage \ AutoStages[factory] : GoesOn(s, n)
<1> DEFINE k == calls[c]
           s == k.stage
           p == k.patch
           done == AutoRun[factory][s] \cup {s}
<1>0. Done(s) = done
  BY DEF Done
<1>1. s \in FulfillmentStage /\ order.status[s] = "in-progress"
      /\ p = Advance(s, AutoRun[factory][s], NextStop[factory][s]) /\ factory \in Factory
  BY FloorWrite, OrderType DEF Floor, CompleteOK, BaseInv
<1>2. /\ done \in SUBSET FulfillmentStage
      /\ "status" \in DOMAIN p /\ "passed" \in DOMAIN p /\ "current" \in DOMAIN p
      /\ DOMAIN p["passed"] = done /\ \A t \in done : p["passed"][t] = TRUE
      /\ \/ /\ \A u \in FulfillmentStage : Before(s, u) => u \in done
            /\ DOMAIN p["status"] = done /\ \A t \in done : p["status"][t] = "done"
            /\ p["current"] = NoStage /\ "finished" \in DOMAIN p /\ p["finished"] = TRUE
         \/ \E t \in FulfillmentStage \ AutoStages[factory] :
              /\ Before(s, t) /\ t \notin done
              /\ \A u \in FulfillmentStage : Before(s, u) /\ Before(u, t) => u \in done
              /\ DOMAIN p["status"] = done \cup {t} /\ p["status"][t] = "waiting"
              /\ \A u \in done : p["status"][u] = "done"
              /\ p["current"] = t /\ "finished" \notin DOMAIN p
  <2> DEFINE q == Advance(s, AutoRun[factory][s], NextStop[factory][s])
  <2>0. s \in FulfillmentStage /\ factory \in Factory /\ p = q
    BY <1>1
  <2> HIDE DEF s, p
  <2>1. /\ done \in SUBSET FulfillmentStage
        /\ "status" \in DOMAIN q /\ "passed" \in DOMAIN q /\ "current" \in DOMAIN q
        /\ DOMAIN q["passed"] = done /\ \A t \in done : q["passed"][t] = TRUE
        /\ \/ /\ \A u \in FulfillmentStage : Before(s, u) => u \in done
              /\ DOMAIN q["status"] = done /\ \A t \in done : q["status"][t] = "done"
              /\ q["current"] = NoStage /\ "finished" \in DOMAIN q /\ q["finished"] = TRUE
           \/ \E t \in FulfillmentStage \ AutoStages[factory] :
                /\ Before(s, t) /\ t \notin done
                /\ \A u \in FulfillmentStage : Before(s, u) /\ Before(u, t) => u \in done
                /\ DOMAIN q["status"] = done \cup {t} /\ q["status"][t] = "waiting"
                /\ \A u \in done : q["status"][u] = "done"
                /\ q["current"] = t /\ "finished" \notin DOMAIN q
    BY <2>0, CompletePatchFields
  <2> HIDE DEF q
  <2> QED
    BY <2>0, <2>1
<1>3. s \in done
  OBVIOUS
<1>4. /\ order'.current = IF "current" \in DOMAIN p THEN p["current"] ELSE order.current
      /\ order'.finished = IF "finished" \in DOMAIN p THEN p["finished"] ELSE order.finished
      /\ \A t \in FulfillmentStage :
           order'.status[t] = IF "status" \in DOMAIN p /\ t \in DOMAIN p["status"]
                              THEN p["status"][t] ELSE order.status[t]
      /\ \A t \in FulfillmentStage :
           order'.passed[t] = IF "passed" \in DOMAIN p /\ t \in DOMAIN p["passed"]
                              THEN p["passed"][t] ELSE order.passed[t]
  BY Written
<1>5. \A t \in FulfillmentStage : order.passed[t] \in BOOLEAN
  BY OrderType DEF BaseInv
<1>6. Opened(k) = {t \in DOMAIN p["status"] : p["status"][t] \in Open}
  BY <1>2 DEF Opened
<1>7. cycle' = [t \in FulfillmentStage |-> IF t \in Opened(k) THEN cycle[t] + 1 ELSE cycle[t]]
  BY DEF Write
<1> HIDE DEF k, s, p, done
<1>8. \A t \in FulfillmentStage : order'.passed[t] = (order.passed[t] \/ t \in done)
  BY <1>2, <1>4, <1>5
<1>9. CASE /\ \A u \in FulfillmentStage : Before(s, u) => u \in done
           /\ DOMAIN p["status"] = done /\ \A t \in done : p["status"][t] = "done"
           /\ p["current"] = NoStage /\ "finished" \in DOMAIN p /\ p["finished"] = TRUE
  <2>1. cycle'[s] = cycle[s]
    BY <1>1, <1>3, <1>6, <1>7, <1>9 DEF Open
  <2>2. /\ \A t \in FulfillmentStage : order'.status[t] = IF t \in done THEN "done" ELSE order.status[t]
        /\ order'.current = NoStage /\ order'.finished = TRUE
    BY <1>2, <1>4, <1>9
  <2> QED
    <3>1. Finishes(s)
      BY <1>0, <1>9, <2>2 DEF Finishes
    <3>2. order'.status[s] = "done"
      BY <1>1, <1>3, <2>2
    <3> QED
      BY <1>0, <1>1, <1>8, <2>1, <3>1, <3>2 DEF s, k
<1>10. ASSUME NEW n \in FulfillmentStage \ AutoStages[factory],
              /\ Before(s, n) /\ n \notin done
              /\ \A u \in FulfillmentStage : Before(s, u) /\ Before(u, n) => u \in done
              /\ DOMAIN p["status"] = done \cup {n} /\ p["status"][n] = "waiting"
              /\ \A u \in done : p["status"][u] = "done"
              /\ p["current"] = n /\ "finished" \notin DOMAIN p
       PROVE  /\ cycle'[s] = cycle[s] /\ order'.status[s] = "done"
              /\ \A t \in FulfillmentStage :
                      order'.status[t] = IF t = n THEN "waiting"
                                         ELSE IF t \in done THEN "done" ELSE order.status[t]
              /\ order'.current = n /\ order'.finished = order.finished
  <2>1. cycle'[s] = cycle[s]
    BY <1>1, <1>3, <1>6, <1>7, <1>10 DEF Open
  <2>2. /\ \A t \in FulfillmentStage :
                order'.status[t] = IF t = n THEN "waiting"
                                   ELSE IF t \in done THEN "done" ELSE order.status[t]
        /\ order'.current = n /\ order'.finished = order.finished
    BY <1>2, <1>4, <1>10
  <2>3. order'.status[s] = "done"
    BY <1>1, <1>3, <1>10, <2>2
  <2> QED
    BY <2>1, <2>2, <2>3
<1> QED
  <2>1. CASE \E n \in FulfillmentStage \ AutoStages[factory] :
              /\ Before(s, n) /\ n \notin done
              /\ \A u \in FulfillmentStage : Before(s, u) /\ Before(u, n) => u \in done
              /\ DOMAIN p["status"] = done \cup {n} /\ p["status"][n] = "waiting"
              /\ \A u \in done : p["status"][u] = "done"
              /\ p["current"] = n /\ "finished" \notin DOMAIN p
    <3> PICK n \in FulfillmentStage \ AutoStages[factory] :
              /\ Before(s, n) /\ n \notin done
              /\ \A u \in FulfillmentStage : Before(s, u) /\ Before(u, n) => u \in done
              /\ DOMAIN p["status"] = done \cup {n} /\ p["status"][n] = "waiting"
              /\ \A u \in done : p["status"][u] = "done"
              /\ p["current"] = n /\ "finished" \notin DOMAIN p
      BY <2>1
    <3>1. /\ cycle'[s] = cycle[s] /\ order'.status[s] = "done"
          /\ \A t \in FulfillmentStage :
                  order'.status[t] = IF t = n THEN "waiting"
                                     ELSE IF t \in done THEN "done" ELSE order.status[t]
          /\ order'.current = n /\ order'.finished = order.finished
      BY <1>10
    <3> QED
      <4>1. GoesOn(s, n)
        BY <1>0, <3>1 DEF GoesOn
      <4> QED
        BY <1>0, <1>1, <1>8, <3>1, <4>1 DEF s, k
  <2> QED
    BY <1>2, <1>9, <2>1

\* A stage's cycle moves on whenever the stage is opened; within a cycle only a start puts
\* it in progress, and only where it was open.
LEMMA Cycles ==
  ASSUME BaseInv, [Next]_vars, NEW s \in FulfillmentStage
  PROVE  \/ cycle'[s] = cycle[s] + 1
         \/ /\ cycle'[s] = cycle[s]
            /\ \/ order'.status[s] = order.status[s]
               \/ /\ order'.status[s] \notin Open
                  /\ order'.status[s] = "in-progress" => order.status[s] \in Open
<1>0. cycle \in [FulfillmentStage -> Nat]
  BY DEF BaseInv, TypeOK
<1>1. ASSUME NEW c \in Calls, Call(c) \/ Conflict(c) \/ Reread(c) PROVE UNCHANGED <<cycle, order>>
  <2>1. Call(c) => UNCHANGED <<cycle, order>>
    BY CallIsFresh DEF BaseInv, Fresh
  <2> QED
    BY <1>1, <2>1 DEF Conflict, Reread
<1>2. ASSUME NEW c \in Calls, Write(c) \/ HealWrite(c), calls[c].kind # "start" \/ HealWrite(c)
      PROVE  \/ cycle'[s] = cycle[s] + 1
             \/ /\ cycle'[s] = cycle[s]
                /\ \/ order'.status[s] = order.status[s]
                   \/ order'.status[s] \notin Open /\ order'.status[s] # "in-progress"
  <2> DEFINE k == calls[c]
             p == k.patch
  <2>1. cycle'[s] = IF s \in Opened(k) THEN cycle[s] + 1 ELSE cycle[s]
    BY <1>0, <1>2 DEF Write, HealWrite
  <2>2. order'.status[s] = IF "status" \in DOMAIN p /\ s \in DOMAIN p["status"]
                           THEN p["status"][s] ELSE order.status[s]
    BY <1>2, Written
  <2>3. "status" \in DOMAIN p => \A t \in DOMAIN p["status"] : p["status"][t] # "in-progress"
    <3>1. CallOK(factory, k)
      BY DEF BaseInv, CallsInv
    <3>2. CASE Write(c) /\ k.kind # "start"
      <4>1. k.pc = "write"
        BY <3>2 DEF Write
      <4> QED
        BY <3>1, <3>2, <4>1 DEF CallOK
    <3>3. CASE HealWrite(c)
      <4>1. HealOK(k)
        BY <3>1, <3>3 DEF CallOK, HealWrite
      <4>2. PICK m \in {On({"print"}, "waiting"), Nothing} :
              p = [current |-> "print", ready |-> TRUE, status |-> m]
        BY <4>1 DEF HealOK
      <4>3. p["status"] = m
        BY <4>2
      <4> QED
        BY <4>3 DEF On, Nothing
    <3> QED
      BY <1>2, <3>2, <3>3
  <2>4. Opened(k) = IF "status" \in DOMAIN p
                    THEN {t \in DOMAIN p["status"] : p["status"][t] \in Open} ELSE {}
    BY DEF Opened
  <2> HIDE DEF k, p
  <2> QED
    BY <2>1, <2>2, <2>3, <2>4
<1>3. ASSUME NEW c \in Calls, Write(c), calls[c].kind = "start"
      PROVE  \/ cycle'[s] = cycle[s] + 1
             \/ /\ cycle'[s] = cycle[s]
                /\ \/ order'.status[s] = order.status[s]
                   \/ order'.status[s] = "in-progress" /\ order.status[s] \in Open
  <2>1. Opened(calls[c]) = {}
    BY <1>3, StartWrites
  <2>2. cycle'[s] = cycle[s]
    BY <1>0, <1>3, <2>1 DEF Write
  <2>3. \/ order'.status[s] = order.status[s]
        \/ order'.status[s] = "in-progress" /\ order.status[s] \in Open
    BY <1>3, StartWrites
  <2> QED
    BY <2>2, <2>3
<1>4. CASE Boot
  <2>1. /\ order'.status[s] \in {order.status[s], "absent"} \/ (s = "print" /\ order'.status[s] = "waiting"
               /\ cycle' = [cycle EXCEPT !["print"] = @ + 1])
        /\ cycle' \in {cycle, [cycle EXCEPT !["print"] = @ + 1]}
    BY <1>4, Booted
  <2> QED
    BY <1>0, <2>1 DEF Open
<1>5. CASE UNCHANGED vars
  BY <1>5 DEF vars
<1>6. "in-progress" \notin Open
  BY DEF Open
<1> QED
  BY <1>1, <1>2, <1>3, <1>4, <1>5, <1>6 DEF Next

\* What is written down of the floor's work is a start of a stage that was open, or a
\* completion of one that was in progress, in the cycle that runs.
LEMMA Logged ==
  ASSUME BaseInv, [Next]_vars
  PROVE  \/ worklog' = worklog
         \/ \E s \in FulfillmentStage, a \in {"start", "complete"} :
              /\ worklog' = Append(worklog, <<a, s, cycle[s]>>)
              /\ cycle'[s] = cycle[s]
              /\ a = "start" => order.status[s] \in Open /\ order'.status[s] = "in-progress"
              /\ a = "complete" => order.status[s] = "in-progress" /\ order'.status[s] = "done"
<1>1. ASSUME NEW c \in Calls, Call(c) PROVE worklog' = worklog
  BY <1>1, CallIsFresh DEF BaseInv, Fresh
<1>2. ASSUME NEW c \in Calls, Conflict(c) \/ Reread(c) \/ HealWrite(c) PROVE worklog' = worklog
  BY <1>2 DEF Conflict, Reread, HealWrite
<1>3. ASSUME NEW c \in Calls, Write(c), calls[c].kind \notin {"start", "complete"}
      PROVE  worklog' = worklog
  BY <1>3 DEF Write
<1>4. ASSUME NEW c \in Calls, Write(c), calls[c].kind = "start"
      PROVE  \E s \in FulfillmentStage :
               /\ worklog' = Append(worklog, <<"start", s, cycle[s]>>)
               /\ cycle'[s] = cycle[s] /\ order.status[s] \in Open /\ order'.status[s] = "in-progress"
  <2>1. worklog' = Append(worklog, <<"start", calls[c].stage, cycle[calls[c].stage]>>)
    BY <1>4 DEF Write
  <2> QED
    BY <1>4, <2>1, StartWrites
<1>5. ASSUME NEW c \in Calls, Write(c), calls[c].kind = "complete"
      PROVE  \E s \in FulfillmentStage :
               /\ worklog' = Append(worklog, <<"complete", s, cycle[s]>>)
               /\ cycle'[s] = cycle[s] /\ order.status[s] = "in-progress" /\ order'.status[s] = "done"
  <2>1. worklog' = Append(worklog, <<"complete", calls[c].stage, cycle[calls[c].stage]>>)
    BY <1>5 DEF Write
  <2>2. LET s == calls[c].stage IN
        /\ s \in FulfillmentStage /\ order.status[s] = "in-progress" /\ order'.status[s] = "done"
        /\ cycle'[s] = cycle[s]
    BY <1>5, CompleteWrites
  <2> QED
    BY <2>1, <2>2
<1>6. CASE Boot \/ UNCHANGED vars
  BY <1>6 DEF Boot, vars
<1> QED
  BY <1>1, <1>2, <1>3, <1>4, <1>5, <1>6 DEF Next

LEMMA LogInit == Init => LogInv
BY DEF Init, LogInv, WorkIsDoneOnce

LEMMA LogStep == BaseInv /\ LogInv /\ [Next]_vars => LogInv'
<1> SUFFICES ASSUME BaseInv, LogInv, [Next]_vars PROVE LogInv'
  OBVIOUS
<1> DEFINE E == {"start", "complete"} \X FulfillmentStage \X Nat
           Past(e, s, n, st) == e[2] = s =>
             /\ e[3] <= n
             /\ e[3] = n => st \notin Open
             /\ e[3] = n /\ e[1] = "complete" => st # "in-progress"
<1>1. /\ worklog \in Seq(E) /\ WorkIsDoneOnce
      /\ \A i \in DOMAIN worklog, s \in FulfillmentStage : Past(worklog[i], s, cycle[s], order.status[s])
  BY DEF LogInv
<1>2. cycle \in [FulfillmentStage -> Nat] /\ cycle' \in [FulfillmentStage -> Nat]
  BY BaseStep DEF BaseInv, TypeOK
<1>3. ASSUME NEW i \in DOMAIN worklog, NEW s \in FulfillmentStage
      PROVE  Past(worklog[i], s, cycle'[s], order'.status[s])
  <2>1. \/ cycle'[s] = cycle[s] + 1
        \/ /\ cycle'[s] = cycle[s]
           /\ \/ order'.status[s] = order.status[s]
              \/ /\ order'.status[s] \notin Open
                 /\ order'.status[s] = "in-progress" => order.status[s] \in Open
    BY Cycles
  <2>2. Past(worklog[i], s, cycle[s], order.status[s])
    BY <1>1
  <2>3. worklog[i] \in E /\ worklog[i][3] \in Nat /\ cycle[s] \in Nat
    BY <1>1, <1>2
  <2> QED
    BY <2>1, <2>2, <2>3
<1>4. CASE worklog' = worklog
  BY <1>1, <1>3, <1>4 DEF LogInv, WorkIsDoneOnce
<1>5. ASSUME NEW s \in FulfillmentStage, NEW a \in {"start", "complete"},
             worklog' = Append(worklog, <<a, s, cycle[s]>>), cycle'[s] = cycle[s],
             a = "start" => order.status[s] \in Open /\ order'.status[s] = "in-progress",
             a = "complete" => order.status[s] = "in-progress" /\ order'.status[s] = "done"
      PROVE  LogInv'
  <2> DEFINE e == <<a, s, cycle[s]>>
  <2>1. e \in E /\ e[1] = a /\ e[2] = s /\ e[3] = cycle[s]
    BY <1>2
  <2>2. \A i \in DOMAIN worklog : worklog[i] # e
    <3> SUFFICES ASSUME NEW i \in DOMAIN worklog, worklog[i] = e PROVE FALSE
      OBVIOUS
    <3>1. Past(e, s, cycle[s], order.status[s])
      BY <1>1
    <3> QED
      BY <1>5, <2>1, <3>1
  <2>3. \A t \in FulfillmentStage : Past(e, t, cycle'[t], order'.status[t])
    BY <1>2, <1>5, <2>1 DEF Open
  <2> HIDE DEF e
  <2>4. worklog' = Append(worklog, e)
    BY <1>5 DEF e
  <2>5. /\ worklog' \in Seq(E) /\ DOMAIN worklog' = 1 .. Len(worklog) + 1
        /\ DOMAIN worklog = 1 .. Len(worklog) /\ Len(worklog) \in Nat
        /\ worklog'[Len(worklog) + 1] = e
        /\ \A i \in DOMAIN worklog : worklog'[i] = worklog[i]
    BY <1>1, <2>1, <2>4
  <2>6. \A i \in DOMAIN worklog' : i \in DOMAIN worklog \/ i = Len(worklog) + 1
    BY <2>5
  <2>7. WorkIsDoneOnce'
    BY <1>1, <2>2, <2>5, <2>6 DEF WorkIsDoneOnce
  <2>8. ASSUME NEW i \in DOMAIN worklog', NEW t \in FulfillmentStage
        PROVE  Past(worklog'[i], t, cycle'[t], order'.status[t])
    BY <1>3, <2>3, <2>5, <2>6
  <2> QED
    BY <2>5, <2>7, <2>8 DEF LogInv
<1> QED
  BY <1>4, <1>5, Logged

\* Work is given out once: however many requests read a stage open, one of them starts it,
\* and however many read it in progress, one completes it, until it is opened again.
THEOREM GivenOutOnce == Spec => []WorkIsDoneOnce
<1>1. Init => BaseInv /\ LogInv
  BY BaseInit, LogInit
<1>2. BaseInv /\ LogInv /\ [Next]_vars => (BaseInv /\ LogInv)'
  BY BaseStep, LogStep
<1>3. LogInv => WorkIsDoneOnce
  BY DEF LogInv
<1> QED
  BY <1>1, <1>2, <1>3, PTL DEF Spec

-----------------------------------------------------------------------------
(* What the other writes do to the floor *)

\* Rework, to the designer or to a stage before.
LEMMA BackWrites ==
  ASSUME BaseInv, NEW c \in Calls, Write(c), calls[c].kind = "back"
  PROVE  LET s == calls[c].stage IN
         /\ s \in FulfillmentStage /\ order.status[s] \in Open \cup {"in-progress"}
         /\ order'.finished = order.finished
         /\ \A t \in FulfillmentStage : order'.passed[t] = order.passed[t]
         /\ \/ /\ order'.current = order.current
               /\ \A u \in FulfillmentStage :
                    order'.status[u] = IF u = s THEN "waiting" ELSE order.status[u]
            \/ \E t \in FulfillmentStage \ AutoStages[factory] :
                 /\ Before(t, s) /\ order'.current = t
                 /\ \A u \in FulfillmentStage :
                      order'.status[u] = IF u = t THEN "rework"
                                         ELSE IF u = s THEN "waiting" ELSE order.status[u]
<1> DEFINE k == calls[c]
           s == k.stage
           p == k.patch
<1>1. /\ s \in FulfillmentStage /\ order.status[s] = k.was /\ BackOK(factory, k)
  BY FloorWrite DEF Floor
<1>2. /\ order'.current = IF "current" \in DOMAIN p THEN p["current"] ELSE order.current
      /\ order'.finished = IF "finished" \in DOMAIN p THEN p["finished"] ELSE order.finished
      /\ \A t \in FulfillmentStage :
           order'.status[t] = IF "status" \in DOMAIN p /\ t \in DOMAIN p["status"]
                              THEN p["status"][t] ELSE order.status[t]
      /\ \A t \in FulfillmentStage :
           order'.passed[t] = IF "passed" \in DOMAIN p /\ t \in DOMAIN p["passed"]
                              THEN p["passed"][t] ELSE order.passed[t]
  BY Written
<1> HIDE DEF k
<1>3. CASE DOMAIN p \cap FloorFields = {"status"} /\ p["status"] = On({s}, "waiting")
  <2>1. "status" \in DOMAIN p /\ "current" \notin DOMAIN p /\ "finished" \notin DOMAIN p
        /\ "passed" \notin DOMAIN p
    BY <1>3 DEF FloorFields
  <2>2. DOMAIN p["status"] = {s} /\ p["status"][s] = "waiting"
    BY <1>3 DEF On
  <2> HIDE DEF p, s
  <2>3. \A u \in FulfillmentStage : order'.status[u] = IF u = s THEN "waiting" ELSE order.status[u]
    BY <1>2, <2>1, <2>2
  <2>4. order.status[s] \in Open \cup {"in-progress"}
    BY <1>1 DEF BackOK
  <2> QED
    BY <1>1, <1>2, <2>1, <2>3, <2>4 DEF s, k
<1>4. ASSUME NEW t \in FulfillmentStage \ AutoStages[factory], Before(t, s),
             p = [status |-> On({t}, "rework") ++ On({s}, "waiting"), current |-> t]
      PROVE  /\ order'.finished = order.finished
             /\ \A u \in FulfillmentStage : order'.passed[u] = order.passed[u]
             /\ order'.current = t
             /\ \A u \in FulfillmentStage :
                  order'.status[u] = IF u = t THEN "rework"
                                     ELSE IF u = s THEN "waiting" ELSE order.status[u]
  <2> DEFINE m == On({t}, "rework") ++ On({s}, "waiting")
  <2>1. DOMAIN m = {s, t} /\ m[t] = "rework" /\ (s # t => m[s] = "waiting")
    BY DEF On, ++
  <2> HIDE DEF m
  <2>2. DOMAIN p = {"status", "current"} /\ p["status"] = m /\ p["current"] = t
    BY <1>4 DEF m
  <2> HIDE DEF p, s
  <2>3. \A u \in FulfillmentStage :
          order'.status[u] = IF u = t THEN "rework"
                             ELSE IF u = s THEN "waiting" ELSE order.status[u]
    BY <1>2, <2>1, <2>2
  <2> QED
    BY <1>2, <2>2, <2>3
<1>5. order.status[s] \in Open \cup {"in-progress"}
  BY <1>1 DEF BackOK
<1>6. \/ DOMAIN p \cap FloorFields = {"status"} /\ p["status"] = On({s}, "waiting")
      \/ \E t \in FulfillmentStage \ AutoStages[factory] :
           /\ Before(t, s)
           /\ p = [status |-> On({t}, "rework") ++ On({s}, "waiting"), current |-> t]
  BY <1>1 DEF BackOK
<1> HIDE DEF p, s
<1> QED
  <2>1. CASE \E t \in FulfillmentStage \ AutoStages[factory] :
           /\ Before(t, s)
           /\ p = [status |-> On({t}, "rework") ++ On({s}, "waiting"), current |-> t]
    BY <1>1, <1>4, <1>5, <2>1 DEF s, k
  <2> QED
    BY <1>3, <1>6, <2>1

\* Who cannot disturb the floor.
LEMMA QuietWrites ==
  ASSUME BaseInv, NEW c \in Calls, Write(c), calls[c].kind \in Quiet
  PROVE  /\ order'.current = order.current /\ order'.finished = order.finished
         /\ \A s \in FulfillmentStage :
              order'.status[s] = order.status[s] /\ order'.passed[s] = order.passed[s]
<1> DEFINE p == calls[c].patch
<1>1. DOMAIN p \cap FloorFields = {}
  <2>1. CallOK(factory, calls[c]) /\ calls[c].pc = "write"
    BY DEF BaseInv, CallsInv, Write
  <2> QED
    BY <2>1 DEF CallOK
<1>2. "current" \notin DOMAIN p /\ "finished" \notin DOMAIN p
      /\ "status" \notin DOMAIN p /\ "passed" \notin DOMAIN p
  BY <1>1 DEF FloorFields
<1> QED
  BY <1>2, Written

\* A completion by hand.
LEMMA ForceWrites ==
  ASSUME BaseInv, NEW c \in Calls, Write(c), calls[c].kind = "force"
  PROVE  LET D == DOMAIN calls[c].patch["passed"] IN
         /\ order'.current = NoStage /\ order'.finished = TRUE
         /\ \A s \in FulfillmentStage :
              /\ order'.status[s] = IF s \in D THEN "done" ELSE order.status[s]
              /\ order'.passed[s] = (order.passed[s] \/ s \in D)
<1> DEFINE k == calls[c]
           p == k.patch
           D == DOMAIN p["passed"]
<1>1. ForceOK(k)
  <2>1. CallOK(factory, k) /\ k.pc = "write"
    BY DEF BaseInv, CallsInv, Write
  <2> QED
    BY <2>1 DEF CallOK
<1>2. /\ {"current", "status", "passed", "finished"} \subseteq DOMAIN p
      /\ DOMAIN p["status"] = D
      /\ \A s \in D : p["status"][s] = "done" /\ p["passed"][s] = TRUE
      /\ p["current"] = NoStage /\ p["finished"] = TRUE
  BY <1>1 DEF ForceOK, FloorFields
<1>3. \A t \in FulfillmentStage : order.passed[t] \in BOOLEAN
  BY OrderType DEF BaseInv
<1>4. /\ order'.current = IF "current" \in DOMAIN p THEN p["current"] ELSE order.current
      /\ order'.finished = IF "finished" \in DOMAIN p THEN p["finished"] ELSE order.finished
      /\ \A t \in FulfillmentStage :
           order'.status[t] = IF "status" \in DOMAIN p /\ t \in DOMAIN p["status"]
                              THEN p["status"][t] ELSE order.status[t]
      /\ \A t \in FulfillmentStage :
           order'.passed[t] = IF "passed" \in DOMAIN p /\ t \in DOMAIN p["passed"]
                              THEN p["passed"][t] ELSE order.passed[t]
  BY Written
<1> HIDE DEF p
<1> QED
  BY <1>2, <1>3, <1>4 DEF p

\* Self-healing brings the order to print, where nothing is before it.
LEMMA HealWrites ==
  ASSUME BaseInv, NEW c \in Calls, HealWrite(c)
  PROVE  /\ order'.finished = order.finished
         /\ \A s \in FulfillmentStage :
              /\ order'.status[s] = order.status[s] \/ s = "print"
              /\ order'.passed[s] = order.passed[s]
<1> DEFINE p == calls[c].patch
<1>1. HealOK(calls[c])
  <2>1. CallOK(factory, calls[c]) /\ calls[c].pc = "heal"
    BY DEF BaseInv, CallsInv, HealWrite
  <2> QED
    BY <2>1 DEF CallOK
<1>2. PICK m \in {On({"print"}, "waiting"), Nothing} :
        p = [current |-> "print", ready |-> TRUE, status |-> m]
  BY <1>1 DEF HealOK
<1>3. DOMAIN p = {"current", "ready", "status"} /\ p["status"] = m
  BY <1>2
<1>4. DOMAIN m \subseteq {"print"}
  BY NothingIsEmpty DEF On
<1> HIDE DEF p
<1>5. /\ order'.finished = IF "finished" \in DOMAIN p THEN p["finished"] ELSE order.finished
      /\ \A t \in FulfillmentStage :
           order'.status[t] = IF "status" \in DOMAIN p /\ t \in DOMAIN p["status"]
                              THEN p["status"][t] ELSE order.status[t]
      /\ \A t \in FulfillmentStage :
           order'.passed[t] = IF "passed" \in DOMAIN p /\ t \in DOMAIN p["passed"]
                              THEN p["passed"][t] ELSE order.passed[t]
  BY Written DEF p
<1> QED
  BY <1>3, <1>4, <1>5

-----------------------------------------------------------------------------
(* The floor in step *)

LEMMA FloorInit == Init => FloorInv
<1> SUFFICES ASSUME Init PROVE FloorInv
  OBVIOUS
<1>1. SoundOrder(factory, order)
  BY InitialOrdersAssumption DEF Init
<1>2. \A c \in Calls : calls[c].pc = "idle"
  BY IdleIsOK DEF Init, Idle
<1> QED
  BY <1>1, <1>2 DEF FloorInv, SoundOrder

\* The order's part of FloorInv.
InStep ==
  /\ \A s \in FulfillmentStage : order.status[s] = "in-progress" => order.current = s
  /\ order.current # NoStage => order.status[order.current] \in Open \cup {"in-progress"}
  /\ order.finished => order.current = NoStage

\* A stage's own worker, at the stage where the order is, leaves it in step.
LEMMA WorkerInStep ==
  ASSUME BaseInv, InStep, NEW c \in Calls, Write(c), calls[c].kind \in Floor,
         calls[c].stage = order.current
  PROVE  InStep'
<1> DEFINE s == calls[c].stage
<1>1. s \in FulfillmentStage /\ s = order.current /\ NoStage \notin FulfillmentStage
      /\ order.finished \in BOOLEAN
  BY FloorWrite, FulfillmentAssumption, OrderType DEF BaseInv
<1>2. order.finished = FALSE
  BY <1>1 DEF InStep
<1>3. \A t \in FulfillmentStage : order.status[t] = "in-progress" => t = s
  BY <1>1 DEF InStep
<1>4. CASE calls[c].kind = "start"
  <2>1. /\ order'.status[s] = "in-progress"
        /\ \A t \in FulfillmentStage \ {s} : order'.status[t] = order.status[t]
        /\ order'.current = order.current /\ order'.finished = order.finished
    BY <1>4, StartWrites
  <2> HIDE DEF s
  <2> QED
    BY <1>1, <1>2, <1>3, <2>1 DEF InStep
<1>5. CASE calls[c].kind = "complete"
  <2>1. Finishes(s) \/ \E n \in FulfillmentStage \ AutoStages[factory] : GoesOn(s, n)
    BY <1>5, CompleteWrites
  <2>2. s \in Done(s)
    BY DEF Done
  <2> HIDE DEF s
  <2> QED
    BY <1>1, <1>2, <1>3, <2>1, <2>2 DEF InStep, Open, Finishes, GoesOn
<1>6. CASE calls[c].kind = "back"
  <2>1. /\ order'.finished = order.finished
        /\ \/ /\ order'.current = order.current
              /\ \A u \in FulfillmentStage :
                   order'.status[u] = IF u = s THEN "waiting" ELSE order.status[u]
           \/ \E t \in FulfillmentStage \ AutoStages[factory] :
                /\ Before(t, s) /\ order'.current = t
                /\ \A u \in FulfillmentStage :
                     order'.status[u] = IF u = t THEN "rework"
                                        ELSE IF u = s THEN "waiting" ELSE order.status[u]
    BY <1>6, BackWrites
  <2> HIDE DEF s
  <2> QED
    BY <1>1, <1>2, <1>3, <2>1 DEF InStep, Open
<1> QED
  BY <1>4, <1>5, <1>6 DEF Floor

\* Who writes without anybody noticing that it was not the floor's turn.
LEMMA StillInside ==
  ASSUME BaseInv, FloorInv, [Next]_vars, ~outside'
  PROVE  ~outside /\
         \/ \E c \in Calls : Fresh(c)
         \/ \E c \in Calls : (Conflict(c) \/ Reread(c)) /\ UNCHANGED <<order, worklog>>
         \/ UNCHANGED vars
         \/ \E c \in Calls : Write(c) /\ calls[c].kind \in Quiet
         \/ \E c \in Calls :
              /\ Write(c) /\ calls[c].kind \in Floor /\ InTurn(c)
              /\ calls[c].stage = order.current
<1>1. ASSUME NEW c \in Calls, Call(c) PROVE ~outside /\ Fresh(c)
  BY <1>1, CallIsFresh DEF BaseInv, Fresh
<1>2. ASSUME NEW c \in Calls, Conflict(c) \/ Reread(c) PROVE ~outside /\ UNCHANGED <<order, worklog>>
  BY <1>2 DEF Conflict, Reread
<1>3. ASSUME NEW c \in Calls, Write(c)
      PROVE  ~outside /\ \/ calls[c].kind \in Quiet
                         \/ /\ calls[c].kind \in Floor /\ InTurn(c)
                            /\ calls[c].stage = order.current
  <2>1. ~outside /\ (calls[c].kind \in Quiet \/ (calls[c].kind \in Floor /\ InTurn(c)))
        /\ calls[c].pc = "write"
    BY <1>3 DEF Write
  <2> QED
    BY <2>1 DEF FloorInv, InTurn
<1>4. ASSUME NEW c \in Calls, HealWrite(c) PROVE FALSE
  BY <1>4 DEF HealWrite
<1>5. CASE Boot
  BY <1>5 DEF Boot
<1>6. CASE UNCHANGED vars
  BY <1>6 DEF vars
<1> QED
  BY <1>1, <1>2, <1>3, <1>4, <1>5, <1>6 DEF Next

LEMMA FloorStep == BaseInv /\ FloorInv /\ [Next]_vars => FloorInv'
<1> SUFFICES ASSUME BaseInv, FloorInv, [Next]_vars, ~outside'
             PROVE  /\ InStep'
                    /\ \A c \in Calls :
                         calls'[c].pc = "write" /\ calls'[c].kind \in Floor /\ calls'[c].by = "worker" =>
                           calls'[c].stage = order'.current
  BY DEF FloorInv, InStep
<1> DEFINE Led(c) == calls[c].pc = "write" /\ calls[c].kind \in Floor /\ calls[c].by = "worker"
           OnSpot == \A c \in Calls : Led(c) => calls[c].stage = order.current
<1>1. ~outside /\ InStep /\ OnSpot
  BY StillInside DEF FloorInv, InStep
<1>2. ASSUME NEW c \in Calls, Fresh(c) PROVE InStep' /\ OnSpot'
  <2>1. order' = order /\ \A d \in Calls \ {c} : calls'[d] = calls[d]
    BY <1>2 DEF Fresh
  <2>2. Led(c)' => calls'[c].stage = order.current
    BY <1>2 DEF Fresh
  <2> QED
    BY <1>1, <2>1, <2>2 DEF InStep
<1>3. ASSUME NEW c \in Calls, Conflict(c) \/ Reread(c), UNCHANGED <<order, worklog>>
      PROVE  InStep' /\ OnSpot'
  <2>1. \A d \in Calls \ {c} : calls'[d] = calls[d]
    BY <1>3, Answered
  <2>2. Idle.pc = "idle"
    BY DEF Idle
  <2>3. Led(c)' => calls'[c].stage = order.current
    <3>1. CASE Conflict(c)
      <4>1. calls'[c] = Idle
        BY <3>1, Answered
      <4> QED
        BY <2>2, <4>1
    <3>2. CASE Reread(c)
      <4> DEFINE k == calls[c]
                 n == [k EXCEPT !.pc = "write", !.was = CurrentStatus("print"),
                                !.patch = StartPatch("print"), !.wasFinished = order.finished]
      <4>1. CallOK(factory, k) /\ k.pc = "reread"
        BY <3>2 DEF BaseInv, CallsInv, Reread
      <4>2. k.stage = "print" /\ DOMAIN k = DOMAIN Idle
        BY <4>1 DEF CallOK, HealOK
      <4>3. n.stage = "print" /\ n.by = k.by
        BY <4>2, CallFields
      <4>4. calls'[c] = Idle \/ (calls'[c] = n /\ MayAct(k.by, "print"))
        BY <3>2, Answered
      <4> HIDE DEF n, k
      <4> QED
        BY <2>2, <4>3, <4>4 DEF MayAct
    <3> QED
      BY <1>3, <3>1, <3>2
  <2> QED
    BY <1>1, <1>3, <2>1, <2>3 DEF InStep
<1>4. ASSUME NEW c \in Calls, Write(c) PROVE (\A d \in Calls \ {c} : calls'[d] = calls[d]) /\ ~Led(c)'
  <2>1. calls'[c] = Idle /\ \A d \in Calls \ {c} : calls'[d] = calls[d]
    BY <1>4, Answered
  <2>2. Idle.pc = "idle"
    BY DEF Idle
  <2> QED
    BY <2>1, <2>2
<1>5. ASSUME NEW c \in Calls, Write(c), calls[c].kind \in Quiet PROVE InStep' /\ OnSpot'
  <2>1. /\ order'.current = order.current /\ order'.finished = order.finished
        /\ \A s \in FulfillmentStage : order'.status[s] = order.status[s]
    BY <1>5, QuietWrites
  <2>2. order.current \in FulfillmentStage \cup {NoStage}
    BY OrderType DEF BaseInv
  <2> QED
    BY <1>1, <1>4, <1>5, <2>1, <2>2 DEF InStep
<1>6. ASSUME NEW c \in Calls, Write(c), calls[c].kind \in Floor, InTurn(c),
             calls[c].stage = order.current
      PROVE  InStep' /\ OnSpot'
  <2>1. InStep'
    BY <1>1, <1>6, WorkerInStep
  <2>2. ASSUME NEW d \in Calls \ {c} PROVE ~Led(d)
    BY <1>1, <1>6 DEF InTurn
  <2>3. \A d \in Calls : ~Led(d)'
    BY <1>4, <1>6, <2>2
  <2> QED
    BY <2>1, <2>3
<1>7. ASSUME UNCHANGED vars PROVE InStep' /\ OnSpot'
  BY <1>1, <1>7 DEF vars, InStep
<1>8. InStep' /\ OnSpot'
  <2> HIDE DEF Led, OnSpot
  <2>1. \/ \E c \in Calls : Fresh(c)
        \/ \E c \in Calls : (Conflict(c) \/ Reread(c)) /\ UNCHANGED <<order, worklog>>
        \/ UNCHANGED vars
        \/ \E c \in Calls : Write(c) /\ calls[c].kind \in Quiet
        \/ \E c \in Calls :
             /\ Write(c) /\ calls[c].kind \in Floor /\ InTurn(c)
             /\ calls[c].stage = order.current
    BY StillInside
  <2>2. ASSUME \E c \in Calls : (Conflict(c) \/ Reread(c)) /\ UNCHANGED <<order, worklog>>
        PROVE  InStep' /\ OnSpot'
    <3>1. PICK c \in Calls : (Conflict(c) \/ Reread(c)) /\ UNCHANGED <<order, worklog>>
      BY <2>2
    <3> QED
      BY <1>3, <3>1
  <2>3. ASSUME \E c \in Calls : Fresh(c) PROVE InStep' /\ OnSpot'
    BY <1>2, <2>3
  <2>4. ASSUME \E c \in Calls : Write(c) /\ calls[c].kind \in Quiet PROVE InStep' /\ OnSpot'
    BY <1>5, <2>4
  <2>5. ASSUME \E c \in Calls : /\ Write(c) /\ calls[c].kind \in Floor /\ InTurn(c)
                               /\ calls[c].stage = order.current
        PROVE  InStep' /\ OnSpot'
    BY <1>6, <2>5
  <2> QED
    BY <1>7, <2>1, <2>2, <2>3, <2>4, <2>5
<1> QED
  BY <1>8

\* As long as only the stages' own workers move the order, each waiting for his answers, what
\* is in progress is where the order is, and where it is there is work, whatever is held,
\* released, cancelled, assigned or synchronised in between.
THEOREM InStepAlways == Spec => []FloorInStep
<1>1. Init => BaseInv /\ FloorInv
  BY BaseInit, FloorInit
<1>2. BaseInv /\ FloorInv /\ [Next]_vars => (BaseInv /\ FloorInv)'
  BY BaseStep, FloorStep
<1>3. FloorInv => FloorInStep
  BY DEF FloorInv, FloorInStep
<1> QED
  BY <1>1, <1>2, <1>3, PTL DEF Spec

-----------------------------------------------------------------------------
(* The whole chain is made again *)

\* A new entry of the log is the last completion of its stage if it is one, and of no other.
LEMMA LastOfAppend ==
  ASSUME worklog \in Seq({"start", "complete"} \X FulfillmentStage \X Nat),
         NEW a \in {"start", "complete"}, NEW s \in FulfillmentStage, NEW n \in Nat,
         worklog' = Append(worklog, <<a, s, n>>)
  PROVE  /\ Len(worklog) \in Nat /\ Len(worklog') = Len(worklog) + 1
         /\ a = "complete" => LastDone(s)' = Len(worklog) + 1
         /\ \A t \in FulfillmentStage : a # "complete" \/ t # s => LastDone(t)' = LastDone(t)
<1> DEFINE e == <<a, s, n>>
           N == Len(worklog)
<1>1. /\ DOMAIN worklog = 1 .. N /\ DOMAIN worklog' = 1 .. (N + 1) /\ N \in Nat /\ Len(worklog') = N + 1
      /\ worklog'[N + 1] = e /\ \A i \in 1 .. N : worklog'[i] = worklog[i]
  OBVIOUS
<1>2. e[1] = a /\ e[2] = s
  OBVIOUS
<1> HIDE DEF e, N
<1>3. ASSUME NEW t \in FulfillmentStage, a # "complete" \/ t # s
      PROVE  LastDone(t)' = LastDone(t)
  <2>1. Completions(t)' = Completions(t)
    BY <1>1, <1>2, <1>3 DEF Completions
  <2> QED
    BY <2>1 DEF LastDone
<1>4. ASSUME a = "complete" PROVE LastDone(s)' = N + 1
  <2>1. N + 1 \in Completions(s)'
    BY <1>1, <1>2, <1>4 DEF Completions
  <2>2. \A j \in Completions(s)' : j \in Nat /\ j <= N + 1
    BY <1>1 DEF Completions
  <2>3. \A i \in Completions(s)' : (\A j \in Completions(s)' : j <= i) => i = N + 1
    BY <1>1, <2>1, <2>2
  <2>4. LastDone(s)' = CHOOSE i \in Completions(s)' : \A j \in Completions(s)' : j <= i
    BY <2>1 DEF LastDone
  <2> QED
    BY <2>1, <2>2, <2>3, <2>4
<1> QED
  BY <1>1, <1>3, <1>4 DEF N

LEMMA ChainInit == Init => ChainInv
<1> SUFFICES ASSUME Init PROVE ChainInv
  OBVIOUS
<1>1. worklog = <<>>
  BY DEF Init
<1>2. \A s : LastDone(s) = 0
  BY <1>1 DEF LastDone, Completions
<1> QED
  BY <1>1, <1>2 DEF ChainInv, Redone

LEMMA FactoryStays == BaseInv /\ [Next]_vars => factory' = factory
<1> SUFFICES ASSUME BaseInv, [Next]_vars PROVE factory' = factory
  OBVIOUS
<1>1. ASSUME NEW c \in Calls, Call(c) PROVE factory' = factory
  BY <1>1, CallIsFresh DEF BaseInv, Fresh
<1>2. ASSUME NEW c \in Calls, Write(c) \/ Conflict(c) \/ HealWrite(c) \/ Reread(c)
      PROVE  factory' = factory
  BY <1>2 DEF Write, Conflict, HealWrite, Reread
<1>3. CASE Boot \/ UNCHANGED vars
  BY <1>3 DEF Boot, vars
<1> QED
  BY <1>1, <1>2, <1>3 DEF Next

LEMMA ChainStep == BaseInv /\ LogInv /\ FloorInv /\ ChainInv /\ [Next]_vars => ChainInv'
<1> SUFFICES ASSUME BaseInv, LogInv, FloorInv, ChainInv, [Next]_vars PROVE ChainInv'
  OBVIOUS
<1>1. /\ worklog \in Seq({"start", "complete"} \X FulfillmentStage \X Nat)
      /\ cycle \in [FulfillmentStage -> Nat]
      /\ order.current \in FulfillmentStage \cup {NoStage} /\ NoStage \notin FulfillmentStage
      /\ factory \in Factory
  BY OrderType, FulfillmentAssumption DEF BaseInv, LogInv, TypeOK
<1>2. \A s \in FulfillmentStage : LastDone(s)' \in 0 .. Len(worklog')
  <2>1. \A s \in FulfillmentStage : LastDone(s) \in 0 .. Len(worklog)
    BY DEF ChainInv
  <2>2. CASE worklog' = worklog
    BY <2>1, <2>2 DEF LastDone, Completions
  <2>3. ASSUME NEW s \in FulfillmentStage, NEW a \in {"start", "complete"},
               worklog' = Append(worklog, <<a, s, cycle[s]>>)
        PROVE  \A t \in FulfillmentStage : LastDone(t)' \in 0 .. Len(worklog')
    <3>1. cycle[s] \in Nat
      BY <1>1
    <3>2. /\ Len(worklog) \in Nat /\ Len(worklog') = Len(worklog) + 1
          /\ a = "complete" => LastDone(s)' = Len(worklog) + 1
          /\ \A t \in FulfillmentStage : a # "complete" \/ t # s => LastDone(t)' = LastDone(t)
      BY <1>1, <2>3, <3>1, LastOfAppend
    <3> QED
      BY <2>1, <3>2
  <2> QED
    BY <2>2, <2>3, Logged
<1>3. SUFFICES ASSUME ~outside', NEW u \in FulfillmentStage \ AutoStages[factory],
                      NEW t \in FulfillmentStage \ AutoStages[factory], Before(u, t), IsBehind(t)'
               PROVE  Redone(u, t)'
  BY <1>2, FactoryStays DEF ChainInv
<1>4. ~outside /\ InStep
  BY <1>3, StillInside DEF FloorInv, InStep
<1>5. IsBehind(t) => Redone(u, t)
  BY <1>3, <1>4 DEF ChainInv
<1>6. ASSUME worklog' = worklog, IsBehind(t)' => IsBehind(t) PROVE Redone(u, t)'
  BY <1>3, <1>5, <1>6 DEF Redone, LastDone, Completions
<1>7. ASSUME NEW c \in Calls, Fresh(c) PROVE Redone(u, t)'
  BY <1>6, <1>7 DEF Fresh, IsBehind
<1>8. ASSUME NEW c \in Calls, UNCHANGED <<order, worklog>> PROVE Redone(u, t)'
  BY <1>6, <1>8 DEF IsBehind
<1>9. ASSUME NEW c \in Calls, Write(c), calls[c].kind \in Quiet PROVE Redone(u, t)'
  <2>1. order'.current = order.current /\ order'.finished = order.finished
    BY <1>9, QuietWrites
  <2>2. worklog' = worklog
    BY <1>9 DEF Write, Quiet
  <2> QED
    BY <1>6, <2>1, <2>2 DEF IsBehind
<1>10. ASSUME NEW c \in Calls, Write(c), calls[c].kind \in Floor, calls[c].stage = order.current
       PROVE  Redone(u, t)'
  <2> PICK s \in FulfillmentStage : s = calls[c].stage
    BY <1>10, FloorWrite
  <2>0. s = order.current /\ order.finished = FALSE
    <3>1. s = order.current /\ order.finished \in BOOLEAN
      BY <1>10, OrderType DEF BaseInv
    <3> QED
      BY <1>1, <1>4, <3>1 DEF InStep
  <2>1. CASE calls[c].kind = "start"
    <3>1. worklog' = Append(worklog, <<"start", s, cycle[s]>>) /\ cycle[s] \in Nat
      BY <1>1, <1>10, <2>0, <2>1 DEF Write
    <3>2. \A v \in FulfillmentStage : LastDone(v)' = LastDone(v)
      BY <1>1, <2>0, <3>1, LastOfAppend
    <3>3. order'.current = order.current /\ order'.finished = order.finished
      BY <1>10, <2>1, StartWrites
    <3> QED
      BY <1>3, <1>5, <3>2, <3>3 DEF IsBehind, Redone
  <2>2. CASE calls[c].kind = "complete"
    <3>1. worklog' = Append(worklog, <<"complete", s, cycle[s]>>) /\ cycle[s] \in Nat
      BY <1>1, <1>10, <2>0, <2>2 DEF Write
    <3>2. /\ Len(worklog) \in Nat /\ LastDone(s)' = Len(worklog) + 1
          /\ \A v \in FulfillmentStage : v # s => LastDone(v)' = LastDone(v)
      BY <1>1, <2>0, <3>1, LastOfAppend
    <3>3. Finishes(s) \/ \E n \in FulfillmentStage \ AutoStages[factory] : GoesOn(s, n)
      BY <1>10, <2>2, CompleteWrites
    <3>4. ~Before(s, t)
      <4>1. t \notin Done(s) \/ t = s
        BY <1>1, <1>3, <2>0, WhereItGoesOn DEF Done
      <4>2. CASE Finishes(s)
        BY <1>3, <2>0, <4>1, <4>2, BeforeOrder DEF Finishes
      <4>3. ASSUME NEW n \in FulfillmentStage, GoesOn(s, n) PROVE ~Before(s, t)
        <5>1. order'.current = n /\ order'.finished = FALSE
          BY <2>0, <4>3 DEF GoesOn
        <5>2. Before(t, n)
          BY <1>3, <5>1 DEF IsBehind
        <5> QED
          BY <1>3, <2>0, <4>1, <4>3, <5>2, BeforeOrder DEF GoesOn
      <4> QED
        BY <3>3, <4>2, <4>3
    <3>5. CASE t = s
      <4>1. u # s
        BY <1>3, <3>5, BeforeOrder
      <4>2. LastDone(u)' \in 0 .. Len(worklog)
        BY <3>2, <4>1 DEF ChainInv
      <4> QED
        BY <3>2, <3>5, <4>2 DEF Redone
    <3>6. CASE Before(t, s)
      <4>1. t # s /\ u # s
        BY <1>3, <2>0, <3>6, BeforeOrder
      <4>2. IsBehind(t)
        BY <1>1, <2>0, <3>6 DEF IsBehind
      <4> QED
        BY <1>5, <3>2, <4>1, <4>2 DEF Redone
    <3> QED
      BY <2>0, <3>4, <3>5, <3>6, BeforeOrder
  <2>3. CASE calls[c].kind = "back"
    <3>1. /\ order'.finished = order.finished
          /\ \/ order'.current = order.current
             \/ \E v \in FulfillmentStage : Before(v, s) /\ order'.current = v
      BY <1>10, <2>3, BackWrites
    <3>2. worklog' = worklog
      BY <1>10, <2>3 DEF Write
    <3>3. IsBehind(t)
      BY <1>1, <1>3, <2>0, <3>1, BeforeOrder DEF IsBehind
    <3> QED
      BY <1>6, <3>2, <3>3
  <2> QED
    BY <1>10, <2>1, <2>2, <2>3 DEF Floor
<1>11. CASE UNCHANGED vars
  BY <1>6, <1>11 DEF vars, IsBehind
<1> QED
  BY <1>3, <1>7, <1>8, <1>9, <1>10, <1>11, StillInside

\* What is sent back is made again, and the whole chain behind it: when the stages' own
\* workers have finished an order, each was last completed after those before it.
THEOREM ChainIsRedone == Spec => []WholeChainIsRedone
<1> DEFINE I == BaseInv /\ LogInv /\ FloorInv /\ ChainInv
<1>1. Init => I
  BY BaseInit, LogInit, FloorInit, ChainInit
<1>2. I /\ [Next]_vars => I'
  BY BaseStep, LogStep, FloorStep, ChainStep
<1>3. I => WholeChainIsRedone
  BY DEF ChainInv, WholeChainIsRedone, IsBehind, Redone
<1> QED
  BY <1>1, <1>2, <1>3, PTL DEF Spec

-----------------------------------------------------------------------------
(* A finished order is made, and its customer told *)

LEMMA MadeInit == Init => MadeInv
<1> SUFFICES ASSUME Init PROVE MadeInv
  OBVIOUS
<1>1. SoundOrder(factory, order)
  BY InitialOrdersAssumption DEF Init
<1>2. \A c \in Calls : calls[c].pc = "idle"
  BY IdleIsOK DEF Init, Idle
<1>3. order.finished => told > 0
  BY DEF Init
<1> QED
  BY <1>1, <1>2, <1>3 DEF MadeInv, SoundOrder, Reached, AllPassed, Knows

\* What a write keeps passed, and whom it tells.
LEMMA WriteKeeps ==
  ASSUME BaseInv, NEW c \in Calls, Write(c), calls[c].kind \notin Rewriters, Reached,
         order.finished => AllPassed, Knows(c)
  PROVE  /\ Reached' /\ (order'.finished => AllPassed')
         /\ \A s \in FulfillmentStage : order.passed[s] => order'.passed[s]
         /\ ~order'.finished \/ order'.finished = order.finished \/ calls[c].kind \in {"complete", "force"}
<1> DEFINE k == calls[c]
<1>0. factory \in Factory /\ \A s \in FulfillmentStage : order.passed[s] \in BOOLEAN
  BY OrderType DEF BaseInv
<1>1. k.pc = "write" /\ k.kind \in Floor \cup Quiet \cup {"force"}
  BY DEF BaseInv, CallsInv, CallOK, Write
<1>2. CASE k.kind \in Quiet
  BY <1>2, QuietWrites DEF Reached, AllPassed
<1>3. CASE k.kind = "force"
  <2> DEFINE D == DOMAIN k.patch["passed"]
  <2>1. \A s \in FulfillmentStage : order'.passed[s] = (order.passed[s] \/ s \in D)
    BY <1>3, ForceWrites
  <2>2. \A s \in FulfillmentStage : order.passed[s] \/ s \in D
    BY <1>1, <1>3 DEF Knows
  <2> QED
    BY <1>3, <2>1, <2>2 DEF Reached, AllPassed
<1>4. CASE k.kind = "start"
  <2> PICK s \in FulfillmentStage : s = k.stage
    BY <1>4, FloorWrite DEF Floor
  <2>1. /\ order.status[s] \in Open
        /\ \A t \in FulfillmentStage \ {s} : order'.status[t] = order.status[t]
        /\ \A t \in FulfillmentStage : order'.passed[t] = order.passed[t]
        /\ order'.finished = order.finished
    BY <1>4, StartWrites
  <2>2. \A t \in FulfillmentStage : order'.status[t] # "absent" => order.status[t] # "absent"
    BY <2>1 DEF Open
  <2> QED
    BY <2>1, <2>2 DEF Reached, AllPassed
<1>5. CASE k.kind = "back"
  <2> PICK s \in FulfillmentStage : s = k.stage
    BY <1>5, FloorWrite DEF Floor
  <2>1. /\ order.status[s] # "absent"
        /\ \A t \in FulfillmentStage : order'.passed[t] = order.passed[t]
        /\ order'.finished = order.finished
    BY <1>5, BackWrites DEF Open
  <2>2. \/ \A u \in FulfillmentStage \ {s} : order'.status[u] = order.status[u]
        \/ \E t \in FulfillmentStage : /\ Before(t, s)
             /\ \A u \in FulfillmentStage \ {s, t} : order'.status[u] = order.status[u]
    BY <1>5, BackWrites
  <2>3. ASSUME NEW u \in FulfillmentStage, NEW t \in FulfillmentStage, Before(u, t),
               order'.status[t] # "absent"
        PROVE  order.passed[u]
    <3>1. order.status[t] # "absent" \/ Before(t, s)
      BY <2>1, <2>2, <2>3
    <3>2. Before(t, s) => Before(u, s)
      BY <2>3, BeforeOrder
    <3> QED
      BY <2>1, <2>3, <3>1, <3>2 DEF Reached
  <2> QED
    BY <2>1, <2>3 DEF Reached, AllPassed
<1>6. CASE k.kind = "complete"
  <2> PICK s \in FulfillmentStage : s = k.stage
    BY <1>6, FloorWrite DEF Floor
  <2>1. /\ order.status[s] = "in-progress"
        /\ \A t \in FulfillmentStage : order'.passed[t] = (order.passed[t] \/ t \in Done(s))
        /\ Finishes(s) \/ \E n \in FulfillmentStage : GoesOn(s, n)
    BY <1>6, CompleteWrites
  <2>2. s \in Done(s) /\ \A t \in Done(s) : t = s \/ Before(s, t)
    BY <1>0, WhereItGoesOn DEF Done
  <2>3. \A u \in FulfillmentStage : Before(u, s) => order.passed[u]
    BY <2>1 DEF Reached
  <2>4. ASSUME NEW u \in FulfillmentStage, NEW t \in Done(s), t \in FulfillmentStage, Before(u, t)
        PROVE  order'.passed[u]
    <3>1. u = s \/ Before(u, s) \/ (Before(s, u) /\ t # s)
      BY <2>2, <2>4, BeforeOrder
    <3>2. t # s => t \in AutoRun[factory][s]
      BY <2>4 DEF Done
    <3>3. Before(s, u) /\ t # s => u \in Done(s)
      BY <1>0, <2>4, <3>2, WhereItGoesOn DEF Done
    <3> QED
      BY <2>1, <2>2, <2>3, <3>1, <3>3
  <2>5. CASE Finishes(s)
    <3>1. \A u \in FulfillmentStage : order'.passed[u]
      BY <2>1, <2>2, <2>3, <2>5, BeforeOrder DEF Finishes
    <3> QED
      BY <1>0, <1>6, <2>1, <3>1 DEF Reached, AllPassed
  <2>6. ASSUME NEW n \in FulfillmentStage, GoesOn(s, n)
        PROVE  Reached' /\ order'.finished = order.finished
    <3>1. /\ Before(s, n) /\ order'.finished = order.finished
          /\ \A u \in FulfillmentStage : Before(s, u) /\ Before(u, n) => u \in Done(s)
          /\ \A t \in FulfillmentStage : t = n \/ t \in Done(s) \/ order'.status[t] = order.status[t]
      BY <2>6 DEF GoesOn
    <3>2. ASSUME NEW u \in FulfillmentStage, NEW t \in FulfillmentStage, Before(u, t),
                 order'.status[t] # "absent"
          PROVE  order'.passed[u]
      <4>1. CASE t = n
        <5>1. u = s \/ Before(u, s) \/ u \in Done(s)
          BY <3>1, <3>2, <4>1, BeforeOrder
        <5> QED
          BY <2>1, <2>2, <2>3, <5>1
      <4>2. CASE t \in Done(s)
        BY <2>4, <3>2, <4>2
      <4>3. CASE order'.status[t] = order.status[t]
        BY <2>1, <3>2, <4>3 DEF Reached
      <4> QED
        BY <3>1, <4>1, <4>2, <4>3
    <3> QED
      BY <3>1, <3>2 DEF Reached
  <2> QED
    BY <1>0, <1>6, <2>1, <2>5, <2>6 DEF AllPassed
<1> QED
  BY <1>1, <1>2, <1>3, <1>4, <1>5, <1>6 DEF Floor

\* Nobody is told less, and who finishes an order has told of it, or saw it finished.
LEMMA WriteTells ==
  ASSUME BaseInv, NEW c \in Calls, Write(c), Knows(c)
  PROVE  /\ told > 0 => told' > 0
         /\ calls[c].kind \in {"complete", "force"} /\ order'.finished => told' > 0
<1>1. told \in Nat /\ calls[c].wasFinished \in BOOLEAN /\ calls[c].pc = "write"
  BY DEF BaseInv, TypeOK, CallsInv, CallOK, Write
<1>2. told' = IF Announces(calls[c]) THEN told + 1 ELSE told
  BY DEF Write
<1> QED
  BY <1>1, <1>2 DEF Announces, Floor, Knows

LEMMA MadeStep == BaseInv /\ MadeInv /\ [Next]_vars => MadeInv'
<1> SUFFICES ASSUME BaseInv, MadeInv, [Next]_vars, ~disturbed'
             PROVE  /\ Reached' /\ (order'.finished => AllPassed' /\ told' > 0)
                    /\ \A c \in Calls : Knows(c)'
  BY DEF MadeInv
<1>0. ~disturbed
  <2>1. ASSUME NEW c \in Calls, Call(c) PROVE disturbed' = disturbed
    BY <2>1, CallIsFresh DEF BaseInv, Fresh
  <2>2. ASSUME NEW c \in Calls, Write(c) \/ Conflict(c) \/ HealWrite(c) \/ Reread(c)
        PROVE  disturbed => disturbed'
    BY <2>2 DEF Write, Conflict, HealWrite, Reread
  <2>3. CASE Boot \/ UNCHANGED vars
    BY <2>3 DEF Boot, vars
  <2> QED
    BY <2>1, <2>2, <2>3 DEF Next
<1>1. Reached /\ (order.finished => AllPassed /\ told > 0) /\ \A c \in Calls : Knows(c)
  BY <1>0 DEF MadeInv
<1>2. ASSUME UNCHANGED <<order, told>>
      PROVE  /\ Reached' /\ (order'.finished => AllPassed' /\ told' > 0)
             /\ \A d \in Calls : calls'[d] = calls[d] => Knows(d)'
  BY <1>1, <1>2 DEF Reached, AllPassed, Knows
<1>3. ASSUME NEW c \in Calls, calls'[c] = Idle PROVE Knows(c)'
  <2>1. Idle.pc = "idle"
    BY DEF Idle
  <2> QED
    BY <1>3, <2>1 DEF Knows
<1>4. ASSUME NEW c \in Calls, Call(c) PROVE \A d \in Calls : Knows(d)'
  <2>1. Fresh(c)
    BY <1>4, CallIsFresh DEF BaseInv
  <2>2. Knows(c)'
    BY <1>1, <2>1 DEF Fresh, Knows
  <2> QED
    BY <1>2, <2>1, <2>2 DEF Fresh
<1>5. ASSUME NEW c \in Calls, Conflict(c) \/ Reread(c) PROVE \A d \in Calls : Knows(d)'
  <2>1. \A d \in Calls \ {c} : calls'[d] = calls[d]
    BY <1>5, Answered
  <2>2. UNCHANGED <<order, told>>
    BY <1>5 DEF Conflict, Reread
  <2>3. Knows(c)'
    <3> DEFINE k == calls[c]
               n == [k EXCEPT !.pc = "write", !.was = CurrentStatus("print"),
                              !.patch = StartPatch("print"), !.wasFinished = order.finished]
    <3>1. calls'[c] = Idle \/ (calls'[c] = n /\ Reread(c))
      BY <1>5, Answered
    <3>2. ASSUME calls'[c] = n, Reread(c) PROVE Knows(c)'
      <4>1. CallOK(factory, k) /\ k.pc = "reread"
        BY <3>2 DEF BaseInv, CallsInv, Reread
      <4>2. k.kind = "start" /\ DOMAIN k = DOMAIN Idle
        BY <4>1 DEF CallOK, HealOK
      <4>3. n.kind = "start" /\ n.wasFinished = order.finished
        BY <4>2, CallFields
      <4> HIDE DEF n
      <4> QED
        BY <1>1, <2>2, <3>2, <4>3 DEF Knows
    <3> QED
      BY <1>3, <3>1, <3>2
  <2> QED
    BY <1>2, <2>1, <2>2, <2>3
<1>6. ASSUME NEW c \in Calls, Write(c)
      PROVE  /\ Reached' /\ (order'.finished => AllPassed' /\ told' > 0)
             /\ \A d \in Calls : Knows(d)'
  <2>1. calls[c].kind \notin Rewriters
    BY <1>6 DEF Write
  <2>2. /\ Reached' /\ (order'.finished => AllPassed')
        /\ \A s \in FulfillmentStage : order.passed[s] => order'.passed[s]
        /\ ~order'.finished \/ order'.finished = order.finished \/ calls[c].kind \in {"complete", "force"}
    BY <1>1, <1>6, <2>1, WriteKeeps
  <2>3. /\ told > 0 => told' > 0
        /\ calls[c].kind \in {"complete", "force"} /\ order'.finished => told' > 0
    BY <1>1, <1>6, WriteTells
  <2>4. calls'[c] = Idle /\ \A d \in Calls \ {c} : calls'[d] = calls[d]
    BY <1>6, Answered
  <2>5. \A d \in Calls \ {c} : Knows(d)'
    BY <1>1, <2>2, <2>3, <2>4 DEF Knows
  <2> QED
    BY <1>1, <1>3, <2>2, <2>3, <2>4, <2>5
<1>7. ASSUME NEW c \in Calls, HealWrite(c)
      PROVE  /\ Reached' /\ (order'.finished => AllPassed' /\ told' > 0)
             /\ \A d \in Calls : Knows(d)'
  <2>1. /\ order'.finished = order.finished /\ told' = told
        /\ \A s \in FulfillmentStage :
             (order'.status[s] = order.status[s] \/ s = "print") /\ order'.passed[s] = order.passed[s]
    BY <1>7, HealWrites DEF HealWrite
  <2>2. Reached'
    BY <1>1, <2>1, BeforeOrder DEF Reached
  <2>3. /\ calls'[c] = [calls[c] EXCEPT !.pc = "reread"]
        /\ \A d \in Calls \ {c} : calls'[d] = calls[d]
    BY <1>7, Answered
  <2>4. Knows(c)'
    <3> DEFINE n == [calls[c] EXCEPT !.pc = "reread"]
    <3>1. DOMAIN calls[c] = DOMAIN Idle /\ calls[c].pc = "heal"
      BY <1>7 DEF BaseInv, CallsInv, CallOK, HealWrite
    <3>2. n.pc = "reread" /\ n.wasFinished = calls[c].wasFinished
      BY <3>1, CallFields
    <3> HIDE DEF n
    <3> QED
      BY <1>1, <2>1, <2>3, <3>1, <3>2 DEF Knows, n
  <2>5. \A d \in Calls \ {c} : Knows(d)'
    BY <1>1, <2>1, <2>3 DEF Knows
  <2> QED
    BY <1>1, <2>1, <2>2, <2>4, <2>5 DEF AllPassed
<1>8. CASE UNCHANGED vars
  BY <1>1, <1>8 DEF vars, Reached, AllPassed, Knows
<1>9. ~Boot
  BY DEF Boot
<1>10. ASSUME NEW c \in Calls, Call(c) \/ Conflict(c) \/ Reread(c) PROVE UNCHANGED <<order, told>>
  BY <1>10, CallIsFresh DEF BaseInv, Fresh, Conflict, Reread
<1> QED
  BY <1>2, <1>4, <1>5, <1>6, <1>7, <1>8, <1>9, <1>10 DEF Next

\* A finished order has passed every stage, and its customer has been told: also when
\* managers step in out of turn, or it is completed by hand while the floor works on it.
THEOREM MadeAndTold == Spec => []FinishedIsMade
<1>1. Init => BaseInv /\ MadeInv
  BY BaseInit, MadeInit
<1>2. BaseInv /\ MadeInv /\ [Next]_vars => (BaseInv /\ MadeInv)'
  BY BaseStep, MadeStep
<1>3. MadeInv => FinishedIsMade
  BY DEF MadeInv, FinishedIsMade, AllPassed
<1> QED
  BY <1>1, <1>2, <1>3, PTL DEF Spec
=============================================================================
