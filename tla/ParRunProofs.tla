---------------------------- MODULE ParRunProofs ----------------------------
(***************************************************************************)
(* The parallel engine, for any collection, options and network, however   *)
(* its goroutines are scheduled: what the levels, the requests and the     *)
(* variables know of each other, and from it the properties of ParRun.     *)
(***************************************************************************)
EXTENDS ParRun, RequestRunProofs

GP == INSTANCE DepGraphProofs WITH Collections <- CollectionType

Types ==
    /\ coll \in CollectionType
    /\ RequestTypeOK
    /\ phase \in {"prepare", "plan", "levels", "level", "copy", "saving", "stopped"}
    /\ lvl \in Nat \ {0}
    /\ gctx \in ContextStates
    /\ groupErr \in BOOLEAN
    /\ env \in Environment
    /\ levelEnv \in Environment
    /\ results \in [Requests -> Result]

(* The plan the engine follows is the graph's. *)
PlanFollowed ==
    /\ GP!TypeOK /\ GP!PlannedOnce /\ GP!AvailableExplained /\ GP!SourceInEarlierLevel
    /\ phase = "prepare" => GP!GraphInit
    /\ phase \in {"levels", "level"} => remaining = {}

(* Where the loop over the levels is: the levels below are recorded, those *)
(* above untouched.                                                        *)
LevelPosition ==
    /\ phase = "level" => lvl \in DOMAIN levels
    /\ phase \in {"prepare", "plan"} => lvl = 1
    /\ \A r \in Requests : Begun(r) =>
        \E i \in DOMAIN levels : /\ r \in levels[i] /\ i <= lvl
                                 /\ phase = "levels" => i < lvl
                                 /\ phase \notin {"prepare", "plan"}
    /\ \A i \in DOMAIN levels : i < lvl => \A r \in levels[i] : At(r, "recorded")

(* What each request and its slot say of each other. *)
SlotsFilled ==
    \A r \in Requests :
        /\ Tried(r)
        /\ At(r, "recorded") => results[r].name = r \/ opts.retries < 0
        /\ ~At(r, "recorded") => results[r] = ZeroResult
        /\ results[r].extracted \subseteq Produced(coll, r)

(* With --fail-fast a failed slot is one of the level at hand, whose group *)
(* has its error.                                                          *)
FailureClosesLevel ==
    opts.failFast => \A p \in Requests : Failed(results[p]) =>
        /\ groupErr /\ lvl \in DOMAIN levels /\ p \in levels[lvl]
        /\ phase \notin {"prepare", "plan", "levels"}

(* The value of v that the levels before level i leave. *)
LatestBelow(value, v, i) ==
    \/ /\ \A j \in DOMAIN levels : j < i => \A p \in levels[j] : v \notin results[p].extracted
       /\ value = SeedVars(coll)[v]
    \/ \E j \in DOMAIN levels :
        /\ j < i /\ value \in levels[j] /\ v \in results[value].extracted
        /\ \A k \in DOMAIN levels : k < i => \A q \in levels[k] :
            v \in results[q].extracted => k < j \/ (k = j /\ q <= value)

ValuesBelow ==
    /\ \A v \in VarNames : LatestBelow(env[v], v, lvl)
    /\ phase = "level" => levelEnv = env
    /\ \A i \in DOMAIN levels : \A r \in levels[i] :
        sends[r] > 0 => \A v \in VarNames : LatestBelow(saw[r][v], v, i)

(* Why a group ends: without --fail-fast only with the context of the run, *)
(* and nothing is canceled before.                                         *)
GroupExplained ==
    /\ \A r \in Requests : At(r, "recorded") \/ CanceledBy(r, gctx)
    /\ \A r \in Requests : At(r, "delayStopped") => gctx # "live"
    /\ ~opts.failFast =>
        /\ gctx # "live" \/ groupErr => ctx # "live"
        /\ \A r \in Requests : results[r].error = "canceled" => ctx # "live"

Filled == {r \in Requests : InReport(results[r])}

Finished == \A r \in coll.kept : At(r, "recorded")

(* What is behind the report: no goroutine is left once the levels are,    *)
(* and all requests are done unless something stopped the run.             *)
ReturnExplained ==
    /\ outcome \in {"running", "error", "interrupted", "done", "saved", "saveError"}
    /\ phase # "stopped" <=> outcome = "running"
    /\ phase \notin {"saving", "stopped"} => report = {}
    /\ report \subseteq Filled
    /\ phase \in {"copy", "saving", "stopped"} => \A r \in Requests : Begun(r) => At(r, "recorded")
    /\ phase = "copy" /\ ~opts.failFast /\ ctx = "live" => Finished
    /\ phase = "saving" \/ outcome \in {"done", "saved", "saveError"} =>
        /\ report = Filled
        /\ ~opts.failFast => Finished /\ \A r \in Requests : results[r].error # "canceled"

IInv ==
    /\ Types
    /\ PlanFollowed
    /\ LevelPosition
    /\ SlotsFilled
    /\ FailureClosesLevel
    /\ ValuesBelow
    /\ GroupExplained
    /\ ReturnExplained

-----------------------------------------------------------------------------
(* The plan. *)

(* What the engine needs to know of its levels.                            *)
LEMMA PlanFacts ==
    ASSUME coll \in CollectionType, GP!TypeOK, GP!PlannedOnce, GP!SourceInEarlierLevel
    PROVE  /\ levels \in Seq(SUBSET coll.kept) /\ remaining \subseteq coll.kept
           /\ Len(levels) \in Nat /\ DOMAIN levels = 1..Len(levels)
           /\ \A i \in DOMAIN levels : levels[i] \subseteq Requests
           /\ \A i, j \in DOMAIN levels : \A r \in levels[i] : r \in levels[j] => i = j
           /\ remaining = {} => \A r \in coll.kept : \E i \in DOMAIN levels : r \in levels[i]
           /\ \A i \in DOMAIN levels : \A r \in levels[i], p \in coll.kept :
                p < r /\ Needs(coll, r, p) => \E j \in 1..(i - 1) : p \in levels[j]
<1>1. levels \in Seq(SUBSET coll.kept) /\ remaining \subseteq coll.kept /\ coll.kept \subseteq Requests
  BY DEF GP!TypeOK, CollectionType
<1>2. Len(levels) \in Nat /\ DOMAIN levels = 1..Len(levels)
  BY <1>1
<1>3. \A i \in DOMAIN levels : levels[i] \subseteq Requests
  BY <1>1
<1>4. \A i, j \in DOMAIN levels : \A r \in levels[i] : r \in levels[j] => i = j
  BY DEF GP!PlannedOnce
<1>5. remaining = {} => \A r \in coll.kept : \E i \in DOMAIN levels : r \in levels[i]
  BY DEF GP!PlannedOnce, GP!Planned
<1>6. \A i \in DOMAIN levels : \A r \in levels[i], p \in coll.kept :
        p < r /\ Needs(coll, r, p) => \E j \in 1..(i - 1) : p \in levels[j]
  BY DEF GP!SourceInEarlierLevel, GP!Needs, Needs, GP!OnlySource, OnlySource, GP!Consumed, Consumed,
     GP!Produced, Produced
<1> QED
  BY <1>1, <1>2, <1>3, <1>4, <1>5, <1>6

(* The levels under construction, at their first and at every next turn.   *)
LEMMA PlanStarts ==
    ASSUME coll \in CollectionType, GP!GraphInit
    PROVE  GP!TypeOK /\ GP!PlannedOnce /\ GP!AvailableExplained /\ GP!SourceInEarlierLevel
BY NAssumption, GP!GraphStarts DEF GP!CollectionType, CollectionType, GP!Requests, Requests

LEMMA PlanTurns ==
    ASSUME GP!TypeOK, GP!PlannedOnce, GP!AvailableExplained, GP!SourceInEarlierLevel, Graph!GraphNext
    PROVE  (GP!TypeOK /\ GP!PlannedOnce /\ GP!AvailableExplained /\ GP!SourceInEarlierLevel)'
<1>1. GP!GraphNext
  <2>1. /\ Graph!Ready = GP!Ready
        /\ \A r : Graph!Produced(coll, r) = GP!Produced(coll, r) /\ (Graph!IsFirst(r) <=> GP!IsFirst(r))
    BY DEF Graph!Ready, GP!Ready, Graph!Satisfied, GP!Satisfied, Graph!Consumed, GP!Consumed,
           Graph!Produced, GP!Produced, Graph!IsFirst, GP!IsFirst
  <2>2. CASE Graph!AddLevel
    BY <2>1, <2>2 DEF Graph!AddLevel, GP!AddLevel, GP!GraphNext
  <2>3. CASE Graph!SerializeNext
    BY <2>1, <2>3 DEF Graph!SerializeNext, GP!SerializeNext, GP!GraphNext
  <2> QED
    BY <2>2, <2>3 DEF Graph!GraphNext
<1> QED
  BY <1>1, NAssumption, GP!GraphTurns DEF GP!CollectionType, CollectionType, GP!Requests, Requests

-----------------------------------------------------------------------------
(* The steps, told by what they do to the state of the loop over levels.   *)

planVars == <<available, remaining, levels>>

(* The ways out of the loop, and of the run. *)
StopsEarly ==
    /\ phase' = "stopped" /\ report' = report
    /\ \/ phase = "prepare" /\ outcome' = "error"
       \/ phase = "levels" /\ lvl <= Len(levels) /\ outcome' = "interrupted"

LeavesLevels ==
    /\ phase' = "copy" /\ UNCHANGED <<report, outcome>>
    /\ \/ phase = "levels" /\ lvl > Len(levels)
       \/ phase = "level" /\ groupErr /\ AllReturned

Copies ==
    /\ phase = "copy" /\ report' = Filled
    /\ \/ ctx # "live" /\ phase' = "stopped" /\ outcome' = "interrupted"
       \/ ctx = "live" /\ phase' = "stopped" /\ outcome' = "done"
       \/ ctx = "live" /\ phase' = "saving" /\ outcome' = outcome

Saves ==
    /\ phase = "saving" /\ phase' = "stopped" /\ report' = report
    /\ outcome' \in {"saved", "saveError"}

Goes == UNCHANGED <<phase, report, outcome>> \/ StopsEarly \/ LeavesLevels \/ Copies \/ Saves

(* Nothing but the contexts moves, or the run is on its way out. *)
QuietStep ==
    /\ UNCHANGED <<coll, opts, work, saw, sends, planVars, lvl, groupErr, env, levelEnv, results>>
    /\ ctx' \in ContextStates /\ gctx' \in ContextStates
    /\ ctx # "live" => ctx' # "live"
    /\ gctx # "live" => gctx' # "live"
    /\ gctx' # "live" => gctx # "live" \/ ctx' # "live"
    /\ \/ phase' = phase
       \/ phase # "plan" /\ phase' \in {"copy", "saving", "stopped"}
    /\ Goes

StartsLevel ==
    /\ UNCHANGED <<coll, opts, ctx, work, saw, sends, planVars, lvl, env, results, endVars>>
    /\ phase = "levels" /\ phase' = "level" /\ lvl <= Len(levels)
    /\ levelEnv' = env /\ gctx' \in ContextStates /\ gctx' = ctx /\ groupErr' = FALSE

EndsLevel ==
    /\ UNCHANGED <<coll, opts, ctx, gctx, work, saw, sends, planVars, groupErr, levelEnv, results, endVars>>
    /\ phase = "level" /\ phase' = "levels" /\ ~groupErr /\ AllReturned
    /\ lvl' = lvl + 1 /\ env' = Merged

(* Request r of the level at hand fills its slot with rr. *)
Fills(r, rr) ==
    /\ UNCHANGED <<coll, opts, ctx, planVars, phase, lvl, env, levelEnv, endVars>>
    /\ phase = "level" /\ r \in levels[lvl] /\ ~At(r, "recorded")
    /\ gctx' \in ContextStates /\ groupErr' \in BOOLEAN /\ (groupErr => groupErr')
    /\ opts.failFast /\ Failed(rr) => groupErr'
    /\ gctx' # gctx \/ groupErr' # groupErr => opts.failFast \/ At(r, "delayStopped")
    /\ gctx # "live" => gctx' # "live"
    /\ rr.error \in {work[r].rr.error, work[r].runErr}
    /\ results' = [results EXCEPT ![r] = rr]
    /\ Recorded(r)
    /\ rr \in Result
    /\ rr.name = r \/ opts.retries < 0
    /\ rr.extracted \subseteq Produced(coll, r)

(* Request r of the level at hand makes a step of its own. *)
Works(r) ==
    /\ UNCHANGED <<coll, opts, ctx, gctx, planVars, phase, lvl, groupErr, env, levelEnv, results, endVars>>
    /\ phase = "level" /\ r \in levels[lvl]
    /\ StartRequest(r) \/ RequestStep(r, gctx, levelEnv)

LEMMA QuietSteps ==
    ASSUME Types, \/ PrepareFails \/ LoopSeesContextDone \/ LevelsExhausted
                  \/ CopyResults \/ SaveRun \/ ContextEnds \/ UNCHANGED vars
    PROVE  QuietStep
<1> USE DEF Types, RequestTypeOK, ContextStates, QuietStep, planVars, graphVars, Stop, fixed,
            requestVars, levelVars, endVars
<1>1. CASE PrepareFails
  BY <1>1 DEF PrepareFails, Goes, StopsEarly
<1>2. CASE LoopSeesContextDone
  BY <1>2 DEF LoopSeesContextDone, Goes, StopsEarly
<1>3. CASE LevelsExhausted
  BY <1>3 DEF LevelsExhausted, Goes, LeavesLevels
<1>4. CASE CopyResults
  <2>1. Copies
    BY <1>4 DEF CopyResults, Copies, Filled
  <2> QED
    BY <1>4, <2>1 DEF CopyResults, Goes
<1>5. CASE SaveRun
  BY <1>5 DEF SaveRun, Goes, Saves
<1>6. CASE ContextEnds
  BY <1>6 DEF ContextEnds, UserCancels, DeadlinePasses, Goes
<1>7. CASE UNCHANGED vars
  BY <1>7 DEF vars, Goes
<1> QED
  BY <1>1, <1>2, <1>3, <1>4, <1>5, <1>6, <1>7

LEMMA LevelSteps ==
    ASSUME Types, StartLevel \/ EndLevel
    PROVE  QuietStep \/ StartsLevel \/ EndsLevel
<1> USE DEF Types, RequestTypeOK, ContextStates, planVars, graphVars, fixed, requestVars, endVars
<1>1. CASE StartLevel
  BY <1>1 DEF StartLevel, StartsLevel, Snapshot
<1>2. CASE EndLevel /\ groupErr
  BY <1>2 DEF EndLevel, QuietStep, Goes, LeavesLevels
<1>3. CASE EndLevel /\ ~groupErr
  BY <1>3 DEF EndLevel, EndsLevel
<1> QED
  BY <1>1, <1>2, <1>3

(* However a goroutine returns, its slot holds a result it may have.       *)
LEMMA RecordSteps ==
    ASSUME Types, SlotsFilled, NEW r \in Requests, RecordErrored(r) \/ RecordEvaluated(r)
    PROVE  \E rr : Fills(r, rr)
<1> USE DEF planVars, graphVars, fixed, endVars
<1>1. /\ work[r] \in WorkType /\ work[r].rr \in Result /\ Tried(r)
      /\ coll \in CollectionType /\ gctx \in ContextStates /\ groupErr \in BOOLEAN
      /\ opts.retries \in Int
  BY OptionsAssumption DEF Types, RequestTypeOK, SlotsFilled, WorkType, OptionType
<1>2. ASSUME NEW failed \in BOOLEAN, GoReturns(failed)
      PROVE  /\ gctx' \in ContextStates /\ groupErr' \in BOOLEAN
             /\ (groupErr => groupErr') /\ (failed => groupErr')
             /\ gctx # "live" => gctx' # "live"
             /\ gctx' # gctx \/ groupErr' # groupErr => failed
  BY <1>1, <1>2 DEF GoReturns, ContextStates
<1>3. CASE RecordErrored(r)
  <2> DEFINE rr == ErroredResult(r, work[r].runErr)
  <2>1. work[r].runErr \in ErrorKinds /\ ~At(r, "recorded")
    BY <1>1, <1>3 DEF RecordErrored, Tried, At, WorkType
  <2>2. rr \in Result /\ rr.name = r /\ rr.extracted = {} /\ rr.error = work[r].runErr
    BY <2>1, ResultTypes DEF ErroredResult, ZeroResult
  <2>3. PICK failed \in BOOLEAN : /\ GoReturns(failed) /\ (opts.failFast => failed)
                                  /\ failed => opts.failFast \/ At(r, "delayStopped")
    BY <1>3, OptionsAssumption DEF RecordErrored, FailsGroup, Types, RequestTypeOK, OptionType
  <2>4. Fills(r, rr)
    BY <1>2, <1>3, <2>1, <2>2, <2>3 DEF RecordErrored, Fills, FillSlot
  <2> QED
    BY <2>4
<1>4. CASE RecordEvaluated(r)
  <2>1. PICK rr \in Evaluations(r, levelEnv) : FillSlot(r, rr) /\ GoReturns(FailsGroup(Failed(rr)))
    BY <1>4 DEF RecordEvaluated
  <2>2. /\ rr \in Result /\ rr.name = work[r].rr.name /\ rr.extracted \subseteq Produced(coll, r)
        /\ rr.error = work[r].rr.error
    BY <1>1, EvaluationTypes
  <2>3. rr.name = r \/ opts.retries < 0
    BY <1>1, <1>4, <2>2 DEF RecordEvaluated, Tried, At, WorkType
  <2>4. ~At(r, "recorded")
    BY <1>4 DEF RecordEvaluated, At
  <2>5. /\ FailsGroup(Failed(rr)) \in BOOLEAN
        /\ opts.failFast /\ Failed(rr) => FailsGroup(Failed(rr))
        /\ FailsGroup(Failed(rr)) => opts.failFast
    BY DEF FailsGroup
  <2>6. Fills(r, rr)
    BY <1>2, <1>4, <2>1, <2>2, <2>3, <2>4, <2>5 DEF RecordEvaluated, Fills, FillSlot
  <2> QED
    BY <2>6
<1> QED
  BY <1>3, <1>4

(* Every step of the engine is one of these. *)
LEMMA Steps ==
    ASSUME Types, SlotsFilled, [Next]_vars
    PROVE  \/ QuietStep \/ StartsLevel \/ EndsLevel \/ FilterRequests \/ BuildDepGraph
           \/ \E r \in Requests : Works(r) \/ \E rr : Fills(r, rr)
<1>1. CASE \/ PrepareFails \/ LoopSeesContextDone \/ LevelsExhausted
           \/ CopyResults \/ SaveRun \/ ContextEnds \/ UNCHANGED vars
  BY <1>1, QuietSteps
<1>2. CASE StartLevel \/ EndLevel
  BY <1>2, LevelSteps
<1>3. ASSUME NEW r \in Requests, RecordErrored(r) \/ RecordEvaluated(r) PROVE \E rr : Fills(r, rr)
  BY <1>3, RecordSteps
<1>4. ASSUME NEW r \in Requests, WorkOnRequest(r) PROVE Works(r)
  BY <1>4 DEF WorkOnRequest, Works, planVars, graphVars, fixed, levelVars
<1> QED
  BY <1>1, <1>2, <1>3, <1>4 DEF Next, EngineStep, RequestTurn, Idles

(* A request at work is the only one to change, and is under way after.    *)
LEMMA WorkChanges ==
    ASSUME Types, SlotsFilled, NEW r \in Requests, Works(r)
    PROVE  /\ \A q \in Requests : q # r =>
                work'[q] = work[q] /\ sends'[q] = sends[q] /\ saw'[q] = saw[q]
           /\ Tried(r)' /\ RequestTypeOK'
           /\ ~At(r, "recorded") /\ ~At(r, "recorded")' /\ Begun(r)'
           /\ \/ sends'[r] = sends[r] /\ saw'[r] = saw[r]
              \/ saw'[r] = levelEnv
<1>1. RequestTypeOK /\ Tried(r) /\ opts' = opts /\ ctx' = ctx /\ gctx \in ContextStates
      /\ levelEnv \in Environment /\ ctx \in ContextStates
  BY DEF Types, RequestTypeOK, SlotsFilled, Works, ContextStates
<1>2. CASE StartRequest(r)
  BY <1>1, <1>2, TriedStarts, StartAndRecordType DEF Begun, At
<1>3. CASE RequestStep(r, gctx, levelEnv)
  BY <1>1, <1>3, StepShape, TriedInductive, StepType DEF Begun, At
<1> QED
  BY <1>2, <1>3 DEF Works

(* A goroutine that returns changes its own request and slot only.         *)
LEMMA FillChanges ==
    ASSUME Types, SlotsFilled, NEW r \in Requests, NEW rr, Fills(r, rr)
    PROVE  /\ \A q \in Requests : q # r => work'[q] = work[q] /\ results'[q] = results[q]
           /\ sends' = sends /\ saw' = saw
           /\ Tried(r)' /\ RequestTypeOK'
           /\ At(r, "recorded")' /\ results'[r] = rr /\ Begun(r)'
<1>1. RequestTypeOK /\ Tried(r) /\ opts' = opts /\ ctx' = ctx /\ Recorded(r) /\ ctx \in ContextStates
      /\ results' = [results EXCEPT ![r] = rr] /\ results \in [Requests -> Result]
  BY DEF Types, RequestTypeOK, SlotsFilled, Fills, ContextStates
<1> QED
  BY <1>1, TriedEnds, StartAndRecordType DEF Begun, At

-----------------------------------------------------------------------------
(* Types. *)

(* Requests of a level have a last one. *)
LEMMA LastRequest ==
    ASSUME NEW S \in SUBSET Requests, S # {}
    PROVE  Max(S) \in S /\ \A q \in S : q <= Max(S)
<1> DEFINE T == {N - q : q \in S}
<1>1. T \in SUBSET Nat /\ T # {}
  <2>1. \A q \in S : N - q \in Nat
    BY NAssumption DEF Requests
  <2> QED
    BY <2>1
<1>2. PICK t \in T : \A u \in T : t <= u
  BY <1>1, NAssumption, GP!LeastElement DEF GP!CollectionType, CollectionType, GP!Requests, Requests
<1>3. PICK m \in S : t = N - m
  BY <1>2
<1>4. ASSUME NEW q \in S PROVE q <= m
  <2>1. N - q \in T /\ q \in Nat /\ m \in Nat
    BY NAssumption DEF Requests
  <2> QED
    BY <1>2, <1>3, <2>1, NAssumption
<1>5. \A q \in S : m >= q
  BY <1>4, NAssumption DEF Requests
<1>6. \E x \in S : \A y \in S : x >= y
  BY <1>5
<1>7. Max(S) \in S /\ \A y \in S : Max(S) >= y
  BY <1>6 DEF Max
<1> QED
  BY <1>7, NAssumption DEF Requests

LEMMA MergedType ==
    ASSUME Types, levels[lvl] \subseteq Requests
    PROVE  Merged \in Environment
<1> SUFFICES ASSUME NEW v \in VarNames, Extracting(v) # {} PROVE Max(Extracting(v)) \in Requests
  BY DEF Merged, Environment, Value, Types
<1>1. Extracting(v) \in SUBSET Requests
  BY DEF Extracting
<1> QED
  BY <1>1, LastRequest

LEMMA TypesStep ==
    ASSUME Types, SlotsFilled, PlanFollowed, LevelPosition, [Next]_vars
    PROVE  Types'
<1> USE DEF Types
<1>1. CASE QuietStep
  BY <1>1 DEF QuietStep, RequestTypeOK, ContextStates
<1>2. CASE StartsLevel
  BY <1>2 DEF StartsLevel, RequestTypeOK
<1>3. CASE EndsLevel
  <2>1. levels[lvl] \subseteq Requests
    BY <1>3, PlanFacts DEF EndsLevel, PlanFollowed, LevelPosition
  <2>2. env' \in Environment
    BY <1>3, <2>1, MergedType DEF EndsLevel
  <2> QED
    BY <1>3, <2>2 DEF EndsLevel, RequestTypeOK
<1>4. CASE FilterRequests
  <2>1. coll' \in CollectionType
    BY <1>4 DEF FilterRequests, CollectionType
  <2> QED
    BY <1>4, <2>1 DEF FilterRequests, RequestTypeOK, requestVars, levelVars, endVars
<1>5. CASE BuildDepGraph
  <2>1. coll' = coll
    BY <1>5 DEF BuildDepGraph, Graph!GraphNext, Graph!AddLevel, Graph!SerializeNext
  <2> QED
    BY <1>5, <2>1 DEF BuildDepGraph, RequestTypeOK, requestVars, levelVars, endVars
<1>6. ASSUME NEW r \in Requests, Works(r) PROVE Types'
  BY <1>6, WorkChanges DEF Works
<1>7. ASSUME NEW r \in Requests, NEW rr, Fills(r, rr) PROVE Types'
  BY <1>7, FillChanges DEF Fills
<1> QED
  BY <1>1, <1>2, <1>3, <1>4, <1>5, <1>6, <1>7, Steps

-----------------------------------------------------------------------------
(* The plan is the graph's while it is built and ever after. *)

LEMMA PlanStep ==
    ASSUME Types, SlotsFilled, PlanFollowed, [Next]_vars
    PROVE  PlanFollowed'
<1> USE DEF PlanFollowed
<1>1. ASSUME UNCHANGED <<coll, planVars>>,
             phase' = "prepare" => phase = "prepare",
             phase' \in {"levels", "level"} => phase \in {"levels", "level"}
      PROVE  PlanFollowed'
  BY <1>1 DEF planVars, GP!TypeOK, GP!PlannedOnce, GP!Planned, GP!AvailableExplained, GP!Produced,
     GP!SourceInEarlierLevel, GP!Needs, GP!OnlySource, GP!Consumed, GP!GraphInit
<1>2. CASE QuietStep
  BY <1>1, <1>2 DEF QuietStep
<1>3. CASE StartsLevel
  BY <1>1, <1>3 DEF StartsLevel
<1>4. CASE EndsLevel
  BY <1>1, <1>4 DEF EndsLevel
<1>5. CASE FilterRequests
  <2>1. PICK selected \in Filters :
            coll' = [coll EXCEPT !.kept = @ \cap selected] /\ remaining' = coll.kept \cap selected
    BY <1>5 DEF FilterRequests
  <2>2. coll' \in CollectionType /\ coll'.kept = remaining' /\ coll'.seeds = coll.seeds
    BY <2>1 DEF Types, CollectionType
  <2>3. GP!GraphInit'
    BY <1>5, <2>2 DEF FilterRequests, GP!GraphInit
  <2>4. (coll \in CollectionType /\ GP!GraphInit =>
            GP!TypeOK /\ GP!PlannedOnce /\ GP!AvailableExplained /\ GP!SourceInEarlierLevel)'
    BY PlanStarts, PTL
  <2> QED
    BY <1>5, <2>2, <2>3, <2>4 DEF FilterRequests
<1>6. CASE BuildDepGraph
  BY <1>6, PlanTurns DEF BuildDepGraph
<1>7. ASSUME NEW r \in Requests, Works(r) PROVE PlanFollowed'
  BY <1>1, <1>7 DEF Works
<1>8. ASSUME NEW r \in Requests, NEW rr, Fills(r, rr) PROVE PlanFollowed'
  BY <1>1, <1>8 DEF Fills
<1> QED
  BY <1>2, <1>3, <1>4, <1>5, <1>6, <1>7, <1>8, Steps

-----------------------------------------------------------------------------
(* Where the loop is. *)

LEMMA PositionStep ==
    ASSUME Types, SlotsFilled, PlanFollowed, LevelPosition, [Next]_vars
    PROVE  LevelPosition'
<1> USE DEF LevelPosition
<1>0. /\ Len(levels) \in Nat /\ DOMAIN levels = 1..Len(levels) /\ lvl \in Nat \ {0}
      /\ \A i \in DOMAIN levels : levels[i] \subseteq Requests
      /\ \A i, j \in DOMAIN levels : \A r \in levels[i] : r \in levels[j] => i = j
  BY PlanFacts DEF Types, PlanFollowed
<1>1. CASE QuietStep
  BY <1>0, <1>1 DEF QuietStep, planVars, Begun, At
<1>2. CASE StartsLevel
  BY <1>0, <1>2 DEF StartsLevel, planVars, Begun, At
<1>3. CASE EndsLevel
  <2>1. /\ UNCHANGED <<work, levels>> /\ phase = "level" /\ phase' = "levels" /\ lvl' = lvl + 1
        /\ \A r \in levels[lvl] : At(r, "recorded")
    BY <1>3 DEF EndsLevel, planVars, AllReturned
  <2>2. \A i \in DOMAIN levels : i < lvl' => i < lvl \/ i = lvl
    BY <1>0, <2>1
  <2>3. \A i \in DOMAIN levels : i <= lvl => i < lvl' /\ i <= lvl'
    BY <1>0, <2>1
  <2> QED
    BY <1>0, <2>1, <2>2, <2>3 DEF Begun, At
<1>4. CASE FilterRequests
  BY <1>0, <1>4 DEF FilterRequests, requestVars, levelVars, Begun, At
<1>5. CASE BuildDepGraph
  <2>1. UNCHANGED <<work, lvl>> /\ phase = "plan" /\ phase' \in {"plan", "levels"}
    BY <1>5 DEF BuildDepGraph, requestVars, levelVars
  <2>2. lvl' = 1 /\ \A r \in Requests : ~Begun(r)'
    BY <2>1 DEF Begun, At
  <2>3. PlanFollowed'
    BY PlanStep
  <2>4. coll' \in CollectionType
    BY TypesStep DEF Types
  <2>5. (coll \in CollectionType /\ GP!TypeOK /\ GP!PlannedOnce /\ GP!SourceInEarlierLevel
            => DOMAIN levels = 1..Len(levels))'
    BY PlanFacts, PTL
  <2>6. \A i \in DOMAIN levels' : ~(i < lvl')
    BY <2>2, <2>3, <2>4, <2>5 DEF PlanFollowed
  <2>7. phase' # "level"
    BY <2>1
  <2> QED
    BY <2>2, <2>6, <2>7
<1>6. ASSUME NEW r \in Requests, Works(r) PROVE LevelPosition'
  <2>1. /\ \A q \in Requests : q # r => work'[q] = work[q]
        /\ phase = "level" /\ r \in levels[lvl] /\ UNCHANGED <<phase, lvl, levels>>
    BY <1>6, WorkChanges DEF Works, planVars
  <2>2. \A i \in DOMAIN levels : i < lvl => r \notin levels[i]
    BY <1>0, <2>1
  <2> QED
    BY <1>0, <2>1, <2>2 DEF Begun, At
<1>7. ASSUME NEW r \in Requests, NEW rr, Fills(r, rr) PROVE LevelPosition'
  <2>1. /\ \A q \in Requests : q # r => work'[q] = work[q]
        /\ phase = "level" /\ r \in levels[lvl] /\ UNCHANGED <<phase, lvl, levels>>
    BY <1>7, FillChanges DEF Fills, planVars
  <2>2. \A i \in DOMAIN levels : i < lvl => r \notin levels[i]
    BY <1>0, <2>1
  <2> QED
    BY <1>0, <2>1, <2>2 DEF Begun, At
<1> QED
  BY <1>1, <1>2, <1>3, <1>4, <1>5, <1>6, <1>7, Steps

-----------------------------------------------------------------------------
(* Requests and slots. *)

LEMMA SlotsStep ==
    ASSUME Types, PlanFollowed, LevelPosition, SlotsFilled, [Next]_vars
    PROVE  SlotsFilled'
<1> USE DEF SlotsFilled
<1>0. results \in [Requests -> Result] /\ coll \in CollectionType
  BY DEF Types
<1>1. ASSUME UNCHANGED <<work, sends, opts, results>>,
             \A r \in Requests : Produced(coll', r) = Produced(coll, r)
      PROVE  SlotsFilled'
  BY <1>1, TriedElsewhere DEF At
<1>2. CASE QuietStep
  BY <1>1, <1>2 DEF QuietStep
<1>3. CASE StartsLevel
  BY <1>1, <1>3 DEF StartsLevel
<1>4. CASE EndsLevel
  BY <1>1, <1>4 DEF EndsLevel
<1>5. CASE FilterRequests
  <2>1. PICK selected \in Filters : coll' = [coll EXCEPT !.kept = @ \cap selected]
    BY <1>5 DEF FilterRequests
  <2>2. \A r \in Requests : Produced(coll', r) = Produced(coll, r)
    BY <1>0, <2>1 DEF CollectionType, Produced
  <2> QED
    BY <1>1, <1>5, <2>2 DEF FilterRequests, requestVars, levelVars
<1>6. CASE BuildDepGraph
  <2>1. coll' = coll
    BY <1>6 DEF BuildDepGraph, Graph!GraphNext, Graph!AddLevel, Graph!SerializeNext
  <2> QED
    BY <1>1, <1>6, <2>1 DEF BuildDepGraph, requestVars, levelVars
<1>7. ASSUME NEW r \in Requests, Works(r) PROVE SlotsFilled'
  <2>1. UNCHANGED <<coll, opts, results>>
    BY <1>7 DEF Works
  <2>2. /\ \A q \in Requests : q # r => work'[q] = work[q] /\ sends'[q] = sends[q]
        /\ Tried(r)' /\ ~At(r, "recorded") /\ ~At(r, "recorded")'
    BY <1>7, WorkChanges
  <2> QED
    BY <2>1, <2>2, TriedElsewhere DEF At
<1>8. ASSUME NEW r \in Requests, NEW rr, Fills(r, rr) PROVE SlotsFilled'
  <2>1. /\ UNCHANGED <<coll, opts>> /\ (rr.name = r \/ opts.retries < 0)
        /\ rr.extracted \subseteq Produced(coll, r)
    BY <1>8 DEF Fills
  <2>2. /\ \A q \in Requests : q # r => work'[q] = work[q] /\ results'[q] = results[q]
        /\ sends' = sends
        /\ Tried(r)' /\ At(r, "recorded")' /\ results'[r] = rr
    BY <1>8, FillChanges
  <2> QED
    BY <2>1, <2>2, TriedElsewhere DEF At
<1> QED
  BY <1>2, <1>3, <1>4, <1>5, <1>6, <1>7, <1>8, Steps

-----------------------------------------------------------------------------
(* A failure under --fail-fast. *)

LEMMA ZeroNeverFailed == ~Failed(ZeroResult)
BY DEF Failed, ZeroResult

LEMMA FailureStep ==
    ASSUME Types, SlotsFilled, PlanFollowed, LevelPosition, FailureClosesLevel, [Next]_vars
    PROVE  FailureClosesLevel'
<1> USE DEF FailureClosesLevel
<1>1. CASE QuietStep
  BY <1>1 DEF QuietStep, planVars, Failed
<1>2. CASE StartsLevel
  BY <1>2 DEF StartsLevel, planVars, Failed
<1>3. CASE EndsLevel
  BY <1>3 DEF EndsLevel, planVars, Failed
<1>4. CASE FilterRequests
  BY <1>4 DEF FilterRequests, levelVars, Failed
<1>5. CASE BuildDepGraph
  BY <1>5 DEF BuildDepGraph, levelVars, Failed
<1>6. ASSUME NEW r \in Requests, Works(r) PROVE FailureClosesLevel'
  BY <1>6 DEF Works, planVars, Failed
<1>7. ASSUME NEW r \in Requests, NEW rr, Fills(r, rr) PROVE FailureClosesLevel'
  <2>1. /\ \A q \in Requests : q # r => results'[q] = results[q]
        /\ results'[r] = rr
    BY <1>7, FillChanges
  <2>2. /\ UNCHANGED <<opts, levels, phase, lvl>> /\ phase = "level" /\ r \in levels[lvl]
        /\ groupErr => groupErr'
        /\ opts.failFast /\ Failed(rr) => groupErr'
    BY <1>7 DEF Fills, planVars
  <2>3. lvl \in DOMAIN levels
    BY <2>2 DEF LevelPosition
  <2> QED
    BY <2>1, <2>2, <2>3 DEF Failed
<1> QED
  BY <1>1, <1>2, <1>3, <1>4, <1>5, <1>6, <1>7, Steps

-----------------------------------------------------------------------------
(* Values. *)

(* What the levels below leave depends on their slots only.                *)
LEMMA BelowStays ==
    ASSUME NEW i, NEW v, NEW value, LatestBelow(value, v, i),
           levels' = levels, SeedVars(coll)' = SeedVars(coll),
           \A j \in DOMAIN levels : j < i => \A p \in levels[j] : results'[p] = results[p]
    PROVE  LatestBelow(value, v, i)'
BY DEF LatestBelow

(* Merging a level brings the map up to date with it.                      *)
LEMMA MergeBringsLatest ==
    ASSUME Types, PlanFollowed, lvl \in DOMAIN levels, NEW v \in VarNames,
           LatestBelow(env[v], v, lvl)
    PROVE  LatestBelow(Merged[v], v, lvl + 1)
<1>1. /\ DOMAIN levels = 1..Len(levels) /\ lvl \in Nat
      /\ \A i \in DOMAIN levels : levels[i] \subseteq Requests
      /\ \A j \in DOMAIN levels : j < lvl + 1 <=> j < lvl \/ j = lvl
  BY PlanFacts DEF Types, PlanFollowed
<1>2. CASE Extracting(v) = {}
  <2>1. Merged[v] = env[v]
    BY <1>2 DEF Merged
  <2>2. \A p \in levels[lvl] : v \notin results[p].extracted
    BY <1>2 DEF Extracting
  <2> QED
    BY <1>1, <2>1, <2>2 DEF LatestBelow
<1>3. CASE Extracting(v) # {}
  <2>1. Extracting(v) \in SUBSET Requests
    BY <1>1 DEF Extracting
  <2> DEFINE m == Max(Extracting(v))
  <2>2. m \in Extracting(v) /\ \A q \in Extracting(v) : q <= m
    BY <1>3, <2>1, LastRequest
  <2>3. Merged[v] = m
    BY <1>3 DEF Merged
  <2>4. m \in levels[lvl] /\ v \in results[m].extracted
    BY <2>2 DEF Extracting
  <2>5. \A k \in DOMAIN levels : k < lvl + 1 => \A q \in levels[k] :
            v \in results[q].extracted => k < lvl \/ (k = lvl /\ q <= m)
    BY <1>1, <2>2 DEF Extracting
  <2> QED
    BY <1>1, <2>3, <2>4, <2>5 DEF LatestBelow
<1> QED
  BY <1>2, <1>3

LEMMA ValuesStep ==
    ASSUME Types, SlotsFilled, PlanFollowed, LevelPosition, ValuesBelow, [Next]_vars
    PROVE  ValuesBelow'
<1> USE DEF ValuesBelow
<1>0. /\ Len(levels) \in Nat /\ DOMAIN levels = 1..Len(levels) /\ lvl \in Nat \ {0}
      /\ \A i \in DOMAIN levels : levels[i] \subseteq Requests
      /\ \A i, j \in DOMAIN levels : \A r \in levels[i] : r \in levels[j] => i = j
      /\ coll \in CollectionType
  BY PlanFacts DEF Types, PlanFollowed
<1>1. ASSUME UNCHANGED <<levels, lvl, env, saw, sends, results>>,
             SeedVars(coll)' = SeedVars(coll), phase' = "level" => levelEnv' = env'
      PROVE  ValuesBelow'
  BY <1>1 DEF LatestBelow
<1>2. CASE QuietStep
  BY <1>1, <1>2 DEF QuietStep, planVars, SeedVars
<1>3. CASE StartsLevel
  BY <1>1, <1>3 DEF StartsLevel, planVars, SeedVars
<1>4. CASE EndsLevel
  <2>1. /\ UNCHANGED <<coll, levels, saw, sends, results>> /\ phase = "level" /\ phase' = "levels"
        /\ lvl' = lvl + 1 /\ env' = Merged /\ lvl \in DOMAIN levels
    BY <1>4 DEF EndsLevel, planVars, LevelPosition
  <2>2. ASSUME NEW v \in VarNames PROVE LatestBelow(env[v], v, lvl)'
    <3>1. LatestBelow(Merged[v], v, lvl + 1)
      BY <2>1, MergeBringsLatest
    <3> QED
      BY <2>1, <3>1 DEF LatestBelow, SeedVars
  <2>3. ASSUME NEW i \in DOMAIN levels', NEW r \in levels'[i], sends'[r] > 0, NEW v \in VarNames
        PROVE  LatestBelow(saw[r][v], v, i)'
    BY <2>1, <2>3 DEF LatestBelow, SeedVars
  <2> QED
    BY <2>1, <2>2, <2>3
<1>5. CASE FilterRequests
  <2>1. coll'.seeds = coll.seeds
    BY <1>0, <1>5 DEF FilterRequests, CollectionType
  <2>2. SeedVars(coll)' = SeedVars(coll)
    BY <2>1 DEF SeedVars
  <2> QED
    BY <1>1, <1>5, <2>2 DEF FilterRequests, requestVars, levelVars
<1>6. CASE BuildDepGraph
  <2>1. /\ UNCHANGED <<env, saw, sends, results, lvl, levelEnv>> /\ phase = "plan" /\ phase' # "level"
        /\ coll' = coll
    BY <1>6 DEF BuildDepGraph, requestVars, levelVars, Graph!GraphNext, Graph!AddLevel,
       Graph!SerializeNext
  <2>2. /\ PlanFollowed' /\ coll' \in CollectionType
    BY <1>0, <2>1, PlanStep
  <2>3. (coll \in CollectionType /\ GP!TypeOK /\ GP!PlannedOnce /\ GP!SourceInEarlierLevel
            => DOMAIN levels = 1..Len(levels) /\ \A i \in DOMAIN levels : levels[i] \subseteq Requests)'
    BY PlanFacts, PTL
  <2>4. /\ \A i \in DOMAIN levels' : ~(i < 1) /\ levels'[i] \subseteq Requests
        /\ lvl = 1
    BY <2>1, <2>2, <2>3 DEF PlanFollowed, LevelPosition
  <2>5. \A i \in DOMAIN levels : ~(i < 1)
    BY <1>0
  <2>6. \A v \in VarNames : env[v] = SeedVars(coll)[v]
    BY <2>4, <2>5 DEF LatestBelow
  <2>7. \A r \in Requests : sends[r] = 0
    BY <2>1 DEF LevelPosition, SlotsFilled, Tried, Begun, At
  <2>8. \A v \in VarNames : LatestBelow(env[v], v, lvl)'
    BY <2>1, <2>4, <2>6 DEF LatestBelow, SeedVars
  <2> QED
    BY <2>1, <2>4, <2>7, <2>8
<1>7. ASSUME NEW r \in Requests, Works(r) PROVE ValuesBelow'
  <2>1. /\ UNCHANGED <<coll, levels, lvl, phase, env, levelEnv, results>>
        /\ phase = "level" /\ r \in levels[lvl] /\ lvl \in DOMAIN levels
    BY <1>7 DEF Works, planVars, LevelPosition
  <2>2. /\ \A q \in Requests : q # r => sends'[q] = sends[q] /\ saw'[q] = saw[q]
        /\ \/ sends'[r] = sends[r] /\ saw'[r] = saw[r]
           \/ saw'[r] = env
    BY <1>7, <2>1, WorkChanges
  <2>3. ASSUME NEW i \in DOMAIN levels, NEW q \in levels[i], sends'[q] > 0, NEW v \in VarNames
        PROVE  LatestBelow(saw'[q][v], v, i)
    <3>1. q \in Requests /\ (q = r => i = lvl)
      BY <1>0, <2>1
    <3> QED
      BY <2>2, <2>3, <3>1
  <2> QED
    BY <2>1, <2>3 DEF LatestBelow, SeedVars
<1>8. ASSUME NEW r \in Requests, NEW rr, Fills(r, rr) PROVE ValuesBelow'
  <2>1. /\ UNCHANGED <<coll, levels, lvl, phase, env, levelEnv>>
        /\ phase = "level" /\ r \in levels[lvl] /\ lvl \in DOMAIN levels
    BY <1>8 DEF Fills, planVars, LevelPosition
  <2>2. /\ \A q \in Requests : q # r => results'[q] = results[q]
        /\ sends' = sends /\ saw' = saw
    BY <1>8, FillChanges
  <2>3. SeedVars(coll)' = SeedVars(coll)
    BY <2>1 DEF SeedVars
  <2>4. \A j \in DOMAIN levels : j < lvl => \A p \in levels[j] : results'[p] = results[p]
    BY <1>0, <2>1, <2>2
  <2>5. ASSUME NEW v \in VarNames PROVE LatestBelow(env[v], v, lvl)'
    BY <2>1, <2>3, <2>4, <2>5 DEF LatestBelow
  <2>6. ASSUME NEW i \in DOMAIN levels, NEW q \in levels[i], sends[q] > 0, NEW v \in VarNames
        PROVE  LatestBelow(saw[q][v], v, i)'
    <3>1. q \in Requests /\ sends[q] \in Nat
      BY <1>0 DEF Types, RequestTypeOK
    <3>2. Begun(q)
      BY <2>6, <3>1 DEF SlotsFilled, Tried, Begun, At
    <3>3. i <= lvl
      BY <1>0, <3>1, <3>2 DEF LevelPosition
    <3>4. \A j \in DOMAIN levels : j < i => \A p \in levels[j] : results'[p] = results[p]
      BY <1>0, <2>4, <3>3
    <3>5. LatestBelow(saw[q][v], v, i)
      BY <2>6
    <3> QED
      BY <2>1, <2>2, <2>3, <3>4, <3>5 DEF LatestBelow
  <2> QED
    BY <2>1, <2>2, <2>5, <2>6
<1> QED
  BY <1>2, <1>3, <1>4, <1>5, <1>6, <1>7, <1>8, Steps

-----------------------------------------------------------------------------
(* Why a group ends. *)

(* A step of a request stops it in its delay only when its context is done.*)
LEMMA StopsWhenDone ==
    ASSUME RequestTypeOK, NEW r \in Requests, NEW done, NEW vals, RequestStep(r, done, vals),
           At(r, "delayStopped")'
    PROVE  done # "live"
<1> USE DEF RequestTypeOK, WorkType, At
<1>1. CASE DelayElapses(r) \/ BackoffElapses(r)
  BY <1>1 DEF DelayElapses, BackoffElapses, Goto
<1>2. CASE DelayInterrupted(r, done)
  BY <1>2 DEF DelayInterrupted
<1>3. CASE LoopInterrupted(r, done) \/ BackoffInterrupted(r, done)
  BY <1>3 DEF LoopInterrupted, BackoffInterrupted, Return
<1>4. CASE ResolveFails(r, done, vals) \/ LoopExhausted(r)
  BY <1>4 DEF ResolveFails, LoopExhausted, Return
<1>5. CASE Send(r, done, vals)
  BY <1>5 DEF Send
<1>6. CASE Answered(r, done)
  BY <1>6 DEF Answered
<1> QED
  BY <1>1, <1>2, <1>3, <1>4, <1>5, <1>6 DEF RequestStep

LEMMA GroupStep ==
    ASSUME Types, SlotsFilled, PlanFollowed, LevelPosition, GroupExplained, [Next]_vars
    PROVE  GroupExplained'
<1> USE DEF GroupExplained
<1>0. /\ RequestTypeOK /\ ctx \in ContextStates /\ gctx \in ContextStates
      /\ results \in [Requests -> Result] /\ levelEnv \in Environment
  BY DEF Types, RequestTypeOK, ContextStates
<1>1. ASSUME UNCHANGED <<opts, work, results>>,
             gctx # "live" => gctx' # "live", ctx # "live" => ctx' # "live",
             gctx' # "live" => gctx # "live" \/ ctx' # "live",
             groupErr' => groupErr
      PROVE  GroupExplained'
  BY <1>1 DEF At, CanceledBy
<1>2. CASE QuietStep
  BY <1>1, <1>2 DEF QuietStep
<1>3. CASE StartsLevel
  <2>1. /\ UNCHANGED <<opts, ctx, work, results>> /\ phase = "levels"
        /\ gctx' = ctx /\ groupErr' = FALSE
    BY <1>3 DEF StartsLevel
  <2>2. ASSUME NEW r \in Requests, ~At(r, "recorded")
        PROVE  work[r].rr = ZeroResult /\ work[r].runErr = "none" /\ At(r, "idle")
    <3>1. At(r, "idle")
      BY <2>1, <2>2 DEF LevelPosition, Begun
    <3> QED
      BY <3>1 DEF SlotsFilled, Tried, At
  <2>3. ASSUME NEW r \in Requests PROVE At(r, "recorded")' \/ CanceledBy(r, gctx)'
    BY <2>1, <2>2 DEF At, CanceledBy, ZeroResult
  <2>4. \A r \in Requests : ~At(r, "delayStopped")'
    BY <2>1, <2>2 DEF At
  <2> QED
    BY <2>1, <2>3, <2>4
<1>4. CASE EndsLevel
  BY <1>1, <1>4 DEF EndsLevel
<1>5. CASE FilterRequests
  BY <1>1, <1>5 DEF FilterRequests, requestVars, levelVars
<1>6. CASE BuildDepGraph
  BY <1>1, <1>6 DEF BuildDepGraph, requestVars, levelVars
<1>7. ASSUME NEW r \in Requests, Works(r) PROVE GroupExplained'
  <2>1. UNCHANGED <<opts, ctx, gctx, groupErr, results>>
    BY <1>7 DEF Works
  <2>2. /\ \A q \in Requests : q # r => work'[q] = work[q]
        /\ ~At(r, "recorded")
    BY <1>7, WorkChanges
  <2>3. CanceledBy(r, gctx)' /\ (At(r, "delayStopped")' => gctx' # "live")
    <3>1. CASE StartRequest(r)
      <4>1. /\ work'[r].pc \in {"delay", "loop"} /\ work'[r].runErr = "none"
            /\ work'[r].rr = ZeroResult
        BY <1>0, <2>1, <3>1, TriedStarts DEF SlotsFilled
      <4> QED
        BY <4>1 DEF CanceledBy, ZeroResult, At
    <3>2. CASE RequestStep(r, gctx, levelEnv)
      <4>1. CanceledBy(r, gctx)
        BY <2>2
      <4>2. CanceledBy(r, gctx)'
        BY <1>0, <2>1, <3>2, <4>1, CanceledInductive
      <4> QED
        BY <1>0, <2>1, <3>2, <4>2, StopsWhenDone
    <3> QED
      BY <1>7, <3>1, <3>2 DEF Works
  <2> QED
    BY <2>1, <2>2, <2>3 DEF At, CanceledBy
<1>8. ASSUME NEW r \in Requests, NEW rr, Fills(r, rr) PROVE GroupExplained'
  <2>1. /\ UNCHANGED <<opts, ctx>> /\ ~At(r, "recorded")
        /\ gctx' # gctx \/ groupErr' # groupErr => opts.failFast \/ At(r, "delayStopped")
        /\ gctx # "live" => gctx' # "live"
        /\ rr.error \in {work[r].rr.error, work[r].runErr}
    BY <1>8 DEF Fills
  <2>2. /\ \A q \in Requests : q # r => work'[q] = work[q] /\ results'[q] = results[q]
        /\ At(r, "recorded")' /\ results'[r] = rr
    BY <1>8, FillChanges
  <2>3. rr.error = "canceled" => gctx # "live"
    BY <2>1 DEF CanceledBy
  <2> QED
    BY <2>1, <2>2, <2>3 DEF At, CanceledBy
<1> QED
  BY <1>2, <1>3, <1>4, <1>5, <1>6, <1>7, <1>8, Steps

-----------------------------------------------------------------------------
(* What is behind the report. *)

LEMMA ReturnStep ==
    ASSUME Types, SlotsFilled, PlanFollowed, LevelPosition, GroupExplained, ReturnExplained,
           [Next]_vars
    PROVE  ReturnExplained'
<1> USE DEF ReturnExplained
<1>0. /\ Len(levels) \in Nat /\ DOMAIN levels = 1..Len(levels) /\ lvl \in Nat \ {0}
      /\ \A i \in DOMAIN levels : levels[i] \subseteq Requests
      /\ remaining = {} => \A r \in coll.kept : \E i \in DOMAIN levels : r \in levels[i]
  BY PlanFacts DEF Types, PlanFollowed
<1>1. ASSUME UNCHANGED <<coll, opts, work, results, phase, report, outcome>>,
             ctx # "live" => ctx' # "live"
      PROVE  ReturnExplained'
  BY <1>1 DEF Filled, Finished, Begun, At
<1>2. CASE QuietStep
  <2>0. /\ UNCHANGED <<coll, opts, work, results>>
        /\ ctx # "live" => ctx' # "live"
    BY <1>2 DEF QuietStep
  <2>1. CASE UNCHANGED <<phase, report, outcome>>
    BY <1>1, <2>0, <2>1
  <2>2. CASE StopsEarly
    <3>1. \A r \in Requests : Begun(r) => At(r, "recorded")
      BY <1>0, <2>2 DEF StopsEarly, LevelPosition
    <3>2. report = {}
      BY <2>2 DEF StopsEarly
    <3> QED
      BY <2>0, <2>2, <3>1, <3>2 DEF StopsEarly, Begun, At
  <2>3. CASE LeavesLevels
    <3>1. \A r \in Requests : Begun(r) => At(r, "recorded")
      <4> SUFFICES ASSUME NEW r \in Requests, Begun(r) PROVE At(r, "recorded")
        OBVIOUS
      <4>1. PICK i \in DOMAIN levels : r \in levels[i] /\ i <= lvl /\ (phase = "levels" => i < lvl)
        BY DEF LevelPosition
      <4>2. i < lvl \/ (i = lvl /\ phase = "level" /\ AllReturned)
        BY <1>0, <2>3, <4>1 DEF LeavesLevels
      <4> QED
        BY <4>1, <4>2 DEF LevelPosition, AllReturned
    <3>2. ~opts.failFast /\ ctx = "live" => Finished
      <4> SUFFICES ASSUME ~opts.failFast, ctx = "live", NEW r \in coll.kept PROVE At(r, "recorded")
        BY DEF Finished
      <4>1. phase = "levels" /\ lvl > Len(levels)
        BY <2>3 DEF LeavesLevels, GroupExplained
      <4>2. PICK i \in DOMAIN levels : r \in levels[i]
        BY <1>0, <4>1 DEF PlanFollowed
      <4>3. i < lvl
        BY <1>0, <4>1
      <4> QED
        BY <4>2, <4>3 DEF LevelPosition
    <3>3. report = {} /\ phase # "stopped" /\ phase' = "copy" /\ UNCHANGED <<report, outcome>>
      BY <2>3 DEF LeavesLevels
    <3> QED
      BY <2>0, <3>1, <3>2, <3>3 DEF Begun, At, Finished
  <2>4. CASE Copies
    <3>1. Filled' = Filled
      BY <2>0 DEF Filled
    <3>2. ~opts.failFast /\ ctx = "live" => Finished /\ \A r \in Requests : results[r].error # "canceled"
      BY <2>4 DEF Copies, GroupExplained
    <3> QED
      BY <2>0, <2>4, <3>1, <3>2 DEF Copies, Begun, At, Finished
  <2>5. CASE Saves
    BY <2>0, <2>5 DEF Saves, Filled, Begun, At, Finished
  <2> QED
    BY <1>2, <2>1, <2>2, <2>3, <2>4, <2>5 DEF QuietStep, Goes
<1>3. CASE StartsLevel \/ EndsLevel
  <2>1. /\ phase \notin {"copy", "saving", "stopped"} /\ phase' \notin {"copy", "saving", "stopped"}
        /\ UNCHANGED <<report, outcome>>
    BY <1>3 DEF StartsLevel, EndsLevel, endVars
  <2> QED
    BY <2>1
<1>4. CASE FilterRequests \/ BuildDepGraph
  <2>1. /\ phase \notin {"copy", "saving", "stopped"} /\ phase' \notin {"copy", "saving", "stopped"}
        /\ UNCHANGED <<report, outcome>>
    BY <1>4 DEF FilterRequests, BuildDepGraph, endVars
  <2> QED
    BY <2>1
<1>5. ASSUME NEW r \in Requests, Works(r) \/ \E rr : Fills(r, rr) PROVE ReturnExplained'
  <2>1. phase = "level" /\ UNCHANGED <<phase, report, outcome>>
    BY <1>5 DEF Works, Fills, endVars
  <2> QED
    BY <2>1
<1> QED
  BY <1>2, <1>3, <1>4, <1>5, Steps

-----------------------------------------------------------------------------
(* The invariant. *)

LEMMA InitIInv == Init => IInv
<1> SUFFICES ASSUME Init PROVE IInv
  OBVIOUS
<1> USE DEF Init
<1>1. RequestTypeOK
  BY RequestInitType
<1>2. coll \in CollectionType /\ env \in Environment /\ levelEnv \in Environment
  BY CollectionsAssumption, SeedVarsType
<1>3. Types
  <2>1. results \in [Requests -> Result]
    BY ResultTypes
  <2>2. /\ phase = "prepare" /\ lvl = 1 /\ gctx = "live" /\ groupErr = FALSE
    OBVIOUS
  <2>3. groupErr \in BOOLEAN
    BY <2>2
  <2> HIDE DEF Init
  <2> QED
    BY <1>1, <1>2, <2>1, <2>2, <2>3 DEF Types, ContextStates
<1>4. GP!GraphInit /\ levels = <<>>
  BY DEF Graph!GraphInit, GP!GraphInit
<1>5. PlanFollowed
  BY <1>2, <1>4, PlanStarts DEF PlanFollowed
<1>6. /\ \A r \in Requests : work[r] = Idle /\ sends[r] = 0 /\ results[r] = ZeroResult
      /\ opts.retries \in Int
  BY OptionsAssumption DEF RequestInit, OptionType
<1>7. LevelPosition
  BY <1>4, <1>6 DEF LevelPosition, Idle, Begun, At
<1>8. SlotsFilled
  <2> SUFFICES ASSUME NEW r \in Requests
               PROVE  /\ Tried(r) /\ ~At(r, "recorded") /\ results[r] = ZeroResult
                      /\ results[r].extracted \subseteq Produced(coll, r)
    BY DEF SlotsFilled
  <2>1. /\ work[r].pc = "idle" /\ work[r].attempt = 0 /\ work[r].rr = ZeroResult
        /\ work[r].runErr = "none" /\ sends[r] = 0
    BY <1>6 DEF Idle
  <2>2. Tried(r)
    BY <1>6, <2>1 DEF Tried, At
  <2>3. results[r].extracted = {}
    BY <1>6 DEF ZeroResult
  <2> QED
    BY <1>6, <2>1, <2>2, <2>3 DEF At
<1>9. FailureClosesLevel
  BY <1>6, ZeroNeverFailed DEF FailureClosesLevel
<1>10. ValuesBelow
  BY <1>4 DEF ValuesBelow, LatestBelow
<1>11. GroupExplained
  <2>1. \A r \in Requests : /\ work[r].rr.error = "none" /\ work[r].runErr = "none"
                            /\ ~At(r, "delayStopped") /\ results[r].error = "none"
    BY <1>6 DEF Idle, ZeroResult, At
  <2> QED
    BY <2>1 DEF GroupExplained, CanceledBy
<1>12. ReturnExplained
  BY DEF ReturnExplained
<1> QED
  BY <1>3, <1>5, <1>7, <1>8, <1>9, <1>10, <1>11, <1>12 DEF IInv

LEMMA IInvStep == IInv /\ [Next]_vars => IInv'
BY TypesStep, PlanStep, PositionStep, SlotsStep, FailureStep, ValuesStep, GroupStep, ReturnStep
DEF IInv

LEMMA IInvHolds == Spec => []IInv
BY InitIInv, IInvStep, PTL DEF Spec

-----------------------------------------------------------------------------
(* The theorems. *)

(* The variables keep their types in every run of every collection.        *)
THEOREM TypeCorrect == Spec => []TypeOK
<1>1. IInv => TypeOK
  <2> SUFFICES ASSUME IInv PROVE TypeOK
    OBVIOUS
  <2>1. Graph!TypeOK
    BY DEF IInv, PlanFollowed, GP!TypeOK, Graph!TypeOK, Graph!CollectionType, GP!CollectionType,
           Graph!Requests, GP!Requests
  <2>2. report \subseteq Requests
    BY DEF IInv, ReturnExplained, Filled
  <2> QED
    BY <2>1, <2>2 DEF IInv, Types, ReturnExplained, TypeOK, ContextStates
<1> QED
  BY <1>1, IInvHolds, PTL

(* No goroutine starts before the only request it depends on has settled.  *)
THEOREM StartsAfterSourcesCorrect == Spec => []StartsAfterSources
<1>1. IInv => StartsAfterSources
  <2> SUFFICES ASSUME IInv, NEW r \in coll.kept, NEW p \in coll.kept, Begun(r), p < r,
                      Needs(coll, r, p)
               PROVE  Settled(p) \/ opts.retries < 0
    BY DEF StartsAfterSources
  <2> USE DEF IInv
  <2>1. /\ r \in Requests /\ p \in Requests /\ NoName \notin Requests
        /\ DOMAIN levels = 1..Len(levels) /\ Len(levels) \in Nat /\ lvl \in Nat
    BY PlanFacts, NAssumption DEF Types, CollectionType, PlanFollowed, Requests, NoName
  <2>2. PICK i \in DOMAIN levels : r \in levels[i] /\ i <= lvl
    BY <2>1 DEF LevelPosition
  <2>3. PICK j \in 1..(i - 1) : p \in levels[j]
    BY <2>2, PlanFacts DEF Types, PlanFollowed
  <2>4. j \in DOMAIN levels /\ j < lvl
    BY <2>1, <2>2
  <2>5. At(p, "recorded")
    BY <2>3, <2>4 DEF LevelPosition
  <2> QED
    BY <2>1, <2>5 DEF SlotsFilled, Settled
<1> QED
  BY <1>1, IInvHolds, PTL

(* The level of a request, where the plan puts it. *)
LEMMA LevelOfIs ==
    ASSUME IInv, NEW i \in DOMAIN levels, NEW r \in levels[i]
    PROVE  LevelOf(r) = i
<1>1. \A j \in DOMAIN levels : r \in levels[j] => j = i
  BY PlanFacts DEF IInv, Types, PlanFollowed
<1> QED
  BY <1>1 DEF LevelOf

(* After a failure under --fail-fast no later level runs.                  *)
THEOREM FailFastCorrect == Spec => []FailFastStopsLevels
<1>1. IInv => FailFastStopsLevels
  <2> SUFFICES ASSUME IInv, opts.failFast, NEW r \in coll.kept, NEW p \in coll.kept,
                      Failed(results[p]), Begun(r)
               PROVE  LevelOf(r) <= LevelOf(p)
    BY DEF FailFastStopsLevels
  <2> USE DEF IInv
  <2>1. r \in Requests /\ p \in Requests
    BY DEF Types, CollectionType
  <2>2. lvl \in DOMAIN levels /\ p \in levels[lvl]
    BY <2>1 DEF FailureClosesLevel
  <2>3. PICK i \in DOMAIN levels : r \in levels[i] /\ i <= lvl
    BY <2>1 DEF LevelPosition
  <2>4. LevelOf(p) = lvl /\ LevelOf(r) = i
    BY <2>2, <2>3, LevelOfIs
  <2> QED
    BY <2>3, <2>4
<1> QED
  BY <1>1, IInvHolds, PTL

(* What extracted something has its place in the plan.                     *)
LEMMA ExtractingPlanned ==
    ASSUME IInv, NEW p \in coll.kept, results[p].extracted # {}
    PROVE  \E j \in DOMAIN levels : p \in levels[j] /\ LevelOf(p) = j
<1>1. p \in Requests
  BY DEF IInv, Types, CollectionType
<1>2. Begun(p)
  BY <1>1 DEF IInv, SlotsFilled, ZeroResult, Begun, At
<1>3. PICK j \in DOMAIN levels : p \in levels[j]
  BY <1>1, <1>2 DEF IInv, LevelPosition
<1> QED
  BY <1>3, LevelOfIs

LEMMA SendingPlanned ==
    ASSUME IInv, NEW r \in coll.kept, sends[r] > 0
    PROVE  \E i \in DOMAIN levels : r \in levels[i] /\ LevelOf(r) = i
<1>1. r \in Requests
  BY DEF IInv, Types, CollectionType
<1>2. Begun(r)
  BY <1>1 DEF IInv, SlotsFilled, Tried, Begun, At
<1>3. PICK i \in DOMAIN levels : r \in levels[i]
  BY <1>1, <1>2 DEF IInv, LevelPosition
<1> QED
  BY <1>3, LevelOfIs

LEMMA SeesLevels == IInv => SeesLevelsBefore
<1> SUFFICES ASSUME IInv, NEW r \in coll.kept, sends[r] > 0, NEW v \in VarNames
             PROVE  IF Before(r, v) = {} THEN saw[r][v] = SeedVars(coll)[v]
                    ELSE saw[r][v] \in Before(r, v) /\ \A q \in Before(r, v) : Wins(saw[r][v], q)
  BY DEF SeesLevelsBefore
<1>1. PICK i \in DOMAIN levels : r \in levels[i] /\ LevelOf(r) = i
  BY SendingPlanned
<1>2. LatestBelow(saw[r][v], v, i)
  BY <1>1 DEF IInv, ValuesBelow
<1>3. levels \in Seq(SUBSET coll.kept) /\ \A j \in DOMAIN levels : levels[j] \subseteq coll.kept
  BY PlanFacts DEF IInv, Types, PlanFollowed
<1>4. \A p \in Before(r, v) :
        \E j \in DOMAIN levels : p \in levels[j] /\ LevelOf(p) = j /\ j < i /\ v \in results[p].extracted
  BY <1>1, ExtractingPlanned DEF Before
<1>5. CASE /\ \A j \in DOMAIN levels : j < i => \A p \in levels[j] : v \notin results[p].extracted
           /\ saw[r][v] = SeedVars(coll)[v]
  <2>1. Before(r, v) = {}
    BY <1>4, <1>5
  <2> QED
    BY <1>5, <2>1
<1>6. ASSUME NEW j \in DOMAIN levels, j < i, saw[r][v] \in levels[j],
             v \in results[saw[r][v]].extracted,
             \A k \in DOMAIN levels : k < i => \A q \in levels[k] :
                v \in results[q].extracted => k < j \/ (k = j /\ q <= saw[r][v])
      PROVE  saw[r][v] \in Before(r, v) /\ \A q \in Before(r, v) : Wins(saw[r][v], q)
  <2>1. LevelOf(saw[r][v]) = j
    BY <1>6, LevelOfIs
  <2>2. saw[r][v] \in Before(r, v)
    BY <1>1, <1>3, <1>6, <2>1 DEF Before
  <2>3. ASSUME NEW q \in Before(r, v) PROVE Wins(saw[r][v], q)
    BY <1>4, <1>6, <2>1, <2>3 DEF Wins
  <2> QED
    BY <2>2, <2>3
<1> QED
  BY <1>2, <1>5, <1>6 DEF LatestBelow

(* Requests are resolved with what the levels before theirs left.          *)
THEOREM SeesLevelsCorrect == Spec => []SeesLevelsBefore
BY SeesLevels, IInvHolds, PTL

(* A well-ordered collection with one source for each variable is resolved *)
(* as the sequential engine would.                                         *)
THEOREM SeesSequentialCorrect == Spec => []SeesSequentialValues
<1>1. IInv => SeesSequentialValues
  <2> SUFFICES ASSUME IInv, WellOrdered(coll), SingleAssignment(coll), NEW r \in coll.kept,
                      sends[r] > 0, NEW v \in Consumed(coll, r)
               PROVE  SeesSequentialValue(r, v)
    BY DEF SeesSequentialValues
  <2>0. /\ v \in VarNames /\ coll.kept \subseteq Requests /\ Requests \subseteq Nat
        /\ coll \in CollectionType /\ Len(levels) \in Nat /\ DOMAIN levels = 1..Len(levels)
    BY PlanFacts, NAssumption DEF IInv, Types, CollectionType, Consumed, Requests, PlanFollowed
  <2>1. PICK i \in DOMAIN levels : r \in levels[i] /\ LevelOf(r) = i
    BY SendingPlanned
  <2>2. ASSUME NEW p \in coll.kept, v \in results[p].extracted
        PROVE  /\ p < r /\ LevelOf(p) < LevelOf(r)
               /\ \A q \in coll.kept : v \in Produced(coll, q) => q = p
    <3>1. v \in Produced(coll, p)
      BY <2>0, <2>2 DEF IInv, SlotsFilled
    <3>2. v \notin coll.seeds /\ \A q \in coll.kept : v \in Produced(coll, q) => q = p
      BY <3>1 DEF SingleAssignment
    <3>3. p < r
      BY <3>2 DEF WellOrdered
    <3>4. Needs(coll, r, p)
      BY <3>1, <3>2 DEF Needs, OnlySource
    <3>5. PICK j \in 1..(i - 1) : p \in levels[j]
      BY <2>1, <3>3, <3>4, PlanFacts DEF IInv, Types, PlanFollowed
    <3>6. j \in DOMAIN levels /\ j < i
      BY <2>0, <2>1
    <3>7. LevelOf(p) = j
      BY <3>5, <3>6, LevelOfIs
    <3> QED
      BY <2>1, <3>2, <3>3, <3>6, <3>7
  <2>3. AboveExtracting(r, v) = Before(r, v)
    BY <2>2 DEF AboveExtracting, Before
  <2>4. \A p, q \in Before(r, v) : p = q
    BY <2>0, <2>2 DEF Before, IInv, SlotsFilled
  <2>5. CASE Before(r, v) = {}
    BY <2>0, <2>3, <2>5, SeesLevels DEF SeesSequentialValue, SeesLevelsBefore
  <2>6. CASE Before(r, v) # {}
    <3>1. saw[r][v] \in Before(r, v)
      BY <2>0, <2>6, SeesLevels DEF SeesLevelsBefore
    <3>2. Before(r, v) \in SUBSET Requests
      BY <2>0 DEF Before
    <3>3. Max(Before(r, v)) = saw[r][v]
      BY <2>4, <3>1, <3>2, LastRequest
    <3> QED
      BY <2>3, <2>6, <3>3 DEF SeesSequentialValue
  <2> QED
    BY <2>5, <2>6
<1> QED
  BY <1>1, IInvHolds, PTL

(* A run that returns without a context error reports what it began, and   *)
(* everything unless --fail-fast ended it; nobody canceled a sibling.      *)
THEOREM NothingVanishesCorrect == Spec => []NothingVanishes
<1>1. IInv => NothingVanishes
  <2> SUFFICES ASSUME IInv, opts.retries >= 0, outcome \in {"done", "saved", "saveError"}
               PROVE  /\ \A r \in coll.kept : Begun(r) \/ ~opts.failFast => r \in report
                      /\ ~opts.failFast => \A r \in report : results[r].error # "canceled"
    BY DEF NothingVanishes
  <2> USE DEF IInv
  <2>1. /\ coll.kept \subseteq Requests /\ NoName \notin Requests /\ opts.retries \in Int
        /\ phase = "stopped" /\ report = Filled
    BY NAssumption, OptionsAssumption
    DEF Types, CollectionType, Requests, NoName, RequestTypeOK, OptionType, ReturnExplained
  <2>2. ASSUME NEW r \in coll.kept, Begun(r) \/ ~opts.failFast PROVE r \in report
    <3>1. r \in Requests /\ At(r, "recorded")
      BY <2>1, <2>2 DEF ReturnExplained, Finished
    <3>2. results[r].name = r
      BY <2>1, <3>1 DEF SlotsFilled
    <3> QED
      BY <2>1, <3>1, <3>2 DEF Filled, InReport
  <2>3. ASSUME ~opts.failFast, NEW r \in report PROVE results[r].error # "canceled"
    BY <2>1, <2>3 DEF ReturnExplained, Filled
  <2> QED
    BY <2>2, <2>3
<1> QED
  BY <1>1, IInvHolds, PTL

-----------------------------------------------------------------------------
(* When an interrupted run reports what it began.                          *)

(* The loop over the levels came to its end, or to that of a failed group. *)
LoopEnded == lvl > Len(levels) \/ groupErr

NoneBegun == \A r \in coll.kept : ~Begun(r)

(* The slots are copied when the loop has ended, and only then.            *)
CopyExplained ==
    /\ phase \in {"prepare", "plan", "levels"} => ~groupErr
    /\ phase \in {"copy", "saving"} => LoopEnded
    /\ phase = "stopped" =>
        \/ LoopEnded /\ report = Filled
        \/ ~LoopEnded /\ report = {}
        \/ NoneBegun

LEMMA CopyStep ==
    ASSUME IInv, CopyExplained, [Next]_vars
    PROVE  CopyExplained'
<1> USE DEF IInv
<1>1. CASE QuietStep
  <2>1. LoopEnded' = LoopEnded /\ Filled' = Filled /\ (NoneBegun => NoneBegun') /\ groupErr' = groupErr
    BY <1>1 DEF QuietStep, LoopEnded, Filled, NoneBegun, Begun, At, planVars
  <2>2. CASE UNCHANGED <<phase, report, outcome>>
    BY <2>1, <2>2 DEF CopyExplained
  <2>3. CASE StopsEarly
    <3>1. report' = {} /\ phase' = "stopped"
      BY <2>3 DEF StopsEarly, ReturnExplained
    <3>2. CASE phase = "prepare"
      <4>1. coll.kept \subseteq Requests
        BY DEF Types, CollectionType
      <4>2. NoneBegun
        BY <3>2, <4>1 DEF LevelPosition, NoneBegun
      <4> QED
        BY <2>1, <3>1, <4>2 DEF CopyExplained
    <3>3. CASE phase = "levels" /\ lvl <= Len(levels)
      <4>1. lvl \in Nat /\ Len(levels) \in Nat
        BY PlanFacts DEF Types, PlanFollowed
      <4>2. ~LoopEnded
        BY <3>3, <4>1 DEF LoopEnded, CopyExplained
      <4> QED
        BY <2>1, <3>1, <4>2 DEF CopyExplained
    <3> QED
      BY <2>3, <3>2, <3>3 DEF StopsEarly
  <2>4. CASE LeavesLevels
    BY <2>1, <2>4 DEF LeavesLevels, LoopEnded, CopyExplained
  <2>5. CASE Copies
    BY <2>1, <2>5 DEF Copies, CopyExplained
  <2>6. CASE Saves
    BY <2>1, <2>6 DEF Saves, CopyExplained, ReturnExplained
  <2> QED
    BY <1>1, <2>2, <2>3, <2>4, <2>5, <2>6 DEF QuietStep, Goes
<1>2. CASE StartsLevel
  BY <1>2 DEF StartsLevel, CopyExplained
<1>3. CASE EndsLevel
  BY <1>3 DEF EndsLevel, CopyExplained
<1>4. CASE FilterRequests \/ BuildDepGraph
  BY <1>4 DEF FilterRequests, BuildDepGraph, levelVars, CopyExplained
<1>5. ASSUME NEW r \in Requests, Works(r) \/ \E rr : Fills(r, rr) PROVE CopyExplained'
  BY <1>5 DEF Works, Fills, CopyExplained
<1> QED
  BY <1>1, <1>2, <1>3, <1>4, <1>5, Steps

(* An interrupted run reports every request it began, as                   *)
(* run_collection.go:486-487 says, if and only if its loop over the levels *)
(* had ended: what is lost is what the levels had settled when the context *)
(* ended between two of them (run_collection.go:411).                      *)
THEOREM ReportedIffLoopEnded ==
    Spec => [](opts.retries >= 0 /\ Stopped => (InterruptedReported <=> LoopEnded \/ NoneBegun))
<1> DEFINE Exactly == opts.retries >= 0 /\ Stopped => (InterruptedReported <=> LoopEnded \/ NoneBegun)
<1>1. Init => CopyExplained
  BY DEF Init, CopyExplained
<1>2. IInv /\ CopyExplained /\ [Next]_vars => CopyExplained'
  BY CopyStep
<1>3. IInv /\ CopyExplained => Exactly
  <2> SUFFICES ASSUME IInv, CopyExplained, opts.retries >= 0, Stopped
               PROVE  InterruptedReported <=> LoopEnded \/ NoneBegun
    OBVIOUS
  <2> USE DEF IInv
  <2>1. /\ coll.kept \subseteq Requests /\ NoName \notin Requests /\ opts.retries \in Int
        /\ phase = "stopped"
    BY NAssumption, OptionsAssumption
    DEF Types, CollectionType, Requests, NoName, RequestTypeOK, OptionType, Stopped
  <2>2. ASSUME NEW r \in coll.kept, Begun(r) PROVE r \in Filled
    <3>1. At(r, "recorded")
      BY <2>1, <2>2 DEF ReturnExplained
    <3>2. results[r].name = r
      BY <2>1, <2>2, <3>1 DEF SlotsFilled
    <3> QED
      BY <2>1, <3>2 DEF Filled, InReport
  <2>3. CASE LoopEnded /\ report = Filled
    BY <2>1, <2>2, <2>3 DEF InterruptedReported
  <2>4. CASE ~LoopEnded /\ report = {}
    BY <2>1, <2>4 DEF InterruptedReported, NoneBegun, Stopped
  <2>5. CASE NoneBegun
    BY <2>1, <2>5 DEF InterruptedReported, NoneBegun
  <2> QED
    BY <2>1, <2>3, <2>4, <2>5 DEF CopyExplained
<1> QED
  BY <1>1, <1>2, <1>3, IInvHolds, PTL DEF Spec

-----------------------------------------------------------------------------
(* The contract of Execute, for runs whose results have names: retries are *)
(* not negative.                                                           *)

BegunRequests == {r \in Requests : Begun(r)}

SettledRequests == {r \in Requests : Settled(r)}

(* What settled is what was recorded, and what was recorded had begun.     *)
LEMMA SettledAreRecorded ==
    ASSUME IInv, opts.retries >= 0
    PROVE  /\ \A r \in Requests : Settled(r) <=> At(r, "recorded")
           /\ SettledRequests \subseteq BegunRequests
           /\ phase \in {"copy", "saving", "stopped"} => SettledRequests = BegunRequests
           /\ report \subseteq SettledRequests
<1>1. NoName \notin Requests /\ opts.retries \in Int
  BY NAssumption, OptionsAssumption DEF Requests, NoName, IInv, Types, RequestTypeOK, OptionType
<1>2. \A r \in Requests : Settled(r) <=> At(r, "recorded")
  BY <1>1 DEF IInv, SlotsFilled, Settled, ZeroResult
<1>3. \A r \in Requests : At(r, "recorded") => Begun(r)
  BY DEF Begun, At
<1>4. report \subseteq SettledRequests
  BY DEF IInv, ReturnExplained, Filled, InReport, SettledRequests, Settled
<1> QED
  BY <1>2, <1>3, <1>4 DEF SettledRequests, BegunRequests, IInv, ReturnExplained

LEMMA SettledNext == (IInv /\ opts.retries >= 0 =>
        /\ \A r \in Requests : Settled(r) <=> At(r, "recorded")
        /\ phase \in {"copy", "saving", "stopped"} => SettledRequests = BegunRequests)'
BY SettledAreRecorded, PTL

(* The sources of a request of the level at hand have settled. *)
LEMMA LevelSourcesSettled ==
    ASSUME IInv, opts.retries >= 0, lvl \in DOMAIN levels, NEW r \in levels[lvl],
           NEW p \in coll.kept, p < r, Contract!Needs(coll, r, p)
    PROVE  p \in SettledRequests
<1> USE DEF IInv
<1>1. /\ DOMAIN levels = 1..Len(levels) /\ Len(levels) \in Nat /\ p \in Requests
  BY PlanFacts DEF Types, PlanFollowed, CollectionType
<1>2. Needs(coll, r, p)
  BY DEF Contract!Needs, Needs, Contract!OnlySource, OnlySource, Contract!Consumed, Consumed,
         Contract!Produced, Produced
<1>3. PICK j \in 1..(lvl - 1) : p \in levels[j]
  BY <1>2, PlanFacts DEF Types, PlanFollowed
<1>4. j \in DOMAIN levels /\ j < lvl
  BY <1>1
<1>5. At(p, "recorded")
  BY <1>3, <1>4 DEF LevelPosition
<1> QED
  BY <1>1, <1>5, SettledAreRecorded DEF SettledRequests

LEMMA ContractInit == Init => Contract!Init
<1> SUFFICES ASSUME Init PROVE Contract!Init
  OBVIOUS
<1>1. \A r \in Requests : ~Begun(r) /\ ~Settled(r)
  BY DEF Init, RequestInit, Begun, At, Idle, Settled, ZeroResult
<1>2. coll \in Collections /\ outcome = "running" /\ ~Stopped
  BY DEF Init, Stopped
<1> QED
  BY <1>1, <1>2 DEF Contract!Init

LEMMA ContractStep ==
    ASSUME IInv, IInv', opts.retries >= 0, [Next]_vars
    PROVE  [Contract!Next]_(Contract!vars)
<1> USE DEF IInv
<1>0. /\ coll.kept \subseteq Requests
      /\ phase # "stopped" <=> outcome = "running"
      /\ phase \notin {"saving", "stopped"} => report = {}
      /\ SettledRequests \subseteq BegunRequests /\ report \subseteq SettledRequests
      /\ phase \in {"copy", "saving", "stopped"} => SettledRequests = BegunRequests
      /\ \A r \in Requests : Settled(r) <=> At(r, "recorded")
  BY SettledAreRecorded DEF Types, CollectionType, ReturnExplained
<1>1. ASSUME UNCHANGED <<coll, work, results, phase, report, outcome>> PROVE UNCHANGED Contract!vars
  BY <1>1 DEF Contract!vars, Stopped, Begun, At, Settled
<1>2. CASE QuietStep
  <2>1. /\ UNCHANGED <<coll, opts, work, results>>
        /\ BegunRequests' = BegunRequests /\ SettledRequests' = SettledRequests
    BY <1>2 DEF QuietStep, BegunRequests, SettledRequests, Begun, At, Settled
  <2>2. CASE UNCHANGED <<phase, report, outcome>>
    BY <1>1, <2>1, <2>2
  <2>3. CASE LeavesLevels
    <3>1. ~Stopped /\ ~Stopped' /\ UNCHANGED <<report, outcome>>
      BY <2>3 DEF LeavesLevels, Stopped
    <3> QED
      BY <2>1, <3>1 DEF Contract!vars, BegunRequests, SettledRequests
  <2>4. CASE phase = "copy" /\ phase' = "saving" /\ outcome' = outcome
    <3>1. ~Stopped /\ ~Stopped'
      BY <2>4 DEF Stopped
    <3> QED
      BY <2>1, <2>4, <3>1 DEF Contract!vars, BegunRequests, SettledRequests
  <2>5. ASSUME phase # "stopped", phase' = "stopped",
               outcome' \in {"error", "interrupted", "done", "saved", "saveError"}
        PROVE  Contract!Return(outcome')
    <3>1. SettledRequests = BegunRequests
      BY <1>0, <2>1, <2>5, SettledNext
    <3>2. report' \subseteq Filled'
      BY DEF ReturnExplained
    <3>3. Filled' = SettledRequests
      BY <2>1 DEF Filled, InReport, SettledRequests, Settled
    <3>4. outcome' \in {"done", "saved", "saveError"} => report' = Filled'
      BY DEF ReturnExplained
    <3>5. outcome = "running" /\ Stopped'
      BY <1>0, <2>5 DEF Stopped
    <3> QED
      BY <2>1, <3>1, <3>2, <3>3, <3>4, <3>5 DEF Contract!Return, BegunRequests, SettledRequests
  <2>6. ASSUME StopsEarly \/ Copies \/ Saves,
               ~(phase = "copy" /\ phase' = "saving" /\ outcome' = outcome)
        PROVE  /\ phase # "stopped" /\ phase' = "stopped"
               /\ outcome' \in {"error", "interrupted", "done", "saved", "saveError"}
    BY <2>6 DEF StopsEarly, Copies, Saves
  <2>7. Contract!Return(outcome') /\ outcome' \in {"error", "interrupted", "done", "saved", "saveError"}
            => Contract!Next
    BY DEF Contract!Next
  <2> QED
    BY <1>2, <2>2, <2>3, <2>4, <2>5, <2>6, <2>7 DEF QuietStep, Goes
<1>3. CASE StartsLevel \/ EndsLevel
  <2>1. /\ UNCHANGED <<coll, work, results, report, outcome>> /\ ~Stopped /\ ~Stopped'
    BY <1>3 DEF StartsLevel, EndsLevel, endVars, Stopped
  <2> QED
    BY <2>1 DEF Contract!vars, Begun, At, Settled
<1>4. CASE BuildDepGraph
  <2>1. /\ UNCHANGED <<coll, work, results, report, outcome>> /\ ~Stopped /\ ~Stopped'
    BY <1>4 DEF BuildDepGraph, requestVars, levelVars, endVars, Stopped, Graph!GraphNext,
       Graph!AddLevel, Graph!SerializeNext
  <2> QED
    BY <2>1 DEF Contract!vars, Begun, At, Settled
<1>5. CASE FilterRequests
  <2>1. PICK selected \in Filters :
            coll.kept \cap selected # {} /\ coll' = [coll EXCEPT !.kept = @ \cap selected]
    BY <1>5 DEF FilterRequests
  <2>2. /\ UNCHANGED <<work, results, report, outcome>> /\ ~Stopped /\ ~Stopped'
        /\ phase = "prepare"
    BY <1>5 DEF FilterRequests, requestVars, levelVars, endVars, Stopped
  <2>3. BegunRequests = {}
    BY <2>2 DEF LevelPosition, BegunRequests
  <2>4. BegunRequests' = BegunRequests /\ SettledRequests' = SettledRequests
    BY <2>2 DEF BegunRequests, SettledRequests, Begun, At, Settled
  <2>5. coll.kept \cap selected \in (SUBSET coll.kept) \ {{}}
    BY <2>1
  <2>6. coll' = [coll EXCEPT !.kept = coll.kept \cap selected]
    BY <2>1
  <2>7. Contract!Select
    BY <1>0, <2>2, <2>3, <2>4, <2>5, <2>6
    DEF Contract!Select, BegunRequests, SettledRequests, Stopped
  <2> QED
    BY <2>7 DEF Contract!Next
<1>6. ASSUME NEW r \in Requests, Works(r) PROVE [Contract!Next]_(Contract!vars)
  <2>1. /\ UNCHANGED <<coll, levels, lvl, phase, results, report, outcome>>
        /\ phase = "level" /\ r \in levels[lvl] /\ lvl \in DOMAIN levels
    BY <1>6 DEF Works, planVars, endVars, LevelPosition
  <2>2. /\ \A q \in Requests : q # r => work'[q] = work[q]
        /\ Begun(r)'
    BY <1>6, WorkChanges
  <2>3. /\ BegunRequests' = BegunRequests \cup {r} /\ SettledRequests' = SettledRequests
        /\ ~Stopped /\ ~Stopped'
    BY <2>1, <2>2 DEF BegunRequests, SettledRequests, Begun, At, Settled, Stopped
  <2>4. CASE Begun(r)
    <3>1. BegunRequests' = BegunRequests
      BY <2>3, <2>4 DEF BegunRequests
    <3> QED
      BY <2>1, <2>3, <3>1 DEF Contract!vars, BegunRequests, SettledRequests
  <2>5. CASE ~Begun(r)
    <3>1. r \in coll.kept
      BY <2>1, PlanFacts DEF Types, PlanFollowed
    <3>2. \A p \in coll.kept : p < r /\ Contract!Needs(coll, r, p) => p \in SettledRequests
      BY <2>1, LevelSourcesSettled
    <3>3. outcome = "running" /\ r \notin BegunRequests
      BY <1>0, <2>1, <2>5 DEF BegunRequests
    <3>4. Contract!Begin(r)
      BY <2>1, <2>3, <3>1, <3>2, <3>3
      DEF Contract!Begin, Contract!SourcesSettled, BegunRequests, SettledRequests
    <3> QED
      BY <3>4 DEF Contract!Next, Contract!Requests, Requests
  <2> QED
    BY <2>4, <2>5
<1>7. ASSUME NEW r \in Requests, NEW rr, Fills(r, rr) PROVE Contract!Next
  <2>1. /\ UNCHANGED <<coll, opts, levels, lvl, phase, report, outcome>>
        /\ phase = "level" /\ r \in levels[lvl] /\ lvl \in DOMAIN levels
        /\ ~At(r, "recorded")
    BY <1>7 DEF Fills, planVars, endVars, LevelPosition
  <2>2. /\ \A q \in Requests : q # r => work'[q] = work[q] /\ results'[q] = results[q]
        /\ At(r, "recorded")' /\ Begun(r)'
    BY <1>7, FillChanges
  <2>3. Settled(r)'
    BY <2>1, <2>2, SettledNext
  <2>4. /\ BegunRequests' = BegunRequests \cup {r} /\ SettledRequests' = SettledRequests \cup {r}
        /\ ~Stopped /\ ~Stopped'
    BY <2>1, <2>2, <2>3 DEF BegunRequests, SettledRequests, Begun, At, Settled, Stopped
  <2>5. r \in coll.kept /\ r \notin SettledRequests
    BY <1>0, <2>1, PlanFacts DEF Types, PlanFollowed, SettledRequests
  <2>6. \A p \in coll.kept : p < r /\ Contract!Needs(coll, r, p) => p \in SettledRequests
    BY <2>1, LevelSourcesSettled
  <2>7. outcome = "running"
    BY <1>0, <2>1
  <2>8. Contract!Settle(r)
    BY <2>1, <2>4, <2>5, <2>6, <2>7
    DEF Contract!Settle, Contract!SourcesSettled, BegunRequests, SettledRequests
  <2> QED
    BY <2>8 DEF Contract!Next, Contract!Requests, Requests
<1> QED
  BY <1>2, <1>3, <1>4, <1>5, <1>6, <1>7, Steps

(* Every run of the parallel engine, in any interleaving, is a run of the  *)
(* contract the sequential engine implements.                              *)
THEOREM ParImplementsContract ==
    ASSUME \A o \in OptionSets : o.retries >= 0
    PROVE  Spec => ImplementsContract
<1>1. IInv /\ IInv' /\ [Next]_vars => [Contract!Next]_(Contract!vars)
  <2>1. IInv => opts.retries >= 0
    BY DEF IInv, Types, RequestTypeOK
  <2> QED
    BY <2>1, ContractStep
<1> QED
  BY <1>1, IInvHolds, ContractInit, PTL DEF Spec, ImplementsContract, Contract!Spec

-----------------------------------------------------------------------------
(* How far the run still is from its end, in each of its parts: the stage  *)
(* Execute is in, the levels it has still to run, the steps its requests   *)
(* have still to make, and whether its context may still end.              *)
Stages ==
    [prepare |-> 5, plan |-> 4, levels |-> 3, level |-> 3, copy |-> 2, saving |-> 1, stopped |-> 0]

LevelsLeft ==
    IF phase \in {"levels", "level"} /\ lvl <= Len(levels)
    THEN 2 * (Len(levels) - lvl) + IF phase = "level" THEN 1 ELSE 2
    ELSE 0

TurnsLeft(r) == StepsLeft(r) + IF phase = "prepare" \/ r \in remaining THEN 1 ELSE 0

EndsLeft == IF ctx = "live" THEN 1 ELSE 0

(* A step ends a stage, or brings some part of it nearer to its end and    *)
(* takes none further away.                                                *)
WindsDown ==
    /\ Stages[phase'] <= Stages[phase]
    /\ EndsLeft' <= EndsLeft
    /\ \A r \in Requests : TurnsLeft(r)' <= TurnsLeft(r)
    /\ \/ Stages[phase'] < Stages[phase]
       \/ /\ LevelsLeft' <= LevelsLeft
          /\ \/ LevelsLeft' < LevelsLeft
             \/ EndsLeft' < EndsLeft
             \/ \E r \in Requests : TurnsLeft(r)' < TurnsLeft(r)

Measured ==
    /\ Stages[phase] \in Nat
    /\ LevelsLeft \in Nat
    /\ EndsLeft \in Nat
    /\ \A r \in Requests : TurnsLeft(r) \in Nat

LEMMA MeasureTypes == IInv => Measured
<1> SUFFICES ASSUME IInv PROVE Measured
  OBVIOUS
<1>1. Stages[phase] \in Nat /\ EndsLeft \in Nat
  BY DEF IInv, Types, Stages, EndsLeft
<1>2. \A r \in Requests : StepsLeft(r) \in Nat
  BY StepsLeftType DEF IInv, Types
<1>3. \A r \in Requests : TurnsLeft(r) \in Nat
  BY <1>2 DEF TurnsLeft
<1>4. LevelsLeft \in Nat
  <2>1. Len(levels) \in Nat /\ lvl \in Nat
    BY PlanFacts DEF IInv, Types, PlanFollowed
  <2> QED
    BY <2>1 DEF LevelsLeft
<1> QED
  BY <1>1, <1>3, <1>4 DEF Measured

LEMMA MeasuredNext == (IInv => \A r \in Requests : StepsLeft(r) \in Nat)'
<1>1. IInv => \A r \in Requests : StepsLeft(r) \in Nat
  BY StepsLeftType DEF IInv, Types
<1> QED
  BY <1>1, PTL

LEMMA UntouchedSteps ==
    ASSUME NEW r \in Requests, work' = work, opts' = opts
    PROVE  StepsLeft(r)' = StepsLeft(r)
BY DEF StepsLeft, AttemptsLeft, MaxAttempts

LEMMA WindsDownStep ==
    ASSUME IInv, IInv', Next, ~UNCHANGED vars
    PROVE  WindsDown
<1> USE DEF WindsDown
<1>1. /\ phase \in DOMAIN Stages /\ phase' \in DOMAIN Stages
      /\ \A x \in DOMAIN Stages : Stages[x] \in Nat
      /\ RequestTypeOK
      /\ \A r \in Requests : StepsLeft(r) \in Nat /\ StepsLeft(r)' \in Nat
      /\ Len(levels) \in Nat /\ lvl \in Nat /\ LevelsLeft \in Nat /\ EndsLeft \in Nat
      /\ phase = "level" => lvl <= Len(levels)
  <2>1. \A r \in Requests : StepsLeft(r) \in Nat /\ StepsLeft(r)' \in Nat
    BY MeasureTypes, MeasuredNext, StepsLeftType DEF IInv, Types
  <2>2. /\ Len(levels) \in Nat /\ lvl \in Nat /\ DOMAIN levels = 1..Len(levels)
        /\ phase = "level" => lvl \in DOMAIN levels
    BY PlanFacts DEF IInv, Types, PlanFollowed, LevelPosition
  <2>3. phase \in DOMAIN Stages /\ phase' \in DOMAIN Stages /\ RequestTypeOK
    BY DEF IInv, Types, Stages
  <2>4. \A x \in DOMAIN Stages : Stages[x] \in Nat
    BY DEF Stages
  <2> QED
    BY <2>1, <2>2, <2>3, <2>4, MeasureTypes DEF Measured
<1>2. ASSUME UNCHANGED <<ctx, opts, work, remaining>>, Stages[phase'] < Stages[phase]
      PROVE  WindsDown
  <2>1. EndsLeft' = EndsLeft
    BY <1>2 DEF EndsLeft
  <2>2. phase' # "prepare"
    BY <1>1, <1>2 DEF Stages
  <2>3. \A r \in Requests : TurnsLeft(r)' <= TurnsLeft(r)
    BY <1>1, <1>2, <2>2, UntouchedSteps DEF TurnsLeft
  <2> QED
    BY <1>1, <1>2, <2>1, <2>3
<1>3. ASSUME NEW r \in Requests, UNCHANGED <<ctx, opts, levels, remaining, phase, lvl>>,
             StepsLeft(r)' < StepsLeft(r),
             \A q \in Requests : q # r => StepsLeft(q)' = StepsLeft(q)
      PROVE  WindsDown
  <2>1. EndsLeft' = EndsLeft /\ LevelsLeft' = LevelsLeft
    BY <1>3 DEF EndsLeft, LevelsLeft
  <2>2. TurnsLeft(r)' < TurnsLeft(r)
    BY <1>1, <1>3 DEF TurnsLeft
  <2>3. \A q \in Requests : q # r => TurnsLeft(q)' <= TurnsLeft(q)
    BY <1>1, <1>3 DEF TurnsLeft
  <2>4. TurnsLeft(r) \in Nat /\ TurnsLeft(r)' \in Nat
    BY <1>1 DEF TurnsLeft
  <2> QED
    BY <1>1, <1>3, <2>1, <2>2, <2>3, <2>4
<1>4. CASE PrepareFails \/ LoopSeesContextDone \/ LevelsExhausted \/ CopyResults \/ SaveRun
  <2>1. UNCHANGED <<ctx, opts, work, remaining>>
    BY <1>4 DEF PrepareFails, LoopSeesContextDone, LevelsExhausted, CopyResults, SaveRun,
       fixed, requestVars, graphVars
  <2>2. Stages[phase'] < Stages[phase]
    BY <1>4 DEF PrepareFails, LoopSeesContextDone, LevelsExhausted, CopyResults, SaveRun, Stop, Stages
  <2> QED
    BY <1>2, <2>1, <2>2
<1>5. CASE FilterRequests
  <2>1. phase = "prepare" /\ phase' = "plan" /\ UNCHANGED <<ctx, opts, work>>
    BY <1>5 DEF FilterRequests, requestVars
  <2>2. \A r \in Requests : TurnsLeft(r)' <= TurnsLeft(r)
    BY <1>1, <2>1, UntouchedSteps DEF TurnsLeft
  <2> QED
    BY <2>1, <2>2 DEF Stages, EndsLeft
<1>6. CASE BuildDepGraph
  <2>1. /\ phase = "plan" /\ phase' \in {"plan", "levels"} /\ UNCHANGED <<ctx, opts, work>>
        /\ Graph!GraphNext
    BY <1>6 DEF BuildDepGraph, requestVars
  <2>2. remaining \subseteq Requests
    BY PlanFacts DEF IInv, Types, PlanFollowed, CollectionType
  <2>3. PICK r \in remaining : r \notin remaining'
    BY <2>1 DEF Graph!GraphNext, Graph!AddLevel, Graph!SerializeNext, Graph!Ready
  <2>4. remaining' \subseteq remaining
    BY <2>1 DEF Graph!GraphNext, Graph!AddLevel, Graph!SerializeNext
  <2>5. TurnsLeft(r)' < TurnsLeft(r) /\ \A q \in Requests : TurnsLeft(q)' <= TurnsLeft(q)
    BY <1>1, <2>1, <2>2, <2>3, <2>4, UntouchedSteps DEF TurnsLeft
  <2>6. EndsLeft' = EndsLeft
    BY <2>1 DEF EndsLeft
  <2>7. CASE phase' = "plan"
    <3>1. LevelsLeft = 0 /\ LevelsLeft' = 0
      BY <2>1, <2>7 DEF LevelsLeft
    <3> QED
      BY <1>1, <2>1, <2>2, <2>5, <2>6, <2>7, <3>1
  <2>8. CASE phase' = "levels"
    <3>1. Stages[phase'] < Stages[phase]
      BY <2>1, <2>8 DEF Stages
    <3> QED
      BY <1>1, <2>5, <2>6, <3>1
  <2> QED
    BY <2>1, <2>7, <2>8
<1>7. CASE StartLevel
  <2>1. /\ UNCHANGED <<ctx, opts, work, remaining, levels, lvl>> /\ lvl <= Len(levels)
        /\ phase = "levels" /\ phase' = "level"
    BY <1>7 DEF StartLevel, fixed, requestVars, graphVars
  <2>2. LevelsLeft' < LevelsLeft
    BY <1>1, <2>1 DEF LevelsLeft
  <2>3. \A r \in Requests : TurnsLeft(r)' <= TurnsLeft(r)
    BY <1>1, <2>1, UntouchedSteps DEF TurnsLeft
  <2>4. EndsLeft' = EndsLeft /\ Stages[phase'] = Stages[phase] /\ Stages[phase] \in Nat
    BY <1>1, <2>1 DEF EndsLeft, Stages
  <2>5. LevelsLeft' \in Int
    BY <1>1, <2>1 DEF LevelsLeft
  <2> QED
    BY <1>1, <2>1, <2>2, <2>3, <2>4, <2>5
<1>8. CASE EndLevel /\ groupErr
  <2>1. UNCHANGED <<ctx, opts, work, remaining>> /\ phase = "level" /\ phase' = "copy"
    BY <1>8 DEF EndLevel, fixed, requestVars, graphVars
  <2> QED
    BY <1>2, <2>1 DEF Stages
<1>9. CASE EndLevel /\ ~groupErr
  <2>1. /\ UNCHANGED <<ctx, opts, work, remaining, levels>> /\ lvl' = lvl + 1
        /\ phase = "level" /\ phase' = "levels"
    BY <1>9 DEF EndLevel, fixed, requestVars, graphVars
  <2>2. LevelsLeft' < LevelsLeft
    BY <1>1, <2>1 DEF LevelsLeft
  <2>3. \A r \in Requests : TurnsLeft(r)' <= TurnsLeft(r)
    BY <1>1, <2>1, UntouchedSteps DEF TurnsLeft
  <2>4. EndsLeft' = EndsLeft /\ Stages[phase'] = Stages[phase] /\ Stages[phase] \in Nat
    BY <1>1, <2>1 DEF EndsLeft, Stages
  <2>5. LevelsLeft' \in Int
    BY <1>1, <2>1 DEF LevelsLeft
  <2> QED
    BY <1>1, <2>1, <2>2, <2>3, <2>4, <2>5
<1>10. ASSUME NEW r \in Requests, RequestTurn(r) PROVE WindsDown
  <2>1. /\ UNCHANGED <<ctx, opts, levels, remaining, phase, lvl>>
        /\ \/ StartRequest(r) \/ RequestStep(r, gctx, levelEnv)
           \/ Recorded(r) /\ ~At(r, "recorded")
    BY <1>10 DEF RequestTurn, WorkOnRequest, RecordErrored, RecordEvaluated, At, fixed, graphVars, levelVars
  <2> QED
    BY <1>1, <1>3, <2>1, StepsFall
<1>11. CASE ContextEnds
  <2>1. /\ UNCHANGED <<opts, work, phase, remaining, levels, lvl>> /\ ctx = "live" /\ ctx' # "live"
    BY <1>11 DEF ContextEnds, UserCancels, DeadlinePasses, fixed, requestVars, graphVars
  <2>2. LevelsLeft' = LevelsLeft /\ \A r \in Requests : TurnsLeft(r)' <= TurnsLeft(r)
    BY <1>1, <2>1, UntouchedSteps DEF TurnsLeft, LevelsLeft
  <2> QED
    BY <1>1, <2>1, <2>2 DEF EndsLeft
<1> QED
  BY <1>4, <1>5, <1>6, <1>7, <1>8, <1>9, <1>10, <1>11 DEF Next, EngineStep, Idles

(* No parallel run goes on for ever: however its goroutines interleave,    *)
(* whatever the network answers and whoever is canceled, a step brings the *)
(* run nearer to its return, in parts that are natural numbers             *)
(* (run_collection.go:397-489).                                            *)
THEOREM RunIsFinite == Spec => []Measured /\ [][WindsDown]_vars
<1>1. IInv /\ IInv' /\ [Next]_vars => [WindsDown]_vars
  BY WindsDownStep
<1> QED
  BY <1>1, MeasureTypes, IInvHolds, PTL DEF Spec
=============================================================================
