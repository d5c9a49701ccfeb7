------------------------------- MODULE ParRun -------------------------------
(***************************************************************************)
(* RunCollection.Execute with --parallel: the dependency graph is built,   *)
(* then level after level runs, one goroutine per request under an         *)
(* errgroup.  Goroutines read a snapshot of the variables and write their  *)
(* own result slot; the first error of a level cancels the group's context *)
(* for the others.  Extracted variables are merged between levels.         *)
(***************************************************************************)
EXTENDS RequestRun, Sequences, FiniteSetsExt

CONSTANT Filters     \* what --only/--tags may select

ASSUME FiltersAssumption == Filters \subseteq SUBSET Requests

VARIABLES
    available, remaining, levels,   \* BuildDepGraph's
    phase,      \* where Execute is
    lvl,        \* the level being run
    gctx,       \* the errgroup's context
    groupErr,   \* whether a goroutine of the group returned an error
    env,        \* vars
    levelEnv,   \* levelVars: the snapshot the goroutines read
    results,    \* one slot per request
    report,     \* the requests whose slots are in run.Results, in index order
    outcome     \* what Execute returned

Graph == INSTANCE DepGraph WITH Collections <- CollectionType

graphVars == <<available, remaining, levels>>
levelVars == <<lvl, gctx, groupErr, env, levelEnv, results>>
endVars == <<report, outcome>>
fixed == <<coll, opts>>
vars == <<fixed, ctx, requestVars, graphVars, phase, levelVars, endVars>>

Init ==
    /\ coll \in Collections
    /\ opts \in OptionSets
    /\ ctx = "live"
    /\ RequestInit
    /\ Graph!GraphInit
    /\ phase = "prepare"
    /\ lvl = 1
    /\ gctx = "live"
    /\ groupErr = FALSE
    /\ env = SeedVars(coll)
    /\ levelEnv = SeedVars(coll)
    /\ results = [r \in Requests |-> ZeroResult]
    /\ report = {}
    /\ outcome = "running"

Stop(o) == phase' = "stopped" /\ outcome' = o

PrepareFails ==
    /\ phase = "prepare"
    /\ Stop("error")
    /\ UNCHANGED <<fixed, ctx, requestVars, graphVars, levelVars, report>>

FilterRequests ==
    /\ phase = "prepare"
    /\ \E selected \in Filters :
        /\ coll.kept \cap selected # {}
        /\ coll' = [coll EXCEPT !.kept = @ \cap selected]
        /\ remaining' = coll.kept \cap selected
    /\ phase' = "plan"
    /\ UNCHANGED <<opts, ctx, requestVars, available, levels, levelVars, endVars>>

BuildDepGraph ==
    /\ phase = "plan"
    /\ Graph!GraphNext
    /\ phase' = IF remaining' = {} THEN "levels" ELSE "plan"
    /\ UNCHANGED <<opts, ctx, requestVars, levelVars, endVars>>

-----------------------------------------------------------------------------
(* The loop over the levels. *)

(* Returns without the copy of the slots that have been filled. *)
LoopSeesContextDone ==
    /\ phase = "levels"
    /\ lvl <= Len(levels)
    /\ ctx # "live"
    /\ Stop("interrupted")
    /\ UNCHANGED <<fixed, ctx, requestVars, graphVars, levelVars, report>>

(* Mutant: the snapshot of the first level serves them all. *)
StaleSnapshot == levelEnv

Snapshot == env

StartLevel ==
    /\ phase = "levels"
    /\ lvl <= Len(levels)
    /\ ctx = "live"
    /\ levelEnv' = Snapshot
    /\ gctx' = ctx
    /\ groupErr' = FALSE
    /\ phase' = "level"
    /\ UNCHANGED <<fixed, ctx, requestVars, graphVars, lvl, env, results, endVars>>

(* A goroutine is scheduled, or makes its next step. *)
WorkOnRequest(r) ==
    /\ phase = "level"
    /\ r \in levels[lvl]
    /\ StartRequest(r) \/ RequestStep(r, gctx, levelEnv)
    /\ UNCHANGED <<fixed, ctx, graphVars, phase, levelVars, endVars>>

(* Mutant: every failure cancels the siblings. *)
AlwaysFailsGroup(failed) == failed

(* Mutant: --fail-fast is ignored. *)
NeverFailsGroup(failed) == FALSE

FailsGroup(failed) == opts.failFast /\ failed

(* The goroutine's return value: the group's first error cancels gctx. *)
GoReturns(failed) ==
    /\ groupErr' = (groupErr \/ failed)
    /\ gctx' = IF failed /\ gctx = "live" THEN "canceled" ELSE gctx

FillSlot(r, rr) == results' = [results EXCEPT ![r] = rr]

RecordErrored(r) ==
    /\ phase = "level"
    /\ r \in levels[lvl]
    /\ \/ At(r, "delayStopped") /\ GoReturns(TRUE)
       \/ At(r, "returned") /\ work[r].runErr # "none" /\ GoReturns(FailsGroup(TRUE))
    /\ FillSlot(r, ErroredResult(r, work[r].runErr))
    /\ Recorded(r)
    /\ UNCHANGED <<fixed, ctx, graphVars, phase, lvl, env, levelEnv, endVars>>

RecordEvaluated(r) ==
    /\ phase = "level"
    /\ r \in levels[lvl]
    /\ At(r, "returned")
    /\ work[r].runErr = "none"
    /\ \E rr \in Evaluations(r, levelEnv) :
        /\ FillSlot(r, rr)
        /\ GoReturns(FailsGroup(Failed(rr)))
    /\ Recorded(r)
    /\ UNCHANGED <<fixed, ctx, graphVars, phase, lvl, env, levelEnv, endVars>>

(* Mutant: the group is not waited for. *)
SomeReturned == \E r \in levels[lvl] : At(r, "recorded")

(* g.Wait returns when every goroutine of the level has. *)
AllReturned == \A r \in levels[lvl] : At(r, "recorded")

Extracting(v) == {r \in levels[lvl] : v \in results[r].extracted}

(* Mutant: the first extraction of a level wins. *)
MergedFirstWins == [v \in VarNames |-> IF Extracting(v) = {} THEN env[v] ELSE Min(Extracting(v))]

(* Slots are merged in index order: the highest that extracted a name wins.*)
Merged == [v \in VarNames |-> IF Extracting(v) = {} THEN env[v] ELSE Max(Extracting(v))]

EndLevel ==
    /\ phase = "level"
    /\ AllReturned
    /\ IF groupErr
       THEN phase' = "copy" /\ UNCHANGED <<env, lvl>>
       ELSE /\ env' = Merged
            /\ lvl' = lvl + 1
            /\ phase' = "levels"
    /\ UNCHANGED <<fixed, ctx, requestVars, graphVars, gctx, groupErr, levelEnv, results, endVars>>

LevelsExhausted ==
    /\ phase = "levels"
    /\ lvl > Len(levels)
    /\ phase' = "copy"
    /\ UNCHANGED <<fixed, ctx, requestVars, graphVars, levelVars, endVars>>

-----------------------------------------------------------------------------
(* After the levels: slots without a name are left out. *)

InReport(rr) == rr.name # NoName

CopyResults ==
    /\ phase = "copy"
    /\ report' = {r \in Requests : InReport(results[r])}
    /\ IF ctx # "live" THEN Stop("interrupted")
       ELSE IF ~opts.store THEN Stop("done")
       ELSE phase' = "saving" /\ UNCHANGED outcome
    /\ UNCHANGED <<fixed, ctx, requestVars, graphVars, levelVars>>

SaveRun ==
    /\ phase = "saving"
    /\ \E o \in {"saved", "saveError"} : Stop(o)
    /\ UNCHANGED <<fixed, ctx, requestVars, graphVars, levelVars, report>>

-----------------------------------------------------------------------------
(* Canceling the run's context cancels the group's with the same error,    *)
(* unless that was canceled before.                                        *)
ContextEnds ==
    /\ UserCancels \/ DeadlinePasses
    /\ gctx' = IF gctx = "live" THEN ctx' ELSE gctx
    /\ UNCHANGED <<fixed, requestVars, graphVars, phase, lvl, groupErr, env, levelEnv, results, endVars>>

RequestTurn(r) == WorkOnRequest(r) \/ RecordErrored(r) \/ RecordEvaluated(r)

EngineStep ==
    \/ PrepareFails
    \/ FilterRequests
    \/ BuildDepGraph
    \/ LoopSeesContextDone
    \/ StartLevel
    \/ EndLevel
    \/ LevelsExhausted
    \/ CopyResults
    \/ SaveRun

Stopped == phase = "stopped"

Idles == Stopped /\ UNCHANGED vars

Next == EngineStep \/ (\E r \in Requests : RequestTurn(r)) \/ ContextEnds \/ Idles

(* Every goroutine is scheduled, timers fire, and every request is answered*)
(* within its timeout; nothing makes the user or the deadline act.         *)
Spec ==
    /\ Init /\ [][Next]_vars
    /\ WF_vars(EngineStep)
    /\ \A r \in Requests : WF_vars(RequestTurn(r))

-----------------------------------------------------------------------------
(* Properties. *)

TypeOK ==
    /\ coll \in CollectionType
    /\ RequestTypeOK
    /\ Graph!TypeOK
    /\ phase \in {"prepare", "plan", "levels", "level", "copy", "saving", "stopped"}
    /\ lvl \in Nat
    /\ gctx \in {"live", "canceled", "deadline"}
    /\ groupErr \in BOOLEAN
    /\ env \in Environment
    /\ levelEnv \in Environment
    /\ results \in [Requests -> Result]
    /\ report \subseteq Requests
    /\ outcome \in {"running", "error", "interrupted", "done", "saved", "saveError"}

Settled(r) == results[r].name # NoName

LevelOf(r) == CHOOSE i \in DOMAIN levels : r \in levels[i]

(* No request runs beside, or before, the only request that extracts what  *)
(* it refers to: that one has settled before it is scheduled               *)
(* (run_collection.go:410-473).                                            *)
StartsAfterSources ==
    \A r, p \in coll.kept :
        Begun(r) /\ p < r /\ Needs(coll, r, p) => Settled(p) \/ opts.retries < 0

(* What a request is resolved with does not depend on how goroutines are   *)
(* scheduled: for each name, the extraction of the latest level before its *)
(* own, in that level the one highest in index, else the seed              *)
(* (run_collection.go:416, 467-472).                                       *)
Before(r, v) == {p \in coll.kept : LevelOf(p) < LevelOf(r) /\ v \in results[p].extracted}

Wins(p, q) == LevelOf(q) < LevelOf(p) \/ (LevelOf(q) = LevelOf(p) /\ q <= p)

SeesLevelsBefore ==
    \A r \in coll.kept : sends[r] > 0 =>
        \A v \in VarNames :
            IF Before(r, v) = {} THEN saw[r][v] = SeedVars(coll)[v]
            ELSE saw[r][v] \in Before(r, v) /\ \A q \in Before(r, v) : Wins(saw[r][v], q)

(* A request refers to the variables the sequential run would give it, in  *)
(* a collection that runs top to bottom and gives every variable one       *)
(* source (docs/collections.md:268, depgraph.go:85-87).                    *)
AboveExtracting(r, v) == {p \in coll.kept : p < r /\ v \in results[p].extracted}

SeesSequentialValue(r, v) ==
    saw[r][v] = IF AboveExtracting(r, v) # {} THEN Max(AboveExtracting(r, v)) ELSE SeedVars(coll)[v]

SeesSequentialValues ==
    WellOrdered(coll) /\ SingleAssignment(coll) =>
        \A r \in coll.kept : sends[r] > 0 =>
            \A v \in Consumed(coll, r) : SeesSequentialValue(r, v)

(* A run that returns without a context error reports every request it     *)
(* began.  Without --fail-fast it reports every request, and a failing one *)
(* takes none of its siblings down: the report holds no canceled request   *)
(* (run_collection.go:435-440, 462-483).                                   *)
NothingVanishes ==
    opts.retries >= 0 /\ outcome \in {"done", "saved", "saveError"} =>
        /\ \A r \in coll.kept : Begun(r) \/ ~opts.failFast => r \in report
        /\ ~opts.failFast => \A r \in report : results[r].error # "canceled"

(* A failure under --fail-fast stops the levels after its own, even when   *)
(* siblings go on or are canceled (run_collection.go:455-465).             *)
FailFastStopsLevels ==
    opts.failFast => \A r, p \in coll.kept :
        Settled(p) /\ Failed(results[p]) /\ Begun(r) =>
            LevelOf(r) <= LevelOf(p)

(* Execute returns, whatever the network answers and whoever is canceled:  *)
(* no goroutine waits for another one of its level.                        *)
Returns == <>Stopped

-----------------------------------------------------------------------------
(* The parallel engine implements the contract of the sequential one.      *)
Contract == INSTANCE RunContract WITH
    begun <- {r \in Requests : Begun(r)},
    settled <- {r \in Requests : Settled(r)},
    reported <- IF Stopped THEN report ELSE {}

ImplementsContract == Contract!Spec

-----------------------------------------------------------------------------
(* What the repository says and the parallel engine does not do. *)

(* "for a request that could not complete (runner error or cancellation)   *)
(* so it never vanishes from reports" (run_collection.go:486-487).         *)
InterruptedReported ==
    Stopped => \A r \in coll.kept : Begun(r) => r \in report

(* "Extracted variables are available in all subsequent requests within    *)
(* the same run" (docs/collections.md:268), in every well-ordered          *)
(* collection.                                                             *)
SubsequentSeeExtracted ==
    WellOrdered(coll) =>
        \A r \in coll.kept : sends[r] > 0 =>
            \A v \in Consumed(coll, r) : SeesSequentialValue(r, v)
=============================================================================
