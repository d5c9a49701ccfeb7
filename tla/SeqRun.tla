------------------------------- MODULE SeqRun -------------------------------
(***************************************************************************)
(* RunCollection.Execute without --parallel: filter, then one request      *)
(* after the other on one goroutine, each reading and extending the live   *)
(* variable map, then the artifact is saved.  The user and the deadline    *)
(* may end the context between any two steps.                              *)
(***************************************************************************)
EXTENDS RequestRun, Sequences, FiniteSetsExt

CONSTANT Filters     \* what --only/--tags may select

ASSUME FiltersAssumption == Filters \subseteq SUBSET Requests

VARIABLES
    phase,      \* where Execute is
    todo,       \* requests the loop has not reached
    current,    \* the request it is on, NoName between two requests
    env,        \* vars: the live variable map
    report,     \* run.Results
    outcome     \* what Execute returned

vars == <<coll, opts, ctx, work, saw, sends, phase, todo, current, env, report, outcome>>

runVars == <<phase, todo, current, env, report, outcome>>
fixed == <<coll, opts>>

Init ==
    /\ coll \in Collections
    /\ opts \in OptionSets
    /\ ctx = "live"
    /\ RequestInit
    /\ phase = "prepare"
    /\ todo = {}
    /\ current = NoName
    /\ env = SeedVars(coll)
    /\ report = <<>>
    /\ outcome = "running"

Stop(o) == phase' = "stopped" /\ outcome' = o

(* Loading the collection, the environment or a schema file fails, or the  *)
(* filter matches nothing.                                                 *)
PrepareFails ==
    /\ phase = "prepare"
    /\ Stop("error")
    /\ UNCHANGED <<fixed, ctx, requestVars, todo, current, env, report>>

FilterRequests ==
    /\ phase = "prepare"
    /\ \E selected \in Filters :
        /\ coll.kept \cap selected # {}
        /\ coll' = [coll EXCEPT !.kept = @ \cap selected]
        /\ todo' = coll.kept \cap selected
    /\ phase' = "loop"
    /\ UNCHANGED <<opts, ctx, requestVars, current, env, report, outcome>>

-----------------------------------------------------------------------------
(* The loop over the requests. *)

BetweenRequests == phase = "loop" /\ current = NoName

(* Mutant: requests are taken in any order. *)
IsAnyTodo(r) == r \in todo

IsFirstTodo(r) == r \in todo /\ \A q \in todo : r <= q

LoopSeesContextDone ==
    /\ BetweenRequests
    /\ todo # {}
    /\ ctx # "live"
    /\ Stop("interrupted")
    /\ UNCHANGED <<fixed, ctx, requestVars, todo, current, env, report>>

BeginRequest(r) ==
    /\ BetweenRequests
    /\ IsFirstTodo(r)
    /\ ctx = "live"
    /\ ~opts.dryRun
    /\ StartRequest(r)
    /\ todo' = todo \ {r}
    /\ current' = r
    /\ UNCHANGED <<fixed, ctx, phase, env, report, outcome>>

(* --dry-run resolves the request and goes on. *)
ResolveOnly(r) ==
    /\ BetweenRequests
    /\ IsFirstTodo(r)
    /\ ctx = "live"
    /\ opts.dryRun
    /\ report' = Append(report,
            [ZeroResult EXCEPT !.name = r,
                               !.error = IF Resolves(env, coll.uses[r]) THEN "none" ELSE "unknown"])
    /\ todo' = todo \ {r}
    /\ UNCHANGED <<fixed, ctx, requestVars, phase, current, env, outcome>>

WorkOnRequest(r) ==
    /\ current = r
    /\ phase = "loop"
    /\ RequestStep(r, ctx, env)
    /\ UNCHANGED <<fixed, ctx, runVars>>

(* Mutant: a request canceled in its delay is not recorded. *)
StopInDelaySilent(r) ==
    /\ current = r
    /\ phase = "loop"
    /\ At(r, "delayStopped")
    /\ Recorded(r)
    /\ current' = NoName
    /\ Stop("interrupted")
    /\ UNCHANGED <<fixed, ctx, todo, env, report>>

(* Interrupted before it was ever sent: recorded, and the run returns. *)
StopInDelay(r) ==
    /\ current = r
    /\ phase = "loop"
    /\ At(r, "delayStopped")
    /\ report' = Append(report, ErroredResult(r, work[r].runErr))
    /\ Recorded(r)
    /\ current' = NoName
    /\ Stop("interrupted")
    /\ UNCHANGED <<fixed, ctx, todo, env>>

(* Mutant: --fail-fast is ignored. *)
NextAlways(failed) == phase' = "loop"

NextOrBreak(failed) == phase' = IF opts.failFast /\ failed THEN "ended" ELSE "loop"

RecordErrored(r) ==
    /\ current = r
    /\ phase = "loop"
    /\ At(r, "returned")
    /\ work[r].runErr # "none"
    /\ report' = Append(report, ErroredResult(r, work[r].runErr))
    /\ Recorded(r)
    /\ current' = NoName
    /\ NextOrBreak(TRUE)
    /\ UNCHANGED <<fixed, ctx, todo, env, outcome>>

(* Mutant: a failed request passes nothing on. *)
RecordIfPassed(r) ==
    /\ current = r
    /\ phase = "loop"
    /\ At(r, "returned")
    /\ work[r].runErr = "none"
    /\ \E rr \in Evaluations(r, env) :
        /\ report' = Append(report, rr)
        /\ env' = IF Failed(rr) THEN env ELSE MergeExtracted(env, r, rr.extracted)
        /\ NextOrBreak(Failed(rr))
    /\ Recorded(r)
    /\ current' = NoName
    /\ UNCHANGED <<fixed, ctx, todo, outcome>>

RecordEvaluated(r) ==
    /\ current = r
    /\ phase = "loop"
    /\ At(r, "returned")
    /\ work[r].runErr = "none"
    /\ \E rr \in Evaluations(r, env) :
        /\ report' = Append(report, rr)
        /\ env' = MergeExtracted(env, r, rr.extracted)
        /\ NextOrBreak(Failed(rr))
    /\ Recorded(r)
    /\ current' = NoName
    /\ UNCHANGED <<fixed, ctx, todo, outcome>>

EndLoop ==
    /\ BetweenRequests
    /\ todo = {}
    /\ phase' = "ended"
    /\ UNCHANGED <<fixed, ctx, requestVars, todo, current, env, report, outcome>>

-----------------------------------------------------------------------------
(* After the loop. *)

(* Mutant: the context is not looked at after the loop. *)
AfterLoopUnchecked ==
    /\ phase = "ended"
    /\ IF ~opts.store \/ opts.dryRun THEN Stop("done")
       ELSE phase' = "saving" /\ UNCHANGED outcome
    /\ UNCHANGED <<fixed, ctx, requestVars, todo, current, env, report>>

AfterLoop ==
    /\ phase = "ended"
    /\ IF ctx # "live" THEN Stop("interrupted")
       ELSE IF ~opts.store \/ opts.dryRun THEN Stop("done")
       ELSE phase' = "saving" /\ UNCHANGED outcome
    /\ UNCHANGED <<fixed, ctx, requestVars, todo, current, env, report>>

(* SaveRun does not look at the context. *)
SaveRun ==
    /\ phase = "saving"
    /\ \E o \in {"saved", "saveError"} : Stop(o)
    /\ UNCHANGED <<fixed, ctx, requestVars, todo, current, env, report>>

-----------------------------------------------------------------------------
ContextEnds ==
    /\ UserCancels \/ DeadlinePasses
    /\ UNCHANGED <<fixed, requestVars, runVars>>

EngineStep ==
    \/ PrepareFails
    \/ FilterRequests
    \/ LoopSeesContextDone
    \/ \E r \in Requests :
        \/ BeginRequest(r)
        \/ ResolveOnly(r)
        \/ WorkOnRequest(r)
        \/ StopInDelay(r)
        \/ RecordErrored(r)
        \/ RecordEvaluated(r)
    \/ EndLoop
    \/ AfterLoop
    \/ SaveRun

Stopped == phase = "stopped"

Idles == Stopped /\ UNCHANGED vars

Next == EngineStep \/ ContextEnds \/ Idles

(* The goroutine is scheduled, timers fire, and every request is answered  *)
(* within its timeout; nothing makes the user or the deadline act.         *)
Spec == Init /\ [][Next]_vars /\ WF_vars(EngineStep)

-----------------------------------------------------------------------------
(* Properties. *)

TypeOK ==
    /\ coll \in CollectionType
    /\ RequestTypeOK
    /\ phase \in {"prepare", "loop", "ended", "saving", "stopped"}
    /\ todo \subseteq Requests
    /\ current \in Requests \cup {NoName}
    /\ env \in Environment
    /\ report \in Seq(Result)
    /\ outcome \in {"running", "error", "interrupted", "done", "saved", "saveError"}

ReportedNames == {report[i].name : i \in DOMAIN report}

ReportOf(r) == CHOOSE rr \in {report[i] : i \in DOMAIN report} : rr.name = r

Extractors(r, v) == {p \in ReportedNames : p < r /\ v \in ReportOf(p).extracted}

(* A request is resolved with what the requests above it extracted, the    *)
(* last extraction of a name winning over earlier ones and over its seed,  *)
(* whatever failed, was retried or was only partly extracted in between    *)
(* (run_collection.go:126-127, 217-220; docs/collections.md:268).          *)
SeesLatestValue ==
    \A r \in Requests : sends[r] > 0 =>
        \A v \in VarNames :
            saw[r][v] = IF Extractors(r, v) # {} THEN Max(Extractors(r, v)) ELSE SeedVars(coll)[v]

(* No request vanishes: one that was begun is in the report, at its place, *)
(* once, as soon as the loop has left it, however it ended                 *)
(* (run_collection.go:169-202).                                            *)
NothingVanishes ==
    opts.retries >= 0 =>
        /\ \A i, j \in DOMAIN report : i < j => report[i].name < report[j].name
        /\ \A r \in coll.kept : Begun(r) /\ r # current => r \in ReportedNames

(* A collection that `lynix validate' accepts never stops on a missing     *)
(* variable in a full run, as long as the requests above were answered and *)
(* extracted all they declare (validate_collection.go:49-51).              *)
ValidatedNeverUnresolved ==
    /\ Presentable(coll)
    /\ coll.kept = Requests
    /\ \A i \in DOMAIN report : report[i].error = "none" /\ report[i].extractsOK
    /\ current # NoName
    => Resolves(env, coll.uses[current])

(* After the first failure of a --fail-fast run nothing is sent and the    *)
(* failed request closes the report (run_collection.go:198-200, 224-226).  *)
FailFastStops ==
    opts.failFast /\ ~opts.dryRun =>
        \A i \in DOMAIN report : Failed(report[i]) =>
            /\ i = Len(report)
            /\ \A r \in Requests : sends[r] > 0 => r <= report[i].name

(* A saved artifact tells a whole run: nothing in it was cut short by the  *)
(* user, and a request is missing only below a fail-fast failure           *)
(* (run_collection.go:231-240).                                            *)
SavedIsWhole ==
    outcome = "saved" /\ opts.retries >= 0 =>
        /\ \A i \in DOMAIN report : report[i].error # "canceled"
        /\ \/ ReportedNames = coll.kept
           \/ opts.failFast /\ report # <<>> /\ Failed(report[Len(report)])

(* A result that stands for no answer: it states one attempt whatever was  *)
(* sent (run_collection.go:492-500).                                       *)
Placeholder(rr) == rr.error # "none" /\ rr.status = 0 /\ rr.attempts = 1

(* What a result says of attempts is what went over the wire, for every    *)
(* result of the report, and no request is sent more often than the        *)
(* retries allow.  A placeholder is there only for a request that was      *)
(* never sent, or in a run that was ended (run_collection.go:258, 264).    *)
AttemptsAreSends ==
    \A i \in DOMAIN report :
        LET rr == report[i]
            sent == sends[rr.name]
        IN  rr.name # NoName =>
                /\ sent = 0 \/ sent <= MaxAttempts
                /\ rr.attempts = sent \/ (Placeholder(rr) /\ (sent = 0 \/ ctx # "live"))

(* A request goes out again only within its budget and over an answer that *)
(* may be retried: a plain response, a cancellation or an unclassified     *)
(* error is final (run_collection.go:254-282, run.go:163-171).             *)
NeverResent ==
    [][\A r \in Requests :
        sends[r] > 0 /\ sends'[r] > sends[r] =>
            LET last == work[r].rr IN
                /\ sends[r] <= opts.retries
                /\ last.name = r
                /\ last.error = "none" => last.status = 500 /\ opts.retry5xx
                /\ last.error \in {"canceled", "unknown"} =>
                    last.status = 500 /\ opts.retry5xx]_vars

(* Execute returns, whatever the network answers (timers fire and every    *)
(* request has a timeout).                                                 *)
Returns == <>Stopped

-----------------------------------------------------------------------------
(* The sequential engine implements the contract.                          *)
Contract == INSTANCE RunContract WITH
    begun <- {r \in Requests : Begun(r)} \cup ReportedNames,
    settled <- ReportedNames,
    reported <- IF Stopped THEN ReportedNames ELSE {}

ImplementsContract == Contract!Spec
=============================================================================
