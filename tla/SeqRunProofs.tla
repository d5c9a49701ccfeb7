---------------------------- MODULE SeqRunProofs ----------------------------
(***************************************************************************)
(* The sequential engine, for any collection, options and network: what    *)
(* the loop, the requests and the report know of each other, and from it   *)
(* the properties of SeqRun; and what the exit code of `lynix run' tells.  *)
(* The command leaves the engine to its steps, so the engine's invariant   *)
(* holds under it.                                                         *)
(***************************************************************************)
EXTENDS RunCommand, RequestRunProofs

Prepared == phase # "prepare" /\ outcome # "error"

(* The requests the loop has taken so far. *)
Taken == IF Prepared THEN coll.kept \ todo ELSE {}

(* Where the loop is: it takes the requests from the top, and only the one *)
(* it is on is under way.                                                  *)
LoopPosition ==
    /\ phase # "stopped" => outcome = "running"
    /\ current # NoName => phase = "loop" /\ current \in Taken
    /\ todo \subseteq coll.kept
    /\ \A r \in Taken : \A q \in todo : r < q
    /\ \A r \in Requests : work[r].pc \notin {"idle", "recorded"} <=> r = current
    /\ \A r \in Requests : Begun(r) <=> r \in Taken /\ ~opts.dryRun
    /\ ~Prepared => report = <<>> /\ todo = {}

(* A request that comes back with an error was not sent, or the run was    *)
(* ended: what could be sent once can be sent again.                       *)
Blamed(r) ==
    /\ work[r].runErr # "none" => ctx # "live" \/ sends[r] = 0
    /\ r = current /\ sends[r] > 0 => Sendable(r, env)

(* What each request says of itself. *)
RequestAccounts == \A r \in Requests : Tried(r) /\ CanceledBy(r, ctx) /\ Blamed(r)

(* The report lists what the loop has left, in order. *)
ReportInOrder ==
    /\ \A i \in DOMAIN report : report[i].name # NoName =>
            report[i].name \in Taken /\ (current # NoName => report[i].name < current)
    /\ opts.retries >= 0 =>
        /\ \A i \in DOMAIN report : report[i].name # NoName
        /\ \A i, j \in DOMAIN report : i < j => report[i].name < report[j].name
        /\ \A r \in Taken : r = current \/ \E i \in DOMAIN report : report[i].name = r

(* A --fail-fast run is over with its first failure, and only then early.  *)
FailureCloses ==
    /\ opts.failFast /\ ~opts.dryRun =>
        \A i \in DOMAIN report : Failed(report[i]) => i = Len(report) /\ phase # "loop"
    /\ phase \in {"ended", "saving"} \/ outcome \in {"done", "saved", "saveError"} =>
        /\ Prepared
        /\ todo = {} \/ (opts.failFast /\ report # <<>> /\ Failed(report[Len(report)]))

(* Nothing the user cut short gets as far as the artifact. *)
CutNeverSaved ==
    \A i \in DOMAIN report : report[i].error = "canceled" =>
        ctx # "live" /\ phase # "saving" /\ outcome \notin {"done", "saved", "saveError"}

(* A name is known once it is seeded or extracted. *)
KnownStays ==
    /\ \A v \in coll.seeds : Known(env, v)
    /\ (\A i \in DOMAIN report : report[i].error = "none" /\ report[i].extractsOK) =>
        \A r \in Requests : Begun(r) /\ r # current => \A v \in Produced(coll, r) : Known(env, v)

(* The last report of those in `of' that extracted v. *)
LastExtracting(i, v, of) ==
    /\ i \in of
    /\ v \in report[i].extracted
    /\ \A j \in of : v \in report[j].extracted => report[j].name <= report[i].name

(* The live map holds what the last extraction left. *)
Latest(value, v, of) ==
    \/ \E i \in of : LastExtracting(i, v, of) /\ value = report[i].name
    \/ (\A i \in of : v \notin report[i].extracted) /\ value = SeedVars(coll)[v]

Above(r) == {i \in DOMAIN report : report[i].name < r}

ValuesLatest ==
    opts.retries >= 0 =>
        /\ \A v \in VarNames : Latest(env[v], v, DOMAIN report)
        /\ \A r \in Requests : sends[r] > 0 => \A v \in VarNames : Latest(saw[r][v], v, Above(r))

IInv ==
    /\ TypeOK
    /\ LoopPosition
    /\ RequestAccounts
    /\ ReportInOrder
    /\ FailureCloses
    /\ CutNeverSaved
    /\ AttemptsAreSends
    /\ KnownStays
    /\ ValuesLatest

-----------------------------------------------------------------------------
(* The steps, told by what they do to the loop's state. *)

(* Steps between requests, before and after them, and those of the user.   *)
QuietStep ==
    /\ UNCHANGED <<coll, opts, work, saw, sends, todo, current, env, report>>
    /\ ctx' \in ContextStates /\ (ctx # "live" => ctx' # "live")
    /\ \/ phase' = phase /\ outcome' = outcome
       \/ phase = "prepare" /\ phase' = "stopped" /\ outcome' = "error"
       \/ phase = "loop" /\ current = NoName /\ phase' = "stopped" /\ outcome' = "interrupted"
       \/ phase = "loop" /\ current = NoName /\ todo = {} /\ phase' = "ended" /\ outcome' = outcome
       \/ phase = "ended" /\ phase' = "stopped" /\ outcome' = "interrupted"
       \/ phase = "ended" /\ ctx = "live" /\ ctx' = ctx /\ phase' = "saving" /\ outcome' = outcome
       \/ phase = "ended" /\ ctx = "live" /\ ctx' = ctx /\ phase' = "stopped" /\ outcome' = "done"
       \/ phase = "saving" /\ phase' = "stopped" /\ outcome' \in {"saved", "saveError"}

(* Request r leaves the loop with result rr. *)
Leaves(r, rr) ==
    /\ current = r /\ phase = "loop"
    /\ report' = Append(report, rr)
    /\ env' = MergeExtracted(env, r, rr.extracted)
    /\ Recorded(r)
    /\ current' = NoName
    /\ UNCHANGED <<coll, opts, ctx, todo>>
    /\ \/ phase' = "loop" /\ outcome' = outcome /\ ~(opts.failFast /\ Failed(rr))
       \/ phase' = "ended" /\ outcome' = outcome /\ opts.failFast /\ Failed(rr)
       \/ phase' = "stopped" /\ outcome' = "interrupted"

(* What a result may say of request r. *)
ResultOf(r, rr) ==
    /\ rr \in Result
    /\ rr.name = r \/ (rr.name = NoName /\ opts.retries < 0)
    /\ rr.name # NoName =>
        /\ sends[r] = 0 \/ sends[r] <= 1 + opts.retries
        /\ rr.attempts = sends[r] \/ (Placeholder(rr) /\ (sends[r] = 0 \/ ctx # "live"))
    /\ rr.error = "canceled" => ctx # "live"
    /\ rr.error = "none" /\ rr.extractsOK => rr.extracted = Produced(coll, r)

LEMMA QuietSteps ==
    ASSUME TypeOK, \/ PrepareFails \/ LoopSeesContextDone \/ EndLoop \/ AfterLoop \/ SaveRun
                   \/ ContextEnds \/ UNCHANGED vars
    PROVE  QuietStep
<1> USE DEF QuietStep, Stop, fixed, requestVars, ContextStates, TypeOK, RequestTypeOK
<1>1. CASE PrepareFails
  BY <1>1 DEF PrepareFails
<1>2. CASE LoopSeesContextDone
  BY <1>2 DEF LoopSeesContextDone, BetweenRequests
<1>3. CASE EndLoop
  BY <1>3 DEF EndLoop, BetweenRequests
<1>4. CASE AfterLoop
  BY <1>4 DEF AfterLoop
<1>5. CASE SaveRun
  BY <1>5 DEF SaveRun
<1>6. CASE ContextEnds
  BY <1>6 DEF ContextEnds, UserCancels, DeadlinePasses, runVars
<1>7. CASE UNCHANGED vars
  BY <1>7 DEF vars
<1> QED
  BY <1>1, <1>2, <1>3, <1>4, <1>5, <1>6, <1>7

(* However a request is recorded, its result is one it may have.           *)
LEMMA RecordSteps ==
    ASSUME TypeOK, RequestAccounts, NEW r \in Requests,
           StopInDelay(r) \/ RecordErrored(r) \/ RecordEvaluated(r)
    PROVE  \E rr : Leaves(r, rr) /\ ResultOf(r, rr)
<1>1. /\ work[r] \in WorkType /\ work[r].rr \in Result /\ Tried(r) /\ CanceledBy(r, ctx)
      /\ Blamed(r) /\ sends[r] \in Nat /\ env \in Environment /\ coll \in CollectionType
      /\ opts.retries \in Int
  BY OptionsAssumption DEF TypeOK, RequestTypeOK, RequestAccounts, WorkType, OptionType
<1>2. CASE StopInDelay(r) \/ RecordErrored(r)
  <2> DEFINE rr == ErroredResult(r, work[r].runErr)
  <2>1. work[r].runErr \in ErrorKinds
    BY <1>1, <1>2 DEF StopInDelay, RecordErrored, Tried, At, WorkType
  <2>2. /\ rr \in Result /\ rr.name = r /\ rr.status = 0 /\ rr.error = work[r].runErr
        /\ rr.extracted = {} /\ rr.attempts = 1
    BY <2>1, ResultTypes DEF ErroredResult, ZeroResult
  <2>3. rr.error # "none" /\ Placeholder(rr)
    BY <2>1, <2>2 DEF ErrorKinds, Placeholder
  <2>4. MergeExtracted(env, r, rr.extracted) = env
    BY <1>1, <2>2 DEF MergeExtracted, Environment
  <2>5. Failed(rr)
    BY <2>3 DEF Failed
  <2>6. ResultOf(r, rr)
    <3>0. work[r].pc \in {"delayStopped", "returned"}
      BY <1>2 DEF StopInDelay, RecordErrored, At
    <3>1. sends[r] = 0 \/ sends[r] <= 1 + opts.retries
      BY <1>1, <3>0 DEF Tried, At
    <3>2. sends[r] = 0 \/ ctx # "live"
      BY <1>1, <2>2, <2>3 DEF Blamed
    <3> QED
      BY <1>1, <2>2, <2>3, <3>1, <3>2 DEF ResultOf, CanceledBy
  <2>7. Leaves(r, rr)
    <3>1. CASE StopInDelay(r)
      BY <3>1, <2>4 DEF StopInDelay, Leaves, Stop, fixed
    <3>2. CASE RecordErrored(r)
      BY <3>2, <2>4, <2>5 DEF RecordErrored, Leaves, NextOrBreak, fixed
    <3> QED
      BY <1>2, <3>1, <3>2
  <2> QED
    BY <2>6, <2>7
<1>3. CASE RecordEvaluated(r)
  <2>1. PICK rr \in Evaluations(r, env) :
            /\ report' = Append(report, rr)
            /\ env' = MergeExtracted(env, r, rr.extracted)
            /\ NextOrBreak(Failed(rr))
    BY <1>3 DEF RecordEvaluated
  <2>2. /\ rr \in Result
        /\ rr.name = work[r].rr.name /\ rr.status = work[r].rr.status
        /\ rr.error = work[r].rr.error /\ rr.attempts = work[r].rr.attempts
        /\ rr.extractsOK => rr.extracted = Produced(coll, r)
    BY <1>1, EvaluationTypes
  <2>3. /\ work[r].attempt > 0 \/ opts.retries < 0
        /\ work[r].attempt > 0 => rr.name = r /\ rr.attempts = sends[r]
        /\ work[r].attempt = 0 => rr.name = NoName
        /\ opts.retries < 0 => work[r].attempt = 0
        /\ opts.retries >= 0 => work[r].attempt <= 1 + opts.retries
        /\ work[r].attempt \in Nat /\ work[r].attempt = sends[r]
    BY <1>1, <1>3, <2>2 DEF RecordEvaluated, Tried, At, ZeroResult, WorkType
  <2>4. ResultOf(r, rr)
    BY <1>1, <2>2, <2>3 DEF ResultOf, CanceledBy
  <2>5. Leaves(r, rr)
    BY <1>3, <2>1 DEF RecordEvaluated, Leaves, NextOrBreak, fixed
  <2> QED
    BY <2>4, <2>5
<1> QED
  BY <1>2, <1>3

(* Every step of the engine is one of six.                                 *)
LEMMA Steps ==
    ASSUME TypeOK, RequestAccounts, [Next]_vars
    PROVE  \/ QuietStep
           \/ FilterRequests
           \/ \E r \in Requests : BeginRequest(r) \/ ResolveOnly(r) \/ WorkOnRequest(r)
           \/ \E r \in Requests : \E rr : Leaves(r, rr) /\ ResultOf(r, rr)
<1>1. CASE \E r \in Requests : StopInDelay(r) \/ RecordErrored(r) \/ RecordEvaluated(r)
  BY <1>1, RecordSteps
<1>2. CASE \/ PrepareFails \/ LoopSeesContextDone \/ EndLoop \/ AfterLoop \/ SaveRun
           \/ ContextEnds \/ UNCHANGED vars
  BY <1>2, QuietSteps
<1> QED
  BY <1>1, <1>2 DEF Next, EngineStep, Idles

-----------------------------------------------------------------------------
(* Types. *)

LEMMA TypeStep == ASSUME TypeOK, RequestAccounts, [Next]_vars PROVE TypeOK'
<1> USE DEF TypeOK
<1>0. /\ ctx \in ContextStates /\ coll \in CollectionType /\ opts \in OptionSets
      /\ work \in [Requests -> WorkType]
  BY DEF RequestTypeOK, ContextStates
<1>1. CASE QuietStep
  <2>1. RequestTypeOK'
    BY <1>1 DEF QuietStep, RequestTypeOK, ContextStates
  <2> QED
    BY <1>1, <2>1 DEF QuietStep
<1>2. CASE FilterRequests
  <2>1. RequestTypeOK'
    BY <1>2 DEF FilterRequests, RequestTypeOK, requestVars
  <2>2. PICK selected \in Filters :
            coll' = [coll EXCEPT !.kept = @ \cap selected] /\ todo' = coll.kept \cap selected
    BY <1>2 DEF FilterRequests
  <2>3. coll' \in CollectionType /\ todo' \subseteq Requests
    BY <1>0, <2>2 DEF CollectionType
  <2> QED
    BY <1>2, <2>1, <2>3 DEF FilterRequests
<1>3. ASSUME NEW r \in Requests, BeginRequest(r) PROVE TypeOK'
  <2>1. RequestTypeOK'
    BY <1>0, <1>3, StartAndRecordType DEF BeginRequest, fixed
  <2> QED
    BY <1>3, <2>1 DEF BeginRequest, fixed
<1>4. ASSUME NEW r \in Requests, ResolveOnly(r) PROVE TypeOK'
  <2>1. RequestTypeOK'
    BY <1>4 DEF ResolveOnly, fixed, requestVars, RequestTypeOK
  <2> DEFINE rr == [ZeroResult EXCEPT !.name = r,
                        !.error = IF Resolves(env, coll.uses[r]) THEN "none" ELSE "unknown"]
  <2>2. rr \in Result
    BY DEF ZeroResult, Result, Statuses, ErrorKinds
  <2>3. report' = Append(report, rr)
    BY <1>4 DEF ResolveOnly
  <2>4. report' \in Seq(Result)
    BY <2>2, <2>3
  <2> QED
    BY <1>4, <2>1, <2>4 DEF ResolveOnly, fixed
<1>5. ASSUME NEW r \in Requests, WorkOnRequest(r) PROVE TypeOK'
  <2>1. RequestTypeOK'
    BY <1>0, <1>5, StepType DEF WorkOnRequest, fixed
  <2> QED
    BY <1>5, <2>1 DEF WorkOnRequest, fixed, runVars
<1>6. ASSUME NEW r \in Requests, NEW rr, Leaves(r, rr), ResultOf(r, rr) PROVE TypeOK'
  <2>1. RequestTypeOK'
    BY <1>0, <1>6, StartAndRecordType DEF Leaves
  <2>2. env' \in Environment
    BY <1>6, MergeType DEF Leaves
  <2>3. report' \in Seq(Result)
    BY <1>6 DEF Leaves, ResultOf
  <2> QED
    BY <1>6, <2>1, <2>2, <2>3 DEF Leaves
<1> QED
  BY <1>1, <1>2, <1>3, <1>4, <1>5, <1>6, Steps

-----------------------------------------------------------------------------
(* Where the loop is. *)

LEMMA LoopStep == ASSUME TypeOK, RequestAccounts, LoopPosition, [Next]_vars PROVE LoopPosition'
<1> USE DEF LoopPosition, Taken, Prepared, NoName, Begun, At
<1>0. /\ coll \in CollectionType /\ coll.kept \subseteq Requests /\ NoName \notin Requests
      /\ todo \subseteq Requests /\ Requests \subseteq Nat
      /\ RequestTypeOK
  BY NAssumption DEF TypeOK, CollectionType, Requests
<1>1. CASE QuietStep
  BY <1>1 DEF QuietStep
<1>2. CASE FilterRequests
  <2>1. PICK selected \in Filters :
            coll' = [coll EXCEPT !.kept = @ \cap selected] /\ todo' = coll.kept \cap selected
    BY <1>2 DEF FilterRequests
  <2>2. coll'.kept = coll.kept \cap selected
    BY <1>0, <2>1 DEF CollectionType
  <2> QED
    BY <1>0, <1>2, <2>1, <2>2 DEF FilterRequests, requestVars
<1>3. ASSUME NEW r \in Requests, BeginRequest(r) PROVE LoopPosition'
  <2>1. /\ r \in todo /\ (\A q \in todo : r <= q) /\ todo' = todo \ {r} /\ current' = r
        /\ current = NoName /\ phase = "loop" /\ phase' = phase /\ outcome' = outcome
        /\ coll' = coll /\ opts' = opts /\ report' = report /\ ~opts.dryRun /\ StartRequest(r)
    BY <1>3 DEF BeginRequest, BetweenRequests, IsFirstTodo, fixed
  <2>2. /\ \A q \in Requests : q # r => work'[q] = work[q]
        /\ work'[r].pc \in {"delay", "loop"}
    BY <1>0, <2>1, TriedStarts DEF RequestAccounts
  <2> QED
    BY <1>0, <2>1, <2>2
<1>4. ASSUME NEW r \in Requests, ResolveOnly(r) PROVE LoopPosition'
  <2>1. /\ r \in todo /\ (\A q \in todo : r <= q) /\ todo' = todo \ {r} /\ current' = current
        /\ current = NoName /\ phase = "loop" /\ phase' = phase /\ outcome' = outcome
        /\ coll' = coll /\ opts' = opts /\ opts.dryRun /\ work' = work
    BY <1>4 DEF ResolveOnly, BetweenRequests, IsFirstTodo, fixed, requestVars
  <2> QED
    BY <1>0, <2>1
<1>5. ASSUME NEW r \in Requests, WorkOnRequest(r) PROVE LoopPosition'
  <2>1. current = r /\ UNCHANGED <<coll, opts, phase, todo, current, report, outcome>>
    BY <1>5 DEF WorkOnRequest, fixed, runVars
  <2>2. /\ \A q \in Requests : q # r => work'[q] = work[q]
        /\ work'[r].pc \notin {"idle", "recorded"}
    BY <1>0, <1>5, StepShape DEF WorkOnRequest
  <2> QED
    BY <1>0, <2>1, <2>2
<1>6. ASSUME NEW r \in Requests, NEW rr, Leaves(r, rr), ResultOf(r, rr) PROVE LoopPosition'
  <2>1. /\ current = r /\ current' = NoName /\ phase = "loop"
        /\ UNCHANGED <<coll, opts, todo>> /\ Recorded(r)
        /\ phase' # "prepare" /\ outcome' # "error"
        /\ phase' # "stopped" => outcome' = "running"
    BY <1>6 DEF Leaves
  <2>2. /\ \A q \in Requests : q # r => work'[q] = work[q]
        /\ work'[r].pc = "recorded"
    BY <1>0, <2>1, TriedEnds DEF RequestAccounts
  <2> QED
    BY <1>0, <2>1, <2>2
<1> QED
  BY <1>1, <1>2, <1>3, <1>4, <1>5, <1>6, Steps

-----------------------------------------------------------------------------
(* The accounts of the requests. *)

LEMMA BlamedStep ==
    ASSUME TypeOK, RequestAccounts, LoopPosition, [Next]_vars
    PROVE  \A q \in Requests : Blamed(q)'
<1> SUFFICES ASSUME NEW q \in Requests PROVE Blamed(q)'
  OBVIOUS
<1> USE DEF Blamed
<1>0. /\ RequestTypeOK /\ ctx \in ContextStates /\ env \in Environment /\ NoName \notin Requests
      /\ Blamed(q) /\ Tried(q) /\ work[q] \in WorkType /\ work \in [Requests -> WorkType]
      /\ sends \in [Requests -> Nat]
  BY NAssumption DEF TypeOK, RequestTypeOK, ContextStates, RequestAccounts, Requests, NoName
<1>1. CASE QuietStep
  BY <1>0, <1>1 DEF QuietStep, Sendable
<1>2. CASE FilterRequests
  <2>1. current' = NoName
    BY <1>2 DEF FilterRequests, LoopPosition
  <2> QED
    BY <1>0, <1>2, <2>1 DEF FilterRequests, requestVars
<1>3. ASSUME NEW r \in Requests, BeginRequest(r) PROVE Blamed(q)'
  <2>1. StartRequest(r) /\ opts' = opts /\ ctx' = ctx /\ current' = r
    BY <1>3 DEF BeginRequest, fixed
  <2>2. /\ Tried(r)' /\ (\A p \in Requests : p # r => work'[p] = work[p]) /\ sends' = sends
        /\ work'[r].runErr = "none" /\ sends[r] = 0
    <3>1. Tried(r)
      BY DEF RequestAccounts
    <3> QED
      BY <1>0, <2>1, <3>1, TriedStarts DEF Tried, At
  <2> QED
    BY <1>0, <2>1, <2>2
<1>4. ASSUME NEW r \in Requests, ResolveOnly(r) PROVE Blamed(q)'
  BY <1>0, <1>4 DEF ResolveOnly, requestVars, fixed, BetweenRequests
<1>5. ASSUME NEW r \in Requests, WorkOnRequest(r) PROVE Blamed(q)'
  <2>1. /\ RequestStep(r, ctx, env) /\ current = r
        /\ UNCHANGED <<coll, opts, ctx, env, current>>
    BY <1>5 DEF WorkOnRequest, fixed, runVars
  <2>2. CASE q # r
    BY <1>0, <2>1, <2>2, StepShape DEF Sendable
  <2>3. CASE q = r
    <3>1. CASE DelayElapses(r) \/ BackoffElapses(r)
      BY <1>0, <2>1, <2>3, <3>1 DEF DelayElapses, BackoffElapses, Goto, Sendable, WorkType
    <3>2. CASE DelayInterrupted(r, ctx)
      BY <1>0, <2>1, <2>3, <3>2 DEF DelayInterrupted, Sendable, WorkType
    <3>3. CASE LoopInterrupted(r, ctx) \/ BackoffInterrupted(r, ctx)
      BY <1>0, <2>1, <2>3, <3>3 DEF LoopInterrupted, BackoffInterrupted, Return, Sendable, WorkType
    <3>4. CASE ResolveFails(r, ctx, env)
      BY <1>0, <2>1, <2>3, <3>4 DEF ResolveFails, Return, Sendable, WorkType
    <3>5. CASE Send(r, ctx, env)
      <4>1. work'[r].runErr = work[r].runErr /\ work[r].runErr = "none"
        BY <1>0, <2>3, <3>5 DEF Send, CanTry, At, WorkType, Tried
      <4> QED
        BY <1>0, <2>1, <2>3, <3>5, <4>1 DEF Send, Sendable
    <3>6. CASE Answered(r, ctx)
      <4>1. work'[r].runErr = work[r].runErr /\ sends' = sends
        BY <1>0, <2>3, <3>6 DEF Answered, WorkType
      <4> QED
        BY <1>0, <2>1, <2>3, <4>1 DEF Sendable
    <3>7. CASE LoopExhausted(r)
      BY <1>0, <2>1, <2>3, <3>7 DEF LoopExhausted, Return, Sendable, WorkType
    <3> QED
      BY <2>1, <3>1, <3>2, <3>3, <3>4, <3>5, <3>6, <3>7 DEF RequestStep
  <2> QED
    BY <2>2, <2>3
<1>6. ASSUME NEW r \in Requests, NEW rr, Leaves(r, rr), ResultOf(r, rr) PROVE Blamed(q)'
  <2>1. Recorded(r) /\ opts' = opts /\ ctx' = ctx /\ current' = NoName
    BY <1>6 DEF Leaves
  <2>2. /\ \A p \in Requests : p # r => work'[p] = work[p]
        /\ work'[r].runErr = "none" /\ sends' = sends
    BY <1>0, <2>1, TriedEnds DEF RequestAccounts
  <2> QED
    BY <1>0, <2>1, <2>2
<1> QED
  BY <1>1, <1>2, <1>3, <1>4, <1>5, <1>6, Steps

LEMMA AccountsStep == ASSUME TypeOK, RequestAccounts, LoopPosition, [Next]_vars PROVE RequestAccounts'
<1> DEFINE Told == \A r \in Requests : Tried(r) /\ CanceledBy(r, ctx)
<1> USE DEF RequestAccounts
<1>0. RequestTypeOK /\ ctx \in ContextStates /\ env \in Environment
  BY DEF TypeOK, RequestTypeOK, ContextStates
<1>1. ASSUME UNCHANGED <<work, sends, opts>>, ctx # "live" => ctx' # "live" PROVE Told'
  BY <1>1, TriedElsewhere DEF CanceledBy
<1>2. ASSUME QuietStep PROVE Told'
  BY <1>1, <1>2 DEF QuietStep
<1>3. ASSUME FilterRequests PROVE Told'
  BY <1>1, <1>3 DEF FilterRequests, requestVars
<1>4. ASSUME NEW r \in Requests, BeginRequest(r) PROVE Told'
  <2>1. StartRequest(r) /\ opts' = opts /\ ctx' = ctx
    BY <1>4 DEF BeginRequest, fixed
  <2>2. /\ Tried(r)' /\ (\A q \in Requests : q # r => work'[q] = work[q]) /\ sends' = sends
        /\ work'[r].rr = ZeroResult /\ work'[r].runErr = "none"
    BY <1>0, <2>1, TriedStarts
  <2> QED
    BY <2>1, <2>2, TriedElsewhere DEF CanceledBy, ZeroResult
<1>5. ASSUME NEW r \in Requests, ResolveOnly(r) PROVE Told'
  BY <1>1, <1>5 DEF ResolveOnly, requestVars, fixed
<1>6. ASSUME NEW r \in Requests, WorkOnRequest(r) PROVE Told'
  <2>1. RequestStep(r, ctx, env) /\ opts' = opts /\ ctx' = ctx
    BY <1>6 DEF WorkOnRequest, fixed
  <2>2. Tried(r)'
    BY <1>0, <2>1, TriedInductive
  <2>3. \A q \in Requests : q # r => work'[q] = work[q] /\ sends'[q] = sends[q]
    BY <1>0, <2>1, StepShape
  <2>4. CanceledBy(r, ctx)'
    BY <1>0, <2>1, CanceledInductive DEF CanceledBy
  <2> QED
    BY <2>1, <2>2, <2>3, <2>4, TriedElsewhere DEF CanceledBy
<1>7. ASSUME NEW r \in Requests, NEW rr, Leaves(r, rr), ResultOf(r, rr) PROVE Told'
  <2>1. Recorded(r) /\ opts' = opts /\ ctx' = ctx
    BY <1>7 DEF Leaves
  <2>2. /\ Tried(r)' /\ (\A q \in Requests : q # r => work'[q] = work[q]) /\ sends' = sends
        /\ work'[r].rr = ZeroResult /\ work'[r].runErr = "none"
    BY <1>0, <2>1, TriedEnds
  <2> QED
    BY <2>1, <2>2, TriedElsewhere DEF CanceledBy, ZeroResult
<1>8. Told'
  BY <1>2, <1>3, <1>4, <1>5, <1>6, <1>7, Steps
<1> QED
  BY <1>8, BlamedStep

-----------------------------------------------------------------------------
(* The report. *)

(* Appending leaves the entries there were.                                *)
LEMMA Appended ==
    ASSUME report \in Seq(Result), NEW rr \in Result, report' = Append(report, rr)
    PROVE  /\ Len(report) \in Nat /\ Len(report)' = Len(report) + 1
           /\ DOMAIN report = 1..Len(report)
           /\ DOMAIN report' = DOMAIN report \cup {Len(report) + 1}
           /\ \A i \in DOMAIN report : report'[i] = report[i] /\ report[i] \in Result
           /\ report'[Len(report) + 1] = rr
OBVIOUS

LEMMA EntryTypes ==
    ASSUME report \in Seq(Result), NEW i \in DOMAIN report
    PROVE  report[i] \in Result /\ report[i].name \in Nat /\ i \in Nat
<1>1. report[i] \in Result /\ i \in Nat
  OBVIOUS
<1> QED
  BY <1>1, NAssumption DEF Result, Requests, NoName

(* An entry for a request below all reported ones keeps the order.         *)
LEMMA EntryBelow ==
    ASSUME report \in Seq(Result), NEW rr \in Result, report' = Append(report, rr),
           \A i \in DOMAIN report : report[i].name < rr.name,
           \A i, j \in DOMAIN report : i < j => report[i].name < report[j].name
    PROVE  \A i, j \in DOMAIN report' : i < j => report'[i].name < report'[j].name
<1> SUFFICES ASSUME NEW i \in DOMAIN report', NEW j \in DOMAIN report', i < j
             PROVE  report'[i].name < report'[j].name
  OBVIOUS
<1>1. i \in DOMAIN report /\ report'[i] = report[i]
  BY Appended
<1>2. CASE j \in DOMAIN report
  BY <1>1, <1>2, Appended
<1>3. CASE j = Len(report) + 1
  BY <1>1, <1>3, Appended
<1> QED
  BY <1>2, <1>3, Appended

(* A dry run lists a request without a word from the network.              *)
LEMMA DrySteps ==
    ASSUME NEW r \in Requests, ResolveOnly(r)
    PROVE  \E rr \in Result :
              /\ report' = Append(report, rr)
              /\ rr.name = r /\ rr.attempts = 0 /\ rr.error # "canceled" /\ rr.extracted = {}
<1> DEFINE rr == [ZeroResult EXCEPT !.name = r,
                      !.error = IF Resolves(env, coll.uses[r]) THEN "none" ELSE "unknown"]
<1>1. /\ rr \in Result
      /\ rr.name = r /\ rr.attempts = 0 /\ rr.error # "canceled" /\ rr.extracted = {}
  BY DEF ZeroResult, Result, Statuses, ErrorKinds
<1>2. report' = Append(report, rr)
  BY DEF ResolveOnly
<1> QED
  BY <1>1, <1>2

LEMMA ReportStep ==
    ASSUME TypeOK, RequestAccounts, LoopPosition, ReportInOrder, [Next]_vars
    PROVE  ReportInOrder'
<1> USE DEF ReportInOrder, Taken, Prepared, NoName
<1>0. /\ coll.kept \subseteq Requests /\ NoName \notin Requests /\ Requests \subseteq Nat
      /\ todo \subseteq coll.kept /\ report \in Seq(Result) /\ opts.retries \in Int
      /\ \A r \in Taken : \A q \in todo : r < q
      /\ ~Prepared => report = <<>>
      /\ current # NoName => phase = "loop" /\ current \in Taken
      /\ current \in Nat
      /\ phase # "stopped" => outcome = "running"
  BY NAssumption, OptionsAssumption
  DEF TypeOK, RequestTypeOK, OptionType, CollectionType, Requests, LoopPosition
<1>1. CASE QuietStep
  BY <1>0, <1>1 DEF QuietStep
<1>2. CASE FilterRequests
  <2>1. report' = <<>> /\ opts' = opts /\ current' = current /\ current = NoName
    BY <1>0, <1>2 DEF FilterRequests
  <2>2. Taken' = {}
    <3>1. PICK selected \in Filters :
              coll' = [coll EXCEPT !.kept = @ \cap selected] /\ todo' = coll.kept \cap selected
      BY <1>2 DEF FilterRequests
    <3> QED
      BY <3>1 DEF TypeOK, CollectionType
  <2> QED
    BY <2>1, <2>2
<1>3. ASSUME NEW r \in Requests, BeginRequest(r) PROVE ReportInOrder'
  <2>1. /\ r \in todo /\ (\A q \in todo : r <= q) /\ todo' = todo \ {r} /\ current' = r
        /\ current = NoName /\ phase = "loop" /\ phase' = phase /\ outcome' = outcome
        /\ coll' = coll /\ opts' = opts /\ report' = report
    BY <1>3 DEF BeginRequest, BetweenRequests, IsFirstTodo, fixed
  <2> QED
    BY <1>0, <2>1
<1>4. ASSUME NEW r \in Requests, ResolveOnly(r) PROVE ReportInOrder'
  <2>1. /\ r \in todo /\ (\A q \in todo : r <= q) /\ todo' = todo \ {r} /\ current' = current
        /\ current = NoName /\ phase = "loop" /\ phase' = phase /\ outcome' = outcome
        /\ coll' = coll /\ opts' = opts
    BY <1>4 DEF ResolveOnly, BetweenRequests, IsFirstTodo, fixed, requestVars
  <2>2. PICK rr \in Result : report' = Append(report, rr) /\ rr.name = r
    BY <1>4, DrySteps
  <2>3. /\ DOMAIN report = 1..Len(report) /\ Len(report) \in Nat
        /\ DOMAIN report' = DOMAIN report \cup {Len(report) + 1}
        /\ \A i \in DOMAIN report : report'[i] = report[i] /\ report[i] \in Result
        /\ report'[Len(report) + 1] = rr
    BY <1>0, <2>2, Appended
  <2>4. Taken' = Taken \cup {r}
    BY <1>0, <2>1
  <2>5. \A i \in DOMAIN report : report[i].name # NoName => report[i].name < r
    BY <1>0, <2>1
  <2>6. \A i \in DOMAIN report' : report'[i].name # NoName => report'[i].name \in Taken'
    BY <2>2, <2>3, <2>4
  <2>7. ASSUME opts.retries >= 0
        PROVE  /\ \A i \in DOMAIN report' : report'[i].name # NoName
               /\ \A i, j \in DOMAIN report' : i < j => report'[i].name < report'[j].name
               /\ \A q \in Taken' : \E i \in DOMAIN report' : report'[i].name = q
    <3>1. \A i \in DOMAIN report' : report'[i].name # NoName
      BY <1>0, <2>2, <2>3, <2>7
    <3>2. \A i, j \in DOMAIN report' : i < j => report'[i].name < report'[j].name
      BY <1>0, <2>2, <2>5, <2>7, EntryBelow
    <3>3. \A q \in Taken' : \E i \in DOMAIN report' : report'[i].name = q
      <4>1. \A q \in Taken : \E i \in DOMAIN report : report[i].name = q
        BY <1>0, <2>1, <2>7
      <4> QED
        BY <2>2, <2>3, <2>4, <4>1
    <3> QED
      BY <3>1, <3>2, <3>3
  <2> QED
    BY <2>1, <2>6, <2>7
<1>5. ASSUME NEW r \in Requests, WorkOnRequest(r) PROVE ReportInOrder'
  BY <1>0, <1>5 DEF WorkOnRequest, fixed, runVars
<1>6. ASSUME NEW r \in Requests, NEW rr, Leaves(r, rr), ResultOf(r, rr) PROVE ReportInOrder'
  <2>1. /\ current = r /\ current' = NoName /\ phase = "loop"
        /\ coll' = coll /\ opts' = opts /\ todo' = todo
        /\ phase' # "prepare" /\ outcome' # "error" /\ report' = Append(report, rr)
    BY <1>0, <1>6 DEF Leaves
  <2>2. rr \in Result /\ (rr.name = r \/ (rr.name = NoName /\ opts.retries < 0))
    BY <1>6 DEF ResultOf
  <2>3. /\ DOMAIN report = 1..Len(report) /\ Len(report) \in Nat
        /\ DOMAIN report' = DOMAIN report \cup {Len(report) + 1}
        /\ \A i \in DOMAIN report : report'[i] = report[i] /\ report[i] \in Result
        /\ report'[Len(report) + 1] = rr
    BY <1>0, <2>1, <2>2, Appended
  <2>4. Taken' = Taken /\ r \in Taken
    BY <1>0, <2>1
  <2>5. \A i \in DOMAIN report : report[i].name # NoName => report[i].name < r
    BY <1>0, <2>1
  <2>6. \A i \in DOMAIN report' : report'[i].name # NoName => report'[i].name \in Taken'
    BY <2>2, <2>3, <2>4
  <2>7. ASSUME opts.retries >= 0
        PROVE  /\ \A i \in DOMAIN report' : report'[i].name # NoName
               /\ \A i, j \in DOMAIN report' : i < j => report'[i].name < report'[j].name
               /\ \A q \in Taken' : \E i \in DOMAIN report' : report'[i].name = q
    <3>0. rr.name = r
      BY <1>0, <2>2, <2>7
    <3>1. \A i \in DOMAIN report' : report'[i].name # NoName
      BY <1>0, <2>3, <2>7, <3>0
    <3>2. \A i, j \in DOMAIN report' : i < j => report'[i].name < report'[j].name
      BY <1>0, <2>1, <2>2, <2>5, <2>7, <3>0, EntryBelow
    <3>3. \A q \in Taken' : \E i \in DOMAIN report' : report'[i].name = q
      <4>1. \A q \in Taken : q = r \/ \E i \in DOMAIN report : report[i].name = q
        BY <1>0, <2>1, <2>7
      <4> QED
        BY <2>3, <2>4, <3>0, <4>1
    <3> QED
      BY <3>1, <3>2, <3>3
  <2> QED
    BY <2>1, <2>6, <2>7
<1> QED
  BY <1>1, <1>2, <1>3, <1>4, <1>5, <1>6, Steps

-----------------------------------------------------------------------------
(* How a run ends. *)

LEMMA ClosesStep ==
    ASSUME TypeOK, RequestAccounts, LoopPosition, FailureCloses, [Next]_vars
    PROVE  FailureCloses'
<1> USE DEF FailureCloses, Prepared
<1>0. /\ report \in Seq(Result)
      /\ ~Prepared => report = <<>>
      /\ phase # "stopped" => outcome = "running"
  BY DEF TypeOK, LoopPosition
<1>1. CASE QuietStep
  BY <1>0, <1>1 DEF QuietStep, Failed
<1>2. CASE FilterRequests
  BY <1>0, <1>2 DEF FilterRequests
<1>3. ASSUME NEW r \in Requests, BeginRequest(r) PROVE FailureCloses'
  BY <1>0, <1>3 DEF BeginRequest, BetweenRequests, fixed, Failed
<1>4. ASSUME NEW r \in Requests, ResolveOnly(r) PROVE FailureCloses'
  BY <1>0, <1>4 DEF ResolveOnly, BetweenRequests, fixed
<1>5. ASSUME NEW r \in Requests, WorkOnRequest(r) PROVE FailureCloses'
  BY <1>0, <1>5 DEF WorkOnRequest, fixed, runVars, Failed
<1>6. ASSUME NEW r \in Requests, NEW rr, Leaves(r, rr), ResultOf(r, rr) PROVE FailureCloses'
  <2>1. /\ phase = "loop" /\ opts' = opts /\ report' = Append(report, rr) /\ rr \in Result
        /\ outcome = "running"
        /\ \/ phase' = "loop" /\ outcome' = outcome /\ ~(opts.failFast /\ Failed(rr))
           \/ phase' = "ended" /\ outcome' = outcome /\ opts.failFast /\ Failed(rr)
           \/ phase' = "stopped" /\ outcome' = "interrupted"
    BY <1>0, <1>6 DEF Leaves, ResultOf
  <2>2. /\ DOMAIN report' = DOMAIN report \cup {Len(report) + 1} /\ Len(report)' = Len(report) + 1
        /\ \A i \in DOMAIN report : report'[i] = report[i]
        /\ report'[Len(report) + 1] = rr /\ report' # <<>>
    BY <1>0, <2>1, Appended
  <2>3. ASSUME opts.failFast /\ ~opts.dryRun, NEW i \in DOMAIN report', Failed(report'[i])
        PROVE  i = Len(report') /\ phase' # "loop"
    <3>1. i \notin DOMAIN report
      BY <2>1, <2>2, <2>3
    <3> QED
      BY <2>1, <2>2, <2>3, <3>1
  <2>4. phase' = "ended" => opts'.failFast /\ Failed(report'[Len(report')])
    BY <2>1, <2>2
  <2> QED
    BY <2>1, <2>2, <2>3, <2>4 DEF Failed
<1> QED
  BY <1>1, <1>2, <1>3, <1>4, <1>5, <1>6, Steps

LEMMA CutStep ==
    ASSUME TypeOK, RequestAccounts, LoopPosition, CutNeverSaved, [Next]_vars
    PROVE  CutNeverSaved'
<1> USE DEF CutNeverSaved
<1>0. report \in Seq(Result) /\ (phase # "stopped" => outcome = "running")
  BY DEF TypeOK, LoopPosition
<1>1. CASE QuietStep
  BY <1>0, <1>1 DEF QuietStep
<1>2. CASE FilterRequests
  BY <1>0, <1>2 DEF FilterRequests
<1>3. ASSUME NEW r \in Requests, BeginRequest(r) PROVE CutNeverSaved'
  BY <1>3 DEF BeginRequest
<1>4. ASSUME NEW r \in Requests, ResolveOnly(r) PROVE CutNeverSaved'
  <2>1. PICK rr \in Result : report' = Append(report, rr) /\ rr.error # "canceled"
    BY <1>4, DrySteps
  <2>2. UNCHANGED <<ctx, phase, outcome>>
    BY <1>4 DEF ResolveOnly
  <2> QED
    BY <1>0, <2>1, <2>2, Appended
<1>5. ASSUME NEW r \in Requests, WorkOnRequest(r) PROVE CutNeverSaved'
  BY <1>5 DEF WorkOnRequest, runVars
<1>6. ASSUME NEW r \in Requests, NEW rr, Leaves(r, rr), ResultOf(r, rr) PROVE CutNeverSaved'
  <2>1. /\ report' = Append(report, rr) /\ rr \in Result /\ ctx' = ctx
        /\ rr.error = "canceled" => ctx # "live"
        /\ phase' # "saving" /\ outcome' \notin {"done", "saved", "saveError"}
    BY <1>0, <1>6 DEF Leaves, ResultOf
  <2> QED
    BY <1>0, <2>1, Appended
<1> QED
  BY <1>1, <1>2, <1>3, <1>4, <1>5, <1>6, Steps

LEMMA AttemptsStep ==
    ASSUME TypeOK, RequestAccounts, LoopPosition, ReportInOrder, AttemptsAreSends, [Next]_vars
    PROVE  AttemptsAreSends'
<1> USE DEF AttemptsAreSends
<1>0. /\ report \in Seq(Result) /\ RequestTypeOK /\ NoName \notin Requests
      /\ \A i \in DOMAIN report :
            /\ report[i].name \in Requests \cup {NoName}
            /\ current # NoName /\ report[i].name # NoName => report[i].name # current
  <2>1. report \in Seq(Result) /\ RequestTypeOK /\ NoName \notin Requests
    BY NAssumption DEF TypeOK, Requests, NoName
  <2>2. \A i \in DOMAIN report : report[i] \in Result
    BY <2>1
  <2>3. /\ \A i \in DOMAIN report : report[i].name \in Requests \cup {NoName}
        /\ current \in Requests \cup {NoName} /\ Requests \subseteq Nat
    BY <2>2, NAssumption DEF TypeOK, Result, Requests
  <2>4. ASSUME NEW i \in DOMAIN report, current # NoName, report[i].name # NoName
        PROVE  report[i].name # current
    <3>1. report[i].name < current
      BY <2>4 DEF ReportInOrder
    <3>2. current \in Nat
      BY <2>3, NAssumption DEF NoName
    <3> QED
      BY <3>1, <3>2
  <2> QED
    BY <2>1, <2>3, <2>4
<1>1. ASSUME UNCHANGED <<report, sends, opts>>, ctx # "live" => ctx' # "live"
      PROVE  AttemptsAreSends'
  BY <1>1 DEF MaxAttempts
<1>2. CASE QuietStep \/ FilterRequests
  BY <1>1, <1>2 DEF QuietStep, FilterRequests, requestVars
<1>3. ASSUME NEW r \in Requests, BeginRequest(r) PROVE AttemptsAreSends'
  <2>1. sends' = sends
    BY <1>0, <1>3, TriedStarts DEF BeginRequest, RequestAccounts, fixed
  <2> QED
    BY <1>1, <1>3, <2>1 DEF BeginRequest, fixed
<1>4. ASSUME NEW r \in Requests, ResolveOnly(r) PROVE AttemptsAreSends'
  <2>1. PICK rr \in Result : report' = Append(report, rr) /\ rr.name = r /\ rr.attempts = 0
    BY <1>4, DrySteps
  <2>2. UNCHANGED <<sends, opts, ctx>> /\ sends[r] = 0
    <3>1. r \in todo /\ UNCHANGED <<sends, opts, ctx>> /\ current = NoName
      BY <1>4 DEF ResolveOnly, requestVars, fixed, BetweenRequests, IsFirstTodo
    <3>2. ~Begun(r)
      BY <3>1 DEF LoopPosition, Taken
    <3> QED
      BY <3>1, <3>2 DEF RequestAccounts, Tried, Begun, At
  <2> QED
    BY <1>0, <2>1, <2>2, Appended DEF MaxAttempts
<1>5. ASSUME NEW r \in Requests, WorkOnRequest(r) PROVE AttemptsAreSends'
  <2>1. /\ current = r /\ UNCHANGED <<report, opts, ctx>>
        /\ \A q \in Requests : q # r => sends'[q] = sends[q]
    BY <1>0, <1>5, StepShape DEF WorkOnRequest, fixed, runVars
  <2> QED
    BY <1>0, <2>1, NAssumption DEF MaxAttempts, NoName, Requests
<1>6. ASSUME NEW r \in Requests, NEW rr, Leaves(r, rr), ResultOf(r, rr) PROVE AttemptsAreSends'
  <2>1. /\ report' = Append(report, rr) /\ rr \in Result /\ UNCHANGED <<opts, ctx>>
        /\ Recorded(r)
        /\ rr.name = r \/ rr.name = NoName
        /\ rr.name # NoName =>
            /\ sends[r] = 0 \/ sends[r] <= 1 + opts.retries
            /\ rr.attempts = sends[r] \/ (Placeholder(rr) /\ (sends[r] = 0 \/ ctx # "live"))
    BY <1>6 DEF Leaves, ResultOf
  <2>2. sends' = sends
    BY <2>1 DEF Recorded
  <2> QED
    BY <1>0, <2>1, <2>2, Appended DEF MaxAttempts
<1> QED
  BY <1>2, <1>3, <1>4, <1>5, <1>6, Steps

-----------------------------------------------------------------------------
(* What the variables hold. *)

LEMMA KnownStep ==
    ASSUME TypeOK, RequestAccounts, LoopPosition, KnownStays, [Next]_vars
    PROVE  KnownStays'
<1> USE DEF KnownStays, Known
<1>0. /\ report \in Seq(Result) /\ RequestTypeOK /\ env \in Environment
      /\ NoName \notin Requests /\ Requests \subseteq Nat
      /\ coll \in CollectionType
  BY NAssumption DEF TypeOK, Requests, NoName
<1>1. CASE QuietStep
  BY <1>1 DEF QuietStep, Begun, At
<1>2. CASE FilterRequests
  <2>1. PICK selected \in Filters :
            coll' = [coll EXCEPT !.kept = @ \cap selected] /\ todo' = coll.kept \cap selected
    BY <1>2 DEF FilterRequests
  <2>2. coll'.seeds = coll.seeds /\ \A r \in Requests : Produced(coll', r) = Produced(coll, r)
    BY <1>0, <2>1 DEF CollectionType, Produced
  <2> QED
    BY <1>2, <2>2 DEF FilterRequests, requestVars, Begun, At
<1>3. ASSUME NEW r \in Requests, BeginRequest(r) PROVE KnownStays'
  <2>1. /\ StartRequest(r) /\ UNCHANGED <<coll, opts, env, report>>
        /\ current = NoName /\ current' = r
    BY <1>3 DEF BeginRequest, BetweenRequests, fixed
  <2>2. \A q \in Requests : q # r => work'[q] = work[q]
    BY <1>0, <2>1, TriedStarts DEF RequestAccounts
  <2> QED
    BY <1>0, <2>1, <2>2 DEF Begun, At
<1>4. ASSUME NEW r \in Requests, ResolveOnly(r) PROVE KnownStays'
  <2>1. PICK rr \in Result : report' = Append(report, rr)
    BY <1>4, DrySteps
  <2>2. UNCHANGED <<coll, work, current, env>>
    BY <1>4 DEF ResolveOnly, requestVars, fixed
  <2>3. \A i \in DOMAIN report : i \in DOMAIN report' /\ report'[i] = report[i]
    BY <1>0, <2>1, Appended
  <2> QED
    BY <2>2, <2>3 DEF Begun, At
<1>5. ASSUME NEW r \in Requests, WorkOnRequest(r) PROVE KnownStays'
  <2>1. /\ current = r /\ UNCHANGED <<coll, current, env, report>>
        /\ \A q \in Requests : q # r => work'[q] = work[q]
    BY <1>0, <1>5, StepShape DEF WorkOnRequest, fixed, runVars
  <2> QED
    BY <2>1 DEF Begun, At
<1>6. ASSUME NEW r \in Requests, NEW rr, Leaves(r, rr), ResultOf(r, rr) PROVE KnownStays'
  <2>1. /\ report' = Append(report, rr) /\ rr \in Result /\ UNCHANGED <<coll, opts>>
        /\ Recorded(r) /\ current = r /\ env' = MergeExtracted(env, r, rr.extracted)
        /\ rr.error = "none" /\ rr.extractsOK => rr.extracted = Produced(coll, r)
    BY <1>6 DEF Leaves, ResultOf
  <2>2. \A q \in Requests : q # r => work'[q] = work[q]
    BY <1>0, <2>1, TriedEnds DEF RequestAccounts
  <2>3. /\ \A i \in DOMAIN report : i \in DOMAIN report' /\ report'[i] = report[i]
        /\ Len(report) + 1 \in DOMAIN report' /\ report'[Len(report) + 1] = rr
    BY <1>0, <2>1, Appended
  <2>4. \A v \in VarNames : /\ env[v] # Unset => env'[v] # Unset
                            /\ v \in rr.extracted => env'[v] # Unset
    BY <1>0, <2>1 DEF MergeExtracted, Unset
  <2>5. \A q \in Requests : Produced(coll, q) \subseteq VarNames
    BY <1>0 DEF Produced, CollectionType
  <2>6. \A v \in coll.seeds : v \in VarNames
    BY <1>0 DEF CollectionType
  <2>7. ASSUME \A i \in DOMAIN report' : report'[i].error = "none" /\ report'[i].extractsOK,
               NEW q \in Requests, Begun(q)', NEW v \in Produced(coll, q)
        PROVE  env'[v] # Unset
    <3>1. CASE q = r
      BY <2>1, <2>3, <2>4, <2>5, <2>7, <3>1
    <3>2. CASE q # r
      BY <2>1, <2>2, <2>3, <2>4, <2>5, <2>7, <3>2 DEF Begun, At
    <3> QED
      BY <3>1, <3>2
  <2> QED
    BY <2>1, <2>4, <2>6, <2>7
<1> QED
  BY <1>1, <1>2, <1>3, <1>4, <1>5, <1>6, Steps

(* The last extraction stays the last when nothing extracts after it.      *)
LEMMA LatestStays ==
    ASSUME report \in Seq(Result), NEW rr \in Result, report' = Append(report, rr),
           NEW v, NEW value, v \notin rr.extracted, coll' = coll, Latest(value, v, DOMAIN report)
    PROVE  Latest(value, v, DOMAIN report)'
<1>1. /\ DOMAIN report' = DOMAIN report \cup {Len(report) + 1}
      /\ \A i \in DOMAIN report : report'[i] = report[i]
      /\ report'[Len(report) + 1] = rr
  BY Appended
<1>2. CASE \E i \in DOMAIN report : LastExtracting(i, v, DOMAIN report) /\ value = report[i].name
  BY <1>1, <1>2 DEF Latest, LastExtracting
<1>3. CASE (\A i \in DOMAIN report : v \notin report[i].extracted) /\ value = SeedVars(coll)[v]
  BY <1>1, <1>3 DEF Latest
<1> QED
  BY <1>2, <1>3 DEF Latest

(* What a request saw does not depend on what is reported below it.        *)
LEMMA AboveStays ==
    ASSUME report \in Seq(Result), NEW rr \in Result, report' = Append(report, rr),
           NEW r, ~(rr.name < r)
    PROVE  /\ Above(r)' = Above(r)
           /\ \A i \in Above(r) : report'[i] = report[i]
BY Appended DEF Above

LEMMA ValuesStep ==
    ASSUME TypeOK, RequestAccounts, LoopPosition, ReportInOrder, ValuesLatest, [Next]_vars
    PROVE  ValuesLatest'
<1> USE DEF ValuesLatest
<1>0. /\ report \in Seq(Result) /\ RequestTypeOK /\ env \in Environment
      /\ NoName \notin Requests /\ Requests \subseteq Nat
      /\ coll \in CollectionType /\ opts.retries \in Int
      /\ sends \in [Requests -> Nat]
  BY NAssumption, OptionsAssumption DEF TypeOK, RequestTypeOK, OptionType, Requests, NoName
<1>1. ASSUME UNCHANGED <<report, opts, env, saw, sends>>, SeedVars(coll)' = SeedVars(coll)
      PROVE  ValuesLatest'
  BY <1>1 DEF Latest, LastExtracting, Above
<1>2. CASE QuietStep
  BY <1>1, <1>2 DEF QuietStep, SeedVars
<1>3. CASE FilterRequests
  <2>1. PICK selected \in Filters :
            coll' = [coll EXCEPT !.kept = @ \cap selected] /\ todo' = coll.kept \cap selected
    BY <1>3 DEF FilterRequests
  <2>2. coll'.seeds = coll.seeds
    BY <1>0, <2>1 DEF CollectionType
  <2> QED
    BY <1>1, <1>3, <2>2 DEF FilterRequests, requestVars, SeedVars
<1>4. ASSUME NEW r \in Requests, BeginRequest(r) PROVE ValuesLatest'
  <2>1. StartRequest(r) /\ UNCHANGED <<coll, opts, env, report>>
    BY <1>4 DEF BeginRequest, fixed
  <2>2. sends' = sends /\ saw' = saw
    BY <1>0, <2>1, TriedStarts DEF RequestAccounts
  <2> QED
    BY <1>1, <2>1, <2>2 DEF SeedVars
<1>5. ASSUME NEW r \in Requests, ResolveOnly(r) PROVE ValuesLatest'
  <2>1. PICK rr \in Result : report' = Append(report, rr) /\ rr.name = r /\ rr.extracted = {}
    BY <1>5, DrySteps
  <2>2. UNCHANGED <<coll, opts, env, saw, sends>> /\ opts.dryRun
    BY <1>5 DEF ResolveOnly, requestVars, fixed
  <2>3. \A q \in Requests : sends[q] = 0
    BY <1>0, <2>2 DEF LoopPosition, Begun, At, RequestAccounts, Tried
  <2>4. ASSUME opts.retries >= 0, NEW v \in VarNames PROVE Latest(env[v], v, DOMAIN report)'
    <3>1. PICK value : value = env[v]
      OBVIOUS
    <3>2. Latest(value, v, DOMAIN report)
      BY <2>4, <3>1
    <3>3. report \in Seq(Result) /\ v \notin rr.extracted /\ coll' = coll
      BY <1>0, <2>1, <2>2
    <3>4. Latest(value, v, DOMAIN report)'
      BY ONLY <2>1, <3>2, <3>3, LatestStays
    <3> QED
      BY <2>2, <3>1, <3>4 DEF Latest, LastExtracting
  <2> QED
    BY <2>2, <2>3, <2>4
<1>6. ASSUME NEW r \in Requests, WorkOnRequest(r) PROVE ValuesLatest'
  <2>1. current = r /\ UNCHANGED <<coll, opts, env, report>> /\ RequestStep(r, ctx, env)
    BY <1>6 DEF WorkOnRequest, fixed, runVars
  <2>2. /\ \A q \in Requests : q # r => sends'[q] = sends[q] /\ saw'[q] = saw[q]
        /\ \/ sends'[r] = sends[r] /\ saw'[r] = saw[r]
           \/ saw'[r] = env
    BY <1>0, <2>1, StepShape
  <2>3. opts.retries >= 0 => Above(r) = DOMAIN report
    BY <1>0, <2>1 DEF ReportInOrder, Above
  <2>4. ASSUME opts.retries >= 0, NEW q \in Requests, sends'[q] > 0, NEW v \in VarNames
        PROVE  Latest(saw'[q][v], v, Above(q))
    BY <2>2, <2>3, <2>4
  <2> QED
    BY <2>1, <2>4 DEF Latest, LastExtracting, Above, SeedVars
<1>7. ASSUME NEW r \in Requests, NEW rr, Leaves(r, rr), ResultOf(r, rr) PROVE ValuesLatest'
  <2>1. /\ report' = Append(report, rr) /\ rr \in Result /\ UNCHANGED <<coll, opts>>
        /\ current = r /\ env' = MergeExtracted(env, r, rr.extracted) /\ phase = "loop"
        /\ rr.name = r \/ opts.retries < 0
        /\ sends' = sends /\ saw' = saw
    BY <1>7 DEF Leaves, ResultOf, Recorded
  <2>2. /\ DOMAIN report' = DOMAIN report \cup {Len(report) + 1}
        /\ \A i \in DOMAIN report : report'[i] = report[i]
        /\ report'[Len(report) + 1] = rr
    BY <1>0, <2>1, Appended
  <2> SUFFICES ASSUME opts.retries >= 0
               PROVE  /\ \A v \in VarNames : Latest(env[v], v, DOMAIN report)'
                      /\ \A q \in Requests : sends[q] > 0 =>
                            \A v \in VarNames : Latest(saw[q][v], v, Above(q))'
    BY <2>1
  <2>3. rr.name = r /\ \A i \in DOMAIN report : report[i].name < r
    BY <1>0, <2>1 DEF ReportInOrder
  <2>4. ASSUME NEW v \in VarNames PROVE Latest(env[v], v, DOMAIN report)'
    <3>1. CASE v \in rr.extracted
      <4>1. env'[v] = r
        BY <2>1, <2>4, <3>1 DEF MergeExtracted
      <4>2. \E i \in DOMAIN report' :
                /\ v \in report'[i].extracted /\ report'[i].name = r
                /\ \A j \in DOMAIN report' : report'[j].name <= report'[i].name
        <5>1. r \in Nat /\ r <= r
          BY <1>0
        <5>2. \A j \in DOMAIN report : report[j].name <= r
          BY <1>0, <2>3, <5>1, EntryTypes
        <5>3. \A j \in DOMAIN report' : report'[j].name <= r
          BY <2>2, <2>3, <5>1, <5>2
        <5> QED
          BY <2>2, <2>3, <3>1, <5>3
      <4> QED
        BY <4>1, <4>2 DEF Latest, LastExtracting
    <3>2. CASE v \notin rr.extracted
      <4>1. env'[v] = env[v]
        BY <2>1, <2>4, <3>2 DEF MergeExtracted
      <4>2. PICK value : value = env[v]
        OBVIOUS
      <4>3. Latest(value, v, DOMAIN report)
        BY <2>4, <4>2
      <4>4. report \in Seq(Result) /\ report' = Append(report, rr) /\ rr \in Result /\ coll' = coll
        BY <1>0, <2>1
      <4>5. Latest(value, v, DOMAIN report)'
        BY ONLY <3>2, <4>3, <4>4, LatestStays
      <4> QED
        BY <4>1, <4>2, <4>5 DEF Latest, LastExtracting
    <3> QED
      BY <3>1, <3>2
  <2>5. ASSUME NEW q \in Requests, sends[q] > 0, NEW v \in VarNames
        PROVE  Latest(saw[q][v], v, Above(q))'
    <3>1. Begun(q)
      BY <2>5 DEF RequestAccounts, Tried, Begun, At
    <3>2. q = r \/ \E i \in DOMAIN report : report[i].name = q
      BY <2>1, <3>1 DEF LoopPosition, ReportInOrder
    <3>3. ~(rr.name < q)
      BY <1>0, <2>3, <3>2
    <3>4. Latest(saw[q][v], v, Above(q))
      BY <2>5
    <3>5. Above(q)' = Above(q) /\ \A i \in Above(q) : report'[i] = report[i]
      BY <1>0, <2>1, <3>3, AboveStays
    <3>6. SeedVars(coll)' = SeedVars(coll) /\ saw' = saw
      BY <2>1 DEF SeedVars
    <3> QED
      BY <3>4, <3>5, <3>6 DEF Latest, LastExtracting
  <2> QED
    BY <2>4, <2>5
<1> QED
  BY <1>2, <1>3, <1>4, <1>5, <1>6, <1>7, Steps

-----------------------------------------------------------------------------
(* The invariant. *)

LEMMA InitIInv == Init => IInv
<1> SUFFICES ASSUME Init PROVE IInv
  OBVIOUS
<1> USE DEF Init
<1>1. RequestTypeOK
  BY RequestInitType
<1>2. coll \in CollectionType /\ env \in Environment
  BY CollectionsAssumption, SeedVarsType
<1>3. TypeOK
  BY <1>1, <1>2 DEF TypeOK
<1>4. /\ \A r \in Requests : work[r] = Idle /\ sends[r] = 0
      /\ NoName \notin Requests /\ ~Prepared /\ Taken = {}
  BY NAssumption DEF RequestInit, Requests, NoName, Prepared, Taken
<1>5. LoopPosition
  BY <1>2, <1>4 DEF LoopPosition, Idle, Begun, At, CollectionType
<1>6. opts.retries \in Int
  BY OptionsAssumption DEF OptionType
<1>7. RequestAccounts
  <2> SUFFICES ASSUME NEW r \in Requests PROVE Tried(r) /\ CanceledBy(r, ctx) /\ Blamed(r)
    BY DEF RequestAccounts
  <2>1. /\ work[r].pc = "idle" /\ work[r].attempt = 0 /\ work[r].rr = ZeroResult
        /\ work[r].runErr = "none" /\ sends[r] = 0
    BY <1>4 DEF Idle
  <2>2. Tried(r)
    BY <1>6, <2>1 DEF Tried, At
  <2>3. CanceledBy(r, ctx) /\ Blamed(r)
    BY <2>1 DEF CanceledBy, ZeroResult, Blamed
  <2> QED
    BY <2>2, <2>3
<1>8. ReportInOrder /\ FailureCloses /\ CutNeverSaved /\ AttemptsAreSends
  BY <1>4 DEF ReportInOrder, FailureCloses, CutNeverSaved, AttemptsAreSends
<1>9. KnownStays
  BY <1>2, <1>4 DEF KnownStays, Known, SeedVars, Seed, Unset, Begun, At, Idle, CollectionType
<1>10. ValuesLatest
  BY <1>4 DEF ValuesLatest, Latest
<1> QED
  BY <1>3, <1>5, <1>7, <1>8, <1>9, <1>10 DEF IInv

LEMMA IInvStep == IInv /\ [Next]_vars => IInv'
BY TypeStep, LoopStep, AccountsStep, ReportStep, ClosesStep, CutStep, AttemptsStep, KnownStep,
   ValuesStep DEF IInv

LEMMA IInvHolds == Spec => []IInv
BY InitIInv, IInvStep, PTL DEF Spec

-----------------------------------------------------------------------------
(* The theorems. *)

(* The variables keep their types in every run of every collection.        *)
THEOREM TypeCorrect == Spec => []TypeOK
BY IInvHolds, PTL DEF IInv

(* A failure is the last entry of a --fail-fast run, and what was sent was *)
(* sent by then.                                                           *)
THEOREM FailFastCorrect == Spec => []FailFastStops
<1>1. IInv => FailFastStops
  <2> SUFFICES ASSUME IInv, opts.failFast /\ ~opts.dryRun, NEW i \in DOMAIN report,
                      Failed(report[i])
               PROVE  i = Len(report) /\ \A r \in Requests : sends[r] > 0 => r <= report[i].name
    BY DEF FailFastStops
  <2> USE DEF IInv
  <2>1. i = Len(report) /\ phase # "loop" /\ current = NoName
    BY DEF FailureCloses, LoopPosition
  <2>2. ASSUME NEW r \in Requests, sends[r] > 0 PROVE r <= report[i].name
    <3>1. Begun(r) /\ ~(opts.retries < 0)
      BY <2>2 DEF RequestAccounts, Tried, Begun, At
    <3>2. opts.retries >= 0
      BY <3>1, OptionsAssumption DEF TypeOK, RequestTypeOK, OptionType
    <3>3. r \in Taken /\ r # current
      BY <2>1, <3>1, NAssumption DEF LoopPosition, Requests, NoName
    <3>4. PICK j \in DOMAIN report : report[j].name = r
      BY <3>2, <3>3 DEF ReportInOrder
    <3>5. report \in Seq(Result) /\ DOMAIN report = 1..Len(report) /\ Len(report) \in Nat
      BY DEF TypeOK
    <3>6. j = i \/ j < i
      BY <2>1, <3>5
    <3>7. r \in Nat /\ report[i].name \in Nat /\ r <= r
      BY <3>5, NAssumption, EntryTypes DEF Requests
    <3>8. j < i => report[j].name < report[i].name
      BY <3>2 DEF ReportInOrder
    <3> QED
      BY <3>4, <3>6, <3>7, <3>8
  <2> QED
    BY <2>1, <2>2
<1> QED
  BY <1>1, IInvHolds, PTL

(* Whatever ends a request, it is in the report, once, at its place.       *)
THEOREM NothingVanishesCorrect == Spec => []NothingVanishes
<1>1. IInv => NothingVanishes
  <2> SUFFICES ASSUME IInv, opts.retries >= 0
               PROVE  /\ \A i, j \in DOMAIN report : i < j => report[i].name < report[j].name
                      /\ \A r \in coll.kept : Begun(r) /\ r # current => r \in ReportedNames
    BY DEF NothingVanishes
  <2>1. coll.kept \subseteq Requests
    BY DEF IInv, TypeOK, CollectionType
  <2>2. \A r \in coll.kept : Begun(r) => r \in Taken
    BY <2>1 DEF IInv, LoopPosition
  <2> QED
    BY <2>2 DEF IInv, ReportInOrder, ReportedNames
<1> QED
  BY <1>1, IInvHolds, PTL

(* A saved artifact was not cut short.                                     *)
THEOREM SavedIsWholeCorrect == Spec => []SavedIsWhole
<1>1. IInv => SavedIsWhole
  <2> SUFFICES ASSUME IInv, outcome = "saved", opts.retries >= 0
               PROVE  /\ \A i \in DOMAIN report : report[i].error # "canceled"
                      /\ \/ ReportedNames = coll.kept
                         \/ opts.failFast /\ report # <<>> /\ Failed(report[Len(report)])
    BY DEF SavedIsWhole
  <2> USE DEF IInv
  <2>1. Prepared /\ phase = "stopped" /\ current = NoName
    BY DEF FailureCloses, LoopPosition
  <2>2. CASE todo = {}
    <3>1. Taken = coll.kept
      BY <2>1, <2>2 DEF Taken
    <3>2. coll.kept \subseteq Requests /\ NoName \notin Requests
      BY NAssumption DEF TypeOK, CollectionType, Requests, NoName
    <3>3. ReportedNames = coll.kept
      BY <2>1, <3>1, <3>2 DEF ReportInOrder, ReportedNames
    <3> QED
      BY <3>3 DEF CutNeverSaved
  <2> QED
    BY <2>2 DEF FailureCloses, CutNeverSaved
<1> QED
  BY <1>1, IInvHolds, PTL

(* The attempts reported are the requests that went out.                   *)
THEOREM AttemptsCorrect == Spec => []AttemptsAreSends
BY IInvHolds, PTL DEF IInv

(* After `lynix validate' a full run finds every variable.                 *)
THEOREM ValidatedCorrect == Spec => []ValidatedNeverUnresolved
<1>1. IInv => ValidatedNeverUnresolved
  <2> SUFFICES ASSUME IInv, Presentable(coll), coll.kept = Requests, current # NoName,
                      \A i \in DOMAIN report : report[i].error = "none" /\ report[i].extractsOK,
                      NEW v \in coll.uses[current]
               PROVE  Known(env, v)
    BY DEF ValidatedNeverUnresolved, Resolves
  <2> USE DEF IInv
  <2>1. current \in Requests /\ current \in Taken /\ Requests \subseteq Nat
    BY NAssumption DEF TypeOK, LoopPosition, Taken, Requests
  <2>2. v \in coll.seeds \/ \E p \in 1..(current - 1) : v \in Produced(coll, p)
    BY <2>1 DEF Presentable, KnownAbove
  <2>3. ASSUME NEW p \in 1..(current - 1), v \in Produced(coll, p) PROVE Known(env, v)
    <3>1. p \in Requests /\ p < current
      BY <2>1, NAssumption DEF Requests
    <3>2. p \in Taken
      BY <2>1, <3>1 DEF LoopPosition, Taken
    <3>3. Begun(p)
      BY <2>1, <3>1, <3>2 DEF LoopPosition, Begun, At
    <3> QED
      BY <2>1, <2>3, <3>1, <3>3 DEF KnownStays
  <2> QED
    BY <2>2, <2>3 DEF KnownStays
<1> QED
  BY <1>1, IInvHolds, PTL

(* A request is sent with the latest values extracted above it.            *)
THEOREM SeesLatestCorrect == Spec => []SeesLatestValue
<1>1. IInv => SeesLatestValue
  <2> SUFFICES ASSUME IInv, NEW r \in Requests, sends[r] > 0, NEW v \in VarNames
               PROVE  saw[r][v] = IF Extractors(r, v) # {} THEN Max(Extractors(r, v))
                                  ELSE SeedVars(coll)[v]
    BY DEF SeesLatestValue
  <2> USE DEF IInv
  <2>1. opts.retries >= 0
    BY OptionsAssumption DEF RequestAccounts, Tried, TypeOK, RequestTypeOK, OptionType
  <2>2. /\ report \in Seq(Result) /\ DOMAIN report \subseteq Nat
        /\ \A i \in DOMAIN report : report[i] \in Result /\ report[i].name \in Nat
    BY EntryTypes DEF TypeOK
  <2>3. \A i, j \in DOMAIN report : report[i].name = report[j].name => i = j
    BY <2>1, <2>2 DEF ReportInOrder
  <2>4. \A i \in DOMAIN report : ReportOf(report[i].name) = report[i]
    BY <2>3 DEF ReportOf
  <2>5. Extractors(r, v) = {report[i].name : i \in {j \in Above(r) : v \in report[j].extracted}}
    BY <2>4 DEF Extractors, ReportedNames, Above
  <2>6. Latest(saw[r][v], v, Above(r))
    BY <2>1 DEF ValuesLatest
  <2>7. CASE \E i \in Above(r) : LastExtracting(i, v, Above(r)) /\ saw[r][v] = report[i].name
    <3>1. PICK i \in Above(r) : LastExtracting(i, v, Above(r)) /\ saw[r][v] = report[i].name
      BY <2>7
    <3>2. /\ report[i].name \in Extractors(r, v)
          /\ \A p \in Extractors(r, v) : p \in Nat /\ p <= report[i].name
      BY <2>2, <2>5, <3>1 DEF LastExtracting, Above
    <3>3. Max(Extractors(r, v)) = report[i].name
      BY <3>2 DEF Max
    <3> QED
      BY <3>1, <3>2, <3>3
  <2>8. CASE (\A i \in Above(r) : v \notin report[i].extracted) /\ saw[r][v] = SeedVars(coll)[v]
    BY <2>5, <2>8
  <2> QED
    BY <2>6, <2>7, <2>8 DEF Latest
<1> QED
  BY <1>1, IInvHolds, PTL

(* Only an answer that may be retried is asked for again.                  *)
THEOREM NeverResentCorrect == Spec => NeverResent
<1> DEFINE Resent ==
        \A r \in Requests :
            sends[r] > 0 /\ sends'[r] > sends[r] =>
                LET last == work[r].rr IN
                    /\ sends[r] <= opts.retries
                    /\ last.name = r
                    /\ last.error = "none" => last.status = 500 /\ opts.retry5xx
                    /\ last.error \in {"canceled", "unknown"} =>
                        last.status = 500 /\ opts.retry5xx
<1>1. IInv /\ [Next]_vars => [Resent]_vars
  <2> SUFFICES ASSUME IInv, [Next]_vars, NEW r \in Requests, sends[r] > 0, sends'[r] > sends[r]
               PROVE  /\ sends[r] <= opts.retries
                      /\ work[r].rr.name = r
                      /\ work[r].rr.error = "none" => work[r].rr.status = 500 /\ opts.retry5xx
                      /\ work[r].rr.error \in {"canceled", "unknown"} =>
                            work[r].rr.status = 500 /\ opts.retry5xx
    OBVIOUS
  <2> USE DEF IInv
  <2>1. /\ RequestTypeOK /\ sends[r] \in Nat /\ work[r].attempt \in Nat
        /\ work[r].rr.status \in Statuses
    BY DEF TypeOK, RequestTypeOK, WorkType, Result
  <2>2. CASE WorkOnRequest(r)
    <3>1. At(r, "loop")
      BY <2>1, <2>2, StepShape DEF WorkOnRequest
    <3>2. work[r].attempt > 0
      BY <2>1, <3>1 DEF RequestAccounts, Tried, At
    <3>3. work[r].rr.name = r /\ ShouldRetry(work[r].rr) /\ sends[r] < MaxAttempts
      BY <3>1, <3>2 DEF RequestAccounts, Tried, At
    <3>4. opts.retries \in Int
      BY <2>1, OptionsAssumption DEF RequestTypeOK, OptionType
    <3> QED
      BY <2>1, <3>3, <3>4 DEF ShouldRetry, IsRetryable, Statuses, MaxAttempts
  <2>3. CASE ~WorkOnRequest(r)
    <3>1. ASSUME NEW q \in Requests, WorkOnRequest(q), q # r PROVE sends'[r] = sends[r]
      BY <2>1, <3>1, StepShape DEF WorkOnRequest
    <3>2. ASSUME NEW q \in Requests, BeginRequest(q) PROVE sends' = sends
      BY <2>1, <3>2, TriedStarts DEF BeginRequest, fixed, RequestAccounts
    <3>3. sends'[r] = sends[r]
      BY <2>3, <3>1, <3>2, Steps
      DEF QuietStep, FilterRequests, ResolveOnly, Leaves, Recorded, requestVars
    <3> QED
      BY <2>1, <3>3
  <2> QED
    BY <2>2, <2>3
<1>2. Spec => [][Resent]_vars
  BY <1>1, IInvHolds, PTL DEF Spec
<1> QED
  BY <1>2 DEF NeverResent

-----------------------------------------------------------------------------
(* The engine implements the contract, unless retries is negative: then    *)
(* requests come back without a name.                                      *)

BegunOrListed == {r \in Requests : Begun(r)} \cup ReportedNames

AccountedFor ==
    /\ ReportedNames \subseteq Taken /\ Taken \subseteq coll.kept
    /\ coll.kept \subseteq Requests /\ NoName \notin Requests
    /\ current \notin ReportedNames
    /\ BegunOrListed = Taken
    /\ Taken \ {current} = ReportedNames

(* Whatever is begun is the request at hand or reported.                   *)
LEMMA BegunReported == IInv /\ opts.retries >= 0 => AccountedFor
<1> SUFFICES ASSUME IInv, opts.retries >= 0 PROVE AccountedFor
  OBVIOUS
<1> USE DEF IInv
<1>1. coll.kept \subseteq Requests /\ NoName \notin Requests /\ Requests \subseteq Nat
  BY NAssumption DEF TypeOK, CollectionType, Requests, NoName
<1>2. Taken \subseteq coll.kept
  BY DEF Taken
<1>3. \A i \in DOMAIN report : report[i].name \in Taken /\ report[i].name # NoName
  BY DEF ReportInOrder
<1>4. \A i \in DOMAIN report : report[i].name # current
  <2> SUFFICES ASSUME NEW i \in DOMAIN report, report[i].name = current PROVE FALSE
    OBVIOUS
  <2>1. report[i].name \in Nat
    BY EntryTypes DEF TypeOK
  <2>2. report[i].name < current
    BY <1>3 DEF ReportInOrder
  <2> QED
    BY <2>1, <2>2
<1>5. \A r \in Taken : r = current \/ r \in ReportedNames
  BY DEF ReportInOrder, ReportedNames
<1>6. ReportedNames \subseteq Taken /\ current \notin ReportedNames
  BY <1>3, <1>4 DEF ReportedNames
<1>7. \A r \in Requests : Begun(r) => r \in Taken
  BY DEF LoopPosition
<1>8. current # NoName => Begun(current) /\ current \in Taken /\ current \in Requests
  BY DEF LoopPosition, TypeOK, Begun, At
<1>9. BegunOrListed = Taken
  <2>1. ASSUME NEW r \in Taken PROVE r \in BegunOrListed
    BY <1>1, <1>2, <1>5, <1>8 DEF BegunOrListed
  <2> QED
    BY <1>6, <1>7, <2>1 DEF BegunOrListed
<1> QED
  BY <1>1, <1>2, <1>5, <1>6, <1>9 DEF AccountedFor

LEMMA BegunReportedNext == (IInv /\ opts.retries >= 0 => AccountedFor)'
BY BegunReported, PTL

LEMMA ContractInit == Init => Contract!Init
<1> SUFFICES ASSUME Init PROVE Contract!Init
  OBVIOUS
<1>1. \A r \in Requests : ~Begun(r)
  BY DEF Init, RequestInit, Begun, At, Idle
<1>2. ReportedNames = {}
  BY DEF Init, ReportedNames
<1> QED
  BY <1>1, <1>2 DEF Init, Contract!Init, Stopped

LEMMA ContractStep ==
    ASSUME IInv, IInv', opts.retries >= 0, [Next]_vars
    PROVE  [Contract!Next]_(Contract!vars)
<1> USE DEF IInv
<1> DEFINE reported == IF Stopped THEN ReportedNames ELSE {}
<1>0. opts' = opts
  <2>1. \A r \in Requests : WorkOnRequest(r) \/ BeginRequest(r) => opts' = opts
    BY DEF WorkOnRequest, BeginRequest, fixed
  <2> QED
    BY <2>1, Steps DEF QuietStep, FilterRequests, ResolveOnly, Leaves, fixed
<1>1. /\ BegunOrListed = Taken /\ Taken \ {current} = ReportedNames
      /\ current \notin ReportedNames /\ Taken \subseteq coll.kept
      /\ ReportedNames \subseteq Taken
      /\ coll.kept \subseteq Requests /\ NoName \notin Requests /\ Requests \subseteq Nat
  BY BegunReported, NAssumption DEF Requests, AccountedFor
<1>2. /\ BegunOrListed' = Taken' /\ Taken' \ {current'} = ReportedNames'
      /\ Taken' \subseteq coll'.kept
  BY <1>0, BegunReportedNext DEF AccountedFor
<1>3. /\ phase # "stopped" => outcome = "running"
      /\ current # NoName => phase = "loop" /\ current \in Taken
  BY DEF LoopPosition
<1>4. CASE QuietStep
  <2>1. /\ UNCHANGED <<coll, report, current, todo, work>> /\ ReportedNames' = ReportedNames
    BY <1>4 DEF QuietStep, ReportedNames
  <2>2. BegunOrListed' = BegunOrListed
    BY <2>1 DEF BegunOrListed, Begun, At
  <2>3. CASE phase' = phase /\ outcome' = outcome
    BY <2>1, <2>2, <2>3 DEF Contract!vars, Stopped, BegunOrListed
  <2>4. CASE phase # "stopped" /\ phase' # "stopped" /\ outcome' = outcome
    BY <2>1, <2>2, <2>4 DEF Contract!vars, Stopped, BegunOrListed
  <2>5. CASE /\ phase # "stopped" /\ phase' = "stopped" /\ current = NoName
             /\ outcome' \in {"error", "interrupted", "done", "saved", "saveError"}
    <3>1. ReportedNames = BegunOrListed
      BY <1>1, <2>5
    <3>2. Contract!Return(outcome')
      BY <1>3, <2>1, <2>2, <2>5, <3>1 DEF Contract!Return, Stopped, BegunOrListed
    <3> QED
      BY <2>5, <3>2 DEF Contract!Next, Contract!Requests, Requests
  <2> QED
    BY <1>3, <1>4, <2>3, <2>4, <2>5 DEF QuietStep
<1>5. CASE FilterRequests
  <2>1. PICK selected \in Filters :
            /\ coll.kept \cap selected # {}
            /\ coll' = [coll EXCEPT !.kept = @ \cap selected]
    BY <1>5 DEF FilterRequests
  <2>2. /\ phase = "prepare" /\ phase' = "loop" /\ outcome' = outcome /\ report' = report
        /\ work' = work
    BY <1>5 DEF FilterRequests, requestVars
  <2>3. BegunOrListed = {} /\ BegunOrListed' = {} /\ ReportedNames = {} /\ ReportedNames' = {}
    <3>1. Taken = {}
      BY <2>2 DEF Taken, Prepared
    <3>2. BegunOrListed' = BegunOrListed /\ ReportedNames' = ReportedNames
      BY <2>2 DEF BegunOrListed, ReportedNames, Begun, At
    <3> QED
      BY <1>1, <3>1, <3>2
  <2>4. Contract!Select
    <3>1. coll.kept \cap selected \in (SUBSET coll.kept) \ {{}}
      BY <2>1
    <3>2. coll' = [coll EXCEPT !.kept = coll.kept \cap selected]
      BY <2>1
    <3> QED
      BY <1>3, <2>2, <2>3, <3>1, <3>2 DEF Contract!Select, Stopped, BegunOrListed
  <2> QED
    BY <2>4 DEF Contract!Next, Contract!Requests, Requests
<1>6. ASSUME NEW r \in Requests, BeginRequest(r) PROVE Contract!Next
  <2>1. /\ r \in todo /\ (\A q \in todo : r <= q) /\ todo' = todo \ {r} /\ current' = r
        /\ current = NoName /\ phase = "loop" /\ phase' = phase /\ outcome' = outcome
        /\ coll' = coll /\ report' = report
    BY <1>6 DEF BeginRequest, BetweenRequests, IsFirstTodo, fixed
  <2>2. Taken' = Taken \cup {r} /\ r \notin Taken /\ r \in coll.kept
    BY <1>3, <2>1 DEF Taken, Prepared, LoopPosition
  <2>3. ReportedNames' = ReportedNames /\ ReportedNames = Taken
    BY <1>1, <2>1 DEF ReportedNames
  <2>4. \A p \in coll.kept : p < r => p \in ReportedNames
    <3>1. Taken = coll.kept \ todo
      BY <1>3, <2>1 DEF Taken, Prepared
    <3>2. ASSUME NEW p \in coll.kept, p < r PROVE p \notin todo
      <4>1. p \in Nat /\ r \in Nat
        BY <1>1
      <4>2. p \in todo => r <= p
        BY <2>1
      <4> QED
        BY <3>2, <4>1, <4>2
    <3> QED
      BY <2>3, <3>1, <3>2
  <2>5. Contract!Begin(r)
    BY <1>1, <1>2, <1>3, <2>1, <2>2, <2>3, <2>4
    DEF Contract!Begin, Contract!SourcesSettled, Stopped, BegunOrListed
  <2> QED
    BY <2>5 DEF Contract!Next, Contract!Requests, Requests
<1>7. ASSUME NEW r \in Requests, ResolveOnly(r) PROVE Contract!Next
  <2>1. /\ r \in todo /\ (\A q \in todo : r <= q) /\ todo' = todo \ {r} /\ current' = current
        /\ current = NoName /\ phase = "loop" /\ phase' = phase /\ outcome' = outcome
        /\ coll' = coll
    BY <1>7 DEF ResolveOnly, BetweenRequests, IsFirstTodo, fixed
  <2>2. Taken' = Taken \cup {r} /\ r \notin Taken /\ r \in coll.kept
    BY <1>3, <2>1 DEF Taken, Prepared, LoopPosition
  <2>3. ReportedNames = Taken /\ ReportedNames' = Taken'
    BY <1>1, <1>2, <2>1, <2>2
  <2>4. \A p \in coll.kept : p < r => p \in ReportedNames
    <3>1. Taken = coll.kept \ todo
      BY <1>3, <2>1 DEF Taken, Prepared
    <3>2. ASSUME NEW p \in coll.kept, p < r PROVE p \notin todo
      <4>1. p \in Nat /\ r \in Nat
        BY <1>1
      <4>2. p \in todo => r <= p
        BY <2>1
      <4> QED
        BY <3>2, <4>1, <4>2
    <3> QED
      BY <2>3, <3>1, <3>2
  <2>5. Contract!Settle(r)
    BY <1>1, <1>2, <1>3, <2>1, <2>2, <2>3, <2>4
    DEF Contract!Settle, Contract!SourcesSettled, Stopped, BegunOrListed
  <2> QED
    BY <2>5 DEF Contract!Next, Contract!Requests, Requests
<1>8. ASSUME NEW r \in Requests, WorkOnRequest(r) PROVE UNCHANGED Contract!vars
  <2>1. UNCHANGED <<coll, phase, todo, report, outcome>>
    BY <1>8 DEF WorkOnRequest, fixed, runVars
  <2>2. Taken' = Taken /\ ReportedNames' = ReportedNames
    BY <2>1 DEF Taken, Prepared, ReportedNames
  <2> QED
    BY <1>1, <1>2, <2>1, <2>2 DEF Contract!vars, Stopped, BegunOrListed
<1>9. ASSUME NEW r \in Requests, NEW rr, Leaves(r, rr), ResultOf(r, rr) PROVE Contract!Next
  <2>1. /\ current = r /\ current' = NoName /\ phase = "loop"
        /\ UNCHANGED <<coll, todo>>
        /\ phase' # "prepare" /\ outcome' # "error"
        /\ \/ phase' # "stopped" /\ outcome' = outcome
           \/ phase' = "stopped" /\ outcome' = "interrupted"
    BY <1>3, <1>9 DEF Leaves
  <2>2. Taken' = Taken /\ r \in Taken
    BY <1>1, <1>3, <2>1 DEF Taken, Prepared
  <2>3. ReportedNames' = ReportedNames \cup {r} /\ r \notin ReportedNames /\ ReportedNames' = Taken
    BY <1>1, <1>2, <2>1, <2>2
  <2>4. CASE phase' # "stopped" /\ outcome' = outcome
    <3>1. Contract!Settle(r)
      BY <1>1, <1>2, <1>3, <2>1, <2>2, <2>3, <2>4
      DEF Contract!Settle, Stopped, BegunOrListed
    <3> QED
      BY <3>1 DEF Contract!Next, Contract!Requests, Requests
  <2>5. CASE phase' = "stopped" /\ outcome' = "interrupted"
    <3>1. Contract!Return("interrupted")
      BY <1>1, <1>2, <1>3, <2>1, <2>2, <2>3, <2>5
      DEF Contract!Return, Stopped, BegunOrListed
    <3> QED
      BY <3>1 DEF Contract!Next, Contract!Requests, Requests
  <2> QED
    BY <2>1, <2>4, <2>5
<1> QED
  BY <1>4, <1>5, <1>6, <1>7, <1>8, <1>9, Steps

(* Every run of the sequential engine is a run of the contract.            *)
THEOREM SeqImplementsContract ==
    ASSUME \A o \in OptionSets : o.retries >= 0
    PROVE  Spec => ImplementsContract
<1>1. IInv /\ IInv' /\ [Next]_vars => [Contract!Next]_(Contract!vars)
  <2>1. IInv => opts.retries >= 0
    BY DEF IInv, TypeOK, RequestTypeOK
  <2> QED
    BY <2>1, ContractStep
<1> QED
  BY <1>1, IInvHolds, ContractInit, PTL DEF Spec, ImplementsContract, Contract!Spec

-----------------------------------------------------------------------------
(* How far the run still is from its end, in each of its parts.            *)
Stages == [prepare |-> 4, loop |-> 3, ended |-> 2, saving |-> 1, stopped |-> 0]

TurnsLeft(r) == StepsLeft(r) + IF phase = "prepare" \/ r \in todo THEN 1 ELSE 0

EndsLeft == IF ctx = "live" THEN 1 ELSE 0

(* A step brings some part nearer to its end and takes none further away.  *)
WindsDown ==
    /\ Stages[phase'] <= Stages[phase]
    /\ EndsLeft' <= EndsLeft
    /\ \A r \in Requests : TurnsLeft(r)' <= TurnsLeft(r)
    /\ \/ Stages[phase'] < Stages[phase]
       \/ EndsLeft' < EndsLeft
       \/ \E r \in Requests : TurnsLeft(r)' < TurnsLeft(r)

Measured ==
    /\ Stages[phase] \in Nat
    /\ EndsLeft \in Nat
    /\ \A r \in Requests : TurnsLeft(r) \in Nat

LEMMA StepsLeftNat == TypeOK => \A r \in Requests : StepsLeft(r) \in Nat
BY StepsLeftType DEF TypeOK

LEMMA StepsLeftNatNext == (TypeOK => \A r \in Requests : StepsLeft(r) \in Nat)'
BY StepsLeftNat, PTL

LEMMA MeasureTypes == TypeOK => Measured
BY StepsLeftNat DEF TypeOK, Measured, Stages, EndsLeft, TurnsLeft

LEMMA UntouchedSteps ==
    ASSUME NEW r \in Requests, work' = work, opts' = opts
    PROVE  StepsLeft(r)' = StepsLeft(r)
BY DEF StepsLeft, AttemptsLeft, MaxAttempts

LEMMA WindsDownStep ==
    ASSUME TypeOK, TypeOK', LoopPosition, Next, ~UNCHANGED vars
    PROVE  WindsDown
<1> USE DEF WindsDown
<1>1. /\ phase \in DOMAIN Stages /\ phase' \in DOMAIN Stages
      /\ \A x \in DOMAIN Stages : Stages[x] \in Nat
      /\ RequestTypeOK
      /\ \A r \in Requests : StepsLeft(r) \in Nat /\ StepsLeft(r)' \in Nat
  <2>1. \A r \in Requests : StepsLeft(r) \in Nat /\ StepsLeft(r)' \in Nat
    BY StepsLeftNat, StepsLeftNatNext
  <2> QED
    BY <2>1 DEF TypeOK, Stages
<1>2. ASSUME UNCHANGED <<ctx, opts, work, todo>>, Stages[phase'] < Stages[phase], phase' # "prepare"
      PROVE  WindsDown
  <2>1. EndsLeft' = EndsLeft /\ EndsLeft \in Nat
    BY <1>2 DEF EndsLeft
  <2>2. \A r \in Requests : TurnsLeft(r)' <= TurnsLeft(r)
    BY <1>1, <1>2, UntouchedSteps DEF TurnsLeft
  <2> QED
    BY <1>1, <1>2, <2>1, <2>2
<1>3. ASSUME NEW r \in Requests, UNCHANGED <<ctx, opts>>, Stages[phase'] <= Stages[phase],
             phase # "prepare", phase' # "prepare", todo' \subseteq todo,
             StepsLeft(r)' < StepsLeft(r),
             \A q \in Requests : q # r => StepsLeft(q)' = StepsLeft(q)
      PROVE  WindsDown
  <2>1. EndsLeft' = EndsLeft /\ EndsLeft \in Nat
    BY <1>3 DEF EndsLeft
  <2>2. TurnsLeft(r)' < TurnsLeft(r)
    BY <1>1, <1>3 DEF TurnsLeft
  <2>3. \A q \in Requests : q # r => TurnsLeft(q)' <= TurnsLeft(q)
    BY <1>1, <1>3 DEF TurnsLeft
  <2>4. TurnsLeft(r) \in Nat /\ TurnsLeft(r)' \in Nat
    BY <1>1 DEF TurnsLeft
  <2> QED
    BY <1>1, <1>3, <2>1, <2>2, <2>3, <2>4
<1>4. CASE PrepareFails
  BY <1>2, <1>4 DEF PrepareFails, Stop, Stages, fixed, requestVars
<1>5. CASE FilterRequests
  <2>1. phase = "prepare" /\ phase' = "loop" /\ UNCHANGED <<ctx, opts, work>>
    BY <1>5 DEF FilterRequests, requestVars
  <2>2. \A r \in Requests : TurnsLeft(r)' <= TurnsLeft(r)
    BY <1>1, <2>1, UntouchedSteps DEF TurnsLeft
  <2> QED
    BY <2>1, <2>2 DEF Stages, EndsLeft
<1>6. CASE LoopSeesContextDone \/ EndLoop \/ AfterLoop \/ SaveRun
  BY <1>2, <1>6 DEF LoopSeesContextDone, EndLoop, AfterLoop, SaveRun, BetweenRequests, Stop, Stages,
     fixed, requestVars
<1>7. ASSUME NEW r \in Requests, BeginRequest(r) PROVE WindsDown
  <2>1. /\ UNCHANGED <<ctx, opts, phase>> /\ phase = "loop" /\ todo' = todo \ {r} /\ StartRequest(r)
    BY <1>7 DEF BeginRequest, BetweenRequests, fixed
  <2> QED
    BY <1>1, <1>3, <2>1, StepsFall
<1>8. ASSUME NEW r \in Requests, ResolveOnly(r) PROVE WindsDown
  <2>1. /\ UNCHANGED <<ctx, opts, work, phase>> /\ phase = "loop"
        /\ r \in todo /\ todo' = todo \ {r}
    BY <1>8 DEF ResolveOnly, BetweenRequests, IsFirstTodo, fixed, requestVars
  <2>2. EndsLeft' = EndsLeft /\ EndsLeft \in Nat
    BY <2>1 DEF EndsLeft
  <2>3. TurnsLeft(r)' < TurnsLeft(r) /\ \A q \in Requests : TurnsLeft(q)' <= TurnsLeft(q)
    BY <1>1, <2>1, UntouchedSteps DEF TurnsLeft
  <2> QED
    BY <1>1, <2>1, <2>2, <2>3
<1>9. ASSUME NEW r \in Requests, WorkOnRequest(r) PROVE WindsDown
  <2>1. /\ UNCHANGED <<ctx, opts, phase, todo>> /\ phase = "loop" /\ RequestStep(r, ctx, env)
    BY <1>9 DEF WorkOnRequest, fixed, runVars
  <2> QED
    BY <1>1, <1>3, <2>1, StepsFall
<1>10. ASSUME NEW r \in Requests, StopInDelay(r) \/ RecordErrored(r) \/ RecordEvaluated(r)
       PROVE  WindsDown
  <2>1. /\ UNCHANGED <<ctx, opts, todo>> /\ phase = "loop" /\ phase' \in {"loop", "ended", "stopped"}
        /\ Recorded(r) /\ ~At(r, "recorded")
    BY <1>10 DEF StopInDelay, RecordErrored, RecordEvaluated, NextOrBreak, Stop, fixed, At
  <2>2. Stages[phase'] <= Stages[phase]
    BY <2>1 DEF Stages
  <2> QED
    BY <1>1, <1>3, <2>1, <2>2, StepsFall
<1>11. CASE ContextEnds
  <2>1. UNCHANGED <<opts, work, phase, todo>> /\ ctx = "live" /\ ctx' # "live"
    BY <1>11 DEF ContextEnds, UserCancels, DeadlinePasses, fixed, requestVars, runVars
  <2>2. \A r \in Requests : TurnsLeft(r)' <= TurnsLeft(r)
    BY <1>1, <2>1, UntouchedSteps DEF TurnsLeft
  <2> QED
    BY <1>1, <2>1, <2>2 DEF EndsLeft
<1> QED
  BY <1>4, <1>5, <1>6, <1>7, <1>8, <1>9, <1>10, <1>11 DEF Next, EngineStep, Idles

(* No run goes on for ever: whatever the network answers and whenever the  *)
(* context ends, a step of Execute brings it nearer to its return, in      *)
(* parts that are natural numbers.  No wait, retry or turn of the loop     *)
(* leads back to where the run was (run_collection.go:114-241, 253-293).   *)
THEOREM RunIsFinite == Spec => []Measured /\ [][WindsDown]_vars
<1>1. IInv => Measured
  BY MeasureTypes DEF IInv
<1>2. IInv /\ IInv' /\ [Next]_vars => [WindsDown]_vars
  BY WindsDownStep DEF IInv
<1> QED
  BY <1>1, <1>2, IInvHolds, PTL DEF Spec

-----------------------------------------------------------------------------
(* The run command. *)

(* A result without an error is an answer with a status. *)
AnswerArrived(r) ==
    work[r].rr.name # NoName /\ work[r].rr.error = "none" => work[r].rr.status # 0

(* An entry without an error tells of a request that was sent and answered.*)
AnswersReported ==
    /\ \A r \in Requests : AnswerArrived(r)
    /\ opts.retries >= 0 /\ ~opts.dryRun =>
        \A i \in DOMAIN report : report[i].error = "none" =>
            report[i].status # 0 /\ sends[report[i].name] > 0

(* A run is saved if it was to be, and only then. *)
StoredAsAsked ==
    /\ phase = "saving" \/ outcome \in {"saved", "saveError"} => opts.store /\ ~opts.dryRun
    /\ outcome = "done" => ~opts.store \/ opts.dryRun

(* How far the command is, and what its exit code has to rest on.          *)
CommandExplained ==
    /\ cmd # "exited" => exit = NoExit
    /\ cmd \in {"check", "print", "report", "count"} =>
        outcome \in {"done", "saved"} /\ ~opts.dryRun
    /\ cmd \in {"report", "count"} => printed
    /\ cmd = "count" => junit = cmdOpts.junit
    /\ exit = ExitOK /\ ~opts.dryRun =>
        outcome \in {"done", "saved"} /\ printed /\ junit = cmdOpts.junit /\ ~SomeFailure
    /\ exit = ExitAssertFailed =>
        outcome \in {"done", "saved"} /\ ~opts.dryRun /\ ~SomeError

CommandIInv ==
    /\ IInv
    /\ AnswersReported
    /\ StoredAsAsked
    /\ CommandExplained

-----------------------------------------------------------------------------
(* The command and the engine. *)

(* Whatever the command does, the engine takes one of its own steps or     *)
(* none.                                                                   *)
LEMMA EngineUndisturbed == [CommandNext]_allVars => [Next]_vars
<1> SUFFICES ASSUME [CommandNext]_allVars PROVE [Next]_vars
  OBVIOUS
<1>1. CASE ExecuteRuns
  BY <1>1 DEF ExecuteRuns, Next
<1>2. CASE ContextDone
  BY <1>2 DEF ContextDone, ContextEnds, Next
<1>3. CASE UNCHANGED vars
  BY <1>3
<1> QED
  BY <1>1, <1>2, <1>3 DEF CommandNext, CommandStep, BadUsage, CallExecute, ExecuteFailed,
     DryRunPrinted, ExecuteSucceeded, CheckForSecrets, PrintRun, WriteJUnit, CountFailures, allVars

LEMMA EngineInvariant == CommandSpec => []IInv
<1>1. CommandInit => IInv
  BY InitIInv DEF CommandInit
<1>2. IInv /\ [CommandNext]_allVars => IInv'
  BY EngineUndisturbed, IInvStep
<1> QED
  BY <1>1, <1>2, PTL DEF CommandSpec

-----------------------------------------------------------------------------
(* Answers. *)

LEMMA ArrivedInductive ==
    ASSUME RequestTypeOK, NEW r \in Requests, NEW done \in ContextStates, NEW vals,
           AnswerArrived(r), RequestStep(r, done, vals)
    PROVE  AnswerArrived(r)'
<1> USE DEF AnswerArrived
<1>1. work[r] \in WorkType /\ work \in [Requests -> WorkType]
  BY DEF RequestTypeOK
<1>2. CASE ~Answered(r, done)
  <2>1. work'[r].rr = work[r].rr
    BY <1>1, <1>2 DEF RequestStep, DelayElapses, BackoffElapses, DelayInterrupted, LoopInterrupted,
       BackoffInterrupted, ResolveFails, LoopExhausted, Send, Goto, Return, WorkType
  <2> QED
    BY <2>1
<1>3. CASE Answered(r, done)
  <2>1. PICK a \in PossibleAnswers(done) : work'[r].rr = AnswerOf(r, a)
    BY <1>1, <1>3 DEF Answered, WorkType
  <2>2. a.status = 0 => a.error # "none"
    BY AnswersAssumption DEF PossibleAnswers, ContextError
  <2>3. AnswerOf(r, a).error = a.error /\ AnswerOf(r, a).status = a.status
    BY DEF AnswerOf, ZeroResult
  <2> QED
    BY <2>1, <2>2, <2>3
<1> QED
  BY <1>2, <1>3

(* What is recorded without an error was sent and answered.                *)
LEMMA AnswerRecorded ==
    ASSUME TypeOK, RequestAccounts, NEW r \in Requests, AnswerArrived(r),
           StopInDelay(r) \/ RecordErrored(r) \/ RecordEvaluated(r)
    PROVE  \E rr \in Result :
              /\ report' = Append(report, rr)
              /\ opts.retries >= 0 /\ rr.error = "none" =>
                    rr.name = r /\ rr.status # 0 /\ sends[r] > 0
<1>1. /\ work[r] \in WorkType /\ work[r].rr \in Result /\ Tried(r) /\ coll \in CollectionType
      /\ opts.retries \in Int
  BY OptionsAssumption DEF TypeOK, RequestTypeOK, RequestAccounts, WorkType, OptionType
<1>2. CASE StopInDelay(r) \/ RecordErrored(r)
  <2>1. work[r].runErr \in ErrorKinds
    BY <1>1, <1>2 DEF StopInDelay, RecordErrored, Tried, At, WorkType
  <2>2. ErroredResult(r, work[r].runErr).error # "none"
    BY <2>1 DEF ErroredResult, ZeroResult, ErrorKinds
  <2> QED
    BY <1>2, <2>1, <2>2, ResultTypes DEF StopInDelay, RecordErrored
<1>3. CASE RecordEvaluated(r)
  <2>1. PICK rr \in Evaluations(r, env) : report' = Append(report, rr)
    BY <1>3 DEF RecordEvaluated
  <2>2. /\ rr \in Result /\ rr.name = work[r].rr.name /\ rr.status = work[r].rr.status
        /\ rr.error = work[r].rr.error
    BY <1>1, EvaluationTypes
  <2>3. opts.retries >= 0 => sends[r] > 0 /\ rr.name = r
    BY <1>1, <1>3, <2>2 DEF RecordEvaluated, Tried, At, WorkType
  <2>4. r # NoName
    BY NAssumption DEF Requests, NoName
  <2> QED
    BY <2>1, <2>2, <2>3, <2>4 DEF AnswerArrived
<1> QED
  BY <1>2, <1>3

LEMMA AnswersStep ==
    ASSUME IInv, AnswersReported, [Next]_vars
    PROVE  AnswersReported'
<1> USE DEF IInv
<1>0. /\ TypeOK /\ RequestTypeOK /\ RequestAccounts /\ report \in Seq(Result)
      /\ sends \in [Requests -> Nat] /\ work \in [Requests -> WorkType]
      /\ \A i \in DOMAIN report : report[i].name \in Requests \cup {NoName}
      /\ opts.retries >= 0 => \A i \in DOMAIN report : report[i].name \in Requests
  <2>1. TypeOK /\ RequestTypeOK /\ RequestAccounts /\ report \in Seq(Result)
    BY DEF TypeOK
  <2>2. sends \in [Requests -> Nat] /\ work \in [Requests -> WorkType]
    BY <2>1 DEF RequestTypeOK
  <2>3. \A i \in DOMAIN report : report[i].name \in Requests \cup {NoName}
    BY <2>1, EntryTypes DEF Result
  <2> QED
    BY <2>1, <2>2, <2>3 DEF ReportInOrder
<1>1. ASSUME UNCHANGED <<work, sends, opts, report>> PROVE AnswersReported'
  BY <1>1 DEF AnswersReported, AnswerArrived
<1>2. CASE \/ PrepareFails \/ LoopSeesContextDone \/ EndLoop \/ AfterLoop \/ SaveRun
           \/ ContextEnds \/ UNCHANGED vars
  BY <1>0, <1>1, <1>2, QuietSteps DEF QuietStep
<1>3. CASE FilterRequests
  BY <1>1, <1>3 DEF FilterRequests, requestVars
<1>4. ASSUME NEW r \in Requests, BeginRequest(r) PROVE AnswersReported'
  <2>1. UNCHANGED <<sends, opts, report>>
    BY <1>4 DEF BeginRequest, StartRequest, Goto, fixed
  <2>2. \A q \in Requests : work'[q].rr = work[q].rr
    BY <1>0, <1>4 DEF BeginRequest, StartRequest, Goto, WorkType
  <2> QED
    BY <2>1, <2>2 DEF AnswersReported, AnswerArrived
<1>5. ASSUME NEW r \in Requests, ResolveOnly(r) PROVE AnswersReported'
  <2>1. UNCHANGED <<work, opts>> /\ opts.dryRun
    BY <1>5 DEF ResolveOnly, fixed, requestVars
  <2> QED
    BY <2>1 DEF AnswersReported, AnswerArrived
<1>6. ASSUME NEW r \in Requests, WorkOnRequest(r) PROVE AnswersReported'
  <2>1. RequestStep(r, ctx, env) /\ UNCHANGED <<opts, report>> /\ ctx \in ContextStates
    BY <1>0, <1>6 DEF WorkOnRequest, fixed, runVars, RequestTypeOK, ContextStates
  <2>2. AnswerArrived(r)'
    BY <1>0, <2>1, ArrivedInductive DEF AnswersReported
  <2>3. /\ \A q \in Requests : q # r => work'[q] = work[q]
        /\ \A q \in Requests : sends[q] > 0 => sends'[q] > 0
    <3>1. /\ \A q \in Requests : q # r => work'[q] = work[q] /\ sends'[q] = sends[q]
          /\ sends'[r] = sends[r] \/ sends'[r] = sends[r] + 1
      BY <1>0, <2>1, StepShape
    <3>2. \A q \in Requests : sends[q] \in Nat
      BY <1>0
    <3> QED
      BY <3>1, <3>2
  <2>4. \A q \in Requests : AnswerArrived(q)'
    BY <2>2, <2>3 DEF AnswersReported, AnswerArrived
  <2> QED
    BY <1>0, <2>1, <2>3, <2>4 DEF AnswersReported
<1>7. ASSUME NEW r \in Requests, StopInDelay(r) \/ RecordErrored(r) \/ RecordEvaluated(r)
      PROVE  AnswersReported'
  <2>1. PICK rr \in Result :
            /\ report' = Append(report, rr)
            /\ opts.retries >= 0 /\ rr.error = "none" => rr.name = r /\ rr.status # 0 /\ sends[r] > 0
    BY <1>0, <1>7, AnswerRecorded DEF AnswersReported
  <2>2. Recorded(r) /\ opts' = opts
    BY <1>7 DEF StopInDelay, RecordErrored, RecordEvaluated, fixed
  <2>3. /\ sends' = sends
        /\ \A q \in Requests : work'[q].rr = work[q].rr \/ work'[q].rr = ZeroResult
    BY <1>0, <2>2 DEF Recorded, Idle, WorkType
  <2>4. \A q \in Requests : AnswerArrived(q)'
    BY <2>3 DEF AnswersReported, AnswerArrived, ZeroResult
  <2>5. ASSUME opts.retries >= 0 /\ ~opts.dryRun, NEW i \in DOMAIN report', report'[i].error = "none"
        PROVE  report'[i].status # 0 /\ sends[report'[i].name] > 0
    <3>1. \/ i \in DOMAIN report /\ report'[i] = report[i]
          \/ report'[i] = rr
      BY <1>0, <2>1, Appended
    <3> QED
      BY <2>1, <2>5, <3>1 DEF AnswersReported
  <2> QED
    BY <2>2, <2>3, <2>4, <2>5 DEF AnswersReported
<1> QED
  BY <1>2, <1>3, <1>4, <1>5, <1>6, <1>7 DEF Next, EngineStep, Idles

LEMMA StoredStep ==
    ASSUME IInv, StoredAsAsked, [Next]_vars
    PROVE  StoredAsAsked'
<1> USE DEF StoredAsAsked
<1>0. phase # "stopped" => outcome = "running"
  BY DEF IInv, LoopPosition
<1>1. ASSUME UNCHANGED <<phase, outcome, opts>> PROVE StoredAsAsked'
  BY <1>1
<1>2. CASE PrepareFails \/ FilterRequests \/ LoopSeesContextDone \/ EndLoop
  BY <1>0, <1>2 DEF PrepareFails, FilterRequests, LoopSeesContextDone, EndLoop, Stop, fixed,
     BetweenRequests
<1>3. CASE AfterLoop
  BY <1>0, <1>3 DEF AfterLoop, Stop, fixed
<1>4. CASE SaveRun
  BY <1>4 DEF SaveRun, Stop, fixed
<1>5. CASE ContextEnds \/ UNCHANGED vars
  BY <1>1, <1>5 DEF ContextEnds, fixed, runVars, vars
<1>6. ASSUME NEW r \in Requests, BeginRequest(r) \/ ResolveOnly(r) \/ WorkOnRequest(r)
      PROVE  StoredAsAsked'
  BY <1>1, <1>6 DEF BeginRequest, ResolveOnly, WorkOnRequest, fixed, runVars
<1>7. ASSUME NEW r \in Requests, StopInDelay(r) \/ RecordErrored(r) \/ RecordEvaluated(r)
      PROVE  StoredAsAsked'
  BY <1>0, <1>7 DEF StopInDelay, RecordErrored, RecordEvaluated, NextOrBreak, Stop, fixed
<1> QED
  BY <1>2, <1>3, <1>4, <1>5, <1>6, <1>7 DEF Next, EngineStep, Idles

-----------------------------------------------------------------------------
(* The command. *)

(* The exit code is set once, by what was true when it was.                *)
LEMMA ExplainedStep ==
    ASSUME CommandExplained, [CommandNext]_allVars
    PROVE  CommandExplained'
<1> USE DEF CommandExplained, NoExit, ExitOK, ExitAssertFailed, ExitUsage, ExitExecution,
            SomeFailure, SomeError
<1>1. CASE BadUsage
  BY <1>1 DEF BadUsage, Exit
<1>2. CASE CallExecute
  BY <1>2 DEF CallExecute
<1>3. CASE ExecuteRuns
  BY <1>3 DEF ExecuteRuns, commandVars
<1>4. CASE ExecuteFailed
  BY <1>4 DEF ExecuteFailed, CodesFor, Exit
<1>5. CASE DryRunPrinted
  BY <1>5 DEF DryRunPrinted, Exit, vars
<1>6. CASE ExecuteSucceeded
  BY <1>6 DEF ExecuteSucceeded, vars
<1>7. CASE CheckForSecrets
  BY <1>7 DEF CheckForSecrets, Exit, vars
<1>8. CASE PrintRun
  BY <1>8 DEF PrintRun, Exit, vars
<1>9. CASE WriteJUnit
  BY <1>9 DEF WriteJUnit, Exit, vars
<1>10. CASE CountFailures
  BY <1>10 DEF CountFailures, CodeOfRun, Exit, vars
<1>11. CASE ContextDone
  BY <1>11 DEF ContextDone, fixed, runVars, commandVars
<1>12. CASE UNCHANGED allVars
  BY <1>12 DEF allVars, vars, commandVars
<1> QED
  BY <1>1, <1>2, <1>3, <1>4, <1>5, <1>6, <1>7, <1>8, <1>9, <1>10, <1>11, <1>12
     DEF CommandNext, CommandStep

LEMMA CommandInvariant == CommandSpec => []CommandIInv
<1>1. CommandInit => AnswersReported /\ StoredAsAsked /\ CommandExplained
  <2> SUFFICES ASSUME CommandInit PROVE AnswersReported /\ StoredAsAsked /\ CommandExplained
    OBVIOUS
  <2>1. AnswersReported
    BY DEF CommandInit, Init, RequestInit, Idle, ZeroResult, NoName, AnswersReported, AnswerArrived
  <2>2. StoredAsAsked
    BY DEF CommandInit, Init, StoredAsAsked
  <2>3. CommandExplained
    BY DEF CommandInit, CommandExplained, NoExit, ExitOK, ExitAssertFailed
  <2> QED
    BY <2>1, <2>2, <2>3
<1>2. IInv /\ AnswersReported /\ [CommandNext]_allVars => AnswersReported'
  BY EngineUndisturbed, AnswersStep
<1>3. IInv /\ StoredAsAsked /\ [CommandNext]_allVars => StoredAsAsked'
  BY EngineUndisturbed, StoredStep
<1>4. CommandExplained /\ [CommandNext]_allVars => CommandExplained'
  BY ExplainedStep
<1> QED
  BY <1>1, <1>2, <1>3, <1>4, EngineInvariant, PTL DEF CommandSpec, CommandIInv

-----------------------------------------------------------------------------
(* The theorems. *)

(* The report of a request that has one is an entry of that name.          *)
LEMMA ReportOfEntry ==
    ASSUME NEW r \in ReportedNames
    PROVE  \E i \in DOMAIN report : ReportOf(r) = report[i] /\ report[i].name = r
<1>1. \E rr \in {report[i] : i \in DOMAIN report} : rr.name = r
  BY DEF ReportedNames
<1>2. ReportOf(r) \in {report[i] : i \in DOMAIN report} /\ ReportOf(r).name = r
  BY <1>1 DEF ReportOf
<1> QED
  BY <1>2

(* A run that ended well has each of its requests in the report, or was    *)
(* closed by a failure.                                                    *)
LEMMA EndedWhole ==
    ASSUME IInv, opts.retries >= 0, outcome \in {"done", "saved"}
    PROVE  /\ ReportedNames = coll.kept \/ \E i \in DOMAIN report : Failed(report[i])
           /\ \A r \in Requests : Begun(r) => r \in ReportedNames
<1> USE DEF IInv
<1>1. AccountedFor
  BY BegunReported
<1>2. Prepared /\ phase = "stopped" /\ current = NoName
  BY DEF FailureCloses, LoopPosition
<1>3. Taken = ReportedNames
  BY <1>1, <1>2 DEF AccountedFor
<1>4. \A r \in Requests : Begun(r) => r \in ReportedNames
  BY <1>1, <1>3 DEF AccountedFor, BegunOrListed
<1>5. CASE todo = {}
  BY <1>2, <1>3, <1>4, <1>5 DEF Taken
<1>6. CASE report # <<>> /\ Failed(report[Len(report)])
  <2>1. Len(report) \in DOMAIN report
    BY <1>6 DEF TypeOK
  <2> QED
    BY <1>4, <1>6, <2>1
<1> QED
  BY <1>5, <1>6 DEF FailureCloses

(* A pipeline that goes on at 0 goes on over a whole run that passed.      *)
THEOREM ZeroMeansPassedCorrect == CommandSpec => []ZeroMeansPassed
<1>1. CommandIInv => ZeroMeansPassed
  <2> SUFFICES ASSUME CommandIInv, exit = ExitOK, ~opts.dryRun, opts.retries >= 0
               PROVE  /\ \A r \in coll.kept :
                            r \in ReportedNames /\ ~Failed(ReportOf(r)) /\ sends[r] > 0
                      /\ outcome = IF opts.store THEN "saved" ELSE "done"
                      /\ printed
                      /\ cmdOpts.junit => junit
    BY DEF ZeroMeansPassed
  <2>1. outcome \in {"done", "saved"} /\ printed /\ junit = cmdOpts.junit /\ ~SomeFailure
    BY DEF CommandIInv, CommandExplained
  <2>2. outcome = IF opts.store THEN "saved" ELSE "done"
    BY <2>1 DEF CommandIInv, StoredAsAsked
  <2>3. \A i \in DOMAIN report : ~Failed(report[i])
    BY <2>1 DEF SomeFailure
  <2>4. ReportedNames = coll.kept
    BY <2>1, <2>3, EndedWhole DEF CommandIInv
  <2>5. ASSUME NEW r \in ReportedNames PROVE ~Failed(ReportOf(r)) /\ sends[r] > 0
    <3>1. PICK i \in DOMAIN report : ReportOf(r) = report[i] /\ report[i].name = r
      BY ReportOfEntry
    <3>2. ~Failed(report[i]) /\ report[i].error = "none"
      BY <2>3 DEF Failed
    <3> QED
      BY <3>1, <3>2 DEF CommandIInv, AnswersReported
  <2> QED
    BY <2>1, <2>2, <2>4, <2>5
<1> QED
  BY <1>1, CommandInvariant, PTL

(* At 1 every request that was sent was answered: the API is to blame.     *)
THEOREM OneBlamesTheApiCorrect == CommandSpec => []OneBlamesTheApi
<1>1. CommandIInv => OneBlamesTheApi
  <2> SUFFICES ASSUME CommandIInv, exit = ExitAssertFailed
               PROVE  /\ outcome \in {"done", "saved"}
                      /\ \A i \in DOMAIN report : report[i].error = "none"
                      /\ \A r \in Requests : sends[r] > 0 =>
                            r \in ReportedNames /\ ReportOf(r).status # 0
    BY DEF OneBlamesTheApi
  <2>1. outcome \in {"done", "saved"} /\ ~opts.dryRun /\ ~SomeError
    BY DEF CommandIInv, CommandExplained
  <2>2. \A i \in DOMAIN report : report[i].error = "none"
    BY <2>1 DEF SomeError
  <2>3. ASSUME NEW r \in Requests, sends[r] > 0
        PROVE  r \in ReportedNames /\ ReportOf(r).status # 0
    <3>1. /\ opts.retries \in Int /\ ~(opts.retries < 0)
          /\ Begun(r)
      BY <2>3, OptionsAssumption DEF CommandIInv, IInv, RequestAccounts, Tried, TypeOK,
         RequestTypeOK, OptionType, Begun, At
    <3>2. r \in ReportedNames
      BY <2>1, <3>1, EndedWhole DEF CommandIInv
    <3>3. PICK i \in DOMAIN report : ReportOf(r) = report[i] /\ report[i].name = r
      BY <3>2, ReportOfEntry
    <3> QED
      BY <2>1, <2>2, <3>1, <3>2, <3>3 DEF CommandIInv, AnswersReported
  <2> QED
    BY <2>1, <2>2, <2>3
<1> QED
  BY <1>1, CommandInvariant, PTL
=============================================================================
