----------------------------- MODULE RequestRun -----------------------------
(***************************************************************************)
(* One request from its delay to its evaluated result: the wait before it, *)
(* runWithRetries around the HTTP runner, and the evaluation of assertions *)
(* and extraction rules.  The sequential and the parallel engine run the   *)
(* same steps; they differ in the context a request watches (the run's, or *)
(* the errgroup's) and in the variables it reads (the live map, or the     *)
(* level's snapshot), so every step takes both as parameters:              *)
(*   done  what the watched context's Err() says,                          *)
(*   vals  the variables the request is resolved with.                     *)
(***************************************************************************)
EXTENDS Collection, FiniteSets

CONSTANTS
    OptionSets,   \* the run options to consider
    Answers       \* what the network may do with a request: status and error

ErrorKinds == {"unknown", "canceled", "timeout", "dns", "connection", "http"}

Statuses == {0, 200, 500}     \* 0: no response headers arrived

OptionType ==
    [failFast: BOOLEAN, retries: Int, retryDelay: BOOLEAN, retry5xx: BOOLEAN,
     store: BOOLEAN, dryRun: BOOLEAN]

ASSUME OptionsAssumption == OptionSets \subseteq OptionType

ASSUME AnswersAssumption ==
    /\ Answers # {}
    /\ Answers \subseteq [status: Statuses, error: (ErrorKinds \ {"canceled", "http"}) \cup {"none"}]
    /\ \A a \in Answers : a.status = 0 => a.error # "none"

VARIABLES
    opts,    \* the run's options
    ctx,     \* the run's context: "live", "canceled" (user) or "deadline"
    work,    \* where each request is
    saw,     \* the variables each request was last resolved with
    sends    \* how often each request went out

requestVars == <<work, saw, sends>>

-----------------------------------------------------------------------------
(* Results. *)

NoName == 0

Result ==
    [name: Requests \cup {NoName}, status: Statuses, error: ErrorKinds \cup {"none"},
     attempts: Nat, passed: BOOLEAN, extracted: SUBSET VarNames, extractsOK: BOOLEAN]

ZeroResult ==
    [name |-> NoName, status |-> 0, error |-> "none", attempts |-> 0,
     passed |-> TRUE, extracted |-> {}, extractsOK |-> TRUE]

ErroredResult(r, kind) == [ZeroResult EXCEPT !.name = r, !.error = kind, !.attempts = 1]

Failed(rr) == rr.error # "none" \/ ~rr.passed \/ ~rr.extractsOK

IsRetryable(kind) == kind \in {"timeout", "dns", "connection"}

(* ClassifyRunError of a context's error. *)
ContextError(done) == IF done = "canceled" THEN "canceled" ELSE "timeout"

-----------------------------------------------------------------------------
(* The steps of one request. *)

WorkType ==
    [pc: {"idle", "delay", "delayStopped", "loop", "flight", "backoff", "returned", "recorded"},
     attempt: Nat,                             \* attempts made so far
     rr: Result,                               \* runWithRetries' rr
     runErr: ErrorKinds \cup {"none"}]         \* class of the error it returns

Idle == [pc |-> "idle", attempt |-> 0, rr |-> ZeroResult, runErr |-> "none"]

RequestInit ==
    /\ work = [r \in Requests |-> Idle]
    /\ saw = [r \in Requests |-> SeedVars([seeds |-> {}])]
    /\ sends = [r \in Requests |-> 0]

MaxAttempts == 1 + opts.retries

At(r, pc) == work[r].pc = pc

Goto(r, pc) ==
    /\ work' = [work EXCEPT ![r].pc = pc]
    /\ UNCHANGED <<saw, sends>>

Return(r, kind) ==
    /\ work' = [work EXCEPT ![r].pc = "returned", ![r].runErr = kind]
    /\ UNCHANGED <<saw, sends>>

StartRequest(r) ==
    /\ At(r, "idle")
    /\ Goto(r, IF r \in coll.delayed THEN "delay" ELSE "loop")

(* Go's select takes either ready case: a finished timer is taken even if  *)
(* the context is done as well.                                            *)
DelayElapses(r) == At(r, "delay") /\ Goto(r, "loop")

DelayInterrupted(r, done) ==
    /\ At(r, "delay")
    /\ done # "live"
    /\ work' = [work EXCEPT ![r].pc = "delayStopped", ![r].runErr = ContextError(done)]
    /\ UNCHANGED <<saw, sends>>

CanTry(r) == At(r, "loop") /\ work[r].attempt < MaxAttempts

LoopInterrupted(r, done) == CanTry(r) /\ done # "live" /\ Return(r, ContextError(done))

Sendable(r, vals) == Resolves(vals, coll.uses[r]) /\ r \notin coll.unbuildable

(* The runner cannot build the request: never retried, classed "unknown".  *)
ResolveFails(r, done, vals) ==
    /\ CanTry(r)
    /\ done = "live"
    /\ ~Sendable(r, vals)
    /\ Return(r, "unknown")

Send(r, done, vals) ==
    /\ CanTry(r)
    /\ done = "live"
    /\ Sendable(r, vals)
    /\ work' = [work EXCEPT ![r].pc = "flight", ![r].attempt = @ + 1]
    /\ saw' = [saw EXCEPT ![r] = vals]
    /\ sends' = [sends EXCEPT ![r] = @ + 1]

(* Mutant: any error is worth another try. *)
RetryAnyError(rr) == rr.error # "none" \/ (opts.retry5xx /\ rr.status >= 500)

ShouldRetry(rr) == IsRetryable(rr.error) \/ (opts.retry5xx /\ rr.status >= 500)

(* client.Do and the read of the body: any answer of the network, or the   *)
(* context's error once the context is done.                               *)
PossibleAnswers(done) ==
    Answers \cup IF done = "live" THEN {}
                 ELSE {[status |-> s, error |-> ContextError(done)] : s \in Statuses}

(* Mutant: attempts are not counted. *)
AnswerOfOne(r, a) ==
    [ZeroResult EXCEPT !.name = r, !.status = a.status, !.error = a.error, !.attempts = 1]

AnswerOf(r, a) ==
    [ZeroResult EXCEPT !.name = r, !.status = a.status, !.error = a.error,
                       !.attempts = work[r].attempt]

Answered(r, done) ==
    /\ At(r, "flight")
    /\ \E a \in PossibleAnswers(done) :
        LET rr == AnswerOf(r, a)
            again == ShouldRetry(rr) /\ work[r].attempt < MaxAttempts
        IN  work' = [work EXCEPT ![r].rr = rr,
                                 ![r].pc = IF ~again THEN "returned"
                                           ELSE IF opts.retryDelay THEN "backoff" ELSE "loop"]
    /\ UNCHANGED <<saw, sends>>

(* Mutant: the wait starts over when it has elapsed. *)
BackoffRearmed(r) == At(r, "backoff") /\ Goto(r, "backoff")

BackoffElapses(r) == At(r, "backoff") /\ Goto(r, "loop")

BackoffInterrupted(r, done) == At(r, "backoff") /\ done # "live" /\ Return(r, ContextError(done))

(* With a negative number of retries the loop body never runs and the zero *)
(* result is returned without an error.                                    *)
LoopExhausted(r) ==
    /\ At(r, "loop")
    /\ work[r].attempt >= MaxAttempts
    /\ Return(r, "none")

RequestStep(r, done, vals) ==
    \/ DelayElapses(r)
    \/ DelayInterrupted(r, done)
    \/ LoopInterrupted(r, done)
    \/ ResolveFails(r, done, vals)
    \/ Send(r, done, vals)
    \/ Answered(r, done)
    \/ BackoffElapses(r)
    \/ BackoffInterrupted(r, done)
    \/ LoopExhausted(r)

(* Assertions fail as a whole when a reference in their expected values    *)
(* cannot be resolved; otherwise each is judged on the response.           *)
ResolvesAssertions(r, vals) == Resolves(vals, coll.asserts[r])

Verdicts(r, vals) == IF ResolvesAssertions(r, vals) THEN BOOLEAN ELSE {FALSE}

(* Each rule extracts or fails by itself.  Without a body no body rule     *)
(* extracts, without headers no header rule does.                          *)
FromBody(r) ==
    IF work[r].rr.status # 0 /\ work[r].rr.error = "none" THEN SUBSET coll.extract[r] ELSE {{}}

FromHeaders(r) == IF work[r].rr.status # 0 THEN SUBSET coll.extractHeaders[r] ELSE {{}}

Evaluations(r, vals) ==
    {[work[r].rr EXCEPT !.passed = e.passed,
                        !.extracted = e.body \cup e.headers,
                        !.extractsOK = e.body = coll.extract[r] /\ e.headers = coll.extractHeaders[r]] :
        e \in [passed: Verdicts(r, vals), body: FromBody(r), headers: FromHeaders(r)]}

(* The result leaves the worker for its place in the report.               *)
Recorded(r) ==
    /\ work' = [work EXCEPT ![r] = [Idle EXCEPT !.pc = "recorded"]]
    /\ UNCHANGED <<saw, sends>>

-----------------------------------------------------------------------------
(* What ends a run from outside: the user, or run.timeout_seconds. *)

UserCancels == ctx = "live" /\ ctx' = "canceled"

DeadlinePasses == ctx = "live" /\ ctx' = "deadline"

RequestTypeOK ==
    /\ opts \in OptionSets
    /\ ctx \in {"live", "canceled", "deadline"}
    /\ work \in [Requests -> WorkType]
    /\ saw \in [Requests -> Environment]
    /\ sends \in [Requests -> Nat]

Begun(r) == ~At(r, "idle")
=============================================================================
