-------------------------- MODULE RequestRunProofs --------------------------
(***************************************************************************)
(* One request under either engine: the type of its state, and what its    *)
(* counters and its last answer say while it is tried.                     *)
(***************************************************************************)
EXTENDS RequestRun, TLAPS

ContextStates == {"live", "canceled", "deadline"}

(* Variables are seeded or missing before the first request. *)
LEMMA SeedVarsType == \A c : SeedVars(c) \in Environment
BY DEF SeedVars, Environment, Value, Seed, Unset

(* An extraction leaves a value under every name. *)
LEMMA MergeType ==
    ASSUME NEW env \in Environment, NEW r \in Requests, NEW names
    PROVE  MergeExtracted(env, r, names) \in Environment
BY DEF MergeExtracted, Environment, Value

(* The results the engines make are results. *)
LEMMA ResultTypes ==
    /\ ZeroResult \in Result
    /\ \A r \in Requests, kind \in ErrorKinds : ErroredResult(r, kind) \in Result
    /\ \A done \in ContextStates : ContextError(done) \in ErrorKinds
<1>1. ZeroResult \in Result
  BY DEF ZeroResult, Result, NoName, Statuses
<1>2. ASSUME NEW r \in Requests, NEW kind \in ErrorKinds PROVE ErroredResult(r, kind) \in Result
  BY <1>1, <1>2 DEF ErroredResult, Result
<1>3. ASSUME NEW done \in ContextStates PROVE ContextError(done) \in ErrorKinds
  BY <1>3 DEF ErrorKinds, ContextError, ContextStates
<1> QED
  BY <1>1, <1>2, <1>3

(* No request is under way before the run. *)
LEMMA RequestInitType ==
    ASSUME RequestInit, opts \in OptionSets, ctx = "live"
    PROVE  RequestTypeOK
<1>1. Idle \in WorkType
  BY ResultTypes DEF Idle, WorkType
<1> QED
  BY <1>1, SeedVarsType DEF RequestInit, RequestTypeOK

(* What the network answers makes a result. *)
LEMMA AnswerTypes ==
    ASSUME NEW r \in Requests, work[r].attempt \in Nat, NEW done \in ContextStates,
           NEW a \in PossibleAnswers(done)
    PROVE  AnswerOf(r, a) \in Result
<1>1. a.status \in Statuses /\ a.error \in ErrorKinds \cup {"none"}
  BY AnswersAssumption DEF PossibleAnswers, ContextError, ErrorKinds, ContextStates
<1> QED
  BY <1>1 DEF AnswerOf, ZeroResult, Result

(* A step of a request, told as a change of its own record.                *)
LEMMA StepType ==
    ASSUME RequestTypeOK, NEW r \in Requests, NEW done \in ContextStates,
           NEW vals \in Environment, RequestStep(r, done, vals), opts' = opts, ctx' \in ContextStates
    PROVE  RequestTypeOK'
<1> USE DEF RequestTypeOK, WorkType
<1>1. work[r] \in WorkType
  OBVIOUS
<1>2. ContextError(done) \in ErrorKinds
  BY ResultTypes
<1>3. ASSUME NEW pc, Goto(r, pc), pc \in {"loop"} PROVE RequestTypeOK'
  BY <1>3, <1>1 DEF Goto, ContextStates
<1>4. ASSUME NEW kind \in ErrorKinds \cup {"none"}, Return(r, kind) PROVE RequestTypeOK'
  BY <1>4, <1>1 DEF Return, ContextStates
<1>5. CASE DelayElapses(r) \/ BackoffElapses(r)
  BY <1>5, <1>3 DEF DelayElapses, BackoffElapses
<1>6. CASE DelayInterrupted(r, done)
  BY <1>6, <1>1, <1>2 DEF DelayInterrupted, ContextStates
<1>7. CASE LoopInterrupted(r, done) \/ BackoffInterrupted(r, done)
  BY <1>7, <1>2, <1>4 DEF LoopInterrupted, BackoffInterrupted
<1>8. CASE ResolveFails(r, done, vals) \/ LoopExhausted(r)
  BY <1>8, <1>4 DEF ResolveFails, LoopExhausted, ErrorKinds
<1>9. CASE Send(r, done, vals)
  BY <1>9, <1>1 DEF Send, ContextStates
<1>10. CASE Answered(r, done)
  <2>1. PICK a \in PossibleAnswers(done) :
            LET rr == AnswerOf(r, a)
                again == ShouldRetry(rr) /\ work[r].attempt < MaxAttempts
            IN  work' = [work EXCEPT ![r].rr = rr,
                                     ![r].pc = IF ~again THEN "returned"
                                               ELSE IF opts.retryDelay THEN "backoff" ELSE "loop"]
    BY <1>10 DEF Answered
  <2>2. AnswerOf(r, a) \in Result
    BY <1>1, AnswerTypes
  <2> QED
    BY <1>1, <1>10, <2>1, <2>2 DEF Answered, ContextStates
<1> QED
  BY <1>5, <1>6, <1>7, <1>8, <1>9, <1>10 DEF RequestStep

(* The start of a request and the record of its result keep the types.     *)
LEMMA StartAndRecordType ==
    ASSUME RequestTypeOK, NEW r \in Requests, StartRequest(r) \/ Recorded(r), opts' = opts,
           ctx' \in ContextStates
    PROVE  RequestTypeOK'
<1> USE DEF RequestTypeOK
<1>1. work[r] \in WorkType /\ [Idle EXCEPT !.pc = "recorded"] \in WorkType
  BY ResultTypes DEF Idle, WorkType
<1>2. CASE StartRequest(r)
  BY <1>1, <1>2 DEF StartRequest, Goto, ContextStates, WorkType
<1>3. CASE Recorded(r)
  BY <1>1, <1>3 DEF Recorded, ContextStates
<1> QED
  BY <1>2, <1>3

(* What is extracted from an answer, and what extracting all of it means.  *)
LEMMA EvaluationTypes ==
    ASSUME coll \in CollectionType, NEW r \in Requests, work[r].rr \in Result, NEW vals,
           NEW rr \in Evaluations(r, vals)
    PROVE  /\ rr \in Result
           /\ rr.name = work[r].rr.name /\ rr.status = work[r].rr.status
           /\ rr.error = work[r].rr.error /\ rr.attempts = work[r].rr.attempts
           /\ rr.extracted \subseteq Produced(coll, r)
           /\ rr.extractsOK => rr.extracted = Produced(coll, r)
<1>1. /\ \A b \in FromBody(r) : b \subseteq coll.extract[r]
      /\ \A h \in FromHeaders(r) : h \subseteq coll.extractHeaders[r]
  BY DEF FromBody, FromHeaders
<1>2. coll.extract[r] \subseteq VarNames /\ coll.extractHeaders[r] \subseteq VarNames
  BY DEF CollectionType
<1>3. PICK e \in [passed: Verdicts(r, vals), body: FromBody(r), headers: FromHeaders(r)] :
        rr = [work[r].rr EXCEPT
                !.passed = e.passed, !.extracted = e.body \cup e.headers,
                !.extractsOK = e.body = coll.extract[r] /\ e.headers = coll.extractHeaders[r]]
  BY DEF Evaluations
<1>4. /\ e.passed \in BOOLEAN
      /\ e.body \subseteq coll.extract[r] /\ e.headers \subseteq coll.extractHeaders[r]
  BY <1>1 DEF Verdicts
<1>5. e.body \cup e.headers \in SUBSET VarNames /\ e.body \cup e.headers \subseteq Produced(coll, r)
  BY <1>2, <1>4 DEF Produced
<1> QED
  BY <1>3, <1>4, <1>5 DEF Result, Produced

-----------------------------------------------------------------------------
(* What the counters and the last answer of a request say: attempts are    *)
(* sends, another try follows only an answer that may be retried, and only *)
(* a negative number of retries returns without an answer or an error.     *)
Tried(r) ==
    /\ ~At(r, "recorded") => work[r].attempt = sends[r]
    /\ work[r].pc \in {"idle", "delay", "delayStopped"} => work[r].attempt = 0
    /\ At(r, "flight") => work[r].attempt > 0
    /\ work[r].attempt = 0 => work[r].rr = ZeroResult
    /\ opts.retries < 0 => work[r].attempt = 0 /\ sends[r] = 0
    /\ opts.retries >= 0 => work[r].attempt <= 1 + opts.retries
    /\ work[r].attempt > 0 /\ ~At(r, "flight") =>
        work[r].rr.name = r /\ work[r].rr.attempts = work[r].attempt
    /\ work[r].attempt > 0 /\ work[r].pc \in {"loop", "backoff"} =>
        ShouldRetry(work[r].rr) /\ work[r].attempt < MaxAttempts
    /\ At(r, "returned") /\ work[r].runErr = "none" => work[r].attempt > 0 \/ opts.retries < 0
    /\ At(r, "delayStopped") => work[r].runErr # "none"
    /\ work[r].pc \notin {"delayStopped", "returned"} => work[r].runErr = "none"

(* A canceled result or error has a context that was done. *)
CanceledBy(r, done) ==
    work[r].rr.error = "canceled" \/ work[r].runErr = "canceled" => done # "live"

(* A step concerns one request; it is under way before and after.          *)
LEMMA StepShape ==
    ASSUME RequestTypeOK, NEW r \in Requests, NEW done, NEW vals, RequestStep(r, done, vals)
    PROVE  /\ \A q \in Requests : q # r =>
                work'[q] = work[q] /\ sends'[q] = sends[q] /\ saw'[q] = saw[q]
           /\ work[r].pc \in {"delay", "loop", "flight", "backoff"}
           /\ work'[r].pc \in {"delayStopped", "loop", "flight", "backoff", "returned"}
           /\ \/ sends'[r] = sends[r] /\ saw'[r] = saw[r]
              \/ /\ At(r, "loop") /\ sends'[r] = sends[r] + 1 /\ saw'[r] = vals
                 /\ done = "live"
<1> USE DEF RequestTypeOK, WorkType
<1>1. CASE DelayElapses(r) \/ BackoffElapses(r)
  BY <1>1 DEF DelayElapses, BackoffElapses, Goto, At
<1>2. CASE DelayInterrupted(r, done)
  BY <1>2 DEF DelayInterrupted, At
<1>3. CASE LoopInterrupted(r, done) \/ BackoffInterrupted(r, done)
  BY <1>3 DEF LoopInterrupted, BackoffInterrupted, CanTry, Return, At
<1>4. CASE ResolveFails(r, done, vals) \/ LoopExhausted(r)
  BY <1>4 DEF ResolveFails, LoopExhausted, CanTry, Return, At
<1>5. CASE Send(r, done, vals)
  BY <1>5 DEF Send, CanTry, At
<1>6. CASE Answered(r, done)
  BY <1>6 DEF Answered, At
<1> QED
  BY <1>1, <1>2, <1>3, <1>4, <1>5, <1>6 DEF RequestStep

(* A step keeps the account of its request.                                *)
LEMMA TriedInductive ==
    ASSUME RequestTypeOK, NEW r \in Requests, NEW done \in ContextStates, NEW vals \in Environment,
           Tried(r), RequestStep(r, done, vals), opts' = opts
    PROVE  Tried(r)'
<1> USE DEF Tried, At, MaxAttempts
<1>1. /\ work[r] \in WorkType /\ work \in [Requests -> WorkType] /\ sends \in [Requests -> Nat]
      /\ opts.retries \in Int /\ work[r].attempt \in Nat /\ work[r].rr \in Result
  BY OptionsAssumption DEF RequestTypeOK, WorkType, OptionType
<1>2. ContextError(done) # "none"
  BY DEF ContextError
<1>3. CASE DelayElapses(r) \/ BackoffElapses(r)
  BY <1>1, <1>3 DEF DelayElapses, BackoffElapses, Goto, WorkType, ShouldRetry
<1>4. CASE DelayInterrupted(r, done)
  BY <1>1, <1>2, <1>4 DEF DelayInterrupted, WorkType
<1>5. CASE LoopInterrupted(r, done) \/ BackoffInterrupted(r, done)
  BY <1>1, <1>2, <1>5 DEF LoopInterrupted, BackoffInterrupted, CanTry, Return, WorkType
<1>6. CASE ResolveFails(r, done, vals)
  BY <1>1, <1>6 DEF ResolveFails, CanTry, Return, WorkType
<1>7. CASE LoopExhausted(r)
  BY <1>1, <1>7 DEF LoopExhausted, Return, WorkType
<1>8. CASE Send(r, done, vals)
  BY <1>1, <1>8 DEF Send, CanTry, WorkType
<1>9. CASE Answered(r, done)
  <2>1. PICK a \in PossibleAnswers(done) :
            LET rr == AnswerOf(r, a)
                again == ShouldRetry(rr) /\ work[r].attempt < MaxAttempts
            IN  work' = [work EXCEPT ![r].rr = rr,
                                     ![r].pc = IF ~again THEN "returned"
                                               ELSE IF opts.retryDelay THEN "backoff" ELSE "loop"]
    BY <1>9 DEF Answered
  <2>2. AnswerOf(r, a).name = r /\ AnswerOf(r, a).attempts = work[r].attempt
    BY DEF AnswerOf, ZeroResult
  <2>3. sends' = sends /\ work[r].pc = "flight"
    BY <1>9 DEF Answered
  <2>4. /\ work'[r].rr = AnswerOf(r, a) /\ work'[r].attempt = work[r].attempt
        /\ work'[r].runErr = work[r].runErr
        /\ work'[r].pc \in {"returned", "backoff", "loop"}
        /\ work'[r].pc # "returned" => ShouldRetry(AnswerOf(r, a)) /\ work[r].attempt < MaxAttempts
    BY <1>1, <2>1 DEF WorkType
  <2>5. (ShouldRetry(AnswerOf(r, a)) => ShouldRetry(work[r].rr)') /\ MaxAttempts' = MaxAttempts
    BY <2>4 DEF ShouldRetry
  <2> QED
    BY <1>1, <2>2, <2>3, <2>4, <2>5
<1> QED
  BY <1>3, <1>4, <1>5, <1>6, <1>7, <1>8, <1>9 DEF RequestStep

(* So do its start and the record of its result.                           *)
LEMMA TriedStarts ==
    ASSUME RequestTypeOK, NEW r \in Requests, Tried(r), StartRequest(r), opts' = opts
    PROVE  /\ Tried(r)'
           /\ \A q \in Requests : q # r => work'[q] = work[q]
           /\ sends' = sends /\ saw' = saw
           /\ At(r, "idle") /\ work[r].attempt = 0
           /\ work'[r].pc \in {"delay", "loop"} /\ work'[r].runErr = "none"
           /\ work'[r].rr = ZeroResult
<1>1. work[r] \in WorkType /\ work \in [Requests -> WorkType]
  BY DEF RequestTypeOK
<1>2. PICK pc \in {"delay", "loop"} : work' = [work EXCEPT ![r].pc = pc]
  BY DEF StartRequest, Goto
<1>3. /\ work'[r].pc \in {"delay", "loop"} /\ work'[r].attempt = work[r].attempt
      /\ work'[r].rr = work[r].rr /\ work'[r].runErr = work[r].runErr
      /\ \A q \in Requests : q # r => work'[q] = work[q]
  BY <1>1, <1>2 DEF WorkType
<1>4. sends' = sends /\ saw' = saw /\ work[r].pc = "idle"
  BY DEF StartRequest, Goto, At
<1>5. work[r].attempt = 0 /\ work[r].rr = ZeroResult /\ work[r].runErr = "none" /\ sends[r] = 0
  BY <1>4 DEF Tried, At
<1>6. opts.retries \in Int
  BY OptionsAssumption DEF RequestTypeOK, OptionType
<1>7. Tried(r)'
  BY <1>3, <1>4, <1>5, <1>6 DEF Tried, At
<1> QED
  BY <1>3, <1>4, <1>5, <1>7 DEF At

LEMMA TriedEnds ==
    ASSUME RequestTypeOK, NEW r \in Requests, Tried(r), Recorded(r), opts' = opts
    PROVE  /\ Tried(r)'
           /\ \A q \in Requests : q # r => work'[q] = work[q]
           /\ sends' = sends /\ saw' = saw
           /\ work'[r].pc = "recorded" /\ work'[r].runErr = "none" /\ work'[r].attempt = 0
           /\ work'[r].rr = ZeroResult
<1>1. work \in [Requests -> WorkType]
  BY DEF RequestTypeOK
<1>2. work' = [work EXCEPT ![r] = [Idle EXCEPT !.pc = "recorded"]] /\ sends' = sends /\ saw' = saw
  BY DEF Recorded
<1>3. work'[r] = [Idle EXCEPT !.pc = "recorded"] /\ \A q \in Requests : q # r => work'[q] = work[q]
  BY <1>1, <1>2
<1>4. /\ work'[r].pc = "recorded" /\ work'[r].attempt = 0 /\ work'[r].rr = ZeroResult
      /\ work'[r].runErr = "none"
  BY <1>3 DEF Idle
<1>5. opts.retries < 0 => sends[r] = 0
  BY DEF Tried
<1>6. opts.retries \in Int
  BY OptionsAssumption DEF RequestTypeOK, OptionType
<1>7. Tried(r)'
  BY <1>2, <1>4, <1>5, <1>6 DEF Tried, At
<1> QED
  BY <1>2, <1>3, <1>4, <1>7

(* A request nobody touches keeps its account.                             *)
LEMMA TriedElsewhere ==
    ASSUME NEW r \in Requests, Tried(r), work'[r] = work[r], sends'[r] = sends[r], opts' = opts
    PROVE  Tried(r)'
BY DEF Tried, At, MaxAttempts, ShouldRetry

(* Nothing is canceled as long as the context lives.                       *)
LEMMA CanceledInductive ==
    ASSUME RequestTypeOK, NEW r \in Requests, NEW done \in ContextStates, NEW vals, NEW later,
           CanceledBy(r, done), RequestStep(r, done, vals), done # "live" => later # "live"
    PROVE  CanceledBy(r, later)'
<1> USE DEF CanceledBy
<1>1. work[r] \in WorkType /\ work \in [Requests -> WorkType]
  BY DEF RequestTypeOK
<1>2. CASE DelayElapses(r) \/ BackoffElapses(r)
  BY <1>1, <1>2 DEF DelayElapses, BackoffElapses, Goto, WorkType
<1>3. CASE DelayInterrupted(r, done)
  BY <1>1, <1>3 DEF DelayInterrupted, WorkType
<1>4. CASE LoopInterrupted(r, done) \/ BackoffInterrupted(r, done)
  BY <1>1, <1>4 DEF LoopInterrupted, BackoffInterrupted, Return, WorkType
<1>5. CASE ResolveFails(r, done, vals) \/ LoopExhausted(r)
  BY <1>1, <1>5 DEF ResolveFails, LoopExhausted, Return, WorkType
<1>6. CASE Send(r, done, vals)
  BY <1>1, <1>6 DEF Send, WorkType
<1>7. CASE Answered(r, done)
  <2>1. PICK a \in PossibleAnswers(done) :
            work'[r].rr = AnswerOf(r, a) /\ work'[r].runErr = work[r].runErr
    BY <1>1, <1>7 DEF Answered, WorkType
  <2>2. a.error = "canceled" => done # "live"
    BY AnswersAssumption DEF PossibleAnswers, ErrorKinds
  <2>3. AnswerOf(r, a).error = a.error
    BY DEF AnswerOf, ZeroResult
  <2> QED
    BY <2>1, <2>2, <2>3
<1> QED
  BY <1>2, <1>3, <1>4, <1>5, <1>6, <1>7 DEF RequestStep

-----------------------------------------------------------------------------
(* How far a request still is from its place in the report: no wait and no *)
(* retry leads back to where it was.                                       *)
Distance ==
    [idle |-> 4, flight |-> 4, delay |-> 3, backoff |-> 3, loop |-> 2,
     delayStopped |-> 1, returned |-> 1, recorded |-> 0]

AttemptsLeft(r) == IF work[r].attempt < MaxAttempts THEN MaxAttempts - work[r].attempt ELSE 0

StepsLeft(r) ==
    Distance[work[r].pc]
        + IF work[r].pc \in {"delayStopped", "returned", "recorded"} THEN 0 ELSE 3 * AttemptsLeft(r)

LEMMA StepsLeftType ==
    ASSUME RequestTypeOK, NEW r \in Requests
    PROVE  StepsLeft(r) \in Nat /\ AttemptsLeft(r) \in Nat /\ MaxAttempts \in Int
<1>1. work[r].attempt \in Nat /\ opts.retries \in Int /\ work[r].pc \in DOMAIN Distance
  BY OptionsAssumption DEF RequestTypeOK, WorkType, OptionType, Distance
<1>2. MaxAttempts \in Int /\ AttemptsLeft(r) \in Nat
  BY <1>1 DEF AttemptsLeft, MaxAttempts
<1> QED
  BY <1>1, <1>2 DEF StepsLeft, Distance

(* Each step of a request brings it nearer to its end.                     *)
LEMMA StepsFall ==
    ASSUME RequestTypeOK, NEW r \in Requests, NEW done, NEW vals, opts' = opts,
           \/ StartRequest(r) \/ RequestStep(r, done, vals)
           \/ Recorded(r) /\ ~At(r, "recorded")
    PROVE  /\ StepsLeft(r)' < StepsLeft(r)
           /\ \A q \in Requests : q # r => StepsLeft(q)' = StepsLeft(q)
<1> DEFINE later == work'[r]
<1>1. /\ work \in [Requests -> WorkType] /\ opts.retries \in Int /\ MaxAttempts' = MaxAttempts
      /\ work[r].attempt \in Nat /\ work[r].pc \in DOMAIN Distance
  BY OptionsAssumption DEF RequestTypeOK, WorkType, OptionType, MaxAttempts, Distance
<1>2. AttemptsLeft(r) \in Nat /\ MaxAttempts \in Int /\ StepsLeft(r) \in Nat
  BY StepsLeftType
<1>3. ASSUME NEW p \in DOMAIN Distance, later.pc = p, later.attempt = work[r].attempt,
             Distance[p] < Distance[work[r].pc],
             work[r].pc \in {"delayStopped", "returned", "recorded"} =>
                p \in {"delayStopped", "returned", "recorded"}
      PROVE  StepsLeft(r)' < StepsLeft(r)
  <2>1. AttemptsLeft(r)' = AttemptsLeft(r)
    BY <1>1, <1>3 DEF AttemptsLeft
  <2>2. \A x \in DOMAIN Distance : Distance[x] \in Nat
    BY DEF Distance
  <2>3. CASE p \in {"delayStopped", "returned", "recorded"}
    <3>1. StepsLeft(r)' = Distance[p]
      BY <1>3, <2>2, <2>3 DEF StepsLeft
    <3>2. Distance[work[r].pc] <= StepsLeft(r)
      BY <1>1, <1>2, <2>2 DEF StepsLeft
    <3> QED
      BY <1>1, <1>2, <1>3, <2>2, <3>1, <3>2
  <2>4. CASE p \notin {"delayStopped", "returned", "recorded"}
    <3>1. /\ StepsLeft(r) = Distance[work[r].pc] + 3 * AttemptsLeft(r)
          /\ StepsLeft(r)' = Distance[p] + 3 * AttemptsLeft(r)
      BY <1>3, <2>1, <2>4 DEF StepsLeft
    <3> QED
      BY <1>1, <1>2, <1>3, <2>2, <3>1
  <2> QED
    BY <2>3, <2>4
<1>4. StepsLeft(r)' < StepsLeft(r)
  <2>1. CASE StartRequest(r)
    <3>1. /\ work[r].pc = "idle" /\ later.pc \in {"delay", "loop"} /\ later.attempt = work[r].attempt
      BY <1>1, <2>1 DEF StartRequest, Goto, At, WorkType
    <3> QED
      BY <1>3, <3>1 DEF Distance
  <2>2. CASE DelayElapses(r) \/ BackoffElapses(r)
    <3>1. /\ work[r].pc \in {"delay", "backoff"} /\ later.pc = "loop" /\ later.attempt = work[r].attempt
      BY <1>1, <2>2 DEF DelayElapses, BackoffElapses, Goto, At, WorkType
    <3> QED
      BY <1>3, <3>1 DEF Distance
  <2>3. CASE DelayInterrupted(r, done)
    <3>1. /\ work[r].pc = "delay" /\ later.pc = "delayStopped" /\ later.attempt = work[r].attempt
      BY <1>1, <2>3 DEF DelayInterrupted, At, WorkType
    <3> QED
      BY <1>3, <3>1 DEF Distance
  <2>4. CASE \/ LoopInterrupted(r, done) \/ BackoffInterrupted(r, done)
             \/ ResolveFails(r, done, vals) \/ LoopExhausted(r)
    <3>1. /\ work[r].pc \in {"loop", "backoff"} /\ later.pc = "returned"
          /\ later.attempt = work[r].attempt
      BY <1>1, <2>4
      DEF LoopInterrupted, BackoffInterrupted, ResolveFails, LoopExhausted, CanTry, Return, At, WorkType
    <3> QED
      BY <1>3, <3>1 DEF Distance
  <2>5. CASE Send(r, done, vals)
    <3>1. /\ work[r].pc = "loop" /\ later.pc = "flight" /\ later.attempt = work[r].attempt + 1
          /\ work[r].attempt < MaxAttempts
      BY <1>1, <2>5 DEF Send, CanTry, At, WorkType
    <3>2. AttemptsLeft(r)' = AttemptsLeft(r) - 1
      BY <1>1, <1>2, <3>1 DEF AttemptsLeft
    <3> QED
      BY <1>2, <3>1, <3>2 DEF StepsLeft, Distance
  <2>6. CASE Answered(r, done)
    <3>1. /\ work[r].pc = "flight" /\ later.pc \in {"returned", "backoff", "loop"}
          /\ later.attempt = work[r].attempt
      BY <1>1, <2>6 DEF Answered, At, WorkType
    <3> QED
      BY <1>3, <3>1 DEF Distance
  <2>7. CASE Recorded(r) /\ ~At(r, "recorded")
    <3>1. later.pc = "recorded" /\ work[r].pc # "recorded"
      BY <1>1, <2>7 DEF Recorded, At
    <3>2. StepsLeft(r)' = 0 /\ Distance[work[r].pc] \in Nat \ {0}
      BY <1>1, <3>1 DEF StepsLeft, Distance
    <3>3. 3 * AttemptsLeft(r) \in Nat
      BY <1>2
    <3> QED
      BY <3>2, <3>3 DEF StepsLeft
  <2> QED
    BY <2>1, <2>2, <2>3, <2>4, <2>5, <2>6, <2>7 DEF RequestStep
<1>5. ASSUME NEW q \in Requests, q # r PROVE StepsLeft(q)' = StepsLeft(q)
  <2>1. work'[q] = work[q]
    BY <1>1, <1>5, StepShape
    DEF StartRequest, Goto, Recorded
  <2> QED
    BY <1>1, <2>1 DEF StepsLeft, AttemptsLeft
<1> QED
  BY <1>4, <1>5
=============================================================================
