--------------------------- MODULE PlanningProofs ---------------------------
(***************************************************************************)
(* The two static passes over any collections: `lynix validate' accepts    *)
(* exactly what it says, the dependency graph is as good beside validation *)
(* as alone, and never gets stuck on what validation accepts.              *)
(***************************************************************************)
EXTENDS Planning, DepGraphProofs

(* Validation does not disturb the graph. *)
THEOREM GraphUndisturbed == PlanSpec => Spec
<1>1. PlanInit => Init
  BY DEF PlanInit, V!Init, Init
<1>2. [PlanNext]_planVars => [Next]_vars
  <2>1. CASE ValidateCommand
    BY <2>1 DEF ValidateCommand, graphVars, vars, V!Checks, V!OtherError, V!CheckRequest,
       V!MissingVariable, V!Rejected, V!Accept
  <2>2. CASE RunParallel
    BY <2>2 DEF RunParallel, Next
  <2>3. CASE Finished \/ UNCHANGED planVars
    BY <2>3 DEF Finished, planVars, vars
  <2> QED
    BY <2>1, <2>2, <2>3 DEF PlanNext
<1> QED
  BY <1>1, <1>2, PTL DEF PlanSpec, Spec

-----------------------------------------------------------------------------
(* What validation knows when it turns to a request, and what its verdicts *)
(* were reached on: the inductive invariant.                               *)
Walked ==
    /\ next \in 1..(N + 1)
    /\ known = KnownAbove(coll, next)
    /\ \A r \in 1..(next - 1) : coll.uses[r] \subseteq KnownAbove(coll, r)
    /\ verdict = "ok" => next = N + 1
    /\ verdict = "missing" => next \in Requests /\ ~(coll.uses[next] \subseteq known)

(* Walking on, and planning levels beside it, keep it so. *)
LEMMA WalkedInductive ==
    ASSUME Walked, [PlanNext]_planVars
    PROVE  Walked'
<1> USE NAssumption DEF Walked
<1>1. CASE V!CheckRequest
  <2>1. next \in Requests /\ next' = next + 1 /\ coll' = coll /\ verdict' = "pending"
    BY <1>1 DEF V!CheckRequest, V!Pending, Requests
  <2>2. 1..(next' - 1) = (1..(next - 1)) \cup {next}
    BY <2>1 DEF Requests
  <2>3. KnownAbove(coll, next') = KnownAbove(coll, next) \cup Produced(coll, next)
    BY <2>2 DEF KnownAbove
  <2>4. known' = KnownAbove(coll', next')
    BY <1>1, <2>1, <2>3 DEF V!CheckRequest, V!Produced, Produced
  <2>5. \A r \in 1..(next' - 1) : coll'.uses[r] \subseteq KnownAbove(coll', r)
    BY <1>1, <2>1, <2>2 DEF V!CheckRequest
  <2> QED
    BY <2>1, <2>4, <2>5 DEF Requests
<1>2. CASE V!MissingVariable
  BY <1>2 DEF V!MissingVariable, V!Pending, V!Rejected, Requests
<1>3. CASE V!OtherError
  BY <1>3 DEF V!OtherError, V!Rejected
<1>4. CASE V!Accept
  BY <1>4 DEF V!Accept
<1>5. CASE UNCHANGED coll /\ UNCHANGED validateVars
  BY <1>5 DEF validateVars, KnownAbove
<1>6. RunParallel => UNCHANGED coll /\ UNCHANGED validateVars
  BY DEF RunParallel, GraphNext, AddLevel, SerializeNext
<1> QED
  BY <1>1, <1>2, <1>3, <1>4, <1>5, <1>6
  DEF PlanNext, ValidateCommand, V!Checks, Finished, planVars, vars

(* It holds throughout. *)
THEOREM WalkedCorrect == PlanSpec => []Walked
<1>1. PlanInit => Walked
  <2> SUFFICES ASSUME PlanInit PROVE Walked
    OBVIOUS
  <2>1. next = 1 /\ 1..(next - 1) = {} /\ known = coll.seeds /\ verdict = "pending"
    BY DEF PlanInit, V!Init
  <2>2. KnownAbove(coll, next) = coll.seeds
    BY <2>1 DEF KnownAbove
  <2> QED
    BY <2>1, <2>2, NAssumption DEF Walked
<1> QED
  BY <1>1, WalkedInductive, PTL DEF PlanSpec

(* The validate module reads a collection as this one does. *)
LEMMA SamePresentable == V!Presentable(coll) <=> Presentable(coll)
BY DEF V!Presentable, Presentable, V!Requests, Requests, V!KnownAbove, KnownAbove, V!Produced,
   Produced

(* What `lynix validate' accepts, a run can resolve from top to bottom. *)
THEOREM AcceptsPresentableCorrect == PlanSpec => []AcceptsPresentable
<1>1. Walked => AcceptsPresentable
  BY NAssumption, SamePresentable
  DEF Walked, AcceptsPresentable, V!AcceptsPresentable, Presentable, Requests
<1> QED
  BY <1>1, WalkedCorrect, PTL

(* A collection is rejected for a missing variable only if one is missing. *)
THEOREM RejectsWithReasonCorrect == PlanSpec => []RejectsWithReason
<1>1. Walked => RejectsWithReason
  BY SamePresentable DEF Walked, RejectsWithReason, V!RejectsWithReason, Presentable
<1> QED
  BY <1>1, WalkedCorrect, PTL

(* What a person can read top to bottom, assertions included, is ordered   *)
(* as the graph wants it.                                                  *)
LEMMA PresentableIsWellOrdered ==
    ASSUME coll.kept = Requests, Presentable(coll), AssertionsKnown(coll)
    PROVE  WellOrdered(coll)
<1> SUFFICES ASSUME NEW r \in Requests, NEW v \in Consumed(coll, r)
             PROVE  v \in coll.seeds \/ \E p \in Requests : p < r /\ v \in Produced(coll, p)
  BY DEF WellOrdered
<1>1. v \in KnownAbove(coll, r)
  BY DEF Consumed, Presentable, AssertionsKnown
<1>2. \A p \in 1..(r - 1) : p \in Requests /\ p < r
  BY NAssumption DEF Requests
<1> QED
  BY <1>1, <1>2 DEF KnownAbove

(* What `lynix validate' accepts never reaches the fallback of the graph   *)
(* (validate_collection.go:62-107, depgraph.go:44-55).                     *)
THEOREM AcceptedNeverStuckCorrect == PlanSpec => []AcceptedNeverStuck
<1>1. AcceptsPresentable /\ WellOrderedNeverStuck => AcceptedNeverStuck
  BY SamePresentable, PresentableIsWellOrdered
  DEF AcceptsPresentable, V!AcceptsPresentable, WellOrderedNeverStuck, AcceptedNeverStuck
<1> QED
  BY <1>1, AcceptsPresentableCorrect, GraphUndisturbed, WellOrderedNeverStuckCorrect, PTL
=============================================================================
