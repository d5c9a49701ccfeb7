------------------------------ MODULE Planning ------------------------------
(***************************************************************************)
(* One collection seen by both static passes: `lynix validate' walks it    *)
(* top to bottom, then `lynix run --parallel' groups it in levels.  They   *)
(* share no code beyond the model of a collection, and each has its own    *)
(* idea of where a variable comes from.                                    *)
(***************************************************************************)
EXTENDS DepGraph

VARIABLES
    next,      \* of Validate
    known,
    verdict

V == INSTANCE Validate

validateVars == <<next, known, verdict>>
planVars == <<vars, validateVars>>

PlanInit == V!Init /\ GraphInit

ValidateCommand == (V!Checks \/ V!OtherError) /\ UNCHANGED graphVars

(* A run does not ask what validate said. *)
RunParallel ==
    /\ verdict # "pending"
    /\ GraphNext
    /\ UNCHANGED validateVars

Finished == verdict # "pending" /\ GraphBuilt /\ UNCHANGED planVars

PlanNext == ValidateCommand \/ RunParallel \/ Finished

PlanSpec == PlanInit /\ [][PlanNext]_planVars

-----------------------------------------------------------------------------
(* Properties. *)

(* "OK" means every reference in a URL, a header or a body is given a      *)
(* value above it: the promise a run relies on, checked on runs as         *)
(* ValidatedNeverUnresolved (validate_collection.go:49-51).                *)
AcceptsPresentable == V!AcceptsPresentable

(* A collection is rejected for a missing variable only if some request    *)
(* really lacks one: what a request extracts is known to those below it,   *)
(* and only to them (validate_collection.go:94-104).                       *)
RejectsWithReason == V!RejectsWithReason

(* The expected values of assertions, which validate does not look at.     *)
AssertionsKnown(c) == \A r \in Requests : c.asserts[r] \subseteq KnownAbove(c, r)

(* What validate accepts, --parallel never calls unresolvable when it runs *)
(* all of it, unless an assertion refers to a variable nobody gives a      *)
(* value: validate leaves assertions out, the graph does not               *)
(* (validate_collection.go:71-104, depgraph.go:44-55).                     *)
AcceptedNeverStuck ==
    verdict = "ok" /\ coll.kept = Requests /\ AssertionsKnown(coll) /\ remaining # {} => Ready # {}
=============================================================================
