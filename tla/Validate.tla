------------------------------ MODULE Validate ------------------------------
(***************************************************************************)
(* ValidateCollection.Execute: the requests of a collection, --only and    *)
(* --tags do not apply, are resolved top to bottom with placeholders for   *)
(* what the requests above would extract.  Nothing is sent.                *)
(***************************************************************************)
EXTENDS Collection

VARIABLES
    next,      \* the request the loop is on
    known,     \* the names in vars
    verdict    \* "pending", "ok", or the error Execute returned

vars == <<coll, next, known, verdict>>

Init ==
    /\ coll \in Collections
    /\ next = 1
    /\ known = coll.seeds
    /\ verdict = "pending"

Pending == verdict = "pending" /\ next <= N

(* Mutant: a request may use what it extracts itself. *)
CheckAfterExtract ==
    /\ Pending
    /\ coll.uses[next] \subseteq known \cup Produced(coll, next)
    /\ known' = known \cup Produced(coll, next)
    /\ next' = next + 1
    /\ UNCHANGED <<coll, verdict>>

(* Mutant: headers are not a source of variables. *)
CheckBodyOnly ==
    /\ Pending
    /\ coll.uses[next] \subseteq known
    /\ known' = known \cup coll.extract[next]
    /\ next' = next + 1
    /\ UNCHANGED <<coll, verdict>>

(* The request resolves, its schema file exists and its JSONPath and regex *)
(* expressions compile.                                                    *)
CheckRequest ==
    /\ Pending
    /\ coll.uses[next] \subseteq known
    /\ known' = known \cup Produced(coll, next)
    /\ next' = next + 1
    /\ UNCHANGED <<coll, verdict>>

Rejected(why) ==
    /\ verdict' = why
    /\ UNCHANGED <<coll, next, known>>

MissingVariable ==
    /\ Pending
    /\ ~(coll.uses[next] \subseteq known)
    /\ Rejected("missing")

(* The collection or the environment does not load, an expression does not *)
(* compile, a schema file is missing, or the context is done.              *)
OtherError == verdict = "pending" /\ next <= N /\ Rejected("error")

Accept ==
    /\ verdict = "pending"
    /\ next > N
    /\ verdict' = "ok"
    /\ UNCHANGED <<coll, next, known>>

Checks == CheckRequest \/ MissingVariable \/ Accept

Idles == verdict # "pending" /\ UNCHANGED vars

Next == Checks \/ OtherError \/ Idles

Spec == Init /\ [][Next]_vars

-----------------------------------------------------------------------------
(* Properties. *)

(* "OK" means every reference in a URL, a header or a body is given a      *)
(* value above it: the promise a run relies on, checked on runs as         *)
(* ValidatedNeverUnresolved (validate_collection.go:49-51).                *)
AcceptsPresentable == verdict = "ok" => Presentable(coll)

(* A collection is rejected for a missing variable only if some request    *)
(* really lacks one: what a request extracts is known to those below it,   *)
(* and only to them (validate_collection.go:94-104).                       *)
RejectsWithReason == verdict = "missing" => ~Presentable(coll)
=============================================================================
