---------------------------- MODULE RunContract ----------------------------
(***************************************************************************)
(* What Execute promises its caller, however it schedules the requests:    *)
(* each kept request begins at most once, and only after the requests      *)
(* above it that are the only source of a variable it refers to have       *)
(* settled; Execute returns when everything begun has settled, with a      *)
(* report of settled requests only, and of all of them unless the run was  *)
(* interrupted.  SeqRun and ParRun both implement it.                      *)
(***************************************************************************)
EXTENDS Collection

VARIABLES
    begun,      \* requests the engine has turned to
    settled,    \* requests with a result
    reported,   \* requests in the returned run
    outcome     \* what Execute returned, if it has

vars == <<coll, begun, settled, reported, outcome>>

Init ==
    /\ coll \in Collections
    /\ begun = {}
    /\ settled = {}
    /\ reported = {}
    /\ outcome = "running"

Select ==
    /\ begun = {}
    /\ outcome = "running"
    /\ \E kept \in (SUBSET coll.kept) \ {{}} : coll' = [coll EXCEPT !.kept = kept]
    /\ UNCHANGED <<begun, settled, reported, outcome>>

SourcesSettled(r) == \A p \in coll.kept : p < r /\ Needs(coll, r, p) => p \in settled

Begin(r) ==
    /\ outcome = "running"
    /\ r \in coll.kept \ begun
    /\ SourcesSettled(r)
    /\ begun' = begun \cup {r}
    /\ UNCHANGED <<coll, settled, reported, outcome>>

Settle(r) ==
    /\ outcome = "running"
    /\ r \in coll.kept \ settled
    /\ r \in begun \/ SourcesSettled(r)
    /\ begun' = begun \cup {r}
    /\ settled' = settled \cup {r}
    /\ UNCHANGED <<coll, reported, outcome>>

(* The last request may settle with the return itself. *)
Return(o) ==
    /\ outcome = "running"
    /\ outcome' = o
    /\ settled' = begun
    /\ reported' \in SUBSET begun
    /\ o \in {"done", "saved", "saveError"} => reported' = begun
    /\ UNCHANGED <<coll, begun>>

Next ==
    \/ Select
    \/ \E r \in Requests : Begin(r) \/ Settle(r)
    \/ \E o \in {"error", "interrupted", "done", "saved", "saveError"} : Return(o)

Spec == Init /\ [][Next]_vars
=============================================================================
