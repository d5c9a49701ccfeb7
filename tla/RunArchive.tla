----------------------------- MODULE RunArchive -----------------------------
(***************************************************************************)
(* What the store promises of a run that shares its second with no other,  *)
(* however many processes save and rotate at once and wherever they die:   *)
(* its artifact appears once, whole and in one step, stays as it is, and   *)
(* leaves only when max_runs later runs have been published; and its id is *)
(* returned only after it has appeared.  RunStore implements it.           *)
(***************************************************************************)
EXTENDS Integers, FiniteSets

CONSTANT Savers

VARIABLES
    second,     \* when each run started
    maxRuns,    \* artifacts.max_runs
    published,  \* runs that have been renamed into place
    archive,    \* what is there: when its run started, and whose bytes it holds
    returned    \* runs whose id was returned

vars == <<second, maxRuns, published, archive, returned>>

Init ==
    /\ second \in [Savers -> Nat]
    /\ maxRuns \in Nat
    /\ published = {}
    /\ archive = {}
    /\ returned = {}

Alone(s) == \A t \in Savers : second[t] = second[s] => t = s

Publish(s) ==
    /\ s \notin published
    /\ published' = published \cup {s}
    /\ archive' = IF Alone(s) THEN archive \cup {<<second[s], {s}>>} ELSE archive
    /\ UNCHANGED <<second, maxRuns, returned>>

LaterPublished(s) == {t \in published : second[t] > second[s]}

Evict(s) ==
    /\ maxRuns > 0
    /\ Cardinality(LaterPublished(s)) >= maxRuns
    /\ archive' = {a \in archive : a[1] # second[s]}
    /\ UNCHANGED <<second, maxRuns, published, returned>>

Return(s) ==
    /\ s \in published \ returned
    /\ returned' = returned \cup {s}
    /\ UNCHANGED <<second, maxRuns, published, archive>>

Next == \E s \in Savers : Publish(s) \/ Evict(s) \/ Return(s)

Spec == Init /\ [][Next]_vars
=============================================================================
