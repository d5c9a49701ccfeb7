------------------------------ MODULE DepGraph ------------------------------
(***************************************************************************)
(* BuildDepGraph: requests are grouped in levels by the variables they     *)
(* consume and produce.  One action per turn of its loop: a level of every *)
(* remaining request whose variables are available, or, when there is      *)
(* none, the remaining requests one per level in their original order.     *)
(* A level is kept sorted by index in the code: a set stands for it.       *)
(***************************************************************************)
EXTENDS Collection, Sequences

VARIABLES
    available,   \* names some request so far can rely on
    remaining,   \* requests not yet in a level
    levels       \* the levels, first to last

graphVars == <<available, remaining, levels>>

(* Mutant: what assertions refer to is forgotten. *)
SatisfiedText(r) == coll.uses[r] \subseteq available

Satisfied(r) == Consumed(coll, r) \subseteq available

Ready == {r \in remaining : Satisfied(r)}

(* Mutant: the graph is built over the unfiltered requests. *)
GraphInitUnfiltered ==
    /\ available = coll.seeds
    /\ remaining = Requests
    /\ levels = <<>>

GraphInit ==
    /\ available = coll.seeds
    /\ remaining = coll.kept
    /\ levels = <<>>

(* Mutant: a planned request stays among the remaining ones. *)
AddLevelKeeping ==
    /\ Ready # {}
    /\ levels' = Append(levels, Ready)
    /\ available' = available \cup UNION {Produced(coll, r) : r \in Ready}
    /\ UNCHANGED <<coll, remaining>>

(* Mutant: headers are not a source of variables. *)
AddLevelBodyOnly ==
    /\ Ready # {}
    /\ levels' = Append(levels, Ready)
    /\ remaining' = remaining \ Ready
    /\ available' = available \cup UNION {coll.extract[r] : r \in Ready}
    /\ UNCHANGED coll

(* Mutant: a level takes one ready request only. *)
AddOneOfLevel ==
    /\ \E r \in Ready :
        /\ \A q \in Ready : r <= q
        /\ levels' = Append(levels, {r})
        /\ remaining' = remaining \ {r}
        /\ available' = available \cup Produced(coll, r)
    /\ UNCHANGED coll

AddLevel ==
    /\ Ready # {}
    /\ levels' = Append(levels, Ready)
    /\ remaining' = remaining \ Ready
    /\ available' = available \cup UNION {Produced(coll, r) : r \in Ready}
    /\ UNCHANGED coll

IsFirst(r) == r \in remaining /\ \A q \in remaining : r <= q

(* Mutant: what cannot be resolved is dumped into one level. *)
SerializeTogether ==
    /\ Ready = {}
    /\ remaining # {}
    /\ levels' = Append(levels, remaining)
    /\ remaining' = {}
    /\ UNCHANGED <<coll, available>>

(* Once no request is ready none is again: the code's inner loop appends   *)
(* the rest without looking at what they produce.                          *)
SerializeNext ==
    /\ Ready = {}
    /\ \E r \in remaining :
        /\ IsFirst(r)
        /\ levels' = Append(levels, {r})
        /\ remaining' = remaining \ {r}
    /\ UNCHANGED <<coll, available>>

GraphNext == AddLevel \/ SerializeNext

GraphBuilt == remaining = {}

-----------------------------------------------------------------------------
Init == coll \in Collections /\ GraphInit

vars == <<coll, available, remaining, levels>>

Done == GraphBuilt /\ UNCHANGED vars

Next == GraphNext \/ Done

Spec == Init /\ [][Next]_vars

-----------------------------------------------------------------------------
(* Properties. *)

TypeOK ==
    /\ coll \in Collections
    /\ available \subseteq VarNames
    /\ remaining \subseteq coll.kept
    /\ levels \in Seq(SUBSET coll.kept)

Planned == UNION {levels[i] : i \in DOMAIN levels}

(* Every kept request is planned once: a request in two levels would be    *)
(* sent twice and its result slot written twice; one in no level would     *)
(* never run and drop out of the report (depgraph.go:33-67).               *)
PlannedOnce ==
    /\ Planned = coll.kept \ remaining
    /\ \A i, j \in DOMAIN levels : i # j => levels[i] \cap levels[j] = {}

(* A request comes in a later level than the only request that extracts a  *)
(* variable it refers to, when that request is above it in the file, even  *)
(* if other dependencies cannot be resolved and the rest is serialised.    *)
SourceInEarlierLevel ==
    \A i \in DOMAIN levels : \A r \in levels[i], p \in coll.kept :
        p < r /\ Needs(coll, r, p) => \E j \in 1..(i - 1) : p \in levels[j]

(* Two requests of one level never race on an extracted variable: neither  *)
(* is the only source of something the other refers to (depgraph.go:46-48).*)
NeverBesideItsSource ==
    \A i \in DOMAIN levels : \A r, p \in levels[i] :
        p # r => ~Needs(coll, r, p)

(* A collection that can run top to bottom is never reported unresolvable: *)
(* the fallback of depgraph.go:44-55 is not reached for it.                *)
WellOrderedNeverStuck ==
    WellOrdered(coll) /\ remaining # {} => Ready # {}

(* No needless wait: a request of a level after the first refers to a      *)
(* variable that neither the seeds nor the levels before the previous one  *)
(* give it, so --parallel really runs everything that can run together.    *)
LevelsAreEager ==
    WellOrdered(coll) =>
        \A i \in DOMAIN levels : \A r \in levels[i] :
            i > 1 => \E v \in Consumed(coll, r) :
                /\ v \notin coll.seeds
                /\ \A j \in 1..(i - 2) : \A p \in levels[j] : v \notin Produced(coll, p)
=============================================================================
