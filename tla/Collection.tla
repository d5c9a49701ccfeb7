----------------------------- MODULE Collection -----------------------------
(***************************************************************************)
(* The static side of a run: a collection of requests, the variables each  *)
(* request refers to, the variables it extracts, and the values variables  *)
(* hold while the collection runs.  Every engine module builds on it.      *)
(*                                                                         *)
(* A request is its index in the collection.  Text is abstracted to the    *)
(* set of {{var}} references it holds, and a variable's value to where it  *)
(* came from: Unset (missing from the map), Seed (collection, environment  *)
(* or --var), or the request that extracted it.  That is all the order of  *)
(* execution can tell apart.                                               *)
(***************************************************************************)
EXTENDS Integers

CONSTANTS
    N,            \* number of requests in a collection
    VarNames,     \* the variable names
    Collections   \* the collections a run may be given

Requests == 1..N

(***************************************************************************)
(* uses: references in URL, headers and body; asserts: references in the   *)
(* expected values of assertions; extract and extractHeaders: the names an *)
(* extraction rule writes; seeds: names known before the first request;    *)
(* delayed: requests with delay_ms > 0; unbuildable: those whose resolved  *)
(* URL or body is no HTTP request; kept: what --only/--tags retain.        *)
(***************************************************************************)
CollectionType ==
    [uses: [Requests -> SUBSET VarNames],
     asserts: [Requests -> SUBSET VarNames],
     extract: [Requests -> SUBSET VarNames],
     extractHeaders: [Requests -> SUBSET VarNames],
     seeds: SUBSET VarNames,
     delayed: SUBSET Requests,
     unbuildable: SUBSET Requests,
     kept: SUBSET Requests]

ASSUME NAssumption == N \in Nat

ASSUME CollectionsAssumption == Collections \subseteq CollectionType

VARIABLE coll     \* the collection being run

-----------------------------------------------------------------------------
(* requestConsumedVars and requestProducedVars of the dependency graph. *)

Consumed(c, r) == c.uses[r] \cup c.asserts[r]

Produced(c, r) == c.extract[r] \cup c.extractHeaders[r]

-----------------------------------------------------------------------------
(* Values of variables. *)

Seed == 0
Unset == -1
Value == Requests \cup {Seed, Unset}
Environment == [VarNames -> Value]

(* collection vars < env vars < --var: which of the three wins is text. *)
SeedVars(c) == [v \in VarNames |-> IF v \in c.seeds THEN Seed ELSE Unset]

(* resolveStringWith fails on a reference that is not in the map. *)
Known(env, v) == env[v] # Unset

(* URL, headers and body are resolved part by part, and all must resolve. *)
Resolves(env, names) == \A v \in names : Known(env, v)

MergeExtracted(env, r, names) == [v \in VarNames |-> IF v \in names THEN r ELSE env[v]]

-----------------------------------------------------------------------------
(* Shapes of collections the properties distinguish. *)

(* The collection as a person reads it: whatever a request refers to is    *)
(* seeded or extracted by a request above it.                              *)
WellOrdered(c) ==
    \A r \in c.kept : \A v \in Consumed(c, r) :
        v \in c.seeds \/ \E p \in c.kept : p < r /\ v \in Produced(c, p)

(* Every reference in a URL, a header or a body is seeded or extracted by   *)
(* a request above it: what `lynix validate' looks for.                    *)
KnownAbove(c, r) == c.seeds \cup UNION {Produced(c, p) : p \in 1..(r - 1)}

Presentable(c) == \A r \in Requests : c.uses[r] \subseteq KnownAbove(c, r)

(* Request p is the only source of a variable that r refers to. *)
OnlySource(c, p, v) ==
    /\ v \notin c.seeds
    /\ v \in Produced(c, p)
    /\ \A q \in c.kept : v \in Produced(c, q) => q = p

Needs(c, r, p) == \E v \in Consumed(c, r) : OnlySource(c, p, v)

(* Every variable has at most one source. *)
SingleAssignment(c) ==
    \A p, q \in c.kept : \A v \in Produced(c, p) :
        v \notin c.seeds /\ (v \in Produced(c, q) => p = q)
=============================================================================
