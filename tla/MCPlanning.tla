----------------------------- MODULE MCPlanning -----------------------------
(* Every collection of three requests over two variables: references in    *)
(* text or in assertions, any extraction rules, any seeds, any filter that *)
(* keeps the last request.                                                 *)
EXTENDS Planning

MCVarNames == {"x", "y"}

None == [r \in 1..3 |-> {}]

MCCollections ==
    [uses: [1..3 -> SUBSET MCVarNames],
     asserts: {None, [None EXCEPT ![2] = {"x"}], [None EXCEPT ![3] = {"y"}]},
     extract: [1..3 -> SUBSET MCVarNames],
     extractHeaders: {None, [None EXCEPT ![1] = {"y"}]},
     seeds: {{}, {"x"}},
     delayed: {{}},
     unbuildable: {{}},
     kept: {1..3, {2, 3}}]
=============================================================================
