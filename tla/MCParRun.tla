------------------------------ MODULE MCParRun ------------------------------
EXTENDS ParRun

MCVarNames == {"x", "y"}

None == [r \in 1..3 |-> {}]

Plain ==
    [uses |-> None, asserts |-> None, extract |-> None, extractHeaders |-> None,
     seeds |-> {}, delayed |-> {}, unbuildable |-> {}, kept |-> 1..3]

(* 1 extracts x; 2 and 3 run beside each other with it. *)
Fork ==
    [Plain EXCEPT !.extract = [None EXCEPT ![1] = {"x"}],
                  !.uses = [None EXCEPT ![2] = {"x"}],
                  !.asserts = [None EXCEPT ![3] = {"x"}], !.delayed = {2}]

(* 1 and 2 run beside each other; 3 joins what they extract. *)
Join ==
    [Plain EXCEPT !.extract = [None EXCEPT ![1] = {"x"}],
                  !.extractHeaders = [None EXCEPT ![2] = {"y"}],
                  !.uses = [None EXCEPT ![3] = {"x", "y"}], !.seeds = {}]

(* x is extracted by 1 and 2, side by side, and sent by 3. *)
TwoSources ==
    [Plain EXCEPT !.extract = [r \in 1..3 |-> IF r = 3 THEN {} ELSE {"x"}],
                  !.uses = [None EXCEPT ![3] = {"x"}], !.delayed = {1}]

(* x is seeded and extracted again by 1; 2 sends it beside 1, 3 after y.   *)
Reseeded ==
    [Plain EXCEPT !.extract = [None EXCEPT ![1] = {"x", "y"}],
                  !.uses = [None EXCEPT ![2] = {"x"}, ![3] = {"x", "y"}],
                  !.seeds = {"x"}]

(* 1 and 2 are serialised: y is missing, so what 3 extracts is not awaited. *)
Stuck ==
    [Plain EXCEPT !.uses = [None EXCEPT ![1] = {"y"}, ![2] = {"x", "y"}],
                  !.extract = [None EXCEPT ![1] = {"x"}], !.delayed = {3}]

MCCollections == {Fork, Join, TwoSources, Reseeded, Stuck}

MCFilters == {1..3, {2, 3}}

MCAnswers ==
    {[status |-> 200, error |-> "none"], [status |-> 0, error |-> "connection"],
     [status |-> 500, error |-> "unknown"]}

Opt(ff, n, delay, re5, st) ==
    [failFast |-> ff, retries |-> n, retryDelay |-> delay, retry5xx |-> re5,
     store |-> st, dryRun |-> FALSE]

(* With the first, siblings are canceled in their delay, in flight and in  *)
(* their back-off.                                                         *)
MCOptions == {Opt(TRUE, 1, TRUE, FALSE, TRUE), Opt(FALSE, 1, TRUE, TRUE, TRUE),
              Opt(FALSE, 0, FALSE, FALSE, FALSE)}
=============================================================================
