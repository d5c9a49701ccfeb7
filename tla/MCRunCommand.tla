---------------------------- MODULE MCRunCommand ----------------------------
EXTENDS RunCommand

MCVarNames == {"x", "y"}

None == [r \in 1..2 |-> {}]

Plain ==
    [uses |-> None, asserts |-> None, extract |-> None, extractHeaders |-> None,
     seeds |-> {}, delayed |-> {}, unbuildable |-> {}, kept |-> 1..2]

(* 1 extracts x; 2 sends it after a delay. *)
Chain ==
    [Plain EXCEPT !.extract = [None EXCEPT ![1] = {"x"}], !.uses = [None EXCEPT ![2] = {"x"}],
                  !.delayed = {2}]

(* y has no source: 2 cannot be sent. *)
Unresolvable == [Plain EXCEPT !.uses = [None EXCEPT ![2] = {"y"}]]

MCCollections == {Chain, Unresolvable}

MCFilters == {1..2, {2}}

MCAnswers ==
    {[status |-> 200, error |-> "none"], [status |-> 500, error |-> "none"],
     [status |-> 0, error |-> "connection"]}

MCOptions ==
    [failFast: BOOLEAN, retries: {1}, retryDelay: {TRUE}, retry5xx: {TRUE},
     store: BOOLEAN, dryRun: {FALSE}]
    \cup
    [failFast: {FALSE}, retries: {0}, retryDelay: {FALSE}, retry5xx: {FALSE},
     store: {FALSE}, dryRun: {TRUE}]
    \cup
    [failFast: {FALSE}, retries: {-1}, retryDelay: {FALSE}, retry5xx: {FALSE},
     store: {TRUE}, dryRun: {FALSE}]

MCCommandOptions == [junit: BOOLEAN, badFormat: BOOLEAN, secretCheck: BOOLEAN]
=============================================================================
