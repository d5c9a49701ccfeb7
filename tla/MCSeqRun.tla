------------------------------ MODULE MCSeqRun ------------------------------
EXTENDS SeqRun

MCVarNames == {"x", "y"}

None == [r \in 1..3 |-> {}]

Plain ==
    [uses |-> None, asserts |-> None, extract |-> None, extractHeaders |-> None,
     seeds |-> {}, delayed |-> {}, unbuildable |-> {}, kept |-> 1..3]

(* 1 extracts x; 2 sends it after a delay; 3 asserts on it. *)
Chain ==
    [Plain EXCEPT !.extract = [None EXCEPT ![1] = {"x"}], !.uses = [None EXCEPT ![2] = {"x"}],
                  !.asserts = [None EXCEPT ![3] = {"x"}], !.delayed = {2}]

(* x is seeded, extracted again by 1 (body) and by 2 (header), sent by 3.  *)
Reextract ==
    [Plain EXCEPT !.extract = [None EXCEPT ![1] = {"x"}],
                  !.extractHeaders = [None EXCEPT ![2] = {"x"}],
                  !.uses = [None EXCEPT ![3] = {"x"}], !.seeds = {"x"}, !.delayed = {1}]

(* y has no source: 2 cannot be sent, and 3 is no HTTP request. *)
Unresolvable ==
    [Plain EXCEPT !.uses = [None EXCEPT ![2] = {"y"}], !.delayed = {2, 3},
                  !.unbuildable = {3}]

MCCollections == {Chain, Reextract, Unresolvable}

MCFilters == {1..3, {2, 3}}

MCAnswers ==
    {[status |-> 200, error |-> "none"], [status |-> 500, error |-> "none"],
     [status |-> 0, error |-> "connection"], [status |-> 0, error |-> "unknown"],
     [status |-> 200, error |-> "timeout"]}

MCOptions ==
    [failFast: BOOLEAN, retries: {1}, retryDelay: {TRUE}, retry5xx: {TRUE},
     store: {TRUE}, dryRun: {FALSE}]
    \cup
    [failFast: {FALSE}, retries: {0}, retryDelay: {FALSE}, retry5xx: {FALSE},
     store: BOOLEAN, dryRun: BOOLEAN]
    \cup
    [failFast: {FALSE}, retries: {1}, retryDelay: {FALSE}, retry5xx: {FALSE},
     store: {TRUE}, dryRun: {FALSE}]
=============================================================================
