----------------------------- MODULE MCRunStore -----------------------------
EXTENDS RunStore, TLC

SaverSymmetry == Permutations(Savers)

Overlapping(n, S) == [maxRuns |-> n, overlap |-> TRUE, savers |-> S]
InTurn(n) == [maxRuns |-> n, overlap |-> FALSE, savers |-> Savers]

MCInTurn == {InTurn(1), InTurn(2)}
=============================================================================
