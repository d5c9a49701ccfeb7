---------------------------- MODULE MCRunReader ----------------------------
(* Three processes that save in turn, or two at once, beside a reader; and *)
(* three at once without one.                                              *)
EXTENDS RunReader, MCRunStore

Pairs == {S \in SUBSET Savers : Cardinality(S) = 2}

MCSettings ==
    {Overlapping(1, S) : S \in Pairs \cup {Savers}} \cup {InTurn(0), InTurn(1), InTurn(2)}
=============================================================================
