------------------------------- MODULE MCDfs -------------------------------
(* Instances of Dfs for TLC: values for its function constants.            *)
EXTENDS Dfs, TLC

CONSTANTS a, b, cl1, cl2

\* a and b fall on the same rotation, or on neighbouring ones.
SameOffset == [v \in Contents |-> 1]
TwoOffsets == [v \in Contents |-> IF v = a THEN 0 ELSE 1]

\* b is longer than a, or both are one chunk long.
OneChunk == [v \in Contents |-> 1]
Lengths  == [v \in Contents |-> IF v = a THEN 1 ELSE 2]

\* Two dfc programs run the same code; no property names one of them.
Symmetry == Permutations(Clients)

=============================================================================
