---------------------------- MODULE DfsPlacement ----------------------------
(***************************************************************************)
(* Where the distributed file system of Project 4 puts the parts of a      *)
(* file.  The client cuts a file into as many parts as there are servers   *)
(* and sends every part to two of them, in an order rotated by the MD5 of  *)
(* the content.  The code writes the number of servers as the literal 4;   *)
(* it is the constant N here so that the arithmetic can be checked, and    *)
(* proved, for other sizes too.  Servers and parts count from 0, as the    *)
(* loop variables do (file names and messages add 1).                      *)
(***************************************************************************)
EXTENDS Integers

CONSTANT N

ASSUME NAssumption == N \in Nat /\ N >= 2

Servers == 0 .. (N - 1)
Parts   == 0 .. (N - 1)

\* The two nested loops of run_put, i over the servers and j over {0, 1},
\* flattened into one counter k = 2 * i + j.
PutSteps == 0 .. (2 * N - 1)

ServerAt(offset, k) == ((k \div 2) + offset) % N

PartAtNoWrap(k) == (k \div 2) + (k % 2)        \* mutant: no modulo
PartAt(k)       == ((k \div 2) + (k % 2)) % N

\* What the placement is meant to be: part p of a file with this rotation is
\* kept by two servers that are neighbours in the ring.
Homes(offset, p) == LET s == (p + offset) % N IN {s, (s + N - 1) % N}

\* No two servers next to each other in the ring are both in down.
NoNeighbours(down) == \A s \in Servers : ~ ({s, (s + 1) % N} \subseteq down)

=============================================================================
