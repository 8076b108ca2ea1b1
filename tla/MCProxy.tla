------------------------------ MODULE MCProxy ------------------------------
(* Instances of ProxyCache for TLC.                                        *)
EXTENDS ProxyCache, TLC

\* No property names a thread, a page or an address.
Symmetry == Permutations(Threads) \cup Permutations(Pages) \cup Permutations(Addresses)

=============================================================================
