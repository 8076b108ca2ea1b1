-------------------------------- MODULE MCGet --------------------------------
(* Instances of UftpGet for TLC: a file of two packets, which is got, one of one    *)
(* packet, which is got and deleted, and a name without a file.               *)
EXTENDS UftpGet

CONSTANTS a, b, z

Lengths == [f \in {a, b} |-> IF f = a THEN 2 ELSE 1]

=============================================================================
