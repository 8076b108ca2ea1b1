------------------------------- MODULE MCUftp -------------------------------
(* Values for model checking UftpPut: a file of three packets, one of one, an empty one. *)
EXTENDS UftpPut

CONSTANTS a, b, z

Lengths == [c \in Contents |-> CASE c = a -> 3 [] c = b -> 1 [] c = z -> 0]

=============================================================================
