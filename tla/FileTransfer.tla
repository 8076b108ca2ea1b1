---------------------------- MODULE FileTransfer ----------------------------
(***************************************************************************)
(* What a put of the file transfer of Project 1 promises, whatever the     *)
(* network does: when it returns the server has the file, and keeps it     *)
(* until the next put.  One file name; a content of no packets at all is   *)
(* answered but leaves the server's file alone.  Only after a user gave up *)
(* a put, or the server was killed during one, is less promised.           *)
(***************************************************************************)
EXTENDS Naturals, Sequences

CONSTANTS
    Contents,   \* what can be put under the name
    Packets,    \* packets a content takes
    None

VARIABLES
    sending,    \* the content of the put that is running
    file,       \* the server's file
    kept,       \* the content the server must hold now
    disturbed   \* some put was given up or lost its server

Whole(c) == [n \in 1 .. Packets[c] |-> <<c, n - 1>>]

Init == sending = None /\ file = None /\ kept = None /\ disturbed = FALSE

Begin(c) ==
    /\ sending = None
    /\ sending' = c
    /\ kept' = IF Packets[c] = 0 THEN kept ELSE None
    /\ UNCHANGED <<file, disturbed>>

\* The file is rewritten, only while it need not hold anything.
Store == kept = None /\ UNCHANGED <<sending, kept, disturbed>>

Return ==
    /\ sending # None
    /\ sending' = None
    /\ IF Packets[sending] = 0 THEN kept' = kept
                               ELSE kept' = sending /\ file = Whole(sending)
    /\ UNCHANGED <<file, disturbed>>

\* The user gives up, or the server dies.
Disturb ==
    /\ disturbed' = TRUE
    /\ sending' \in {sending, None}
    /\ kept' \in {kept, None}
    /\ file' # file => kept' = None

\* What disturbed puts have left behind does its damage.
Spoil == disturbed /\ sending' \in {sending, None} /\ kept' = None /\ UNCHANGED disturbed

Next == (\E c \in Contents : Begin(c)) \/ Store \/ Return \/ Disturb \/ Spoil

Spec == Init /\ [][Next]_<<sending, file, kept, disturbed>>

=============================================================================
