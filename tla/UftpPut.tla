------------------------------ MODULE UftpPut ------------------------------
(***************************************************************************)
(* The put command of Project 1: stop-and-wait over UDP.  A client process *)
(* puts contents under one name, one after the other; a user may interrupt *)
(* it and start another, the server may end or be killed and be started    *)
(* again.                                                                  *)
(*                                                                         *)
(* The network is a queue in each direction, as one machine or one link    *)
(* is, which loses or garbles any packet when it is sent.  A packet is     *)
(* duplicated by sending it again: a time limit (0.1 s) may pass while the *)
(* answer is still on its way, unless Timely.  The CRC recognises every    *)
(* garbled packet.  Every packet is stamped with the number of the put it  *)
(* belongs to; the stamp stands for the client's port and is otherwise     *)
(* never looked at, as the program has no such number.                     *)
(***************************************************************************)
EXTENDS Integers, Sequences

CONSTANTS
    Contents, Packets, None,
    Timely,        \* time limits are longer than a round trip
    Buffered,      \* packets that fit a stdio buffer (2 in its 4096 bytes)
    MaxPuts, MaxFaults, MaxQuits, MaxStops, MaxFlight    \* bounds of the exploration

ASSUME UftpAssumption ==
    /\ Packets \in [Contents -> Nat]
    /\ None \notin Contents
    /\ Timely \in BOOLEAN
    /\ {Buffered, MaxPuts, MaxFaults, MaxQuits, MaxStops, MaxFlight} \subseteq Nat

VARIABLES
    pc,         \* client: "idle", "probe", "data", or "catchup" in the loop for the right ACK
    i,          \* its packet number
    sending,    \* the content it puts
    num,        \* the number of its put
    since,      \* the number of the first put of this client process
    toServer, toClient,   \* packets under way
    spc,        \* server: "main", "recv" in recv_file, "closing" at its fclose, "exiting", "down"
    si, total,  \* the i and packets_total of recv_file
    sess,       \* the put whose probe opened the file
    stream,     \* what was written to the FILE since it was opened
    disk,       \* the file on the server's disk
    leaked,     \* FILEs that recv_file left open, newest first: what their buffers hold and where it goes
    \* History:
    kept,       \* the content the disk must hold since a put returned
    torn,       \* the put during which the server was killed last
    faults, quits, stops

client == <<pc, i, sending, num, since>>
server == <<spc, si, total, sess, stream, disk, leaked>>
network == <<toServer, toClient, faults>>
vars == <<client, server, network, kept, torn, quits, stops>>

-----------------------------------------------------------------------------
Probe(t, c)     == [t |-> t, kind |-> "probe", no |-> Packets[c], of |-> c]
Data(t, c, n)   == [t |-> t, kind |-> "data", no |-> n, of |-> c]
Exit(t)         == [t |-> t, kind |-> "exit", no |-> 0, of |-> None]
Answer(t, k, n) == [t |-> t, kind |-> k, no |-> n, of |-> None]
Garbled(p)      == [p EXCEPT !.kind = "bad"]

Whole(c) == [n \in 1 .. Packets[c] |-> <<c, n - 1>>]

\* What a queue can be after p was sent.
After(q, p) ==
    {Append(q, p)} \cup (IF faults < MaxFaults THEN {q, Append(q, Garbled(p))} ELSE {})

Send(p) ==
    /\ toServer' \in After(toServer, p)
    /\ faults' = IF toServer' = Append(toServer, p) THEN faults ELSE faults + 1

\* The server answers the sender of p; a client process that has ended hears nothing.
Reply(p, kind, n) ==
    IF p.t < since
      THEN UNCHANGED <<toClient, faults>>
      ELSE LET answer == Answer(p.t, kind, n)
           IN  /\ toClient' \in After(toClient, answer)
               /\ faults' = IF toClient' = Append(toClient, answer) THEN faults ELSE faults + 1

\* Timely: by the time a limit passes nothing is under way any more.
LimitPasses == Timely => toServer = <<>> /\ toClient = <<>>

Init ==
    /\ pc = "idle" /\ i = 0 /\ sending = None /\ num = 0 /\ since = 1
    /\ toServer = <<>> /\ toClient = <<>>
    /\ spc = "main" /\ si = 0 /\ total = 0 /\ sess = 0
    /\ stream = <<>> /\ disk = None /\ leaked = <<>>
    /\ kept = None /\ torn = 0
    /\ faults = 0 /\ quits = 0 /\ stops = 0

-----------------------------------------------------------------------------
(* The client.                                                             *)

\* The user types put.  The loop that collects extra packets ends with the
\* first packet it gets, or with the time limit; then the probe goes out.
StartPut(c) ==
    /\ pc = "idle" /\ num < MaxPuts
    /\ IF toClient # <<>> THEN toClient' = Tail(toClient)
                          ELSE LimitPasses /\ toClient' = toClient
    /\ pc' = "probe" /\ i' = 0 /\ sending' = c /\ num' = num + 1
    /\ kept' = IF Packets[c] = 0 THEN kept ELSE None
    /\ Send(Probe(num + 1, c))
    /\ UNCHANGED <<since, server, torn, quits, stops>>

\* Packet n is next, or the file is through and send_file returns.
GoOn(n) ==
    IF n < Packets[sending]
      THEN /\ pc' = "data" /\ i' = n
           /\ Send(Data(num, sending, n))
           /\ UNCHANGED <<sending, kept>>
      ELSE /\ pc' = "idle" /\ i' = 0 /\ sending' = None
           /\ kept' = IF Packets[sending] = 0 \/ torn = num THEN kept ELSE sending
           /\ UNCHANGED <<toServer, faults>>

Heard == Head(toClient)
Hears(kinds) ==
    /\ toClient # <<>> /\ Heard.kind \in kinds
    /\ toClient' = Tail(toClient)
    /\ UNCHANGED <<num, since, server, torn, quits, stops>>

ProbeAnswered == pc = "probe" /\ Hears({"probe"}) /\ GoOn(0)

\* mutant: the number of the ACK is not compared.
RightAckAny == pc \in {"data", "catchup"} /\ Hears({"ack"}) /\ GoOn(i + 1)

RightAck == pc \in {"data", "catchup"} /\ Hears({"ack"}) /\ Heard.no = i /\ GoOn(i + 1)

Current == IF pc = "probe" THEN Probe(num, sending) ELSE Data(num, sending, i)

\* recv_packet returns -1 or -2 to send_then_confirm_ack, which sends again.
WrongFlag ==
    /\ \/ pc = "probe" /\ Hears({"ack", "bad"})
       \/ pc = "data" /\ Hears({"probe", "bad"})
    /\ Send(Current)
    /\ UNCHANGED <<pc, i, sending, kept>>

\* An ACK of another packet: send_file goes on receiving without sending.
WrongAck ==
    /\ \/ pc = "data" /\ Hears({"ack"}) /\ Heard.no # i
       \/ pc = "catchup" /\ Hears({"probe", "ack", "bad"}) /\ (Heard.kind = "ack" => Heard.no # i)
    /\ pc' = "catchup"
    /\ UNCHANGED <<i, sending, toServer, faults, kept>>

Timeout ==
    /\ pc # "idle" /\ LimitPasses
    /\ Len(toServer) + Len(toClient) < MaxFlight
    /\ pc' = IF pc = "catchup" THEN "data" ELSE pc
    /\ Send(Current)
    /\ UNCHANGED <<i, sending, num, since, toClient, server, kept, torn, quits, stops>>

\* The user interrupts a put and starts the client again: another port.
Quit ==
    /\ pc # "idle" /\ quits < MaxQuits
    /\ quits' = quits + 1
    /\ pc' = "idle" /\ i' = 0 /\ sending' = None
    /\ since' = num + 1 /\ toClient' = <<>>
    /\ UNCHANGED <<num, toServer, server, kept, torn, faults, stops>>

\* The exit command tells the server to end and ends the client; another is started.
SendExit ==
    /\ pc = "idle" /\ stops < MaxStops
    /\ stops' = stops + 1
    /\ Send(Exit(num))
    /\ since' = num + 1 /\ toClient' = <<>>
    /\ UNCHANGED <<pc, i, sending, num, server, kept, torn, quits>>

-----------------------------------------------------------------------------
(* The server.                                                             *)

Got == Head(toServer)
Gets(kinds) ==
    /\ toServer # <<>> /\ Got.kind \in kinds
    /\ toServer' = Tail(toServer)
    /\ UNCHANGED <<client, kept, torn, quits, stops>>

\* mutant: no check for a file of no packets.
AcceptProbeOfNothing ==
    /\ spc = "main" /\ Gets({"probe"})
    /\ Reply(Got, "probe", 0)
    /\ spc' = "recv" /\ si' = 0 /\ total' = Got.no /\ sess' = Got.t
    /\ stream' = <<>> /\ disk' = <<>> /\ leaked' = leaked

\* mutant: the file is opened to append.
AcceptProbeAppending ==
    /\ spc = "main" /\ Gets({"probe"})
    /\ Reply(Got, "probe", 0)
    /\ IF Got.no = 0
         THEN UNCHANGED server
         ELSE /\ spc' = "recv" /\ si' = 0 /\ total' = Got.no /\ sess' = Got.t
              /\ stream' = IF disk = None THEN <<>> ELSE disk
              /\ disk' = stream' /\ leaked' = leaked

\* A probe in the main loop is answered; fopen "wb+" truncates the file.
AcceptProbe ==
    /\ spc = "main" /\ Gets({"probe"})
    /\ Reply(Got, "probe", 0)
    /\ IF Got.no = 0
         THEN UNCHANGED server
         ELSE /\ spc' = "recv" /\ si' = 0 /\ total' = Got.no /\ sess' = Got.t
              /\ stream' = <<>> /\ disk' = <<>> /\ leaked' = leaked

\* mutant: the loop waits for one packet too many.
StoreDataLonger ==
    /\ spc = "recv" /\ Gets({"data"}) /\ Got.no >= si
    /\ stream' = Append(stream, <<Got.of, Got.no>>)
    /\ Reply(Got, "ack", si)
    /\ si' = si + 1
    /\ spc' = IF si = total THEN "closing" ELSE "recv"
    /\ UNCHANGED <<total, sess, disk, leaked>>

\* A data packet that is not older than expected, even a later one, is written
\* and acknowledged as packet si.
StoreData ==
    /\ spc = "recv" /\ Gets({"data"}) /\ Got.no >= si
    /\ stream' = Append(stream, <<Got.of, Got.no>>)
    /\ Reply(Got, "ack", si)
    /\ si' = si + 1
    /\ spc' = IF si + 1 = total THEN "closing" ELSE "recv"
    /\ UNCHANGED <<total, sess, disk, leaked>>

\* mutant: an old packet is dropped without a word.
AckAgainNever ==
    /\ spc = "recv" /\ Gets({"data"}) /\ Got.no < si
    /\ UNCHANGED <<server, toClient, faults>>

AckAgain ==
    /\ spc = "recv" /\ Gets({"data"}) /\ Got.no < si
    /\ Reply(Got, "ack", Got.no)
    /\ UNCHANGED server

\* fclose, after the last ACK was sent.
Close ==
    /\ spc = "closing"
    /\ spc' = "main" /\ disk' = stream
    /\ UNCHANGED <<si, total, sess, stream, leaked, client, network, kept, torn, quits, stops>>

\* How much of the stream may have reached the disk when nobody closes the FILE.
Flushed == {m \in 0 .. Len(stream) : Len(stream) <= m + Buffered}

\* Any other packet aborts recv_file, which returns without fclose.  The packet is gone.
AbortReceive ==
    /\ spc = "recv" /\ Gets({"probe", "exit"})
    /\ spc' = "main"
    /\ \E m \in Flushed :
         /\ disk' = SubSeq(stream, 1, m)
         /\ leaked' = IF m = Len(stream) THEN leaked
                      ELSE <<[at |-> m, data |-> SubSeq(stream, m + 1, Len(stream))]>> \o leaked
    /\ UNCHANGED <<si, total, sess, stream, toClient, faults>>

\* Data in the main loop, garbled packets, and what arrives when no server runs.
Ignore ==
    /\ \/ spc \in {"main", "recv"} /\ Gets({"bad"})
       \/ spc = "main" /\ Gets({"data"})
       \/ spc = "down" /\ Gets({"probe", "data", "exit", "bad"})
    /\ UNCHANGED <<server, toClient, faults>>

ObeyExit ==
    /\ spc = "main" /\ Gets({"exit"})
    /\ spc' = "exiting"
    /\ UNCHANGED <<si, total, sess, stream, disk, leaked, toClient, faults>>

\* The bytes in a FILE's buffer go where that FILE had got to.
Overwrite(f, w) ==
    LET end == w.at + Len(w.data)
    IN  [n \in 1 .. (IF Len(f) > end THEN Len(f) ELSE end) |->
            IF n > w.at /\ n <= end THEN w.data[n - w.at]
            ELSE IF n <= Len(f) THEN f[n] ELSE <<None, 0>>]

\* exit() writes out every FILE that is still open, and the process ends.
FlushAtExit ==
    /\ spc = "exiting"
    /\ IF leaked = <<>>
         THEN spc' = "down" /\ UNCHANGED <<disk, leaked, kept>>
         ELSE /\ disk' = Overwrite(disk, Head(leaked))
              /\ leaked' = Tail(leaked)
              /\ kept' = None
              /\ spc' = spc
    /\ UNCHANGED <<si, total, sess, stream, client, network, torn, quits, stops>>

\* The server is killed: what its buffers hold is lost.
Kill ==
    /\ spc # "down" /\ stops < MaxStops
    /\ stops' = stops + 1
    /\ spc' = "down" /\ leaked' = <<>>
    /\ IF spc \in {"recv", "closing"}
         THEN /\ \E m \in Flushed : disk' = SubSeq(stream, 1, m)
              /\ torn' = sess
              /\ kept' = None
         ELSE UNCHANGED <<disk, torn, kept>>
    /\ UNCHANGED <<si, total, sess, stream, client, network, quits>>

StartServer ==
    /\ spc = "down"
    /\ spc' = "main"
    /\ UNCHANGED <<si, total, sess, stream, disk, leaked, client, network, kept, torn, quits, stops>>

-----------------------------------------------------------------------------
ClientHears == ProbeAnswered \/ RightAck \/ WrongFlag \/ WrongAck

ServerStep ==
    AcceptProbe \/ StoreData \/ AckAgain \/ Close \/ AbortReceive \/ Ignore \/ ObeyExit \/ FlushAtExit

User == (\E c \in Contents : StartPut(c)) \/ Quit \/ SendExit

Next == ClientHears \/ Timeout \/ ServerStep \/ User \/ Kill \/ StartServer

\* Both programs poll their sockets for ever and the network delivers what it
\* has not lost.  Nobody has to type a command or start a server.
Fairness == WF_vars(ClientHears) /\ WF_vars(Timeout) /\ WF_vars(ServerStep)

Spec == Init /\ [][Next]_vars /\ Fairness

-----------------------------------------------------------------------------
(* Properties.                                                             *)

Chunks == (Contents \cup {None}) \X Nat
ClientPackets == [t : Nat, kind : {"probe", "data", "exit", "bad"}, no : Nat, of : Contents \cup {None}]
Answers == [t : Nat, kind : {"probe", "ack", "bad"}, no : Nat, of : {None}]

\* The shape of the state.
TypeOK ==
    /\ pc \in {"idle", "probe", "data", "catchup"}
    /\ i \in Nat /\ num \in Nat /\ since \in Nat
    /\ sending \in Contents \cup {None}
    /\ sending = None <=> pc = "idle"
    /\ toServer \in Seq(ClientPackets) /\ toClient \in Seq(Answers)
    /\ spc \in {"main", "recv", "closing", "exiting", "down"}
    /\ si \in Nat /\ total \in Nat /\ sess \in Nat
    /\ spc = "recv" => si < total
    /\ stream \in Seq(Chunks)
    /\ disk \in Seq(Chunks) \cup {None}
    /\ leaked \in Seq([at : Nat, data : Seq(Chunks)])
    /\ kept \in Contents \cup {None}
    /\ {torn, faults, quits, stops} \subseteq Nat

\* The file a reader of the server's directory gets once the server is done with it.
file == IF spc = "closing" THEN stream ELSE disk

\* When put returns, exactly the file is on the server, whatever was lost, garbled or
\* sent twice and whatever the server still held of earlier puts; and it stays until
\* the next put.  (recv_file accepts later packets than the one it expects, send_file
\* counts any ACK with the right number: neither may do harm.)
DoneMeansStored == kept # None => file = Whole(kept)

\* The client never counts a packet as acknowledged that its own session has not
\* written at its place, though neither ACKs nor data name the session.
NeverAhead ==
    pc \in {"data", "catchup"} /\ i > 0 /\ torn # num =>
        /\ sess = num
        /\ \/ spc = "recv" /\ i <= si /\ stream = SubSeq(Whole(sending), 1, si)
           \/ spc # "recv" /\ file = Whole(sending)

\* Data is left in the buffer of an open FILE only by a put that was given up.
LeftoversNeedQuit == leaked # <<>> => quits > 0

\* The put command keeps the promise of FileTransfer.
Promise == INSTANCE FileTransfer WITH disturbed <- quits > 0 \/ torn > 0
KeepsPromise == Promise!Spec

\* A put that is not interrupted gets its file onto the server, if losses end.
PutIsStored ==
    \A c \in Contents : Packets[c] > 0 =>
        (sending = c ~> sending # c \/ file = Whole(c))

=============================================================================
