------------------------------ MODULE UftpGet ------------------------------
(***************************************************************************)
(* The commands of Project 1 that bring a file to the client: get, and ls   *)
(* and delete, whose output comes as a file.  The client asks, the server   *)
(* acknowledges, announces the file with a probe and sends it, packet by    *)
(* packet, as the client does in put.                                      *)
(*                                                                         *)
(* The request, its acknowledgement (here), the probe and the client's      *)
(* confirmation of it all carry the same flag, and both sides look at       *)
(* nothing but the flag: each takes one for another.                       *)
(*                                                                         *)
(* The network is a queue in each direction that loses or garbles a packet  *)
(* when it is sent.  A client that is started again has another port, the   *)
(* stamp t of a packet; the server answers whoever it heard last.          *)
(***************************************************************************)
EXTENDS Integers, Sequences

CONSTANTS
    Gets, Deletes,  \* the names that are asked for, and that are deleted
    Packets,        \* the server's files, and the number of packets of each
    Listing,        \* that of the output of ls
    ResponseFile, Ls, None,
    MaxCommands, MaxFaults, MaxEarly, MaxStops, MaxFlight    \* bounds of the exploration

ASSUME GetAssumption ==
    /\ DOMAIN Packets \subseteq Gets \cup Deletes
    /\ \A f \in DOMAIN Packets : Packets[f] \in Nat
    /\ {ResponseFile, Ls, None} \cap (Gets \cup Deletes) = {}
    /\ ResponseFile # None /\ Ls # None
    /\ {Listing, MaxCommands, MaxFaults, MaxEarly, MaxStops, MaxFlight} \subseteq Nat

\* Flag 0x22 and flag 0x32.
Commands == [flag : {"get"}, what : Gets] \cup [flag : {"cmd"}, what : Deletes \cup {Ls}]

VARIABLES
    pc,         \* client: "idle", "ask" for the acknowledgement, "await" the probe, "recv" in recv_file
    cmd,        \* the command it runs, or ran last
    ci, total, name,    \* i, packets_total and filename of its recv_file
    stream,     \* what that wrote
    port,
    toServer, toClient,
    spc,        \* server: "main", "open" before its probe, "probe", "data", "catchup"
    si, sname, slen,    \* i, filename and packets_total of its send_file
    sflag, filename,    \* the branch of main it is in; the filename of the get branch, never cleared
    disk,       \* the files it has
    peer,       \* in_info
    \* History:
    ran,        \* the server ran the client's command
    ended,      \* how the client's command ended
    early,      \* time limits that passed with a packet under way
    hurt,       \* a packet was lost that is not sent again, or a program stopped
    stray,      \* the server was killed with packets of it still on their way
    commands, faults, stops

receiving == <<ci, total, name, stream>>
client == <<pc, cmd, receiving, port>>
sending == <<si, sname, slen, sflag, filename>>
server == <<spc, sending, disk, peer>>
results == <<ran, ended>>
vars == <<client, server, toServer, toClient, results, early, hurt, stray, commands, faults, stops>>

-----------------------------------------------------------------------------
(* The network.                                                            *)

Packet(t, kind, flag, no, of) == [t |-> t, kind |-> kind, flag |-> flag, no |-> no, of |-> of]
Garbled(p) == [p EXCEPT !.kind = "bad", !.flag = "bad"]

\* What is not sent again, or in vain: the packets of the opening but the request,
\* and the acknowledgement of the last packet.
Vital(p) == p.kind \in {"here", "probe", "confirm"} \/ (p.kind = "ack" /\ p.no = total - 1)

\* p is put on queue q, which becomes q2, or is lost or garbled.
Sent(p, q, q2) ==
    \/ q2 = Append(q, p) /\ UNCHANGED <<faults, hurt>>
    \/ /\ faults < MaxFaults
       /\ faults' = faults + 1
       /\ hurt' = (hurt \/ Vital(p))
       /\ q2 \in {q, Append(q, Garbled(p))}

Ask(kind, flag, no, of) == Sent(Packet(port, kind, flag, no, of), toServer, toServer')

\* The server answers whoever it heard last; a client that has ended hears nothing.
Answer(kind, flag, no, of) ==
    IF peer' < port THEN UNCHANGED <<toClient, faults, hurt>>
    ELSE Sent(Packet(peer', kind, flag, no, of), toClient, toClient')

\* A time limit passes: after all packets have arrived and the server has sent its
\* probe, or early.
Quiet == toServer = <<>> /\ toClient = <<>> /\ spc # "open"
LimitPasses ==
    \/ Quiet /\ UNCHANGED early
    \/ /\ ~Quiet
       /\ Len(toServer) + Len(toClient) < MaxFlight
       /\ early < MaxEarly
       /\ early' = early + 1

Init ==
    /\ pc = "idle" /\ cmd = None /\ port = 1
    /\ ci = 0 /\ total = 0 /\ name = None /\ stream = <<>>
    /\ toServer = <<>> /\ toClient = <<>>
    /\ spc = "main" /\ si = 0 /\ sname = None /\ slen = 0 /\ sflag = "get" /\ filename = None
    /\ disk = DOMAIN Packets /\ peer = 0
    /\ ran = FALSE /\ ended = "no"
    /\ early = 0 /\ hurt = FALSE /\ stray = FALSE
    /\ commands = 0 /\ faults = 0 /\ stops = 0

-----------------------------------------------------------------------------
(* The client.                                                             *)

Request(c) == Ask("request", c.flag, 0, c.what)

\* The user types a command.  The loop that collects extra packets ends with the
\* first it gets, or with the time limit; then the request goes out.
Start(c) ==
    /\ pc = "idle" /\ commands < MaxCommands
    /\ commands' = commands + 1
    /\ \/ toClient # <<>> /\ toClient' = Tail(toClient) /\ UNCHANGED early
       \/ toClient = <<>> /\ LimitPasses /\ UNCHANGED toClient
    /\ pc' = "ask" /\ cmd' = c
    /\ ran' = FALSE /\ ended' = "no"
    /\ Request(c)
    /\ UNCHANGED <<receiving, port, server, stray, stops>>

Heard == Head(toClient)
Hears ==
    /\ toClient # <<>>
    /\ toClient' = Tail(toClient)
    /\ UNCHANGED <<cmd, port, server, early, stray, commands, stops>>

\* Any packet of the command's flag is the acknowledgement.
Acknowledged ==
    /\ pc = "ask" /\ Hears
    /\ Heard.flag = cmd.flag
    /\ pc' = "await"
    /\ UNCHANGED <<receiving, toServer, results, hurt, faults>>

\* Another packet, or a garbled one: the request is sent again.
AskAgain ==
    /\ pc \in {"ask", "await"} /\ Hears
    /\ Heard.flag # cmd.flag
    /\ pc' = "ask"
    /\ Request(cmd)
    /\ UNCHANGED <<receiving, results>>

Timeout ==
    /\ pc \in {"ask", "await"}
    /\ LimitPasses
    /\ pc' = "ask"
    /\ Request(cmd)
    /\ UNCHANGED <<cmd, receiving, port, toClient, server, results, stray, commands, stops>>

\* The packet that is taken for the probe is confirmed, and the file is opened: a
\* get of nothing receives none, a command's response of no packets is complete.
ProbeIs(begins) ==
    /\ pc = "await" /\ Hears
    /\ Heard.flag = cmd.flag
    /\ begins <=> Heard.no > 0
    /\ Ask("confirm", cmd.flag, 0, None)

Begin ==
    /\ ProbeIs(TRUE)
    /\ pc' = "recv"
    /\ ci' = 0 /\ total' = Heard.no /\ name' = Heard.of /\ stream' = <<>>
    /\ UNCHANGED results

NothingComes ==
    /\ ProbeIs(FALSE)
    /\ pc' = "idle"
    /\ ended' = "nothing"
    /\ total' = 0
    /\ UNCHANGED <<ci, name, stream, ran>>

\* Without the name of the response file the client opens none, and reads from it.
\* (One that an aborted command left is read by NothingComes.)
Crash ==
    /\ pc = "await" /\ toClient # <<>>
    /\ cmd.flag = "cmd" /\ Heard.flag = "cmd"
    /\ Heard.of = None
    /\ Ask("confirm", "cmd", 0, None)
    /\ pc' = "idle" /\ port' = port + 1 /\ toClient' = <<>>
    /\ ended' = "aborted"
    /\ UNCHANGED <<cmd, receiving, server, ran, early, stray, commands, stops>>

\* mutant: a packet is written whatever its number.
StoreAny ==
    /\ pc = "recv" /\ Hears
    /\ Heard.kind = "data"
    /\ stream' = Append(stream, <<Heard.of, Heard.no>>)
    /\ ci' = ci + 1
    /\ Ask("ack", "ack", ci, None)
    /\ pc' = IF ci + 1 = total THEN "idle" ELSE "recv"
    /\ ended' = IF ci + 1 = total THEN "got" ELSE ended
    /\ UNCHANGED <<total, name, ran>>

\* mutant: the loop of recv_file waits for one packet too many.
StoreLonger ==
    /\ pc = "recv" /\ Hears
    /\ Heard.kind = "data" /\ Heard.no >= ci
    /\ stream' = Append(stream, <<Heard.of, Heard.no>>)
    /\ ci' = ci + 1
    /\ Ask("ack", "ack", ci, None)
    /\ pc' = IF ci = total THEN "idle" ELSE "recv"
    /\ ended' = IF ci = total THEN "got" ELSE ended
    /\ UNCHANGED <<total, name, ran>>

\* A data packet that is not older than expected is written, and acknowledged as ci.
Store ==
    /\ pc = "recv" /\ Hears
    /\ Heard.kind = "data" /\ Heard.no >= ci
    /\ stream' = Append(stream, <<Heard.of, Heard.no>>)
    /\ ci' = ci + 1
    /\ Ask("ack", "ack", ci, None)
    /\ pc' = IF ci + 1 = total THEN "idle" ELSE "recv"
    /\ ended' = IF ci + 1 = total THEN "got" ELSE ended
    /\ UNCHANGED <<total, name, ran>>

\* mutant: an old packet is dropped without a word.
AckAgainNever ==
    /\ pc = "recv" /\ Hears
    /\ Heard.kind = "data" /\ Heard.no < ci
    /\ UNCHANGED <<pc, receiving, toServer, results, hurt, faults>>

AckAgain ==
    /\ pc = "recv" /\ Hears
    /\ Heard.kind = "data" /\ Heard.no < ci
    /\ Ask("ack", "ack", Heard.no, None)
    /\ UNCHANGED <<pc, receiving, results>>

\* Another acknowledgement or probe ends recv_file and the command.
Abort ==
    /\ pc = "recv" /\ Hears
    /\ Heard.kind \in {"here", "probe"}
    /\ pc' = "idle"
    /\ ended' = "aborted"
    /\ UNCHANGED <<receiving, toServer, ran, hurt, faults>>

\* recv_file waits on after a garbled packet, without a limit.
Drop ==
    /\ pc = "recv" /\ Hears
    /\ Heard.kind = "bad"
    /\ UNCHANGED <<pc, receiving, toServer, results, hurt, faults>>

\* The user interrupts a command, and starts the client again.
Quit ==
    /\ pc # "idle" /\ stops < MaxStops
    /\ stops' = stops + 1
    /\ pc' = "idle" /\ port' = port + 1 /\ toClient' = <<>>
    /\ ended' = "aborted" /\ hurt' = TRUE
    /\ UNCHANGED <<cmd, receiving, server, toServer, ran, early, stray, commands, faults>>

-----------------------------------------------------------------------------
(* The server.                                                             *)

Got == Head(toServer)
Receives ==
    /\ toServer # <<>>
    /\ toServer' = Tail(toServer)
    /\ peer' = Got.t
    /\ UNCHANGED <<client, ended, early, stray, commands, stops>>

\* A packet of flag 0x22 in the main loop.  A confirmation that comes late has no
\* payload, and the file is the one that was asked for before.
AcceptGet ==
    /\ spc = "main" /\ Receives
    /\ Got.flag = "get"
    /\ filename' = IF Got.of = None THEN filename ELSE Got.of
    /\ sflag' = "get" /\ si' = 0 /\ sname' = filename'
    /\ slen' = IF filename' \in disk THEN Packets[filename'] ELSE 0
    /\ Answer("here", "get", 0, None)
    /\ spc' = "open"
    /\ UNCHANGED <<disk, ran>>

\* What rm leaves, and the length of the response.
run_cmd(what) ==
    /\ disk' = disk \ {what}
    /\ slen' = IF what = Ls THEN Listing ELSE 0

\* Flag 0x32: run_cmd, every time that the packet comes.  (filename may share its
\* place on the stack with cmd_in.)
AcceptCmd ==
    /\ spc = "main" /\ Receives
    /\ Got.flag = "cmd"
    /\ run_cmd(Got.of)
    /\ ran' = (ran \/ Got.of = cmd.what)
    /\ sflag' = "cmd" /\ si' = 0 /\ sname' = ResponseFile
    /\ Answer("here", "cmd", 0, None)
    /\ spc' = "open"
    /\ filename' \in {filename, None}

Ignore ==
    /\ spc = "main" /\ Receives
    /\ Got.flag \notin {"get", "cmd"}
    /\ UNCHANGED <<spc, sending, disk, toClient, ran, hurt, faults>>

\* The probe names the file if there is one.
Probe == Answer("probe", sflag, slen, IF sname \in disk \cup {ResponseFile} THEN sname ELSE None)
Data(n) == Answer("data", "data", n, sname)

Announce ==
    /\ spc = "open"
    /\ peer' = peer
    /\ Probe
    /\ spc' = "probe"
    /\ UNCHANGED <<sending, disk, client, toServer, results, early, stray, commands, stops>>

\* Packet n is next, or send_file returns.
GoOn(n) ==
    \/ /\ n < slen
       /\ spc' = "data" /\ si' = n
       /\ Data(n)
    \/ /\ n >= slen
       /\ spc' = "main" /\ si' = 0
       /\ UNCHANGED <<toClient, hurt, faults>>

\* Any packet of the flag confirms the probe.
Confirmed ==
    /\ spc = "probe" /\ Receives
    /\ Got.flag = sflag
    /\ GoOn(0)
    /\ UNCHANGED <<sname, slen, sflag, filename, disk, ran>>

RightAck ==
    /\ spc \in {"data", "catchup"} /\ Receives
    /\ Got.kind = "ack" /\ Got.no = si
    /\ GoOn(si + 1)
    /\ UNCHANGED <<sname, slen, sflag, filename, disk, ran>>

Again == IF spc = "probe" THEN Probe ELSE Data(si)

WrongFlag ==
    /\ Receives
    /\ \/ spc = "probe" /\ Got.flag # sflag
       \/ spc = "data" /\ Got.kind # "ack"
    /\ Again
    /\ UNCHANGED <<spc, sending, disk, ran>>

\* After an ACK of another packet send_file goes on receiving without sending.
WrongAck ==
    /\ Receives
    /\ \/ spc = "data" /\ Got.kind = "ack" /\ Got.no # si
       \/ spc = "catchup" /\ ~(Got.kind = "ack" /\ Got.no = si)
    /\ spc' = "catchup"
    /\ UNCHANGED <<sending, disk, toClient, ran, hurt, faults>>

ServerTimeout ==
    /\ spc \in {"probe", "data", "catchup"}
    /\ LimitPasses
    /\ peer' = peer
    /\ Again
    /\ spc' = IF spc = "catchup" THEN "data" ELSE spc
    /\ UNCHANGED <<sending, disk, client, toServer, results, stray, commands, stops>>

\* The server is killed and started again.
Restart ==
    /\ stops < MaxStops
    /\ stops' = stops + 1
    /\ spc' = "main" /\ filename' = None /\ toServer' = <<>>
    /\ hurt' = TRUE
    /\ stray' = (stray \/ toClient # <<>>)
    /\ UNCHANGED <<si, sname, slen, sflag, disk, peer, client, toClient, results, early, commands, faults>>

-----------------------------------------------------------------------------
ClientHears == Acknowledged \/ AskAgain \/ Begin \/ NothingComes \/ Crash \/ Store \/ AckAgain \/ Abort \/ Drop

ServerStep ==
    AcceptGet \/ AcceptCmd \/ Ignore \/ Announce \/ Confirmed \/ RightAck \/ WrongFlag \/ WrongAck

Next ==
    \/ ClientHears \/ ServerStep \/ Timeout \/ ServerTimeout
    \/ \E c \in Commands : Start(c)
    \/ Quit \/ Restart

\* Both programs poll for ever, and the network delivers what it has not lost.
Fairness == WF_vars(ClientHears) /\ WF_vars(ServerStep) /\ WF_vars(Timeout) /\ WF_vars(ServerTimeout)

Spec == Init /\ [][Next]_vars /\ Fairness

-----------------------------------------------------------------------------
Names == Gets \cup Deletes \cup {ResponseFile}
Length(f) == IF f = ResponseFile THEN Listing ELSE Packets[f]
Whole(f) == [n \in 1 .. Length(f) |-> <<f, n - 1>>]

Wire ==
    [t : Nat, kind : {"request", "here", "probe", "confirm", "data", "ack", "bad"},
     flag : {"get", "cmd", "data", "ack", "bad"}, no : Nat, of : Names \cup {Ls, None}]

TypeOK ==
    /\ pc \in {"idle", "ask", "await", "recv"}
    /\ cmd \in Commands \cup {None}
    /\ {ci, total, si, slen, port, peer} \subseteq Nat
    /\ pc = "recv" => ci < total
    /\ {name, sname, filename} \subseteq Names \cup {None}
    /\ stream \in Seq(Names \X Nat)
    /\ {toServer, toClient} \subseteq Seq(Wire)
    /\ spc \in {"main", "open", "probe", "data", "catchup"}
    /\ sflag \in {"get", "cmd"}
    /\ disk \subseteq DOMAIN Packets
    /\ {ran, hurt, stray} \subseteq BOOLEAN
    /\ ended \in {"no", "got", "nothing", "aborted"}
    /\ {early, commands, faults, stops} \subseteq Nat

OneFile ==
    ~stray =>
        /\ pc = "recv" => stream = SubSeq(Whole(name), 1, ci)
        /\ ended = "got" => stream = Whole(name)

HasFile(f) == f \in disk /\ Packets[f] > 0
Asked ==
    early = 0 /\ ~hurt /\ pc = "idle" /\ cmd # None =>
        IF cmd.flag = "get"
        THEN IF HasFile(cmd.what) THEN ended = "got" /\ name = cmd.what ELSE ended = "nothing"
        ELSE ran /\ ended \in {"got", "nothing"} /\ (ended = "got" => name = ResponseFile)

\* What recv_file has written is the start of one file of the server, and when it
\* returns all of it, whatever is lost, garbled, late or sent twice (recv_file takes any
\* later packet for the next), unless the server was killed with packets of it under way:
\* no packet says which transfer it is of, so those of the old server open the new one's.
\* It is the file that was asked for, and the server has run the command, as long as no
\* limit passes early, nothing vital is lost and no program is stopped: both sides tell
\* the packets of the opening by their flag alone.
DeliversTheFile == OneFile /\ Asked

\* A command returns, whatever requests, data and acknowledgements are lost, as long as
\* no limit passes early, nothing vital is lost and no program is stopped.
CommandsReturn == [](early = 0 /\ ~hurt) => (pc # "idle" ~> pc = "idle")

=============================================================================
