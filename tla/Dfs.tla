-------------------------------- MODULE Dfs --------------------------------
(***************************************************************************)
(* The distributed file system of Project 4: clients (dfc) that put, list  *)
(* and get ONE file name, servers (dfs) with a thread per connection, and  *)
(* the disks.  Contents are the versions of the file that get put.         *)
(*                                                                         *)
(* A part on a disk is a sequence of chunks, each named after the version  *)
(* its bytes belong to; <<>> is a file that fopen(.., "wb+") has just      *)
(* truncated, Hole is a chunk no writer has filled yet, and None says that *)
(* the file does not exist.                                                *)
(*                                                                         *)
(* A put does not wait for the servers: the client connects, writes and    *)
(* closes, and the thread of each server works through what it was sent in *)
(* its own time.  Threads of different puts interleave freely.             *)
(***************************************************************************)
EXTENDS DfsPlacement, Sequences, FiniteSets

CONSTANTS
    Clients,     \* the running dfc programs
    Contents,    \* the versions of the file
    Offset,      \* the MD5 of a version modulo N
    Size,        \* chunks in one part of a version
    None,        \* "no such file", "no version"
    Hole,        \* a chunk that no write has filled
    Patient,     \* users wait for earlier puts to settle before a command
    MaxPuts, MaxQueries, MaxCrashes, MaxQuits   \* bounds of the exploration

ASSUME DfsAssumption ==
    /\ Offset \in [Contents -> Servers]
    /\ Size \in [Contents -> Nat]
    /\ Hole \notin Contents
    /\ None \notin Contents \cup Seq(Contents \cup {Hole})
    /\ Patient \in BOOLEAN
    /\ {MaxPuts, MaxQueries, MaxCrashes, MaxQuits} \subseteq Nat

VARIABLES
    up,        \* up[s]: server s runs
    disk,      \* disk[s][p]: the file <dir of s>/<name>/<p>
    threads,   \* server threads that are storing a part
    pc,        \* what each client is doing
    k,         \* its loop counter
    of,        \* the version it puts
    num,       \* the number of its put, which tells equal threads apart
    found,     \* the <<server, part>> pairs its listing named and it has not fetched yet
    from,      \* the piece it is receiving: server, part, the file as it was when the
               \* server opened it and announced its size, and whether the server died
    tmp,       \* its get_tmp directory
    out,       \* what its last list or get came to
    \* History: nothing below is in the program, and no guard but the bounds reads it.
    puts, queries, crashes, quits,   \* how many there have been
    past,      \* the versions whose put was ever started
    settled,   \* the version whose put started last, unless a failure or an overlapping
               \* put of another version has disturbed it
    clean,     \* clean[c]: the version that was settled when c's query began, with an
               \* empty get_tmp and no put since
    missed     \* missed[c]: the servers that c's query could not reach

server == <<up, disk, threads>>
client == <<pc, k, of, num, found, from, tmp, out>>
history == <<puts, queries, crashes, quits, past, settled, clean, missed>>
vars == <<server, client, history>>

-----------------------------------------------------------------------------
Chunks == Contents \cup {Hole}
Whole(c) == [i \in 1 .. Size[c] |-> c]
Prefix(f, n) == SubSeq(f, 1, n)

NoTmp == [s \in Servers |-> [p \in Parts |-> None]]
NoPiece == [srv |-> 0, part |-> 0, file |-> <<>>, gone |-> FALSE]
NoOut == [kind |-> "none", data |-> <<>>]

\* fwrite of one chunk at a writer's own position: a gap left by a later
\* truncation reads as a hole.
WriteAt(f, i, c) ==
    [j \in 1 .. (IF Len(f) > i THEN Len(f) ELSE i) |->
        IF j = i THEN c ELSE IF j <= Len(f) THEN f[j] ELSE Hole]

\* A thread whose client stopped sending: read returns 0 for ever, and the
\* loop of write_put_data neither leaves nor writes.
Stuck(t) == t.pos = t.sent /\ t.sent < Size[t.of]

Quiet == (\A t \in threads : Stuck(t)) /\ (\A c \in Clients : pc[c] # "put")

Init ==
    /\ up = [s \in Servers |-> TRUE]
    /\ disk = [s \in Servers |-> [p \in Parts |-> None]]
    /\ threads = {}
    /\ pc = [c \in Clients |-> "idle"]
    /\ k = [c \in Clients |-> 0]
    /\ of = [c \in Clients |-> None]
    /\ num = [c \in Clients |-> 0]
    /\ found = [c \in Clients |-> {}]
    /\ from = [c \in Clients |-> NoPiece]
    /\ tmp = [c \in Clients |-> NoTmp]
    /\ out = [c \in Clients |-> NoOut]
    /\ puts = 0 /\ queries = 0 /\ crashes = 0 /\ quits = 0
    /\ past = {}
    /\ settled = None
    /\ clean = [c \in Clients |-> None]
    /\ missed = [c \in Clients |-> {}]

-----------------------------------------------------------------------------
(* The client: put.                                                        *)

\* mutant: the rotation is left out of the server's number.
UploadUnrotated(c, n) ==
    [put |-> num[c], srv |-> ServerAt(0, k[c]), part |-> PartAt(k[c]),
     of |-> of[c], sent |-> n, pos |-> -1]

\* The thread a connection of client c's put starts on server s, once the
\* client has written n chunks of the part to it.
Upload(c, n) ==
    [put |-> num[c], srv |-> ServerAt(Offset[of[c]], k[c]), part |-> PartAt(k[c]),
     of |-> of[c], sent |-> n, pos |-> -1]

StartPut(c, v) ==
    /\ pc[c] = "idle" /\ puts < MaxPuts
    /\ Patient => Quiet
    /\ pc' = [pc EXCEPT ![c] = "put"]
    /\ k' = [k EXCEPT ![c] = 0]
    /\ of' = [of EXCEPT ![c] = v]
    /\ num' = [num EXCEPT ![c] = puts + 1]
    /\ puts' = puts + 1
    /\ past' = past \cup {v}
    /\ settled' = IF Quiet \/ settled = v THEN v ELSE None
    /\ clean' = [d \in Clients |-> None]
    /\ UNCHANGED <<server, found, from, tmp, out, queries, crashes, quits, missed>>

\* One call of send_part.  A server that refuses for a second is skipped
\* without a word: "We timed out, pretend everything is good".
SendPart(c) ==
    /\ pc[c] = "put"
    /\ LET s == ServerAt(Offset[of[c]], k[c])
       IN  /\ threads' = IF up[s] THEN threads \cup {Upload(c, Size[of[c]])} ELSE threads
           /\ settled' = IF up[s] THEN settled ELSE None
    /\ IF k[c] + 1 \in PutSteps
         THEN k' = [k EXCEPT ![c] = @ + 1] /\ pc' = pc
         ELSE k' = [k EXCEPT ![c] = 0] /\ pc' = [pc EXCEPT ![c] = "idle"]
    /\ UNCHANGED <<up, disk, of, num, found, from, tmp, out,
                   puts, queries, crashes, quits, past, clean, missed>>

-----------------------------------------------------------------------------
(* The server: the thread that stores a part (recv_file).                  *)

\* mutant: the loop asks for bytes_left < 0 before it stops.
AdvanceLate(t, i) ==
    (threads \ {t}) \cup (IF i > Size[t.of] THEN {} ELSE {[t EXCEPT !.pos = i]})

\* Thread t has got to position i; at the end of its part it closes the file.
Advance(t, i) ==
    (threads \ {t}) \cup (IF i = Size[t.of] THEN {} ELSE {[t EXCEPT !.pos = i]})

\* mutant: a directory that exists is an error, as mkdir reports it.
ThreadOpenStrict(t) ==
    /\ t.pos = -1
    /\ IF \E p \in Parts : disk[t.srv][p] # None
         THEN threads' = threads \ {t} /\ disk' = disk
         ELSE /\ disk' = [disk EXCEPT ![t.srv][t.part] = <<>>]
              /\ threads' = Advance(t, 0)
    /\ UNCHANGED <<up, client, history>>

\* mutant: the file is opened without truncation.
ThreadOpenKeeping(t) ==
    /\ t.pos = -1
    /\ disk' = [disk EXCEPT ![t.srv][t.part] = IF @ = None THEN <<>> ELSE @]
    /\ threads' = Advance(t, 0)
    /\ UNCHANGED <<up, client, history>>

\* mkdir, which accepts a directory that exists, and fopen "wb+", which truncates.
ThreadOpen(t) ==
    /\ t.pos = -1
    /\ disk' = [disk EXCEPT ![t.srv][t.part] = <<>>]
    /\ threads' = Advance(t, 0)
    /\ UNCHANGED <<up, client, history>>

ThreadWrite(t) ==
    /\ t.pos >= 0 /\ t.pos < t.sent
    /\ disk' = [disk EXCEPT ![t.srv][t.part] = WriteAt(@, t.pos + 1, t.of)]
    /\ threads' = Advance(t, t.pos + 1)
    /\ UNCHANGED <<up, client, history>>

ThreadStep == \E t \in threads : ThreadOpen(t) \/ ThreadWrite(t)

-----------------------------------------------------------------------------
(* The client: list and get.  Both ask every server in turn for what it    *)
(* has; get then fetches every copy that was listed and compiles the file  *)
(* from them.                                                              *)

StartQuery(c, cmd) ==
    /\ pc[c] = "idle" /\ queries < MaxQueries
    /\ Patient => Quiet
    /\ pc' = [pc EXCEPT ![c] = cmd]
    /\ k' = [k EXCEPT ![c] = 0]
    /\ found' = [found EXCEPT ![c] = {}]
    /\ queries' = queries + 1
    /\ clean' = [clean EXCEPT ![c] = IF Quiet /\ tmp[c] = NoTmp THEN settled ELSE None]
    /\ missed' = [missed EXCEPT ![c] = {}]
    /\ out' = [out EXCEPT ![c] = NoOut]
    /\ UNCHANGED <<server, of, num, from, tmp, puts, crashes, quits, past, settled>>

\* mutant: a server that cannot be reached ends the round.
AskUntilFailure(c) ==
    /\ pc[c] \in {"list", "get"} /\ k[c] < N
    /\ IF up[k[c]]
         THEN /\ found' = [found EXCEPT ![c] =
                              @ \cup {<<k[c], p>> : p \in {q \in Parts : disk[k[c]][q] # None}}]
              /\ missed' = missed
              /\ k' = [k EXCEPT ![c] = @ + 1]
         ELSE /\ missed' = [missed EXCEPT ![c] = @ \cup {k[c]}]
              /\ found' = found
              /\ k' = [k EXCEPT ![c] = N]
    /\ UNCHANGED <<server, pc, of, num, from, tmp, out,
                   puts, queries, crashes, quits, past, settled, clean>>

\* mutant: connecting has no time limit.
AskForever(c) ==
    /\ pc[c] \in {"list", "get"} /\ k[c] < N
    /\ up[k[c]]
    /\ found' = [found EXCEPT ![c] =
                    @ \cup {<<k[c], p>> : p \in {q \in Parts : disk[k[c]][q] # None}}]
    /\ k' = [k EXCEPT ![c] = @ + 1]
    /\ UNCHANGED <<server, pc, of, num, from, tmp, out, history>>

\* get_query: server k answers with the parts that exist in its directory, whole or not.
Ask(c) ==
    /\ pc[c] \in {"list", "get"} /\ k[c] < N
    /\ IF up[k[c]]
         THEN /\ found' = [found EXCEPT ![c] =
                              @ \cup {<<k[c], p>> : p \in {q \in Parts : disk[k[c]][q] # None}}]
              /\ missed' = missed
         ELSE /\ missed' = [missed EXCEPT ![c] = @ \cup {k[c]}]
              /\ found' = found
    /\ k' = [k EXCEPT ![c] = @ + 1]
    /\ UNCHANGED <<server, pc, of, num, from, tmp, out,
                   puts, queries, crashes, quits, past, settled, clean>>

Return(c, result) ==
    /\ pc' = [pc EXCEPT ![c] = "idle"]
    /\ k' = [k EXCEPT ![c] = 0]
    /\ found' = [found EXCEPT ![c] = {}]
    /\ out' = [out EXCEPT ![c] = result]

\* print_ll: a file is complete when the four parts were listed by somebody.
PrintList(c) ==
    /\ pc[c] = "list" /\ k[c] = N
    /\ Return(c, [kind |-> IF \A p \in Parts : \E s \in Servers : <<s, p>> \in found[c]
                             THEN "complete" ELSE "incomplete",
                  data |-> <<>>])
    /\ UNCHANGED <<server, of, num, from, tmp, history>>

\* The pair that parse_query reads next: server by server, part by part.
Next2Fetch(c) ==
    CHOOSE x \in found[c] : \A y \in found[c] : x[1] * N + x[2] <= y[1] * N + y[2]

\* fetch_piece connects and asks; the server's run_put opens the file and
\* announces the size it has at that moment.
FetchPiece(c) ==
    /\ pc[c] = "get" /\ k[c] = N /\ found[c] # {}
    /\ LET x == Next2Fetch(c)
       IN  /\ found' = [found EXCEPT ![c] = @ \ {x}]
           /\ IF up[x[1]]
                THEN /\ pc' = [pc EXCEPT ![c] = "recv"]
                     /\ from' = [from EXCEPT ![c] =
                                   [srv |-> x[1], part |-> x[2],
                                    file |-> disk[x[1]][x[2]], gone |-> FALSE]]
                     /\ missed' = missed
                ELSE /\ missed' = [missed EXCEPT ![c] = @ \cup {x[1]}]
                     /\ UNCHANGED <<pc, from>>
    /\ UNCHANGED <<server, k, of, num, tmp, out,
                   puts, queries, crashes, quits, past, settled, clean>>

Keep(c, piece) == tmp' = [tmp EXCEPT ![c][from[c].srv][from[c].part] = piece]

\* mutant: the comparison of what is left with what was announced is off by one.
RecvPieceShort(c) ==
    /\ pc[c] = "recv" /\ ~ from[c].gone
    /\ LET now == disk[from[c].srv][from[c].part]
           n == Len(from[c].file)
       IN  IF n < Len(now)
             THEN /\ Keep(c, now)
                  /\ pc' = [pc EXCEPT ![c] = "get"]
                  /\ from' = [from EXCEPT ![c] = NoPiece]
             ELSE /\ Keep(c, now)
                  /\ pc' = [pc EXCEPT ![c] = "spin"]
                  /\ UNCHANGED from
    /\ UNCHANGED <<server, k, of, num, found, out, history>>

\* The server reads, sends and the client stores the piece: m chunks before and
\* the rest after whatever happened to the file since it was opened.  If it has
\* shrunk, fread returns 0, the server closes, and the client's read returns 0
\* for ever.
RecvPiece(c) ==
    /\ pc[c] = "recv" /\ ~ from[c].gone
    /\ LET now == disk[from[c].srv][from[c].part]
           n == Len(from[c].file)
       IN  \E m \in 0 .. n :
             IF m = n \/ n <= Len(now)
               THEN /\ Keep(c, Prefix(from[c].file, m) \o SubSeq(now, m + 1, n))
                    /\ pc' = [pc EXCEPT ![c] = "get"]
                    /\ from' = [from EXCEPT ![c] = NoPiece]
               ELSE /\ Keep(c, Prefix(from[c].file, m) \o SubSeq(now, m + 1, Len(now)))
                    /\ pc' = [pc EXCEPT ![c] = "spin"]
                    /\ UNCHANGED from
    /\ UNCHANGED <<server, k, of, num, found, out, history>>

\* mutant: the file in get_tmp is created before there is anything to put in it.
LosePeerEmpty(c) ==
    /\ pc[c] = "recv" /\ from[c].gone
    /\ Keep(c, <<>>)
    /\ pc' = [pc EXCEPT ![c] = "get"]
    /\ from' = [from EXCEPT ![c] = NoPiece]
    /\ UNCHANGED <<server, k, of, num, found, out, history>>

\* The server died first: without a header the piece is given up, after a
\* header and m of its chunks read returns 0 for ever.
LosePeer(c) ==
    /\ pc[c] = "recv" /\ from[c].gone
    /\ \/ /\ pc' = [pc EXCEPT ![c] = "get"]
          /\ from' = [from EXCEPT ![c] = NoPiece]
          /\ missed' = [missed EXCEPT ![c] = @ \cup {from[c].srv}]
          /\ UNCHANGED tmp
       \/ /\ \E m \in 0 .. (Len(from[c].file) - 1) : Keep(c, Prefix(from[c].file, m))
          /\ pc' = [pc EXCEPT ![c] = "spin"]
          /\ UNCHANGED <<from, missed>>
    /\ UNCHANGED <<server, k, of, num, found, out,
                   puts, queries, crashes, quits, past, settled, clean>>

\* compile_get: for each part the copy of the lowest server that gave one.
\* The rm -r of get_tmp follows in either case.
HasPiece(c, p) == \E s \in Servers : tmp[c][s][p] # None

FirstPiece(c, p) ==
    LET s == CHOOSE s \in Servers :
                /\ tmp[c][s][p] # None
                /\ \A r \in Servers : tmp[c][r][p] # None => s <= r
    IN  tmp[c][s][p]

CompileGet(c) ==
    /\ pc[c] = "get" /\ k[c] = N /\ found[c] = {}
    /\ Return(c, IF \A p \in Parts : HasPiece(c, p)
                   THEN [kind |-> "file", data |-> [p \in Parts |-> FirstPiece(c, p)]]
                   ELSE [kind |-> "incomplete", data |-> <<>>])
    /\ tmp' = [tmp EXCEPT ![c] = NoTmp]
    /\ UNCHANGED <<server, of, num, from, history>>

-----------------------------------------------------------------------------
(* Failures.                                                               *)

\* A server stops: its threads and connections go, its directory stays.
Crash(s) ==
    /\ up[s] /\ crashes < MaxCrashes
    /\ up' = [up EXCEPT ![s] = FALSE]
    /\ threads' = {t \in threads : t.srv # s}
    /\ from' = [c \in Clients |->
                  IF pc[c] = "recv" /\ from[c].srv = s THEN [from[c] EXCEPT !.gone = TRUE]
                                                        ELSE from[c]]
    /\ crashes' = crashes + 1
    /\ settled' = IF \E t \in threads : t.srv = s /\ ~ Stuck(t) THEN None ELSE settled
    /\ UNCHANGED <<disk, pc, k, of, num, found, tmp, out,
                   puts, queries, quits, past, clean, missed>>

\* mutant: a server starts with an empty directory.
RestartEmpty(s) ==
    /\ ~ up[s]
    /\ up' = [up EXCEPT ![s] = TRUE]
    /\ disk' = [disk EXCEPT ![s] = [p \in Parts |-> None]]
    /\ UNCHANGED <<threads, client, history>>

Restart(s) ==
    /\ ~ up[s]
    /\ up' = [up EXCEPT ![s] = TRUE]
    /\ UNCHANGED <<disk, threads, client, history>>

\* The user interrupts a command (sigint_handler exits) and starts dfc again.
\* A part that was being sent reaches the server cut short, a piece that was
\* being received is kept cut short: nobody empties get_tmp.
Quit(c) ==
    /\ pc[c] # "idle" /\ quits < MaxQuits
    /\ quits' = quits + 1
    /\ settled' = IF pc[c] = "put" THEN None ELSE settled
    /\ \/ UNCHANGED <<threads, tmp>>
       \/ /\ pc[c] = "put" /\ up[ServerAt(Offset[of[c]], k[c])]
          /\ \E n \in 0 .. (Size[of[c]] - 1) : threads' = threads \cup {Upload(c, n)}
          /\ UNCHANGED tmp
       \/ /\ pc[c] = "recv"
          /\ \E n \in 0 .. (Len(from[c].file) - 1) : Keep(c, Prefix(from[c].file, n))
          /\ UNCHANGED threads
    /\ Return(c, NoOut)
    /\ from' = [from EXCEPT ![c] = NoPiece]
    /\ UNCHANGED <<up, disk, of, num, puts, queries, crashes, past, clean, missed>>

-----------------------------------------------------------------------------
ClientStep(c) ==
    SendPart(c) \/ Ask(c) \/ PrintList(c) \/ FetchPiece(c) \/ RecvPiece(c)
        \/ LosePeer(c) \/ CompileGet(c)

Command(c) == (\E v \in Contents : StartPut(c, v)) \/ (\E q \in {"list", "get"} : StartQuery(c, q))

Failure == (\E s \in Servers : Crash(s) \/ Restart(s)) \/ (\E c \in Clients : Quit(c))

Next == (\E c \in Clients : Command(c) \/ ClientStep(c)) \/ ThreadStep \/ Failure

\* Threads and clients are processes the operating system runs; that a user
\* types, a server fails or is started again is nobody's duty.
Fairness == WF_vars(ThreadStep) /\ \A c \in Clients : WF_vars(ClientStep(c))

Spec == Init /\ [][Next]_vars /\ Fairness

-----------------------------------------------------------------------------
(* Properties.                                                             *)

Files == {None} \cup Seq(Chunks)
Threads == [put : Nat, srv : Servers, part : Parts, of : Contents, sent : Nat, pos : Nat \cup {-1}]

\* The shape of the state.
TypeOK ==
    /\ up \in [Servers -> BOOLEAN]
    /\ disk \in [Servers -> [Parts -> Files]]
    /\ threads \subseteq Threads
    /\ pc \in [Clients -> {"idle", "put", "list", "get", "recv", "spin"}]
    /\ k \in [Clients -> 0 .. (2 * N - 1)]
    /\ of \in [Clients -> Contents \cup {None}]
    /\ num \in [Clients -> Nat]
    /\ found \in [Clients -> SUBSET (Servers \X Parts)]
    /\ from \in [Clients -> [srv : Servers, part : Parts, file : Seq(Chunks), gone : BOOLEAN]]
    /\ tmp \in [Clients -> [Servers -> [Parts -> Files]]]
    /\ out \in [Clients -> [kind : {"none", "complete", "incomplete", "file"},
                           data : {<<>>} \cup [Parts -> Files]]]
    /\ {puts, queries, crashes, quits} \subseteq Nat
    /\ past \subseteq Contents
    /\ settled \in Contents \cup {None}
    /\ clean \in [Clients -> Contents \cup {None}]
    /\ missed \in [Clients -> SUBSET Servers]

\* What get relies on without checking: a part that a listing named is still there
\* when its turn to be fetched comes, across restarts of the server in between.
\* The server answers a get for a file it does not have by closing the connection.
ListedPartsExist ==
    \A c \in Clients :
        /\ \A x \in found[c] : disk[x[1]][x[2]] # None
        /\ pc[c] = "recv" => disk[from[c].srv][from[c].part] # None

\* The redundancy the system exists for: once a put that nothing disturbed has
\* settled, every part of it is whole on a live disk as long as no two
\* neighbouring servers are down, whatever older versions the disks hold and
\* however the threads of the put were scheduled.
SurvivesOutages ==
    settled # None /\ Quiet =>
        \A down \in SUBSET Servers : NoNeighbours(down) =>
            \A p \in Parts : \E s \in Servers \ down : disk[s][p] = Whole(settled)

\* A get that begins when a put has settled and is not overtaken by another put
\* compiles exactly that version, provided every version ever put is rotated the
\* same way, even if servers fail and come back while it runs.
GetReturnsThePut ==
    \A c \in Clients :
        /\ clean[c] # None
        /\ \A v \in past : Offset[v] = Offset[clean[c]]
        /\ out[c].kind = "file"
        => out[c].data = [p \in Parts |-> Whole(clean[c])]

\* list and get call a settled file incomplete only when they found two
\* neighbouring servers unreachable.
IncompleteMeansOutage ==
    \A c \in Clients :
        clean[c] # None /\ out[c].kind = "incomplete" => ~ NoNeighbours(missed[c])

\* A client hangs for ever in a transfer only if a server failed or a put
\* truncated the part it was being sent.
HangNeedsCause ==
    \A c \in Clients : pc[c] = "spin" => crashes > 0 \/ clean[c] = None

\* Bytes of a version are only ever on a server that the placement assigns them
\* to, on disk as well as in a get_tmp copy of that server.
Homed ==
    \A s \in Servers, p \in Parts :
        \A f \in {disk[s][p]} \cup {tmp[c][s][p] : c \in Clients} : f # None =>
            \A i \in 1 .. Len(f) : f[i] # Hole => s \in Homes(Offset[f[i]], p)

\* A put whose client, servers and threads are left alone reaches the disks.
PutSettles == \A v \in Contents : settled = v ~> (settled # v \/ Quiet)

\* Every command returns to the prompt unless the transfer hangs.
CommandReturns == \A c \in Clients : pc[c] # "idle" ~> pc[c] \in {"idle", "spin"}

\* What the README promises of get: the pieces it reports as the file are one
\* version of the file.
GetReturnsOneVersion ==
    \A c \in Clients : out[c].kind = "file" =>
        \E v \in Contents : out[c].data = [p \in Parts |-> Whole(v)]

=============================================================================
