----------------------------- MODULE HttpServer -----------------------------
(***************************************************************************)
(* The HTTP server of Project 2: a thread per connection, keep-alive and   *)
(* its deadline, and what is answered to GET and POST.                     *)
(*                                                                         *)
(* The threads share nothing but the descriptors of the process.  Those in *)
(* use are a set, each named after what it is and whose thread opened it;  *)
(* one that no thread will close again stays in the set.                   *)
(*                                                                         *)
(* A request is written at once and every read gets whole requests, as the *)
(* README says.  A response is its header, which announces a length, and   *)
(* as many pieces of the file as were written: a piece is what one write   *)
(* sends.  Sockets do not block: what a client that reads slowly has no    *)
(* room for is lost, or makes the write fail.                              *)
(*                                                                         *)
(* A second has Ticks ticks.  phase is the clock's tick within the second, *)
(* the tv_nsec of the code; age is the time since a thread's req_time, from *)
(* the first request for keep-alive on: before it nothing depends on that. *)
(***************************************************************************)
EXTENDS Integers, Sequences, FiniteSets

CONSTANTS
    Conns,          \* connections, one for each client
    Requests,       \* what clients may ask: [meth, file, keep]
    Pieces,         \* the files that exist and their length
    NoExtension,    \* files without a period in their path
    Unsized,        \* files whose size cannot be found out
    Tagged,         \* files with a body tag, which is in their first piece
    Timeout, Ticks,
    MaxFds,         \* descriptors the process may have open
    MaxRequests, MaxBlocked    \* bounds of the exploration

ASSUME HttpAssumption ==
    /\ \A r \in Requests : r.meth \in {"GET", "POST", "OTHER", "BAD"} /\ r.keep \in BOOLEAN
    /\ \A f \in DOMAIN Pieces : Pieces[f] \in Nat
    /\ Tagged \subseteq {f \in DOMAIN Pieces : Pieces[f] > 0}
    /\ {Timeout, Ticks} \subseteq Nat \ {0}
    /\ {MaxFds, MaxRequests, MaxBlocked} \subseteq Nat

VARIABLES
    phase,
    fds,        \* descriptors in use
    client,     \* each client: "calling" before accept, "here", "left", "vanished"
    inbox,      \* requests written and not read yet
    got,        \* responses that a client that is here received
    pc,         \* where each connection's thread is
    batch,      \* the requests in req_buf, from hdr on
    keep,       \* keep_alive
    timed,      \* use_timeout
    age,
    reply,      \* what handle_req is sending
    \* History:
    intact,     \* no write to this client was cut short
    asked, blocked    \* how many requests were sent and writes hit a full socket

clients == <<client, inbox, got>>
threads == <<pc, batch, keep, timed, reply>>
vars == <<phase, fds, clients, threads, age, intact, asked, blocked>>

-----------------------------------------------------------------------------
Socket(c) == <<"socket", c>>
File(c)   == <<"FILE", c>>

NoReply == [status |-> 0, size |-> 0, left |-> 0, post |-> FALSE]

\* What a POST adds to the announced length: its data, and the tags around it.
Extra(r) == IF r.meth = "POST" THEN 1 ELSE 0

\* The threads that exist; one that is "lost" has ended without close.
Live == {c \in Conns : pc[c] \in {"read", "handle", "header", "post", "body"}}

Go(c, where) == pc' = [pc EXCEPT ![c] = where]

Init ==
    /\ phase \in 0 .. Ticks - 1
    /\ fds = {}
    /\ client = [c \in Conns |-> "calling"]
    /\ inbox = [c \in Conns |-> <<>>]
    /\ got = [c \in Conns |-> <<>>]
    /\ pc = [c \in Conns |-> "none"]
    /\ batch = [c \in Conns |-> <<>>]
    /\ keep = [c \in Conns |-> FALSE]
    /\ timed = [c \in Conns |-> FALSE]
    /\ age = [c \in Conns |-> 0]
    /\ reply = [c \in Conns |-> NoReply]
    /\ intact = [c \in Conns |-> TRUE]
    /\ asked = 0 /\ blocked = 0

-----------------------------------------------------------------------------
(* The clients.                                                            *)

Ask(c, r) ==
    /\ client[c] = "here"
    /\ asked < MaxRequests
    /\ asked' = asked + 1
    /\ inbox' = [inbox EXCEPT ![c] = Append(@, r)]
    /\ UNCHANGED <<phase, fds, client, got, threads, age, intact, blocked>>

\* The client closes its end, or its host goes without a word.
Leave(c) ==
    /\ client[c] = "here"
    /\ \E how \in {"left", "vanished"} : client' = [client EXCEPT ![c] = how]
    /\ got' = [got EXCEPT ![c] = <<>>]
    /\ UNCHANGED <<phase, fds, inbox, threads, age, intact, asked, blocked>>

Tick ==
    /\ phase' = (phase + 1) % Ticks
    /\ age' = [c \in Conns |->
                 IF c \notin Live \/ ~keep[c] THEN 0
                 ELSE IF age[c] + 1 < (Timeout + 2) * Ticks THEN age[c] + 1
                 ELSE age[c] + 1 - Ticks]
    /\ UNCHANGED <<fds, clients, threads, intact, asked, blocked>>

-----------------------------------------------------------------------------
(* The life of a connection.                                               *)

\* main: accept, and a thread for the connection.  Without a free descriptor
\* accept fails, and the thread that is created all the same ends at once.
Accept(c) ==
    /\ client[c] = "calling"
    /\ Cardinality(fds) < MaxFds
    /\ client' = [client EXCEPT ![c] = "here"]
    /\ fds' = fds \cup {Socket(c)}
    /\ Go(c, "read")
    /\ age' = [age EXCEPT ![c] = 0]
    /\ UNCHANGED <<phase, inbox, got, batch, keep, timed, reply, intact, asked, blocked>>

\* close, at the end of thread_main.
Close(c) ==
    /\ Go(c, "closed")
    /\ fds' = fds \ {Socket(c)}
    /\ client' = [client EXCEPT ![c] = "left"]
    /\ inbox' = [inbox EXCEPT ![c] = <<>>]
    /\ got' = [got EXCEPT ![c] = <<>>]
    /\ keep' = [keep EXCEPT ![c] = FALSE]
    /\ timed' = [timed EXCEPT ![c] = FALSE]
    /\ UNCHANGED <<phase, batch, age, reply, intact, asked, blocked>>

\* The error paths: return NULL, without close.
Lose(c) ==
    /\ Go(c, "lost")
    /\ UNCHANGED <<phase, fds, clients, batch, keep, timed, age, reply, intact, asked>>

\* get_next_header takes the start of the buffer for a request, and after it
\* looks for GET and POST only.
Found(s) ==
    LET hdrs[i \in 1 .. Len(s) + 1] ==
            IF i > Len(s) THEN <<>>
            ELSE IF i > 1 /\ s[i].meth = "OTHER" THEN hdrs[i + 1]
            ELSE <<s[i]>> \o hdrs[i + 1]
    IN  hdrs[1]

\* mutant: the deadline holds from the second read on.
ReadUntimed(c) ==
    /\ pc[c] = "read" /\ inbox[c] # <<>>
    /\ batch' = [batch EXCEPT ![c] = Found(inbox[c])]
    /\ inbox' = [inbox EXCEPT ![c] = <<>>]
    /\ timed' = [timed EXCEPT ![c] = keep[c]]
    /\ Go(c, "handle")
    /\ UNCHANGED <<phase, fds, client, got, keep, age, reply, intact, asked, blocked>>

\* All that was written is read at once.
Read(c) ==
    /\ pc[c] = "read" /\ inbox[c] # <<>>
    /\ batch' = [batch EXCEPT ![c] = Found(inbox[c])]
    /\ inbox' = [inbox EXCEPT ![c] = <<>>]
    /\ timed' = [timed EXCEPT ![c] = TRUE]
    /\ Go(c, "handle")
    /\ UNCHANGED <<phase, fds, client, got, keep, age, reply, intact, asked, blocked>>

ReadEnds(c) == pc[c] = "read" /\ inbox[c] = <<>> /\ client[c] = "left" /\ Close(c)

\* Any error but EPIPE and ECONNRESET.
ReadFails(c) ==
    /\ pc[c] = "read" /\ inbox[c] = <<>> /\ client[c] = "vanished"
    /\ Lose(c)
    /\ UNCHANGED blocked

\* mutant: the seconds alone are compared.
DeadlineSeconds(c) == (((phase - age[c]) % Ticks) + age[c]) \div Ticks >= Timeout

\* The seconds and the nanoseconds are compared one by one.
Deadline(c) ==
    LET start == (phase - age[c]) % Ticks
    IN  (start + age[c]) \div Ticks >= Timeout /\ start <= phase

TimeOut(c) == pc[c] = "read" /\ inbox[c] = <<>> /\ timed[c] /\ Deadline(c) /\ Close(c)

\* All requests of the read are answered.
EndBatch(c) ==
    /\ pc[c] = "handle" /\ batch[c] = <<>>
    /\ \/ /\ keep[c]
          /\ Go(c, "read")
          /\ UNCHANGED <<phase, fds, clients, batch, keep, timed, age, reply, intact, asked, blocked>>
       \/ ~keep[c] /\ Close(c)

-----------------------------------------------------------------------------
(* A request, and handle_req.                                              *)

\* What is said of a request by the scans of its text.
extract_req_fields(r) == r.meth # "BAD"
get_keep_alive(r) == r.keep

\* A request that asks for it sets keep_alive, which nothing resets, and the deadline.
KeepAlive(c) ==
    LET asks == get_keep_alive(Head(batch[c]))
    IN  /\ keep' = [keep EXCEPT ![c] = @ \/ asks]
        /\ age' = [age EXCEPT ![c] = IF asks THEN 0 ELSE @]

\* Without three fields in its first line a request is passed over, keep-alive
\* and all; with another method it goes unanswered.
Skip(c) ==
    /\ pc[c] = "handle" /\ batch[c] # <<>>
    /\ batch' = [batch EXCEPT ![c] = Tail(@)]
    /\ \/ ~extract_req_fields(Head(batch[c])) /\ UNCHANGED <<keep, age>>
       \/ Head(batch[c]).meth = "OTHER" /\ KeepAlive(c)
    /\ UNCHANGED <<phase, fds, clients, pc, timed, reply, intact, asked, blocked>>

\* A GET or POST is next, for a file that exists or not.
Takes(c, exists) ==
    /\ pc[c] = "handle" /\ batch[c] # <<>>
    /\ Head(batch[c]).meth \in {"GET", "POST"}
    /\ exists <=> Head(batch[c]).file \in DOMAIN Pieces

\* The header that make_header makes for n pieces of file.
Announce(c, status, n) ==
    LET r == Head(batch[c])
    IN  /\ Go(c, "header")
        /\ KeepAlive(c)
        /\ reply' = [reply EXCEPT ![c] = [status |-> status, size |-> n + Extra(r), left |-> n,
                                          post |-> r.meth = "POST"]]
        /\ UNCHANGED <<phase, clients, batch, timed, intact, asked, blocked>>

NotFound(c) ==
    /\ Takes(c, FALSE)
    /\ Announce(c, 404, 0)
    /\ UNCHANGED fds

\* extract_file_extension fails, and handle_req with it.
NoPeriod(c) ==
    /\ Takes(c, TRUE)
    /\ Head(batch[c]).file \in NoExtension
    /\ Go(c, "lost")
    /\ KeepAlive(c)
    /\ UNCHANGED <<phase, fds, clients, batch, timed, reply, intact, asked, blocked>>

\* fopen fails: no FILE and no length, but the status is still 200.
CannotOpen(c) ==
    /\ Takes(c, TRUE)
    /\ Head(batch[c]).file \notin NoExtension
    /\ Cardinality(fds) = MaxFds
    /\ Announce(c, 200, 0)
    /\ UNCHANGED fds

Open(c) ==
    /\ Takes(c, TRUE)
    /\ Head(batch[c]).file \notin NoExtension \cup Unsized
    /\ Cardinality(fds) < MaxFds
    /\ Announce(c, 200, Pieces[Head(batch[c]).file])
    /\ fds' = fds \cup {File(c)}

\* get_file_size fails; fclose(NULL) ends the program, which is started again.
Crash(c) ==
    /\ Takes(c, TRUE)
    /\ Head(batch[c]).file \in Unsized \ NoExtension
    /\ Cardinality(fds) < MaxFds
    /\ fds' = {}
    /\ pc' = [d \in Conns |-> IF pc[d] = "none" THEN "none" ELSE "closed"]
    /\ client' = [d \in Conns |-> IF pc[d] = "none" THEN "calling" ELSE "left"]
    /\ inbox' = [d \in Conns |-> <<>>]
    /\ got' = [d \in Conns |-> <<>>]
    /\ UNCHANGED <<phase, batch, keep, timed, age, reply, intact, asked, blocked>>

handle_req(c) == NotFound(c) \/ NoPeriod(c) \/ CannotOpen(c) \/ Open(c) \/ Crash(c)

\* mutant: the FILE stays open.
FinishLeaking(c) ==
    /\ Go(c, "handle")
    /\ batch' = [batch EXCEPT ![c] = Tail(@)]
    /\ reply' = [reply EXCEPT ![c] = NoReply]
    /\ UNCHANGED fds

\* handle_req returns 0: fclose, and the next request.
Finish(c) ==
    /\ Go(c, "handle")
    /\ batch' = [batch EXCEPT ![c] = Tail(@)]
    /\ reply' = [reply EXCEPT ![c] = NoReply]
    /\ fds' = fds \ {File(c)}

-----------------------------------------------------------------------------
(* send_response.                                                          *)

\* The client gets the header, or a piece of the response it is getting.
GetsHeader(c) ==
    got' = IF client[c] # "here" THEN got ELSE
           [got EXCEPT ![c] = Append(@, [for |-> Head(batch[c]), status |-> reply[c].status,
                                         size |-> reply[c].size, pieces |-> 0])]
GetsPieces(c, n) ==
    got' = IF client[c] # "here" THEN got ELSE [got EXCEPT ![c][Len(got[c])].pieces = @ + n]

\* The socket has no room for all of what is written.
FullSocket(c) ==
    /\ blocked < MaxBlocked
    /\ client[c] # "left"
    /\ blocked' = blocked + 1

\* A write that is cut short counts as whole.
Written(c) ==
    \/ UNCHANGED <<intact, blocked>>
    \/ FullSocket(c) /\ intact' = [intact EXCEPT ![c] = FALSE]

SendHeader(c) ==
    /\ pc[c] = "header" /\ client[c] # "left"
    /\ Written(c)
    /\ GetsHeader(c)
    /\ \/ /\ File(c) \notin fds
          /\ Finish(c)
       \/ /\ File(c) \in fds
          /\ Go(c, IF reply[c].post THEN "post" ELSE "body")
          /\ UNCHANGED <<fds, batch, reply>>
    /\ UNCHANGED <<phase, client, inbox, keep, timed, age, asked>>

\* mutant: the rest of the file is what it was before the data.
SendPostUncounted(c) ==
    /\ pc[c] = "post" /\ client[c] # "left"
    /\ Head(batch[c]).file \in Tagged
    /\ Written(c)
    /\ GetsPieces(c, 2)
    /\ UNCHANGED reply
    /\ Go(c, "body")
    /\ UNCHANGED <<phase, fds, client, inbox, batch, keep, timed, age, asked>>

\* A POST: what is before the end of the body tag, and the data.
SendPost(c) ==
    /\ pc[c] = "post" /\ client[c] # "left"
    /\ Head(batch[c]).file \in Tagged
    /\ Written(c)
    /\ GetsPieces(c, 2)
    /\ reply' = [reply EXCEPT ![c].left = @ - 1]
    /\ Go(c, "body")
    /\ UNCHANGED <<phase, fds, client, inbox, batch, keep, timed, age, asked>>

\* Without a body tag the file is read to its end and nothing of it is written.
SearchTag(c) ==
    /\ pc[c] = "post"
    /\ Head(batch[c]).file \notin Tagged
    /\ reply' = [reply EXCEPT ![c].left = 0]
    /\ Go(c, "body")
    /\ UNCHANGED <<phase, fds, clients, batch, keep, timed, age, intact, asked, blocked>>

\* mutant: the length left is counted down twice, and wraps.
SendPieceTwice(c) ==
    /\ pc[c] = "body" /\ reply[c].left > 0 /\ client[c] # "left"
    /\ Written(c)
    /\ GetsPieces(c, 1)
    /\ reply' = [reply EXCEPT ![c].left = @ - 2]
    /\ UNCHANGED <<phase, fds, client, inbox, pc, batch, keep, timed, age, asked>>

SendPiece(c) ==
    /\ pc[c] = "body" /\ reply[c].left > 0 /\ client[c] # "left"
    /\ Written(c)
    /\ GetsPieces(c, 1)
    /\ reply' = [reply EXCEPT ![c].left = @ - 1]
    /\ UNCHANGED <<phase, fds, client, inbox, pc, batch, keep, timed, age, asked>>

EndReply(c) ==
    /\ pc[c] = "body" /\ reply[c].left = 0
    /\ Finish(c)
    /\ UNCHANGED <<phase, clients, keep, timed, age, intact, asked, blocked>>

Writes(c) ==
    \/ pc[c] = "header"
    \/ pc[c] = "post" /\ Head(batch[c]).file \in Tagged
    \/ pc[c] = "body" /\ reply[c].left > 0

\* mutant: a client that left is an error like any other.
ClientGoneFatal(c) ==
    /\ Writes(c) /\ client[c] = "left"
    /\ Lose(c)
    /\ UNCHANGED blocked

\* EPIPE or ECONNRESET: send_response is content with that.
ClientGone(c) ==
    /\ Writes(c) /\ client[c] = "left"
    /\ Finish(c)
    /\ UNCHANGED <<phase, clients, keep, timed, age, intact, asked, blocked>>

\* EAGAIN: the thread ends, with the socket and the FILE open.
WriteFails(c) ==
    /\ Writes(c)
    /\ FullSocket(c)
    /\ Lose(c)

send_response(c) ==
    \/ SendHeader(c) \/ SendPost(c) \/ SearchTag(c) \/ SendPiece(c) \/ EndReply(c)
    \/ ClientGone(c)

-----------------------------------------------------------------------------
Thread(c) ==
    Read(c) \/ ReadEnds(c) \/ Skip(c) \/ handle_req(c) \/ send_response(c) \/ EndBatch(c)

Next ==
    \/ \E c \in Conns :
        \/ Leave(c) \/ \E r \in Requests : Ask(c, r)
        \/ Accept(c) \/ Thread(c) \/ TimeOut(c) \/ ReadFails(c) \/ WriteFails(c)
    \/ Tick

\* Threads run and time passes.  A thread in read polls its socket all the time,
\* so in every second some poll falls where both comparisons hold.
Fairness ==
    /\ WF_vars(Tick)
    /\ \A c \in Conns : WF_vars(Thread(c)) /\ SF_vars(TimeOut(c))

Spec == Init /\ [][Next]_vars /\ Fairness

-----------------------------------------------------------------------------
TypeOK ==
    /\ phase \in 0 .. Ticks - 1
    /\ fds \subseteq {"socket", "FILE"} \X Conns
    /\ Cardinality(fds) <= MaxFds
    /\ client \in [Conns -> {"calling", "here", "left", "vanished"}]
    /\ inbox \in [Conns -> Seq(Requests)]
    /\ got \in [Conns -> Seq([for : Requests, status : {200, 404}, size : Nat, pieces : Nat])]
    /\ pc \in [Conns -> {"none", "read", "handle", "header", "post", "body", "closed", "lost"}]
    /\ batch \in [Conns -> Seq(Requests)]
    /\ keep \in [Conns -> BOOLEAN]
    /\ timed \in [Conns -> BOOLEAN]
    /\ age \in [Conns -> 0 .. (Timeout + 2) * Ticks - 1]
    /\ reply \in [Conns -> [status : {0, 200, 404}, size : Nat, left : Nat, post : BOOLEAN]]
    /\ intact \in [Conns -> BOOLEAN]
    /\ {asked, blocked} \subseteq Nat

\* A POST that is answered with the post data missing: there is no file to put
\* it into, or no place in it.
Hollow(a) ==
    a.for.meth = "POST" /\ (a.for.file \notin Tagged \/ a.size = 1)

\* A client that is there and has room gets of every response exactly what its
\* header announced before the next one begins, or the server reads again or closes:
\* otherwise it takes one response's bytes for another's.  All but hollow ones.
FramesMatch ==
    \A c \in Conns : intact[c] /\ client[c] = "here" =>
        \A i \in DOMAIN got[c] :
            /\ got[c][i].pieces <= got[c][i].size
            /\ \/ got[c][i].pieces = got[c][i].size
               \/ Hollow(got[c][i])
               \/ i = Len(got[c]) /\ pc[c] \in {"post", "body", "lost"}

\* A thread is lost, and its client left waiting for ever, only by a full socket, a
\* file without a period or a client that vanished: never by one that went away.
LostNeedsCause ==
    \A c \in Conns : pc[c] = "lost" =>
        \/ blocked > 0
        \/ client[c] = "vanished"
        \/ batch[c] # <<>> /\ Head(batch[c]).file \in NoExtension

\* The descriptors in use are the sockets of threads that run or were lost, and the
\* FILEs of those that were in the middle of a response: nothing else is leaked,
\* and nothing is closed that another thread may have been given.
FdsAreAccountedFor ==
    /\ \A c \in Conns : Socket(c) \in fds <=> pc[c] \notin {"none", "closed"}
    /\ \A c \in Conns :
        File(c) \in fds =>
            /\ pc[c] \in {"header", "post", "body", "lost"}
            /\ reply[c].status = 200

\* A connection that was told to stay open is closed only when its client left or
\* when Timeout seconds have passed since the last request that asked for it, however
\* seconds and nanoseconds are compared, and never with a request unread.
CutsOnlyTheIdle ==
    [][\A c \in Conns : pc[c] = "read" /\ pc'[c] = "closed" /\ pc'[c] # pc[c] =>
          \/ client[c] = "left"
          \/ inbox[c] = <<>> /\ age[c] >= Timeout * Ticks
          \/ \E d \in Conns : pc[d] = "handle" /\ pc'[d] = "closed" /\ d # c]_vars

\* A connection on which something was read ends: no request, and no client that
\* goes silent, holds its thread for ever.
ConnectionsEnd ==
    \A c \in Conns : pc[c] = "handle" ~> pc[c] \in {"closed", "lost"}

=============================================================================
