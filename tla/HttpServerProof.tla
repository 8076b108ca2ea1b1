--------------------------- MODULE HttpServerProof ---------------------------
(***************************************************************************)
(* Proofs about HttpServer, for any number of connections, descriptors and *)
(* requests, any set of files, and every deadline and resolution of the    *)
(* clock (the code's second has 10^9 ticks).                                *)
(***************************************************************************)
EXTENDS HttpServer, TLAPS, WellFoundedInduction, FiniteSetTheorems, SequenceTheorems

-----------------------------------------------------------------------------
(* The clock.                                                              *)

\* What the two operators of the clock's arithmetic have to do with each other.
LEMMA Division ==
    ASSUME NEW x \in Int, NEW n \in Nat, n > 0
    PROVE  x = n * (x \div n) + (x % n)
BY Z3

\* Quotient and remainder.
LEMMA Euclid ==
    ASSUME NEW x \in Int, NEW n \in Nat \ {0}
    PROVE  /\ x \div n \in Int /\ x % n \in 0 .. n - 1
           /\ x = n * (x \div n) + (x % n)
<1>1. x \div n \in Int
    OBVIOUS
<1>2. x % n \in 0 .. n - 1
    OBVIOUS
<1>3. n \in Nat /\ n > 0
    OBVIOUS
<1>4. x = n * (x \div n) + (x % n)
    BY <1>3, Division
<1> QED BY <1>1, <1>2, <1>4

\* A multiple of n that is less than n from 0 is 0.
LEMMA SmallMultiple ==
    ASSUME NEW n \in Nat \ {0}, NEW j \in Int, -n < n * j, n * j < n
    PROVE  j = 0
<1>1. CASE j >= 1
    <2>1. n * j >= n
        BY <1>1
    <2> QED BY <2>1
<1>2. CASE j <= -1
    <2>1. n * j <= -n
        BY <1>2
    <2> QED BY <2>1
<1> QED BY <1>1, <1>2

\* The two comparisons of read_conn_fd hold together only Timeout whole seconds
\* after req_time: start and p are the ticks of req_time and of now in their seconds.
LEMMA DeadlineIsNeverEarly ==
    ASSUME NEW n \in Nat \ {0}, NEW limit \in Nat, NEW p \in 0 .. n - 1, NEW g \in Nat,
           (((p - g) % n) + g) \div n >= limit, (p - g) % n <= p
    PROVE  g >= limit * n
<1> DEFINE start == (p - g) % n
           k == (p - g) \div n
           m == (start + g) \div n
           r == (start + g) % n
<1>1. /\ k \in Int /\ start \in 0 .. n - 1
      /\ p - g = n * k + start
    <2>1. p - g \in Int
        OBVIOUS
    <2> QED BY <2>1, Euclid, Zenon
<1>2. /\ m \in Int /\ r \in 0 .. n - 1
      /\ start + g = n * m + r
    <2>1. start + g \in Int
        BY <1>1
    <2> QED BY <2>1, Euclid, Zenon
<1>3. m >= limit /\ start <= p
    OBVIOUS
<1> HIDE DEF start, k, m, r
<1>4. p - r = n * (m + k)
    <2>1. n * (m + k) = n * m + n * k
        BY <1>1, <1>2
    <2>2. n * m \in Int /\ n * k \in Int
        BY <1>1, <1>2
    <2> QED BY <1>1, <1>2, <2>1, <2>2
<1>5. m + k = 0
    <2>1. -n < p - r /\ p - r < n
        BY <1>2
    <2> QED BY <1>1, <1>2, <1>4, <2>1, SmallMultiple
<1>6. n * m >= n * limit
    BY <1>2, <1>3
<1>7. p = r
    BY <1>2, <1>4, <1>5
<1>8. n * m \in Int /\ n * limit = limit * n /\ limit * n \in Int
    BY <1>2
<1> QED BY <1>1, <1>2, <1>3, <1>6, <1>7, <1>8

-----------------------------------------------------------------------------
(* The inductive invariant.                                                *)

States == {"none", "read", "handle", "header", "post", "body", "closed", "lost"}
Replies == [status : {0, 200, 404}, size : Int, left : Int, post : BOOLEAN]

\* The shape of what the other conjuncts speak of.  What is in inbox and batch does
\* not matter to them.
Shape ==
    /\ phase \in 0 .. Ticks - 1
    /\ client \in [Conns -> {"calling", "here", "left", "vanished"}]
    /\ pc \in [Conns -> States]
    /\ reply \in [Conns -> Replies]
    /\ age \in [Conns -> Nat]
    /\ DOMAIN batch = Conns
    /\ blocked \in Nat

\* A client that was not accepted has no thread.
Calling == \A c \in Conns : client[c] = "calling" => pc[c] = "none"

Inv == Shape /\ Calling /\ FdsAreAccountedFor /\ LostNeedsCause

LEMMA InitInv == Init => Inv
BY HttpAssumption DEF Init, Inv, Shape, Calling, FdsAreAccountedFor, LostNeedsCause,
       States, Replies, NoReply, Socket, File

-----------------------------------------------------------------------------
(* One lemma for each group of actions.                                    *)

LEMMA ClientStep ==
    ASSUME Inv, NEW c \in Conns, Leave(c) \/ \E r \in Requests : Ask(c, r)
    PROVE  Inv'
<1>1. CASE Leave(c)
    BY <1>1 DEF Leave, Inv, Shape, Calling, FdsAreAccountedFor, LostNeedsCause,
           threads, Socket, File
<1>2. CASE \E r \in Requests : Ask(c, r)
    BY <1>2 DEF Ask, Inv, Shape, Calling, FdsAreAccountedFor, LostNeedsCause,
           threads, Socket, File
<1> QED BY <1>1, <1>2

LEMMA TickStep ==
    ASSUME Inv, Tick
    PROVE  Inv'
<1>1. phase' \in 0 .. Ticks - 1
    BY HttpAssumption DEF Tick, Inv, Shape
<1>2. age' \in [Conns -> Nat]
    <2>1. /\ Ticks \in Nat /\ Timeout \in Nat
          /\ Timeout * Ticks \in Nat
          /\ (Timeout + 2) * Ticks = Timeout * Ticks + 2 * Ticks
        BY HttpAssumption
    <2>2. \A c \in Conns : age[c] \in Nat
        BY DEF Inv, Shape
    <2>3. \A c \in Conns :
            age[c] + 1 < (Timeout + 2) * Ticks \/ age[c] + 1 - Ticks \in Nat
        BY <2>1, <2>2
    <2> QED BY <2>2, <2>3 DEF Tick
<1> QED
    BY <1>1, <1>2 DEF Tick, Inv, Shape, Calling, FdsAreAccountedFor, LostNeedsCause,
           clients, threads, Socket, File

LEMMA AcceptStep ==
    ASSUME Inv, NEW c \in Conns, Accept(c)
    PROVE  Inv'
<1>1. pc[c] = "none"
    BY DEF Accept, Inv, Calling
<1> QED
    BY <1>1 DEF Accept, Go, Inv, Shape, Calling, FdsAreAccountedFor, LostNeedsCause,
           States, Socket, File

\* A thread that closes is in the middle of no response.
LEMMA CloseStep ==
    ASSUME Inv, NEW c \in Conns, pc[c] \in {"read", "handle"}, Close(c)
    PROVE  Inv'
BY DEF Close, Go, Inv, Shape, Calling, FdsAreAccountedFor, LostNeedsCause,
       States, Socket, File

LEMMA ReadStep ==
    ASSUME Inv, NEW c \in Conns,
           Read(c) \/ ReadEnds(c) \/ TimeOut(c) \/ ReadFails(c)
    PROVE  Inv'
<1>1. CASE Read(c)
    BY <1>1 DEF Read, Go, Inv, Shape, Calling, FdsAreAccountedFor, LostNeedsCause,
           States, Socket, File
<1>2. CASE ReadEnds(c) \/ TimeOut(c)
    BY <1>2, CloseStep DEF ReadEnds, TimeOut
<1>3. CASE ReadFails(c)
    BY <1>3 DEF ReadFails, Lose, Go, clients, Inv, Shape, Calling, FdsAreAccountedFor,
           LostNeedsCause, States, Socket, File
<1> QED BY <1>1, <1>2, <1>3

LEMMA BatchStep ==
    ASSUME Inv, NEW c \in Conns, Skip(c) \/ EndBatch(c)
    PROVE  Inv'
<1>1. CASE Skip(c)
    BY <1>1 DEF Skip, KeepAlive, clients, Inv, Shape, Calling, FdsAreAccountedFor,
           LostNeedsCause, Socket, File
<1>2. CASE EndBatch(c)
    <2>1. CASE Close(c)
        BY <1>2, <2>1, CloseStep DEF EndBatch
    <2>2. CASE Go(c, "read") /\ UNCHANGED <<phase, fds, clients, batch, keep, timed, age,
                                           reply, intact, asked, blocked>>
        BY <1>2, <2>2 DEF EndBatch, Go, clients, Inv, Shape, Calling, FdsAreAccountedFor,
               LostNeedsCause, States, Socket, File
    <2> QED BY <1>2, <2>1, <2>2 DEF EndBatch
<1> QED BY <1>1, <1>2

-----------------------------------------------------------------------------
LEMMA HandleStep ==
    ASSUME Inv, NEW c \in Conns, handle_req(c)
    PROVE  Inv'
<1> USE DEF Inv, Shape, Calling, FdsAreAccountedFor, LostNeedsCause, States, Socket, File
<1>1. CASE NotFound(c)
    <2>1. Extra(Head(batch[c])) \in {0, 1}
        BY DEF Extra
    <2> QED BY <1>1, <2>1 DEF NotFound, Takes, Announce, Go, KeepAlive, clients, Replies
<1>2. CASE NoPeriod(c)
    BY <1>2 DEF NoPeriod, Takes, Go, KeepAlive, clients
<1>3. CASE CannotOpen(c)
    <2>1. Extra(Head(batch[c])) \in {0, 1}
        BY DEF Extra
    <2> QED BY <1>3, <2>1 DEF CannotOpen, Takes, Announce, Go, KeepAlive, clients, Replies
<1>4. CASE Open(c)
    <2> DEFINE n == Pieces[Head(batch[c]).file]
    <2>1. Extra(Head(batch[c])) \in {0, 1} /\ n \in Nat
        BY <1>4, HttpAssumption DEF Extra, Open, Takes
    <2>2. /\ pc[c] = "handle" /\ Announce(c, 200, n) /\ fds' = fds \cup {File(c)}
        BY <1>4 DEF Open, Takes
    <2> HIDE DEF n
    <2> QED BY <2>1, <2>2 DEF Announce, Go, KeepAlive, clients, Replies
<1>5. CASE Crash(c)
    BY <1>5 DEF Crash, Takes
<1> QED BY <1>1, <1>2, <1>3, <1>4, <1>5 DEF handle_req

\* A response ends, and with it the use of its FILE.
LEMMA FinishStep ==
    ASSUME Inv, NEW c \in Conns, Finish(c), pc[c] \in {"header", "post", "body"},
           UNCHANGED <<phase, client, age>>, blocked' \in Nat, blocked' >= blocked
    PROVE  Inv'
BY DEF Finish, Go, NoReply, Inv, Shape, Calling, FdsAreAccountedFor, LostNeedsCause, States,
       Replies, Socket, File

\* What happens within a response changes neither its status nor its FILE.
LEMMA WithinStep ==
    ASSUME Inv, NEW c \in Conns, pc[c] \in {"header", "post", "body"},
           pc' \in {pc, [pc EXCEPT ![c] = "post"], [pc EXCEPT ![c] = "body"]},
           NEW n \in Int, reply' \in {reply, [reply EXCEPT ![c].left = n]},
           UNCHANGED <<phase, fds, client, batch, age>>, blocked' \in Nat, blocked' >= blocked
    PROVE  Inv'
<1>1. /\ pc' \in [Conns -> States]
      /\ pc'[c] \in {"header", "post", "body"}
      /\ \A d \in Conns \ {c} : pc'[d] = pc[d]
    BY DEF Inv, Shape, States
<1>2. /\ reply' \in [Conns -> Replies]
      /\ \A d \in Conns : reply'[d].status = reply[d].status
    <2>1. CASE reply' = reply
        BY <2>1 DEF Inv, Shape
    <2>2. CASE reply' = [reply EXCEPT ![c].left = n]
        BY <2>2 DEF Inv, Shape, Replies
    <2> QED BY <2>1, <2>2
<1>3. Shape'
    BY <1>1, <1>2 DEF Inv, Shape
<1>4. Calling'
    BY <1>1 DEF Inv, Calling
<1>5. FdsAreAccountedFor'
    BY <1>1, <1>2 DEF Inv, FdsAreAccountedFor, Socket, File
<1>6. LostNeedsCause'
    BY <1>1 DEF Inv, Shape, LostNeedsCause
<1> QED BY <1>3, <1>4, <1>5, <1>6 DEF Inv

LEMMA SendStep ==
    ASSUME Inv, NEW c \in Conns, send_response(c)
    PROVE  Inv'
<1>1. Written(c) => blocked' \in Nat /\ blocked' >= blocked
    BY DEF Written, FullSocket, Inv, Shape
<1>2. blocked' = blocked => blocked' \in Nat /\ blocked' >= blocked
    BY DEF Inv, Shape
<1>3. reply[c].left - 1 \in Int /\ 0 \in Int
    BY DEF Inv, Shape, Replies
<1>4. CASE SendHeader(c)
    <2>1. CASE Finish(c)
        BY <1>1, <1>4, <2>1, FinishStep DEF SendHeader
    <2>2. CASE Go(c, IF reply[c].post THEN "post" ELSE "body") /\ UNCHANGED <<fds, batch, reply>>
        BY <1>1, <1>3, <1>4, <2>2, WithinStep DEF SendHeader, Go
    <2> QED BY <1>4, <2>1, <2>2 DEF SendHeader
<1>5. CASE SendPost(c)
    BY <1>1, <1>3, <1>5, WithinStep DEF SendPost, Go
<1>6. CASE SearchTag(c)
    BY <1>2, <1>3, <1>6, WithinStep DEF SearchTag, Go, clients
<1>7. CASE SendPiece(c)
    BY <1>1, <1>3, <1>7, WithinStep DEF SendPiece, Go
<1>8. CASE EndReply(c)
    BY <1>2, <1>8, FinishStep DEF EndReply, clients
<1>9. CASE ClientGone(c)
    BY <1>2, <1>9, FinishStep DEF ClientGone, Writes, clients
<1> QED BY <1>4, <1>5, <1>6, <1>7, <1>8, <1>9 DEF send_response

\* The thread that ends with its FILE open ends because of a full socket.
LEMMA WriteFailsStep ==
    ASSUME Inv, NEW c \in Conns, WriteFails(c)
    PROVE  Inv'
<1>1. pc[c] \in {"header", "post", "body"} /\ blocked' = blocked + 1
    BY DEF WriteFails, Writes, FullSocket
<1> QED
    BY <1>1 DEF WriteFails, Lose, Go, clients, Inv, Shape, Calling, FdsAreAccountedFor,
           LostNeedsCause, States, Socket, File

LEMMA NextInv == Inv /\ [Next]_vars => Inv'
<1> SUFFICES ASSUME Inv, [Next]_vars
             PROVE  Inv'
    OBVIOUS
<1>1. ASSUME NEW c \in Conns, Leave(c) \/ \E r \in Requests : Ask(c, r)
      PROVE  Inv'
    BY <1>1, ClientStep
<1>2. ASSUME NEW c \in Conns, Accept(c)
      PROVE  Inv'
    BY <1>2, AcceptStep
<1>3. ASSUME NEW c \in Conns, Thread(c) \/ TimeOut(c) \/ ReadFails(c)
      PROVE  Inv'
    BY <1>3, ReadStep, BatchStep, HandleStep, SendStep DEF Thread
<1>4. ASSUME NEW c \in Conns, WriteFails(c)
      PROVE  Inv'
    BY <1>4, WriteFailsStep
<1>5. CASE Tick
    BY <1>5, TickStep
<1>6. CASE UNCHANGED vars
    BY <1>6 DEF vars, clients, threads, Inv, Shape, Calling, FdsAreAccountedFor,
           LostNeedsCause, Socket, File
<1> QED BY <1>1, <1>2, <1>3, <1>4, <1>5, <1>6 DEF Next

LEMMA InvAlways == Spec => []Inv
<1> QED BY InitInv, NextInv, PTL DEF Spec

-----------------------------------------------------------------------------
(* The theorems.                                                           *)

\* Every descriptor in use is the socket of a thread that runs or was lost, or the
\* FILE of a response that is being sent or was broken off: no other error path of
\* send_response and handle_req leaks one.
THEOREM Descriptors == Spec => []FdsAreAccountedFor
<1>1. Inv => FdsAreAccountedFor
    BY DEF Inv
<1> QED BY <1>1, InvAlways, PTL

\* A thread that ends without close had a full socket, a vanished client or a file
\* without a period; a client that goes away in the middle of a response is none of them.
THEOREM NobodyIsLostForNothing == Spec => []LostNeedsCause
<1>1. Inv => LostNeedsCause
    BY DEF Inv
<1> QED BY <1>1, InvAlways, PTL

\* Comparing seconds and nanoseconds one by one makes the deadline of a kept
\* connection late, never early, whatever the deadline and the clock's resolution.
THEOREM NeverCutEarly == Spec => CutsOnlyTheIdle
<1> DEFINE Allowed(c) ==
        \/ client[c] = "left"
        \/ inbox[c] = <<>> /\ age[c] >= Timeout * Ticks
        \/ \E d \in Conns : pc[d] = "handle" /\ pc'[d] = "closed" /\ d # c
    Step == \A c \in Conns : pc[c] = "read" /\ pc'[c] = "closed" /\ pc'[c] # pc[c] => Allowed(c)
<1>1. ASSUME Inv, Next
      PROVE  Step
    <2> SUFFICES ASSUME NEW c \in Conns, pc[c] = "read", pc'[c] = "closed"
                 PROVE  Allowed(c)
        OBVIOUS
    <2>1. ASSUME NEW d \in Conns, Thread(d) \/ TimeOut(d), d = c
          PROVE  Allowed(c)
        <3>1. CASE ReadEnds(c)
            BY <3>1 DEF ReadEnds
        <3>2. CASE TimeOut(c)
            <4>1. /\ phase \in 0 .. Ticks - 1 /\ age[c] \in Nat
                  /\ Timeout \in Nat /\ Ticks \in Nat \ {0}
                BY <1>1, HttpAssumption DEF Inv, Shape
            <4>2. /\ (((phase - age[c]) % Ticks) + age[c]) \div Ticks >= Timeout
                  /\ (phase - age[c]) % Ticks <= phase
                BY <3>2 DEF TimeOut, Deadline
            <4>3. age[c] >= Timeout * Ticks
                BY <4>1, <4>2, DeadlineIsNeverEarly
            <4> QED BY <3>2, <4>3 DEF TimeOut
        <3>3. CASE Read(c)
            BY <1>1, <3>3 DEF Read, Go, Inv, Shape
        <3> QED
            BY <2>1, <3>1, <3>2, <3>3 DEF Thread, Skip, EndBatch, handle_req, NotFound, NoPeriod,
                   CannotOpen, Open, Crash, Takes, send_response, SendHeader, SendPost,
                   SearchTag, SendPiece, EndReply, ClientGone, Writes
    <2>2. ASSUME NEW d \in Conns, Crash(d)
          PROVE  Allowed(c)
        BY <1>1, <2>2 DEF Crash, Takes, Inv, Shape, States
    <2>3. ASSUME NEW d \in Conns, d # c, ~Crash(d),
                 Accept(d) \/ Thread(d) \/ TimeOut(d) \/ ReadFails(d) \/ WriteFails(d)
          PROVE  FALSE
        <3>1. pc'[c] = pc[c]
            BY <1>1, <2>3 DEF Inv, Shape, Accept, Thread, TimeOut, ReadFails, WriteFails, Read,
                   ReadEnds, Skip, EndBatch, handle_req, NotFound, NoPeriod, CannotOpen, Open,
                   Announce, send_response, SendHeader, SendPost, SearchTag, SendPiece, EndReply,
                   ClientGone, Finish, Close, Lose, Go
        <3> QED BY <3>1
    <2>4. ASSUME NEW d \in Conns, d = c, Accept(d) \/ ReadFails(d) \/ WriteFails(d)
          PROVE  FALSE
        BY <1>1, <2>4 DEF Inv, Shape, Calling, Accept, ReadFails, WriteFails, Writes, Lose, Go
    <2>5. CASE Tick \/ \E d \in Conns : Leave(d) \/ \E r \in Requests : Ask(d, r)
        BY <2>5 DEF Tick, Leave, Ask, threads
    <2> QED BY <1>1, <2>1, <2>2, <2>3, <2>4, <2>5 DEF Next
<1>2. Inv /\ [Next]_vars => [Step]_vars
    BY <1>1
<1>3. QED
    BY <1>2, InvAlways, PTL DEF Spec, CutsOnlyTheIdle

-----------------------------------------------------------------------------
(* get_next_header.                                                        *)

LEMMA Least ==
    ASSUME NEW T, T \subseteq Nat, T # {}
    PROVE  \E x \in T : \A y \in T : x <= y
<1>1. PICK x \in T : \A y \in T : ~(<<y, x>> \in OpToRel(<, Nat))
    BY WFMin, NatLessThanWellFounded
<1>2. \A y \in T : ~(y < x)
    BY <1>1 DEF OpToRel
<1> QED BY <1>2

\* The headers from request i on, given those further on.
From(s, h, i) ==
    IF i > Len(s) THEN <<>>
    ELSE IF i > 1 /\ s[i].meth = "OTHER" THEN h[i + 1]
    ELSE <<s[i]>> \o h[i + 1]

Headers(s, h) == h = [i \in 1 .. Len(s) + 1 |-> From(s, h, i)]

LEMMA FoundIs == \A s : Found(s) = (CHOOSE h : Headers(s, h))[1]
BY DEF Found, Headers, From

\* The recursion ends: it goes from the last request to the first.
LEMMA HeadersExist ==
    ASSUME NEW T, NEW s \in Seq(T)
    PROVE  \E h : Headers(s, h)
<1> DEFINE L == Len(s)
           Upto(k) == \E h : h = [i \in k .. L + 1 |-> From(s, h, i)]
           Bad == {k \in Nat : k <= L /\ ~Upto(L + 1 - k)}
<1>0. L \in Nat
    OBVIOUS
<1>1. SUFFICES ASSUME ~Upto(1)
               PROVE  FALSE
    BY <1>1 DEF Headers
<1>2. L \in Bad
    <2>1. L + 1 - L = 1
        BY <1>0
    <2> QED BY <1>0, <1>1, <2>1
<1>3. PICK k \in Bad : \A m \in Bad : k <= m
    <2>1. Bad \in SUBSET Nat /\ Bad # {}
        BY <1>2
    <2> HIDE DEF Bad
    <2> QED BY <2>1, Least
<1> DEFINE a == L + 1 - k
<1>4. k \in Nat /\ k <= L /\ ~Upto(a) /\ a \in 1 .. L + 1
    BY <1>0, <1>3
<1> HIDE DEF Bad
<1>5. PICK f : \A i \in a + 1 .. L + 1 : f[i] = From(s, f, i)
    <2>1. CASE k = 0
        BY <2>1, <1>0
    <2>2. CASE k # 0
        <3>1. k - 1 \in Nat /\ k - 1 <= L /\ L + 1 - (k - 1) = a + 1
            BY <2>2, <1>0, <1>4
        <3>2. k - 1 \notin Bad
            BY <3>1, <1>3, <1>4
        <3>3. Upto(L + 1 - (k - 1))
            BY <3>1, <3>2 DEF Bad
        <3>4. Upto(a + 1)
            BY <3>1, <3>3
        <3>5. PICK f : f = [i \in a + 1 .. L + 1 |-> From(s, f, i)]
            BY <3>4
        <3> HIDE DEF L, a
        <3>6. \A i \in a + 1 .. L + 1 : f[i] = From(s, f, i)
            BY <3>5
        <3> QED BY <3>6
    <2> QED BY <2>1, <2>2
<1> DEFINE h == [i \in a .. L + 1 |-> From(s, f, i)]
<1>6. \A i \in a + 1 .. L + 1 : h[i] = f[i]
    <2>1. \A i \in a + 1 .. L + 1 : i \in a .. L + 1
        BY <1>0, <1>4
    <2> HIDE DEF L, a
    <2> QED BY <2>1, <1>5
<1>7. \A i \in a .. L + 1 : From(s, h, i) = From(s, f, i)
    <2> TAKE i \in a .. L + 1
    <2>1. CASE i > Len(s)
        BY <2>1 DEF From
    <2>2. CASE ~(i > Len(s))
        <3>1. i + 1 \in a + 1 .. L + 1
            BY <1>0, <1>4, <2>2
        <3>2. h[i + 1] = f[i + 1]
            <4> HIDE DEF h, a, L
            <4> QED BY <1>6, <3>1
        <3> HIDE DEF h
        <3> QED BY <2>2, <3>2 DEF From
    <2> QED BY <2>1, <2>2
<1>8. h = [i \in a .. L + 1 |-> From(s, h, i)]
    <2>1. \A i \in a .. L + 1 : h[i] = From(s, h, i)
        BY <1>7
    <2>2. h = [i \in a .. L + 1 |-> h[i]]
        OBVIOUS
    <2> HIDE DEF h, L, a
    <2> QED BY <2>1, <2>2
<1>9. Upto(a)
    <2> HIDE DEF h, L, a
    <2> QED BY <1>8
<1> QED BY <1>4, <1>9

\* What it takes for requests are requests of the buffer.
LEMMA FoundTyped ==
    ASSUME NEW T, NEW s \in Seq(T)
    PROVE  Found(s) \in Seq(T)
<1> DEFINE h == CHOOSE f : Headers(s, f)
           L == Len(s)
           Bad == {k \in Nat : k <= L /\ h[L + 1 - k] \notin Seq(T)}
<1>0. L \in Nat
    OBVIOUS
<1>1. Headers(s, h)
    BY HeadersExist
<1> HIDE DEF h
<1>2. SUFFICES ASSUME h[1] \notin Seq(T)
               PROVE  FALSE
    BY FoundIs DEF h
<1>3. L \in Bad
    <2>1. L + 1 - L = 1
        BY <1>0
    <2> QED BY <1>0, <1>2, <2>1
<1>4. PICK k \in Bad : \A m \in Bad : k <= m
    <2>1. Bad \in SUBSET Nat /\ Bad # {}
        BY <1>3
    <2> HIDE DEF Bad
    <2> QED BY <2>1, Least
<1> DEFINE a == L + 1 - k
<1>5. k \in Nat /\ k <= L /\ h[a] \notin Seq(T) /\ a \in 1 .. L + 1
    BY <1>0, <1>4
<1>6. h[a] = From(s, h, a)
    BY <1>5, <1>1 DEF Headers
<1>7. CASE k = 0
    BY <1>0, <1>5, <1>6, <1>7 DEF From
<1>8. CASE k # 0
    <2>1. k - 1 \in Nat /\ k - 1 <= L /\ L + 1 - (k - 1) = a + 1
        BY <1>8, <1>0, <1>5
    <2>2. k - 1 \notin Bad
        <3> HIDE DEF Bad
        <3> QED BY <2>1, <1>4, <1>5
    <2>3. h[a + 1] \in Seq(T)
        BY <2>1, <2>2
    <2>4. a \in 1 .. Len(s)
        BY <1>0, <1>5, <1>8
    <2>5. <<s[a]>> \o h[a + 1] \in Seq(T)
        <3>1. s[a] \in T
            BY <2>4
        <3> QED BY <2>3, <3>1
    <2>6. h[a] = h[a + 1] \/ h[a] = <<s[a]>> \o h[a + 1]
        <3> HIDE DEF a
        <3> QED BY <1>6, <2>4 DEF From
    <2> QED BY <1>5, <2>3, <2>5, <2>6
<1> QED BY <1>7, <1>8

-----------------------------------------------------------------------------
(* What a client is getting.                                               *)

\* The header announces what is left of the file and what a POST adds to it; without a
\* FILE nothing is left.  Only a POST to a file goes through the search for the body tag.
Announced(c) ==
    /\ pc[c] \in {"header", "post", "body"} =>
        /\ batch[c] # <<>>
        /\ Head(batch[c]).meth \in {"GET", "POST"}
        /\ reply[c].post <=> Head(batch[c]).meth = "POST"
    /\ pc[c] \in {"header", "post"} /\ File(c) \in fds =>
        /\ Head(batch[c]).file \in DOMAIN Pieces
        /\ reply[c].left = Pieces[Head(batch[c]).file]
    /\ pc[c] = "header" =>
        /\ reply[c].status \in {200, 404}
        /\ reply[c].size = reply[c].left + Extra(Head(batch[c]))
        /\ File(c) \notin fds => reply[c].left = 0
    /\ pc[c] = "post" => File(c) \in fds /\ reply[c].post
    /\ pc[c] \in {"post", "body"} /\ client[c] = "here" => got[c] # <<>>

Done(a) == a.pieces <= a.size /\ (a.pieces = a.size \/ Hollow(a))

\* The response that a client is getting, if there is one, is its last.
Last(c) == got[c][Len(got[c])]

\* All responses are complete but the one that is being sent: of it, what is
\* missing is what is left.
Framed(c) ==
    /\ \A i \in DOMAIN got[c] : Done(got[c][i]) \/ (i = Len(got[c]) /\ pc[c] \in {"post", "body", "lost"})
    /\ \A i \in DOMAIN got[c] : got[c][i].pieces <= got[c][i].size
    /\ pc[c] = "post" =>
        /\ Last(c).for = Head(batch[c]) /\ Last(c).pieces = 0
        /\ Last(c).size = reply[c].left + 1
    /\ pc[c] = "body" =>
        \/ Last(c).pieces + reply[c].left = Last(c).size
        \/ Hollow(Last(c)) /\ reply[c].left = 0

Frames == \A c \in Conns : intact[c] /\ client[c] = "here" => Framed(c)

-----------------------------------------------------------------------------
(* Types, and descriptors that are not more than there are.                *)

Answers == [for : Requests, status : {200, 404}, size : Nat, pieces : Nat]

\* Nothing of a connection is known before accept.
Fresh(c) == client[c] = "calling" => pc[c] = "none" /\ got[c] = <<>>

Typed == TypeOK /\ IsFiniteSet(fds)

LEMMA FdsStep ==
    ASSUME Typed, [Next]_vars
    PROVE  /\ fds' \subseteq {"socket", "FILE"} \X Conns
           /\ IsFiniteSet(fds') /\ Cardinality(fds') <= MaxFds
<1>0. /\ fds \subseteq {"socket", "FILE"} \X Conns
      /\ IsFiniteSet(fds) /\ Cardinality(fds) <= MaxFds
      /\ MaxFds \in Nat /\ Cardinality(fds) \in Nat
    BY HttpAssumption, FS_CardinalityType DEF Typed, TypeOK
<1>1. ASSUME NEW x \in {"socket", "FILE"} \X Conns, Cardinality(fds) < MaxFds, fds' = fds \cup {x}
      PROVE  /\ fds' \subseteq {"socket", "FILE"} \X Conns
             /\ IsFiniteSet(fds') /\ Cardinality(fds') <= MaxFds
    <2>1. /\ IsFiniteSet(fds')
          /\ Cardinality(fds') = Cardinality(fds) \/ Cardinality(fds') = Cardinality(fds) + 1
        BY <1>0, <1>1, FS_AddElement, Zenon
    <2>2. Cardinality(fds') <= MaxFds
        BY <1>0, <1>1, <2>1
    <2> QED BY <1>0, <1>1, <2>1, <2>2
<1>2. ASSUME NEW x, fds' = fds \ {x}
      PROVE  /\ fds' \subseteq {"socket", "FILE"} \X Conns
             /\ IsFiniteSet(fds') /\ Cardinality(fds') <= MaxFds
    <2>1. IsFiniteSet(fds')
        BY <1>0, <1>2, FS_Subset
    <2>2. Cardinality(fds') <= Cardinality(fds) /\ Cardinality(fds') \in Nat
        BY <1>0, <1>2, <2>1, FS_Subset, FS_CardinalityType
    <2> QED BY <1>0, <1>2, <2>1, <2>2
<1>3. ASSUME fds' = {}
      PROVE  /\ fds' \subseteq {"socket", "FILE"} \X Conns
             /\ IsFiniteSet(fds') /\ Cardinality(fds') <= MaxFds
    <2>1. IsFiniteSet({}) /\ Cardinality({}) = 0
        BY FS_EmptySet
    <2> QED BY <1>0, <1>3, <2>1
<1>4. ASSUME fds' = fds
      PROVE  /\ fds' \subseteq {"socket", "FILE"} \X Conns
             /\ IsFiniteSet(fds') /\ Cardinality(fds') <= MaxFds
    BY <1>0, <1>4
<1>5. \A c \in Conns : Socket(c) \in {"socket", "FILE"} \X Conns /\ File(c) \in {"socket", "FILE"} \X Conns
    BY DEF Socket, File
<1>6. ASSUME NEW c \in Conns, Thread(c) \/ TimeOut(c) \/ ReadFails(c) \/ WriteFails(c) \/ Accept(c)
      PROVE  \/ Cardinality(fds) < MaxFds /\ fds' = fds \cup {Socket(c)}
             \/ Cardinality(fds) < MaxFds /\ fds' = fds \cup {File(c)}
             \/ fds' = fds \ {Socket(c)} \/ fds' = fds \ {File(c)}
             \/ fds' = {} \/ fds' = fds
    BY <1>6 DEF Accept, Thread, TimeOut, ReadFails, WriteFails, Read, ReadEnds, Skip, EndBatch,
           handle_req, NotFound, NoPeriod, CannotOpen, Open, Crash, send_response, SendHeader,
           SendPost, SearchTag, SendPiece, EndReply, ClientGone, Finish, Close, Lose
<1>7. ASSUME NEW c \in Conns, Leave(c) \/ (\E r \in Requests : Ask(c, r)) \/ Tick
      PROVE  fds' = fds
    BY <1>7 DEF Leave, Ask, Tick
<1>8. UNCHANGED vars => fds' = fds
    BY DEF vars
<1>9. Tick => fds' = fds
    BY DEF Tick
<1> QED BY <1>1, <1>2, <1>3, <1>4, <1>5, <1>6, <1>7, <1>8, <1>9 DEF Next

LEMMA InitTyped == Init => Typed
<1> SUFFICES ASSUME Init
             PROVE  Typed
    OBVIOUS
<1>1. IsFiniteSet(fds) /\ Cardinality(fds) = 0
    BY FS_EmptySet DEF Init
<1>2. 0 \in 0 .. (Timeout + 2) * Ticks - 1 /\ 0 <= MaxFds
    <2>1. /\ Ticks \in Nat /\ Ticks > 0 /\ Timeout \in Nat /\ Timeout * Ticks \in Nat
          /\ (Timeout + 2) * Ticks = Timeout * Ticks + 2 * Ticks
        BY HttpAssumption
    <2> QED BY <2>1, HttpAssumption
<1>3. /\ client \in [Conns -> {"calling", "here", "left", "vanished"}]
      /\ inbox \in [Conns -> Seq(Requests)]
      /\ got \in [Conns -> Seq([for : Requests, status : {200, 404}, size : Nat, pieces : Nat])]
      /\ pc \in [Conns -> {"none", "read", "handle", "header", "post", "body", "closed", "lost"}]
      /\ batch \in [Conns -> Seq(Requests)]
    BY DEF Init
<1>4. /\ keep \in [Conns -> BOOLEAN]
      /\ timed \in [Conns -> BOOLEAN]
      /\ age \in [Conns -> 0 .. (Timeout + 2) * Ticks - 1]
      /\ reply \in [Conns -> [status : {0, 200, 404}, size : Nat, left : Nat, post : BOOLEAN]]
      /\ intact \in [Conns -> BOOLEAN]
    BY <1>2 DEF Init, NoReply
<1>5. /\ fds \subseteq {"socket", "FILE"} \X Conns
      /\ Cardinality(fds) <= MaxFds
      /\ phase \in 0 .. Ticks - 1
      /\ {asked, blocked} \subseteq Nat
    BY <1>1, <1>2 DEF Init
<1> QED BY <1>1, <1>3, <1>4, <1>5 DEF Typed, TypeOK

\* All of TypeOK but the descriptors.
Data ==
    /\ phase \in 0 .. Ticks - 1
    /\ client \in [Conns -> {"calling", "here", "left", "vanished"}]
    /\ inbox \in [Conns -> Seq(Requests)]
    /\ got \in [Conns -> Seq(Answers)]
    /\ pc \in [Conns -> States]
    /\ batch \in [Conns -> Seq(Requests)]
    /\ keep \in [Conns -> BOOLEAN]
    /\ timed \in [Conns -> BOOLEAN]
    /\ age \in [Conns -> 0 .. (Timeout + 2) * Ticks - 1]
    /\ reply \in [Conns -> [status : {0, 200, 404}, size : Nat, left : Nat, post : BOOLEAN]]
    /\ intact \in [Conns -> BOOLEAN]
    /\ asked \in Nat /\ blocked \in Nat

LEMMA DataIs ==
    TypeOK <=> /\ Data
               /\ fds \subseteq {"socket", "FILE"} \X Conns
               /\ Cardinality(fds) <= MaxFds
<1>1. {asked, blocked} \subseteq Nat <=> asked \in Nat /\ blocked \in Nat
    OBVIOUS
<1> QED BY <1>1, Zenon DEF TypeOK, Data, Answers, States

LEMMA AgeRange ==
    /\ 0 \in 0 .. (Timeout + 2) * Ticks - 1
    /\ \A a \in 0 .. (Timeout + 2) * Ticks - 1 :
        (IF a + 1 < (Timeout + 2) * Ticks THEN a + 1 ELSE a + 1 - Ticks)
            \in 0 .. (Timeout + 2) * Ticks - 1
<1> DEFINE N == (Timeout + 2) * Ticks
<1>1. Ticks \in Nat \ {0} /\ Timeout \in Nat
    BY HttpAssumption
<1>2. N \in Nat /\ N >= 2 * Ticks
    <2>1. Timeout * Ticks \in Nat /\ N = Timeout * Ticks + 2 * Ticks
        BY <1>1
    <2> QED BY <1>1, <2>1
<1> HIDE DEF N
<1>3. 0 \in 0 .. N - 1
    BY <1>1, <1>2
<1>4. \A a \in 0 .. N - 1 : (IF a + 1 < N THEN a + 1 ELSE a + 1 - Ticks) \in 0 .. N - 1
    BY <1>1, <1>2
<1> QED BY <1>3, <1>4 DEF N

LEMMA ClientData ==
    ASSUME Data, NEW c \in Conns, Leave(c) \/ (\E r \in Requests : Ask(c, r)) \/ Accept(c)
    PROVE  Data'
<1>1. CASE Leave(c)
    BY <1>1 DEF Leave, threads, Data
<1>2. ASSUME NEW r \in Requests, Ask(c, r)
      PROVE  Data'
    BY <1>2 DEF Ask, threads, Data
<1>3. CASE Accept(c)
    BY <1>3, AgeRange DEF Accept, Go, Data, States
<1> QED BY <1>1, <1>2, <1>3

LEMMA TickData ==
    ASSUME Data, Tick
    PROVE  Data'
<1>1. phase' \in 0 .. Ticks - 1
    BY HttpAssumption DEF Tick, Data
<1>2. age' \in [Conns -> 0 .. (Timeout + 2) * Ticks - 1]
    <2> DEFINE R == 0 .. (Timeout + 2) * Ticks - 1
    <2>1. \A c \in Conns : age[c] \in R
        BY DEF Data
    <2>2. \A c \in Conns :
            (IF c \notin Live \/ ~keep[c] THEN 0
             ELSE IF age[c] + 1 < (Timeout + 2) * Ticks THEN age[c] + 1
             ELSE age[c] + 1 - Ticks) \in R
        BY <2>1, AgeRange
    <2> HIDE DEF R
    <2> QED BY <2>2 DEF Tick, R
<1> QED BY <1>1, <1>2 DEF Tick, clients, threads, Data

LEMMA CloseData ==
    ASSUME Data, NEW c \in Conns, Close(c)
    PROVE  Data'
BY DEF Close, Go, Data, States

LEMMA LoseData ==
    ASSUME Data, NEW c \in Conns, Lose(c), blocked' \in Nat
    PROVE  Data'
BY DEF Lose, Go, clients, Data, States

LEMMA KeepAliveData ==
    ASSUME Data, NEW c \in Conns, batch[c] # <<>>, KeepAlive(c)
    PROVE  /\ keep' \in [Conns -> BOOLEAN]
           /\ age' \in [Conns -> 0 .. (Timeout + 2) * Ticks - 1]
<1>1. Head(batch[c]) \in Requests
    BY DEF Data
<1>2. Head(batch[c]).keep \in BOOLEAN
    BY <1>1, HttpAssumption
<1> QED BY <1>2, AgeRange DEF KeepAlive, get_keep_alive, Data

LEMMA ReadData ==
    ASSUME Data, NEW c \in Conns,
           Read(c) \/ ReadEnds(c) \/ TimeOut(c) \/ ReadFails(c) \/ Skip(c) \/ EndBatch(c)
    PROVE  Data'
<1>0. blocked \in Nat
    BY DEF Data
<1>1. CASE Read(c)
    <2>1. Found(inbox[c]) \in Seq(Requests)
        BY FoundTyped DEF Data
    <2> HIDE DEF Found
    <2> QED BY <1>1, <2>1 DEF Read, Go, Data, States
<1>2. CASE ReadEnds(c) \/ TimeOut(c)
    BY <1>2, CloseData DEF ReadEnds, TimeOut
<1>3. CASE ReadFails(c)
    BY <1>0, <1>3, LoseData DEF ReadFails
<1>4. CASE Skip(c)
    <2>1. /\ keep' \in [Conns -> BOOLEAN]
          /\ age' \in [Conns -> 0 .. (Timeout + 2) * Ticks - 1]
        <3>1. CASE UNCHANGED <<keep, age>>
            BY <3>1 DEF Data
        <3>2. CASE KeepAlive(c)
            BY <1>4, <3>2, KeepAliveData DEF Skip
        <3> QED BY <1>4, <3>1, <3>2 DEF Skip
    <2>2. Tail(batch[c]) \in Seq(Requests)
        BY <1>4 DEF Skip, Data
    <2> QED BY <1>4, <2>1, <2>2 DEF Skip, clients, Data
<1>5. CASE EndBatch(c)
    <2>1. CASE Close(c)
        BY <2>1, CloseData
    <2>2. CASE Go(c, "read") /\ UNCHANGED <<phase, fds, clients, batch, keep, timed, age,
                                           reply, intact, asked, blocked>>
        BY <2>2 DEF Go, clients, Data, States
    <2> QED BY <1>5, <2>1, <2>2 DEF EndBatch
<1> QED BY <1>1, <1>2, <1>3, <1>4, <1>5

LEMMA AnnounceData ==
    ASSUME Data, NEW c \in Conns, batch[c] # <<>>, NEW status \in {200, 404}, NEW n \in Nat,
           Announce(c, status, n)
    PROVE  Data'
<1>1. Extra(Head(batch[c])) \in {0, 1}
    BY DEF Extra
<1>2. /\ keep' \in [Conns -> BOOLEAN]
      /\ age' \in [Conns -> 0 .. (Timeout + 2) * Ticks - 1]
    BY KeepAliveData DEF Announce
<1>3. [status |-> status, size |-> n + Extra(Head(batch[c])), left |-> n, post |-> Head(batch[c]).meth = "POST"]
        \in [status : {0, 200, 404}, size : Nat, left : Nat, post : BOOLEAN]
    BY <1>1
<1>4. reply' \in [Conns -> [status : {0, 200, 404}, size : Nat, left : Nat, post : BOOLEAN]]
    BY <1>3 DEF Announce, Data
<1> QED BY <1>2, <1>4 DEF Announce, Go, clients, Data, States

LEMMA HandleData ==
    ASSUME Data, NEW c \in Conns, handle_req(c)
    PROVE  Data'
<1>1. CASE NotFound(c)
    BY <1>1, AnnounceData DEF NotFound, Takes
<1>2. CASE NoPeriod(c)
    <2>1. /\ keep' \in [Conns -> BOOLEAN]
          /\ age' \in [Conns -> 0 .. (Timeout + 2) * Ticks - 1]
        BY <1>2, KeepAliveData DEF NoPeriod, Takes
    <2> QED BY <1>2, <2>1 DEF NoPeriod, Go, clients, Data, States
<1>3. CASE CannotOpen(c)
    BY <1>3, AnnounceData DEF CannotOpen, Takes
<1>4. CASE Open(c)
    <2>1. Pieces[Head(batch[c]).file] \in Nat
        BY <1>4, HttpAssumption DEF Open, Takes
    <2> QED BY <1>4, <2>1, AnnounceData DEF Open, Takes
<1>5. CASE Crash(c)
    BY <1>5 DEF Crash, Data, States
<1> QED BY <1>1, <1>2, <1>3, <1>4, <1>5 DEF handle_req

LEMMA FinishData ==
    ASSUME Data, NEW c \in Conns, batch[c] # <<>>, Finish(c)
    PROVE  /\ pc' \in [Conns -> States]
           /\ batch' \in [Conns -> Seq(Requests)]
           /\ reply' \in [Conns -> [status : {0, 200, 404}, size : Nat, left : Nat, post : BOOLEAN]]
<1>1. Tail(batch[c]) \in Seq(Requests)
    BY DEF Data
<1> QED BY <1>1 DEF Finish, Go, NoReply, Data, States

LEMMA LeftData ==
    ASSUME Data, NEW c \in Conns, NEW n \in Nat, reply' = [reply EXCEPT ![c].left = n]
    PROVE  reply' \in [Conns -> [status : {0, 200, 404}, size : Nat, left : Nat, post : BOOLEAN]]
<1> DEFINE R == [status : {0, 200, 404}, size : Nat, left : Nat, post : BOOLEAN]
<1>1. reply \in [Conns -> R] /\ reply[c] \in R
    BY DEF Data
<1>2. [reply[c] EXCEPT !.left = n] \in R
    BY <1>1
<1>3. reply' = [reply EXCEPT ![c] = [reply[c] EXCEPT !.left = n]]
    OBVIOUS
<1> HIDE DEF R
<1>4. reply' \in [Conns -> R]
    BY <1>1, <1>2, <1>3
<1> QED BY <1>4 DEF R

LEMMA WrittenData ==
    ASSUME Data, NEW c \in Conns, Written(c)
    PROVE  blocked' \in Nat /\ intact' \in [Conns -> BOOLEAN]
<1>1. blocked \in Nat /\ intact \in [Conns -> BOOLEAN]
    BY DEF Data
<1>2. CASE UNCHANGED <<intact, blocked>>
    BY <1>1, <1>2
<1>3. CASE FullSocket(c) /\ intact' = [intact EXCEPT ![c] = FALSE]
    <2>1. blocked' \in Nat
        BY <1>1, <1>3 DEF FullSocket
    <2>2. intact' \in [Conns -> BOOLEAN]
        BY <1>1, <1>3
    <2> QED BY <2>1, <2>2
<1> QED BY <1>2, <1>3 DEF Written

LEMMA GetsHeaderData ==
    ASSUME Data, NEW c \in Conns, batch[c] # <<>>, reply[c].status \in {200, 404}, GetsHeader(c)
    PROVE  got' \in [Conns -> Seq(Answers)]
<1>1. Head(batch[c]) \in Requests /\ reply[c].size \in Nat
    BY DEF Data
<1>2. [for |-> Head(batch[c]), status |-> reply[c].status, size |-> reply[c].size, pieces |-> 0] \in Answers
    BY <1>1 DEF Answers
<1>3. got[c] \in Seq(Answers) /\ got \in [Conns -> Seq(Answers)]
    BY DEF Data
<1>4. Append(got[c], [for |-> Head(batch[c]), status |-> reply[c].status,
                      size |-> reply[c].size, pieces |-> 0]) \in Seq(Answers)
    BY <1>2, <1>3
<1> QED BY <1>3, <1>4 DEF GetsHeader

\* What GetsPieces does to a response that has begun.
LEMMA GetsPiecesIs ==
    ASSUME Data, NEW c \in Conns, NEW n \in Nat, GetsPieces(c, n), client[c] = "here", got[c] # <<>>
    PROVE  /\ got' = [got EXCEPT ![c] = [got[c] EXCEPT ![Len(got[c])] =
                                            [Last(c) EXCEPT !.pieces = Last(c).pieces + n]]]
           /\ got'[c] \in Seq(Answers)
           /\ Len(got'[c]) = Len(got[c])
           /\ \A i \in 1 .. Len(got[c]) - 1 : got'[c][i] = got[c][i]
           /\ got'[c][Len(got[c])] = [Last(c) EXCEPT !.pieces = Last(c).pieces + n]
<1> DEFINE L == Len(got[c])
           new == [Last(c) EXCEPT !.pieces = Last(c).pieces + n]
<1>1. got' = [got EXCEPT ![c] = [got[c] EXCEPT ![L] = new]]
    BY DEF GetsPieces, Last
<1>2. got \in [Conns -> Seq(Answers)] /\ got[c] \in Seq(Answers) /\ L \in DOMAIN got[c] /\ L \in Nat
    BY DEF Data
<1>3. Last(c) \in Answers
    BY <1>2 DEF Last
<1>4. new \in Answers
    BY <1>3 DEF Answers
<1> HIDE DEF new
<1>5. got'[c] = [got[c] EXCEPT ![L] = new]
    BY <1>1, <1>2
<1>6. [got[c] EXCEPT ![L] = new] \in Seq(Answers)
    <2> HIDE DEF L, Answers
    <2> QED BY <1>2, <1>4, ExceptSeq
<1>7. Len([got[c] EXCEPT ![L] = new]) = L
    <2> HIDE DEF Answers
    <2> QED BY <1>2, <1>4, ExceptSeq
<1>8. \A i \in 1 .. L - 1 : [got[c] EXCEPT ![L] = new][i] = got[c][i]
    BY <1>2
<1>9. [got[c] EXCEPT ![L] = new][L] = new
    BY <1>2
<1> HIDE DEF L
<1>10. /\ got'[c] \in Seq(Answers) /\ Len(got'[c]) = L
       /\ \A i \in 1 .. L - 1 : got'[c][i] = got[c][i]
       /\ got'[c][L] = new
    BY <1>5, <1>6, <1>7, <1>8, <1>9
<1> QED BY <1>1, <1>10 DEF new, L

LEMMA GetsPiecesData ==
    ASSUME Data, NEW c \in Conns, NEW n \in Nat, GetsPieces(c, n), client[c] = "here" => got[c] # <<>>
    PROVE  got' \in [Conns -> Seq(Answers)]
<1>1. CASE client[c] # "here"
    BY <1>1 DEF GetsPieces, Data
<1>2. CASE client[c] = "here"
    <2>1. got'[c] \in Seq(Answers)
        BY <1>2, GetsPiecesIs
    <2>2. got' = [got EXCEPT ![c] = got'[c]]
        <3>1. PICK x : got' = [got EXCEPT ![c] = x]
            BY <1>2, GetsPiecesIs
        <3> QED BY <3>1 DEF Data
    <2> QED BY <2>1, <2>2 DEF Data
<1> QED BY <1>1, <1>2

\* One state of a connection.
Local(c) == Announced(c) /\ Fresh(c) /\ (intact[c] /\ client[c] = "here" => Framed(c))

\* A step that leaves a connection alone.
Same(d) ==
    /\ pc'[d] = pc[d] /\ client'[d] = client[d] /\ got'[d] = got[d]
    /\ batch'[d] = batch[d] /\ reply'[d] = reply[d] /\ intact'[d] = intact[d]
    /\ File(d) \in fds' <=> File(d) \in fds

LEMMA SameLocal ==
    ASSUME NEW d, Local(d), Same(d)
    PROVE  Local(d)'
BY DEF Same, Local, Announced, Fresh, Framed, Last, File

\* Nothing but the crash of the program reaches another connection.
LEMMA Elsewhere ==
    ASSUME Data, NEW c \in Conns, NEW d \in Conns, d # c, ~Crash(c),
           \/ Leave(c) \/ (\E r \in Requests : Ask(c, r))
           \/ Accept(c) \/ Thread(c) \/ TimeOut(c) \/ ReadFails(c) \/ WriteFails(c)
    PROVE  Same(d)
<1>0. /\ DOMAIN pc = Conns /\ DOMAIN client = Conns /\ DOMAIN got = Conns
      /\ DOMAIN batch = Conns /\ DOMAIN reply = Conns /\ DOMAIN intact = Conns
    BY DEF Data
<1> USE <1>0 DEF Same, Socket, File, clients, threads
<1>1. CASE Leave(c) \/ (\E r \in Requests : Ask(c, r)) \/ Accept(c)
    BY <1>1 DEF Leave, Ask, Accept, Go
<1>2. CASE Read(c) \/ ReadEnds(c) \/ TimeOut(c) \/ ReadFails(c) \/ WriteFails(c) \/ Skip(c) \/ EndBatch(c)
    BY <1>2 DEF Read, ReadEnds, TimeOut, ReadFails, WriteFails, Skip, EndBatch, Close, Lose, Go
<1>3. CASE NotFound(c) \/ NoPeriod(c) \/ CannotOpen(c) \/ Open(c)
    BY <1>3 DEF NotFound, NoPeriod, CannotOpen, Open, Announce, Go
<1>4. CASE SendHeader(c) \/ SendPost(c) \/ SearchTag(c) \/ SendPiece(c)
    <2>1. Written(c) => intact'[d] = intact[d]
        BY DEF Written
    <2>2. GetsHeader(c) => got'[d] = got[d]
        BY DEF GetsHeader
    <2>3. \A n \in Nat : GetsPieces(c, n) => got'[d] = got[d]
        BY DEF GetsPieces
    <2>4. /\ GetsPieces(c, 1) => got'[d] = got[d]
          /\ GetsPieces(c, 2) => got'[d] = got[d]
        BY <2>3
    <2> QED BY <1>4, <2>1, <2>2, <2>4 DEF SendHeader, SendPost, SearchTag, SendPiece, Finish, Go
<1>5. CASE EndReply(c) \/ ClientGone(c)
    BY <1>5 DEF EndReply, ClientGone, Finish, Go
<1> QED BY <1>1, <1>2, <1>3, <1>4, <1>5 DEF Thread, handle_req, send_response

\* Outside of a response nothing is announced, and everything received is complete.
LEMMA QuietLocal ==
    ASSUME NEW c \in Conns, Local(c), pc[c] \notin {"post", "body", "lost"}, Fresh(c)',
           pc'[c] \notin {"header", "post", "body"},
           intact'[c] /\ client'[c] = "here" => (intact[c] /\ client[c] = "here" /\ got'[c] = got[c]) \/ got'[c] = <<>>
    PROVE  Local(c)'
<1>1. Announced(c)'
    BY DEF Announced
<1>2. ASSUME intact'[c], client'[c] = "here"
      PROVE  Framed(c)'
    <2>1. CASE got'[c] = <<>>
        BY <2>1 DEF Framed
    <2>2. CASE intact[c] /\ client[c] = "here" /\ got'[c] = got[c]
        BY <2>2 DEF Framed, Local, Done, Hollow
    <2> QED BY <1>2, <2>1, <2>2
<1> QED BY <1>1, <1>2 DEF Local

LEMMA ClientLocal ==
    ASSUME Data, Calling, NEW c \in Conns, Local(c), Leave(c) \/ (\E r \in Requests : Ask(c, r)) \/ Accept(c)
    PROVE  Local(c)'
<1>1. CASE Leave(c)
    <2>1. /\ pc'[c] = pc[c] /\ batch'[c] = batch[c] /\ reply'[c] = reply[c]
          /\ client'[c] \in {"left", "vanished"}
          /\ fds' = fds
        BY <1>1 DEF Leave, threads, Data
    <2> QED BY <2>1 DEF Local, Announced, Fresh, File
<1>2. ASSUME NEW r \in Requests, Ask(c, r)
      PROVE  Local(c)'
    <2>1. Same(c)
        BY <1>2 DEF Ask, Same, threads
    <2> QED BY <2>1, SameLocal
<1>3. CASE Accept(c)
    <2>1. /\ pc[c] = "none" /\ pc'[c] = "read" /\ client'[c] = "here"
          /\ got'[c] = got[c] /\ got[c] = <<>>
        BY <1>3 DEF Accept, Go, Local, Fresh, Data
    <2> QED BY <2>1, QuietLocal DEF Fresh
<1> QED BY <1>1, <1>2, <1>3

LEMMA CloseLocal ==
    ASSUME Data, NEW c \in Conns, Local(c), pc[c] \in {"read", "handle"}, Close(c)
    PROVE  Local(c)'
<1>1. pc'[c] = "closed" /\ client'[c] = "left"
    BY DEF Close, Go, Data
<1> QED BY <1>1, QuietLocal DEF Fresh

LEMMA ReadLocal ==
    ASSUME Data, NEW c \in Conns, Local(c),
           Read(c) \/ ReadEnds(c) \/ TimeOut(c) \/ ReadFails(c) \/ Skip(c) \/ EndBatch(c)
    PROVE  Local(c)'
<1>1. CASE Read(c)
    BY <1>1, QuietLocal DEF Read, Go, Local, Fresh, Data
<1>2. CASE ReadEnds(c) \/ TimeOut(c)
    BY <1>2, CloseLocal DEF ReadEnds, TimeOut
<1>3. CASE ReadFails(c)
    BY <1>3, QuietLocal DEF ReadFails, Lose, Go, clients, Local, Fresh, Data
<1>4. CASE Skip(c)
    BY <1>4, QuietLocal DEF Skip, clients, Local, Fresh, Data
<1>5. CASE EndBatch(c)
    <2>1. CASE Close(c)
        BY <1>5, <2>1, CloseLocal DEF EndBatch
    <2>2. CASE Go(c, "read") /\ UNCHANGED <<phase, fds, clients, batch, keep, timed, age,
                                           reply, intact, asked, blocked>>
        BY <1>5, <2>2, QuietLocal DEF EndBatch, Go, clients, Local, Fresh, Data
    <2> QED BY <1>5, <2>1, <2>2 DEF EndBatch
<1> QED BY <1>1, <1>2, <1>3, <1>4, <1>5

\* A response is announced; every one before it is complete.
LEMMA AnnounceLocal ==
    ASSUME Data, NEW c \in Conns, Local(c), pc[c] = "handle", batch[c] # <<>>,
           Head(batch[c]).meth \in {"GET", "POST"},
           NEW status \in {200, 404}, NEW n \in Nat, Announce(c, status, n),
           \/ fds' = fds /\ n = 0 /\ File(c) \notin fds
           \/ /\ fds' = fds \cup {File(c)}
              /\ Head(batch[c]).file \in DOMAIN Pieces /\ n = Pieces[Head(batch[c]).file]
    PROVE  Local(c)'
<1>1. /\ pc'[c] = "header" /\ batch'[c] = batch[c] /\ client'[c] = client[c]
      /\ got'[c] = got[c] /\ intact'[c] = intact[c]
      /\ reply'[c].status = status /\ reply'[c].left = n
      /\ reply'[c].size = n + Extra(Head(batch[c]))
      /\ reply'[c].post <=> Head(batch[c]).meth = "POST"
    <2> DEFINE new == [status |-> status, size |-> n + Extra(Head(batch[c])), left |-> n,
                       post |-> Head(batch[c]).meth = "POST"]
    <2>1. /\ new.status = status /\ new.left = n /\ new.size = n + Extra(Head(batch[c]))
          /\ new.post = (Head(batch[c]).meth = "POST")
        BY Zenon
    <2> HIDE DEF new
    <2>2. reply' = [reply EXCEPT ![c] = new] /\ c \in DOMAIN reply
        BY DEF Announce, new, Data
    <2>3. reply'[c] = new
        BY <2>2
    <2>4. /\ pc'[c] = "header" /\ batch'[c] = batch[c] /\ client'[c] = client[c]
          /\ got'[c] = got[c] /\ intact'[c] = intact[c]
        BY DEF Announce, Go, clients, Data
    <2> QED BY <2>1, <2>3, <2>4
<1>2. Announced(c)'
    <2>1. Head(batch'[c]) = Head(batch[c])
        BY <1>1
    <2>2. File(c) \notin fds' => n = 0
        OBVIOUS
    <2>3. File(c) \in fds' => Head(batch[c]).file \in DOMAIN Pieces /\ n = Pieces[Head(batch[c]).file]
        OBVIOUS
    <2> HIDE DEF Extra
    <2> QED BY <1>1, <2>1, <2>2, <2>3 DEF Announced, File, Extra
<1>3. Fresh(c)'
    BY <1>1 DEF Local, Fresh
<1>4. Framed(c) => Framed(c)'
    BY <1>1 DEF Framed, Done, Hollow
<1> QED BY <1>1, <1>2, <1>3, <1>4 DEF Local

LEMMA HandleLocal ==
    ASSUME Data, FdsAreAccountedFor, NEW c \in Conns, Local(c), handle_req(c), ~Crash(c)
    PROVE  Local(c)'
<1>0. File(c) \in fds => pc[c] # "handle"
    BY DEF FdsAreAccountedFor
<1>1. CASE NotFound(c)
    BY <1>0, <1>1, AnnounceLocal DEF NotFound, Takes
<1>2. CASE NoPeriod(c)
    BY <1>2, QuietLocal DEF NoPeriod, Takes, Go, clients, Local, Fresh, Data
<1>3. CASE CannotOpen(c)
    BY <1>0, <1>3, AnnounceLocal DEF CannotOpen, Takes
<1>4. CASE Open(c)
    <2>1. Pieces[Head(batch[c]).file] \in Nat
        BY <1>4, HttpAssumption DEF Open, Takes
    <2> QED BY <1>4, <2>1, AnnounceLocal DEF Open, Takes
<1> QED BY <1>1, <1>2, <1>3, <1>4 DEF handle_req

LEMMA CrashLocal ==
    ASSUME Data, NEW c \in Conns, Crash(c), NEW d \in Conns, Local(d)
    PROVE  Local(d)'
<1>1. /\ pc'[d] \in {"none", "closed"} /\ got'[d] = <<>>
      /\ client'[d] = "calling" => pc'[d] = "none"
      /\ client'[d] # "here"
    BY DEF Crash
<1> QED BY <1>1 DEF Local, Announced, Fresh

-----------------------------------------------------------------------------
(* send_response, one connection.                                          *)

\* A response whose header was sent, and nothing of its body yet.
LEMMA HeaderReaches ==
    ASSUME Data, NEW c \in Conns, client[c] = "here", GetsHeader(c), Framed(c), pc[c] = "header"
    PROVE  /\ got'[c] # <<>> /\ Len(got'[c]) \in Nat /\ DOMAIN got'[c] = 1 .. Len(got'[c])
           /\ \A i \in 1 .. Len(got'[c]) - 1 : Done(got'[c][i])
           /\ got'[c][Len(got'[c])] = [for |-> Head(batch[c]), status |-> reply[c].status,
                                       size |-> reply[c].size, pieces |-> 0]
<1> DEFINE new == [for |-> Head(batch[c]), status |-> reply[c].status, size |-> reply[c].size, pieces |-> 0]
<1>1. got'[c] = Append(got[c], new) /\ got[c] \in Seq(Answers)
    BY DEF GetsHeader, Data
<1>2. \A i \in DOMAIN got[c] : Done(got[c][i])
    BY DEF Framed
<1> HIDE DEF new, Answers, Done
<1>3. /\ Len(got'[c]) = Len(got[c]) + 1 /\ Len(got[c]) \in Nat /\ got'[c] # <<>>
      /\ DOMAIN got'[c] = 1 .. Len(got'[c]) /\ DOMAIN got[c] = 1 .. Len(got[c])
      /\ got'[c][Len(got[c]) + 1] = new
      /\ \A i \in DOMAIN got[c] : got'[c][i] = got[c][i]
    BY <1>1
<1>4. \A i \in 1 .. Len(got'[c]) - 1 : Done(got'[c][i])
    BY <1>2, <1>3
<1> QED BY <1>3, <1>4 DEF new

LEMMA FinishLocal ==
    ASSUME Data, NEW c \in Conns, Local(c), Finish(c), client'[c] = client[c],
           client[c] # "calling",
           intact'[c] /\ client[c] = "here" => \A i \in DOMAIN got'[c] : Done(got'[c][i])
    PROVE  Local(c)'
<1>1. pc'[c] = "handle"
    BY DEF Finish, Go, Data
<1>2. Announced(c)' /\ Fresh(c)'
    BY <1>1 DEF Announced, Fresh
<1>3. ASSUME intact'[c], client'[c] = "here"
      PROVE  Framed(c)'
    <2>1. \A i \in DOMAIN got'[c] : Done(got'[c][i])
        BY <1>3
    <2> QED BY <1>1, <2>1 DEF Framed, Done, Hollow
<1> QED BY <1>2, <1>3 DEF Local

LEMMA WrittenLocal ==
    ASSUME Data, NEW c \in Conns, Written(c), intact'[c]
    PROVE  intact[c]
<1>1. intact \in [Conns -> BOOLEAN]
    BY DEF Data
<1> QED BY <1>1 DEF Written

LEMMA SendHeaderLocal ==
    ASSUME Data, Calling, NEW c \in Conns, Local(c), SendHeader(c)
    PROVE  Local(c)'
<1>0. /\ pc[c] = "header" /\ client'[c] = client[c] /\ client[c] # "calling"
      /\ Announced(c) /\ Written(c) /\ GetsHeader(c)
    BY DEF SendHeader, Local, Calling
<1>1. /\ batch[c] # <<>> /\ Head(batch[c]).meth \in {"GET", "POST"}
      /\ reply[c].post <=> Head(batch[c]).meth = "POST"
      /\ reply[c].size = reply[c].left + Extra(Head(batch[c]))
      /\ File(c) \notin fds => reply[c].left = 0
      /\ reply[c].left \in Nat
    BY <1>0 DEF Announced, Data
<1>2. ASSUME intact'[c], client[c] = "here"
      PROVE  /\ got'[c] # <<>> /\ Len(got'[c]) \in Nat /\ DOMAIN got'[c] = 1 .. Len(got'[c])
             /\ \A i \in 1 .. Len(got'[c]) - 1 : Done(got'[c][i])
             /\ got'[c][Len(got'[c])] = [for |-> Head(batch[c]), status |-> reply[c].status,
                                         size |-> reply[c].size, pieces |-> 0]
    <2>1. Framed(c)
        BY <1>0, <1>2, WrittenLocal DEF Local
    <2> QED BY <1>0, <1>2, <2>1, HeaderReaches
<1>3. CASE Finish(c) /\ File(c) \notin fds
    <2>1. ASSUME intact'[c], client[c] = "here"
          PROVE  \A i \in DOMAIN got'[c] : Done(got'[c][i])
        <3> DEFINE new == got'[c][Len(got'[c])]
        <3>1. /\ new.for = Head(batch[c]) /\ new.size = Extra(Head(batch[c])) /\ new.pieces = 0
            <4>1. reply[c].left = 0 /\ Extra(Head(batch[c])) \in {0, 1}
                BY <1>1, <1>3 DEF Extra
            <4>2. reply[c].size = Extra(Head(batch[c]))
                BY <1>1, <4>1
            <4> QED BY <1>2, <2>1, <4>2
        <3>2. Done(new)
            BY <1>1, <3>1 DEF Done, Hollow, Extra
        <3> QED BY <1>2, <2>1, <3>2
    <2> QED BY <1>0, <1>3, <2>1, FinishLocal
<1>4. CASE File(c) \in fds /\ Go(c, IF reply[c].post THEN "post" ELSE "body") /\ UNCHANGED <<fds, batch, reply>>
    <2>1. pc'[c] = IF reply[c].post THEN "post" ELSE "body"
        BY <1>4 DEF Go, Data
    <2>2. /\ Head(batch[c]).file \in DOMAIN Pieces
          /\ reply[c].left = Pieces[Head(batch[c]).file]
        BY <1>0, <1>4 DEF Announced
    <2>3. client[c] = "here" => got'[c] # <<>>
        BY <1>0 DEF GetsHeader, Data
    <2>4. Announced(c)'
        <3>1. batch'[c] = batch[c] /\ reply'[c] = reply[c] /\ fds' = fds
            BY <1>4
        <3> QED BY <1>0, <1>1, <1>4, <2>1, <2>2, <2>3, <3>1 DEF Announced, File
    <2>5. ASSUME intact'[c], client[c] = "here"
          PROVE  Framed(c)'
        <3> DEFINE L == Len(got'[c])
                   new == got'[c][L]
        <3>1. /\ new.for = Head(batch[c]) /\ new.size = reply[c].size /\ new.pieces = 0
            BY <1>2, <2>5
        <3>2. reply'[c] = reply[c] /\ batch'[c] = batch[c]
            BY <1>4
        <3>3. DOMAIN got'[c] = 1 .. L /\ L \in Nat /\ \A i \in 1 .. L - 1 : Done(got'[c][i])
            BY <1>2, <2>5
        <3>4. new.size \in Nat /\ new.pieces <= new.size
            BY <1>1, <3>1 DEF Extra
        <3> HIDE DEF new, L
        <3>5. \A i \in DOMAIN got'[c] : i = L \/ Done(got'[c][i])
            BY <3>3
        <3>6. \A i \in DOMAIN got'[c] : got'[c][i].pieces <= got'[c][i].size
            BY <3>4, <3>5 DEF Done, new
        <3>7. reply[c].post => new.size = reply[c].left + 1
            BY <1>1, <3>1 DEF Extra
        <3>8. ~reply[c].post => new.size = reply[c].left
            BY <1>1, <3>1 DEF Extra
        <3>9. pc'[c] \in {"post", "body"}
            BY <2>1
        <3>10. (Last(c))' = new
            BY DEF Last, L, new
        <3>11. \A i \in DOMAIN got'[c] : Done(got'[c][i]) \/ (i = Len(got'[c]) /\ pc'[c] \in {"post", "body", "lost"})
            BY <3>5, <3>9 DEF L
        <3>12. pc'[c] = "post" =>
                 /\ new.for = Head(batch'[c]) /\ new.pieces = 0 /\ new.size = reply'[c].left + 1
            BY <2>1, <3>1, <3>2, <3>7
        <3>13. pc'[c] = "body" => new.pieces + reply'[c].left = new.size
            BY <2>1, <3>1, <3>2, <3>8, <1>1
        <3> QED BY <3>6, <3>10, <3>11, <3>12, <3>13 DEF Framed, Done, Hollow
    <2>6. Fresh(c)'
        BY <1>0 DEF Fresh
    <2> QED BY <1>0, <2>4, <2>5, <2>6 DEF Local
<1> QED BY <1>3, <1>4 DEF SendHeader

\* Between the header and the end, what is left and what was received change together.
LEMMA PiecesLocal ==
    ASSUME Data, Calling, NEW c \in Conns, Local(c), pc[c] \in {"post", "body"}, pc'[c] = "body",
           client'[c] = client[c], UNCHANGED <<fds, batch>>,
           reply'[c].post = reply[c].post, reply'[c].left \in Nat, NEW n \in Nat,
           GetsPieces(c, n) \/ (n = 0 /\ got'[c] = got[c]),
           Written(c) \/ intact'[c] = intact[c],
           intact[c] /\ client[c] = "here" =>
               \/ Last(c).pieces + n + reply'[c].left = Last(c).size
               \/ Hollow(Last(c)) /\ reply'[c].left = 0 /\ Last(c).pieces + n <= Last(c).size
    PROVE  Local(c)'
<1>0. client[c] = "here" => got[c] # <<>>
    BY DEF Local, Announced
<1>1. ASSUME client[c] = "here"
      PROVE  /\ Len(got'[c]) = Len(got[c]) /\ got'[c] \in Seq(Answers)
             /\ \A i \in 1 .. Len(got[c]) - 1 : got'[c][i] = got[c][i]
             /\ got'[c][Len(got[c])] = [Last(c) EXCEPT !.pieces = Last(c).pieces + n]
             /\ Last(c) \in Answers
    <2>1. got[c] \in Seq(Answers)
        BY DEF Data
    <2>2. Last(c) \in Answers
        <3>1. Len(got[c]) \in DOMAIN got[c]
            BY <1>0, <1>1, <2>1
        <3> HIDE DEF Answers
        <3> QED BY <2>1, <3>1 DEF Last
    <2>3. CASE GetsPieces(c, n)
        BY <1>0, <1>1, <2>2, <2>3, GetsPiecesIs
    <2>4. CASE n = 0 /\ got'[c] = got[c]
        <3>1. Last(c) = [Last(c) EXCEPT !.pieces = Last(c).pieces + n]
            BY <2>2, <2>4 DEF Answers
        <3> HIDE DEF Answers
        <3>2. Last(c) = got[c][Len(got[c])]
            BY DEF Last
        <3> QED BY <2>1, <2>2, <2>4, <3>1, <3>2
    <2> QED BY <2>3, <2>4
<1>2. Announced(c)'
    <2>1. client[c] = "here" => got'[c] # <<>>
        BY <1>0, <1>1
    <2> QED BY <2>1 DEF Local, Announced, File
<1>3. Fresh(c)'
    BY DEF Calling, Fresh
<1>4. ASSUME intact'[c], client[c] = "here"
      PROVE  Framed(c)'
    <2>0. intact[c] /\ Framed(c)
        BY <1>4, WrittenLocal DEF Local
    <2> DEFINE L == Len(got[c])
               old == Last(c)
               new == got'[c][L]
    <2>1. /\ L \in Nat /\ DOMAIN got'[c] = 1 .. L /\ DOMAIN got[c] = 1 .. L /\ Len(got'[c]) = L
          /\ \A i \in 1 .. L - 1 : got'[c][i] = got[c][i]
        BY <1>1, <1>4 DEF Data
    <2>2. /\ new.for = old.for /\ new.size = old.size /\ new.pieces = old.pieces + n
          /\ old.size \in Nat /\ old.pieces \in Nat
        BY <1>1, <1>4 DEF Answers
    <2>3. \A i \in 1 .. L - 1 : Done(got'[c][i])
        <3>1. \A i \in 1 .. L - 1 : Done(got[c][i])
            BY <2>0, <2>1 DEF Framed
        <3> HIDE DEF Done
        <3> QED BY <2>1, <3>1
    <2>4. \/ new.pieces + reply'[c].left = new.size
          \/ Hollow(new) /\ reply'[c].left = 0 /\ new.pieces <= new.size
        BY <1>4, <2>0, <2>2 DEF Hollow
    <2>5. new.pieces <= new.size
        BY <2>2, <2>4
    <2>6. (Last(c))' = new
        BY <2>1 DEF Last
    <2> HIDE DEF L, old, new
    <2>7. \A i \in DOMAIN got'[c] : i = L \/ Done(got'[c][i])
        BY <2>1, <2>3
    <2>8. \A i \in DOMAIN got'[c] : got'[c][i].pieces <= got'[c][i].size
        BY <2>5, <2>7 DEF Done, new
    <2>9. \A i \in DOMAIN got'[c] : Done(got'[c][i]) \/ (i = Len(got'[c]) /\ pc'[c] \in {"post", "body", "lost"})
        BY <2>1, <2>7
    <2> QED BY <2>4, <2>6, <2>8, <2>9 DEF Framed, Done, Hollow
<1> QED BY <1>2, <1>3, <1>4 DEF Local

LEMMA SendPostLocal ==
    ASSUME Data, Calling, NEW c \in Conns, Local(c), SendPost(c)
    PROVE  /\ Local(c)'
           /\ reply[c].left - 1 \in Nat /\ (client[c] = "here" => got[c] # <<>>)
<1>0. /\ pc[c] = "post" /\ client'[c] = client[c]
      /\ Written(c) /\ GetsPieces(c, 2) /\ UNCHANGED <<fds, batch>>
    BY DEF SendPost
<1>1. /\ pc'[c] = "body" /\ reply'[c].left = reply[c].left - 1 /\ reply'[c].post = reply[c].post
    BY DEF SendPost, Go, Data
<1>2. /\ reply[c].left = Pieces[Head(batch[c]).file] /\ Head(batch[c]).file \in Tagged
      /\ client[c] = "here" => got[c] # <<>>
    BY <1>0 DEF SendPost, Local, Announced
<1>3. reply[c].left \in Nat /\ reply[c].left - 1 \in Nat
    <2>1. Pieces[Head(batch[c]).file] \in Nat \ {0}
        BY <1>2, HttpAssumption
    <2> QED BY <1>2, <2>1
<1>4. ASSUME intact[c], client[c] = "here"
      PROVE  Last(c).pieces + 2 + reply'[c].left = Last(c).size
    <2>1. Last(c).pieces = 0 /\ Last(c).size = reply[c].left + 1
        BY <1>0, <1>4 DEF Local, Framed
    <2> QED BY <1>1, <1>3, <2>1
<1>5. Local(c)'
    BY <1>0, <1>1, <1>3, <1>4, PiecesLocal
<1> QED BY <1>2, <1>3, <1>5

LEMMA SearchTagLocal ==
    ASSUME Data, Calling, NEW c \in Conns, Local(c), SearchTag(c)
    PROVE  Local(c)'
<1>0. /\ pc[c] = "post" /\ client'[c] = client[c] /\ intact'[c] = intact[c] /\ got'[c] = got[c]
      /\ UNCHANGED <<fds, batch>>
    BY DEF SearchTag, clients
<1>1. /\ pc'[c] = "body" /\ reply'[c].left = 0 /\ reply'[c].post = reply[c].post
    BY DEF SearchTag, Go, Data
<1>2. reply[c].left \in Nat
    BY DEF Data
<1>3. ASSUME intact[c], client[c] = "here"
      PROVE  Hollow(Last(c)) /\ Last(c).pieces + 0 <= Last(c).size
    <2>1. /\ Last(c).pieces = 0 /\ Last(c).size = reply[c].left + 1
          /\ Last(c).for = Head(batch[c])
        BY <1>0, <1>3 DEF Local, Framed
    <2>2. Head(batch[c]).meth = "POST" /\ Head(batch[c]).file \notin Tagged
        BY <1>0 DEF SearchTag, Local, Announced
    <2> QED BY <1>2, <2>1, <2>2 DEF Hollow
<1> QED BY <1>0, <1>1, <1>3, PiecesLocal

LEMMA SendPieceLocal ==
    ASSUME Data, Calling, NEW c \in Conns, Local(c), SendPiece(c)
    PROVE  /\ Local(c)'
           /\ reply[c].left - 1 \in Nat /\ (client[c] = "here" => got[c] # <<>>)
<1>0. /\ pc[c] = "body" /\ client'[c] = client[c]
      /\ Written(c) /\ GetsPieces(c, 1) /\ UNCHANGED <<fds, batch, pc>>
    BY DEF SendPiece
<1>1. /\ pc'[c] = "body" /\ reply'[c].left = reply[c].left - 1 /\ reply'[c].post = reply[c].post
    BY <1>0 DEF SendPiece, Data
<1>2. /\ reply[c].left > 0
      /\ client[c] = "here" => got[c] # <<>>
    BY <1>0 DEF SendPiece, Local, Announced
<1>3. reply[c].left \in Nat /\ reply[c].left - 1 \in Nat
    BY <1>2 DEF Data
<1>4. ASSUME intact[c], client[c] = "here"
      PROVE  Last(c).pieces + 1 + reply'[c].left = Last(c).size
    <2>1. Last(c).pieces + reply[c].left = Last(c).size
        BY <1>0, <1>2, <1>4 DEF Local, Framed
    <2>2. Last(c).pieces \in Nat
        <3>1. got[c] \in Seq(Answers) /\ got[c] # <<>>
            BY <1>2, <1>4 DEF Data
        <3>2. Len(got[c]) \in DOMAIN got[c]
            BY <3>1
        <3>3. Last(c) \in Answers
            <4> HIDE DEF Answers
            <4> QED BY <3>1, <3>2 DEF Last
        <3> QED BY <3>3 DEF Answers
    <2> QED BY <1>1, <1>3, <2>1, <2>2
<1>5. Local(c)'
    BY <1>0, <1>1, <1>3, <1>4, PiecesLocal
<1> QED BY <1>2, <1>3, <1>5

LEMMA EndLocal ==
    ASSUME Data, Calling, NEW c \in Conns, Local(c), EndReply(c) \/ ClientGone(c)
    PROVE  Local(c)'
<1>0. /\ Finish(c) /\ client'[c] = client[c] /\ got'[c] = got[c] /\ intact'[c] = intact[c]
      /\ client[c] # "calling"
    BY DEF EndReply, ClientGone, clients, Calling, Writes
<1>1. CASE EndReply(c)
    <2>1. ASSUME intact[c], client[c] = "here"
          PROVE  \A i \in DOMAIN got[c] : Done(got[c][i])
        <3>0. /\ pc[c] = "body" /\ reply[c].left = 0 /\ got[c] # <<>> /\ Framed(c) /\ got[c] \in Seq(Answers)
            BY <1>1, <2>1 DEF EndReply, Local, Announced, Data
        <3>1. Len(got[c]) \in DOMAIN got[c]
            BY <3>0
        <3>2. Last(c) \in Answers
            <4> HIDE DEF Answers
            <4> QED BY <3>0, <3>1 DEF Last
        <3>3. Last(c).pieces = Last(c).size \/ Hollow(Last(c))
            <4>1. Last(c).pieces \in Nat
                BY <3>2 DEF Answers
            <4> QED BY <3>0, <4>1 DEF Framed
        <3>4. Last(c).pieces <= Last(c).size
            BY <3>0, <3>1 DEF Framed, Last
        <3>5. Done(Last(c))
            BY <3>3, <3>4 DEF Done
        <3> QED BY <3>0, <3>5 DEF Framed, Last
    <2> QED BY <1>0, <2>1, FinishLocal
<1>2. CASE ClientGone(c)
    BY <1>0, <1>2, FinishLocal DEF ClientGone
<1> QED BY <1>1, <1>2

LEMMA WriteFailsLocal ==
    ASSUME Data, Calling, NEW c \in Conns, Local(c), WriteFails(c)
    PROVE  Local(c)'
<1>1. /\ pc'[c] = "lost" /\ client'[c] = client[c] /\ got'[c] = got[c] /\ intact'[c] = intact[c]
      /\ pc[c] \in {"header", "post", "body"}
    BY DEF WriteFails, Writes, Lose, Go, clients, Data
<1>2. Announced(c)'
    BY <1>1 DEF Announced
<1>3. Fresh(c)'
    BY <1>1 DEF Calling, Fresh
<1>4. Framed(c) => Framed(c)'
    BY <1>1 DEF Framed, Done, Hollow
<1> QED BY <1>1, <1>2, <1>3, <1>4 DEF Local

-----------------------------------------------------------------------------
(* The types of send_response rest on what was announced.                  *)

LEMMA SendData ==
    ASSUME Data, Calling, NEW c \in Conns, Local(c), send_response(c) \/ WriteFails(c)
    PROVE  Data'
<1>0. blocked \in Nat /\ blocked + 1 \in Nat
    BY DEF Data
<1>1. CASE SendHeader(c)
    <2>0. batch[c] # <<>> /\ reply[c].status \in {200, 404} /\ Written(c) /\ GetsHeader(c)
        BY <1>1 DEF SendHeader, Local, Announced
    <2>1. /\ blocked' \in Nat /\ intact' \in [Conns -> BOOLEAN]
          /\ got' \in [Conns -> Seq(Answers)]
        BY <2>0, WrittenData, GetsHeaderData
    <2>2. /\ pc' \in [Conns -> States]
          /\ batch' \in [Conns -> Seq(Requests)]
          /\ reply' \in [Conns -> [status : {0, 200, 404}, size : Nat, left : Nat, post : BOOLEAN]]
        <3>1. CASE Finish(c)
            BY <2>0, <3>1, FinishData
        <3>2. CASE Go(c, IF reply[c].post THEN "post" ELSE "body") /\ UNCHANGED <<fds, batch, reply>>
            BY <3>2 DEF Go, Data, States
        <3> QED BY <1>1, <3>1, <3>2 DEF SendHeader
    <2> QED BY <1>1, <2>1, <2>2 DEF SendHeader, Data
<1>2. CASE SendPost(c) \/ SendPiece(c)
    <2>1. /\ reply[c].left - 1 \in Nat /\ (client[c] = "here" => got[c] # <<>>)
        BY <1>2, SendPostLocal, SendPieceLocal
    <2>2. reply' = [reply EXCEPT ![c].left = reply[c].left - 1]
        BY <1>2 DEF SendPost, SendPiece
    <2>3. reply' \in [Conns -> [status : {0, 200, 404}, size : Nat, left : Nat, post : BOOLEAN]]
        BY <2>1, <2>2, LeftData
    <2>4. /\ blocked' \in Nat /\ intact' \in [Conns -> BOOLEAN]
          /\ got' \in [Conns -> Seq(Answers)]
        BY <1>2, <2>1, WrittenData, GetsPiecesData DEF SendPost, SendPiece
    <2>5. pc' \in [Conns -> States]
        <3>1. pc \in [Conns -> States]
            BY DEF Data
        <3>2. pc' = pc \/ Go(c, "body")
            BY <1>2 DEF SendPost, SendPiece
        <3> QED BY <3>1, <3>2 DEF Go, States
    <2> QED BY <1>2, <2>3, <2>4, <2>5 DEF SendPost, SendPiece, Data
<1>3. CASE SearchTag(c)
    <2>1. reply' \in [Conns -> [status : {0, 200, 404}, size : Nat, left : Nat, post : BOOLEAN]]
        BY <1>3, LeftData DEF SearchTag
    <2> QED BY <1>3, <2>1 DEF SearchTag, Go, clients, Data, States
<1>4. CASE EndReply(c) \/ ClientGone(c)
    <2>1. batch[c] # <<>>
        BY <1>4 DEF EndReply, ClientGone, Writes, Local, Announced
    <2>2. /\ pc' \in [Conns -> States]
          /\ batch' \in [Conns -> Seq(Requests)]
          /\ reply' \in [Conns -> [status : {0, 200, 404}, size : Nat, left : Nat, post : BOOLEAN]]
        BY <1>4, <2>1, FinishData DEF EndReply, ClientGone
    <2> QED BY <1>4, <2>2 DEF EndReply, ClientGone, clients, Data
<1>5. CASE WriteFails(c)
    BY <1>0, <1>5, LoseData DEF WriteFails, FullSocket
<1> QED BY <1>1, <1>2, <1>3, <1>4, <1>5 DEF send_response

-----------------------------------------------------------------------------
(* The invariant.                                                          *)

Framing == Inv /\ Typed /\ \A c \in Conns : Local(c)

LEMMA InitFraming == Init => Framing
<1> SUFFICES ASSUME Init
             PROVE  Framing
    OBVIOUS
<1>1. \A c \in Conns : Local(c)
    BY DEF Init, Local, Announced, Fresh, Framed
<1> QED BY <1>1, InitInv, InitTyped DEF Framing

LEMMA NextFraming == Framing /\ [Next]_vars => Framing'
<1> SUFFICES ASSUME Framing, [Next]_vars
             PROVE  Framing'
    OBVIOUS
<1>0. Inv /\ Typed /\ Data /\ Calling /\ FdsAreAccountedFor /\ \A c \in Conns : Local(c)
    BY DataIs DEF Framing, Inv, Typed
<1>1. Inv'
    BY NextInv DEF Framing
<1>2. ASSUME NEW c \in Conns, Leave(c) \/ (\E r \in Requests : Ask(c, r)) \/ Accept(c)
      PROVE  Data' /\ Local(c)'
    BY <1>0, <1>2, ClientData, ClientLocal
<1>3. ASSUME NEW c \in Conns,
             Read(c) \/ ReadEnds(c) \/ TimeOut(c) \/ ReadFails(c) \/ Skip(c) \/ EndBatch(c)
      PROVE  Data' /\ Local(c)'
    BY <1>0, <1>3, ReadData, ReadLocal
<1>4. ASSUME NEW c \in Conns, handle_req(c)
      PROVE  Data' /\ Local(c)'
    BY <1>0, <1>4, HandleData, HandleLocal, CrashLocal
<1>5. ASSUME NEW c \in Conns, send_response(c) \/ WriteFails(c)
      PROVE  Data' /\ Local(c)'
    <2>1. Data'
        BY <1>0, <1>5, SendData
    <2>2. Local(c)'
        BY <1>0, <1>5, SendHeaderLocal, SendPostLocal, SearchTagLocal, SendPieceLocal, EndLocal,
           WriteFailsLocal DEF send_response
    <2> QED BY <2>1, <2>2
<1>6. ASSUME NEW c \in Conns,
             \/ Leave(c) \/ (\E r \in Requests : Ask(c, r))
             \/ Accept(c) \/ Thread(c) \/ TimeOut(c) \/ ReadFails(c) \/ WriteFails(c)
      PROVE  Data' /\ \A d \in Conns : Local(d)'
    <2>1. Data' /\ Local(c)'
        BY <1>2, <1>3, <1>4, <1>5, <1>6 DEF Thread
    <2>2. ASSUME NEW d \in Conns, d # c
          PROVE  Local(d)'
        <3>1. CASE Crash(c)
            BY <1>0, <3>1, CrashLocal
        <3>2. CASE ~Crash(c)
            <4>1. Same(d)
                BY <1>0, <1>6, <2>2, <3>2, Elsewhere
            <4> QED BY <1>0, <4>1, SameLocal
        <3> QED BY <3>1, <3>2
    <2> QED BY <2>1, <2>2
<1>7. ASSUME Tick
      PROVE  Data' /\ \A d \in Conns : Local(d)'
    <2>1. Data'
        BY <1>0, <1>7, TickData
    <2>2. ASSUME NEW d \in Conns
          PROVE  Local(d)'
        <3>1. Local(d) /\ Same(d)
            BY <1>0, <1>7 DEF Tick, clients, threads, Same
        <3> QED BY <3>1, SameLocal, Zenon
    <2> QED BY <2>1, <2>2
<1>8. ASSUME UNCHANGED vars
      PROVE  Data' /\ \A d \in Conns : Local(d)'
    <2>1. Data'
        BY <1>0, <1>8 DEF vars, clients, threads, Data
    <2>2. ASSUME NEW d \in Conns
          PROVE  Local(d)'
        <3>1. Local(d) /\ Same(d)
            BY <1>0, <1>8 DEF vars, clients, threads, Same
        <3> QED BY <3>1, SameLocal, Zenon
    <2> QED BY <2>1, <2>2
<1>9. Data' /\ \A d \in Conns : Local(d)'
    <2>1. \/ UNCHANGED vars \/ Tick
          \/ \E c \in Conns :
                \/ Leave(c) \/ (\E r \in Requests : Ask(c, r))
                \/ Accept(c) \/ Thread(c) \/ TimeOut(c) \/ ReadFails(c) \/ WriteFails(c)
        BY DEF Next
    <2> QED BY <1>6, <1>7, <1>8, <2>1, Zenon
<1>10. Typed'
    <2>1. /\ fds' \subseteq {"socket", "FILE"} \X Conns
          /\ IsFiniteSet(fds') /\ Cardinality(fds') <= MaxFds
        BY <1>0, FdsStep
    <2>2. TypeOK'
        <3>1. {asked, blocked}' \subseteq Nat
            BY <1>9 DEF Data
        <3> QED BY <1>9, <2>1, <3>1, Zenon DEF TypeOK, Data, Answers, States
    <2> QED BY <2>1, <2>2 DEF Typed
<1> QED BY <1>1, <1>9, <1>10 DEF Framing

LEMMA FramingAlways == Spec => []Framing
<1> QED BY InitFraming, NextFraming, PTL DEF Spec

\* No unsigned length of send_response wraps, no response is sent without its request,
\* the process never has more descriptors than it may.
THEOREM HttpTypeCorrect == Spec => []TypeOK
<1>1. Framing => TypeOK
    BY DEF Framing, Typed
<1> QED BY <1>1, FramingAlways, PTL

\* A client that has room gets of each response exactly what its header announced,
\* in whatever order the requests came, were read and skipped: pieces, data of
\* a POST and the tag around it included.  All but hollow ones.
THEOREM ResponsesAreFramed == Spec => []FramesMatch
<1>1. Framing => FramesMatch
    BY DEF Framing, Local, Framed, Done, FramesMatch
<1> QED BY <1>1, FramingAlways, PTL

=============================================================================
