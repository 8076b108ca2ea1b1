----------------------------- MODULE ProxyCache -----------------------------
(***************************************************************************)
(* The page cache of the HTTP proxy of Project 3: handle_req, run by one   *)
(* thread per client connection.                                           *)
(*                                                                         *)
(* A list of nodes, protected by ll_lock, says which pages are cached and  *)
(* since when.  The pages are files, protected by cache_lock, which a      *)
(* thread holds from the opening of the file to the end of its sending.    *)
(* Every section under ll_lock is one step here, so that lock needs no     *)
(* variable; a pointer that check_node returned is used after it.          *)
(*                                                                         *)
(* A page is Length parts long and its server announces its length; every  *)
(* download of a page is a new version of it, which is what its parts are. *)
(*                                                                         *)
(* The process has MaxFds descriptors, apart from stdio and the socket it  *)
(* listens on.  Clients, servers, FILEs and the pipes of popen share them; *)
(* with none left fopen fails, and the use of the NULL FILE ends the       *)
(* program.  Of their numbers only one thing matters: a connection that    *)
(* failed leaves its number in server_fd, and download_file writes to it,  *)
(* reads from it and closes it all the same, whatever it names by then.    *)
(***************************************************************************)
EXTENDS Integers, Sequences, FiniteSets, SequencesExt

CONSTANTS
    Threads, Pages,
    Addresses,      \* where malloc places a node
    Length, Timeout,
    MaxFds,         \* descriptors that the process may have open
    None,
    MaxClock, MaxRequests    \* bounds of the exploration

\* What a thread opens: a socket to its client and to the server, the cache FILE;
\* while a name is looked up a FILE or a socket, and the two ends of popen's pipe.
Kinds == {"client", "server", "file", "temp", "shell", "pipe"}
Uses == Kinds \X Threads

ASSUME ProxyAssumption ==
    /\ Length \in Nat \ {0}
    /\ Timeout \in Nat \ {0}
    /\ {MaxFds, MaxClock, MaxRequests} \subseteq Nat
    /\ None \notin Threads \cup Pages \cup Addresses \cup [page : Pages, time : Nat]
    /\ None \notin Uses

VARIABLES
    clock,      \* seconds of CLOCK_MONOTONIC
    alive,      \* the program runs
    requests,
    list,       \* the linked list from head on: addresses
    heap,       \* the node at each address, or None if it is free
    disk,       \* each page's file: the version in it and how many of its parts
    cacheLock,  \* who holds cache_lock
    open,       \* what descriptors are open for, and for whom
    lost,       \* descriptors of FILEs that nobody will close
    server_fd,  \* locals of each thread: what its server's number names
    file,       \* and what the number of its cache FILE names
    pc,         \* where each thread is
    req,        \* the locals of its handle_req
    \* History:
    stored,     \* when the last download of each page ended
    failed,     \* how many requests ended with -1 since the program started
    astray      \* a thread used a descriptor of another, or its own client's

threads == <<pc, req>>
descriptors == <<open, lost, server_fd, file>>
vars == <<clock, alive, requests, list, heap, disk, cacheLock, descriptors, threads, stored, failed,
          astray>>

-----------------------------------------------------------------------------
Unchecked == -1

Node(p, now) == [page |-> p, time |-> now]

\* checked: the time of a hit, if its node was the page's; size: file_size;
\* pos: position of the FILE; sent: what the client got.
NewRequest(p, a) == [page |-> p, node |-> a, checked |-> Unchecked, size |-> 0, pos |-> 0, sent |-> <<>>]
NoRequest == NewRequest(None, None)

Page(t) == req[t].page
Go(t, where) == pc' = [pc EXCEPT ![t] = where]

\* A number that is free, and one that no thread opened: stdio, the listening
\* socket, a lost FILE.
Closed == <<"closed", None>>
Outside == <<"outside", None>>

Free == MaxFds - Cardinality(open) - lost

\* The numbers that named old name new.
Follow(names, old, new) == [t \in Threads |-> IF names[t] = old THEN new ELSE names[t]]

\* The number that was closed is given out again, or another one is.
Opens(use) ==
    /\ Free >= 1
    /\ open' = open \cup {use}
    /\ \/ UNCHANGED <<server_fd, file>>
       \/ server_fd' = Follow(server_fd, Closed, use) /\ file' = Follow(file, Closed, use)
    /\ UNCHANGED lost

\* pipe() and fork(): the end that the program reads, and that of the shell.
OpensPipe(t) ==
    /\ Free >= 2
    /\ open' = open \cup {<<"shell", t>>, <<"pipe", t>>}
    /\ \/ UNCHANGED <<server_fd, file>>
       \/ \E use \in {<<"shell", t>>, <<"pipe", t>>} :
            server_fd' = Follow(server_fd, Closed, use) /\ file' = Follow(file, Closed, use)
    /\ UNCHANGED lost

Closes(use) ==
    /\ open' = open \ {use}
    /\ server_fd' = Follow(server_fd, use, Closed)
    /\ file' = Follow(file, use, Closed)
    /\ UNCHANGED lost

\* name is open, and neither the socket to t's server nor t's cache file.
Foreign(name, t) == name \notin {None, Closed, <<"server", t>>, <<"file", t>>}

\* The next thing t does is done to somebody else's descriptor.
Strays(t) ==
    \/ pc[t] \in {"unconnected", "receive"} /\ Foreign(server_fd[t], t)
    \/ pc[t] = "send" /\ Foreign(file[t], t)

Listed(a) == \E i \in DOMAIN list : list[i] = a

\* The node that t holds a pointer to is still in the list, for its page.
PointsToItsNode(t) ==
    /\ Listed(req[t].node)
    /\ heap[req[t].node] # None
    /\ heap[req[t].node].page = Page(t)

\* mutant: the last second counts as fresh.
ExpiredLate(n) == clock - n.time > Timeout

Expired(n) == clock - n.time >= Timeout

Init ==
    /\ clock = 0
    /\ alive = TRUE
    /\ requests = 0
    /\ list = <<>>
    /\ heap = [a \in Addresses |-> None]
    /\ disk = [p \in Pages |-> [version |-> 0, parts |-> 0]]
    /\ cacheLock = None
    /\ open = {}
    /\ lost = 0
    /\ server_fd = [t \in Threads |-> None]
    /\ file = [t \in Threads |-> None]
    /\ pc = [t \in Threads |-> "gone"]
    /\ req = [t \in Threads |-> NoRequest]
    /\ stored = [p \in Pages |-> 0]
    /\ failed = 0
    /\ astray = FALSE

-----------------------------------------------------------------------------
\* A client connects; it leaves, or its thread's time limit passes.  With no
\* descriptor left accept fails, and the thread it starts ends at once.
Accept(t) ==
    /\ alive
    /\ pc[t] = "gone"
    /\ Opens(<<"client", t>>)
    /\ Go(t, "idle")
    /\ UNCHANGED <<clock, alive, requests, list, heap, disk, cacheLock, req, stored, failed, astray>>

CleanExit(t) ==
    /\ pc[t] = "idle"
    /\ Closes(<<"client", t>>)
    /\ Go(t, "gone")
    /\ req' = [req EXCEPT ![t] = NoRequest]
    /\ UNCHANGED <<clock, alive, requests, list, heap, disk, cacheLock, stored, failed, astray>>

\* A request for page p is read.
ReadRequest(t, p) ==
    /\ pc[t] = "idle"
    /\ requests < MaxRequests
    /\ requests' = requests + 1
    /\ Go(t, "lookup")
    /\ req' = [req EXCEPT ![t] = NewRequest(p, None)]
    /\ UNCHANGED <<clock, alive, list, heap, disk, cacheLock, descriptors, stored, failed, astray>>

\* get_ip and check_blacklist open a FILE, gethostbyname a socket or a FILE;
\* save_ip and get_md5 start a shell.  One comes after the other.
Borrow(t) ==
    /\ pc[t] = "lookup"
    /\ open \cap {<<"temp", t>>, <<"shell", t>>} = {}
    /\ Opens(<<"temp", t>>) \/ OpensPipe(t)
    /\ UNCHANGED <<clock, alive, requests, list, heap, disk, cacheLock, threads, stored, failed, astray>>

\* popen closes the shell's end of the pipe; then the other end is closed, and
\* the FILEs are.
Release(t) ==
    /\ pc[t] = "lookup"
    /\ \E use \in open \cap {<<"temp", t>>, <<"shell", t>>, <<"pipe", t>>} :
        /\ use = <<"shell", t>> => <<"pipe", t>> \notin open
        /\ Closes(use)
    /\ UNCHANGED <<clock, alive, requests, list, heap, disk, cacheLock, threads, stored, failed, astray>>

\* No address, on the blacklist, or the blacklist cannot be opened, which
\* counts as forbidden.
Refuse(t) ==
    /\ pc[t] = "lookup"
    /\ open \cap {<<"temp", t>>, <<"shell", t>>} = {}
    /\ Go(t, "idle")
    /\ req' = [req EXCEPT ![t] = NoRequest]
    /\ UNCHANGED <<clock, alive, requests, list, heap, disk, cacheLock, descriptors, stored, failed,
                   astray>>

\* popen fails in get_md5, and the path stays that of the directory.
GetMd5Fails(t) ==
    /\ pc[t] = "lookup"
    /\ open \cap {<<"temp", t>>, <<"shell", t>>} = {}
    /\ Free < 2
    /\ Go(t, "unnamed")
    /\ UNCHANGED <<clock, alive, requests, list, heap, disk, cacheLock, descriptors, req, stored, failed,
                   astray>>

\* get_md5 has the shell's answer, and check_node looks for the page.
CheckNode(t) ==
    /\ pc[t] = "lookup"
    /\ <<"shell", t>> \in open
    /\ <<"pipe", t>> \notin open
    /\ Closes(<<"shell", t>>)
    /\ UNCHANGED <<clock, alive, requests, list, heap, disk, cacheLock, stored, failed, astray>>

IsOf(a, p) == heap[a] # None /\ heap[a].page = p

RequestMiss(t) ==
    /\ CheckNode(t)
    /\ \A i \in DOMAIN list : ~IsOf(list[i], Page(t))
    /\ Go(t, "download")
    /\ UNCHANGED req

RequestFound(t) ==
    /\ CheckNode(t)
    /\ \E i \in DOMAIN list :
        /\ IsOf(list[i], Page(t))
        /\ \A j \in 1 .. i - 1 : ~IsOf(list[j], Page(t))
        /\ req' = [req EXCEPT ![t].node = list[i]]
    /\ Go(t, "check")

\* check_timeout reads the node without a lock.  The memory of a node that was
\* freed, or that is being filled again, holds anything.
CheckTimeout(t) ==
    /\ pc[t] = "check"
    /\ \/ /\ Listed(req[t].node) => Expired(heap[req[t].node])
          /\ Go(t, "expired")
          /\ UNCHANGED req
       \/ /\ Listed(req[t].node) => ~Expired(heap[req[t].node])
          /\ Go(t, "cached")
          /\ req' = [req EXCEPT ![t].checked = IF PointsToItsNode(t) THEN clock ELSE Unchecked]
    /\ UNCHANGED <<clock, alive, requests, list, heap, disk, cacheLock, descriptors, stored, failed, astray>>

\* mutant: the node is freed though it was not found.
DeleteNodeAlways(t) ==
    /\ pc[t] = "expired"
    /\ list' = SelectSeq(list, LAMBDA a : a # req[t].node)
    /\ heap' = [heap EXCEPT ![req[t].node] = None]
    /\ Go(t, "download")
    /\ UNCHANGED <<clock, alive, requests, disk, cacheLock, descriptors, req, stored, failed, astray>>

\* delete_node looks for the pointer, whatever node is there by now.
DeleteNode(t) ==
    /\ pc[t] = "expired"
    /\ \/ \E i \in DOMAIN list :
            /\ list[i] = req[t].node
            /\ list' = RemoveAt(list, i)
            /\ heap' = [heap EXCEPT ![req[t].node] = None]
       \/ /\ ~Listed(req[t].node)
          /\ UNCHANGED <<list, heap>>
    /\ Go(t, "download")
    /\ UNCHANGED <<clock, alive, requests, disk, cacheLock, descriptors, req, stored, failed, astray>>

-----------------------------------------------------------------------------
\* mutant: the lock is not waited for.
LockCacheAnyhow(t) == cacheLock' = t

\* pthread_mutex_lock(&cache_lock)
LockCache(t) ==
    /\ cacheLock = None
    /\ cacheLock' = t

OpenFile(t) ==
    /\ Free >= 1
    /\ open' = open \cup {<<"file", t>>}
    /\ file' = [file EXCEPT ![t] = <<"file", t>>]
    /\ server_fd' \in {server_fd, Follow(server_fd, Closed, <<"file", t>>)}
    /\ UNCHANGED lost

\* mutant: a hit takes no lock.
OpenCachedUnlocked(t) ==
    /\ pc[t] = "cached"
    /\ OpenFile(t)
    /\ req' = [req EXCEPT ![t].size = disk[Page(t)].parts]
    /\ Go(t, "send")
    /\ UNCHANGED <<clock, alive, requests, list, heap, disk, cacheLock, stored, failed, astray>>

\* A hit: the size is what the file has.
OpenCached(t) ==
    /\ pc[t] = "cached"
    /\ LockCache(t)
    /\ OpenFile(t)
    /\ req' = [req EXCEPT ![t].size = disk[Page(t)].parts]
    /\ Go(t, "send")
    /\ UNCHANGED <<clock, alive, requests, list, heap, disk, stored, failed, astray>>

\* init_server_tcp: a socket, and connect is called.
Connect(t) ==
    /\ pc[t] = "download"
    /\ LockCache(t)
    /\ Free >= 1
    /\ open' = open \cup {<<"server", t>>}
    /\ server_fd' = [server_fd EXCEPT ![t] = <<"server", t>>]
    /\ Go(t, "connect")
    /\ UNCHANGED <<clock, alive, requests, list, heap, disk, lost, file, req, stored, failed, astray>>

\* connect fails: the socket is closed, and server_fd keeps its number.
ConnectFails(t) ==
    /\ pc[t] = "connect"
    /\ Closes(<<"server", t>>)
    /\ Go(t, "unconnected")
    /\ UNCHANGED <<clock, alive, requests, list, heap, disk, cacheLock, req, stored, failed, astray>>

\* There is no socket, and server_fd is -1; or getaddrinfo fails, and server_fd,
\* never written, is anything.
NoSocket(t) ==
    /\ pc[t] = "download"
    /\ LockCache(t)
    /\ \E name \in open \cup {None, Closed, Outside} : server_fd' = [server_fd EXCEPT ![t] = name]
    /\ Go(t, "unconnected")
    /\ UNCHANGED <<clock, alive, requests, list, heap, disk, open, lost, file, req, stored, failed, astray>>

\* mutant: the file is opened without emptying it.
OpenNewAppending(t) ==
    /\ pc[t] \in {"connect", "unconnected"}
    /\ OpenFile(t)
    /\ disk' = [disk EXCEPT ![Page(t)].version = @ + 1]
    /\ Go(t, "receive")
    /\ UNCHANGED <<clock, alive, requests, list, heap, cacheLock, req, stored, failed, astray>>

\* Connected or not, the header is written to server_fd, and fopen empties the
\* file.
OpenNew(t) ==
    /\ pc[t] \in {"connect", "unconnected"}
    /\ OpenFile(t)
    /\ disk' = [disk EXCEPT ![Page(t)] = [version |-> @.version + 1, parts |-> 0]]
    /\ Go(t, "receive")
    /\ UNCHANGED <<clock, alive, requests, list, heap, cacheLock, req, stored, failed, astray>>

\* fopen fails, for want of a descriptor or because the path is a directory:
\* fseek or fclose of NULL ends the program, and what it had in memory.
Crash(t) ==
    /\ \/ pc[t] = "unnamed" /\ cacheLock = None
       \/ pc[t] = "cached" /\ cacheLock = None /\ Free < 1
       \/ pc[t] \in {"connect", "unconnected"} /\ Free < 1
    /\ alive' = FALSE
    /\ list' = <<>>
    /\ heap' = [a \in Addresses |-> None]
    /\ cacheLock' = None
    /\ open' = {}
    /\ lost' = 0
    /\ server_fd' = [u \in Threads |-> None]
    /\ file' = [u \in Threads |-> None]
    /\ failed' = 0
    /\ pc' = [u \in Threads |-> "gone"]
    /\ req' = [u \in Threads |-> NoRequest]
    /\ UNCHANGED <<clock, requests, disk, stored, astray>>

\* A thread writes to, reads from or closes what is not its own.  What comes of
\* that, in the bytes and for the other thread, is not modelled any more.
GoAstray(t) ==
    /\ Strays(t)
    /\ astray' = TRUE
    /\ UNCHANGED <<clock, alive, requests, list, heap, disk, cacheLock, descriptors, threads, stored, failed>>

Restart ==
    /\ ~alive
    /\ alive' = TRUE
    /\ UNCHANGED <<clock, requests, list, heap, disk, cacheLock, descriptors, threads, stored, failed, astray>>

-----------------------------------------------------------------------------
\* recv_file: a part arrives; with the last one fseek returns to the start and
\* the connection is closed.
Receive(t) ==
    /\ pc[t] = "receive"
    /\ server_fd[t] = <<"server", t>>
    /\ LET n == disk[Page(t)].parts + 1 IN
        /\ disk' = [disk EXCEPT ![Page(t)].parts = n]
        /\ \/ /\ n < Length
              /\ req' = [req EXCEPT ![t].size = Length, ![t].pos = n]
              /\ UNCHANGED <<pc, open, server_fd>>
           \/ /\ n >= Length
              /\ req' = [req EXCEPT ![t].size = Length, ![t].pos = 0]
              /\ open' = open \ {<<"server", t>>}
              /\ server_fd' = [server_fd EXCEPT ![t] = None]
              /\ Go(t, "store")
    /\ UNCHANGED <<clock, alive, requests, list, heap, cacheLock, lost, file, stored, failed, astray>>

\* mutant: the connection is not closed.
ReceiveFailsOpen(t) ==
    /\ pc[t] = "receive"
    /\ \E garbage \in {0, Length} :
        req' = [req EXCEPT ![t].size = IF req[t].pos = 0 THEN garbage ELSE @]
    /\ server_fd' = [server_fd EXCEPT ![t] = None]
    /\ Go(t, "store")
    /\ UNCHANGED <<clock, alive, requests, list, heap, disk, cacheLock, open, lost, file, stored, failed,
                   astray>>

\* The server closes or is silent for CONN_TIMEOUT; or server_fd is closed
\* (EBADF), or is the cache file itself, which is empty.  What server_fd names is
\* closed.  Before the first part file_size was never written.
ReceiveFails(t) ==
    /\ pc[t] = "receive"
    /\ \E garbage \in {0, Length} :
        req' = [req EXCEPT ![t].size = IF req[t].pos = 0 THEN garbage ELSE @]
    /\ open' = open \ {server_fd[t]}
    /\ file' = [file EXCEPT ![t] = IF @ = server_fd[t] THEN Closed ELSE @]
    /\ server_fd' = [server_fd EXCEPT ![t] = None]
    /\ Go(t, "store")
    /\ UNCHANGED <<clock, alive, requests, list, heap, disk, cacheLock, lost, stored, failed, astray>>

\* create_node, update_time, update_name: after a failed download, too.
CreateNode(t) ==
    /\ pc[t] = "store"
    /\ \E a \in Addresses :
        /\ heap[a] = None
        /\ heap' = [heap EXCEPT ![a] = Node(Page(t), clock)]
        /\ req' = [req EXCEPT ![t].node = a]
    /\ stored' = [stored EXCEPT ![Page(t)] = clock]
    /\ Go(t, "add")
    /\ UNCHANGED <<clock, alive, requests, list, disk, cacheLock, descriptors, failed, astray>>

\* mutant: the node is added at the end.
AddNodeLast(t) ==
    /\ pc[t] = "add"
    /\ list' = Append(list, req[t].node)
    /\ Go(t, "send")
    /\ UNCHANGED <<clock, alive, requests, heap, disk, cacheLock, descriptors, req, stored, failed, astray>>

AddNode(t) ==
    /\ pc[t] = "add"
    /\ list' = <<req[t].node>> \o list
    /\ Go(t, "send")
    /\ UNCHANGED <<clock, alive, requests, heap, disk, cacheLock, descriptors, req, stored, failed, astray>>

-----------------------------------------------------------------------------
\* send_data: file_size parts are read from the FILE's position on, as long as
\* its descriptor is open.
SendPart(t) ==
    LET content == disk[Page(t)] IN
    /\ pc[t] = "send"
    /\ file[t] = <<"file", t>>
    /\ Len(req[t].sent) < req[t].size
    /\ req[t].pos < content.parts
    /\ req' = [req EXCEPT ![t].pos = @ + 1, ![t].sent = Append(@, content.version)]
    /\ UNCHANGED <<clock, alive, requests, list, heap, disk, cacheLock, descriptors, pc, stored, failed,
                   astray>>

\* clean_exit, with the FILE left open.
Abandon(t) ==
    /\ open' = open \ {<<"client", t>>, <<"file", t>>}
    /\ lost' = IF <<"file", t>> \in open THEN lost + 1 ELSE lost
    /\ file' = [file EXCEPT ![t] = None]
    /\ failed' = failed + 1
    /\ Go(t, "gone")
    /\ req' = [req EXCEPT ![t] = NoRequest]

\* mutant: the lock is kept.
SendFailsLocked(t) ==
    /\ pc[t] = "send"
    /\ Len(req[t].sent) < req[t].size
    /\ Abandon(t)
    /\ UNCHANGED <<clock, alive, requests, list, heap, disk, cacheLock, server_fd, stored, astray>>

\* The FILE has nothing to read, or the write fails: the thread ends.
SendFails(t) ==
    /\ pc[t] = "send"
    /\ Len(req[t].sent) < req[t].size
    /\ cacheLock' = None
    /\ Abandon(t)
    /\ UNCHANGED <<clock, alive, requests, list, heap, disk, server_fd, stored, astray>>

\* mutant: the FILE is left open.
CloseFileNot(t) ==
    /\ open' = open \ {<<"file", t>>}
    /\ lost' = lost + 1
    /\ file' = [file EXCEPT ![t] = None]
    /\ cacheLock' = None
    /\ UNCHANGED server_fd

\* fclose, of a FILE whose descriptor may be closed already, and unlock.
CloseFile(t) ==
    /\ open' = open \ {<<"file", t>>}
    /\ file' = [file EXCEPT ![t] = None]
    /\ cacheLock' = None
    /\ UNCHANGED <<lost, server_fd>>

\* The client went away (EPIPE): send_data is content with that.
ClientLeaves(t) ==
    /\ pc[t] = "send"
    /\ file[t] = <<"file", t>>
    /\ Len(req[t].sent) < req[t].size
    /\ req[t].pos < disk[Page(t)].parts
    /\ CloseFile(t)
    /\ Go(t, "idle")
    /\ req' = [req EXCEPT ![t] = NoRequest]
    /\ UNCHANGED <<clock, alive, requests, list, heap, disk, stored, failed, astray>>

Finish(t) ==
    /\ pc[t] = "send"
    /\ Len(req[t].sent) = req[t].size
    /\ CloseFile(t)
    /\ Go(t, "idle")
    /\ req' = [req EXCEPT ![t] = NoRequest]
    /\ UNCHANGED <<clock, alive, requests, list, heap, disk, stored, failed, astray>>

\* Before a page is stored, no time is compared with another.
Tick ==
    /\ clock < MaxClock
    /\ \E a \in Addresses : heap[a] # None
    /\ clock' = clock + 1
    /\ UNCHANGED <<alive, requests, list, heap, disk, cacheLock, descriptors, threads, stored, failed, astray>>

-----------------------------------------------------------------------------
InHandleReq(t) ==
    \/ GoAstray(t)
    \/ /\ ~Strays(t)
       /\ \/ CheckTimeout(t) \/ DeleteNode(t) \/ OpenCached(t)
          \/ Connect(t) \/ ConnectFails(t) \/ NoSocket(t) \/ OpenNew(t) \/ Crash(t)
          \/ Receive(t) \/ ReceiveFails(t)
          \/ CreateNode(t) \/ AddNode(t)
          \/ SendPart(t) \/ SendFails(t) \/ ClientLeaves(t) \/ Finish(t)

Next ==
    /\ ~astray
    /\ \/ \E t \in Threads :
            \/ Accept(t) \/ CleanExit(t)
            \/ \E p \in Pages : ReadRequest(t, p)
            \/ Borrow(t) \/ Release(t) \/ Refuse(t) \/ GetMd5Fails(t)
            \/ RequestMiss(t) \/ RequestFound(t)
            \/ InHandleReq(t)
       \/ Restart \/ Tick

\* The scheduler runs every thread, a server's silence ends it after
\* CONN_TIMEOUT, and a client reads or leaves.  The shell need not answer.
Spec == Init /\ [][Next]_vars /\ \A t \in Threads : WF_vars(InHandleReq(t))

-----------------------------------------------------------------------------
TypeOK ==
    /\ clock \in Nat
    /\ alive \in BOOLEAN
    /\ requests \in Nat
    /\ list \in Seq(Addresses)
    /\ heap \in [Addresses -> [page : Pages, time : Nat] \cup {None}]
    /\ disk \in [Pages -> [version : Nat, parts : 0 .. Length]]
    /\ cacheLock \in Threads \cup {None}
    /\ open \in SUBSET Uses
    /\ lost \in Nat
    /\ Free >= 0
    /\ server_fd \in [Threads -> Uses \cup {None, Closed, Outside}]
    /\ file \in [Threads -> Uses \cup {None, Closed}]
    /\ pc \in [Threads -> {"gone", "idle", "lookup", "unnamed", "check", "expired",
                           "cached", "download", "connect", "unconnected", "receive", "store", "add",
                           "send"}]
    /\ req \in [Threads -> [page : Pages \cup {None}, node : Addresses \cup {None},
                            checked : Nat \cup {Unchecked}, size : 0 .. Length, pos : 0 .. Length,
                            sent : Seq(Nat)]]
    /\ stored \in [Pages -> Nat]
    /\ failed \in Nat
    /\ astray \in BOOLEAN

\* The list holds every node once and none that was freed, although delete_node
\* is called with pointers to nodes that other threads freed, and whose memory
\* malloc has given away again: no node is freed twice and the list has no cycle.
ListIsSound ==
    /\ \A i \in DOMAIN list : heap[list[i]] # None
    /\ \A i, j \in DOMAIN list : list[i] = list[j] => i = j

\* The list is ordered by age, whatever the threads deleted from it: of several
\* nodes of one page check_node finds the youngest.
YoungestFirst ==
    \A i, j \in DOMAIN list : i < j => heap[list[i]].time >= heap[list[j]].time

\* What a client gets comes from one version of its page: no other thread
\* empties, fills or replaces the file between two reads of it.
SendsOneVersion ==
    \A t \in Threads : pc[t] = "send" =>
        \A i \in DOMAIN req[t].sent : req[t].sent[i] = disk[Page(t)].version

\* A request that is answered, with the client still there, was sent all that
\* the file holds, be it just downloaded, found, or cut short.
SendsAllOfTheFile ==
    \A t \in Threads : (pc[t] = "send" /\ Len(req[t].sent) = req[t].size) =>
        Len(req[t].sent) = disk[Page(t)].parts

\* What a hit sends was downloaded less than Timeout before the hit was found,
\* as long as the pointer was then to a node of the page.
HitIsYoung ==
    \A t \in Threads : (pc[t] = "send" /\ req[t].checked # Unchecked) =>
        req[t].checked - stored[Page(t)] < Timeout

\* Descriptors are lost to failed requests only, one to each at most; every other
\* one that is open is one that a thread is to close yet, and can: it has not
\* lost its number.
FdsAreAccountedFor ==
    /\ lost <= failed
    /\ \A t \in Threads :
        /\ <<"client", t>> \in open <=> pc[t] # "gone"
        /\ open \cap {<<"temp", t>>, <<"shell", t>>, <<"pipe", t>>} # {} => pc[t] = "lookup"
        /\ <<"server", t>> \in open => pc[t] \in {"connect", "receive"} /\ server_fd[t] = <<"server", t>>
        /\ <<"file", t>> \in open =>
              pc[t] \in {"receive", "store", "add", "send"} /\ file[t] = <<"file", t>>

Doomed == ~alive \/ \E t \in Threads : pc[t] = "unnamed"

\* The proxy runs into its crash only when there are too many clients: more
\* than a third of the descriptors that failed requests have left.
CrashNeedsCrowd ==
    [][~Doomed /\ Doomed' => MaxFds < 3 * Cardinality({t \in Threads : pc[t] # "gone"}) + failed]_vars

Resting == {"gone", "idle"}

\* Every request ends that the shell answered: nobody waits for a lock for ever,
\* unless a descriptor was mistaken for another.
EveryRequestEnds ==
    \A t \in Threads : pc[t] \notin Resting \cup {"lookup"} ~> pc[t] \in Resting \/ astray

\* "File exists in LL, check if it has timed out" (the comment in handle_req).
CheckedNodeIsListed == \A t \in Threads : pc[t] = "check" => PointsToItsNode(t)

=============================================================================
