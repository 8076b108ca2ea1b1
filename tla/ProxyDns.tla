------------------------------ MODULE ProxyDns ------------------------------
(***************************************************************************)
(* The proxy of Project 3 up to handle_req: the threads of the clients, the *)
(* names they resolve and save for ever in resolved.txt, and the blacklist. *)
(*                                                                         *)
(* An address is a sequence of two halves, for gethostbyname answers in     *)
(* memory that all threads share (static) and sprintf reads the address     *)
(* there byte by byte.  The file resolved.txt survives the program.        *)
(*                                                                         *)
(* A request is what extract_req_fields looks for in its text: the host of  *)
(* its first line (uri), of its Host: line, and one that comes after "://"   *)
(* in a line further down, where there is one (None otherwise).             *)
(***************************************************************************)
EXTENDS Integers, Sequences, FiniteSetsExt, Functions

CONSTANTS
    Threads, Names, Halves, None,
    Requests,       \* what clients may ask: [meth, uri, host, below]
    Width,          \* the length of a name's line in resolved.txt
    Buffer,         \* MAX_URI - 1: what get_ip reads at once
    MaxHeader,      \* MAX_REQ: reads of one piece that fit the buffer
    Blacklist,      \* the lines of blacklist.txt: [text, short, ended], short
                    \* being the text without its last character
    Zone, Moves,    \* what the name servers say at first, and later
    MaxRequests, MaxChanges    \* bounds of the exploration

Addresses == Halves \X Halves

ASSUME DnsAssumption ==
    /\ \A r \in Requests :
        /\ r.meth \in {"GET", "OTHER", "BAD"}
        /\ {r.uri, r.host, r.below} \subseteq Names \cup {None}
        /\ r.host = None => r.uri # None
    /\ None \notin Names \cup Addresses
    /\ Width \in [Names -> 1 .. Buffer]
    /\ {Buffer, MaxHeader, MaxRequests, MaxChanges} \subseteq Nat \ {0}
    /\ \A line \in Blacklist : line.ended \in BOOLEAN
    /\ Zone \in [Names -> Addresses \cup {None}] /\ Moves \subseteq Addresses \cup {None}

VARIABLES
    resolved,       \* the lines of resolved.txt
    dns,            \* what the name servers say
    static,         \* the hostent of gethostbyname
    lock,           \* who holds resolved_lock
    pc, pieces,     \* where each thread is, and what it has of a header
    name, ip,       \* req_host and req_ip
    \* History:
    said,           \* the answers that gethostbyname got
    hits,           \* the addresses that get_ip found for each name
    overlapped,     \* an answer was overwritten before it was copied
    requests, changes

request == <<pieces, name, ip>>
history == <<said, hits, overlapped>>
vars == <<resolved, dns, static, lock, pc, request, history, requests, changes>>

-----------------------------------------------------------------------------
Go(t, where) == pc' = [pc EXCEPT ![t] = where]

Busy == {"fields", "lookup", "locked", "resolve", "first", "second", "save", "saving", "check", "request", "connected"}

Init ==
    /\ resolved = <<>>
    /\ dns = Zone
    /\ static = None
    /\ lock = None
    /\ pc = [t \in Threads |-> "gone"]
    /\ pieces = [t \in Threads |-> 0]
    /\ name = [t \in Threads |-> None]
    /\ ip = [t \in Threads |-> None]
    /\ said = {} /\ hits = [n \in Names |-> {}]
    /\ overlapped = FALSE
    /\ requests = 0 /\ changes = 0

-----------------------------------------------------------------------------
(* Clients, and the life of a thread.                                      *)

Accept(t) ==
    /\ pc[t] = "gone"
    /\ Go(t, "idle")
    /\ UNCHANGED <<resolved, dns, static, lock, request, history, requests, changes>>

\* obtain_header reads on until it has a whole header.
ReadPiece(t) ==
    /\ pc[t] = "idle"
    /\ pieces[t] < MaxHeader
    /\ pieces' = [pieces EXCEPT ![t] = @ + 1]
    /\ UNCHANGED <<resolved, dns, static, lock, pc, name, ip, history, requests, changes>>

\* The client left or said nothing for CONN_TIMEOUT, or the header is too big.
CleanExit(t) ==
    /\ pc[t] = "idle"
    /\ Go(t, "gone")
    /\ pieces' = [pieces EXCEPT ![t] = 0]
    /\ UNCHANGED <<resolved, dns, static, lock, name, ip, history, requests, changes>>

\* The host is what follows the first "://" from the Host: line on, and only
\* without one that line's; the URI is for requests without a Host: line.
extract_req_fields(r) ==
    IF r.host = None THEN r.uri ELSE IF r.below # None THEN r.below ELSE r.host

\* send_error, and on to the next request.
send_error(t) == Go(t, "idle") /\ name' = [name EXCEPT ![t] = None] /\ ip' = [ip EXCEPT ![t] = None]

\* A GET is looked up, another method is answered with 405; what has no three
\* fields is passed over.
TakeRequest(t, r) ==
    /\ pc[t] = "idle" /\ pieces[t] > 0
    /\ requests < MaxRequests
    /\ requests' = requests + 1
    /\ pieces' = [pieces EXCEPT ![t] = 0]
    /\ \/ r.meth = "BAD" /\ UNCHANGED <<pc, name, ip>>
       \/ r.meth = "OTHER" /\ send_error(t)
       \/ /\ r.meth = "GET"
          /\ name' = [name EXCEPT ![t] = extract_req_fields(r)]
          /\ Go(t, "lookup")
          /\ UNCHANGED ip
    /\ UNCHANGED <<resolved, dns, static, lock, history, changes>>

-----------------------------------------------------------------------------
(* resolved.txt.                                                           *)

\* The length of the lines from i to j.
Bytes(i, j) == SumFunctionOnSet([k \in DOMAIN resolved |-> Width[resolved[k].name]], i .. j)

\* The loop of get_ip: the whole lines of a buffer are searched, and what is left
\* of the next one is moved to the front before the buffer is filled again.
Scan(n) ==
    LET Whole(i) == {j \in i .. Len(resolved) : Bytes(i, j) <= Buffer}
        from[i \in 1 .. Len(resolved) + 1] ==
            IF i > Len(resolved) \/ Whole(i) = {} THEN None
            ELSE LET hit == {j \in i .. Max(Whole(i)) : resolved[j].name = n}
                 IN  IF hit # {} THEN resolved[Min(hit)].addr ELSE from[Max(Whole(i)) + 1]
    IN  from[1]

TakeLock(t) == lock = None /\ lock' = t

LockToLookUp(t) ==
    /\ pc[t] = "lookup"
    /\ TakeLock(t)
    /\ Go(t, "locked")
    /\ UNCHANGED <<resolved, dns, static, request, history, requests, changes>>

\* A hit, and what comes of it.
Hit(t) ==
    /\ Scan(name[t]) # None
    /\ ip' = [ip EXCEPT ![t] = Scan(name[t])]
    /\ hits' = [hits EXCEPT ![name[t]] = @ \cup {Scan(name[t])}]
    /\ Go(t, "check")

\* mutant: the lock stays taken when the file cannot be opened.
get_ip_locked(t) ==
    /\ pc[t] = "locked"
    /\ \/ Hit(t) /\ lock' = None
       \/ Scan(name[t]) = None /\ Go(t, "resolve") /\ UNCHANGED <<ip, hits, lock>>
    /\ UNCHANGED <<resolved, dns, static, pieces, name, said, overlapped, requests, changes>>

\* Without a hit, or if the file cannot be opened, the name is resolved.
get_ip(t) ==
    /\ pc[t] = "locked"
    /\ \/ Hit(t)
       \/ Go(t, "resolve") /\ UNCHANGED <<ip, hits>>
    /\ lock' = None
    /\ UNCHANGED <<resolved, dns, static, pieces, name, said, overlapped, requests, changes>>

-----------------------------------------------------------------------------
(* check_hostname.                                                         *)

\* gethostbyname writes where all answers go, whoever copies from there.
Overwrite(a) ==
    /\ static' = a
    /\ overlapped' = (overlapped \/ \E u \in Threads : pc[u] \in {"first", "second"})

\* gethostbyname has an answer.
Answered(t) ==
    /\ pc[t] = "resolve"
    /\ dns[name[t]] # None
    /\ Overwrite(dns[name[t]])
    /\ said' = said \cup {<<name[t], dns[name[t]]>>}
    /\ Go(t, "first")
    /\ UNCHANGED <<resolved, dns, lock, request, hits, requests, changes>>

\* mutant: NULL is not looked for.
UnansweredUnchecked(t) ==
    /\ pc[t] = "resolve"
    /\ dns[name[t]] = None /\ static # None
    /\ Go(t, "first")
    /\ UNCHANGED <<resolved, dns, static, lock, request, history, requests, changes>>

\* mutant: what was not resolved is saved.
UnansweredSaved(t) ==
    /\ pc[t] = "resolve"
    /\ Go(t, "save")
    /\ UNCHANGED <<resolved, dns, static, lock, request, history, requests, changes>>

\* The name is not known, or its servers do not answer: 400.  The search may have
\* used the shared memory all the same.
Unanswered(t) ==
    /\ pc[t] = "resolve"
    /\ \/ UNCHANGED <<static, overlapped>>
       \/ \E a \in Addresses : Overwrite(a)
    /\ send_error(t)
    /\ UNCHANGED <<resolved, dns, lock, pieces, said, hits, requests, changes>>

\* sprintf reads the two halves.
CopyFirst(t) ==
    /\ pc[t] = "first"
    /\ ip' = [ip EXCEPT ![t] = <<static[1], static[2]>>]
    /\ Go(t, "second")
    /\ UNCHANGED <<resolved, dns, static, lock, pieces, name, history, requests, changes>>

CopySecond(t) ==
    /\ pc[t] = "second"
    /\ ip' = [ip EXCEPT ![t][2] = static[2]]
    /\ Go(t, "save")
    /\ UNCHANGED <<resolved, dns, static, lock, pieces, name, history, requests, changes>>

LockToSave(t) ==
    /\ pc[t] = "save"
    /\ TakeLock(t)
    /\ Go(t, "saving")
    /\ UNCHANGED <<resolved, dns, static, request, history, requests, changes>>

\* mutant: the line is put in front.
save_ip_first(t) ==
    /\ pc[t] = "saving"
    /\ resolved' = <<[name |-> name[t], addr |-> ip[t]]>> \o resolved
    /\ lock' = None
    /\ Go(t, "check")
    /\ UNCHANGED <<dns, static, request, history, requests, changes>>

\* save_ip: a shell appends the line, unless popen fails.
save_ip(t) ==
    /\ pc[t] = "saving"
    /\ \/ resolved' = Append(resolved, [name |-> name[t], addr |-> ip[t]])
       \/ UNCHANGED resolved
    /\ lock' = None
    /\ Go(t, "check")
    /\ UNCHANGED <<dns, static, request, history, requests, changes>>

-----------------------------------------------------------------------------
(* The blacklist.                                                          *)

\* The last character of every line is cut off, be it a newline or not.
Listed(x) == \E line \in Blacklist : x = IF line.ended THEN line.text ELSE line.short

\* mutant: only the name is compared.
CheckName(t) ==
    /\ pc[t] = "check"
    /\ ~Listed(name[t])
    /\ Go(t, "request")
    /\ UNCHANGED <<resolved, dns, static, lock, request, history, requests, changes>>

\* check_blacklist returns 0.
Pass(t) ==
    /\ pc[t] = "check"
    /\ ~Listed(name[t]) /\ ~Listed(ip[t])
    /\ Go(t, "request")
    /\ UNCHANGED <<resolved, dns, static, lock, request, history, requests, changes>>

\* 1, or -1 if the blacklist cannot be opened: 403.
Refuse(t) ==
    /\ pc[t] = "check"
    /\ send_error(t)
    /\ UNCHANGED <<resolved, dns, static, lock, pieces, history, requests, changes>>

\* handle_req: init_server_tcp connects to the address, unless the page is cached
\* or the server cannot be reached.
Connect(t) ==
    /\ pc[t] = "request"
    /\ Go(t, "connected")
    /\ UNCHANGED <<resolved, dns, static, lock, request, history, requests, changes>>

\* handle_req returns: the next request, or, after an error, clean_exit.
Return(t) ==
    /\ pc[t] \in {"request", "connected"}
    /\ \E where \in {"idle", "gone"} : Go(t, where)
    /\ name' = [name EXCEPT ![t] = None]
    /\ ip' = [ip EXCEPT ![t] = None]
    /\ UNCHANGED <<resolved, dns, static, lock, pieces, history, requests, changes>>

-----------------------------------------------------------------------------
\* The proxy is killed and started again.
Kill ==
    /\ static' = None
    /\ lock' = None
    /\ pc' = [t \in Threads |-> "gone"]
    /\ pieces' = [t \in Threads |-> 0]
    /\ name' = [t \in Threads |-> None]
    /\ ip' = [t \in Threads |-> None]
    /\ UNCHANGED <<resolved, dns, history, requests, changes>>

\* A name moves, comes or goes.
DnsChanges(n) ==
    /\ changes < MaxChanges
    /\ changes' = changes + 1
    /\ \E a \in Moves : dns' = [dns EXCEPT ![n] = a]
    /\ UNCHANGED <<resolved, static, lock, pc, request, history, requests>>

thread_main(t) ==
    \/ LockToLookUp(t) \/ get_ip(t)
    \/ Answered(t) \/ Unanswered(t) \/ CopyFirst(t) \/ CopySecond(t)
    \/ LockToSave(t) \/ save_ip(t)
    \/ Pass(t) \/ Refuse(t) \/ Connect(t) \/ Return(t)

Next ==
    \/ \E t \in Threads :
        \/ Accept(t) \/ ReadPiece(t) \/ CleanExit(t)
        \/ \E r \in Requests : TakeRequest(t, r)
        \/ thread_main(t)
    \/ \E n \in Names : DnsChanges(n)
    \/ Kill

\* The scheduler runs every thread; gethostbyname gives up after a while, and so
\* does handle_req.
Spec == Init /\ [][Next]_vars /\ \A t \in Threads : WF_vars(thread_main(t))

-----------------------------------------------------------------------------
TypeOK ==
    /\ resolved \in Seq([name : Names, addr : Addresses])
    /\ dns \in [Names -> Addresses \cup {None}]
    /\ static \in Addresses \cup {None}
    /\ lock \in Threads \cup {None}
    /\ pc \in [Threads -> Busy \cup {"gone", "idle"}]
    /\ pieces \in [Threads -> 0 .. MaxHeader]
    /\ name \in [Threads -> Names \cup {None}]
    /\ ip \in [Threads -> Addresses \cup {None}]
    /\ said \subseteq Names \X Addresses
    /\ hits \in [Names -> SUBSET Addresses]
    /\ overlapped \in BOOLEAN
    /\ {requests, changes} \subseteq Nat

\* Whatever a thread read, and whoever resolved it, no connection is made for a name
\* or to an address on a line of the blacklist that has its newline (check_blacklist).
BlacklistHolds ==
    \A t \in Threads : pc[t] = "connected" =>
        \A line \in Blacklist : line.ended => line.text \notin {name[t], ip[t]}

\* What get_ip ever found for a name is what its first line still says: the threads
\* that resolve a name at once may save several addresses, but all later
\* requests go to one of them, across restarts and changes of the name.
FirstLineForEver ==
    \A n \in Names : \A a \in hits[n] :
        \E i \in DOMAIN resolved :
            /\ resolved[i] = [name |-> n, addr |-> a]
            /\ \A j \in 1 .. i - 1 : resolved[j].name # n

\* As long as no answer was overwritten while it was copied, what is saved for a name
\* and what is connected to is what the name servers once said of it: never
\* another name's address, never a half of each.
OnlyWhatWasResolved ==
    ~overlapped =>
        /\ \A i \in DOMAIN resolved : <<resolved[i].name, resolved[i].addr>> \in said
        /\ \A t \in Threads : pc[t] = "connected" => <<name[t], ip[t]>> \in said

\* Every request is answered or connected for: resolved_lock is given back on every
\* path of get_ip and save_ip.  (At an empty line of resolved.txt get_ip would spin;
\* save_ip writes none.)
EveryRequestEnds == \A t \in Threads : pc[t] \in Busy ~> pc[t] \in {"gone", "idle"}

\* "All DNS query results are cached locally.  Before performing a DNS query, the local
\* cache is referenced" (README): what is in the cache is the result of a query for it.
CachedIsAResult ==
    \A i \in DOMAIN resolved : <<resolved[i].name, resolved[i].addr>> \in said

=============================================================================
