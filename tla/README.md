# Verification of the CSCI 4273 network projects

This directory holds TLA+ models, TLC configurations and TLAPS proofs for the four C
programs of this repository. The programs share no code and never talk to each other; each
is modelled on its own.

## The system

| Component | Source | State | Operations | How its parts interact |
|---|---|---|---|---|
| UDP file transfer, client | `Project 1/client/uftp_client.c`, `Project 1/shared/funcs.c` | the command it runs, packet number `i`, the file | put, get, ls, delete, exit | datagrams over one socket, 0.1 s time limits |
| UDP file transfer, server | `Project 1/server/uftp_server.c`, `Project 1/shared/funcs.c` | main loop or `recv_file`/`send_file`, packet number, files on disk, stdio buffers | serve one packet at a time | answers whoever sent the last packet |
| HTTP server | `Project 2/server.c` | per connection: descriptor, keep-alive, deadline | accept, read headers, GET/POST, close | one detached thread per connection, nothing shared but the files and the process's descriptors |
| HTTP caching proxy | `Project 3/server.c` | list of cached pages with times, cache files, resolved names | accept, look up, download, serve, expire | threads share the list (`ll_lock`), the files (`cache_lock`), the names (`resolved_lock`) and, without a lock, the process's descriptors |
| Distributed file system, client `dfc` | `Project 4/client/client.c` | loop counters, listing, `get_tmp` | put, list, get | one TCP connection per operation and server |
| Distributed file system, server `dfs` | `Project 4/server/server.c` | parts on disk, a thread per connection | store, list, send a part; crash, restart | threads share the directory, without locks |

### What is hard in each, and what makes it correct

* **Distributed file system.** A put returns before the servers' threads have stored
  anything; threads of several puts and gets work on the same files without locks; servers
  crash and return with what they had; a server that is down is skipped silently; users
  interrupt commands. Correct means: every part has two homes, so the file survives any set
  of failures without two neighbours; a get returns the version that was put, or says
  that it cannot; a transfer hangs only for a known cause.
* **UDP transfer.** Datagrams are lost, corrupted and, by retransmission, duplicated; every
  peer resends on a time limit; probes and their answers carry the same flag and no session
  number. Correct means: a put that returns has stored exactly the file, whatever was lost; a get
  writes one file of the server, unless that was killed in the middle, and the one it asked for
  unless the opening was disturbed.
* **Proxy.** Shared list nodes are used after the lock is released, a cache file is filled
  while others wait, failed downloads are entered in the list; names are looked up, resolved and
  saved in three separate steps, through a buffer all threads share; clients, servers, FILEs and
pipes share the descriptors, and a connection that failed leaves the number of a closed one, which is
used all the same. Correct means: no access
  to a freed node, a hit serves a complete and fresh page, mutual exclusion on the files, every
  descriptor closed by the thread that opened it, no
  connection to a blacklisted place, one address for a name.
* **HTTP server.** Keep-alive, deadlines and error paths decide when a descriptor is
  closed and what the header promises; sockets do not block, so a slow client loses bytes or its
  thread. Correct means: every descriptor is closed once or lost for a known cause, the
  promised length is what is sent, no connection is cut early, and every connection ends.

## Modules

| Module | What it is |
|---|---|
| `DfsPlacement` | The arithmetic of `run_put`: which server gets which part in which step, for any number N of servers (the code's 4). `Homes` is what the placement is meant to be. |
| `Dfs` | Clients, servers, threads and disks of Project 4, for one file name. |
| `MCDfs` | Values of the constants for TLC. |
| `DfsProof` | The loops send every part to exactly its homes; without two neighbours down a home is up; type correctness, and that a listed part is still there when it is fetched. |
| `DfsDurabilityProof` | A put that settled survives every outage without two neighbouring servers. |
| `DfsQueryProof` | Parts are only at home, and a query of a settled version finds it, gets it, and hangs only for a cause. |
| `FileTransfer` | What a put of Project 1 promises, without packets: the abstract specification. |
| `UftpPut` | Client, network and server of a put: stop-and-wait over lossy queues, interrupted clients, servers that exit or are killed. Implements `FileTransfer`. |
| `MCUftp` | A file of three packets, one of one packet, an empty one. |
| `UftpGet` | Client, network and server of get, ls and delete: request, acknowledgement, probe, confirmation and the file in the other direction. |
| `MCGet` | A file of two packets, one of one packet, a name without a file. |
| `UftpPutProof` | A put that returned is stored, the client is never ahead of the server, and `UftpPut` implements `FileTransfer`. |
| `UftpGetProof` | A get writes one file of the server, the one asked for when nothing goes wrong. |
| `ProxyCache` | `handle_req` of Project 3 in its threads: the list of cached pages, the cache files, the lock over them, the descriptors. |
| `MCProxy` | The symmetry of threads, pages and addresses, for the runs without liveness. |
| `ProxyDns` | `thread_main` of Project 3 up to `handle_req`: the host of a request, `resolved.txt`, the shared answer of `gethostbyname`, the blacklist. |
| `MCDns` | Two names, their lines and the requests that ask for them. |
| `HttpServer` | The connections of Project 2: threads, descriptors, keep-alive and its deadline, responses and their announced length. |
| `MCHttp` | Files and requests for TLC. |
| `ProxyDnsProof` | Nothing on the blacklist is connected to; what was found for a name is what its first line says, and was an answer for it. |
| `HttpServerProof` | Descriptors are accounted for, threads are lost only for a cause, the deadline is never early, and responses are as long as announced. |
| `ProxyCacheProof` | The list stays sound and ordered, a reply is the whole of one version, hits are young, every descriptor has an owner, and the crash for want of one needs a crowd. |

### `Dfs`: state and actions against the code

| Model | Code |
|---|---|
| `disk[s][p]` | the file `<dir>/<name>/<p>` of server s: a sequence of chunks named after the version they come from; `<<>>` truncated, `None` absent, `Hole` a gap |
| `threads` | server threads inside `recv_file`: version, server, part, how much the client has sent, position written |
| `pc`, `k`, `of`, `found`, `from`, `tmp`, `out` | the client's call stack: loop counter, version, listing, current piece, `get_tmp`, result |
| `StartPut`, `SendPart` | `run_put`, one call of `send_part` per step of its two loops |
| `ThreadOpen`, `ThreadWrite` | `recv_file` (mkdir, `fopen "wb+"`) and the rounds of `write_put_data` |
| `StartQuery`, `Ask`, `PrintList` | `run_list_get`, `get_query` and the server's `return_query`, `print_ll` |
| `FetchPiece`, `RecvPiece`, `LosePeer`, `CompileGet` | `fetch_piece` with the server's `run_put`, `write_put_data`, the ways it ends when the server dies, `compile_get` with the `rm -r get_tmp` that follows |
| `Crash`, `Restart`, `Quit` | a server is killed and started again with its directory; the user interrupts `dfc` (`sigint_handler`) |

`puts`, `queries`, `crashes`, `quits` bound the exploration. `past`, `settled`, `clean` and
`missed` are history: they say what the properties may promise and no guard reads them.
`settled` is the version whose put started last, as long as no server it needed was skipped,
no thread of it died and its client was not interrupted. `clean[c]` is the settled version
when c's query began with an empty `get_tmp`, as long as no put has started since. `Patient`
says that users wait for the threads of earlier puts before the next command, as people do;
`DfsRaces` drops it.

Abstracted: one file name; a part is a sequence of chunks, one chunk per `fwrite`; a send or a
short read of a header is atomic. A thread whose client died reads 0 bytes for ever
(`Stuck`), as in the code.

### `UftpPut`: state and actions against the code

| Model | Code |
|---|---|
| `pc`, `i`, `sending` | where the client is in `send_file`: `probe` in the first `send_then_confirm_ack`, `data` in the second, `catchup` in the `while(packet_no != i)` loop |
| `spc`, `si`, `total`, `stream` | the server's main loop or `recv_file` with its `i`, `packets_total` and what it has given to `fwrite` |
| `disk`, `leaked` | the file; the FILEs that an aborted `recv_file` never closes, with the part of the stream still in their stdio buffers |
| `toServer`, `toClient` | datagrams sent and not yet read, in order |
| `StartPut` | the menu loop: collect one extra packet or wait 0.1 s, open the file, send the probe |
| `ProbeAnswered`, `RightAck`, `WrongFlag`, `WrongAck`, `Timeout` | the outcomes of `recv_packet` in each place, with the send that follows in the same iteration |
| `AcceptProbe`, `Ignore`, `ObeyExit` | the branches of the server's main loop |
| `StoreData`, `AckAgain`, `AbortReceive`, `Close` | the iterations of `recv_file` and its two ways out |
| `FlushAtExit`, `Kill`, `StartServer` | `cleanup`'s `exit()` flushing every open FILE; a kill, which loses the buffers; a new server in the same directory |
| `Quit`, `SendExit` | the user interrupts `put` and starts the client again, from another port; the `exit` command |

The packets' stamp `t` is the number of the put. The program has no such number: no guard reads it
except to drop answers to a port that is gone. `kept` and `torn` are history.

Abstracted: one file name; a file is its sequence of packets; the CRC recognises every garbled
packet; queues keep their order, as one link or one machine does. A packet can be
lost or garbled when it is sent, and is duplicated by retransmission, which `Timely = FALSE`
allows at any moment: the limits are 0.1 s of processor time (`clock()`).

`FileTransfer` is what `UftpPut` implements: from `Begin` to `Return` the file may be rewritten,
`Return` requires the file to be there, and afterwards nothing touches it. A put of no packets (a
missing or empty file) changes nothing. Once a put was interrupted or the server killed
during one, `Spoil` takes the promise back: the buffer of an abandoned FILE may overwrite the
file when the server exits, and a kill between the last ACK and `fclose` loses the end.

### `UftpGet`: state and actions against the code

| Model | Code |
|---|---|
| `pc`, `cmd` | where the client is: `ask` in `send_then_confirm_ack` of the request, `await` in the `recv_packet` after it, `recv` in `recv_file`; the command |
| `ci`, `total`, `name`, `stream` | `i`, `packets_total` and `filename` of its `recv_file`, and what it has written |
| `spc`, `si`, `sname`, `slen`, `sflag` | the server's main loop (`main`), between its acknowledgement and the probe (`open`), `send_file`'s two calls of `send_then_confirm_ack` (`probe`, `data`) and its `while(packet_no != i)` (`catchup`) |
| `filename` | the buffer of the get branch, which nothing clears: a confirmation that comes late, without a payload, asks for the file it names |
| `Start`, `Acknowledged`, `AskAgain`, `Timeout` | the request, and what `recv_packet` makes of the next packet: any of the command's flag will do |
| `Begin`, `NothingComes`, `Crash` | the packet taken for the probe, its confirmation, and what follows; without a name there is no response file, and `fgetc(NULL)` ends the client |
| `Store`, `AckAgain`, `Abort`, `Drop` | the iterations of `recv_file` |
| `AcceptGet`, `AcceptCmd`, `Ignore` | the branches of the server's main loop, with `run_cmd` |
| `Announce`, `Confirmed`, `RightAck`, `WrongFlag`, `WrongAck`, `ServerTimeout` | `send_file` |
| `Quit`, `Restart` | the user interrupts the client, which starts again from another port; the server is killed and started again |

`early` counts time limits that pass with a packet (or the server's probe) still to come, and
`hurt` says that a packet was lost which is not sent again, or a program stopped. `Vital` is that
packet: the acknowledgement of the request, the probe and its confirmation (the probe is sent
again, but a get that took the acknowledgement for the probe is over by then), and the last
acknowledgement. `stray` says that the server was killed with packets of it still in the client's
socket. All three are history.

Abstracted: the text of listings (`Listing` packets); a name is what the user typed, the
`rm` and the file. Not modelled: puts between gets, `exit`, and the buffer of the FILE that an
aborted `recv_file` leaves open (`UftpPut` has all three).

### `ProxyCache`: state and actions against the code

| Model | Code |
|---|---|
| `list`, `heap` | the linked list from its head, and the nodes that `malloc` and `free` move in and out of memory; an address is given out again after it was freed |
| `disk[p]` | the cache file of page p: which download is in it and how many parts arrived |
| `cacheLock` | who holds `cache_lock`; a section under `ll_lock` is one action, so that lock needs no variable |
| `open`, `lost` | what descriptors are open for, by thread (`client`, `server`, `file`; `temp`, `shell` and `pipe` during a look-up), and how many belong to FILEs that nobody will close |
| `server_fd[t]`, `file[t]` | what the numbers in `server_fd` and in the cache FILE of thread t name: something open, `None` (-1 or no FILE), `Closed`, or `Outside` (stdio, the listening socket) |
| `pc[t]`, `req[t]` | where thread t is in `handle_req`, and its locals: page, node, `file_size`, position of the FILE, what the client was sent |
| `Accept`, `CleanExit` | a connection and its end |
| `ReadRequest` | the headers of a request are read, and `handle_req` is entered |
| `Borrow`, `Release` | what a look-up opens and closes: the FILEs of `get_ip` and `check_blacklist`, whatever `gethostbyname` opens (external), the pipes of `save_ip` and `get_md5`; one after the other |
| `Refuse` | no address, a listed host, or `check_blacklist` cannot open its file, which it takes for a listed host |
| `GetMd5Fails` | `popen` fails, and `path` stays the name of the cache directory, which `fopen` cannot open |
| `RequestMiss`, `RequestFound` | the end of `get_md5` with the result of `check_node` |
| `CheckTimeout`, `DeleteNode` | `check_timeout`, with no lock, on the pointer that `check_node` returned; `delete_node`, which looks for that pointer |
| `OpenCached` | `pthread_mutex_lock(&cache_lock)` with the `fopen` of a hit |
| `Connect`, `ConnectFails`, `NoSocket` | the lock for a download, and `init_server_tcp`: a socket, the failed `connect` that closes it, or no socket at all, after which `server_fd` is -1 or was never written |
| `OpenNew` | `download_file` goes on after each of these: the header is written to `server_fd`, and `fopen` empties the file and may get the number that was just closed |
| `Crash`, `Restart` | `fopen` returned NULL, for want of a descriptor or because `path` is the directory, and `fseek` or `fclose` is called with it; the user starts the proxy again with its files |
| `Receive`, `ReceiveFails` | the rounds of `recv_file`, and the ways a download ends early, with the `close(server_fd)` that closes whatever the number names: the server's socket, the thread's own cache FILE, or nothing |
| `GoAstray` | what the number names belongs to another thread, to this thread's client or to nobody; the model ends there |
| `CreateNode`, `AddNode` | `create_node` and `add_node`, also after a failed download |
| `SendPart`, `SendFails`, `ClientLeaves`, `Finish` | `send_data` and its ends; `SendFails` returns without `fclose` |
| `Tick` | a second passes |

`stored`, `failed`, `astray` and `req[t].checked` are history. `checked` is recorded only when the node was
still the page's: of what a thread decides by the memory of another page's node, or of none, nothing
can be promised. `CheckTimeout` takes either branch once its node has left the list: the
time is the first field of the node, which `free` overwrites and which a new owner has not
filled in yet.

Abstracted: a page is its URI (the code's MD5 of it), every server announces a length, and a
page has `Length` parts, each of them one `read` and one `write`. `file_size` is whatever the stack
held when a download failed before its first part. Descriptors have no numbers: what is opened next may
get the number that a closed one had (`Follow`) or another, which is all that `server_fd` can
notice. Between the NULL of `fopen` and the crash nothing else is opened (one step). What a thread does to
a descriptor of another, in its bytes and for that other thread, is not followed: `GoAstray` records
that it happens. `Tick` waits for a node, since before the first one no time is compared. Which address
a name has and what is on the blacklist is in `ProxyDns`.

### `ProxyDns`: state and actions against the code

| Model | Code |
|---|---|
| `resolved` | the lines of `resolved.txt`, which only grows and outlives the program |
| `static` | the hostent that `gethostbyname` returns to every thread |
| `lock` | who holds `resolved_lock` |
| `pc[t]`, `pieces[t]`, `name[t]`, `ip[t]` | where thread t is, how much of a header it has read, `req_host` and `req_ip` |
| `Accept`, `ReadPiece`, `CleanExit`, `TakeRequest` | `main`, `obtain_header`, `clean_exit` and the start of the loop over headers |
| `extract_req_fields` | its choice of the host: from the `Host:` line on, the first `://` of any line comes first |
| `LockToLookUp`, `get_ip`, `Scan` | `get_ip`: the lines in file order, as many whole ones at a time as fit `MAX_URI - 1` bytes; one that fits no buffer ends the search |
| `Answered`, `Unanswered`, `CopyFirst`, `CopySecond` | `check_hostname`: the call, which writes the shared memory (`Overwrite`), and may when it fails, and the `sprintf` that reads the address after it, in two halves |
| `LockToSave`, `save_ip` | `save_ip`, whose shell may fail |
| `Pass`, `Refuse`, `Connect`, `Return` | `check_blacklist`, `init_server_tcp`, the end of `handle_req` |
| `DnsChanges`, `Kill` | a name moves, comes or goes; the proxy is killed and started again |

`said`, `hits` and `overlapped` are history. A section under `resolved_lock` is two actions, its
lock and the rest, so that others wait for it. What a request asks for is one of a set
of records; parsing is reduced to which of the three hosts in it is taken.

### `HttpServer`: state and actions against the code

| Model | Code |
|---|---|
| `fds` | the descriptors in use: a socket per accepted connection, a FILE per response that is being sent; those of threads that returned without closing stay in it |
| `pc[c]` | the thread: `read` in `read_conn_fd`, `handle` in the loop over headers, `header`, `post`, `body` in `send_response`, `closed`, and `lost` after a `return NULL` without `close` |
| `batch`, `keep`, `timed`, `reply` | `req_buf` from `hdr` on, `keep_alive`, `use_timeout`, and the header and file being sent |
| `phase`, `age` | `tv_nsec` of the clock as a tick of the second, and the time since `req_time` |
| `client`, `inbox`, `got` | the other end: whether it is there, what it wrote, the responses it received |
| `Accept`, `Read`, `ReadEnds`, `ReadFails`, `TimeOut`, `EndBatch` | `main`, the outcomes of `read_conn_fd`, the end of the loop |
| `Skip`, `handle_req` (`NotFound`, `NoPeriod`, `CannotOpen`, `Open`, `Crash`) | a request that is passed over, and the branches of `handle_req` up to the header |
| `SendHeader`, `SendPost`, `SearchTag`, `SendPiece`, `EndReply`, `ClientGone`, `WriteFails` | `send_response` and `clean_write` |

`Deadline` is the comparison of the code, seconds and nanoseconds one by one. `age` counts from the
first request for keep-alive, since before it no property depends on it, and wraps within
the second once it is past every deadline, which keeps its tick and so the comparison. `intact`,
`asked` and `blocked` are history.

Abstracted: a request arrives whole and is read with all others that were written; a file is as
many pieces as `write` calls send, a POST's data is one, a body tag is in the file's first piece.

## Runs

| Run | Instance | Shows |
|---|---|---|
| `DfsFailover` | N=4, one version, 1 put, 1 query, 2 crashes with restarts | the README's system: `GetReturnsThePut`, `IncompleteMeansOutage`, `ListedPartsExist`, `Homed`, `TypeOK` |
| `DfsVersions` | N=2, two versions of 1 and 2 chunks, same rotation, 2 puts, 1 query, 1 crash, 1 interruption, with fairness | an overwrite leaves nothing of the shorter or longer predecessor, puts reach the disks and commands return: `SurvivesOutages`, `GetReturnsThePut`, `PutSettles`, `CommandReturns` |
| `DfsRaces` | N=2, one version, 2 puts and 1 query that do not wait | threads of two puts and a get on the same files: `SurvivesOutages`, `HangNeedsCause` |
| `DfsMixture` | N=4, two versions with different rotation, no failure | violation: `GetReturnsOneVersion` |
| `UftpLossy` | files of 3, 1 and 0 packets, 3 puts, 2 losses or garblings, premature time limits, 1 interruption, 1 exit or kill | `DoneMeansStored`, `NeverAhead`, `LeftoversNeedQuit`, `KeepsPromise` (refinement of `FileTransfer`), `TypeOK` |
| `UftpLive` | files of 3 and 1 packets, 2 puts, 3 losses, timely limits, with fairness | `PutIsStored` |
| `UftpGet` | files of 2 and 1 packets and a missing one, 3 commands, 3 losses or garblings, 2 premature time limits, 1 stop, with fairness | `DeliversTheFile`, `CommandsReturn`, `TypeOK` |
| `ProxyRaces` | 2 threads, 2 pages of 2 parts, 3 addresses, 6 descriptors, 3 requests, pages that live one second, with fairness | `ListIsSound`, `YoungestFirst`, `SendsOneVersion`, `SendsAllOfTheFile`, `HitIsYoung`, `FdsAreAccountedFor`, `CrashNeedsCrowd`, `EveryRequestEnds`, `TypeOK` |
| `ProxyStalePointer` | the same with one page | violation: `CheckedNodeIsListed` |
| `ProxyNames` | 2 threads, 2 names, 3 requests, 1 change of a name, a buffer that holds one line or two short ones, kills, with fairness | `BlacklistHolds`, `FirstLineForEver`, `OnlyWhatWasResolved`, `EveryRequestEnds`, `TypeOK` |
| `ProxyWrongAddress` | the same | violation: `CachedIsAResult` |
| `HttpConnections` | 2 connections, 8 kinds of request on 5 names, 2 requests, 2 descriptors, 1 full socket, a deadline of 1 second of 2 ticks, with fairness | `FramesMatch`, `LostNeedsCause`, `FdsAreAccountedFor`, `CutsOnlyTheIdle`, `ConnectionsEnd`, `TypeOK` |

The bounds of Project 4: two puts are the fewest that can overwrite or race; two crashes are the fewest
that can take a part away (two neighbours) and let a server go and come back in between; one
query meets each of the states the puts and crashes produce; two chunks are the fewest
that tell a torn part from a whole and an absent one. N=2 is the smallest ring, and at N=2 every
server holds every part, so the races need no more servers; the interleavings of longer
parts and larger rings are covered by the proof of `SettledPutSurvives`, which has no bounds.
The placement on four servers is what `DfsFailover` checks.

The bounds of Project 1: a file of three packets is one more than its stdio buffer holds, as in the
code (4096 bytes, packets of 1373), so that part of an abandoned stream can be on the disk and
part not; three puts let answers to the first survive into the third; two faults lose a packet
and its repetition; 4 packets under way are more than the client leaves without premature
time limits. For get, three commands let a packet of the first meet the third, and three losses
cover request, data and acknowledgement of one exchange. With one premature limit less, or one loss
less, the stale probes of a killed server (below) cannot mix two files.

The bounds of Project 3: three requests by two threads are the fewest with which a page is cached, one
thread deletes its old node and downloads the page again into the same address, and the other,
which found the old node, deletes the new one. The second page lets the address go to another
page's node. Six descriptors are what two clients with all that each can hold (its socket, and two of
server, FILE and pipe ends) need exactly, so the proxy crashes only after one FILE was lost to a failed
request; `CrashNeedsCrowd` counts both, for with fewer descriptors clients alone are enough, as
they are for the code once there are more than a third of `MaxFds`. One second of life and one tick make a page expire between any two steps; two parts are
the fewest of which a download can be cut short, and an empty file is one that failed at once.
For the names: two threads and two names are what one answer needs to overwrite another;
three requests resolve a name twice and then find it; the buffer of four bytes with lines of two
and three makes a boundary fall after every line.

The bounds of Project 2: two connections share two descriptors, so that with both open `fopen` fails, and
with one that is sending `accept` does. Two requests are what a batch, or a kept
connection, needs; one full socket cuts a response or ends a thread. With two ticks to the second
the two comparisons of the deadline disagree in half of the cases, and a deadline of one second
is early by less than that when only seconds are compared.

In `Dfs` fairness is weak fairness of each client's steps and of the server threads together: they are
processes and threads of an operating system, never blocked except on the conditions in
the guards. Commands, crashes and restarts have none. In `UftpPut` it is weak fairness of the
client's reading, of its time limits and of the server's steps: both programs poll their sockets
for ever. `UftpLive` takes time limits longer than a round trip, as on one machine. In `ProxyCache` it is
weak fairness of each thread inside `handle_req`: a server's silence ends a download after
`CONN_TIMEOUT`, and clients read their replies or leave. That last assumption is needed: a client
that does neither blocks `write`, and with it everyone, as its thread holds `cache_lock`. The mutexes
promise no order; that a thread is not overtaken for ever follows from the bound on requests. No fairness
is assumed of the look-up: `get_md5` waits in a loop for a shell that may never answer
(`server.c:462`), so `EveryRequestEnds` starts after it; it ends where a descriptor is mistaken (`astray`).

In `UftpGet` it is weak fairness of what each side receives and of its time limits, as in `UftpPut`;
`CommandsReturn` excludes premature limits and vital losses, since each of them really stops a
command for ever: after a premature limit the second request meets the server in `send_file`,
which answers it with data, and the client answers that with the request. In `ProxyDns` it is weak
fairness of the threads between a request and its answer; `gethostbyname` gives up after a while. In
`HttpServer` it is weak fairness of the threads and of the clock, and strong fairness of
`TimeOut`: the deadline holds in a part of every second only, and a thread polls its socket
all the time, so some poll falls into that part. `ReadFails` and `WriteFails` have none.

### What the violations show

`DfsMixture`: README line 3 promises that a client can download the file as long as enough
servers run. The rotation depends on the content, so a changed file goes to other servers and
the old parts stay where they were; `compile_get` takes each part from the lowest server
that has one. With all servers up a get writes a file of parts of both versions and
reports success. The README's text also gives server 3 the parts 2 and 3; the code
gives it 3 and 4.

`ProxyStalePointer`: `handle_req` says "File exists in LL, check if it has timed out"
(`server.c:648`), but `ll_lock` was released by `check_node`, and another thread may have
deleted and freed the node in between. What `check_timeout` reads is then undefined. That no
worse comes of it is what `ListIsSound` shows: `delete_node` compares the pointer with the
list, so a stale one frees nothing twice (it may delete a fresh node, even another page's, which
costs a download).

`ProxyWrongAddress`: "All DNS query results are cached locally. Before performing a DNS query,
the local cache is referenced" (README of Project 3, line 11). `check_hostname` reads the address
from the hostent that `gethostbyname` keeps for all threads, so two names that are resolved at once
can get each other's address, or a half of each. It is saved in `resolved.txt`, whose first
line for a name is used for ever (`FirstLineForEver`), restarts included. `OnlyWhatWasResolved`
shows that nothing else puts a wrong address there.

### What the properties leave out, and why

* `PutIsStored` speaks of the file and not of the return of put: after its last packet `recv_file`
  acknowledges, closes the file and returns. If that ACK is lost the client sends the packet again for
  ever, for the server's main loop has no branch for data.
* `DeliversTheFile` promises the right file only as long as nothing vital is lost. If a confirmation is
  lost the server goes on announcing the old file, and the next two of these probes are taken for
  the acknowledgement and the probe of the next get, which writes the old file under the old
  name and ends.
* `DeliversTheFile` promises one file only as long as `stray` is false. The server announces file a and,
  its limits passing early, sends the probe three times; the client misses them, and the server is
  killed and started again. The client's next command, `get b`, removes one of the probes from its
  socket, takes the second for the acknowledgement and the third for the probe, and opens a. Its
  confirmation meets the new server, which has read the request for b by then; if the new probe
  is lost, the confirmation starts the transfer, and the client writes the data of b under the name a.
  TLC finds this in 19 steps when the condition is left out. It took the proof to find it: `Linked` is not
  inductive without the condition, and the bounds of the run had to be widened to reach it.
* `SendsAllOfTheFile` speaks of the cache file and not of the page: a download that is cut short is
  entered in the list like a whole one, and every hit until it expires is answered with the
  truncated file.
* `FramesMatch` leaves out POSTs that are answered without their data (404, no body tag, a file that
  cannot be opened): their header announces the data all the same, and a client that keeps the
  connection waits for it.
* The properties of `ProxyCache` speak of the program up to the step at which a thread uses a
  descriptor that is not its own. That can happen: after a failed `connect` another thread opens
  something, which gets the number that `server_fd` still holds, and `download_file` writes its header
  there, reads from it and closes it. From then on the other thread's reply or cache file may hold
  anything. When the number goes to the thread's own cache FILE, the usual case, it is harmless but for
  the request, which fails, and the properties cover it.
* `EveryRequestEnds` of `ProxyDns` leaves out an empty line in `resolved.txt`, at which `get_ip`
  would spin under its lock; `save_ip` writes none.
* `BlacklistHolds` speaks of lines with a newline: of the last line, if it has none, the code cuts
  off a character of the name.

## Proofs

All theorems hold for every value of the constants that satisfies `NAssumption`
(`N >= 2`), `DfsAssumption`, `UftpAssumption`, `ProxyAssumption`, `DnsAssumption` and
`HttpAssumption` (types of the parameters, what files and requests there may be).

* `SentHome`, `EveryHomeSent`, `SomeHomeUp`: arithmetic of the two loops with their modulos.
* `TypeCorrect`, `ListedIsThere`: `TypeInv` is `TypeOK`, what a putting client knows, and that
  everything listed or open exists. It is inductive because no action removes a part.
* `SettledPutSurvives`: the invariant follows every step of the settled put through its
  *stages* (not sent yet, in a thread, stored) and says that a part's later stages are
  never undone: no thread of another version can still write to a home (`OneVersion`), so a
  stored part stays whole. With `SomeHomeUp` a whole copy is on a live disk.
* `DfsQueryProof`. `PlaceInv` follows bytes from the client's loop (`SentHome`) to threads, disks, pieces
  that are being sent and `get_tmp`: nothing but a put of a version brings its bytes to a server.
  `QueryInv` says of a query of a settled version that nothing writes meanwhile (`Undisturbed`), that each
  copy was out of reach, or is still to be listed, fetched or received, or is in `get_tmp` (`Followed`),
  and that what is in `get_tmp` is what is on the disk (`Copied`). With `SomeHomeUp` and
  `SettledIsStored` this gives `IncompleteMeansOutage`, `GetReturnsThePut` and `HangNeedsCause`.

* `UftpPutProof`. `TypeOK` needs `LeftoversHaveFile` beside it, since the bytes of an abandoned FILE
  are laid over a file that must exist. The rest is one invariant `Inv`, because what a client
  may believe depends on what both queues still hold:
  - `Order`: the queue to the server holds the puts in their order, and within a put no probe
    after data; the queue to the client holds no probe answers after ACKs once data is sent, and no
    ACKs after probe answers before. (This is where FIFO queues are needed.)
  - `Stamps`, `Flight`: once a client process has heard anything, nothing of older processes is
    under way; probes of earlier puts of the process still under way announce no packets, so
    they cannot open the file; data of theirs cannot meet an open `recv_file`.
  - `Session`: what `recv_file` has written is a prefix of the file being put.
  - `Hearing`: the ACK of packet n under way or counted means that the session has n + 1 packets and
    that every probe is past. So one ACK counted too many cannot happen, although ACKs
    name only a packet number.
  - `Kept`: after the return nothing under way can open the file again.

  `ReturnedPutIsStored`, `ClientNeverAhead` and `LeftoversOnlyOfQuitters` follow from `Inv`;
  `PutKeepsItsPromise` maps every action to one of `FileTransfer` under it.

* `ProxyCacheProof`. One invariant `Inv` for any number of threads, pages and addresses:
  - `Typed`: `TypeOK`; a thread between request and reply has its page, a thread after `LockCache` is the
    holder of `cache_lock` (`Exclusive`); `open` is finite; and `Accounted`: `FdsAreAccountedFor` with
    `OneAtATime`, by which a look-up has at most one thing open, a pipe's two ends together. That
    a number which names a thread's own descriptor stays with it until the close is what it takes:
    `Opens` and `Closes` rename only `Closed` numbers and those of what is closed (`DescriptorsStep`,
    `AccountedStep`).
  - `Contents`: the file under the holder of `cache_lock` only changes by the holder, so what
    it has sent so far is what the file holds up to its position; after a download that was
    cut short the FILE stands at its end, so nothing is sent and the request fails.
  - `ListShape`: `ListIsSound` and `YoungestFirst` with what makes them inductive: no node is of the
    future, and the one node between `CreateNode` and `AddNode` is in nobody's list and not older
    than any in it (`NodeIsNew`). Stale pointers need no conjunct, as `DeleteNode` does nothing
    that depends on them being valid.
  - `HitsAreYoung`: a node's page was stored no earlier than the node says.

  From it `TypeCorrect`, `ListStaysSound`, `ListStaysOrdered`, `RepliesAreOneFile`, `RepliesAreWhole`, `HitsStayYoung`,
  `EveryFdHasAnOwner` and, as an action property, `NoCrashWithoutCrowd`. The last is a counting argument:
  each present client has three slots, its socket and two that its place in `handle_req` shares out
  (`OneUsePerSlot`), so what is open maps one to one into them and `FS_Injection` bounds it by three
  times the clients present (`SlotsCounted`). A thread that is about to crash for want of a descriptor
  leaves one of its slots empty (`OneSlotLeft`), one whose `popen` fails leaves two (`TwoSlotsLeft`); with
  `lost <= failed` the bound follows. `DoomedBy` names the two steps that lead to a crash.

* `UftpGetProof`. Three invariants, each on top of the one before:
  - `Typed`: `TypeOK`, and which packets each queue can hold: data and probes name files that
    the server has, with a number below their length. From here on the values in packets can
    be relied on.
  - `InTurn`, as long as `~stray`, says in which order the queues hold their packets. While a probe is
    under way the server is in the `send_file` that sent it and has had no answer to its data
    (`Opening`); it leaves `send_file` with the client's last acknowledgement, so none is left when it
    answers the next command (`Acks`). `Session`: while the client is in `recv_file`, either the server is
    in the same transfer, at the client's packet or the one before (`Linked`), or it was killed with
    nothing under way and nothing more comes.
    So although `recv_file` takes any later packet for the next, the next is what comes
    (`Written`), whatever is lost, garbled or sent twice.
  - `Lockstep`, as long as nothing passed early and nothing vital was lost (`Calm`): what
    is under way is what was sent last (or acknowledgement and probe, one behind the other), and for
    each place of the client these packets and the place of the server are given: `Resting`,
    `Requesting`, `Expecting`, `Taking`. The flags alone are
    then enough to tell acknowledgement, probe and confirmation apart, which is `Asked`.

* `ProxyDnsProof`. Three invariants again.
  - `Checked`: between `check_blacklist` and the end of the request neither the name nor the address of a
    thread changes, whatever the other threads do to the file and the shared answer.
  - `FirstKept`: lines are only added at the end, so the first line of a name stays the first. That
    `get_ip` finds it is `ScanFindsTheFirst`: however the lines are distributed over the refills of the
    buffer, `Scan` gives the first line of the name or none.
  - `Faithful`, unless two threads were between call and copy at the same time (`overlapped`): one thread
    copies at a time and what it copies from is the answer to its name (`Copying`), so what was
    copied (`Copied`) and what was saved (`Saved`) are answers for their names.


  `Scan` is a recursive function over the lines that are left. What it computes is proved without an
  induction rule: `RoundsExist` takes the least length for which there is no such function, `FirstFound` the last
  position at which it is wrong, and each derives a contradiction (`Least`, `Extremes`). The same is done for
  `Found` of `HttpServer`.

* `HttpServerProof`. For the descriptors and causes the invariant is the two properties, the types they need, and that a client that
  was not accepted has no thread. What of it is not a matter of course: a thread has its FILE open only
  between header and end of a response, so each of the ways out of `send_response` that close it
  leaves none behind, and the one that does not ends the thread. `NeverCutEarly` rests on
  `DeadlineIsNeverEarly`: if the ticks within the second of start and now are `start <= phase`, then
  `start + age` and `phase` leave the same remainder and the seconds between them are whole.

  `ResponsesAreFramed` needs the connection's history: `Announced` says what is left to send is what the
  header announced less what was sent, and `Framed` that every response but the last is complete and
  the last one has exactly what was sent, as long as no write came short (`intact`) and the client is there.
  Post data and file are counted in one number, so `SendPost` followed by `SearchTag` and `SendPiece` has to
  come out at the same sum.

All invariants and action properties that the passing runs check are proved. Only model-checked are the
liveness properties `CommandReturns`, `PutSettles`, `PutIsStored`, `CommandsReturn`, `EveryRequestEnds` (in
`ProxyCache` and in `ProxyDns`) and `ConnectionsEnd`: fairness and ENABLED are outside the prover's reach.

## Not modelled

Parsing and formatting of headers, listings, configuration and paths; reads that return part
of a header or of a listing (`Project 4` `client.c:330`, `server.c:82`); in `Project 2`
requests split over two reads, post data that contains a line starting with GET or POST, a body
tag that ends after the first 4096 bytes of a file, and a POST without a blank line, all
of which the code takes for granted; short writes outside `Project 2`; SIGPIPE; in `Project 3`
the methods' text and the ports; the vendored CRC code, the course skeletons, the test
programs and the web pages.

Rare outcomes of single calls are left out as well:

* `Project 4`: a part that shrinks while it is sent ends in `fread() == 0`, where the sender stays for
  ever; a read that is merely short sends what the buffer held before (`shared.c:49`). In the client
  `read() == -1` ends a transfer with an error (`client.c:959`), a server that dies is `read() == 0`.
* `Project 1`: packets that are under way to a server when it is killed are lost with it. Its user takes
  longer to start it again than a packet takes to arrive at a closed port.
* `Project 2`: a file that shrinks after its size was taken makes `fread` return 0, which ends the thread
  with its socket and FILE open (`server.c:377` and `429`). The model has files that do not
  change, so `LostNeedsCause` does not name that cause. An error of `write` other than a full socket
  comes with a client that is gone.
* `Project 3`: an empty line in `resolved.txt` (above), and a server that announces no length.

## Plan

1. `Dfs` (done).
2. `UftpPut`, `FileTransfer`, `UftpGet` (done). Left: queues that reorder; puts and gets in one model.
3. `ProxyCache`, `ProxyDns` (done).
4. `HttpServer` (done).
5. Theorems: all invariants and action properties of every module (done). Left: what several modules
   could share, such as the lemmas on queues of `UftpPutProof` and `UftpGetProof`.
