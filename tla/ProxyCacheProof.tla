-------------------------- MODULE ProxyCacheProof ---------------------------
(***************************************************************************)
(* Proofs about ProxyCache, for any number of threads, pages, addresses,   *)
(* descriptors and requests, and for every length and time limit.  The     *)
(* lock makes whoever works on a file the only one; the list needs no lock *)
(* for its order, as nodes are only added by whoever holds it.  Every      *)
(* descriptor has one thread that will close it, three to a thread at most,*)
(* which bounds what a crash for want of one needs.                        *)
(***************************************************************************)
EXTENDS ProxyCache, SequenceTheorems, FunctionTheorems, FiniteSetTheorems, TLAPS

\* What unlinking a node leaves of the list.
LEMMA Unlinked ==
    ASSUME NEW S, NEW s \in Seq(S), NEW i \in DOMAIN s
    PROVE  /\ RemoveAt(s, i) \in Seq(S)
           /\ Len(RemoveAt(s, i)) = Len(s) - 1
           /\ \A j \in DOMAIN RemoveAt(s, i) :
                RemoveAt(s, i)[j] = IF j < i THEN s[j] ELSE s[j + 1]
<1> DEFINE front == SubSeq(s, 1, i - 1)
           back  == SubSeq(s, i + 1, Len(s))
<1>1. /\ i \in 1 .. Len(s) /\ Len(s) \in Nat
    OBVIOUS
<1>2. /\ front \in Seq(S) /\ Len(front) = i - 1
      /\ \A j \in 1 .. i - 1 : front[j] = s[j]
    BY <1>1
<1>3. /\ back \in Seq(S) /\ Len(back) = Len(s) - i
      /\ \A j \in 1 .. Len(s) - i : back[j] = s[i + j]
    BY <1>1
<1>4. RemoveAt(s, i) = front \o back
    BY DEF RemoveAt
<1> HIDE DEF front, back
<1>5. /\ front \o back \in Seq(S) /\ Len(front \o back) = Len(s) - 1
      /\ \A j \in 1 .. Len(s) - 1 :
            (front \o back)[j] = IF j < i THEN front[j] ELSE back[j - (i - 1)]
    BY <1>1, <1>2, <1>3
<1>6. DOMAIN (front \o back) = 1 .. Len(s) - 1
    BY <1>5
<1>7. ASSUME NEW j \in 1 .. Len(s) - 1
      PROVE  (front \o back)[j] = IF j < i THEN s[j] ELSE s[j + 1]
    <2>1. CASE j < i
        BY <2>1, <1>1, <1>2, <1>5
    <2>2. CASE ~(j < i)
        <3>1. /\ j - (i - 1) \in 1 .. Len(s) - i
              /\ i + (j - (i - 1)) = j + 1
            BY <2>2, <1>1
        <3> QED
            BY <2>2, <3>1, <1>3, <1>5
    <2> QED
        BY <2>1, <2>2
<1> QED
    BY <1>4, <1>5, <1>6, <1>7

-----------------------------------------------------------------------------
Busy == {"lookup", "unnamed", "check", "expired", "cached", "download", "connect", "unconnected",
         "receive", "store", "add", "send"}
Places == {"gone", "idle", "lookup", "unnamed", "check", "expired", "cached", "download", "connect",
           "unconnected", "receive", "store", "add", "send"}
PcType == [Threads -> Places]

Nodes == [page : Pages, time : Nat] \cup {None}
Files == [version : Nat, parts : 0 .. Length]
Request == [page : Pages \cup {None}, node : Addresses \cup {None}, checked : Nat \cup {Unchecked},
            size : 0 .. Length, pos : 0 .. Length, sent : Seq(Nat)]

\* A thread in handle_req has a page, and a node where it uses one.
HasItsPage ==
    \A t \in Threads :
        /\ pc[t] \in Busy => Page(t) \in Pages
        /\ pc[t] \in {"check", "expired", "add"} => req[t].node \in Addresses

Locked == {"connect", "unconnected", "receive", "store", "add", "send"}

\* The holder of cache_lock is the thread that works on a cache file.
Exclusive ==
    /\ \A t \in Threads : pc[t] \in Locked => cacheLock = t
    /\ cacheLock # None => pc[cacheLock] \in Locked

\* A thread receives only as long as parts are missing.
PartsMissing == \A t \in Threads : pc[t] = "receive" => disk[Page(t)].parts < Length

\* What a thread has open while it looks a name up: a pipe has two ends.
OneAtATime ==
    \A t \in Threads :
        /\ <<"pipe", t>> \in open => <<"shell", t>> \in open
        /\ ~(<<"temp", t>> \in open /\ <<"shell", t>> \in open)

Accounted == FdsAreAccountedFor /\ OneAtATime

Typed == TypeOK /\ IsFiniteSet(open) /\ HasItsPage /\ Exclusive /\ PartsMissing /\ Accounted

LEMMA NewRequestTyped ==
    /\ NoRequest \in Request
    /\ \A p \in Pages, a \in Addresses \cup {None} :
        NewRequest(p, a) \in Request /\ NewRequest(p, a).page = p /\ NewRequest(p, a).node = a
BY ProxyAssumption DEF NoRequest, NewRequest, Request

\* What the assignments to the locals of one thread do.
LEMMA SetChecked ==
    ASSUME req \in [Threads -> Request], NEW t \in Threads, NEW c \in Nat \cup {Unchecked},
           req' = [req EXCEPT ![t].checked = c]
    PROVE  /\ req' \in [Threads -> Request]
           /\ \A u \in Threads \ {t} : req'[u] = req[u]
           /\ req'[t].page = req[t].page
           /\ req'[t].node = req[t].node
           /\ req'[t].checked = c
           /\ req'[t].size = req[t].size
           /\ req'[t].pos = req[t].pos
           /\ req'[t].sent = req[t].sent
BY DEF Request

LEMMA SetNode ==
    ASSUME req \in [Threads -> Request], NEW t \in Threads, NEW a \in Addresses,
           req' = [req EXCEPT ![t].node = a]
    PROVE  /\ req' \in [Threads -> Request]
           /\ \A u \in Threads \ {t} : req'[u] = req[u]
           /\ req'[t].page = req[t].page
           /\ req'[t].node = a
           /\ req'[t].checked = req[t].checked
           /\ req'[t].size = req[t].size
           /\ req'[t].pos = req[t].pos
           /\ req'[t].sent = req[t].sent
BY DEF Request

LEMMA SetSize ==
    ASSUME req \in [Threads -> Request], NEW t \in Threads, NEW n \in 0 .. Length,
           req' = [req EXCEPT ![t].size = n]
    PROVE  /\ req' \in [Threads -> Request]
           /\ \A u \in Threads \ {t} : req'[u] = req[u]
           /\ req'[t].page = req[t].page
           /\ req'[t].node = req[t].node
           /\ req'[t].checked = req[t].checked
           /\ req'[t].size = n
           /\ req'[t].pos = req[t].pos
           /\ req'[t].sent = req[t].sent
BY DEF Request

LEMMA SetSizePos ==
    ASSUME req \in [Threads -> Request], NEW t \in Threads, NEW n \in 0 .. Length, NEW k \in 0 .. Length,
           req' = [req EXCEPT ![t].size = n, ![t].pos = k]
    PROVE  /\ req' \in [Threads -> Request]
           /\ \A u \in Threads \ {t} : req'[u] = req[u]
           /\ req'[t].page = req[t].page
           /\ req'[t].node = req[t].node
           /\ req'[t].checked = req[t].checked
           /\ req'[t].size = n
           /\ req'[t].pos = k
           /\ req'[t].sent = req[t].sent
BY DEF Request

LEMMA SetPosSent ==
    ASSUME req \in [Threads -> Request], NEW t \in Threads, NEW k \in 0 .. Length, NEW s \in Seq(Nat),
           req' = [req EXCEPT ![t].pos = k, ![t].sent = s]
    PROVE  /\ req' \in [Threads -> Request]
           /\ \A u \in Threads \ {t} : req'[u] = req[u]
           /\ req'[t].page = req[t].page
           /\ req'[t].node = req[t].node
           /\ req'[t].checked = req[t].checked
           /\ req'[t].size = req[t].size
           /\ req'[t].pos = k
           /\ req'[t].sent = s
BY DEF Request

LEMMA SetParts ==
    ASSUME disk \in [Pages -> Files], NEW p \in Pages, NEW n \in 0 .. Length,
           disk' = [disk EXCEPT ![p].parts = n]
    PROVE  /\ disk' \in [Pages -> Files]
           /\ \A q \in Pages \ {p} : disk'[q] = disk[q]
           /\ disk'[p].parts = n /\ disk'[p].version = disk[p].version
BY DEF Files

LEMMA GoFacts ==
    ASSUME pc \in PcType, NEW t \in Threads, NEW w \in Places, Go(t, w)
    PROVE  /\ pc' \in PcType /\ pc'[t] = w
           /\ \A u \in Threads \ {t} : pc'[u] = pc[u]
BY DEF Go, PcType

-----------------------------------------------------------------------------
LEMMA TypeInit == Init => Typed
<1> SUFFICES ASSUME Init PROVE Typed
    OBVIOUS
<1> USE ProxyAssumption
<1>1. IsFiniteSet(open) /\ Free = MaxFds
    BY FS_EmptySet DEF Init, Free
<1>2. TypeOK
    <2>1. req \in [Threads -> Request]
        BY NewRequestTyped DEF Init
    <2>2. disk \in [Pages -> [version : Nat, parts : 0 .. Length]] /\ Free >= 0
        BY <1>1 DEF Init
    <2>3. /\ heap \in [Addresses -> [page : Pages, time : Nat] \cup {None}]
          /\ stored \in [Pages -> Nat]
        BY DEF Init
    <2>4. /\ clock \in Nat /\ requests \in Nat /\ lost \in Nat /\ failed \in Nat
          /\ list \in Seq(Addresses) /\ cacheLock \in Threads \cup {None}
        BY DEF Init
    <2>5. /\ alive \in BOOLEAN /\ astray \in BOOLEAN /\ open \in SUBSET Uses
        BY DEF Init
    <2>6. /\ server_fd \in [Threads -> Uses \cup {None, Closed, Outside}]
          /\ file \in [Threads -> Uses \cup {None, Closed}]
          /\ pc \in PcType
        BY DEF Init, PcType, Places
    <2> QED
        BY <2>1, <2>2, <2>3, <2>4, <2>5, <2>6 DEF TypeOK, Request, PcType, Places
<1>3. HasItsPage /\ Exclusive /\ PartsMissing
    BY DEF Init, HasItsPage, Exclusive, PartsMissing, Busy, Locked
<1>4. Accounted
    BY DEF Init, Accounted, FdsAreAccountedFor, OneAtATime
<1> QED
    BY <1>1, <1>2, <1>3, <1>4 DEF Typed

-----------------------------------------------------------------------------
\* What opening and closing does to the number of descriptors.
LEMMA OpenMore ==
    ASSUME open \in SUBSET Uses, IsFiniteSet(open), lost \in Nat, Free >= 1, NEW use \in Uses,
           open' = open \cup {use}, lost' = lost
    PROVE  open' \in SUBSET Uses /\ IsFiniteSet(open') /\ Free' >= 0
<1>1. /\ IsFiniteSet(open') /\ Cardinality(open) \in Nat /\ Cardinality(open') \in Nat
      /\ Cardinality(open') <= Cardinality(open) + 1
    BY FS_AddElement, FS_CardinalityType
<1> QED
    BY <1>1, ProxyAssumption DEF Free

LEMMA OpenTwo ==
    ASSUME open \in SUBSET Uses, IsFiniteSet(open), lost \in Nat, Free >= 2,
           NEW use \in Uses, NEW other \in Uses, open' = open \cup {use, other}, lost' = lost
    PROVE  open' \in SUBSET Uses /\ IsFiniteSet(open') /\ Free' >= 0
<1> DEFINE one == open \cup {use}
<1>1. /\ IsFiniteSet(one) /\ Cardinality(open) \in Nat /\ Cardinality(one) \in Nat
      /\ Cardinality(one) <= Cardinality(open) + 1
    BY FS_AddElement, FS_CardinalityType
<1>2. open' = one \cup {other}
    OBVIOUS
<1> HIDE DEF one
<1>3. /\ IsFiniteSet(one \cup {other})
      /\ Cardinality(one \cup {other}) = IF other \in one THEN Cardinality(one) ELSE Cardinality(one) + 1
    BY <1>1, FS_AddElement
<1>4. IsFiniteSet(open') /\ Cardinality(open') \in Nat /\ Cardinality(open') <= Cardinality(one) + 1
    BY <1>1, <1>2, <1>3
<1>5. open' \in SUBSET Uses
    OBVIOUS
<1> QED
    BY <1>1, <1>4, <1>5, ProxyAssumption DEF Free

LEMMA OpenFewer ==
    ASSUME open \in SUBSET Uses, IsFiniteSet(open), lost \in Nat, Free >= 0, NEW S,
           open' = open \ S, lost' = lost
    PROVE  open' \in SUBSET Uses /\ IsFiniteSet(open') /\ Free' >= 0
<1>1. /\ IsFiniteSet(open') /\ Cardinality(open) \in Nat /\ Cardinality(open') \in Nat
      /\ Cardinality(open') <= Cardinality(open)
    BY FS_Subset, FS_CardinalityType
<1> QED
    BY <1>1, ProxyAssumption DEF Free

\* A lost FILE stays open, but its thread's socket is closed.
LEMMA OpenLost ==
    ASSUME open \in SUBSET Uses, IsFiniteSet(open), lost \in Nat, Free >= 0,
           NEW client, NEW used, open' = open \ {client, used},
           lost' = IF used \in open THEN lost + 1 ELSE lost
    PROVE  open' \in SUBSET Uses /\ IsFiniteSet(open') /\ lost' \in Nat /\ Free' >= 0
<1> DEFINE rest == open \ {used}
<1>1. /\ IsFiniteSet(rest) /\ Cardinality(open) \in Nat /\ Cardinality(rest) \in Nat
      /\ Cardinality(rest) = IF used \in open THEN Cardinality(open) - 1 ELSE Cardinality(open)
    BY FS_RemoveElement, FS_CardinalityType
<1>2. open' \in SUBSET rest
    OBVIOUS
<1>3. /\ IsFiniteSet(open') /\ Cardinality(open') \in Nat /\ Cardinality(open') <= Cardinality(rest)
    BY <1>1, <1>2, FS_Subset, FS_CardinalityType
<1>4. open' \in SUBSET Uses /\ lost' \in Nat
    OBVIOUS
<1> HIDE DEF rest
<1>5. MaxFds \in Nat /\ MaxFds - Cardinality(open) - lost >= 0
    BY ProxyAssumption DEF Free
<1>6. MaxFds - Cardinality(open') - lost' >= 0
    BY <1>1, <1>3, <1>5
<1> QED
    BY <1>3, <1>4, <1>6 DEF Free

Names == Uses \cup {None, Closed, Outside}
FileNames == Uses \cup {None, Closed}

DescriptorsTyped ==
    /\ open \in SUBSET Uses /\ IsFiniteSet(open)
    /\ lost \in Nat /\ Free >= 0
    /\ server_fd \in [Threads -> Names]
    /\ file \in [Threads -> FileNames]

LEMMA FollowTyped ==
    ASSUME DescriptorsTyped, NEW old, NEW new \in Uses \cup {Closed}
    PROVE  /\ Follow(server_fd, old, new) \in [Threads -> Names]
           /\ Follow(file, old, new) \in [Threads -> FileNames]
BY DEF Follow, DescriptorsTyped, Names, FileNames

LEMMA OpensTyped ==
    ASSUME DescriptorsTyped, NEW use \in Uses, Opens(use)
    PROVE  DescriptorsTyped'
<1>1. open' \in SUBSET Uses /\ IsFiniteSet(open') /\ lost' \in Nat /\ Free' >= 0
    BY OpenMore DEF DescriptorsTyped, Opens
<1>2. /\ Follow(server_fd, Closed, use) \in [Threads -> Names]
      /\ Follow(file, Closed, use) \in [Threads -> FileNames]
    BY FollowTyped
<1>3. server_fd' \in [Threads -> Names] /\ file' \in [Threads -> FileNames]
    BY <1>2 DEF DescriptorsTyped, Opens
<1> QED
    BY <1>1, <1>3 DEF DescriptorsTyped

LEMMA OpensPipeTyped ==
    ASSUME DescriptorsTyped, NEW t \in Threads, OpensPipe(t)
    PROVE  DescriptorsTyped'
<1>1. <<"shell", t>> \in Uses /\ <<"pipe", t>> \in Uses
    BY DEF Uses, Kinds
<1>2. open' \in SUBSET Uses /\ IsFiniteSet(open') /\ lost' \in Nat /\ Free' >= 0
    BY <1>1, OpenTwo DEF DescriptorsTyped, OpensPipe
<1>3. \A use \in {<<"shell", t>>, <<"pipe", t>>} :
         /\ Follow(server_fd, Closed, use) \in [Threads -> Names]
         /\ Follow(file, Closed, use) \in [Threads -> FileNames]
    BY <1>1, FollowTyped
<1>4. server_fd' \in [Threads -> Names] /\ file' \in [Threads -> FileNames]
    BY <1>3 DEF DescriptorsTyped, OpensPipe
<1> QED
    BY <1>2, <1>4 DEF DescriptorsTyped

LEMMA ClosesTyped ==
    ASSUME DescriptorsTyped, NEW use, Closes(use)
    PROVE  DescriptorsTyped'
<1>1. open' \in SUBSET Uses /\ IsFiniteSet(open') /\ lost' \in Nat /\ Free' >= 0
    BY OpenFewer DEF DescriptorsTyped, Closes
<1>2. /\ Follow(server_fd, use, Closed) \in [Threads -> Names]
      /\ Follow(file, use, Closed) \in [Threads -> FileNames]
    BY FollowTyped
<1>3. server_fd' \in [Threads -> Names] /\ file' \in [Threads -> FileNames]
    BY <1>2 DEF Closes
<1> QED
    BY <1>1, <1>3 DEF DescriptorsTyped

LEMMA OpenFileTyped ==
    ASSUME DescriptorsTyped, NEW t \in Threads, OpenFile(t)
    PROVE  DescriptorsTyped'
<1>1. <<"file", t>> \in Uses
    BY DEF Uses, Kinds
<1>2. open' \in SUBSET Uses /\ IsFiniteSet(open') /\ lost' \in Nat /\ Free' >= 0
    BY <1>1, OpenMore DEF DescriptorsTyped, OpenFile
<1>3. Follow(server_fd, Closed, <<"file", t>>) \in [Threads -> Names]
    BY <1>1, FollowTyped
<1>4. server_fd' \in [Threads -> Names] /\ file' \in [Threads -> FileNames]
    BY <1>1, <1>3 DEF DescriptorsTyped, OpenFile, FileNames
<1> QED
    BY <1>2, <1>4 DEF DescriptorsTyped

LEMMA CloseFileTyped ==
    ASSUME DescriptorsTyped, NEW t \in Threads, CloseFile(t)
    PROVE  DescriptorsTyped'
<1>1. open' \in SUBSET Uses /\ IsFiniteSet(open') /\ lost' \in Nat /\ Free' >= 0
    BY OpenFewer DEF DescriptorsTyped, CloseFile
<1>2. server_fd' \in [Threads -> Names] /\ file' \in [Threads -> FileNames]
    BY DEF DescriptorsTyped, CloseFile, FileNames
<1> QED
    BY <1>1, <1>2 DEF DescriptorsTyped

\* No step opens more than the process may have.
LEMMA DescriptorsStep == Typed /\ [Next]_vars => DescriptorsTyped'
<1> SUFFICES ASSUME Typed, [Next]_vars PROVE DescriptorsTyped'
    OBVIOUS
<1> USE ProxyAssumption
<1>1. DescriptorsTyped
    BY DEF Typed, TypeOK, DescriptorsTyped, Names, FileNames
<1>u. \A t \in Threads, k \in Kinds : <<k, t>> \in Uses
    BY DEF Uses
<1>2. ASSUME UNCHANGED descriptors PROVE DescriptorsTyped'
    BY <1>1, <1>2 DEF DescriptorsTyped, descriptors, Free
<1>3. ASSUME NEW t \in Threads, Accept(t) \/ CleanExit(t) PROVE DescriptorsTyped'
    BY <1>1, <1>u, <1>3, OpensTyped, ClosesTyped DEF Accept, CleanExit, Kinds
<1>4. ASSUME NEW t \in Threads, Borrow(t) PROVE DescriptorsTyped'
    BY <1>1, <1>u, <1>4, OpensTyped, OpensPipeTyped DEF Borrow, Kinds
<1>5. ASSUME NEW t \in Threads, Release(t) \/ CheckNode(t) PROVE DescriptorsTyped'
    BY <1>1, <1>5, ClosesTyped DEF Release, CheckNode
<1>6. ASSUME NEW t \in Threads, OpenCached(t) \/ OpenNew(t) PROVE DescriptorsTyped'
    BY <1>1, <1>6, OpenFileTyped DEF OpenCached, OpenNew
<1>7. ASSUME NEW t \in Threads, Connect(t) PROVE DescriptorsTyped'
    <2>1. <<"server", t>> \in Uses
        BY <1>u DEF Kinds
    <2>2. open' \in SUBSET Uses /\ IsFiniteSet(open') /\ lost' \in Nat /\ Free' >= 0
        BY <1>1, <1>7, <2>1, OpenMore DEF DescriptorsTyped, Connect
    <2>3. server_fd' \in [Threads -> Names] /\ file' \in [Threads -> FileNames]
        BY <1>1, <1>7, <2>1 DEF DescriptorsTyped, Connect, Names
    <2> QED BY <2>2, <2>3 DEF DescriptorsTyped
<1>8. ASSUME NEW t \in Threads, ConnectFails(t) PROVE DescriptorsTyped'
    BY <1>1, <1>8, ClosesTyped DEF ConnectFails
<1>9. ASSUME NEW t \in Threads, NoSocket(t) PROVE DescriptorsTyped'
    <2>1. server_fd' \in [Threads -> Names]
        BY <1>1, <1>9 DEF DescriptorsTyped, NoSocket, Names
    <2> QED BY <1>1, <1>9, <2>1 DEF DescriptorsTyped, NoSocket, Free
<1>10. ASSUME NEW t \in Threads, Crash(t) PROVE DescriptorsTyped'
    <2>1. IsFiniteSet(open') /\ Cardinality(open') = 0
        BY <1>10, FS_EmptySet DEF Crash
    <2>2. Free' >= 0
        BY <1>10, <2>1 DEF Crash, Free
    <2>3. server_fd' \in [Threads -> Names] /\ file' \in [Threads -> FileNames]
        BY <1>10 DEF Crash, Names, FileNames
    <2> QED BY <1>10, <2>1, <2>2, <2>3 DEF Crash, DescriptorsTyped
<1>11. ASSUME NEW t \in Threads, Receive(t) PROVE DescriptorsTyped'
    <2>1. CASE UNCHANGED <<pc, open, server_fd>>
        BY <1>1, <1>11, <2>1 DEF Receive, DescriptorsTyped, Free
    <2>2. CASE /\ open' = open \ {<<"server", t>>}
               /\ server_fd' = [server_fd EXCEPT ![t] = None]
        <3>1. open' \in SUBSET Uses /\ IsFiniteSet(open') /\ lost' \in Nat /\ Free' >= 0
            BY <1>1, <1>11, <2>2, OpenFewer DEF DescriptorsTyped, Receive
        <3>2. server_fd' \in [Threads -> Names] /\ file' \in [Threads -> FileNames]
            BY <1>1, <1>11, <2>2 DEF DescriptorsTyped, Receive, Names
        <3> QED BY <3>1, <3>2 DEF DescriptorsTyped
    <2> QED BY <1>11, <2>1, <2>2 DEF Receive
<1>12. ASSUME NEW t \in Threads, ReceiveFails(t) PROVE DescriptorsTyped'
    <2>1. open' \in SUBSET Uses /\ IsFiniteSet(open') /\ lost' \in Nat /\ Free' >= 0
        BY <1>1, <1>12, OpenFewer DEF DescriptorsTyped, ReceiveFails
    <2>2. server_fd' \in [Threads -> Names]
        BY <1>1, <1>12 DEF DescriptorsTyped, ReceiveFails, Names
    <2>3. file' \in [Threads -> FileNames]
        <3>1. (IF file[t] = server_fd[t] THEN Closed ELSE file[t]) \in FileNames
            BY <1>1 DEF DescriptorsTyped, FileNames
        <3> QED BY <1>1, <1>12, <3>1 DEF DescriptorsTyped, ReceiveFails
    <2> QED BY <2>1, <2>2, <2>3 DEF DescriptorsTyped
<1>13. ASSUME NEW t \in Threads, SendFails(t) PROVE DescriptorsTyped'
    <2>1. open' \in SUBSET Uses /\ IsFiniteSet(open') /\ lost' \in Nat /\ Free' >= 0
        BY <1>1, <1>13, OpenLost DEF DescriptorsTyped, SendFails, Abandon
    <2>2. server_fd' \in [Threads -> Names] /\ file' \in [Threads -> FileNames]
        BY <1>1, <1>13 DEF DescriptorsTyped, SendFails, Abandon, FileNames
    <2> QED BY <2>1, <2>2 DEF DescriptorsTyped
<1>14. ASSUME NEW t \in Threads, ClientLeaves(t) \/ Finish(t) PROVE DescriptorsTyped'
    BY <1>1, <1>14, CloseFileTyped DEF ClientLeaves, Finish
<1>15. ASSUME NEW t \in Threads, NEW p \in Pages, ReadRequest(t, p) PROVE DescriptorsTyped'
    BY <1>2, <1>15 DEF ReadRequest
<1>16. ASSUME NEW t \in Threads, Refuse(t) \/ GetMd5Fails(t) PROVE DescriptorsTyped'
    BY <1>2, <1>16 DEF Refuse, GetMd5Fails
<1>17. ASSUME NEW t \in Threads, CheckTimeout(t) \/ DeleteNode(t) \/ CreateNode(t) PROVE DescriptorsTyped'
    BY <1>2, <1>17 DEF CheckTimeout, DeleteNode, CreateNode
<1>18. ASSUME NEW t \in Threads, AddNode(t) \/ SendPart(t) \/ GoAstray(t) PROVE DescriptorsTyped'
    BY <1>2, <1>18 DEF AddNode, SendPart, GoAstray
<1>19. ASSUME Restart \/ Tick \/ UNCHANGED vars PROVE DescriptorsTyped'
    BY <1>2, <1>19 DEF Restart, Tick, vars
<1> QED
    BY <1>3, <1>4, <1>5, <1>6, <1>7, <1>8, <1>9, <1>10, <1>11, <1>12, <1>13, <1>14, <1>15, <1>16,
       <1>17, <1>18, <1>19 DEF Next, InHandleReq, RequestMiss, RequestFound

-----------------------------------------------------------------------------
\* What FdsAreAccountedFor and OneAtATime say of one thread.
Owns(t) ==
    /\ <<"client", t>> \in open <=> pc[t] # "gone"
    /\ <<"temp", t>> \in open => pc[t] = "lookup" /\ <<"shell", t>> \notin open
    /\ <<"shell", t>> \in open => pc[t] = "lookup"
    /\ <<"pipe", t>> \in open => pc[t] = "lookup" /\ <<"shell", t>> \in open
    /\ <<"server", t>> \in open => pc[t] \in {"connect", "receive"} /\ server_fd[t] = <<"server", t>>
    /\ <<"file", t>> \in open =>
          pc[t] \in {"receive", "store", "add", "send"} /\ file[t] = <<"file", t>>

LEMMA OwnersAccount == Accounted <=> lost <= failed /\ \A t \in Threads : Owns(t)
BY DEF Accounted, FdsAreAccountedFor, OneAtATime, Owns

LEMMA KindsDiffer ==
    ASSUME NEW t, NEW u
    PROVE  /\ \A j, k : j # k => <<j, t>> # <<k, u>>
           /\ t # u => \A j, k : <<j, t>> # <<k, u>>
OBVIOUS

\* Steps of others leave a thread what it has, and a number that is in use is
\* not given out again.
LEMMA OwnsKept ==
    ASSUME NEW u \in Threads, Owns(u), pc'[u] = pc[u],
           \A k \in Kinds : <<k, u>> \in open' <=> <<k, u>> \in open,
           server_fd[u] = <<"server", u>> => server_fd'[u] = server_fd[u],
           file[u] = <<"file", u>> => file'[u] = file[u]
    PROVE  Owns(u)'
<1>1. /\ <<"client", u>> \in open' <=> <<"client", u>> \in open
      /\ <<"temp", u>> \in open' <=> <<"temp", u>> \in open
      /\ <<"shell", u>> \in open' <=> <<"shell", u>> \in open
      /\ <<"pipe", u>> \in open' <=> <<"pipe", u>> \in open
      /\ <<"server", u>> \in open' <=> <<"server", u>> \in open
      /\ <<"file", u>> \in open' <=> <<"file", u>> \in open
    BY DEF Kinds
<1> QED
    BY <1>1 DEF Owns

\* A name that follows another use, or a closed number, is not one's own.
LEMMA Followed ==
    ASSUME NEW u \in Threads, NEW old, NEW new, old # <<"server", u>>, old # <<"file", u>>
    PROVE  /\ server_fd[u] = <<"server", u>> => Follow(server_fd, old, new)[u] = server_fd[u]
           /\ file[u] = <<"file", u>> => Follow(file, old, new)[u] = file[u]
BY DEF Follow

LEMMA OthersOpen ==
    ASSUME NEW t \in Threads, NEW k \in Kinds, Opens(<<k, t>>),
           NEW u \in Threads \ {t}, Owns(u), pc'[u] = pc[u]
    PROVE  Owns(u)'
<1>1. \A j \in Kinds : <<j, u>> \in open' <=> <<j, u>> \in open
    BY KindsDiffer DEF Opens
<1>2. Closed # <<"server", u>> /\ Closed # <<"file", u>>
    BY KindsDiffer DEF Closed
<1>3. /\ server_fd[u] = <<"server", u>> => server_fd'[u] = server_fd[u]
      /\ file[u] = <<"file", u>> => file'[u] = file[u]
    BY <1>2, Followed DEF Opens
<1> QED
    BY <1>1, <1>3, OwnsKept

LEMMA OthersPipe ==
    ASSUME NEW t \in Threads, OpensPipe(t), NEW u \in Threads \ {t}, Owns(u), pc'[u] = pc[u]
    PROVE  Owns(u)'
<1>1. \A j \in Kinds : <<j, u>> \in open' <=> <<j, u>> \in open
    BY KindsDiffer DEF OpensPipe
<1>2. Closed # <<"server", u>> /\ Closed # <<"file", u>>
    BY KindsDiffer DEF Closed
<1>3. /\ server_fd[u] = <<"server", u>> => server_fd'[u] = server_fd[u]
      /\ file[u] = <<"file", u>> => file'[u] = file[u]
    BY <1>2, Followed DEF OpensPipe
<1> QED
    BY <1>1, <1>3, OwnsKept

LEMMA OthersClose ==
    ASSUME NEW t \in Threads, NEW k \in Kinds, Closes(<<k, t>>),
           NEW u \in Threads \ {t}, Owns(u), pc'[u] = pc[u]
    PROVE  Owns(u)'
<1>1. \A j \in Kinds : <<j, u>> \in open' <=> <<j, u>> \in open
    BY KindsDiffer DEF Closes
<1>2. <<k, t>> # <<"server", u>> /\ <<k, t>> # <<"file", u>>
    BY KindsDiffer
<1>3. /\ server_fd[u] = <<"server", u>> => server_fd'[u] = server_fd[u]
      /\ file[u] = <<"file", u>> => file'[u] = file[u]
    BY <1>2, Followed DEF Closes
<1> QED
    BY <1>1, <1>3, OwnsKept

LEMMA OthersOpenFile ==
    ASSUME NEW t \in Threads, OpenFile(t), NEW u \in Threads \ {t}, Owns(u), pc'[u] = pc[u],
           file \in [Threads -> FileNames]
    PROVE  Owns(u)'
<1>1. \A j \in Kinds : <<j, u>> \in open' <=> <<j, u>> \in open
    BY KindsDiffer DEF OpenFile
<1>2. Closed # <<"server", u>> /\ Closed # <<"file", u>>
    BY KindsDiffer DEF Closed
<1>3. /\ server_fd[u] = <<"server", u>> => server_fd'[u] = server_fd[u]
      /\ file'[u] = file[u]
    BY <1>2, Followed DEF OpenFile
<1> QED
    BY <1>1, <1>3, OwnsKept

\* What is opened is owned, and it is closed before its owner goes on.
LEMMA AccountedStep == Typed /\ [Next]_vars => Accounted'
<1> SUFFICES ASSUME Typed, [Next]_vars PROVE Accounted'
    OBVIOUS
<1> USE ProxyAssumption
<1>1. /\ open \in SUBSET Uses /\ lost \in Nat /\ failed \in Nat /\ lost <= failed
      /\ server_fd \in [Threads -> Names] /\ file \in [Threads -> FileNames]
      /\ pc \in PcType
    BY OwnersAccount DEF Typed, TypeOK, PcType, Places, Names, FileNames
<1>o. \A t \in Threads : Owns(t)
    BY OwnersAccount DEF Typed
<1>a. ASSUME lost' <= failed', NEW t \in Threads, Owns(t)', \A u \in Threads \ {t} : Owns(u)'
      PROVE  Accounted'
    BY <1>a DEF Accounted, FdsAreAccountedFor, OneAtATime, Owns
\* A step that opens and closes nothing.
<1>b. ASSUME NEW t \in Threads, NEW w \in Places, Go(t, w), UNCHANGED <<descriptors, failed>>, Owns(t)'
      PROVE  Accounted'
    <2>1. \A u \in Threads \ {t} : pc'[u] = pc[u]
        BY <1>1, <1>b, GoFacts
    <2>2. \A u \in Threads \ {t} : Owns(u)'
        BY <1>o, <1>b, <2>1 DEF descriptors, Owns
    <2> QED BY <1>1, <1>a, <1>b, <2>2 DEF descriptors
<1>c. ASSUME UNCHANGED <<pc, descriptors, failed>> PROVE Accounted'
    BY <1>1, <1>o, <1>c DEF descriptors, Accounted, FdsAreAccountedFor, OneAtATime, Owns
<1>2. ASSUME NEW t \in Threads, Accept(t) PROVE Accounted'
    <2>1. /\ pc[t] = "gone" /\ pc'[t] = "idle" /\ Opens(<<"client", t>>) /\ failed' = failed
          /\ \A u \in Threads \ {t} : pc'[u] = pc[u]
        BY <1>1, <1>2, GoFacts DEF Accept, Places
    <2>2. Owns(t)'
        BY <1>o, <2>1 DEF Owns, Opens
    <2>3. \A u \in Threads \ {t} : Owns(u)'
        BY <1>o, <2>1, OthersOpen DEF Kinds
    <2> QED BY <1>1, <1>a, <2>1, <2>2, <2>3 DEF Opens
<1>3. ASSUME NEW t \in Threads, CleanExit(t) PROVE Accounted'
    <2>1. /\ pc[t] = "idle" /\ pc'[t] = "gone" /\ Closes(<<"client", t>>) /\ failed' = failed
          /\ \A u \in Threads \ {t} : pc'[u] = pc[u]
        BY <1>1, <1>3, GoFacts DEF CleanExit, Places
    <2>2. Owns(t)'
        BY <1>o, <2>1 DEF Owns, Closes
    <2>3. \A u \in Threads \ {t} : Owns(u)'
        BY <1>o, <2>1, OthersClose DEF Kinds
    <2> QED BY <1>1, <1>a, <2>1, <2>2, <2>3 DEF Closes
<1>4. ASSUME NEW t \in Threads, Borrow(t) PROVE Accounted'
    <2>1. /\ pc[t] = "lookup" /\ pc' = pc /\ failed' = failed
          /\ <<"temp", t>> \notin open /\ <<"shell", t>> \notin open
          /\ Opens(<<"temp", t>>) \/ OpensPipe(t)
        BY <1>4 DEF Borrow, threads
    <2>2. CASE Opens(<<"temp", t>>)
        <3>1. Owns(t)'
            BY <1>o, <2>1, <2>2 DEF Owns, Opens
        <3>2. \A u \in Threads \ {t} : Owns(u)'
            BY <1>o, <2>1, <2>2, OthersOpen DEF Kinds
        <3> QED BY <1>1, <1>a, <2>1, <2>2, <3>1, <3>2 DEF Opens
    <2>3. CASE OpensPipe(t)
        <3>1. Owns(t)'
            BY <1>o, <2>1, <2>3 DEF Owns, OpensPipe
        <3>2. \A u \in Threads \ {t} : Owns(u)'
            BY <1>o, <2>1, <2>3, OthersPipe
        <3> QED BY <1>1, <1>a, <2>1, <2>3, <3>1, <3>2 DEF OpensPipe
    <2> QED BY <2>1, <2>2, <2>3
<1>5. ASSUME NEW t \in Threads, Release(t) PROVE Accounted'
    <2>1. PICK k \in {"temp", "shell", "pipe"} :
            /\ k = "shell" => <<"pipe", t>> \notin open
            /\ Closes(<<k, t>>)
        BY <1>5 DEF Release
    <2>2. pc[t] = "lookup" /\ pc' = pc /\ failed' = failed
        BY <1>5 DEF Release, threads
    <2>3. Owns(t)'
        BY <1>o, <2>1, <2>2 DEF Owns, Closes
    <2>4. \A u \in Threads \ {t} : Owns(u)'
        BY <1>o, <2>1, <2>2, OthersClose DEF Kinds
    <2> QED BY <1>1, <1>a, <2>1, <2>2, <2>3, <2>4 DEF Closes
<1>6. ASSUME NEW t \in Threads, RequestMiss(t) \/ RequestFound(t) PROVE Accounted'
    <2>1. /\ pc[t] = "lookup" /\ <<"shell", t>> \in open /\ <<"pipe", t>> \notin open
          /\ Closes(<<"shell", t>>) /\ failed' = failed
          /\ Go(t, "download") \/ Go(t, "check")
        BY <1>6 DEF RequestMiss, RequestFound, CheckNode
    <2>2. /\ pc'[t] \in {"download", "check"}
          /\ \A u \in Threads \ {t} : pc'[u] = pc[u]
        BY <1>1, <2>1, GoFacts DEF Places
    <2>3. Owns(t)'
        BY <1>o, <2>1, <2>2 DEF Owns, Closes
    <2>4. \A u \in Threads \ {t} : Owns(u)'
        BY <1>o, <2>1, <2>2, OthersClose DEF Kinds
    <2> QED BY <1>1, <1>a, <2>1, <2>3, <2>4 DEF Closes
<1>7. ASSUME NEW t \in Threads, OpenCached(t) \/ OpenNew(t) PROVE Accounted'
    <2>1. /\ OpenFile(t) /\ failed' = failed
          /\ \/ pc[t] = "cached" /\ Go(t, "send")
             \/ pc[t] \in {"connect", "unconnected"} /\ Go(t, "receive")
        BY <1>7 DEF OpenCached, OpenNew
    <2>2. /\ \/ pc[t] = "cached" /\ pc'[t] = "send"
             \/ pc[t] \in {"connect", "unconnected"} /\ pc'[t] = "receive"
          /\ \A u \in Threads \ {t} : pc'[u] = pc[u]
        BY <1>1, <2>1, GoFacts DEF Places
    <2>3. server_fd[t] = <<"server", t>> => server_fd'[t] = server_fd[t]
        BY <2>1, Followed, KindsDiffer DEF OpenFile, Closed
    <2>4. file'[t] = <<"file", t>> /\ open' = open \cup {<<"file", t>>}
        BY <1>1, <2>1 DEF OpenFile
    <2>5. Owns(t)'
        BY <1>o, <2>2, <2>3, <2>4, KindsDiffer DEF Owns
    <2>6. \A u \in Threads \ {t} : Owns(u)'
        BY <1>1, <1>o, <2>1, <2>2, OthersOpenFile
    <2> QED BY <1>1, <1>a, <2>1, <2>5, <2>6 DEF OpenFile
<1>8. ASSUME NEW t \in Threads, Connect(t) PROVE Accounted'
    <2>1. /\ pc[t] = "download" /\ pc'[t] = "connect" /\ UNCHANGED <<lost, failed, file>>
          /\ open' = open \cup {<<"server", t>>} /\ server_fd'[t] = <<"server", t>>
          /\ \A u \in Threads \ {t} : pc'[u] = pc[u] /\ server_fd'[u] = server_fd[u]
        BY <1>1, <1>8, GoFacts DEF Connect, Places
    <2>2. Owns(t)'
        BY <1>o, <2>1, KindsDiffer DEF Owns
    <2>3. ASSUME NEW u \in Threads \ {t} PROVE Owns(u)'
        <3>1. \A j \in Kinds : <<j, u>> \in open' <=> <<j, u>> \in open
            BY <2>1, KindsDiffer
        <3> QED BY <1>o, <2>1, <3>1, OwnsKept
    <2> QED BY <1>1, <1>a, <2>1, <2>2, <2>3
<1>9. ASSUME NEW t \in Threads, ConnectFails(t) PROVE Accounted'
    <2>1. /\ pc[t] = "connect" /\ pc'[t] = "unconnected" /\ Closes(<<"server", t>>) /\ failed' = failed
          /\ \A u \in Threads \ {t} : pc'[u] = pc[u]
        BY <1>1, <1>9, GoFacts DEF ConnectFails, Places
    <2>2. Owns(t)'
        BY <1>o, <2>1, KindsDiffer DEF Owns, Closes
    <2>3. \A u \in Threads \ {t} : Owns(u)'
        BY <1>o, <2>1, OthersClose DEF Kinds
    <2> QED BY <1>1, <1>a, <2>1, <2>2, <2>3 DEF Closes
<1>10. ASSUME NEW t \in Threads, NoSocket(t) PROVE Accounted'
    <2>1. /\ pc[t] = "download" /\ pc'[t] = "unconnected" /\ UNCHANGED <<open, lost, failed, file>>
          /\ \A u \in Threads \ {t} : pc'[u] = pc[u] /\ server_fd'[u] = server_fd[u]
        BY <1>1, <1>10, GoFacts DEF NoSocket, Places
    <2>2. Owns(t)'
        BY <1>o, <2>1 DEF Owns
    <2>3. \A u \in Threads \ {t} : Owns(u)'
        BY <1>o, <2>1 DEF Owns
    <2> QED BY <1>1, <1>a, <2>1, <2>2, <2>3
<1>11. ASSUME NEW t \in Threads, Crash(t) PROVE Accounted'
    BY <1>11 DEF Crash, Accounted, FdsAreAccountedFor, OneAtATime
<1>12. ASSUME NEW t \in Threads, Receive(t) PROVE Accounted'
    <2>1. CASE UNCHANGED <<pc, open, server_fd>>
        BY <1>12, <2>1, <1>c DEF Receive, descriptors
    <2>2. CASE /\ open' = open \ {<<"server", t>>}
               /\ server_fd' = [server_fd EXCEPT ![t] = None]
               /\ Go(t, "store")
        <3>1. /\ pc[t] = "receive" /\ pc'[t] = "store" /\ UNCHANGED <<lost, failed, file>>
              /\ \A u \in Threads \ {t} : pc'[u] = pc[u] /\ server_fd'[u] = server_fd[u]
            BY <1>1, <1>12, <2>2, GoFacts DEF Receive, Places
        <3>2. Owns(t)'
            BY <1>o, <2>2, <3>1, KindsDiffer DEF Owns
        <3>3. ASSUME NEW u \in Threads \ {t} PROVE Owns(u)'
            <4>1. \A j \in Kinds : <<j, u>> \in open' <=> <<j, u>> \in open
                BY <2>2, KindsDiffer
            <4> QED BY <1>o, <3>1, <4>1, OwnsKept
        <3> QED BY <1>1, <1>a, <3>1, <3>2, <3>3
    <2> QED BY <1>12, <2>1, <2>2 DEF Receive
<1>13. ASSUME NEW t \in Threads, ReceiveFails(t), ~Strays(t) PROVE Accounted'
    <2>1. /\ pc[t] = "receive" /\ pc'[t] = "store" /\ UNCHANGED <<lost, failed>>
          /\ open' = open \ {server_fd[t]}
          /\ file'[t] = IF file[t] = server_fd[t] THEN Closed ELSE file[t]
          /\ \A u \in Threads \ {t} : pc'[u] = pc[u] /\ server_fd'[u] = server_fd[u] /\ file'[u] = file[u]
        BY <1>1, <1>13, GoFacts DEF ReceiveFails, Places
    <2>2. server_fd[t] \in {None, Closed, <<"server", t>>, <<"file", t>>}
        BY <1>13, <2>1 DEF Strays, Foreign
    <2>3. \A k \in Kinds : <<k, t>> \in Uses
        BY DEF Uses
    <2>4. \A k \in Kinds : k \notin {"server", "file"} => (<<k, t>> \in open' <=> <<k, t>> \in open)
        BY <2>1, <2>2, <2>3, KindsDiffer DEF Closed
    <2>5. <<"server", t>> \notin open'
        BY <1>o, <2>1 DEF Owns
    <2>6. <<"file", t>> \in open' => file'[t] = <<"file", t>>
        BY <1>o, <2>1 DEF Owns
    <2>7. /\ <<"client", t>> \in open' <=> <<"client", t>> \in open
          /\ <<"temp", t>> \in open' <=> <<"temp", t>> \in open
          /\ <<"shell", t>> \in open' <=> <<"shell", t>> \in open
          /\ <<"pipe", t>> \in open' <=> <<"pipe", t>> \in open
        BY <2>4 DEF Kinds
    <2>8. Owns(t)'
        BY <1>o, <2>1, <2>5, <2>6, <2>7 DEF Owns
    <2>9. ASSUME NEW u \in Threads \ {t} PROVE Owns(u)'
        <3>1. \A j \in Kinds : <<j, u>> \in Uses
            BY DEF Uses
        <3>2. \A j \in Kinds : <<j, u>> # server_fd[t]
            BY <2>2, <3>1, KindsDiffer DEF Closed
        <3>3. \A j \in Kinds : <<j, u>> \in open' <=> <<j, u>> \in open
            BY <2>1, <3>2
        <3> QED BY <1>o, <2>1, <3>3, OwnsKept
    <2> QED BY <1>1, <1>a, <2>1, <2>8, <2>9
<1>14. ASSUME NEW t \in Threads, SendFails(t) PROVE Accounted'
    <2>1. /\ pc[t] = "send" /\ pc'[t] = "gone" /\ UNCHANGED server_fd /\ failed' = failed + 1
          /\ open' = open \ {<<"client", t>>, <<"file", t>>}
          /\ lost' \in {lost, lost + 1}
          /\ \A u \in Threads \ {t} : pc'[u] = pc[u] /\ file'[u] = file[u]
        BY <1>1, <1>14, GoFacts DEF SendFails, Abandon, Places
    <2>2. Owns(t)'
        BY <1>o, <2>1, KindsDiffer DEF Owns
    <2>3. ASSUME NEW u \in Threads \ {t} PROVE Owns(u)'
        <3>1. \A j \in Kinds : <<j, u>> \in open' <=> <<j, u>> \in open
            BY <2>1, KindsDiffer
        <3> QED BY <1>o, <2>1, <3>1, OwnsKept
    <2> QED BY <1>1, <1>a, <2>1, <2>2, <2>3
<1>15. ASSUME NEW t \in Threads, ClientLeaves(t) \/ Finish(t) PROVE Accounted'
    <2>1. /\ pc[t] = "send" /\ pc'[t] = "idle" /\ UNCHANGED <<server_fd, lost, failed>>
          /\ open' = open \ {<<"file", t>>}
          /\ \A u \in Threads \ {t} : pc'[u] = pc[u] /\ file'[u] = file[u]
        BY <1>1, <1>15, GoFacts DEF ClientLeaves, Finish, CloseFile, Places
    <2>2. Owns(t)'
        BY <1>o, <2>1, KindsDiffer DEF Owns
    <2>3. ASSUME NEW u \in Threads \ {t} PROVE Owns(u)'
        <3>1. \A j \in Kinds : <<j, u>> \in open' <=> <<j, u>> \in open
            BY <2>1, KindsDiffer
        <3> QED BY <1>o, <2>1, <3>1, OwnsKept
    <2> QED BY <1>1, <1>a, <2>1, <2>2, <2>3
<1>16. ASSUME NEW t \in Threads, NEW p \in Pages, ReadRequest(t, p) PROVE Accounted'
    <2>1. /\ pc[t] = "idle" /\ pc'[t] = "lookup" /\ Go(t, "lookup") /\ UNCHANGED <<descriptors, failed>>
        BY <1>1, <1>16, GoFacts DEF ReadRequest, Places
    <2>2. Owns(t)' BY <1>o, <2>1 DEF Owns, descriptors
    <2> QED BY <1>b, <2>1, <2>2 DEF Places
<1>17. ASSUME NEW t \in Threads, Refuse(t) \/ GetMd5Fails(t) PROVE Accounted'
    <2>1. /\ pc[t] = "lookup" /\ UNCHANGED <<descriptors, failed>>
          /\ <<"temp", t>> \notin open /\ <<"shell", t>> \notin open
          /\ Go(t, "idle") \/ Go(t, "unnamed")
        BY <1>17 DEF Refuse, GetMd5Fails
    <2>2. pc'[t] \in {"idle", "unnamed"}
        BY <1>1, <2>1, GoFacts DEF Places
    <2>3. Owns(t)' BY <1>o, <2>1, <2>2 DEF Owns, descriptors
    <2> QED BY <1>b, <2>1, <2>3 DEF Places
<1>18. ASSUME NEW t \in Threads, CheckTimeout(t) \/ DeleteNode(t) PROVE Accounted'
    <2>1. /\ pc[t] \in {"check", "expired"} /\ UNCHANGED <<descriptors, failed>>
          /\ Go(t, "expired") \/ Go(t, "cached") \/ Go(t, "download")
        BY <1>18 DEF CheckTimeout, DeleteNode
    <2>2. pc'[t] \in {"expired", "cached", "download"}
        BY <1>1, <2>1, GoFacts DEF Places
    <2>3. Owns(t)' BY <1>o, <2>1, <2>2 DEF Owns, descriptors
    <2> QED BY <1>b, <2>1, <2>3 DEF Places
<1>19. ASSUME NEW t \in Threads, CreateNode(t) \/ AddNode(t) PROVE Accounted'
    <2>1. /\ pc[t] \in {"store", "add"} /\ UNCHANGED <<descriptors, failed>>
          /\ Go(t, "add") \/ Go(t, "send")
        BY <1>19 DEF CreateNode, AddNode
    <2>2. pc'[t] \in {"add", "send"}
        BY <1>1, <2>1, GoFacts DEF Places
    <2>3. Owns(t)' BY <1>o, <2>1, <2>2 DEF Owns, descriptors
    <2> QED BY <1>b, <2>1, <2>3 DEF Places
<1>20. ASSUME NEW t \in Threads, SendPart(t) \/ GoAstray(t) PROVE Accounted'
    BY <1>c, <1>20 DEF SendPart, GoAstray, threads
<1>21. ASSUME Restart \/ Tick \/ UNCHANGED vars PROVE Accounted'
    BY <1>c, <1>21 DEF Restart, Tick, vars, threads
<1> QED
    BY <1>2, <1>3, <1>4, <1>5, <1>6, <1>7, <1>8, <1>9, <1>10, <1>11, <1>12, <1>13, <1>14, <1>15, <1>16,
       <1>17, <1>18, <1>19, <1>20, <1>21 DEF Next, InHandleReq

-----------------------------------------------------------------------------
\* cache_lock is taken when it is free and given back by its holder.
LEMMA ExclusiveStep == Typed /\ [Next]_vars => Exclusive'
<1> SUFFICES ASSUME Typed, [Next]_vars PROVE Exclusive'
    OBVIOUS
<1> USE ProxyAssumption
<1>1. pc \in PcType /\ Exclusive /\ cacheLock \in Threads \cup {None}
    BY DEF Typed, TypeOK, PcType, Places
<1>a. ASSUME NEW t \in Threads, NEW w \in Places, Go(t, w), UNCHANGED cacheLock,
             pc[t] \in Locked <=> w \in Locked
      PROVE  Exclusive'
    BY <1>1, <1>a, GoFacts DEF Exclusive
<1>b. ASSUME NEW t \in Threads, NEW w \in Places, Go(t, w), LockCache(t), w \in Locked
      PROVE  Exclusive'
    BY <1>1, <1>b, GoFacts DEF Exclusive, LockCache
<1>c. ASSUME NEW t \in Threads, NEW w \in Places, Go(t, w), cacheLock' = None,
             pc[t] \in Locked, w \notin Locked
      PROVE  Exclusive'
    BY <1>1, <1>c, GoFacts DEF Exclusive
<1>2. ASSUME NEW t \in Threads, Accept(t) PROVE Exclusive'
    BY <1>2, <1>a DEF Accept, Locked, Places
<1>3. ASSUME NEW t \in Threads, CleanExit(t) PROVE Exclusive'
    BY <1>3, <1>a DEF CleanExit, Locked, Places
<1>4. ASSUME NEW t \in Threads, Refuse(t) \/ GetMd5Fails(t) PROVE Exclusive'
    BY <1>4, <1>a DEF Refuse, GetMd5Fails, Locked, Places
<1>5. ASSUME NEW t \in Threads, NEW p \in Pages, ReadRequest(t, p) PROVE Exclusive'
    BY <1>5, <1>a DEF ReadRequest, Locked, Places
<1>6. ASSUME NEW t \in Threads, RequestMiss(t) \/ RequestFound(t) PROVE Exclusive'
    BY <1>6, <1>a DEF RequestMiss, RequestFound, CheckNode, Locked, Places
<1>7. ASSUME NEW t \in Threads, CheckTimeout(t) PROVE Exclusive'
    BY <1>7, <1>a DEF CheckTimeout, Locked, Places
<1>8. ASSUME NEW t \in Threads, DeleteNode(t) PROVE Exclusive'
    BY <1>8, <1>a DEF DeleteNode, Locked, Places
<1>9. ASSUME NEW t \in Threads, OpenCached(t) PROVE Exclusive'
    BY <1>9, <1>b DEF OpenCached, Locked, Places
<1>10. ASSUME NEW t \in Threads, OpenNew(t) \/ ConnectFails(t) PROVE Exclusive'
    BY <1>10, <1>a DEF OpenNew, ConnectFails, Locked, Places
<1>11. ASSUME NEW t \in Threads, Crash(t) PROVE Exclusive'
    BY <1>11 DEF Crash, Exclusive, Locked
<1>12. ASSUME NEW t \in Threads, Receive(t) PROVE Exclusive'
    <2>1. CASE UNCHANGED <<pc, cacheLock>>
        BY <1>1, <2>1 DEF Exclusive
    <2>2. CASE Go(t, "store") /\ UNCHANGED cacheLock
        BY <1>12, <2>2, <1>a DEF Receive, Locked, Places
    <2> QED
        BY <1>12, <2>1, <2>2 DEF Receive
<1>13. ASSUME NEW t \in Threads, ReceiveFails(t) PROVE Exclusive'
    BY <1>13, <1>a DEF ReceiveFails, Locked, Places
<1>14. ASSUME NEW t \in Threads, CreateNode(t) PROVE Exclusive'
    BY <1>14, <1>a DEF CreateNode, Locked, Places
<1>15. ASSUME NEW t \in Threads, AddNode(t) PROVE Exclusive'
    BY <1>15, <1>a DEF AddNode, Locked, Places
<1>16. ASSUME NEW t \in Threads, SendFails(t) PROVE Exclusive'
    BY <1>16, <1>c DEF SendFails, Abandon, Locked, Places
<1>17. ASSUME NEW t \in Threads, ClientLeaves(t) PROVE Exclusive'
    BY <1>17, <1>c DEF ClientLeaves, CloseFile, Locked, Places
<1>18. ASSUME NEW t \in Threads, Finish(t) PROVE Exclusive'
    BY <1>18, <1>c DEF Finish, CloseFile, Locked, Places
<1>19. ASSUME NEW t \in Threads, Connect(t) \/ NoSocket(t) PROVE Exclusive'
    BY <1>19, <1>b DEF Connect, NoSocket, Locked, Places
<1>20. ASSUME UNCHANGED <<pc, cacheLock>> PROVE Exclusive'
    BY <1>1, <1>20 DEF Exclusive
<1> QED
    BY <1>2, <1>3, <1>4, <1>5, <1>6, <1>7, <1>8, <1>9, <1>10, <1>11, <1>12, <1>13, <1>14, <1>15,
       <1>16, <1>17, <1>18, <1>19, <1>20
       DEF Next, InHandleReq, Borrow, Release, GoAstray, SendPart, Restart, Tick, threads, vars

\* Only the thread that holds the lock changes a file, and a thread that goes
\* on receiving has parts to come.
LEMMA TypeStep == Typed /\ [Next]_vars => Typed'
<1> SUFFICES ASSUME Typed, [Next]_vars PROVE Typed'
    OBVIOUS
<1> USE ProxyAssumption
<1>1. /\ clock \in Nat /\ alive \in BOOLEAN /\ requests \in Nat /\ list \in Seq(Addresses)
      /\ heap \in [Addresses -> Nodes] /\ disk \in [Pages -> Files]
      /\ cacheLock \in Threads \cup {None}
      /\ pc \in PcType /\ req \in [Threads -> Request]
      /\ stored \in [Pages -> Nat] /\ failed \in Nat /\ astray \in BOOLEAN
    BY DEF Typed, TypeOK, PcType, Places, Request, Nodes, Files
<1>2. /\ HasItsPage /\ PartsMissing /\ Exclusive
      /\ Exclusive' /\ DescriptorsTyped' /\ Accounted'
    BY ExclusiveStep, DescriptorsStep, AccountedStep DEF Typed
<1> DEFINE Shared ==
            /\ clock' \in Nat /\ alive' \in BOOLEAN /\ requests' \in Nat /\ list' \in Seq(Addresses)
            /\ heap' \in [Addresses -> Nodes] /\ disk' \in [Pages -> Files]
            /\ cacheLock' \in Threads \cup {None}
            /\ stored' \in [Pages -> Nat] /\ failed' \in Nat /\ astray' \in BOOLEAN
           Local == pc' \in PcType /\ req' \in [Threads -> Request] /\ HasItsPage' /\ PartsMissing'
<1>a. ASSUME Shared, Local PROVE Typed'
    BY <1>2, <1>a DEF Typed, TypeOK, PcType, Places, Request, Nodes, Files, DescriptorsTyped, Names,
                      FileNames
\* Most steps move one thread and change at most its own locals.
<1>b. ASSUME NEW t \in Threads, NEW w \in Places, Go(t, w), UNCHANGED disk,
             req' \in [Threads -> Request], \A u \in Threads \ {t} : req'[u] = req[u],
             w \in Busy => req'[t].page \in Pages,
             w \in {"check", "expired", "add"} => req'[t].node \in Addresses,
             w # "receive"
      PROVE  Local
    <2>1. /\ pc' \in PcType /\ pc'[t] = w
          /\ \A u \in Threads \ {t} : pc'[u] = pc[u]
        BY <1>1, <1>b, GoFacts
    <2>2. HasItsPage' BY <1>2, <1>b, <2>1 DEF HasItsPage, Page
    <2>3. PartsMissing' BY <1>2, <1>b, <2>1 DEF PartsMissing, Page
    <2> QED BY <1>b, <2>1, <2>2, <2>3
<1>3. ASSUME NEW t \in Threads, Accept(t) PROVE Typed'
    <2>1. Shared BY <1>1, <1>3 DEF Accept
    <2>2. Local BY <1>1, <1>3, <1>b DEF Accept, Places, Busy
    <2> QED BY <1>a, <2>1, <2>2
<1>4. ASSUME NEW t \in Threads, CleanExit(t) PROVE Typed'
    <2>1. Shared BY <1>1, <1>4 DEF CleanExit
    <2>2. Local BY <1>1, <1>4, <1>b, NewRequestTyped DEF CleanExit, Places, Busy
    <2> QED BY <1>a, <2>1, <2>2
<1>5. ASSUME NEW t \in Threads, Refuse(t) \/ GetMd5Fails(t) PROVE Typed'
    <2>1. Shared BY <1>1, <1>5 DEF Refuse, GetMd5Fails
    <2>2. CASE Refuse(t)
        <3>1. Local BY <1>1, <2>2, <1>b, NewRequestTyped DEF Refuse, Places, Busy
        <3> QED BY <1>a, <2>1, <3>1
    <2>3. CASE GetMd5Fails(t)
        <3>1. Local BY <1>1, <1>2, <2>3, <1>b DEF GetMd5Fails, Places, Busy, HasItsPage, Page
        <3> QED BY <1>a, <2>1, <3>1
    <2> QED BY <1>5, <2>2, <2>3
<1>6. ASSUME NEW t \in Threads, NEW p \in Pages, ReadRequest(t, p) PROVE Typed'
    <2>1. Shared BY <1>1, <1>6 DEF ReadRequest
    <2>2. Local BY <1>1, <1>6, <1>b, NewRequestTyped DEF ReadRequest, Places, Busy
    <2> QED BY <1>a, <2>1, <2>2
<1>7. ASSUME NEW t \in Threads, RequestMiss(t) \/ RequestFound(t) PROVE Typed'
    <2>1. Shared BY <1>1, <1>7 DEF RequestMiss, RequestFound, CheckNode
    <2>2. Page(t) \in Pages
        BY <1>2, <1>7 DEF HasItsPage, RequestMiss, RequestFound, CheckNode, Busy
    <2>3. CASE RequestMiss(t)
        <3>1. Local BY <1>1, <2>2, <2>3, <1>b DEF RequestMiss, CheckNode, Places, Busy, Page
        <3> QED BY <1>a, <2>1, <3>1
    <2>4. CASE RequestFound(t)
        <3>1. PICK a \in Addresses : req' = [req EXCEPT ![t].node = a]
            <4>1. PICK i \in DOMAIN list : req' = [req EXCEPT ![t].node = list[i]]
                BY <2>4 DEF RequestFound
            <4>2. list[i] \in Addresses
                BY <1>1
            <4> QED BY <4>1, <4>2
        <3>2. Local
            BY <1>1, <2>2, <2>4, <3>1, SetNode, <1>b DEF RequestFound, CheckNode, Places, Busy, Page
        <3> QED BY <1>a, <2>1, <3>2
    <2> QED BY <1>7, <2>3, <2>4
<1>8. ASSUME NEW t \in Threads, CheckTimeout(t) PROVE Typed'
    <2>1. Shared BY <1>1, <1>8 DEF CheckTimeout
    <2>2. Page(t) \in Pages /\ req[t].node \in Addresses
        BY <1>2, <1>8 DEF HasItsPage, CheckTimeout, Busy
    <2>3. CASE Go(t, "expired") /\ UNCHANGED req
        BY <1>1, <1>8, <2>2, <2>3, <1>b, <1>a, <2>1 DEF CheckTimeout, Places, Busy, Page
    <2>4. CASE /\ Go(t, "cached")
               /\ req' = [req EXCEPT ![t].checked = IF PointsToItsNode(t) THEN clock ELSE Unchecked]
        <3>1. PICK c \in Nat \cup {Unchecked} : req' = [req EXCEPT ![t].checked = c]
            BY <1>1, <2>4
        <3>2. Local
            BY <1>1, <1>8, <2>2, <2>4, <3>1, SetChecked, <1>b DEF CheckTimeout, Places, Busy, Page
        <3> QED BY <1>a, <2>1, <3>2
    <2> QED BY <1>8, <2>3, <2>4 DEF CheckTimeout
<1>9. ASSUME NEW t \in Threads, DeleteNode(t) PROVE Typed'
    <2>1. list' \in Seq(Addresses)
        BY <1>1, <1>9, Unlinked DEF DeleteNode
    <2>2. heap' \in [Addresses -> Nodes]
        BY <1>1, <1>9 DEF DeleteNode, Nodes
    <2>3. Shared BY <1>1, <1>9, <2>1, <2>2 DEF DeleteNode
    <2>4. Local BY <1>1, <1>2, <1>9, <1>b DEF DeleteNode, Places, Busy, HasItsPage, Page
    <2> QED BY <1>a, <2>3, <2>4
<1>10. ASSUME NEW t \in Threads, OpenCached(t) PROVE Typed'
    <2>1. Page(t) \in Pages
        BY <1>2, <1>10 DEF HasItsPage, OpenCached, Busy
    <2>2. PICK n \in 0 .. Length : req' = [req EXCEPT ![t].size = n]
        BY <1>1, <1>10, <2>1 DEF OpenCached, Files
    <2>3. Shared BY <1>1, <1>10 DEF OpenCached, LockCache
    <2>4. Local BY <1>1, <1>10, <2>1, <2>2, SetSize, <1>b DEF OpenCached, Places, Busy, Page
    <2> QED BY <1>a, <2>3, <2>4
<1>11. ASSUME NEW t \in Threads, OpenNew(t) PROVE Typed'
    <2>1. Page(t) \in Pages
        BY <1>2, <1>11 DEF HasItsPage, OpenNew, Busy
    <2>2. /\ disk' \in [Pages -> Files] /\ disk'[Page(t)].parts = 0
          /\ \A p \in Pages \ {Page(t)} : disk'[p] = disk[p]
        BY <1>1, <1>11, <2>1 DEF OpenNew, Files
    <2>3. Shared BY <1>1, <1>11, <2>2 DEF OpenNew
    <2>4. /\ pc' \in PcType /\ pc'[t] = "receive" /\ \A u \in Threads \ {t} : pc'[u] = pc[u]
          /\ UNCHANGED req
        BY <1>1, <1>11, GoFacts DEF OpenNew, Places
    <2>5. \A u \in Threads : pc[u] # "receive"
        BY <1>2, <1>11 DEF OpenNew, Exclusive, Locked
    <2>6. Local
        <3>1. HasItsPage' BY <1>2, <2>1, <2>4 DEF HasItsPage, Page, Busy
        <3>2. PartsMissing' BY <2>2, <2>4, <2>5 DEF PartsMissing, Page
        <3> QED BY <1>1, <2>4, <3>1, <3>2
    <2> QED BY <1>a, <2>3, <2>6
<1>12. ASSUME NEW t \in Threads, Crash(t) PROVE Typed'
    <2>1. heap' \in [Addresses -> Nodes] BY <1>12 DEF Crash, Nodes
    <2>2. list' \in Seq(Addresses) BY <1>12 DEF Crash
    <2>3. Shared BY <1>1, <1>12, <2>1, <2>2 DEF Crash
    <2>4. Local BY <1>1, <1>12, NewRequestTyped DEF Crash, PcType, Places, HasItsPage, PartsMissing, Busy
    <2> QED BY <1>a, <2>3, <2>4
<1>13. ASSUME NEW t \in Threads, Receive(t) PROVE Typed'
    <2> DEFINE n == disk[Page(t)].parts + 1
    <2>1. Page(t) \in Pages /\ n \in 0 .. Length
        BY <1>1, <1>2, <1>13 DEF Receive, HasItsPage, PartsMissing, Busy, Files
    <2>2. /\ disk' \in [Pages -> Files] /\ disk'[Page(t)].parts = n
          /\ \A p \in Pages \ {Page(t)} : disk'[p] = disk[p]
        BY <1>1, <1>13, <2>1, SetParts DEF Receive
    <2>3. Shared BY <1>1, <1>13, <2>2 DEF Receive
    <2>4. \A u \in Threads \ {t} : pc[u] # "receive"
        BY <1>2, <1>13 DEF Receive, Exclusive, Locked
    <2>a. Length \in 0 .. Length /\ 0 \in 0 .. Length
        OBVIOUS
    <2>5. PICK k \in 0 .. Length : req' = [req EXCEPT ![t].size = Length, ![t].pos = k]
        BY <1>13, <2>1, <2>a DEF Receive
    <2>6. /\ req' \in [Threads -> Request] /\ req'[t].page = Page(t)
          /\ \A u \in Threads \ {t} : req'[u] = req[u]
        BY <1>1, <2>5, <2>a, SetSizePos DEF Page
    <2>7. /\ pc' \in PcType /\ \A u \in Threads \ {t} : pc'[u] = pc[u]
          /\ pc'[t] = "store" \/ (pc'[t] = "receive" /\ n < Length)
        BY <1>1, <1>13, GoFacts DEF Receive, Places
    <2>8. Local
        <3>1. HasItsPage' BY <1>2, <2>1, <2>6, <2>7 DEF HasItsPage, Page, Busy
        <3>2. PartsMissing' BY <2>2, <2>4, <2>6, <2>7 DEF PartsMissing, Page
        <3> QED BY <2>6, <2>7, <3>1, <3>2
    <2> QED BY <1>a, <2>3, <2>8
<1>14. ASSUME NEW t \in Threads, ReceiveFails(t) PROVE Typed'
    <2>1. Page(t) \in Pages
        BY <1>2, <1>14 DEF HasItsPage, ReceiveFails, Busy
    <2>2. PICK n \in 0 .. Length : req' = [req EXCEPT ![t].size = n]
        <3>1. PICK garbage \in {0, Length} :
                req' = [req EXCEPT ![t].size = IF req[t].pos = 0 THEN garbage ELSE req[t].size]
            BY <1>14 DEF ReceiveFails
        <3>2. req[t].size \in 0 .. Length
            BY <1>1 DEF Request
        <3>3. (IF req[t].pos = 0 THEN garbage ELSE req[t].size) \in 0 .. Length
            BY <3>2
        <3> QED BY <3>1, <3>3
    <2>3. Shared BY <1>1, <1>14 DEF ReceiveFails
    <2>4. Local BY <1>1, <1>14, <2>1, <2>2, SetSize, <1>b DEF ReceiveFails, Places, Busy, Page
    <2> QED BY <1>a, <2>3, <2>4
<1>15. ASSUME NEW t \in Threads, CreateNode(t) PROVE Typed'
    <2>1. PICK a \in Addresses : /\ heap' = [heap EXCEPT ![a] = Node(Page(t), clock)]
                                 /\ req' = [req EXCEPT ![t].node = a]
        BY <1>15 DEF CreateNode
    <2>2. Page(t) \in Pages
        BY <1>2, <1>15 DEF HasItsPage, CreateNode, Busy
    <2>3. heap' \in [Addresses -> Nodes] BY <1>1, <2>1, <2>2 DEF Node, Nodes
    <2>4. Shared BY <1>1, <1>15, <2>3 DEF CreateNode
    <2>5. Local BY <1>1, <1>15, <2>1, <2>2, SetNode, <1>b, ZenonT(60) DEF CreateNode, Places, Busy, Page
    <2> QED BY <1>a, <2>4, <2>5
<1>16. ASSUME NEW t \in Threads, AddNode(t) PROVE Typed'
    <2>1. req[t].node \in Addresses /\ Page(t) \in Pages
        BY <1>2, <1>16 DEF HasItsPage, AddNode, Busy
    <2>2. list' \in Seq(Addresses) BY <1>1, <1>16, <2>1 DEF AddNode
    <2>3. Shared BY <1>1, <1>16, <2>2 DEF AddNode
    <2>4. Local BY <1>1, <1>16, <2>1, <1>b DEF AddNode, Places, Busy, Page
    <2> QED BY <1>a, <2>3, <2>4
<1>17. ASSUME NEW t \in Threads, SendPart(t) PROVE Typed'
    <2>1. Page(t) \in Pages
        BY <1>2, <1>17 DEF HasItsPage, SendPart, Busy
    <2>2. req[t].pos \in 0 .. Length /\ req[t].sent \in Seq(Nat)
        BY <1>1 DEF Request
    <2>3. PICK k \in 0 .. Length, s \in Seq(Nat) : req' = [req EXCEPT ![t].pos = k, ![t].sent = s]
        <3>1. /\ req[t].pos + 1 \in 0 .. Length
              /\ Append(req[t].sent, disk[Page(t)].version) \in Seq(Nat)
            BY <1>1, <1>17, <2>1, <2>2, SMTT(30) DEF SendPart, Files
        <3>2. req' = [req EXCEPT ![t].pos = req[t].pos + 1,
                                 ![t].sent = Append(req[t].sent, disk[Page(t)].version)]
            BY <1>17 DEF SendPart
        <3> QED BY <3>1, <3>2
    <2>4. Shared BY <1>1, <1>17 DEF SendPart
    <2>5. /\ req' \in [Threads -> Request]
          /\ \A u \in Threads : req'[u].page = req[u].page /\ req'[u].node = req[u].node
        BY <1>1, <2>3, SetPosSent
    <2>6. Local BY <1>1, <1>2, <1>17, <2>5 DEF SendPart, HasItsPage, PartsMissing, Page
    <2> QED BY <1>a, <2>4, <2>6
<1>18. ASSUME NEW t \in Threads, SendFails(t) PROVE Typed'
    <2>1. Shared BY <1>1, <1>18 DEF SendFails, Abandon
    <2>2. Local BY <1>1, <1>18, <1>b, NewRequestTyped DEF SendFails, Abandon, Places, Busy
    <2> QED BY <1>a, <2>1, <2>2
<1>19. ASSUME NEW t \in Threads, ClientLeaves(t) PROVE Typed'
    <2>1. Shared BY <1>1, <1>19 DEF ClientLeaves, CloseFile
    <2>2. Local BY <1>1, <1>19, <1>b, NewRequestTyped DEF ClientLeaves, Places, Busy
    <2> QED BY <1>a, <2>1, <2>2
<1>20. ASSUME NEW t \in Threads, Finish(t) PROVE Typed'
    <2>1. Shared BY <1>1, <1>20 DEF Finish, CloseFile
    <2>2. Local BY <1>1, <1>20, <1>b, NewRequestTyped DEF Finish, Places, Busy
    <2> QED BY <1>a, <2>1, <2>2
<1>21. ASSUME NEW t \in Threads, Connect(t) \/ NoSocket(t) \/ ConnectFails(t) PROVE Typed'
    <2>1. Shared BY <1>1, <1>21 DEF Connect, NoSocket, ConnectFails, LockCache
    <2>2. Page(t) \in Pages
        BY <1>2, <1>21 DEF HasItsPage, Connect, NoSocket, ConnectFails, Busy
    <2>3. Local
        <3>1. \/ Go(t, "connect") /\ UNCHANGED <<disk, req>>
              \/ Go(t, "unconnected") /\ UNCHANGED <<disk, req>>
            BY <1>21 DEF Connect, NoSocket, ConnectFails
        <3> QED BY <1>1, <2>2, <3>1, <1>b DEF Places, Busy, Page
    <2> QED BY <1>a, <2>1, <2>3
<1>22. ASSUME NEW t \in Threads, Borrow(t) \/ Release(t) \/ GoAstray(t) PROVE Typed'
    <2>1. Shared BY <1>1, <1>22 DEF Borrow, Release, GoAstray
    <2>2. Local
        BY <1>1, <1>2, <1>22 DEF Borrow, Release, GoAstray, threads, HasItsPage, PartsMissing, Page
    <2> QED BY <1>a, <2>1, <2>2
<1>23. ASSUME Restart \/ Tick PROVE Typed'
    <2>1. Shared
        <3>1. CASE Restart BY <1>1, <3>1 DEF Restart
        <3>2. CASE Tick BY <1>1, <3>2 DEF Tick
        <3> QED BY <1>23, <3>1, <3>2
    <2>2. Local BY <1>1, <1>2, <1>23 DEF Restart, Tick, threads, HasItsPage, PartsMissing, Page
    <2> QED BY <1>a, <2>1, <2>2
<1>24. ASSUME UNCHANGED vars PROVE Typed'
    <2>1. Shared BY <1>1, <1>24 DEF vars
    <2>2. Local BY <1>1, <1>2, <1>24 DEF vars, threads, HasItsPage, PartsMissing, Page
    <2> QED BY <1>a, <2>1, <2>2
<1> QED
    BY <1>3, <1>4, <1>5, <1>6, <1>7, <1>8, <1>9, <1>10, <1>11, <1>12, <1>13, <1>14, <1>15, <1>16,
       <1>17, <1>18, <1>19, <1>20, <1>21, <1>22, <1>23, <1>24 DEF Next, InHandleReq

-----------------------------------------------------------------------------
\* Where thread t is in its file: it received what the file has; then it will
\* send all of it from the start, or it stands at the end of a file that was
\* cut short and has nothing to send.
Work(t) ==
    /\ pc[t] \in {"lookup", "check", "expired", "cached", "download", "connect", "unconnected"} =>
         req[t].sent = <<>> /\ req[t].pos = 0
    /\ pc[t] = "receive" =>
         /\ req[t].sent = <<>>
         /\ req[t].pos = disk[Page(t)].parts
         /\ req[t].pos > 0 => req[t].size = Length
    /\ pc[t] \in {"store", "add"} => req[t].sent = <<>>
    /\ pc[t] \in {"store", "add", "send"} =>
         \/ /\ req[t].size = disk[Page(t)].parts
            /\ req[t].pos = Len(req[t].sent)
         \/ /\ req[t].pos = disk[Page(t)].parts
            /\ req[t].size = Length
            /\ disk[Page(t)].parts < Length
            /\ req[t].sent = <<>>
    /\ pc[t] = "send" =>
         \A i \in DOMAIN req[t].sent : req[t].sent[i] = disk[Page(t)].version

Contents == \A t \in Threads : Work(t)

LEMMA ContentsInit == Init => Contents
BY DEF Init, Contents, Work

\* A thread at work on a file is the only one, so its file stays as it left it.
LEMMA ContentsStep == Typed /\ Contents /\ [Next]_vars => Contents'
<1> SUFFICES ASSUME Typed, Contents, [Next]_vars PROVE Contents'
    OBVIOUS
<1> USE ProxyAssumption
<1>1. /\ disk \in [Pages -> Files] /\ pc \in PcType /\ req \in [Threads -> Request]
      /\ HasItsPage /\ PartsMissing
      /\ \A t \in Threads : pc[t] \in Locked => cacheLock = t
      /\ clock \in Nat
    BY DEF Typed, TypeOK, PcType, Places, Request, Files, Exclusive
<1> DEFINE Others(t) == \A u \in Threads \ {t} : pc'[u] = pc[u] /\ req'[u] = req[u]
<1>a. ASSUME NEW t \in Threads, Others(t), UNCHANGED disk, Work(t)' PROVE Contents'
    BY <1>a DEF Contents, Work, Page
<1>b. ASSUME NEW t \in Threads, Others(t), \A u \in Threads \ {t} : pc[u] \notin Locked, Work(t)'
      PROVE  Contents'
    BY <1>b DEF Contents, Work, Locked
<1>c. ASSUME NEW t \in Threads, NEW w \in {"gone", "idle"}, Go(t, w),
             \A u \in Threads \ {t} : req'[u] = req[u], UNCHANGED disk
      PROVE  Contents'
    BY <1>1, <1>c, <1>a, GoFacts DEF Work, Places
<1>2. ASSUME NEW t \in Threads, Accept(t) PROVE Contents'
    BY <1>2, <1>c DEF Accept
<1>3. ASSUME NEW t \in Threads, CleanExit(t) PROVE Contents'
    BY <1>1, <1>3, <1>c DEF CleanExit
<1>4. ASSUME NEW t \in Threads, Refuse(t) PROVE Contents'
    BY <1>1, <1>4, <1>c DEF Refuse
<1>5. ASSUME NEW t \in Threads, NEW p \in Pages, ReadRequest(t, p) PROVE Contents'
    <2>1. /\ pc'[t] = "lookup" /\ Others(t) /\ UNCHANGED disk
          /\ req'[t].sent = <<>> /\ req'[t].pos = 0
        BY <1>1, <1>5, GoFacts DEF ReadRequest, NewRequest, Places
    <2> QED BY <2>1, <1>a DEF Work
<1>6. ASSUME NEW t \in Threads, RequestMiss(t) \/ RequestFound(t) PROVE Contents'
    <2>1. /\ pc[t] = "lookup" /\ pc'[t] \in {"check", "download"} /\ UNCHANGED disk
          /\ \A u \in Threads \ {t} : pc'[u] = pc[u]
        BY <1>1, <1>6, GoFacts DEF RequestMiss, RequestFound, CheckNode, Places
    <2>2. /\ \A u \in Threads \ {t} : req'[u] = req[u]
          /\ req'[t].sent = req[t].sent /\ req'[t].pos = req[t].pos
        BY <1>1, <1>6 DEF RequestMiss, RequestFound, Request
    <2> QED BY <2>1, <2>2, <1>a DEF Work, Contents
<1>7. ASSUME NEW t \in Threads, CheckTimeout(t) PROVE Contents'
    <2>1. /\ Others(t) /\ UNCHANGED disk /\ pc'[t] \in {"expired", "cached"}
          /\ req'[t].sent = req[t].sent /\ req'[t].pos = req[t].pos
        <3>1. CASE Go(t, "expired") /\ UNCHANGED req
            BY <1>1, <1>7, <3>1, GoFacts DEF CheckTimeout, Places
        <3>2. CASE /\ Go(t, "cached")
                   /\ req' = [req EXCEPT ![t].checked = IF PointsToItsNode(t) THEN clock ELSE Unchecked]
            <4>1. PICK c \in Nat \cup {Unchecked} : req' = [req EXCEPT ![t].checked = c]
                BY <1>1, <3>2
            <4> QED BY <1>1, <1>7, <3>2, <4>1, SetChecked, GoFacts DEF CheckTimeout, Places
        <3> QED BY <1>7, <3>1, <3>2 DEF CheckTimeout
    <2> QED BY <1>7, <2>1, <1>a DEF Work, Contents, CheckTimeout
<1>8. ASSUME NEW t \in Threads, DeleteNode(t) PROVE Contents'
    <2>1. Others(t) /\ UNCHANGED <<disk, req>> /\ pc'[t] = "download"
        BY <1>1, <1>8, GoFacts DEF DeleteNode, Places
    <2> QED BY <1>8, <2>1, <1>a DEF Work, Contents, DeleteNode
<1>9. ASSUME NEW t \in Threads, OpenCached(t) PROVE Contents'
    <2> DEFINE n == disk[Page(t)].parts
    <2>1. Page(t) \in Pages /\ n \in 0 .. Length
        BY <1>1, <1>9 DEF OpenCached, HasItsPage, Busy, Files
    <2>2. /\ Others(t) /\ UNCHANGED disk /\ pc'[t] = "send" /\ req'[t].size = n
          /\ req'[t].page = Page(t)
          /\ req'[t].sent = req[t].sent /\ req'[t].pos = req[t].pos
        BY <1>1, <1>9, <2>1, SetSize, GoFacts DEF OpenCached, Places, Page
    <2>3. req[t].sent = <<>> /\ req[t].pos = 0
        BY <1>9 DEF Contents, Work, OpenCached
    <2> QED BY <2>1, <2>2, <2>3, <1>a DEF Work, Page
<1>10. ASSUME NEW t \in Threads, OpenNew(t) PROVE Contents'
    <2>1. Page(t) \in Pages
        BY <1>1, <1>10 DEF OpenNew, HasItsPage, Busy
    <2>2. /\ Others(t) /\ UNCHANGED req /\ pc'[t] = "receive" /\ disk'[Page(t)].parts = 0
          /\ \A u \in Threads \ {t} : pc[u] \notin Locked
        BY <1>1, <1>10, <2>1, GoFacts DEF OpenNew, Locked, Places, Files
    <2>3. req[t].sent = <<>> /\ req[t].pos = 0
        BY <1>10 DEF Contents, Work, OpenNew
    <2> QED BY <2>2, <2>3, <1>b DEF Work, Page
<1>11. ASSUME NEW t \in Threads, Crash(t) PROVE Contents'
    BY <1>11 DEF Crash, Contents, Work
<1>12. ASSUME NEW t \in Threads, Receive(t) PROVE Contents'
    <2> DEFINE n == disk[Page(t)].parts + 1
    <2>1. Page(t) \in Pages /\ n \in 0 .. Length /\ 0 \in 0 .. Length /\ Length \in 0 .. Length
        BY <1>1, <1>12 DEF Receive, HasItsPage, PartsMissing, Busy, Files
    <2>2. disk'[Page(t)].parts = n
        BY <1>1, <1>12, <2>1, SetParts DEF Receive
    <2>3. \A u \in Threads \ {t} : pc[u] \notin Locked
        BY <1>1, <1>12 DEF Receive, Locked
    <2>4. req[t].sent = <<>>
        BY <1>12 DEF Contents, Work, Receive
    <2>n. \/ n < Length /\ req' = [req EXCEPT ![t].size = Length, ![t].pos = n] /\ UNCHANGED pc
          \/ n >= Length /\ req' = [req EXCEPT ![t].size = Length, ![t].pos = 0] /\ Go(t, "store")
        BY <1>12 DEF Receive
    <2> HIDE DEF n
    <2>5. CASE n < Length /\ req' = [req EXCEPT ![t].size = Length, ![t].pos = n] /\ UNCHANGED pc
        <3>1. /\ Others(t) /\ pc'[t] = "receive" /\ req'[t].page = Page(t)
              /\ req'[t].sent = <<>> /\ req'[t].pos = n /\ req'[t].size = Length
            BY <1>1, <1>12, <2>1, <2>4, <2>5 DEF Receive, Page, Request
        <3> QED BY <2>2, <2>3, <3>1, <1>b DEF Work, Page
    <2>6. CASE n >= Length /\ req' = [req EXCEPT ![t].size = Length, ![t].pos = 0] /\ Go(t, "store")
        <3>1. /\ Others(t) /\ pc'[t] = "store" /\ req'[t].page = Page(t)
              /\ req'[t].sent = <<>> /\ req'[t].pos = 0 /\ req'[t].size = Length
            BY <1>1, <2>1, <2>4, <2>6, GoFacts DEF Page, Places, Request
        <3>2. n = Length
            BY <2>1, <2>6
        <3> QED BY <2>2, <2>3, <3>1, <3>2, <1>b DEF Work, Page
    <2> QED BY <2>n, <2>5, <2>6
<1>13. ASSUME NEW t \in Threads, ReceiveFails(t) PROVE Contents'
    <2>1. Page(t) \in Pages /\ disk[Page(t)].parts \in Nat /\ disk[Page(t)].parts < Length
        BY <1>1, <1>13 DEF ReceiveFails, HasItsPage, PartsMissing, Busy, Files
    <2>2. req[t].sent = <<>> /\ req[t].pos = disk[Page(t)].parts
        BY <1>13 DEF Contents, Work, ReceiveFails
    <2>3. PICK n \in {0, Length} : req' = [req EXCEPT ![t].size = n] /\ (n = 0 => req[t].pos = 0)
        <3>1. PICK garbage \in {0, Length} :
                req' = [req EXCEPT ![t].size = IF req[t].pos = 0 THEN garbage ELSE req[t].size]
            BY <1>13 DEF ReceiveFails
        <3>2. CASE req[t].pos = 0
            BY <3>1, <3>2
        <3>3. CASE req[t].pos # 0
            <4>1. req[t].size = Length
                BY <1>13, <2>1, <2>2, <3>3 DEF Contents, Work, ReceiveFails
            <4> QED BY <3>1, <3>3, <4>1
        <3> QED BY <3>2, <3>3
    <2>4. /\ Others(t) /\ UNCHANGED disk /\ pc'[t] = "store" /\ req'[t].page = Page(t)
          /\ req'[t].sent = <<>> /\ req'[t].pos = disk[Page(t)].parts /\ req'[t].size = n
        <3>1. n \in 0 .. Length
            BY <2>3
        <3> QED BY <1>1, <1>13, <2>2, <2>3, <3>1, SetSize, GoFacts DEF ReceiveFails, Places, Page
    <2>5. n = 0 => disk[Page(t)].parts = 0
        BY <2>2, <2>3
    <2> QED BY <2>1, <2>3, <2>4, <2>5, <1>a DEF Work, Page
<1>14. ASSUME NEW t \in Threads, CreateNode(t) PROVE Contents'
    <2>1. PICK a \in Addresses : req' = [req EXCEPT ![t].node = a]
        BY <1>14 DEF CreateNode
    <2>2. /\ Others(t) /\ UNCHANGED disk /\ pc'[t] = "add" /\ req'[t].page = req[t].page
          /\ req'[t].sent = req[t].sent /\ req'[t].pos = req[t].pos /\ req'[t].size = req[t].size
        BY <1>1, <1>14, <2>1, SetNode, GoFacts DEF CreateNode, Places
    <2>3. pc[t] = "store" /\ Work(t)
        BY <1>14 DEF CreateNode, Contents
    <2> QED BY <2>2, <2>3, <1>a DEF Work, Page
<1>15. ASSUME NEW t \in Threads, AddNode(t) PROVE Contents'
    <2>1. Others(t) /\ UNCHANGED <<disk, req>> /\ pc'[t] = "send"
        BY <1>1, <1>15, GoFacts DEF AddNode, Places
    <2>2. pc[t] = "add" /\ Work(t)
        BY <1>15 DEF AddNode, Contents
    <2> QED BY <2>1, <2>2, <1>a DEF Work, Page
<1>16. ASSUME NEW t \in Threads, SendPart(t) PROVE Contents'
    <2> DEFINE content == disk[Page(t)]
               s == Append(req[t].sent, content.version)
               k == req[t].pos + 1
    <2>1. /\ Page(t) \in Pages /\ content.version \in Nat /\ content.parts \in 0 .. Length
          /\ req[t].pos \in Nat /\ req[t].sent \in Seq(Nat) /\ req[t].size \in 0 .. Length
        BY <1>1, <1>16 DEF SendPart, HasItsPage, Busy, Files, Request
    <2>2. /\ req[t].size = content.parts /\ req[t].pos = Len(req[t].sent)
          /\ \A i \in DOMAIN req[t].sent : req[t].sent[i] = content.version
          /\ k \in 0 .. Length
        <3>1. /\ Work(t) /\ pc[t] = "send"
              /\ Len(req[t].sent) < req[t].size /\ req[t].pos < content.parts
            BY <1>16 DEF Contents, SendPart
        <3>2. req[t].size = content.parts /\ req[t].pos = Len(req[t].sent)
            BY <2>1, <3>1 DEF Work
        <3> QED BY <2>1, <3>1, <3>2 DEF Work
    <2>3. /\ s \in Seq(Nat) /\ Len(s) = k
          /\ \A i \in DOMAIN s : s[i] = content.version
        BY <2>1, <2>2
    <2>4. req' = [req EXCEPT ![t].pos = k, ![t].sent = s]
        BY <1>16 DEF SendPart
    <2> HIDE DEF s, k
    <2>5. /\ Others(t) /\ UNCHANGED disk /\ pc'[t] = "send" /\ req'[t].page = Page(t)
          /\ req'[t].size = req[t].size /\ req'[t].pos = k /\ req'[t].sent = s
        BY <1>1, <1>16, <2>2, <2>3, <2>4 DEF SendPart, Page, Request
    <2> QED BY <2>2, <2>3, <2>5, <1>a, SMTT(30) DEF Work, Page
<1>17. ASSUME NEW t \in Threads, SendFails(t) \/ ClientLeaves(t) \/ Finish(t) PROVE Contents'
    BY <1>1, <1>17, <1>c DEF SendFails, Abandon, ClientLeaves, Finish
<1>18. ASSUME NEW t \in Threads, GetMd5Fails(t) \/ Connect(t) \/ NoSocket(t) \/ ConnectFails(t)
       PROVE  Contents'
    <2>1. /\ pc[t] \in {"lookup", "download", "connect"}
          /\ pc'[t] \in {"unnamed", "connect", "unconnected"}
          /\ Others(t) /\ UNCHANGED <<disk, req>>
        BY <1>1, <1>18, GoFacts DEF GetMd5Fails, Connect, NoSocket, ConnectFails, Places
    <2> QED BY <2>1, <1>a DEF Work, Contents
<1>19. ASSUME UNCHANGED <<pc, req, disk>> PROVE Contents'
    BY <1>19 DEF Contents, Work, Page
<1> QED
    BY <1>2, <1>3, <1>4, <1>5, <1>6, <1>7, <1>8, <1>9, <1>10, <1>11, <1>12, <1>13, <1>14, <1>15, <1>16,
       <1>17, <1>18, <1>19
       DEF Next, InHandleReq, Borrow, Release, GoAstray, Restart, Tick, threads, vars

-----------------------------------------------------------------------------
\* No node is newer than the last download of its page, nor than now.
NodesInTime ==
    /\ \A a \in Addresses : heap[a] # None => heap[a].time <= stored[heap[a].page]
    /\ \A p \in Pages : stored[p] <= clock

\* A node about to be added is in nobody else's hands, and the youngest.
NodeIsNew ==
    \A t \in Threads : pc[t] = "add" =>
        /\ heap[req[t].node] # None
        /\ \A i \in DOMAIN list : /\ list[i] # req[t].node
                                  /\ heap[list[i]].time <= heap[req[t].node].time

ListShape == ListIsSound /\ YoungestFirst /\ NodesInTime /\ NodeIsNew

LEMMA ListInit == Init => ListShape
BY DEF Init, ListShape, ListIsSound, YoungestFirst, NodesInTime, NodeIsNew

\* Unlinking keeps the order of the rest; what is added is the youngest.
LEMMA ListStep == Typed /\ ListShape /\ [Next]_vars => ListShape'
<1> SUFFICES ASSUME Typed, ListShape, [Next]_vars PROVE ListShape'
    OBVIOUS
<1> USE ProxyAssumption
<1>1. /\ clock \in Nat /\ list \in Seq(Addresses) /\ heap \in [Addresses -> Nodes]
      /\ pc \in PcType /\ req \in [Threads -> Request] /\ stored \in [Pages -> Nat]
      /\ HasItsPage
      /\ \A t \in Threads : pc[t] \in Locked => cacheLock = t
    BY DEF Typed, TypeOK, PcType, Places, Request, Nodes, Exclusive
<1>2. ListIsSound /\ YoungestFirst /\ NodesInTime /\ NodeIsNew
    BY DEF ListShape
\* Most steps touch neither the list nor a node.
<1>a. ASSUME UNCHANGED <<list, heap, stored>>, clock <= clock', clock' \in Nat,
             \A u \in Threads : pc'[u] = "add" => pc[u] = "add" /\ req'[u].node = req[u].node
      PROVE  ListShape'
    <2>1. ListIsSound' /\ YoungestFirst'
        BY <1>2, <1>a DEF ListIsSound, YoungestFirst
    <2>2. NodesInTime'
        BY <1>1, <1>2, <1>a DEF NodesInTime
    <2>3. NodeIsNew'
        BY <1>2, <1>a DEF NodeIsNew
    <2> QED BY <2>1, <2>2, <2>3 DEF ListShape
<1>b. ASSUME NEW t \in Threads, NEW w \in Places \ {"add"}, Go(t, w),
             UNCHANGED <<list, heap, stored, clock>>, \A u \in Threads \ {t} : req'[u] = req[u]
      PROVE  ListShape'
    <2>1. \A u \in Threads : pc'[u] = "add" => pc[u] = "add" /\ req'[u].node = req[u].node
        BY <1>1, <1>b, GoFacts
    <2> QED BY <1>1, <1>a, <1>b, <2>1
<1>3. ASSUME NEW t \in Threads, Accept(t) \/ CleanExit(t) \/ Refuse(t) \/ GetMd5Fails(t)
      PROVE  ListShape'
    BY <1>1, <1>3, <1>b DEF Accept, CleanExit, Refuse, GetMd5Fails, Places
<1>4. ASSUME NEW t \in Threads, NEW p \in Pages, ReadRequest(t, p) PROVE ListShape'
    BY <1>1, <1>4, <1>b DEF ReadRequest, Places
<1>5. ASSUME NEW t \in Threads, CheckTimeout(t) PROVE ListShape'
    <2>1. \A u \in Threads \ {t} : req'[u] = req[u]
        BY <1>1, <1>5 DEF CheckTimeout
    <2> QED BY <1>5, <2>1, <1>b DEF CheckTimeout, Places
<1>6. ASSUME NEW t \in Threads, DeleteNode(t) PROVE ListShape'
    <2>1. CASE UNCHANGED <<list, heap>>
        BY <1>6, <2>1, <1>b DEF DeleteNode, Places
    <2>2. ASSUME NEW i \in DOMAIN list, list' = RemoveAt(list, i),
                 heap' = [heap EXCEPT ![list[i]] = None]
          PROVE  ListShape'
        <3>1. /\ list[i] \in Addresses /\ i \in 1 .. Len(list) /\ Len(list) \in Nat
              /\ DOMAIN list = 1 .. Len(list)
            BY <1>1
        <3>2. /\ list' \in Seq(Addresses) /\ Len(list') = Len(list) - 1
              /\ DOMAIN list' = 1 .. Len(list) - 1
              /\ \A j \in 1 .. Len(list) - 1 : list'[j] = IF j < i THEN list[j] ELSE list[j + 1]
            <4>1. /\ RemoveAt(list, i) \in Seq(Addresses)
                  /\ Len(RemoveAt(list, i)) = Len(list) - 1
                  /\ \A j \in DOMAIN RemoveAt(list, i) :
                        RemoveAt(list, i)[j] = IF j < i THEN list[j] ELSE list[j + 1]
                BY <1>1, <2>2, Unlinked
            <4>2. list' \in Seq(Addresses) /\ Len(list') = Len(list) - 1
                BY <2>2, <4>1
            <4>3. DOMAIN list' = 1 .. Len(list) - 1
                BY <4>2
            <4> QED BY <2>2, <4>1, <4>2, <4>3
        <3>3. /\ heap' \in [Addresses -> Nodes] /\ heap'[list[i]] = None
              /\ \A a \in Addresses \ {list[i]} : heap'[a] = heap[a]
            BY <1>1, <2>2, <3>1 DEF Nodes
        <3> DEFINE was(j) == IF j < i THEN j ELSE j + 1
        <3>4. \A j \in DOMAIN list' :
                /\ was(j) \in DOMAIN list /\ was(j) # i /\ list'[j] = list[was(j)]
                /\ list'[j] \in Addresses \ {list[i]} /\ heap'[list'[j]] = heap[list[was(j)]]
            <4> TAKE j \in DOMAIN list'
            <4>1. was(j) \in DOMAIN list /\ was(j) # i /\ list'[j] = list[was(j)]
                BY <3>1, <3>2
            <4>2. list[was(j)] # list[i] /\ list[was(j)] \in Addresses
                BY <1>1, <1>2, <4>1, <3>1 DEF ListIsSound
            <4> QED BY <4>1, <4>2, <3>3
        <3>5. \A j, k \in DOMAIN list' : /\ j < k => was(j) < was(k)
                                         /\ was(j) = was(k) => j = k
            BY <3>1, <3>2
        <3> HIDE DEF was
        <3>6. ListIsSound'
            BY <1>2, <3>4, <3>5 DEF ListIsSound
        <3>7. YoungestFirst'
            BY <1>2, <3>4, <3>5 DEF YoungestFirst
        <3>8. NodesInTime'
            BY <1>1, <1>2, <1>6, <3>3 DEF NodesInTime, DeleteNode
        <3>9. NodeIsNew'
            <4>1. \A u \in Threads : pc'[u] = "add" => pc[u] = "add" /\ req'[u].node = req[u].node
                BY <1>1, <1>6, GoFacts DEF DeleteNode, Places
            <4>2. ASSUME NEW u \in Threads, pc[u] = "add"
                  PROVE  /\ req[u].node \in Addresses \ {list[i]}
                         /\ heap'[req[u].node] = heap[req[u].node]
                BY <1>1, <1>2, <4>2, <3>3 DEF NodeIsNew, HasItsPage
            <4> QED BY <1>2, <4>1, <4>2, <3>4 DEF NodeIsNew
        <3> QED BY <3>6, <3>7, <3>8, <3>9 DEF ListShape
    <2> QED BY <1>6, <2>1, <2>2 DEF DeleteNode
<1>7. ASSUME NEW t \in Threads, OpenCached(t) PROVE ListShape'
    <2>1. \A u \in Threads \ {t} : req'[u] = req[u]
        BY <1>1, <1>7 DEF OpenCached
    <2> QED BY <1>7, <2>1, <1>b DEF OpenCached, Places
<1>8. ASSUME NEW t \in Threads, OpenNew(t) \/ Connect(t) \/ NoSocket(t) \/ ConnectFails(t)
      PROVE  ListShape'
    BY <1>1, <1>8, <1>b DEF OpenNew, Connect, NoSocket, ConnectFails, Places
<1>9. ASSUME NEW t \in Threads, Crash(t) PROVE ListShape'
    BY <1>1, <1>2, <1>9 DEF Crash, ListShape, ListIsSound, YoungestFirst, NodesInTime, NodeIsNew
<1>10. ASSUME NEW t \in Threads, Receive(t) PROVE ListShape'
    <2>1. \A u \in Threads \ {t} : req'[u] = req[u]
        BY <1>1, <1>10 DEF Receive
    <2>2. CASE Go(t, "store")
        BY <1>10, <2>1, <2>2, <1>b DEF Receive, Places
    <2>3. CASE UNCHANGED pc
        BY <1>1, <1>10, <2>1, <2>3, <1>a DEF Receive
    <2> QED BY <1>10, <2>2, <2>3 DEF Receive
<1>11. ASSUME NEW t \in Threads, ReceiveFails(t) PROVE ListShape'
    <2>1. \A u \in Threads \ {t} : req'[u] = req[u]
        BY <1>1, <1>11 DEF ReceiveFails
    <2> QED BY <1>11, <2>1, <1>b DEF ReceiveFails, Places
<1>12. ASSUME NEW t \in Threads, CreateNode(t) PROVE ListShape'
    <2>1. PICK a \in Addresses : /\ heap[a] = None
                                 /\ heap' = [heap EXCEPT ![a] = Node(Page(t), clock)]
                                 /\ req' = [req EXCEPT ![t].node = a]
        BY <1>12 DEF CreateNode
    <2>2. /\ Page(t) \in Pages /\ UNCHANGED <<list, clock>>
          /\ stored' = [stored EXCEPT ![Page(t)] = clock]
        BY <1>1, <1>12 DEF CreateNode, HasItsPage, Busy
    <2>3. /\ heap'[a].page = Page(t) /\ heap'[a].time = clock /\ heap'[a] # None
          /\ \A b \in Addresses \ {a} : heap'[b] = heap[b]
        BY <1>1, <2>1, <2>2 DEF Node
    <2>4. \A i \in DOMAIN list : list[i] \in Addresses \ {a} /\ heap'[list[i]] = heap[list[i]]
        BY <1>1, <1>2, <2>1, <2>3 DEF ListIsSound
    <2>5. \A b \in Addresses : heap[b] # None =>
             /\ heap[b].page \in Pages /\ heap[b].time \in Nat /\ stored[heap[b].page] \in Nat
             /\ heap[b].time <= stored[heap[b].page] /\ stored[heap[b].page] <= clock
        BY <1>1, <1>2 DEF NodesInTime, Nodes
    <2>6. ListIsSound' /\ YoungestFirst'
        BY <1>2, <2>2, <2>4 DEF ListIsSound, YoungestFirst
    <2>7. NodesInTime'
        <3>1. \A p \in Pages : stored'[p] = IF p = Page(t) THEN clock ELSE stored[p]
            BY <1>1, <2>2
        <3>2. \A b \in Addresses \ {a} : heap'[b] # None => heap'[b].time <= stored'[heap'[b].page]
            BY <1>1, <2>3, <2>5, <3>1
        <3>3. heap'[a].time <= stored'[heap'[a].page]
            BY <1>1, <2>2, <2>3, <3>1
        <3> QED BY <1>1, <1>2, <2>2, <3>1, <3>2, <3>3 DEF NodesInTime
    <2>8. NodeIsNew'
        <3>1. req'[t].node = a
            BY <1>1, <2>1, SetNode
        <3>2. \A u \in Threads \ {t} : pc'[u] # "add"
            BY <1>1, <1>12, GoFacts DEF CreateNode, Locked, Places
        <3>3. \A i \in DOMAIN list : heap[list[i]] # None /\ list[i] \in Addresses
            BY <1>1, <1>2 DEF ListIsSound
        <3>4. \A i \in DOMAIN list : heap'[list[i]].time <= clock
            BY <1>1, <2>4, <2>5, <3>3
        <3> QED BY <2>2, <2>3, <2>4, <3>1, <3>2, <3>4 DEF NodeIsNew
    <2> QED BY <2>6, <2>7, <2>8 DEF ListShape
<1>13. ASSUME NEW t \in Threads, AddNode(t) PROVE ListShape'
    <2> DEFINE a == req[t].node
    <2>1. /\ pc[t] = "add" /\ a \in Addresses /\ list' = <<a>> \o list
          /\ UNCHANGED <<heap, stored, clock>>
        BY <1>1, <1>13 DEF AddNode, HasItsPage
    <2>2. /\ heap[a] # None
          /\ \A i \in DOMAIN list : list[i] # a /\ heap[list[i]].time <= heap[a].time
        BY <1>2, <2>1 DEF NodeIsNew
    <2> HIDE DEF a
    <2>3. /\ DOMAIN list = 1 .. Len(list) /\ Len(list) \in Nat
          /\ DOMAIN list' = 1 .. Len(list) + 1 /\ list'[1] = a
          /\ \A i \in 2 .. Len(list) + 1 : list'[i] = list[i - 1] /\ i - 1 \in DOMAIN list
        BY <1>1, <2>1
    <2>4. ListIsSound'
        <3>1. /\ \A i \in DOMAIN list : heap[list[i]] # None
              /\ \A i, j \in DOMAIN list : list[i] = list[j] => i = j
            BY <1>2 DEF ListIsSound
        <3>2. \A i \in DOMAIN list' : heap'[list'[i]] # None
            <4> SUFFICES ASSUME NEW i \in DOMAIN list'
                         PROVE  heap[list'[i]] # None
                BY <2>1
            <4>1. i = 1 \/ i \in 2 .. Len(list) + 1
                BY <2>3
            <4> QED BY <2>2, <2>3, <3>1, <4>1
        <3>3. \A i, j \in DOMAIN list' : list'[i] = list'[j] => i = j
            <4> SUFFICES ASSUME NEW i \in DOMAIN list', NEW j \in DOMAIN list', list'[i] = list'[j]
                         PROVE  i = j
                OBVIOUS
            <4>1. /\ i \in Int /\ j \in Int
                  /\ i = 1 \/ i \in 2 .. Len(list) + 1
                  /\ j = 1 \/ j \in 2 .. Len(list) + 1
                BY <2>3
            <4>2. i = 1 <=> j = 1
                BY <2>2, <2>3, <4>1
            <4>3. i # 1 /\ j # 1 => i - 1 = j - 1
                BY <2>3, <3>1, <4>1
            <4> QED BY <4>1, <4>2, <4>3
        <3> QED BY <3>2, <3>3 DEF ListIsSound
    <2>5. YoungestFirst'
        <3> SUFFICES ASSUME NEW i \in DOMAIN list', NEW j \in DOMAIN list', i < j
                     PROVE  heap[list'[i]].time >= heap[list'[j]].time
            BY <2>1 DEF YoungestFirst
        <3>1. j \in 2 .. Len(list) + 1 /\ (i = 1 \/ i \in 2 .. Len(list) + 1)
            BY <2>3
        <3>2. CASE i = 1
            BY <2>2, <2>3, <3>1, <3>2
        <3>3. CASE i \in 2 .. Len(list) + 1
            <4>1. i - 1 < j - 1
                BY <3>1, <3>3
            <4> QED BY <1>2, <2>3, <3>1, <3>3, <4>1 DEF YoungestFirst
        <3> QED BY <3>1, <3>2, <3>3
    <2>6. NodesInTime'
        BY <1>2, <2>1 DEF NodesInTime
    <2>7. NodeIsNew'
        BY <1>1, <1>13, GoFacts DEF NodeIsNew, AddNode, Locked, Places
    <2> QED BY <2>4, <2>5, <2>6, <2>7 DEF ListShape
<1>14. ASSUME NEW t \in Threads, SendPart(t) PROVE ListShape'
    BY <1>1, <1>14, <1>a DEF SendPart
<1>15. ASSUME NEW t \in Threads, SendFails(t) \/ ClientLeaves(t) \/ Finish(t) PROVE ListShape'
    BY <1>1, <1>15, <1>b DEF SendFails, Abandon, ClientLeaves, Finish, Places
<1>16. ASSUME NEW t \in Threads, RequestMiss(t) \/ RequestFound(t) PROVE ListShape'
    <2>1. /\ Go(t, "download") \/ Go(t, "check")
          /\ UNCHANGED <<list, heap, stored, clock>>
        BY <1>16 DEF RequestMiss, RequestFound, CheckNode
    <2>2. \A u \in Threads \ {t} : req'[u] = req[u]
        BY <1>1, <1>16 DEF RequestMiss, RequestFound
    <2> QED BY <2>1, <2>2, <1>b DEF Places
<1>17. ASSUME NEW t \in Threads, Borrow(t) \/ Release(t) \/ GoAstray(t) PROVE ListShape'
    BY <1>1, <1>17, <1>a DEF Borrow, Release, GoAstray, threads
<1>18. ASSUME Restart \/ Tick \/ UNCHANGED vars PROVE ListShape'
    BY <1>1, <1>18, <1>a DEF Restart, Tick, vars, threads
<1> QED
    BY <1>3, <1>4, <1>5, <1>6, <1>7, <1>8, <1>9, <1>10, <1>11, <1>12, <1>13, <1>14, <1>15, <1>16,
       <1>17, <1>18 DEF Next, InHandleReq

-----------------------------------------------------------------------------
\* A hit was young when it was found, and a download has no age to check.
HitsAreYoung ==
    \A t \in Threads :
        /\ pc[t] \in {"cached", "send"} /\ req[t].checked # Unchecked =>
              req[t].checked \in Nat /\ req[t].checked - stored[Page(t)] < Timeout
        /\ pc[t] \in {"lookup", "check", "expired", "download", "connect", "unconnected", "receive",
                      "store", "add"} =>
              req[t].checked = Unchecked

LEMMA YoungInit == Init => HitsAreYoung
BY DEF Init, HitsAreYoung

\* The node of a hit is no newer than its page's last download, and later
\* downloads only make the page younger.
LEMMA YoungStep == Typed /\ ListShape /\ HitsAreYoung /\ [Next]_vars => HitsAreYoung'
<1> SUFFICES ASSUME Typed, ListShape, HitsAreYoung, [Next]_vars PROVE HitsAreYoung'
    OBVIOUS
<1> USE ProxyAssumption
<1>1. /\ clock \in Nat /\ list \in Seq(Addresses) /\ heap \in [Addresses -> Nodes]
      /\ pc \in PcType /\ req \in [Threads -> Request] /\ stored \in [Pages -> Nat]
      /\ HasItsPage /\ HasItsPage'
      /\ NodesInTime
    BY TypeStep DEF Typed, TypeOK, PcType, Places, Request, Nodes, ListShape
\* Only the locals and the place of one thread count.
<1>a. ASSUME NEW t \in Threads, UNCHANGED stored,
             \A u \in Threads \ {t} : pc'[u] = pc[u] /\ req'[u] = req[u],
             \/ pc'[t] \in {"gone", "idle", "unnamed"}
             \/ pc'[t] = "lookup" /\ req'[t].checked = Unchecked
             \/ /\ pc[t] \in Busy \ {"unnamed"} /\ pc'[t] \in Busy \ {"unnamed"}
                /\ req'[t].checked = req[t].checked /\ req'[t].page = req[t].page
                /\ pc[t] \in {"cached", "send"} <=> pc'[t] \in {"cached", "send"}
             \/ /\ pc'[t] = "send" /\ pc[t] = "add" /\ req'[t] = req[t]
      PROVE  HitsAreYoung'
    BY <1>a DEF HitsAreYoung, Page, Busy
<1>2. ASSUME NEW t \in Threads, Accept(t) \/ CleanExit(t) \/ Refuse(t) \/ GetMd5Fails(t)
      PROVE  HitsAreYoung'
    BY <1>1, <1>2, <1>a, GoFacts DEF Accept, CleanExit, Refuse, GetMd5Fails, Places
<1>3. ASSUME NEW t \in Threads, NEW p \in Pages, ReadRequest(t, p) PROVE HitsAreYoung'
    <2>1. /\ pc'[t] = "lookup" /\ \A u \in Threads \ {t} : pc'[u] = pc[u] /\ req'[u] = req[u]
          /\ req'[t].checked = Unchecked
        BY <1>1, <1>3, GoFacts DEF ReadRequest, NewRequest, Places
    <2> QED BY <1>3, <2>1, <1>a DEF ReadRequest
<1>4. ASSUME NEW t \in Threads, RequestMiss(t) \/ RequestFound(t) PROVE HitsAreYoung'
    <2>1. /\ pc[t] = "lookup" /\ pc'[t] \in {"check", "download"} /\ UNCHANGED stored
          /\ \A u \in Threads \ {t} : pc'[u] = pc[u]
        BY <1>1, <1>4, GoFacts DEF RequestMiss, RequestFound, CheckNode, Places
    <2>2. /\ \A u \in Threads \ {t} : req'[u] = req[u]
          /\ req'[t].checked = req[t].checked /\ req'[t].page = req[t].page
        BY <1>1, <1>4 DEF RequestMiss, RequestFound, Request
    <2> QED BY <2>1, <2>2, <1>a DEF Busy
<1>5. ASSUME NEW t \in Threads, CheckTimeout(t) PROVE HitsAreYoung'
    <2>1. pc[t] = "check" /\ req[t].checked = Unchecked /\ UNCHANGED stored
        BY <1>5 DEF CheckTimeout, HitsAreYoung
    <2>2. CASE Go(t, "expired") /\ UNCHANGED req
        BY <1>1, <2>1, <2>2, <1>a, GoFacts DEF Places, Busy
    <2>3. CASE /\ Listed(req[t].node) => ~Expired(heap[req[t].node])
               /\ Go(t, "cached")
               /\ req' = [req EXCEPT ![t].checked = IF PointsToItsNode(t) THEN clock ELSE Unchecked]
        <3>1. PICK c \in Nat \cup {Unchecked} :
                /\ req' = [req EXCEPT ![t].checked = c]
                /\ c = IF PointsToItsNode(t) THEN clock ELSE Unchecked
            BY <1>1, <2>3
        <3>2. /\ pc'[t] = "cached" /\ \A u \in Threads \ {t} : pc'[u] = pc[u] /\ req'[u] = req[u]
              /\ req'[t].checked = c /\ req'[t].page = Page(t)
            BY <1>1, <2>1, <2>3, <3>1, SetChecked, GoFacts DEF Places, Page
        <3>3. ASSUME PointsToItsNode(t)
              PROVE  clock - stored[Page(t)] < Timeout
            <4> DEFINE n == heap[req[t].node]
            <4>1. req[t].node \in Addresses /\ Page(t) \in Pages
                BY <1>1, <2>1 DEF HasItsPage, Busy
            <4>2. n # None /\ n.page = Page(t) /\ ~Expired(n)
                BY <2>3, <3>3 DEF PointsToItsNode
            <4>3. n.time \in Nat /\ n.time <= stored[Page(t)] /\ stored[Page(t)] \in Nat
                BY <1>1, <4>1, <4>2 DEF NodesInTime, Nodes
            <4>4. clock - n.time < Timeout
                BY <1>1, <4>2, <4>3 DEF Expired
            <4> QED BY <1>1, <4>3, <4>4
        <3>4. c # Unchecked => c \in Nat /\ c - stored[Page(t)] < Timeout
            BY <1>1, <3>1, <3>3
        <3> QED BY <2>1, <3>2, <3>4 DEF HitsAreYoung, Page
    <2> QED BY <1>5, <2>2, <2>3 DEF CheckTimeout
<1>6. ASSUME NEW t \in Threads, DeleteNode(t) \/ Connect(t) \/ NoSocket(t) \/ ConnectFails(t) \/ OpenNew(t)
      PROVE  HitsAreYoung'
    BY <1>1, <1>6, <1>a, GoFacts DEF DeleteNode, Connect, NoSocket, ConnectFails, OpenNew, Places, Busy
<1>7. ASSUME NEW t \in Threads, OpenCached(t) PROVE HitsAreYoung'
    <2>1. /\ req'[t].checked = req[t].checked /\ req'[t].page = req[t].page
          /\ \A u \in Threads \ {t} : req'[u] = req[u]
        BY <1>1, <1>7 DEF OpenCached, Request
    <2> QED BY <1>1, <1>7, <2>1, <1>a, GoFacts DEF OpenCached, Places, Busy
<1>8. ASSUME NEW t \in Threads, Crash(t) PROVE HitsAreYoung'
    BY <1>8 DEF Crash, HitsAreYoung
<1>9. ASSUME NEW t \in Threads, Receive(t) PROVE HitsAreYoung'
    <2>1. /\ pc'[t] \in {"receive", "store"} /\ pc[t] = "receive" /\ UNCHANGED stored
          /\ \A u \in Threads \ {t} : pc'[u] = pc[u]
        BY <1>1, <1>9, GoFacts DEF Receive, Places
    <2>2. /\ req'[t].checked = req[t].checked /\ req'[t].page = req[t].page
          /\ \A u \in Threads \ {t} : req'[u] = req[u]
        BY <1>1, <1>9 DEF Receive, Request
    <2> QED BY <2>1, <2>2, <1>a DEF Busy
<1>10. ASSUME NEW t \in Threads, ReceiveFails(t) PROVE HitsAreYoung'
    <2>1. /\ req'[t].checked = req[t].checked /\ req'[t].page = req[t].page
          /\ \A u \in Threads \ {t} : req'[u] = req[u]
        BY <1>1, <1>10 DEF ReceiveFails, Request
    <2> QED BY <1>1, <1>10, <2>1, <1>a, GoFacts DEF ReceiveFails, Places, Busy
<1>11. ASSUME NEW t \in Threads, CreateNode(t) PROVE HitsAreYoung'
    <2>1. PICK a \in Addresses : req' = [req EXCEPT ![t].node = a]
        BY <1>11 DEF CreateNode
    <2>2. /\ pc'[t] = "add" /\ pc[t] = "store" /\ req'[t].checked = req[t].checked
          /\ \A u \in Threads \ {t} : pc'[u] = pc[u] /\ req'[u] = req[u]
          /\ Page(t) \in Pages /\ stored' = [stored EXCEPT ![Page(t)] = clock]
        BY <1>1, <1>11, <2>1, SetNode, GoFacts DEF CreateNode, Places, HasItsPage, Busy
    <2>3. \A p \in Pages : stored'[p] \in Nat /\ stored[p] \in Nat /\ stored[p] <= stored'[p]
        BY <1>1, <2>2 DEF NodesInTime
    <2>4. ASSUME NEW u \in Threads \ {t}, pc[u] \in {"cached", "send"}, req[u].checked # Unchecked
          PROVE  req[u].checked \in Nat /\ req[u].checked - stored'[Page(u)] < Timeout
        <3>1. Page(u) \in Pages
            BY <1>1, <2>4 DEF HasItsPage, Busy
        <3>2. req[u].checked \in Nat /\ req[u].checked - stored[Page(u)] < Timeout
            BY <2>4 DEF HitsAreYoung
        <3> QED BY <2>3, <3>1, <3>2
    <2> QED BY <2>2, <2>4 DEF HitsAreYoung, Page
<1>12. ASSUME NEW t \in Threads, AddNode(t) PROVE HitsAreYoung'
    BY <1>1, <1>12, <1>a, GoFacts DEF AddNode, Places
<1>13. ASSUME NEW t \in Threads, SendPart(t) PROVE HitsAreYoung'
    BY <1>1, <1>13, <1>a DEF SendPart, Busy, Request
<1>14. ASSUME NEW t \in Threads, SendFails(t) \/ ClientLeaves(t) \/ Finish(t) PROVE HitsAreYoung'
    BY <1>1, <1>14, <1>a, GoFacts DEF SendFails, Abandon, ClientLeaves, Finish, Places
<1>15. ASSUME UNCHANGED <<pc, req, stored>> PROVE HitsAreYoung'
    BY <1>15 DEF HitsAreYoung, Page
<1> QED
    BY <1>2, <1>3, <1>4, <1>5, <1>6, <1>7, <1>8, <1>9, <1>10, <1>11, <1>12, <1>13, <1>14, <1>15
       DEF Next, InHandleReq, Borrow, Release, GoAstray, Restart, Tick, threads, vars

-----------------------------------------------------------------------------
\* A client takes one descriptor, and its thread two more at a time: the server's
\* socket and the cache file, or what it opens to look a name up.
Present == {t \in Threads : pc[t] # "gone"}
Slots == Present \X (1 .. 3)
Second == {"server", "temp", "shell"}
SlotOf == [use \in open |->
              <<use[2], IF use[1] = "client" THEN 1 ELSE IF use[1] \in Second THEN 2 ELSE 3>>]

\* The clients that are there are finitely many, as their sockets are.
LEMMA SlotsCounted ==
    ASSUME Typed
    PROVE  /\ IsFiniteSet(Slots) /\ Cardinality(Slots) = 3 * Cardinality(Present)
           /\ Cardinality(Present) \in Nat
<1>1. IsFiniteSet(open) /\ \A t \in Threads : Owns(t)
    BY OwnersAccount DEF Typed
<1> DEFINE socket == [t \in Present |-> <<"client", t>>]
<1>2. socket \in [Present -> open]
    BY <1>1 DEF Owns, Present
<1>3. \A t, u \in Present : socket[t] = socket[u] => t = u
    OBVIOUS
<1>4. IsFiniteSet(Present)
    BY <1>1, <1>2, <1>3, Fun_IsInj, FS_Injection
<1>5. IsFiniteSet(1 .. 3) /\ Cardinality(1 .. 3) = 3
    <2> DEFINE n == IF 1 > 3 THEN 0 ELSE 3 - 1 + 1
    <2>1. 1 \in Int /\ 3 \in Int /\ n = 3
        OBVIOUS
    <2>2. IsFiniteSet(1 .. 3) /\ Cardinality(1 .. 3) = n
        BY <2>1, FS_Interval, Zenon
    <2> HIDE DEF n
    <2> QED
        BY <2>1, <2>2, Zenon
<1>6. IsFiniteSet(Slots) /\ Cardinality(Slots) = Cardinality(Present) * 3
    BY <1>4, <1>5, FS_Product DEF Slots
<1>7. Cardinality(Present) \in Nat
    BY <1>4, FS_CardinalityType
<1> QED
    BY <1>6, <1>7

\* No two things that are open have the same slot.
LEMMA OneUsePerSlot ==
    ASSUME Typed
    PROVE  /\ SlotOf \in [open -> Slots]
           /\ \A a, b \in open : SlotOf[a] = SlotOf[b] => a = b
<1>1. open \in SUBSET Uses /\ \A t \in Threads : Owns(t)
    BY OwnersAccount DEF Typed, TypeOK
<1>2. ASSUME NEW use \in open
      PROVE  \E k \in Kinds, t \in Present :
               /\ use = <<k, t>>
               /\ SlotOf[use] = <<t, IF k = "client" THEN 1 ELSE IF k \in Second THEN 2 ELSE 3>>
    <2>1. PICK k \in Kinds, t \in Threads : use = <<k, t>>
        BY <1>1 DEF Uses
    <2>2. pc[t] # "gone"
        BY <1>1, <2>1 DEF Owns, Kinds
    <2> QED BY <2>1, <2>2 DEF Present, SlotOf
<1>3. \A use \in open : SlotOf[use] \in Slots
    BY <1>2 DEF Slots
<1>4. SlotOf \in [open -> Slots]
    BY <1>3 DEF SlotOf
<1>5. ASSUME NEW a \in open, NEW b \in open, SlotOf[a] = SlotOf[b]
      PROVE  a = b
    <2>1. PICK j \in Kinds, t \in Present :
            /\ a = <<j, t>>
            /\ SlotOf[a] = <<t, IF j = "client" THEN 1 ELSE IF j \in Second THEN 2 ELSE 3>>
        BY <1>2
    <2>2. PICK k \in Kinds, u \in Present :
            /\ b = <<k, u>>
            /\ SlotOf[b] = <<u, IF k = "client" THEN 1 ELSE IF k \in Second THEN 2 ELSE 3>>
        BY <1>2
    <2>3. t = u /\ (j = "client" <=> k = "client") /\ (j \in Second <=> k \in Second)
        BY <1>5, <2>1, <2>2 DEF Second
    <2>4. Owns(t)
        BY <1>1 DEF Present
    <2>5. <<j, t>> \in open /\ <<k, t>> \in open
        BY <2>1, <2>2, <2>3
    <2>6. j = k
        BY <2>3, <2>4, <2>5 DEF Owns, Kinds, Second
    <2> QED BY <2>1, <2>2, <2>3, <2>6
<1> QED
    BY <1>4, <1>5

\* Every slot that is not in use is a descriptor less.
LEMMA OneSlotLeft ==
    ASSUME Typed, NEW t \in Present, <<"file", t>> \notin open, <<"pipe", t>> \notin open
    PROVE  Cardinality(open) <= 3 * Cardinality(Present) - 1
<1>1. open \in SUBSET Uses
    BY DEF Typed, TypeOK
<1>2. \A use \in open : SlotOf[use] # <<t, 3>>
    BY <1>1 DEF SlotOf, Uses, Kinds, Second
<1>3. SlotOf \in Injection(open, Slots \ {<<t, 3>>})
    BY <1>2, OneUsePerSlot, Fun_IsInj
<1>4. <<t, 3>> \in Slots
    BY DEF Slots
<1>5. /\ IsFiniteSet(Slots \ {<<t, 3>>})
      /\ Cardinality(Slots \ {<<t, 3>>}) = 3 * Cardinality(Present) - 1
    BY <1>4, SlotsCounted, FS_RemoveElement
<1> QED
    BY <1>3, <1>5, FS_Injection

LEMMA TwoSlotsLeft ==
    ASSUME Typed, NEW t \in Present, \A k \in Kinds \ {"client"} : <<k, t>> \notin open
    PROVE  Cardinality(open) <= 3 * Cardinality(Present) - 2
<1> DEFINE left == (Slots \ {<<t, 3>>}) \ {<<t, 2>>}
<1>1. open \in SUBSET Uses
    BY DEF Typed, TypeOK
<1>2. \A use \in open : SlotOf[use] # <<t, 3>> /\ SlotOf[use] # <<t, 2>>
    BY <1>1 DEF SlotOf, Uses, Kinds, Second
<1>3. SlotOf \in Injection(open, left)
    BY <1>2, OneUsePerSlot, Fun_IsInj
<1>4. <<t, 3>> \in Slots /\ <<t, 2>> \in Slots \ {<<t, 3>>}
    BY DEF Slots
<1>5. /\ IsFiniteSet(Slots \ {<<t, 3>>})
      /\ Cardinality(Slots \ {<<t, 3>>}) = 3 * Cardinality(Present) - 1
    BY <1>4, SlotsCounted, FS_RemoveElement
<1>6. IsFiniteSet(left) /\ Cardinality(left) = Cardinality(Slots \ {<<t, 3>>}) - 1
    BY <1>4, <1>5, FS_RemoveElement
<1> QED
    BY <1>3, <1>5, <1>6, SlotsCounted, FS_Injection

\* Only two steps doom the program.
LEMMA DoomedBy ==
    ASSUME Typed, Next, ~Doomed, Doomed'
    PROVE  \E t \in Threads : Crash(t) \/ GetMd5Fails(t)
<1> SUFFICES ASSUME \A t \in Threads : ~Crash(t) /\ ~GetMd5Fails(t)
             PROVE  FALSE
    OBVIOUS
<1>1. pc \in PcType /\ alive /\ \A t \in Threads : pc[t] # "unnamed"
    BY DEF Typed, TypeOK, PcType, Places, Doomed
<1>2. ASSUME UNCHANGED alive, UNCHANGED pc PROVE FALSE
    BY <1>1, <1>2 DEF Doomed
<1>3. ASSUME UNCHANGED alive, NEW t \in Threads, NEW w \in Places \ {"unnamed"}, Go(t, w) PROVE FALSE
    BY <1>1, <1>3, GoFacts DEF Doomed
<1>4. ASSUME NEW t \in Threads, Accept(t) \/ CleanExit(t) \/ Refuse(t) \/ RequestMiss(t) \/ RequestFound(t)
      PROVE  FALSE
    BY <1>3, <1>4 DEF Accept, CleanExit, Refuse, RequestMiss, RequestFound, CheckNode, Places
<1>5. ASSUME NEW t \in Threads, NEW p \in Pages, ReadRequest(t, p) PROVE FALSE
    BY <1>3, <1>5 DEF ReadRequest, Places
<1>6. ASSUME NEW t \in Threads, CheckTimeout(t) \/ DeleteNode(t) \/ OpenCached(t) PROVE FALSE
    BY <1>3, <1>6 DEF CheckTimeout, DeleteNode, OpenCached, Places
<1>7. ASSUME NEW t \in Threads, Connect(t) \/ ConnectFails(t) \/ NoSocket(t) \/ OpenNew(t) PROVE FALSE
    BY <1>3, <1>7 DEF Connect, ConnectFails, NoSocket, OpenNew, Places
<1>8. ASSUME NEW t \in Threads, Receive(t) PROVE FALSE
    BY <1>2, <1>3, <1>8 DEF Receive, Places
<1>9. ASSUME NEW t \in Threads, ReceiveFails(t) \/ CreateNode(t) \/ AddNode(t) PROVE FALSE
    BY <1>3, <1>9 DEF ReceiveFails, CreateNode, AddNode, Places
<1>10. ASSUME NEW t \in Threads, SendFails(t) \/ ClientLeaves(t) \/ Finish(t) PROVE FALSE
    BY <1>3, <1>10 DEF SendFails, Abandon, ClientLeaves, Finish, Places
<1>11. ASSUME NEW t \in Threads, Borrow(t) \/ Release(t) \/ SendPart(t) \/ GoAstray(t) PROVE FALSE
    BY <1>2, <1>11 DEF Borrow, Release, SendPart, GoAstray, threads
<1>12. ASSUME Restart \/ Tick PROVE FALSE
    BY <1>1, <1>2, <1>12 DEF Restart, Tick, threads
<1> QED
    BY <1>4, <1>5, <1>6, <1>7, <1>8, <1>9, <1>10, <1>11, <1>12 DEF Next, InHandleReq

-----------------------------------------------------------------------------
Inv == Typed /\ Contents /\ ListShape /\ HitsAreYoung

LEMMA Invariance == Spec => []Inv
<1>1. Init => Inv
    BY TypeInit, ContentsInit, ListInit, YoungInit DEF Inv
<1>2. Inv /\ [Next]_vars => Inv'
    BY TypeStep, ContentsStep, ListStep, YoungStep DEF Inv
<1> QED
    BY <1>1, <1>2, PTL DEF Spec

\* Every variable keeps its type: the descriptors in use never exceed what
\* the process may have, and no page grows beyond its length.
THEOREM TypeCorrect == Spec => []TypeOK
<1>1. Inv => TypeOK
    BY DEF Inv, Typed
<1> QED
    BY Invariance, <1>1, PTL

\* The list stays sound although pointers into it outlive their nodes: what
\* delete_node does not find it does not touch, and malloc gives out no node
\* that is listed.
THEOREM ListStaysSound == Spec => []ListIsSound
<1>1. Inv => ListIsSound
    BY DEF Inv, ListShape
<1> QED
    BY Invariance, <1>1, PTL

\* The list stays ordered although nodes are made before the lock for adding them
\* is taken: cache_lock is held from create_node to add_node.
THEOREM ListStaysOrdered == Spec => []YoungestFirst
<1>1. Inv => YoungestFirst
    BY DEF Inv, ListShape
<1> QED
    BY Invariance, <1>1, PTL

\* Under cache_lock a file is read as it was written.
THEOREM RepliesAreOneFile == Spec => []SendsOneVersion
<1>1. Inv => SendsOneVersion
    BY DEF Inv, Contents, Work, SendsOneVersion
<1> QED
    BY Invariance, <1>1, PTL

\* A file is sent to its end, short as it may be.
THEOREM RepliesAreWhole == Spec => []SendsAllOfTheFile
<1>1. Inv => SendsAllOfTheFile
    <2> SUFFICES ASSUME Inv, NEW t \in Threads, pc[t] = "send", Len(req[t].sent) = req[t].size
                 PROVE  Len(req[t].sent) = disk[Page(t)].parts
        BY DEF SendsAllOfTheFile
    <2>1. Work(t)
        BY DEF Inv, Contents
    <2> QED
        BY <2>1, ProxyAssumption DEF Work
<1> QED
    BY Invariance, <1>1, PTL

\* A hit whose node was the page's is of a page downloaded less than Timeout
\* before.
THEOREM HitsStayYoung == Spec => []HitIsYoung
<1>1. Inv => HitIsYoung
    BY DEF Inv, HitsAreYoung, HitIsYoung
<1> QED
    BY Invariance, <1>1, PTL

\* A descriptor is lost to a failed request only; every other one that is open has
\* an owner that is going to close it and still knows its number.
THEOREM EveryFdHasAnOwner == Spec => []FdsAreAccountedFor
<1>1. Inv => FdsAreAccountedFor
    BY DEF Inv, Typed, Accounted
<1> QED
    BY Invariance, <1>1, PTL

\* As long as there are no more clients than a third of what the failed requests
\* left of the descriptors, there is one for every fopen and two for every popen.
THEOREM NoCrashWithoutCrowd == Spec => CrashNeedsCrowd
<1>1. ASSUME Inv, Next, ~Doomed, Doomed'
      PROVE  MaxFds < 3 * Cardinality({t \in Threads : pc[t] # "gone"}) + failed
    <2>1. /\ Typed /\ lost \in Nat /\ failed \in Nat /\ lost <= failed
          /\ Cardinality(open) \in Nat /\ MaxFds \in Nat
          /\ \A t \in Threads : Owns(t)
        BY <1>1, OwnersAccount, FS_CardinalityType, ProxyAssumption DEF Inv, Typed, TypeOK
    <2>2. Cardinality(Present) \in Nat
        BY <2>1, SlotsCounted
    <2>3. ASSUME NEW t \in Threads, Crash(t)
          PROVE  MaxFds < 3 * Cardinality(Present) + failed
        <3>1. pc[t] \in {"cached", "connect", "unconnected"} /\ MaxFds - Cardinality(open) - lost < 1
            BY <1>1, <2>3 DEF Crash, Doomed, Free
        <3>2. t \in Present /\ <<"file", t>> \notin open /\ <<"pipe", t>> \notin open
            BY <2>1, <3>1 DEF Owns, Present
        <3>3. Cardinality(open) <= 3 * Cardinality(Present) - 1
            BY <2>1, <3>2, OneSlotLeft
        <3> QED BY <2>1, <2>2, <3>1, <3>3
    <2>4. ASSUME NEW t \in Threads, GetMd5Fails(t)
          PROVE  MaxFds < 3 * Cardinality(Present) + failed
        <3>1. pc[t] = "lookup" /\ MaxFds - Cardinality(open) - lost < 2
            BY <2>4 DEF GetMd5Fails, Free
        <3>2. t \in Present /\ \A k \in Kinds \ {"client"} : <<k, t>> \notin open
            BY <2>1, <2>4, <3>1 DEF Owns, Present, GetMd5Fails, Kinds
        <3>3. Cardinality(open) <= 3 * Cardinality(Present) - 2
            BY <2>1, <3>2, TwoSlotsLeft
        <3> QED BY <2>1, <2>2, <3>1, <3>3
    <2> QED
        BY <1>1, <2>1, <2>3, <2>4, DoomedBy DEF Present
<1>2. Inv /\ [Next]_vars =>
        [~Doomed /\ Doomed' => MaxFds < 3 * Cardinality({t \in Threads : pc[t] # "gone"}) + failed]_vars
    BY <1>1
<1> QED
    BY Invariance, <1>2, PTL DEF Spec, CrashNeedsCrowd

=============================================================================
