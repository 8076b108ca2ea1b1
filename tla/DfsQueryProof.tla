---------------------------- MODULE DfsQueryProof ----------------------------
(***************************************************************************)
(* What list and get come to: parts are where the placement puts them, and *)
(* a query of a settled version finds it unless two neighbouring servers   *)
(* were down, gets nothing else, and hangs only when a server failed.      *)
(***************************************************************************)
EXTENDS DfsDurabilityProof

-----------------------------------------------------------------------------
(* Sequences.                                                              *)

\* A file that is cut in two and joined is the file.
LEMMA CutAndJoin ==
    ASSUME NEW f \in Seq(Chunks), NEW m \in 0 .. Len(f)
    PROVE  Prefix(f, m) \o SubSeq(f, m + 1, Len(f)) = f
<1> DEFINE a == SubSeq(f, 1, m)
           b == SubSeq(f, m + 1, Len(f))
<1>1. Len(f) \in Nat /\ m \in Nat
  BY LenProperties
<1>2. a \in Seq(Chunks) /\ b \in Seq(Chunks)
  BY <1>1, PrefixType, CutType DEF Prefix
<1>3. /\ Len(a) = m /\ \A i \in 1 .. m : a[i] = f[i]
      /\ Len(b) = Len(f) - m /\ \A i \in 1 .. Len(f) - m : b[i] = f[m + i]
  BY <1>1
<1> HIDE DEF a, b
<1>4. /\ a \o b \in Seq(Chunks) /\ Len(a \o b) = Len(f)
      /\ \A i \in 1 .. Len(f) : (a \o b)[i] = IF i <= m THEN a[i] ELSE b[i - m]
  BY <1>1, <1>2, <1>3, ConcatProperties
<1>5. \A i \in 1 .. Len(f) : (a \o b)[i] = f[i]
  BY <1>1, <1>3, <1>4
<1> QED BY <1>4, <1>5, SeqEqual DEF a, b, Prefix

-----------------------------------------------------------------------------
(* Placement: whatever is on server s as part p came from a version of     *)
(* which s keeps that part.                                                *)

Placed(f, s, p) ==
    f # None => \A i \in 1 .. Len(f) : f[i] # Hole => s \in Homes(Offset[f[i]], p)

PutsPast == \A c \in Clients : pc[c] = "put" => of[c] \in past

ThreadsHome ==
    \A t \in threads : t.of \in past /\ t.srv \in Homes(Offset[t.of], t.part)

FilesHome ==
    \A s \in Servers, p \in Parts :
        disk[s][p] # None => \E v \in past : s \in Homes(Offset[v], p)

ChunksHome ==
    /\ \A s \in Servers, p \in Parts : Placed(disk[s][p], s, p)
    /\ \A c \in Clients : \A s \in Servers, p \in Parts : Placed(tmp[c][s][p], s, p)
    /\ \A c \in Clients : Placed(from[c].file, from[c].srv, from[c].part)

PlaceInv == PutsPast /\ ThreadsHome /\ FilesHome /\ ChunksHome

\* The parts of a file are placed where the file was, and so are two such parts joined.
LEMMA PrefixPlaced ==
    ASSUME NEW f \in Seq(Chunks), NEW m \in 0 .. Len(f), NEW s, NEW p, Placed(f, s, p)
    PROVE  Placed(Prefix(f, m), s, p)
<1>1. Len(f) \in Nat /\ m \in Nat /\ f # None
  BY LenProperties, NoneIsNoFile
<1>2. Len(Prefix(f, m)) = m /\ \A i \in 1 .. m : Prefix(f, m)[i] = f[i]
  BY <1>1 DEF Prefix
<1> QED BY <1>1, <1>2 DEF Placed

LEMMA JoinPlaced ==
    ASSUME NEW f \in Seq(Chunks), NEW g \in Seq(Chunks), NEW m \in 0 .. Len(f), NEW n \in Nat,
           n <= Len(g), NEW s, NEW p, Placed(f, s, p), Placed(g, s, p)
    PROVE  Placed(Prefix(f, m) \o SubSeq(g, m + 1, n), s, p)
<1> DEFINE a == Prefix(f, m)
           b == SubSeq(g, m + 1, n)
<1>1. Len(f) \in Nat /\ Len(g) \in Nat /\ m \in Nat /\ f # None /\ g # None
  BY LenProperties, NoneIsNoFile
<1>2. a \in Seq(Chunks) /\ b \in Seq(Chunks)
  BY <1>1, PrefixType, CutType
<1>3. Len(a) = m /\ \A i \in 1 .. m : a[i] = f[i]
  BY <1>1 DEF Prefix
<1>4. /\ Len(b) = IF m + 1 <= n THEN n - m ELSE 0
      /\ \A i \in 1 .. Len(b) : m + i \in 1 .. Len(g) /\ b[i] = g[m + i]
  BY <1>1
<1> HIDE DEF a, b
<1>5. /\ Len(a \o b) = Len(a) + Len(b)
      /\ \A i \in 1 .. Len(a \o b) : (a \o b)[i] = IF i <= Len(a) THEN a[i] ELSE b[i - Len(a)]
  BY <1>2, ConcatProperties
<1>6. ASSUME NEW i \in 1 .. Len(a \o b)
      PROVE  \/ \E j \in 1 .. Len(f) : (a \o b)[i] = f[j]
             \/ \E j \in 1 .. Len(g) : (a \o b)[i] = g[j]
  <2>1. CASE i <= m
    BY <1>1, <1>3, <1>5, <2>1
  <2>2. CASE i > m
    <3>1. i - m \in 1 .. Len(b)
      BY <1>1, <1>3, <1>4, <1>5, <2>2
    <3>2. i \in Int /\ m + (i - m) = i
      BY <1>1, <1>5, <2>2
    <3>3. i \in 1 .. Len(g) /\ b[i - m] = g[i]
      BY <1>4, <3>1, <3>2
    <3>4. (a \o b)[i] = b[i - m]
      BY <1>1, <1>3, <1>5, <2>2, <3>2
    <3> QED BY <3>3, <3>4
  <2> QED BY <1>1, <2>1, <2>2
<1> QED BY <1>1, <1>6 DEF Placed, a, b

\* A chunk is written to a home of its version, and the gap before it is a hole.
LEMMA WritePlaced ==
    ASSUME NEW f \in Seq(Chunks), NEW i \in Nat \ {0}, NEW v \in Contents, NEW s, NEW p,
           Placed(f, s, p), s \in Homes(Offset[v], p)
    PROVE  Placed(WriteAt(f, i, v), s, p)
<1>1. Len(f) \in Nat /\ f # None
  BY LenProperties, NoneIsNoFile
<1>2. \A j \in 1 .. (IF Len(f) > i THEN Len(f) ELSE i) :
         WriteAt(f, i, v)[j] = IF j = i THEN v ELSE IF j <= Len(f) THEN f[j] ELSE Hole
  BY DEF WriteAt
<1>3. Len(WriteAt(f, i, v)) = IF Len(f) > i THEN Len(f) ELSE i
  BY WriteAtType
<1> QED BY <1>1, <1>2, <1>3 DEF Placed

LEMMA EmptyPlaced == \A s, p : Placed(<<>>, s, p)
<1>1. Len(<<>>) = 0
  BY EmptySeq
<1> QED BY <1>1 DEF Placed

LEMMA NonePlaced == \A s, p : Placed(None, s, p)
BY DEF Placed

LEMMA UploadHome ==
    ASSUME TypeInv, PutsPast, NEW c \in Clients, pc[c] = "put", NEW n
    PROVE  LET t == Upload(c, n) IN t.of \in past /\ t.srv \in Homes(Offset[t.of], t.part)
<1>1. of[c] \in Contents /\ Offset[of[c]] \in Servers /\ k[c] \in PutSteps
  BY DfsAssumption DEF TypeInv, TypeOK, PutKnows, PutSteps
<1>2. ServerAt(Offset[of[c]], k[c]) \in Homes(Offset[of[c]], PartAt(k[c]))
  BY <1>1, SentHome
<1> QED BY <1>2 DEF Upload, PutsPast

LEMMA KeepPlaced ==
    ASSUME TypeInv, ChunksHome, NEW c \in Clients, NEW piece, Keep(c, piece),
           Placed(piece, from[c].srv, from[c].part)
    PROVE  \A d \in Clients : \A s \in Servers, p \in Parts : Placed(tmp'[d][s][p], s, p)
<1>1. /\ tmp \in [Clients -> [Servers -> [Parts -> Files]]]
      /\ tmp' = [tmp EXCEPT ![c][from[c].srv][from[c].part] = piece]
  BY DEF TypeInv, TypeOK, Keep
<1>2. \A d \in Clients : \A s \in Servers, p \in Parts :
        \/ tmp'[d][s][p] = tmp[d][s][p]
        \/ d = c /\ s = from[c].srv /\ p = from[c].part /\ tmp'[d][s][p] = piece
  BY <1>1
<1> QED BY <1>2 DEF ChunksHome

\* Steps that change no file and start no thread.
LEMMA FilesUntouched ==
    ASSUME PlaceInv, disk' = disk, threads' \subseteq threads, past' = past,
           \A c \in Clients : pc'[c] = "put" => pc[c] = "put" /\ of'[c] = of[c],
           \A c \in Clients : \A s \in Servers, p \in Parts : Placed(tmp'[c][s][p], s, p),
           \A c \in Clients : Placed(from'[c].file, from'[c].srv, from'[c].part)
    PROVE  PlaceInv'
BY DEF PlaceInv, PutsPast, ThreadsHome, FilesHome, ChunksHome, Placed

\* Steps of clients that change neither get_tmp nor what is received.
LEMMA NothingMoved ==
    ASSUME PlaceInv, disk' = disk, threads' = threads, past' = past, tmp' = tmp, from' = from,
           \A c \in Clients : pc'[c] = "put" => pc[c] = "put" /\ of'[c] = of[c]
    PROVE  PlaceInv'
BY DEF PlaceInv, PutsPast, ThreadsHome, FilesHome, ChunksHome, Placed

LEMMA PlaceInit == Init => PlaceInv
BY EmptyPlaced, NonePlaced
   DEF Init, PlaceInv, PutsPast, ThreadsHome, FilesHome, ChunksHome, NoTmp, NoPiece

LEMMA ThreadPlaces ==
    ASSUME TypeInv, PlaceInv, NEW t \in threads, ThreadOpen(t) \/ ThreadWrite(t)
    PROVE  PlaceInv'
<1> DEFINE s == t.srv
           p == t.part
<1>1. /\ t \in Threads /\ s \in Servers /\ p \in Parts /\ t.of \in Contents
      /\ t.of \in past /\ s \in Homes(Offset[t.of], p)
  BY DEF TypeInv, TypeOK, Threads, PlaceInv, ThreadsHome
<1>2. pc' = pc /\ of' = of /\ past' = past /\ tmp' = tmp /\ from' = from
  BY DEF ThreadOpen, ThreadWrite, client, history
<1>3. \A u \in threads' : \E w \in threads : u.of = w.of /\ u.srv = w.srv /\ u.part = w.part
  BY <1>1 DEF ThreadOpen, ThreadWrite, Advance, Threads
<1>4. PICK g : Placed(g, s, p) /\ disk' = [disk EXCEPT ![s][p] = g]
  <2>1. CASE ThreadOpen(t)
    BY <2>1, EmptyPlaced DEF ThreadOpen
  <2>2. CASE ThreadWrite(t)
    <3>1. t.pos + 1 \in Nat \ {0}
      BY <1>1, <2>2 DEF ThreadWrite, Threads
    <3>2. disk[s][p] \in Seq(Chunks) /\ Placed(disk[s][p], s, p)
      BY <1>1, <2>2 DEF ThreadWrite, TypeInv, TypeOK, OpenExists, Files, PlaceInv, ChunksHome
    <3>3. Placed(WriteAt(disk[s][p], t.pos + 1, t.of), s, p)
      BY <1>1, <3>1, <3>2, WritePlaced
    <3>4. disk' = [disk EXCEPT ![s][p] = WriteAt(disk[s][p], t.pos + 1, t.of)]
      BY <2>2 DEF ThreadWrite
    <3> QED BY <3>3, <3>4
  <2> QED BY <2>1, <2>2
<1>5. \A r \in Servers, q \in Parts :
        disk'[r][q] = disk[r][q] \/ (r = s /\ q = p /\ disk'[r][q] = g)
  BY <1>1, <1>4 DEF TypeInv, TypeOK
<1> HIDE DEF s, p
<1>6. FilesHome'
  BY <1>1, <1>2, <1>5 DEF PlaceInv, FilesHome
<1>7. ChunksHome'
  BY <1>2, <1>4, <1>5 DEF PlaceInv, ChunksHome, Placed
<1>8. PutsPast' /\ ThreadsHome'
  BY <1>2, <1>3 DEF PlaceInv, PutsPast, ThreadsHome
<1> QED BY <1>6, <1>7, <1>8 DEF PlaceInv

\* What a client got of a piece came from its server.
LEMMA ReceivedPlaced ==
    ASSUME TypeInv, PlaceInv, NEW c \in Clients, RecvPiece(c)
    PROVE  PlaceInv'
<1> DEFINE s == from[c].srv
           p == from[c].part
           f == from[c].file
           now == disk[s][p]
           n == Len(f)
<1>1. /\ s \in Servers /\ p \in Parts /\ f \in Seq(Chunks) /\ now \in Seq(Chunks)
      /\ n \in Nat /\ Len(now) \in Nat
  BY LenProperties DEF TypeInv, TypeOK, RecvPiece, ListedPartsExist, Files
<1>2. Placed(f, s, p) /\ Placed(now, s, p)
  BY <1>1 DEF PlaceInv, ChunksHome
<1>3. PICK m \in 0 .. n :
        \/ (m = n \/ n <= Len(now)) /\ Keep(c, Prefix(f, m) \o SubSeq(now, m + 1, n))
        \/ Keep(c, Prefix(f, m) \o SubSeq(now, m + 1, Len(now)))
  BY DEF RecvPiece
<1>4. \E piece : Keep(c, piece) /\ Placed(piece, s, p)
  <2>1. CASE Keep(c, Prefix(f, m) \o SubSeq(now, m + 1, Len(now)))
    <3>1. Placed(Prefix(f, m) \o SubSeq(now, m + 1, Len(now)), s, p)
      BY <1>1, <1>2, JoinPlaced
    <3> QED BY <2>1, <3>1
  <2>2. CASE n <= Len(now) /\ Keep(c, Prefix(f, m) \o SubSeq(now, m + 1, n))
    <3>1. Placed(Prefix(f, m) \o SubSeq(now, m + 1, n), s, p)
      BY <1>1, <1>2, <2>2, JoinPlaced
    <3> QED BY <2>2, <3>1
  <2>3. CASE m = n /\ Keep(c, Prefix(f, m) \o SubSeq(now, m + 1, n))
    <3>1. SubSeq(now, m + 1, n) = <<>> /\ SubSeq(f, m + 1, n) = <<>>
      BY <1>1, <2>3, SubSeqEmpty
    <3>2. Prefix(f, m) \o SubSeq(now, m + 1, n) = f
      BY <1>1, <3>1, CutAndJoin
    <3> QED BY <1>2, <2>3, <3>2
  <2> QED BY <1>3, <2>1, <2>2, <2>3
<1> HIDE DEF s, p, f, now, n
<1>5. \A d \in Clients : \A r \in Servers, q \in Parts : Placed(tmp'[d][r][q], r, q)
  BY <1>4, KeepPlaced DEF PlaceInv, s, p
<1>6. \A d \in Clients : Placed(from'[d].file, from'[d].srv, from'[d].part)
  <2>1. from' = from \/ from' = [from EXCEPT ![c] = NoPiece]
    BY DEF RecvPiece
  <2>2. \A d \in Clients : from'[d] = from[d] \/ from'[d] = NoPiece
    BY <2>1 DEF TypeInv, TypeOK
  <2> QED BY <2>2, EmptyPlaced DEF NoPiece, PlaceInv, ChunksHome
<1>7. /\ disk' = disk /\ threads' = threads /\ past' = past /\ of' = of
      /\ \A d \in Clients : pc'[d] = "put" => pc[d] = "put"
  BY DEF RecvPiece, server, history, TypeInv, TypeOK
<1> QED BY <1>5, <1>6, <1>7, FilesUntouched

\* So did what is left of one in get_tmp when the server or the user ends it.
LEMMA CutPlaced ==
    ASSUME TypeInv, PlaceInv, NEW c \in Clients, LosePeer(c) \/ Quit(c)
    PROVE  /\ \A d \in Clients : \A s \in Servers, p \in Parts : Placed(tmp'[d][s][p], s, p)
           /\ \A d \in Clients : Placed(from'[d].file, from'[d].srv, from'[d].part)
<1> DEFINE f == from[c].file
<1>1. f \in Seq(Chunks) /\ Len(f) \in Nat
  BY LenProperties DEF TypeInv, TypeOK
<1>2. \A m \in 0 .. (Len(f) - 1) : m \in 0 .. Len(f)
  BY <1>1
<1>3. \A m \in 0 .. (Len(f) - 1) : Placed(Prefix(f, m), from[c].srv, from[c].part)
  BY <1>1, <1>2, PrefixPlaced DEF PlaceInv, ChunksHome
<1>4. tmp' = tmp \/ \E m \in 0 .. (Len(f) - 1) : Keep(c, Prefix(f, m))
  BY DEF LosePeer, Quit
<1> HIDE DEF f
<1>5. \A d \in Clients : \A s \in Servers, p \in Parts : Placed(tmp'[d][s][p], s, p)
  <2>1. CASE tmp' = tmp
    BY <2>1 DEF PlaceInv, ChunksHome
  <2>2. CASE \E m \in 0 .. (Len(f) - 1) : Keep(c, Prefix(f, m))
    BY <1>3, <2>2, KeepPlaced DEF PlaceInv
  <2> QED BY <1>4, <2>1, <2>2
<1>6. from' = from \/ from' = [from EXCEPT ![c] = NoPiece]
  BY DEF LosePeer, Quit
<1>7. \A d \in Clients : from'[d] = from[d] \/ from'[d] = NoPiece
  BY <1>6 DEF TypeInv, TypeOK
<1> QED BY <1>5, <1>7, EmptyPlaced DEF NoPiece, PlaceInv, ChunksHome

\* One step for each action.
LEMMA PlaceStep == TypeInv /\ PlaceInv /\ [Next]_vars => PlaceInv'
<1> SUFFICES ASSUME TypeInv, PlaceInv, [Next]_vars PROVE PlaceInv'
  OBVIOUS
<1>1. ASSUME NEW c \in Clients, NEW v \in Contents, StartPut(c, v) PROVE PlaceInv'
  BY <1>1 DEF StartPut, server, TypeInv, TypeOK, PlaceInv, PutsPast, ThreadsHome, FilesHome,
              ChunksHome, Placed
<1>2. ASSUME NEW c \in Clients, SendPart(c) PROVE PlaceInv'
  <2> DEFINE u == Upload(c, Size[of[c]])
  <2>1. /\ disk' = disk /\ past' = past /\ tmp' = tmp /\ from' = from /\ of' = of
        /\ pc[c] = "put" /\ threads' \subseteq threads \cup {u}
        /\ \A d \in Clients : pc'[d] = "put" => pc[d] = "put"
    BY <1>2 DEF SendPart, TypeInv, TypeOK
  <2>2. u.of \in past /\ u.srv \in Homes(Offset[u.of], u.part)
    BY <2>1, UploadHome DEF PlaceInv
  <2> HIDE DEF u
  <2> QED BY <2>1, <2>2 DEF PlaceInv, PutsPast, ThreadsHome, FilesHome, ChunksHome, Placed
<1>3. ASSUME NEW c \in Clients, NEW q \in {"list", "get"}, StartQuery(c, q) PROVE PlaceInv'
  BY <1>3, NothingMoved DEF StartQuery, server, TypeInv, TypeOK
<1>4. ASSUME NEW c \in Clients, Ask(c) PROVE PlaceInv'
  BY <1>4, NothingMoved DEF Ask, server
<1>5. ASSUME NEW c \in Clients, PrintList(c) PROVE PlaceInv'
  BY <1>5, NothingMoved DEF PrintList, Return, server, history, TypeInv, TypeOK
<1>6. ASSUME NEW c \in Clients, FetchPiece(c) PROVE PlaceInv'
  <2> DEFINE x == Next2Fetch(c)
  <2>1. x[1] \in Servers /\ x[2] \in Parts
    <3>1. found[c] \subseteq Servers \X Parts /\ found[c] # {}
      BY <1>6 DEF TypeInv, TypeOK, FetchPiece
    <3>2. x \in found[c]
      BY <3>1, NextIsFound
    <3> QED BY <3>1, <3>2
  <2> HIDE DEF x
  <2>2. \/ from' = from
        \/ from' = [from EXCEPT ![c] = [srv |-> x[1], part |-> x[2],
                                        file |-> disk[x[1]][x[2]], gone |-> FALSE]]
    BY <1>6 DEF FetchPiece, x
  <2>3. \A d \in Clients : Placed(from'[d].file, from'[d].srv, from'[d].part)
    <3>1. \A d \in Clients :
             \/ from'[d] = from[d]
             \/ from'[d] = [srv |-> x[1], part |-> x[2], file |-> disk[x[1]][x[2]], gone |-> FALSE]
      BY <2>2 DEF TypeInv, TypeOK
    <3> QED BY <2>1, <3>1 DEF PlaceInv, ChunksHome
  <2>4. /\ disk' = disk /\ threads' = threads /\ past' = past /\ of' = of /\ tmp' = tmp
        /\ \A d \in Clients : pc'[d] = "put" => pc[d] = "put"
    BY <1>6 DEF FetchPiece, server, TypeInv, TypeOK
  <2>5. \A d \in Clients : \A s \in Servers, p \in Parts : Placed(tmp'[d][s][p], s, p)
    BY <2>4 DEF PlaceInv, ChunksHome
  <2> QED BY <2>3, <2>4, <2>5, FilesUntouched
<1>7. ASSUME NEW c \in Clients, RecvPiece(c) PROVE PlaceInv'
  BY <1>7, ReceivedPlaced
<1>8. ASSUME NEW c \in Clients, LosePeer(c) PROVE PlaceInv'
  <2>1. /\ disk' = disk /\ threads' = threads /\ past' = past /\ of' = of
        /\ \A d \in Clients : pc'[d] = "put" => pc[d] = "put"
    BY <1>8 DEF LosePeer, server, TypeInv, TypeOK
  <2> QED BY <1>8, <2>1, CutPlaced, FilesUntouched
<1>9. ASSUME NEW c \in Clients, CompileGet(c) PROVE PlaceInv'
  <2>1. /\ disk' = disk /\ threads' = threads /\ past' = past /\ of' = of /\ from' = from
        /\ \A d \in Clients : pc'[d] = "put" => pc[d] = "put"
        /\ tmp' = [tmp EXCEPT ![c] = NoTmp]
    BY <1>9 DEF CompileGet, Return, server, history, TypeInv, TypeOK
  <2>2. \A d \in Clients : tmp'[d] = tmp[d] \/ tmp'[d] = NoTmp
    BY <2>1 DEF TypeInv, TypeOK
  <2>3. \A d \in Clients : \A s \in Servers, p \in Parts : Placed(tmp'[d][s][p], s, p)
    BY <2>2, NonePlaced DEF PlaceInv, ChunksHome, NoTmp
  <2>4. \A d \in Clients : Placed(from'[d].file, from'[d].srv, from'[d].part)
    BY <2>1 DEF PlaceInv, ChunksHome
  <2> QED BY <2>1, <2>3, <2>4, FilesUntouched
<1>10. ASSUME NEW t \in threads, ThreadOpen(t) \/ ThreadWrite(t) PROVE PlaceInv'
  BY <1>10, ThreadPlaces
<1>11. ASSUME NEW s \in Servers, Crash(s) PROVE PlaceInv'
  <2>1. /\ disk' = disk /\ threads' \subseteq threads /\ past' = past /\ of' = of /\ pc' = pc
        /\ tmp' = tmp
    BY <1>11 DEF Crash
  <2>2. \A d \in Clients : /\ from'[d].file = from[d].file /\ from'[d].srv = from[d].srv
                            /\ from'[d].part = from[d].part
    BY <1>11 DEF Crash, TypeInv, TypeOK
  <2> QED BY <2>1, <2>2, FilesUntouched DEF PlaceInv, ChunksHome
<1>12. ASSUME NEW s \in Servers, Restart(s) PROVE PlaceInv'
  BY <1>12, NothingMoved DEF Restart, client, history
<1>13. ASSUME NEW c \in Clients, Quit(c) PROVE PlaceInv'
  <2>1. /\ disk' = disk /\ past' = past /\ of' = of
        /\ \A d \in Clients : pc'[d] = "put" => pc[d] = "put"
    BY <1>13 DEF Quit, Return, TypeInv, TypeOK
  <2>2. ThreadsHome'
    <3>1. \A t \in threads' : t \in threads \/ (pc[c] = "put" /\ \E n : t = Upload(c, n))
      BY <1>13 DEF Quit
    <3> QED BY <2>1, <3>1, UploadHome DEF PlaceInv, ThreadsHome
  <2> QED BY <1>13, <2>1, <2>2, CutPlaced
          DEF PlaceInv, PutsPast, FilesHome, ChunksHome, Placed
<1>14. CASE UNCHANGED vars
  BY <1>14, NothingMoved DEF vars, server, client, history
<1> QED BY <1>1, <1>2, <1>3, <1>4, <1>5, <1>6, <1>7, <1>8, <1>9, <1>10, <1>11, <1>12, <1>13,
           <1>14 DEF Next, Command, ClientStep, ThreadStep, Failure

LEMMA PlaceMeans == TypeInv /\ PlaceInv => Homed
BY DEF PlaceInv, ChunksHome, Placed, Homed

-----------------------------------------------------------------------------
(* Queries of a settled version.                                           *)

Querying(c) == pc[c] \in {"list", "get", "recv"}

\* As long as no put has started since, nothing writes, and all homes have the version.
Undisturbed ==
    \A c \in Clients : clean[c] # None =>
        /\ Quiet
        /\ \A p \in Parts : \A s \in Homes(Offset[clean[c]], p) : disk[s][p] = Whole(clean[c])

\* Each copy was out of reach, is still to be listed, is still to be fetched, is being
\* received, or was received.
Followed(c) ==
    \A p \in Parts : \A s \in Homes(Offset[clean[c]], p) :
        \/ s \in missed[c]
        \/ k[c] <= s
        \/ <<s, p>> \in found[c]
        \/ pc[c] = "recv" /\ from[c].srv = s /\ from[c].part = p
        \/ pc[c] # "list" /\ tmp[c][s][p] # None

\* What was received is the whole file, and so is what is being received.
Copied(c) ==
    /\ \A s \in Servers, p \in Parts : tmp[c][s][p] # None => tmp[c][s][p] = disk[s][p]
    /\ pc[c] = "recv" => from[c].file = disk[from[c].srv][from[c].part]

Outcome(c) ==
    /\ out[c].kind = "incomplete" => ~ NoNeighbours(missed[c])
    /\ (out[c].kind = "file" /\ \A v \in past : Offset[v] = Offset[clean[c]])
         => out[c].data = [p \in Parts |-> Whole(clean[c])]

Query(c) ==
    /\ pc[c] \in {"list", "get", "recv", "spin"} => out[c].kind = "none"
    /\ pc[c] = "recv" => k[c] = N
    /\ pc[c] = "recv" /\ from[c].gone => crashes > 0
    /\ clean[c] # None =>
        /\ pc[c] = "spin" => crashes > 0
        /\ Querying(c) => Followed(c) /\ Copied(c)
        /\ Outcome(c)

Queries == \A c \in Clients : Query(c)

QueryInv == Undisturbed /\ Queries

Inv == TypeInv /\ Durable /\ PlaceInv /\ QueryInv

LEMMA QueryInit == Init => QueryInv
BY DEF Init, QueryInv, Undisturbed, Queries, Query, NoOut

\* Steps that change no file, start no thread and no put.
LEMMA StillUndisturbed ==
    ASSUME Undisturbed, disk' = disk, threads' \subseteq threads,
           \A c \in Clients : pc'[c] = "put" => pc[c] = "put",
           \A c \in Clients : clean'[c] \in {clean[c], None}
    PROVE  Undisturbed'
BY DEF Undisturbed, Quiet, Stuck

\* A client of which nothing changes is in the middle of the same query.
LEMMA SameQuery ==
    ASSUME NEW c \in Clients, Query(c), disk' = disk, past' = past, crashes' = crashes,
           pc'[c] = pc[c], k'[c] = k[c], found'[c] = found[c], from'[c] = from[c],
           tmp'[c] = tmp[c], out'[c] = out[c], clean'[c] = clean[c], missed'[c] = missed[c]
    PROVE  Query(c)'
BY DEF Query, Querying, Followed, Copied, Outcome

\* While anything is written no query is one of a settled version.
LEMMA WritersDisturb ==
    ASSUME TypeInv, Undisturbed,
           (\E t \in threads : ~ Stuck(t)) \/ (\E d \in Clients : pc[d] = "put")
    PROVE  \A c \in Clients : clean[c] = None
BY DEF Undisturbed, Quiet

\* A query of which no settled version is expected has little to keep.
LEMMA PoorQuery ==
    ASSUME NEW c \in Clients, Query(c), clean'[c] = None,
           pc'[c] \in {"idle", "put", pc[c]}, k'[c] = k[c] \/ pc'[c] \in {"idle", "put"},
           out'[c] = out[c], from'[c] = from[c], crashes' = crashes
    PROVE  Query(c)'
BY DEF Query

-----------------------------------------------------------------------------
LEMMA PutQueries ==
    ASSUME Inv, NEW d \in Clients, SendPart(d) \/ \E v \in Contents : StartPut(d, v)
    PROVE  QueryInv'
<1>1. \A c \in Clients : clean'[c] = None
  <2>1. CASE SendPart(d)
    BY <2>1, WritersDisturb DEF Inv, QueryInv, SendPart
  <2>2. CASE \E v \in Contents : StartPut(d, v)
    BY <2>2 DEF StartPut
  <2> QED BY <2>1, <2>2
<1>2. Undisturbed'
  BY <1>1 DEF Undisturbed
<1>3. ASSUME NEW c \in Clients PROVE Query(c)'
  <2>1. Query(c) /\ out' = out /\ from' = from /\ crashes' = crashes
    BY DEF Inv, QueryInv, Queries, SendPart, StartPut
  <2>2. pc'[c] \in {"idle", "put", pc[c]} /\ (k'[c] = k[c] \/ pc'[c] \in {"idle", "put"})
    BY DEF Inv, TypeInv, TypeOK, SendPart, StartPut
  <2> QED BY <1>1, <2>1, <2>2, PoorQuery
<1> QED BY <1>2, <1>3 DEF QueryInv, Queries

LEMMA ThreadQueries ==
    ASSUME Inv, NEW t \in threads, ThreadOpen(t) \/ ThreadWrite(t)
    PROVE  QueryInv'
<1>1. ~ Stuck(t)
  BY DEF Inv, TypeInv, TypeOK, Threads, ThreadOpen, ThreadWrite, Stuck
<1>2. /\ \A c \in Clients : clean'[c] = None
      /\ pc' = pc /\ k' = k /\ out' = out /\ from' = from /\ crashes' = crashes
  BY <1>1, WritersDisturb DEF Inv, QueryInv, ThreadOpen, ThreadWrite, client, history
<1>3. \A c \in Clients : Query(c)'
  BY <1>2, PoorQuery DEF Inv, QueryInv, Queries
<1>4. Undisturbed'
  BY <1>2 DEF Undisturbed
<1> QED BY <1>3, <1>4 DEF QueryInv, Queries

\* The client whose step it is, and the others.
LEMMA OneQuery ==
    ASSUME Inv, NEW c \in Clients, disk' = disk, past' = past, crashes' = crashes,
           Query(c)',
           \A d \in Clients \ {c} :
               /\ pc'[d] = pc[d] /\ k'[d] = k[d] /\ found'[d] = found[d] /\ from'[d] = from[d]
               /\ tmp'[d] = tmp[d] /\ out'[d] = out[d] /\ clean'[d] = clean[d]
               /\ missed'[d] = missed[d]
    PROVE  Queries'
BY SameQuery DEF Inv, QueryInv, Queries

LEMMA StartQueries ==
    ASSUME Inv, NEW c \in Clients, NEW q \in {"list", "get"}, StartQuery(c, q)
    PROVE  QueryInv'
<1>1. /\ disk' = disk /\ threads' = threads /\ past' = past /\ crashes' = crashes
      /\ tmp' = tmp /\ from' = from /\ pc'[c] = q /\ k'[c] = 0 /\ out'[c] = NoOut
      /\ clean'[c] = IF Quiet /\ tmp[c] = NoTmp THEN settled ELSE None
      /\ \A d \in Clients \ {c} :
           /\ pc'[d] = pc[d] /\ k'[d] = k[d] /\ found'[d] = found[d]
           /\ out'[d] = out[d] /\ clean'[d] = clean[d] /\ missed'[d] = missed[d]
  BY DEF StartQuery, server, Inv, TypeInv, TypeOK
<1>2. Quiet => Quiet'
  BY <1>1 DEF Quiet, Stuck
<1>3. ASSUME clean'[c] # None
      PROVE  /\ Quiet /\ tmp[c] = NoTmp /\ clean'[c] = settled /\ settled \in Contents
             /\ \A p \in Parts : \A s \in Homes(Offset[settled], p) : disk[s][p] = Whole(settled)
  BY <1>1, <1>3, SettledIsStored DEF Inv, TypeInv, TypeOK
<1>4. Undisturbed'
  BY <1>1, <1>2, <1>3 DEF Inv, QueryInv, Undisturbed
<1>5. ASSUME clean'[c] # None PROVE Followed(c)' /\ Copied(c)'
  <2>1. Offset[settled] \in Servers
    BY <1>3, <1>5, DfsAssumption
  <2>2. \A p \in Parts : \A s \in Homes(Offset[settled], p) : 0 <= s
    BY <2>1, HomesType DEF Servers
  <2>3. \A s \in Servers, p \in Parts : tmp'[c][s][p] = None
    BY <1>1, <1>3, <1>5 DEF NoTmp
  <2> QED BY <1>1, <1>3, <1>5, <2>2, <2>3 DEF Followed, Copied
<1>6. Query(c)'
  BY <1>1, <1>5 DEF Query, Outcome, NoOut
<1> QED BY <1>1, <1>4, <1>6, OneQuery DEF QueryInv

LEMMA AskQueries ==
    ASSUME Inv, NEW c \in Clients, Ask(c)
    PROVE  QueryInv'
<1> DEFINE r == k[c]
           seen == {<<r, p>> : p \in {q \in Parts : disk[r][q] # None}}
<1>1. /\ disk' = disk /\ threads' = threads /\ past' = past /\ crashes' = crashes
      /\ pc' = pc /\ tmp' = tmp /\ from' = from /\ out' = out /\ clean' = clean
      /\ pc[c] \in {"list", "get"} /\ r \in 0 .. 2 * N - 1 /\ r < N /\ k'[c] = r + 1
      /\ \A d \in Clients \ {c} : k'[d] = k[d] /\ found'[d] = found[d] /\ missed'[d] = missed[d]
  BY DEF Ask, server, Inv, TypeInv, TypeOK
<1>2. \/ found'[c] = found[c] \cup seen /\ missed'[c] = missed[c]
      \/ found'[c] = found[c] /\ missed'[c] = missed[c] \cup {r}
  BY DEF Ask, Inv, TypeInv, TypeOK
<1>3. Query(c) /\ Undisturbed
  BY DEF Inv, QueryInv, Queries
<1>4. ASSUME clean[c] # None PROVE Followed(c)'
  <2> SUFFICES ASSUME NEW p \in Parts, NEW s \in Homes(Offset[clean[c]], p)
               PROVE  \/ s \in missed'[c]
                      \/ r + 1 <= s
                      \/ <<s, p>> \in found'[c]
                      \/ pc[c] # "list" /\ tmp[c][s][p] # None
    BY <1>1 DEF Followed
  <2>1. s \in Servers /\ clean[c] \in Contents
    BY <1>4, HomesType, DfsAssumption DEF Inv, TypeInv, TypeOK
  <2>2. CASE s = r
    <3>1. disk[s][p] # None
      BY <1>3, <1>4, <2>1, WholeType, NoneIsNoFile DEF Undisturbed
    <3> QED BY <1>2, <2>2, <3>1
  <2>3. CASE s # r
    <3>1. r <= s => r + 1 <= s
      BY <1>1, <2>1, <2>3, NAssumption DEF Servers
    <3> QED BY <1>1, <1>2, <1>3, <1>4, <3>1 DEF Query, Querying, Followed
  <2> QED BY <2>2, <2>3
<1> HIDE DEF seen, r
<1>5. Query(c)'
  <2>1. clean[c] # None => Copied(c)'
    BY <1>1, <1>3 DEF Query, Querying, Copied
  <2> QED BY <1>1, <1>3, <1>4, <2>1 DEF Query, Outcome
<1>6. Undisturbed'
  BY <1>1, <1>3, StillUndisturbed
<1> QED BY <1>1, <1>5, <1>6, OneQuery DEF QueryInv

\* A home of every part was reached, unless two neighbours were not.
LEMMA SomeHomeReached ==
    ASSUME Inv, NEW c \in Clients, clean[c] # None, NoNeighbours(missed[c]), NEW p \in Parts
    PROVE  \E s \in Homes(Offset[clean[c]], p) : s \in Servers \ missed[c]
<1>1. Offset[clean[c]] \in Servers /\ missed[c] \in SUBSET Servers
  BY DfsAssumption DEF Inv, TypeInv, TypeOK
<1> QED BY <1>1, SomeHomeUp

LEMMA PrintQueries ==
    ASSUME Inv, NEW c \in Clients, PrintList(c)
    PROVE  QueryInv'
<1>1. /\ disk' = disk /\ threads' = threads /\ past' = past /\ crashes' = crashes
      /\ tmp' = tmp /\ from' = from /\ clean' = clean /\ missed' = missed
      /\ pc[c] = "list" /\ k[c] = N /\ pc'[c] = "idle"
      /\ \A d \in Clients \ {c} :
           pc'[d] = pc[d] /\ k'[d] = k[d] /\ found'[d] = found[d] /\ out'[d] = out[d]
  BY DEF PrintList, Return, server, history, Inv, TypeInv, TypeOK
<1>2. /\ out'[c].kind \in {"complete", "incomplete"}
      /\ out'[c].kind = "incomplete" => \E p \in Parts : \A s \in Servers : <<s, p>> \notin found[c]
  BY DEF PrintList, Return, Inv, TypeInv, TypeOK
<1>3. Query(c) /\ Undisturbed
  BY DEF Inv, QueryInv, Queries
<1>4. ASSUME clean[c] # None, out'[c].kind = "incomplete" PROVE ~ NoNeighbours(missed[c])
  <2> SUFFICES ASSUME NoNeighbours(missed[c]) PROVE FALSE
    OBVIOUS
  <2>1. PICK p \in Parts : \A s \in Servers : <<s, p>> \notin found[c]
    BY <1>2, <1>4
  <2>2. PICK s \in Homes(Offset[clean[c]], p) : s \in Servers \ missed[c]
    BY <1>4, SomeHomeReached
  <2>3. ~ (N <= s)
    BY <2>2, NAssumption DEF Servers
  <2> QED BY <1>1, <1>3, <1>4, <2>1, <2>2, <2>3 DEF Query, Querying, Followed
<1>5. Query(c)'
  BY <1>1, <1>2, <1>4 DEF Query, Querying, Outcome
<1>6. Undisturbed'
  BY <1>1, <1>3, StillUndisturbed
<1> QED BY <1>1, <1>5, <1>6, OneQuery DEF QueryInv

LEMMA FetchQueries ==
    ASSUME Inv, NEW c \in Clients, FetchPiece(c)
    PROVE  QueryInv'
<1> DEFINE x == Next2Fetch(c)
<1>1. /\ disk' = disk /\ threads' = threads /\ past' = past /\ crashes' = crashes
      /\ tmp' = tmp /\ out' = out /\ clean' = clean /\ k' = k
      /\ pc[c] = "get" /\ k[c] = N /\ found'[c] = found[c] \ {x}
      /\ \A d \in Clients \ {c} :
           pc'[d] = pc[d] /\ found'[d] = found[d] /\ from'[d] = from[d] /\ missed'[d] = missed[d]
  BY DEF FetchPiece, server, Inv, TypeInv, TypeOK
<1>2. \/ /\ pc'[c] = "recv" /\ missed'[c] = missed[c]
         /\ from'[c] = [srv |-> x[1], part |-> x[2], file |-> disk[x[1]][x[2]], gone |-> FALSE]
      \/ pc'[c] = "get" /\ missed'[c] = missed[c] \cup {x[1]} /\ from'[c] = from[c]
  BY DEF FetchPiece, Inv, TypeInv, TypeOK
<1> HIDE DEF x
<1>3. Query(c) /\ Undisturbed
  BY DEF Inv, QueryInv, Queries
<1>4. ASSUME clean[c] # None PROVE Followed(c)'
  <2> SUFFICES ASSUME NEW p \in Parts, NEW s \in Homes(Offset[clean[c]], p)
               PROVE  \/ s \in missed'[c]
                      \/ k[c] <= s
                      \/ <<s, p>> \in found'[c]
                      \/ pc'[c] = "recv" /\ from'[c].srv = s /\ from'[c].part = p
                      \/ pc'[c] # "list" /\ tmp[c][s][p] # None
    BY <1>1 DEF Followed
  <2>1. CASE <<s, p>> = x
    BY <1>2, <2>1
  <2>2. CASE <<s, p>> # x
    BY <1>1, <1>2, <1>3, <1>4, <2>2 DEF Query, Querying, Followed
  <2> QED BY <2>1, <2>2
<1>5. Query(c)'
  <2>1. clean[c] # None => Copied(c)'
    BY <1>1, <1>2, <1>3 DEF Query, Querying, Copied
  <2>2. out[c].kind = "none"
    BY <1>1, <1>3 DEF Query
  <2> QED BY <1>1, <1>2, <1>3, <1>4, <2>1, <2>2 DEF Query, Outcome
<1>6. Undisturbed'
  <2>1. \A d \in Clients : pc'[d] = "put" => pc[d] = "put"
    BY <1>1, <1>2
  <2> QED BY <1>1, <1>3, <2>1, StillUndisturbed
<1> QED BY <1>1, <1>5, <1>6, OneQuery DEF QueryInv

\* A piece that nobody writes while it is sent arrives whole.
LEMMA RecvQueries ==
    ASSUME Inv, NEW c \in Clients, RecvPiece(c)
    PROVE  QueryInv'
<1> DEFINE s == from[c].srv
           p == from[c].part
           f == from[c].file
           now == disk[s][p]
<1>1. /\ disk' = disk /\ threads' = threads /\ past' = past /\ crashes' = crashes
      /\ found' = found /\ out' = out /\ clean' = clean /\ k' = k /\ missed' = missed
      /\ pc[c] = "recv" /\ pc'[c] \in {"get", "spin"}
      /\ \A d \in Clients \ {c} : pc'[d] = pc[d] /\ from'[d] = from[d] /\ tmp'[d] = tmp[d]
  BY DEF RecvPiece, Keep, server, history, Inv, TypeInv, TypeOK
<1>2. Query(c) /\ Undisturbed
  BY DEF Inv, QueryInv, Queries
<1>3. ASSUME clean[c] # None
      PROVE  /\ pc'[c] = "get"
             /\ tmp' = [tmp EXCEPT ![c][s][p] = now]
  <2>1. f = now /\ f \in Seq(Chunks) /\ Len(f) \in Nat
    BY <1>1, <1>2, <1>3, LenProperties DEF Query, Querying, Copied, Inv, TypeInv, TypeOK
  <2>2. PICK m \in 0 .. Len(f) :
          /\ Keep(c, Prefix(f, m) \o SubSeq(now, m + 1, Len(f)))
          /\ pc' = [pc EXCEPT ![c] = "get"]
    BY <2>1 DEF RecvPiece
  <2>3. Prefix(f, m) \o SubSeq(now, m + 1, Len(f)) = now
    BY <2>1, CutAndJoin
  <2> QED BY <2>2, <2>3 DEF Keep, Inv, TypeInv, TypeOK
<1>4. ASSUME clean[c] # None PROVE Followed(c)' /\ Copied(c)'
  <2>1. s \in Servers /\ p \in Parts /\ now # None
    BY <1>1 DEF Inv, TypeInv, TypeOK, ListedPartsExist
  <2>2. /\ tmp'[c][s][p] = now
        /\ \A r \in Servers, q \in Parts : r # s \/ q # p => tmp'[c][r][q] = tmp[c][r][q]
    BY <1>3, <1>4, <2>1 DEF Inv, TypeInv, TypeOK
  <2>3. \A q \in Parts : \A r \in Homes(Offset[clean[c]], q) : r \in Servers
    BY <1>4, HomesType, DfsAssumption DEF Inv, TypeInv, TypeOK
  <2>4. /\ \A r \in Servers, q \in Parts : tmp[c][r][q] # None => tmp[c][r][q] = disk[r][q]
        /\ \A q \in Parts : \A r \in Homes(Offset[clean[c]], q) :
              \/ r \in missed[c] \/ k[c] <= r \/ <<r, q>> \in found[c]
              \/ s = r /\ p = q
              \/ tmp[c][r][q] # None
    BY <1>1, <1>2, <1>4 DEF Query, Querying, Followed, Copied
  <2>5. pc'[c] = "get"
    BY <1>3, <1>4
  <2>6. Copied(c)'
    <3>1. \A r \in Servers, q \in Parts : tmp'[c][r][q] # None => tmp'[c][r][q] = disk[r][q]
      BY <2>2, <2>4
    <3> QED BY <1>1, <2>5, <3>1 DEF Copied
  <2>7. Followed(c)'
    <3>1. \A q \in Parts : \A r \in Homes(Offset[clean[c]], q) :
             \/ r \in missed[c] \/ k[c] <= r \/ <<r, q>> \in found[c]
             \/ tmp'[c][r][q] # None
      BY <2>1, <2>2, <2>3, <2>4
    <3> QED BY <1>1, <2>5, <3>1 DEF Followed
  <2> QED BY <2>6, <2>7
<1> HIDE DEF s, p, f, now
<1>5. Query(c)'
  BY <1>1, <1>2, <1>3, <1>4 DEF Query, Querying, Outcome
<1>6. Undisturbed'
  <2>1. \A d \in Clients : pc'[d] = "put" => pc[d] = "put"
    BY <1>1
  <2> QED BY <1>1, <1>2, <2>1, StillUndisturbed
<1> QED BY <1>1, <1>5, <1>6, OneQuery DEF QueryInv

LEMMA LoseQueries ==
    ASSUME Inv, NEW c \in Clients, LosePeer(c)
    PROVE  QueryInv'
<1>1. /\ disk' = disk /\ threads' = threads /\ past' = past /\ crashes' = crashes
      /\ found' = found /\ out' = out /\ clean' = clean /\ k' = k
      /\ pc[c] = "recv" /\ from[c].gone
      /\ \/ /\ pc'[c] = "get" /\ tmp' = tmp
            /\ missed'[c] = missed[c] \cup {from[c].srv}
         \/ pc'[c] = "spin"
      /\ \A d \in Clients \ {c} : /\ pc'[d] = pc[d] /\ from'[d] = from[d] /\ tmp'[d] = tmp[d]
                                 /\ missed'[d] = missed[d]
  BY DEF LosePeer, Keep, server, Inv, TypeInv, TypeOK
<1>2. Query(c) /\ Undisturbed
  BY DEF Inv, QueryInv, Queries
<1>3. CASE pc'[c] = "spin"
  <2>1. Query(c)'
    BY <1>1, <1>2, <1>3 DEF Query, Querying, Outcome
  <2>2. \A d \in Clients : pc'[d] = "put" => pc[d] = "put"
    BY <1>1, <1>3
  <2>3. Undisturbed'
    BY <1>1, <1>2, <2>2, StillUndisturbed
  <2> QED BY <1>1, <2>1, <2>3, OneQuery DEF QueryInv
<1>4. CASE pc'[c] = "get" /\ tmp' = tmp /\ missed'[c] = missed[c] \cup {from[c].srv}
  <2>1. clean[c] # None => Followed(c)' /\ Copied(c)'
    BY <1>1, <1>2, <1>4 DEF Query, Querying, Followed, Copied
  <2>2. Query(c)'
    BY <1>1, <1>2, <1>4, <2>1 DEF Query, Outcome
  <2>3. \A d \in Clients : pc'[d] = "put" => pc[d] = "put"
    BY <1>1, <1>4
  <2>4. Undisturbed'
    BY <1>1, <1>2, <2>3, StillUndisturbed
  <2> QED BY <1>1, <2>2, <2>4, OneQuery DEF QueryInv
<1> QED BY <1>1, <1>3, <1>4

\* Every piece was of a home if all versions have the same homes, and homes have only
\* the settled version.
LEMMA CompileQueries ==
    ASSUME Inv, NEW c \in Clients, CompileGet(c)
    PROVE  QueryInv'
<1> DEFINE all == \A p \in Parts : HasPiece(c, p)
<1>1. /\ disk' = disk /\ threads' = threads /\ past' = past /\ crashes' = crashes
      /\ from' = from /\ clean' = clean /\ missed' = missed
      /\ pc[c] = "get" /\ k[c] = N /\ found[c] = {} /\ pc'[c] = "idle"
      /\ \A d \in Clients \ {c} : /\ pc'[d] = pc[d] /\ k'[d] = k[d] /\ found'[d] = found[d]
                                 /\ out'[d] = out[d] /\ tmp'[d] = tmp[d]
  BY DEF CompileGet, Return, server, history, Inv, TypeInv, TypeOK
<1>2. out'[c] = IF all THEN [kind |-> "file", data |-> [p \in Parts |-> FirstPiece(c, p)]]
                       ELSE [kind |-> "incomplete", data |-> <<>>]
  BY DEF CompileGet, Return, Inv, TypeInv, TypeOK
<1>3. Query(c) /\ Undisturbed
  BY DEF Inv, QueryInv, Queries
<1>4. ASSUME clean[c] # None, ~ all PROVE ~ NoNeighbours(missed[c])
  <2> SUFFICES ASSUME NoNeighbours(missed[c]) PROVE FALSE
    OBVIOUS
  <2>1. PICK p \in Parts : ~ HasPiece(c, p)
    BY <1>4
  <2>2. PICK s \in Homes(Offset[clean[c]], p) : s \in Servers \ missed[c]
    BY <1>4, SomeHomeReached
  <2>3. ~ (N <= s)
    BY <2>2, NAssumption DEF Servers
  <2>4. tmp[c][s][p] # None
    BY <1>1, <1>3, <1>4, <2>2, <2>3 DEF Query, Querying, Followed
  <2> QED BY <2>1, <2>2, <2>4 DEF HasPiece
<1>5. ASSUME clean[c] # None, all, \A v \in past : Offset[v] = Offset[clean[c]]
      PROVE  [p \in Parts |-> FirstPiece(c, p)] = [p \in Parts |-> Whole(clean[c])]
  <2>1. ASSUME NEW p \in Parts PROVE FirstPiece(c, p) = Whole(clean[c])
    <3>1. PICK s \in Servers : tmp[c][s][p] # None /\ FirstPiece(c, p) = tmp[c][s][p]
      BY <1>5, FirstPieceIsOne
    <3>2. tmp[c][s][p] = disk[s][p]
      BY <1>1, <1>3, <1>5, <3>1 DEF Query, Querying, Copied
    <3>3. s \in Homes(Offset[clean[c]], p)
      BY <1>5, <3>1, <3>2 DEF Inv, PlaceInv, FilesHome
    <3> QED BY <1>3, <1>5, <3>1, <3>2, <3>3 DEF Undisturbed
  <2> QED BY <2>1
<1> HIDE DEF all
<1>6. Query(c)'
  <2>1. ASSUME clean[c] # None PROVE Outcome(c)'
    <3>1. CASE all
      BY <1>1, <1>2, <1>5, <2>1, <3>1 DEF Outcome
    <3>2. CASE ~ all
      BY <1>1, <1>2, <1>4, <2>1, <3>2 DEF Outcome
    <3> QED BY <3>1, <3>2
  <2> QED BY <1>1, <2>1 DEF Query, Querying
<1>7. Undisturbed'
  <2>1. \A d \in Clients : pc'[d] = "put" => pc[d] = "put"
    BY <1>1
  <2> QED BY <1>1, <1>3, <2>1, StillUndisturbed
<1> QED BY <1>1, <1>6, <1>7, OneQuery DEF QueryInv

-----------------------------------------------------------------------------
(* Failures.                                                               *)

LEMMA CrashQueries ==
    ASSUME Inv, NEW r \in Servers, Crash(r)
    PROVE  QueryInv'
<1>1. /\ disk' = disk /\ threads' \subseteq threads /\ past' = past /\ crashes' = crashes + 1
      /\ crashes \in Nat /\ pc' = pc /\ k' = k /\ found' = found /\ tmp' = tmp /\ out' = out
      /\ clean' = clean /\ missed' = missed
      /\ \A c \in Clients : /\ from'[c].srv = from[c].srv /\ from'[c].part = from[c].part
                             /\ from'[c].file = from[c].file
  BY DEF Crash, Inv, TypeInv, TypeOK
<1>2. ASSUME NEW c \in Clients PROVE Query(c)'
  <2>1. Query(c)
    BY DEF Inv, QueryInv, Queries
  <2>2. crashes' > 0
    BY <1>1
  <2> QED BY <1>1, <2>1, <2>2 DEF Query, Querying, Followed, Copied, Outcome
<1>3. Undisturbed'
  BY <1>1, StillUndisturbed DEF Inv, QueryInv
<1> QED BY <1>2, <1>3 DEF QueryInv, Queries

\* A query that is interrupted comes to nothing.
LEMMA QuitQueries ==
    ASSUME Inv, NEW c \in Clients, Quit(c)
    PROVE  QueryInv'
<1>1. /\ disk' = disk /\ past' = past /\ crashes' = crashes
      /\ clean' = clean /\ missed' = missed /\ pc'[c] = "idle" /\ out'[c] = NoOut
      /\ \A d \in Clients \ {c} : /\ pc'[d] = pc[d] /\ k'[d] = k[d] /\ found'[d] = found[d]
                                 /\ out'[d] = out[d] /\ tmp'[d] = tmp[d] /\ from'[d] = from[d]
  BY DEF Quit, Return, Keep, Inv, TypeInv, TypeOK
<1>2. Undisturbed
  BY DEF Inv, QueryInv
<1>3. Query(c)'
  BY <1>1 DEF Query, Querying, Outcome, NoOut
<1>4. Undisturbed'
  <2>1. CASE pc[c] = "put"
    <3>1. \A d \in Clients : clean[d] = None
      BY <1>2, <2>1, WritersDisturb DEF Inv
    <3> QED BY <1>1, <3>1 DEF Undisturbed
  <2>2. CASE pc[c] # "put"
    <3>1. threads' = threads
      BY <2>2 DEF Quit
    <3>2. \A d \in Clients : pc'[d] = "put" => pc[d] = "put"
      BY <1>1
    <3> QED BY <1>1, <1>2, <3>1, <3>2, StillUndisturbed
  <2> QED BY <2>1, <2>2
<1> QED BY <1>1, <1>3, <1>4, OneQuery DEF QueryInv

LEMMA QueryStep == Inv /\ [Next]_vars => QueryInv'
<1> SUFFICES ASSUME Inv, [Next]_vars PROVE QueryInv'
  OBVIOUS
<1>1. ASSUME NEW c \in Clients, SendPart(c) \/ \E v \in Contents : StartPut(c, v) PROVE QueryInv'
  BY <1>1, PutQueries
<1>2. ASSUME NEW c \in Clients, NEW q \in {"list", "get"}, StartQuery(c, q) PROVE QueryInv'
  BY <1>2, StartQueries
<1>3. ASSUME NEW c \in Clients, Ask(c) \/ PrintList(c) \/ FetchPiece(c) \/ RecvPiece(c)
                                 \/ LosePeer(c) \/ CompileGet(c)
      PROVE  QueryInv'
  BY <1>3, AskQueries, PrintQueries, FetchQueries, RecvQueries, LoseQueries, CompileQueries
<1>4. ASSUME NEW t \in threads, ThreadOpen(t) \/ ThreadWrite(t) PROVE QueryInv'
  BY <1>4, ThreadQueries
<1>5. ASSUME NEW s \in Servers, Crash(s) PROVE QueryInv'
  BY <1>5, CrashQueries
<1>6. ASSUME NEW c \in Clients, Quit(c) PROVE QueryInv'
  BY <1>6, QuitQueries
<1>7. CASE UNCHANGED vars \/ \E s \in Servers : Restart(s)
  <2>1. /\ disk' = disk /\ threads' = threads /\ UNCHANGED client /\ UNCHANGED history
    BY <1>7 DEF Restart, vars, server
  <2>2. \A c \in Clients : Query(c)'
    BY <2>1, SameQuery DEF Inv, QueryInv, Queries, client, history
  <2>3. Undisturbed'
    BY <2>1, StillUndisturbed DEF Inv, QueryInv, client, history
  <2> QED BY <2>2, <2>3 DEF QueryInv, Queries
<1> QED BY <1>1, <1>2, <1>3, <1>4, <1>5, <1>6, <1>7
        DEF Next, Command, ClientStep, ThreadStep, Failure

LEMMA Invariance == Spec => []Inv
<1>1. Init => Inv
  BY TypeInit, DurableInit, PlaceInit, QueryInit DEF Inv
<1>2. Inv /\ [Next]_vars => Inv'
  BY TypeStep, DurableStep, PlaceStep, QueryStep DEF Inv
<1> QED BY <1>1, <1>2, PTL DEF Spec

-----------------------------------------------------------------------------
(* The theorems.                                                           *)

\* No schedule of the threads of any puts, no crash and no interruption leaves bytes of
\* a version on a server that the placement does not assign them to.
THEOREM EverythingIsHome == Spec => []Homed
<1>1. Inv => Homed
  BY PlaceMeans DEF Inv
<1> QED BY <1>1, Invariance, PTL

\* A settled file that nobody changes is called incomplete only by who found two
\* neighbouring servers unreachable, whatever else failed and came back meanwhile.
THEOREM IncompleteOnlyInOutages == Spec => []IncompleteMeansOutage
<1>1. Inv => IncompleteMeansOutage
  BY DEF Inv, QueryInv, Queries, Query, Outcome, IncompleteMeansOutage
<1> QED BY <1>1, Invariance, PTL

\* A get of it compiles that version and nothing else, if all versions before it
\* have the same homes.
THEOREM GetsWhatWasPut == Spec => []GetReturnsThePut
<1>1. Inv => GetReturnsThePut
  BY DEF Inv, QueryInv, Queries, Query, Outcome, GetReturnsThePut
<1> QED BY <1>1, Invariance, PTL

\* A client hangs only if a server failed or a put ran into its query.
THEOREM HangsOnlyForCause == Spec => []HangNeedsCause
<1>1. Inv => HangNeedsCause
  BY DEF Inv, QueryInv, Queries, Query, HangNeedsCause
<1> QED BY <1>1, Invariance, PTL

=============================================================================
