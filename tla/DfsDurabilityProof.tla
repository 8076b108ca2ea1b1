------------------------- MODULE DfsDurabilityProof -------------------------
(***************************************************************************)
(* A put that nothing disturbs is durable: once it has settled, every part *)
(* of it survives every outage that spares one of any two neighbouring     *)
(* servers.  The invariant behind it follows each copy of each part from   *)
(* the loop of the client through the server's thread to the disk.         *)
(***************************************************************************)
EXTENDS DfsProof

\* While a put is undisturbed, no other version is on its way to any server.
OneVersion ==
    settled # None =>
        /\ \A t \in threads : Stuck(t) \/ (t.of = settled /\ t.sent = Size[settled])
        /\ \A c \in Clients : pc[c] = "put" => of[c] = settled

\* The client's loop has not yet come to the step that sends part p to server s.
ToSend(s, p) ==
    \E c \in Clients, j \in PutSteps :
        /\ pc[c] = "put" /\ k[c] <= j
        /\ ServerAt(Offset[settled], j) = s /\ PartAt(j) = p

\* The part was sent and its thread has not yet opened the file.
Queued(s, p) == \E t \in threads : t.srv = s /\ t.part = p /\ t.pos = -1

\* Up to position n the file f holds the version v and nothing after it is longer.
HoldsTo(f, n, v) == f # None /\ n <= Len(f) /\ Len(f) <= Size[v] /\ \A i \in 1 .. n : f[i] = v

\* The thread that opened the file last is still writing it.
Written(s, p) ==
    \E t \in threads :
        /\ ~ Stuck(t) /\ t.srv = s /\ t.part = p /\ t.pos >= 0
        /\ HoldsTo(disk[s][p], t.pos, settled)

Stored(s, p) == HoldsTo(disk[s][p], Size[settled], settled)

\* Each copy is in one of the four stages.
InStages ==
    settled # None =>
        \A p \in Parts : \A s \in Homes(Offset[settled], p) :
            ToSend(s, p) \/ Queued(s, p) \/ Written(s, p) \/ Stored(s, p)

Durable == OneVersion /\ InStages

-----------------------------------------------------------------------------
(* Writing a chunk of the version keeps what the file holds of it.         *)

LEMMA WriteHolds ==
    ASSUME NEW f \in Seq(Chunks), NEW v \in Contents, NEW n \in Nat, NEW i \in Nat,
           i < Size[v], HoldsTo(f, n, v)
    PROVE  /\ HoldsTo(WriteAt(f, i + 1, v), n, v)
           /\ i = n => HoldsTo(WriteAt(f, i + 1, v), n + 1, v)
<1> DEFINE g == WriteAt(f, i + 1, v)
<1>1. Size[v] \in Nat /\ Len(f) \in Nat /\ i + 1 \in Nat \ {0}
  BY DfsAssumption, LenProperties
<1>2. /\ g \in Seq(Chunks) /\ g # None
      /\ Len(g) = IF Len(f) > i + 1 THEN Len(f) ELSE i + 1
      /\ g[i + 1] = v
      /\ \A j \in 1 .. Len(f) : j # i + 1 => g[j] = f[j]
  BY <1>1, WriteAtType, NoneIsNoFile, ZenonT(60)
<1> HIDE DEF g
<1>3. n <= Len(f) /\ Len(f) <= Size[v] /\ \A j \in 1 .. n : f[j] = v
  BY DEF HoldsTo
<1>4. Len(g) <= Size[v] /\ n <= Len(g) /\ (i = n => n + 1 <= Len(g))
  BY <1>1, <1>2, <1>3
<1>5. \A j \in 1 .. n : g[j] = v
  BY <1>1, <1>2, <1>3
<1>6. i = n => \A j \in 1 .. (n + 1) : g[j] = v
  BY <1>1, <1>2, <1>3, <1>5
<1> QED BY <1>2, <1>4, <1>5, <1>6 DEF HoldsTo, g

\* A file that holds all of a version is that version.
LEMMA StoredIsWhole ==
    ASSUME NEW f \in Seq(Chunks), NEW v \in Contents, HoldsTo(f, Size[v], v)
    PROVE  f = Whole(v)
<1>1. Whole(v) \in Seq(Chunks) /\ Len(Whole(v)) = Size[v] /\ Size[v] \in Nat
  BY WholeType
<1>2. Len(f) \in Nat /\ Len(f) = Size[v]
  BY <1>1, LenProperties DEF HoldsTo
<1>3. \A i \in 1 .. Len(f) : f[i] = Whole(v)[i]
  BY <1>2 DEF HoldsTo, Whole
<1> QED BY <1>1, <1>2, <1>3, SeqEqual

-----------------------------------------------------------------------------
LEMMA DurableInit == Init => Durable
BY DEF Init, Durable, OneVersion, InStages

\* Steps that leave the servers and every put alone.
LEMMA PutsUntouched ==
    ASSUME Durable, disk' = disk, threads' = threads, settled' = settled,
           \A c \in Clients : pc'[c] = "put" <=> pc[c] = "put",
           \A c \in Clients : pc[c] = "put" => k'[c] = k[c] /\ of'[c] = of[c]
    PROVE  Durable'
<1>1. OneVersion'
  BY DEF Durable, OneVersion, Stuck
<1>2. \A s, p : /\ ToSend(s, p) => ToSend(s, p)'
                /\ Queued(s, p) => Queued(s, p)'
                /\ Written(s, p) => Written(s, p)'
                /\ Stored(s, p) => Stored(s, p)'
  BY DEF ToSend, Queued, Written, Stored, HoldsTo, Stuck
<1>3. InStages'
  BY <1>2 DEF Durable, InStages
<1> QED BY <1>1, <1>3 DEF Durable

\* A step of a thread moves its own copy one stage on and no other copy back.
LEMMA ThreadKeepsStages ==
    ASSUME TypeInv, Durable, NEW t \in threads, ThreadOpen(t) \/ ThreadWrite(t)
    PROVE  Durable'
<1>1. /\ t \in Threads /\ ~ Stuck(t)
      /\ t.pos \in Nat \cup {-1} /\ t.sent \in Nat /\ t.of \in Contents
      /\ t.srv \in Servers /\ t.part \in Parts
  BY DEF TypeInv, TypeOK, Threads, ThreadOpen, ThreadWrite, Stuck
<1> DEFINE i == t.pos + 1
           u == [t EXCEPT !.pos = i]
<1>2. /\ threads' = Advance(t, i)
      /\ settled' = settled /\ pc' = pc /\ k' = k /\ of' = of /\ i \in Nat
  BY <1>1 DEF ThreadOpen, ThreadWrite, client, history
<1>3. /\ u.srv = t.srv /\ u.part = t.part /\ u.of = t.of /\ u.sent = t.sent /\ u.pos = i
      /\ threads' = (threads \ {t}) \cup (IF i = Size[t.of] THEN {} ELSE {u})
  BY <1>1, <1>2 DEF Threads, Advance
<1> HIDE DEF u
<1>4. ASSUME settled # None
      PROVE  settled \in Contents /\ t.of = settled /\ t.sent = Size[settled] /\ Size[settled] \in Nat
  BY <1>1, <1>4, DfsAssumption DEF Durable, OneVersion, TypeInv, TypeOK
<1>5. OneVersion'
  <2> SUFFICES ASSUME settled' # None
               PROVE  /\ \A x \in threads' : Stuck(x) \/ (x.of = settled' /\ x.sent = Size[settled'])
                      /\ \A c \in Clients : pc'[c] = "put" => of'[c] = settled'
    BY DEF OneVersion, Stuck
  <2>1. settled # None
    BY <1>2
  <2> QED BY <2>1, <1>2, <1>3, <1>4 DEF Durable, OneVersion
<1>6. ASSUME settled # None, NEW p \in Parts, NEW s \in Homes(Offset[settled], p)
      PROVE  (ToSend(s, p) \/ Queued(s, p) \/ Written(s, p) \/ Stored(s, p))'
  <2>1. ToSend(s, p) \/ Queued(s, p) \/ Written(s, p) \/ Stored(s, p)
    BY <1>6 DEF Durable, InStages
  <2>2. settled \in Contents /\ t.of = settled /\ t.sent = Size[settled] /\ Size[settled] \in Nat
    BY <1>4, <1>6
  <2>3. s \in Servers
    BY <2>2, HomesType, DfsAssumption
  <2>4. CASE ToSend(s, p)
    BY <1>2, <2>4 DEF ToSend
  <2>5. CASE t.srv = s /\ t.part = p /\ ThreadOpen(t)
    <3>1. disk'[s][p] = <<>> /\ i = 0
      BY <1>1, <2>3, <2>5 DEF ThreadOpen, TypeInv, TypeOK
    <3>2. HoldsTo(<<>>, 0, settled)
      <4>1. <<>> \in Seq(Chunks) /\ Len(<<>>) = 0 /\ 1 .. 0 = {}
        BY EmptySeq
      <4>2. <<>> # None
        BY <4>1, NoneIsNoFile
      <4> QED BY <2>2, <4>1, <4>2 DEF HoldsTo
    <3>3. CASE Size[settled] = 0
      BY <1>2, <3>1, <3>2, <3>3 DEF Stored
    <3>4. CASE Size[settled] # 0
      <4>1. u \in threads' /\ u.pos = 0 /\ ~ Stuck(u)
        BY <1>3, <2>2, <3>1, <3>4 DEF Stuck
      <4> QED BY <1>2, <1>3, <2>5, <3>1, <3>2, <4>1 DEF Written, Stuck
    <3> QED BY <3>3, <3>4
  <2>6. CASE t.srv = s /\ t.part = p /\ ThreadWrite(t) /\ (Written(s, p) \/ Stored(s, p))
    <3> DEFINE f == disk[s][p]
    <3>1. t.pos \in Nat /\ t.pos < Size[settled]
      BY <1>1, <2>2, <2>6 DEF ThreadWrite
    <3>2. f # None /\ f \in Seq(Chunks)
      BY <2>3, <2>6 DEF Written, Stored, HoldsTo, TypeInv, TypeOK, Files
    <3>3. disk'[s][p] = WriteAt(f, t.pos + 1, settled)
      BY <2>2, <2>3, <2>6 DEF ThreadWrite, TypeInv, TypeOK
    <3> HIDE DEF f
    <3>4. CASE Stored(s, p)
      <4>1. HoldsTo(f, Size[settled], settled)
        BY <3>4 DEF Stored, f
      <4>2. HoldsTo(WriteAt(f, t.pos + 1, settled), Size[settled], settled)
        BY <2>2, <3>1, <3>2, <4>1, WriteHolds
      <4> QED BY <1>2, <3>3, <4>2 DEF Stored
    <3>5. CASE Written(s, p)
      <4>1. PICK w \in threads : /\ ~ Stuck(w) /\ w.srv = s /\ w.part = p /\ w.pos >= 0
                                 /\ HoldsTo(f, w.pos, settled)
        BY <3>5 DEF Written, f
      <4>2. w.pos \in Nat
        BY <4>1 DEF TypeInv, TypeOK, Threads
      <4>3. CASE w # t
        <5>1. HoldsTo(disk'[s][p], w.pos, settled)
          BY <2>2, <3>1, <3>2, <3>3, <4>1, <4>2, WriteHolds
        <5>2. w \in threads'
          BY <1>3, <4>3
        <5> QED BY <1>2, <4>1, <5>1, <5>2 DEF Written, Stuck
      <4>4. CASE w = t
        <5>1. HoldsTo(disk'[s][p], i, settled)
          BY <2>2, <3>1, <3>2, <3>3, <4>1, <4>4, WriteHolds
        <5>2. CASE i = Size[settled]
          BY <1>2, <5>1, <5>2 DEF Stored
        <5>3. CASE i # Size[settled]
          <6>1. u \in threads' /\ ~ Stuck(u) /\ u.pos >= 0
            BY <1>2, <1>3, <2>2, <3>1, <5>3 DEF Stuck
          <6> QED BY <1>2, <1>3, <2>6, <5>1, <6>1 DEF Written, Stuck
        <5> QED BY <5>2, <5>3
      <4> QED BY <4>3, <4>4
    <3> QED BY <2>6, <3>4, <3>5
  <2>7. CASE Queued(s, p) /\ ~ (t.srv = s /\ t.part = p /\ ThreadOpen(t))
    <3>1. PICK w \in threads : w.srv = s /\ w.part = p /\ w.pos = -1
      BY <2>7 DEF Queued
    <3>2. w # t
      BY <1>1, <2>7, <3>1 DEF ThreadWrite
    <3> QED BY <1>3, <3>1, <3>2 DEF Queued
  <2>8. CASE ~ (t.srv = s /\ t.part = p) /\ (Written(s, p) \/ Stored(s, p))
    <3>1. disk'[s][p] = disk[s][p]
      BY <1>1, <2>3, <2>8 DEF ThreadOpen, ThreadWrite, TypeInv, TypeOK
    <3>2. CASE Stored(s, p)
      BY <1>2, <3>1, <3>2 DEF Stored, HoldsTo
    <3>3. CASE Written(s, p)
      <4>1. PICK w \in threads : /\ ~ Stuck(w) /\ w.srv = s /\ w.part = p /\ w.pos >= 0
                                 /\ HoldsTo(disk[s][p], w.pos, settled)
        BY <3>3 DEF Written
      <4>2. w \in threads'
        BY <1>3, <2>8, <4>1
      <4> QED BY <1>2, <3>1, <4>1, <4>2 DEF Written, HoldsTo, Stuck
    <3> QED BY <2>8, <3>2, <3>3
  <2> QED BY <2>1, <2>4, <2>5, <2>6, <2>7, <2>8
<1>7. InStages'
  <2> SUFFICES ASSUME settled' # None, NEW p \in Parts, NEW s \in Homes(Offset[settled'], p)
               PROVE  (ToSend(s, p) \/ Queued(s, p) \/ Written(s, p) \/ Stored(s, p))'
    BY DEF InStages
  <2> QED BY <1>2, <1>6
<1> QED BY <1>5, <1>7 DEF Durable

\* When nothing is under way and no version is undisturbed by default, a put of v
\* starts with every copy still to be sent.
LEMMA StartKeepsStages ==
    ASSUME TypeInv, Durable, NEW c \in Clients, NEW v \in Contents, StartPut(c, v)
    PROVE  Durable'
<1>1. /\ pc[c] = "idle" /\ disk' = disk /\ threads' = threads
      /\ pc' = [pc EXCEPT ![c] = "put"] /\ k' = [k EXCEPT ![c] = 0]
      /\ of' = [of EXCEPT ![c] = v]
      /\ settled' = IF Quiet \/ settled = v THEN v ELSE None
  BY DEF StartPut, server
<1>2. /\ pc'[c] = "put" /\ k'[c] = 0 /\ of'[c] = v
      /\ \A d \in Clients : d # c => pc'[d] = pc[d] /\ k'[d] = k[d] /\ of'[d] = of[d]
  BY <1>1 DEF TypeInv, TypeOK
<1>3. v # None
  BY DfsAssumption
<1>4. CASE settled' = None
  BY <1>4 DEF Durable, OneVersion, InStages
<1>5. CASE settled' = v
  <2>1. OneVersion'
    <3>1. CASE Quiet
      BY <1>1, <1>2, <1>5, <3>1 DEF OneVersion, Quiet, Stuck
    <3>2. CASE settled = v
      BY <1>1, <1>2, <1>3, <1>5, <3>2 DEF Durable, OneVersion, Stuck
    <3> QED BY <1>1, <1>3, <1>5, <3>1, <3>2
  <2>2. ASSUME NEW p \in Parts, NEW s \in Homes(Offset[v], p)
        PROVE  ToSend(s, p)'
    <3>1. Offset[v] \in Servers
      BY DfsAssumption
    <3>2. PICK j \in PutSteps : ServerAt(Offset[v], j) = s /\ PartAt(j) = p
      BY <3>1, EveryHomeSent
    <3>3. 0 <= j
      BY DEF PutSteps
    <3> QED BY <1>2, <1>5, <3>2, <3>3 DEF ToSend
  <2>3. InStages'
    BY <1>5, <2>2 DEF InStages
  <2> QED BY <2>1, <2>3 DEF Durable
<1> QED BY <1>1, <1>4, <1>5

\* Sending a part queues it and goes on to the next step of the loop.
LEMMA SendKeepsStages ==
    ASSUME TypeInv, Durable, NEW c \in Clients, SendPart(c)
    PROVE  Durable'
<1> DEFINE here == ServerAt(Offset[of[c]], k[c])
           w == Upload(c, Size[of[c]])
<1>1. /\ pc[c] = "put" /\ of[c] \in Contents /\ k[c] \in Int
      /\ of' = of /\ disk' = disk
  BY DEF SendPart, TypeInv, TypeOK, PutKnows
<1>2. CASE ~ up[here]
  BY <1>2 DEF SendPart, Durable, OneVersion, InStages
<1>3. CASE up[here] /\ settled = None
  BY <1>3 DEF SendPart, Durable, OneVersion, InStages
<1>4. CASE up[here] /\ settled # None
  <2>1. threads' = threads \cup {w} /\ settled' = settled
    BY <1>4 DEF SendPart
  <2>2. /\ w.srv = here /\ w.part = PartAt(k[c]) /\ w.pos = -1
        /\ w.of = of[c] /\ w.sent = Size[of[c]]
    BY DEF Upload
  <2>3. of[c] = settled
    BY <1>1, <1>4 DEF Durable, OneVersion
  <2> HIDE DEF w
  <2>4. \A d \in Clients : pc'[d] = "put" => pc[d] = "put"
    BY DEF SendPart, TypeInv, TypeOK
  <2>5. OneVersion'
    BY <1>1, <1>4, <2>1, <2>2, <2>3, <2>4 DEF Durable, OneVersion, Stuck
  <2>6. ASSUME NEW p \in Parts, NEW s \in Homes(Offset[settled], p)
        PROVE  (ToSend(s, p) \/ Queued(s, p) \/ Written(s, p) \/ Stored(s, p))'
    <3>1. ToSend(s, p) \/ Queued(s, p) \/ Written(s, p) \/ Stored(s, p)
      BY <1>4 DEF Durable, InStages
    <3>2. CASE ToSend(s, p)
      <4>1. PICK d \in Clients, j \in PutSteps :
                 /\ pc[d] = "put" /\ k[d] <= j
                 /\ ServerAt(Offset[settled], j) = s /\ PartAt(j) = p
        BY <3>2 DEF ToSend
      <4>2. CASE d = c /\ j = k[c]
        BY <2>1, <2>2, <2>3, <4>1, <4>2 DEF Queued
      <4>3. CASE d = c /\ j # k[c]
        <5>1. k[c] + 1 \in PutSteps /\ k[c] + 1 <= j
          BY <1>1, <4>1, <4>3, NAssumption DEF PutSteps, TypeInv, TypeOK
        <5>2. pc'[c] = "put" /\ k'[c] = k[c] + 1
          BY <1>1, <5>1 DEF SendPart, TypeInv, TypeOK
        <5> QED BY <2>1, <4>1, <5>1, <5>2 DEF ToSend
      <4>4. CASE d # c
        <5>1. pc'[d] = "put" /\ k'[d] = k[d]
          BY <4>1, <4>4 DEF SendPart, TypeInv, TypeOK
        <5> QED BY <2>1, <4>1, <5>1 DEF ToSend
      <4> QED BY <4>2, <4>3, <4>4
    <3>3. CASE Queued(s, p)
      BY <2>1, <3>3 DEF Queued
    <3>4. CASE Written(s, p)
      BY <1>1, <2>1, <3>4 DEF Written, HoldsTo, Stuck
    <3>5. CASE Stored(s, p)
      BY <1>1, <2>1, <3>5 DEF Stored, HoldsTo
    <3> QED BY <3>1, <3>2, <3>3, <3>4, <3>5
  <2>7. InStages'
    BY <2>1, <2>6 DEF InStages
  <2> QED BY <2>5, <2>7 DEF Durable
<1> QED BY <1>2, <1>3, <1>4

\* A crash either takes a thread with work to do, and then the put is disturbed, or
\* takes only threads that would never have written again.
LEMMA CrashKeepsStages ==
    ASSUME TypeInv, Durable, NEW r \in Servers, Crash(r)
    PROVE  Durable'
<1>1. /\ disk' = disk /\ pc' = pc /\ k' = k /\ of' = of
      /\ threads' = {t \in threads : t.srv # r}
      /\ settled' = IF \E t \in threads : t.srv = r /\ ~ Stuck(t) THEN None ELSE settled
  BY DEF Crash
<1>2. CASE settled' = None
  BY <1>2 DEF Durable, OneVersion, InStages
<1>3. CASE settled' # None
  <2>1. settled' = settled /\ \A t \in threads : t.srv = r => Stuck(t)
    BY <1>1, <1>3
  <2>2. \A t \in threads : ~ Stuck(t) => t \in threads'
    BY <1>1, <2>1
  <2>3. \A t \in threads : t.pos = -1 => ~ Stuck(t)
    BY DEF TypeInv, TypeOK, Threads, Stuck
  <2>4. OneVersion'
    BY <1>1, <2>1 DEF Durable, OneVersion, Stuck
  <2>5. \A s, p : /\ ToSend(s, p) => ToSend(s, p)'
                  /\ Queued(s, p) => Queued(s, p)'
                  /\ Written(s, p) => Written(s, p)'
                  /\ Stored(s, p) => Stored(s, p)'
    BY <1>1, <2>1, <2>2, <2>3 DEF ToSend, Queued, Written, Stored, HoldsTo, Stuck
  <2>6. InStages'
    BY <2>1, <2>5 DEF Durable, InStages
  <2> QED BY <2>4, <2>6 DEF Durable
<1> QED BY <1>2, <1>3

LEMMA QuitKeepsStages ==
    ASSUME TypeInv, Durable, NEW c \in Clients, Quit(c)
    PROVE  Durable'
<1>1. CASE pc[c] = "put"
  BY <1>1 DEF Quit, Durable, OneVersion, InStages
<1>2. CASE pc[c] # "put"
  <2>1. /\ disk' = disk /\ threads' = threads /\ settled' = settled /\ of' = of
        /\ pc' = [pc EXCEPT ![c] = "idle"] /\ k' = [k EXCEPT ![c] = 0]
    BY <1>2 DEF Quit, Return
  <2> QED BY <1>2, <2>1, PutsUntouched DEF TypeInv, TypeOK
<1> QED BY <1>1, <1>2

LEMMA DurableStep == TypeInv /\ Durable /\ [Next]_vars => Durable'
<1> SUFFICES ASSUME TypeInv, Durable, [Next]_vars PROVE Durable'
  OBVIOUS
<1> USE DEF TypeInv, TypeOK
<1>1. ASSUME NEW c \in Clients, NEW v \in Contents, StartPut(c, v) PROVE Durable'
  BY <1>1, StartKeepsStages
<1>2. ASSUME NEW c \in Clients, SendPart(c) PROVE Durable'
  BY <1>2, SendKeepsStages
<1>3. ASSUME NEW c \in Clients, NEW q \in {"list", "get"}, StartQuery(c, q) PROVE Durable'
  BY <1>3, PutsUntouched DEF StartQuery, server
<1>4. ASSUME NEW c \in Clients, Ask(c) PROVE Durable'
  BY <1>4, PutsUntouched DEF Ask, server
<1>5. ASSUME NEW c \in Clients, PrintList(c) PROVE Durable'
  BY <1>5, PutsUntouched DEF PrintList, Return, server, history
<1>6. ASSUME NEW c \in Clients, FetchPiece(c) PROVE Durable'
  BY <1>6, PutsUntouched DEF FetchPiece, server
<1>7. ASSUME NEW c \in Clients, RecvPiece(c) PROVE Durable'
  BY <1>7, PutsUntouched DEF RecvPiece, server, history
<1>8. ASSUME NEW c \in Clients, LosePeer(c) PROVE Durable'
  BY <1>8, PutsUntouched DEF LosePeer, server
<1>9. ASSUME NEW c \in Clients, CompileGet(c) PROVE Durable'
  BY <1>9, PutsUntouched DEF CompileGet, Return, server, history
<1>10. ASSUME NEW t \in threads, ThreadOpen(t) \/ ThreadWrite(t) PROVE Durable'
  BY <1>10, ThreadKeepsStages
<1>11. ASSUME NEW s \in Servers, Crash(s) PROVE Durable'
  BY <1>11, CrashKeepsStages
<1>12. ASSUME NEW s \in Servers, Restart(s) PROVE Durable'
  BY <1>12, PutsUntouched DEF Restart, client, history
<1>13. ASSUME NEW c \in Clients, Quit(c) PROVE Durable'
  BY <1>13, QuitKeepsStages
<1>14. CASE UNCHANGED vars
  BY <1>14, PutsUntouched DEF vars, server, client, history
<1> QED BY <1>1, <1>2, <1>3, <1>4, <1>5, <1>6, <1>7, <1>8, <1>9, <1>10, <1>11, <1>12, <1>13,
           <1>14 DEF Next, Command, ClientStep, ThreadStep, Failure

\* In a quiet state only the last stage is left.
LEMMA SettledIsStored ==
    ASSUME TypeInv, Durable, settled # None, Quiet,
           NEW p \in Parts, NEW s \in Homes(Offset[settled], p)
    PROVE  disk[s][p] = Whole(settled)
<1>1. settled \in Contents /\ s \in Servers
  BY DfsAssumption, HomesType DEF TypeInv, TypeOK
<1>2. ~ ToSend(s, p) /\ ~ Queued(s, p) /\ ~ Written(s, p)
  BY DEF Quiet, ToSend, Queued, Written, Stuck, TypeInv, TypeOK, Threads
<1>3. Stored(s, p)
  BY <1>2 DEF Durable, InStages
<1>4. disk[s][p] \in Seq(Chunks)
  BY <1>1, <1>3 DEF Stored, HoldsTo, TypeInv, TypeOK, Files
<1> QED BY <1>1, <1>3, <1>4, StoredIsWhole DEF Stored

LEMMA DurableMeans == TypeInv /\ Durable => SurvivesOutages
<1> SUFFICES ASSUME TypeInv, Durable, settled # None, Quiet,
                    NEW down \in SUBSET Servers, NoNeighbours(down), NEW p \in Parts
             PROVE  \E s \in Servers \ down : disk[s][p] = Whole(settled)
  BY DEF SurvivesOutages
<1>1. Offset[settled] \in Servers
  BY DfsAssumption DEF TypeInv, TypeOK
<1>2. PICK s \in Homes(Offset[settled], p) : s \in Servers \ down
  BY <1>1, SomeHomeUp
<1> QED BY <1>2, SettledIsStored

\* A settled put survives every outage that spares one of any two neighbours: for
\* every number of servers, clients, versions and chunks, and every schedule of the
\* threads, whatever failed before the put began and whatever the disks held.
THEOREM SettledPutSurvives == Spec => []SurvivesOutages
<1>1. Init => TypeInv /\ Durable
  BY TypeInit, DurableInit
<1>2. (TypeInv /\ Durable) /\ [Next]_vars => (TypeInv /\ Durable)'
  BY TypeStep, DurableStep
<1>3. TypeInv /\ Durable => SurvivesOutages
  BY DurableMeans
<1> QED BY <1>1, <1>2, <1>3, PTL DEF Spec

=============================================================================
