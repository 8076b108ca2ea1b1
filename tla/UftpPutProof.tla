---------------------------- MODULE UftpPutProof ----------------------------
(***************************************************************************)
(* Proofs about UftpPut, for every content length, number of puts, faults, *)
(* interruptions and stops, and whether or not time limits are long        *)
(* enough.  The argument is about order: the network is two queues, so     *)
(* what a queue still holds tells what the other side has seen.            *)
(***************************************************************************)
EXTENDS UftpPut, SequenceTheorems, TLAPS

Running == pc # "idle"
Sending == pc \in {"data", "catchup"}
Open == spc \in {"recv", "closing"}

Items(q) == {q[k] : k \in 1 .. Len(q)}

\* Every two packets of q, in their order, are in R.
InOrder(q, R) == \A j, k \in 1 .. Len(q) : j < k => <<q[j], q[k]>> \in R

\* Puts come one after the other, and data after the last probe.
Following ==
    {r \in ClientPackets \X ClientPackets :
        /\ r[1].t <= r[2].t
        /\ r[1].t = r[2].t /\ r[2].kind = "probe" => r[1].kind # "data"}

NoProbeAfterAck == {r \in Answers \X Answers : r[1].kind = "ack" => r[2].kind # "probe"}
NoAckAfterProbe == {r \in Answers \X Answers : r[1].kind = "probe" => r[2].kind # "ack"}

\* A FILE is left open only once the server's file exists.
LeftoversHaveFile == leaked # <<>> => disk \in Seq(Chunks)

\* The session of the current put has n packets, or lost them in a kill.
Reached(n) ==
    /\ sess = num
    /\ \/ spc = "recv" /\ n <= si
       \/ spc = "closing"
       \/ spc \in {"main", "down"} /\ (torn = num \/ disk = Whole(sending))

\* The server has taken every probe of the current put and all that came before.
PastProbes == \A x \in Items(toServer) : x.t = num /\ x.kind # "probe"

NoProbeHeld == \A x \in Items(toClient) : x.kind # "probe"

Order ==
    /\ InOrder(toServer, Following)
    /\ Sending => InOrder(toClient, NoProbeAfterAck)
    /\ ~ Sending => InOrder(toClient, NoAckAfterProbe)

\* Once this client process has heard anything, no older packet is under way.
Stamps ==
    /\ 1 <= since /\ since <= num + 1
    /\ Running => since <= num
    /\ torn <= sess /\ sess <= num
    /\ Open => sess > 0
    /\ \A x \in Items(toServer) :
          /\ sess <= x.t /\ x.t <= num
          /\ x.kind \in {"probe", "data"} => 0 < x.t
          /\ x.kind = "exit" => x.t < since
    /\ \A x \in Items(toClient) : since <= x.t /\ x.t <= num
    /\ Items(toClient) # {} \/ since < num \/ (since = num /\ pc # "probe") =>
          \A x \in Items(toServer) : since <= x.t

\* What is under way of the current put, and of earlier ones.
Flight ==
    \A x \in Items(toServer) :
        /\ Running /\ x.t = num =>
             /\ x.kind = "probe" => x.no = Packets[sending]
             /\ x.kind = "data" => Sending /\ x.no <= i /\ x.of = sending
        /\ x.t < num \/ ~ Running =>
             /\ x.kind = "probe" /\ (quits = 0 \/ since <= x.t) => x.no = 0
             /\ x.kind = "data" /\ since <= x.t => spc # "recv"

\* What recv_file has of the session that opened the file.
Session ==
    /\ Open => total > 0
    /\ spc = "closing" => si = total
    /\ Running /\ Open /\ sess = num =>
          total = Packets[sending] /\ stream = SubSeq(Whole(sending), 1, si)
    /\ pc = "probe" /\ Open /\ sess = num => si = 0
    /\ spc = "recv" /\ si > 0 => \A x \in Items(toServer) : x.t = sess => x.kind # "probe"
    /\ spc = "recv" /\ si = 0 => stream = <<>>
    /\ spc = "recv" /\ quits = 0 => Running /\ sess = num

\* What the client has heard, and is about to hear.
Hearing ==
    /\ Sending =>
          /\ i < Packets[sending]
          /\ Open => sess = num
          /\ \A x \in Items(toClient) : x.kind = "ack" => x.t = num
    /\ Sending /\ i > 0 => Reached(i) /\ PastProbes /\ NoProbeHeld
    /\ Running => \A x \in Items(toClient) :
          x.kind = "ack" /\ x.t = num => Sending /\ Reached(x.no + 1) /\ PastProbes
    /\ ~ NoProbeHeld =>
          IF Running THEN Open => sess = num ELSE ~ Open

Kept ==
    kept # None =>
        /\ file = Whole(kept)
        /\ spc # "recv"
        /\ Running => Packets[sending] = 0
        /\ \A x \in Items(toServer) : x.kind = "probe" => x.no = 0

Inv ==
    /\ TypeOK /\ LeftoversHaveFile
    /\ Order /\ Stamps /\ Flight /\ Session /\ Hearing /\ Kept
    /\ LeftoversNeedQuit

-----------------------------------------------------------------------------
(* The two queues.                                                         *)

LEMMA Constants ==
    /\ \A c \in Contents : Packets[c] \in Nat /\ c # None
    /\ Buffered \in Nat /\ MaxFaults \in Nat
BY UftpAssumption

LEMMA ItemsOfAppend ==
    ASSUME NEW S, NEW q \in Seq(S), NEW x \in S
    PROVE  /\ Append(q, x) \in Seq(S)
           /\ Items(Append(q, x)) = Items(q) \cup {x}
           /\ \A R : InOrder(q, R) /\ (\A y \in Items(q) : <<y, x>> \in R) => InOrder(Append(q, x), R)
<1> DEFINE r == Append(q, x)
<1>1. /\ r \in Seq(S) /\ Len(r) = Len(q) + 1 /\ Len(q) \in Nat
      /\ r[Len(q) + 1] = x
      /\ \A k \in 1 .. Len(q) : r[k] = q[k]
  BY AppendProperties, LenProperties
<1> HIDE DEF r
<1>2. \A k \in 1 .. Len(r) : k \in 1 .. Len(q) \/ k = Len(q) + 1
  BY <1>1
<1>3. Items(r) = Items(q) \cup {x}
  <2>1. Items(r) \subseteq Items(q) \cup {x}
    BY <1>1, <1>2 DEF Items
  <2>2. Items(q) \subseteq Items(r) /\ x \in Items(r)
    BY <1>1 DEF Items
  <2> QED BY <2>1, <2>2
<1>4. ASSUME NEW R, InOrder(q, R), \A y \in Items(q) : <<y, x>> \in R,
             NEW j \in 1 .. Len(r), NEW k \in 1 .. Len(r), j < k
      PROVE  <<r[j], r[k]>> \in R
  <2>1. j \in 1 .. Len(q) /\ r[j] = q[j] /\ q[j] \in Items(q)
    BY <1>1, <1>4 DEF Items
  <2>2. CASE k \in 1 .. Len(q)
    BY <1>1, <1>4, <2>1, <2>2 DEF InOrder
  <2>3. CASE k = Len(q) + 1
    BY <1>1, <1>4, <2>1, <2>3
  <2> QED BY <1>2, <2>2, <2>3
<1> QED BY <1>1, <1>3, <1>4 DEF InOrder, r

LEMMA ItemsOfTail ==
    ASSUME NEW S, NEW q \in Seq(S), q # <<>>
    PROVE  /\ Tail(q) \in Seq(S) /\ Head(q) \in S /\ Head(q) \in Items(q)
           /\ Items(Tail(q)) \subseteq Items(q)
           /\ \A R : InOrder(q, R) =>
                 InOrder(Tail(q), R) /\ \A y \in Items(Tail(q)) : <<Head(q), y>> \in R
<1> DEFINE r == Tail(q)
<1>1. /\ r \in Seq(S) /\ Len(r) = Len(q) - 1 /\ Len(q) \in Nat \ {0} /\ Head(q) = q[1]
      /\ \A k \in 1 .. Len(r) : r[k] = q[k + 1]
      /\ Head(q) \in S
  BY HeadTailProperties, EmptySeq, LenProperties
<1> HIDE DEF r
<1>2. 1 \in 1 .. Len(q) /\ \A k \in 1 .. Len(r) : k + 1 \in 1 .. Len(q) /\ 1 < k + 1
  BY <1>1
<1>3. Items(r) \subseteq Items(q) /\ Head(q) \in Items(q)
  BY <1>1, <1>2 DEF Items
<1>4. ASSUME NEW R, InOrder(q, R)
      PROVE  InOrder(r, R) /\ \A y \in Items(r) : <<Head(q), y>> \in R
  <2>1. \A y \in Items(r) : <<Head(q), y>> \in R
    BY <1>1, <1>2, <1>4 DEF InOrder, Items
  <2>2. ASSUME NEW j \in 1 .. Len(r), NEW k \in 1 .. Len(r), j < k
        PROVE  <<r[j], r[k]>> \in R
    <3>1. j + 1 < k + 1
      BY <2>2
    <3> QED BY <1>1, <1>2, <1>4, <3>1 DEF InOrder
  <2> QED BY <2>1, <2>2 DEF InOrder
<1> QED BY <1>1, <1>3, <1>4 DEF r

LEMMA ItemsOfSeq ==
    ASSUME NEW S, NEW q \in Seq(S)
    PROVE  Items(q) \subseteq S /\ (q = <<>> <=> Items(q) = {})
<1>1. Len(q) \in Nat /\ (\A k \in 1 .. Len(q) : q[k] \in S)
  BY LenProperties, ElementOfSeq
<1>2. q = <<>> => Items(q) = {}
  BY DEF Items
<1>3. q # <<>> => q[1] \in Items(q)
  <2>1. q # <<>> => 1 \in 1 .. Len(q)
    BY <1>1, EmptySeq
  <2> QED BY <2>1 DEF Items
<1> QED BY <1>1, <1>2, <1>3 DEF Items

LEMMA EmptyOrder == Items(<<>>) = {} /\ \A R : InOrder(<<>>, R)
BY DEF Items, InOrder

\* What sending p does to a queue.
LEMMA AfterGrows ==
    ASSUME NEW S, NEW q \in Seq(S), NEW p \in S, Garbled(p) \in S, NEW r \in After(q, p)
    PROVE  /\ r \in Seq(S) /\ Items(r) \subseteq Items(q) \cup {p, Garbled(p)}
           /\ \A R : InOrder(q, R) /\ (\A y \in Items(q) : <<y, p>> \in R /\ <<y, Garbled(p)>> \in R)
                        => InOrder(r, R)
<1>1. r = q \/ r = Append(q, p) \/ r = Append(q, Garbled(p))
  BY DEF After
<1>2. CASE r = q
  BY <1>2
<1>3. CASE r = Append(q, p)
  <2>1. /\ Append(q, p) \in Seq(S)
        /\ Items(Append(q, p)) = Items(q) \cup {p}
        /\ \A R : InOrder(q, R) /\ (\A y \in Items(q) : <<y, p>> \in R) => InOrder(Append(q, p), R)
    BY ItemsOfAppend
  <2> QED BY <1>3, <2>1
<1>4. CASE r = Append(q, Garbled(p))
  <2>1. /\ Append(q, Garbled(p)) \in Seq(S)
        /\ Items(Append(q, Garbled(p))) = Items(q) \cup {Garbled(p)}
        /\ \A R : InOrder(q, R) /\ (\A y \in Items(q) : <<y, Garbled(p)>> \in R) => InOrder(Append(q, Garbled(p)), R)
    BY ItemsOfAppend
  <2> QED BY <1>4, <2>1
<1> QED BY <1>1, <1>2, <1>3, <1>4

LEMMA GarbledPacket ==
    /\ \A p \in ClientPackets : Garbled(p) \in ClientPackets /\ Garbled(p).t = p.t /\ Garbled(p).kind = "bad"
    /\ \A p \in Answers : Garbled(p) \in Answers /\ Garbled(p).t = p.t /\ Garbled(p).kind = "bad"
BY DEF Garbled, ClientPackets, Answers

LEMMA Sent ==
    ASSUME toServer \in Seq(ClientPackets), faults \in Nat, NEW p \in ClientPackets, Send(p)
    PROVE  /\ toServer' \in Seq(ClientPackets) /\ faults' \in Nat
           /\ Items(toServer') \subseteq Items(toServer) \cup {p, Garbled(p)}
           /\ InOrder(toServer, Following) /\
                (\A y \in Items(toServer) : y.t <= p.t /\ (y.t = p.t /\ p.kind = "probe" => y.kind # "data"))
                   => InOrder(toServer', Following)
<1>1. Garbled(p) \in ClientPackets /\ Garbled(p).t = p.t /\ Garbled(p).kind = "bad"
  BY GarbledPacket
<1>2. toServer' \in After(toServer, p) /\ faults' \in Nat
  BY DEF Send
<1>3. Items(toServer) \subseteq ClientPackets
  BY ItemsOfSeq
<1>4. ASSUME \A y \in Items(toServer) : y.t <= p.t /\ (y.t = p.t /\ p.kind = "probe" => y.kind # "data")
      PROVE  \A y \in Items(toServer) : <<y, p>> \in Following /\ <<y, Garbled(p)>> \in Following
  BY <1>1, <1>3, <1>4 DEF Following
<1> QED BY <1>1, <1>2, <1>4, AfterGrows

\* A reply is heard by the client process that is still there.
LEMMA Replied ==
    ASSUME toClient \in Seq(Answers), faults \in Nat, since \in Nat,
           NEW p \in ClientPackets, NEW kind \in {"probe", "ack"}, NEW n \in Nat, Reply(p, kind, n)
    PROVE  /\ toClient' \in Seq(Answers) /\ faults' \in Nat
           /\ p.t < since => toClient' = toClient
           /\ ~ (p.t < since) =>
                 /\ \A x \in Items(toClient') :
                       \/ x \in Items(toClient)
                       \/ x.t = p.t /\ x.kind = kind /\ x.no = n
                       \/ x.t = p.t /\ x.kind = "bad"
                 /\ InOrder(toClient, NoAckAfterProbe) /\ (kind = "ack" => \A y \in Items(toClient) : y.kind # "probe")
                       => InOrder(toClient', NoAckAfterProbe)
                 /\ InOrder(toClient, NoProbeAfterAck) /\ (kind = "probe" => \A y \in Items(toClient) : y.kind # "ack")
                       => InOrder(toClient', NoProbeAfterAck)
<1> DEFINE a == Answer(p.t, kind, n)
<1>1. a \in Answers /\ a.t = p.t /\ a.kind = kind /\ a.no = n
  BY DEF ClientPackets, Answer, Answers
<1>2. Garbled(a) \in Answers /\ Garbled(a).t = a.t /\ Garbled(a).kind = "bad"
  BY <1>1, GarbledPacket
<1>3. CASE p.t < since
  BY <1>3 DEF Reply
<1>4. CASE ~ (p.t < since)
  <2>1. toClient' \in After(toClient, a) /\ faults' \in Nat
    BY <1>4 DEF Reply
  <2> HIDE DEF a
  <2>2. Items(toClient) \subseteq Answers
    BY ItemsOfSeq
  <2>3. toClient' \in Seq(Answers) /\ Items(toClient') \subseteq Items(toClient) \cup {a, Garbled(a)}
    BY <1>1, <1>2, <2>1, AfterGrows
  <2>4. ASSUME InOrder(toClient, NoAckAfterProbe), kind = "ack" => \A y \in Items(toClient) : y.kind # "probe"
        PROVE  InOrder(toClient', NoAckAfterProbe)
    <3>1. \A y \in Items(toClient) : <<y, a>> \in NoAckAfterProbe /\ <<y, Garbled(a)>> \in NoAckAfterProbe
      BY <1>1, <1>2, <2>2, <2>4 DEF NoAckAfterProbe
    <3> QED BY <1>1, <1>2, <2>1, <2>4, <3>1, AfterGrows
  <2>5. ASSUME InOrder(toClient, NoProbeAfterAck), kind = "probe" => \A y \in Items(toClient) : y.kind # "ack"
        PROVE  InOrder(toClient', NoProbeAfterAck)
    <3>1. \A y \in Items(toClient) : <<y, a>> \in NoProbeAfterAck /\ <<y, Garbled(a)>> \in NoProbeAfterAck
      BY <1>1, <1>2, <2>2, <2>5 DEF NoProbeAfterAck
    <3> QED BY <1>1, <1>2, <2>1, <2>5, <3>1, AfterGrows
  <2> QED BY <1>1, <1>2, <1>4, <2>1, <2>3, <2>4, <2>5
<1> QED BY <1>3, <1>4

LEMMA PacketTypes ==
    ASSUME NEW t \in Nat, NEW c \in Contents, NEW n \in Nat
    PROVE  /\ Probe(t, c) \in ClientPackets /\ Data(t, c, n) \in ClientPackets
           /\ Exit(t) \in ClientPackets
BY Constants DEF Probe, Data, Exit, ClientPackets

LEMMA HeardFacts ==
    ASSUME TypeOK, NEW kinds, Hears(kinds)
    PROVE  /\ toClient' \in Seq(Answers) /\ Items(toClient') \subseteq Items(toClient)
           /\ Heard \in Items(toClient) /\ Heard \in Answers /\ Heard.kind \in kinds
           /\ InOrder(toClient, NoProbeAfterAck) =>
                 /\ InOrder(toClient', NoProbeAfterAck)
                 /\ Heard.kind = "ack" => \A y \in Items(toClient') : y.kind # "probe"
           /\ InOrder(toClient, NoAckAfterProbe) =>
                 /\ InOrder(toClient', NoAckAfterProbe)
                 /\ Heard.kind = "probe" => \A y \in Items(toClient') : y.kind # "ack"
           /\ UNCHANGED <<num, since, server, torn, quits, stops>>
<1>1. toClient \in Seq(Answers) /\ toClient # <<>> /\ toClient' = Tail(toClient) /\ Heard = Head(toClient)
  BY DEF Hears, Heard, TypeOK
<1>2. /\ toClient' \in Seq(Answers) /\ Heard \in Answers /\ Heard \in Items(toClient)
      /\ Items(toClient') \subseteq Items(toClient)
      /\ \A R : InOrder(toClient, R) =>
            InOrder(toClient', R) /\ \A y \in Items(toClient') : <<Heard, y>> \in R
  BY <1>1, ItemsOfTail
<1>3. \A y : <<Heard, y>> \in NoProbeAfterAck => (Heard.kind = "ack" => y.kind # "probe")
  BY DEF NoProbeAfterAck
<1>4. \A y : <<Heard, y>> \in NoAckAfterProbe => (Heard.kind = "probe" => y.kind # "ack")
  BY DEF NoAckAfterProbe
<1> QED BY <1>2, <1>3, <1>4 DEF Hears

LEMMA GotFacts ==
    ASSUME TypeOK, NEW kinds, Gets(kinds)
    PROVE  /\ toServer' \in Seq(ClientPackets) /\ Items(toServer') \subseteq Items(toServer)
           /\ Got \in Items(toServer) /\ Got \in ClientPackets /\ Got.kind \in kinds
           /\ InOrder(toServer, Following) =>
                 /\ InOrder(toServer', Following)
                 /\ \A y \in Items(toServer') :
                       Got.t <= y.t /\ (Got.t = y.t /\ y.kind = "probe" => Got.kind # "data")
           /\ UNCHANGED <<client, kept, torn, quits, stops>>
<1>1. toServer \in Seq(ClientPackets) /\ toServer # <<>> /\ toServer' = Tail(toServer) /\ Got = Head(toServer)
  BY DEF Gets, Got, TypeOK
<1>2. /\ toServer' \in Seq(ClientPackets) /\ Got \in ClientPackets /\ Got \in Items(toServer)
      /\ Items(toServer') \subseteq Items(toServer)
      /\ \A R : InOrder(toServer, R) =>
            InOrder(toServer', R) /\ \A y \in Items(toServer') : <<Got, y>> \in R
  BY <1>1, ItemsOfTail
<1>3. \A y : <<Got, y>> \in Following =>
          Got.t <= y.t /\ (Got.t = y.t /\ y.kind = "probe" => Got.kind # "data")
  BY DEF Following
<1> QED BY <1>2, <1>3 DEF Gets

LEMMA Took ==
    ASSUME NEW S, NEW q \in Seq(S), q # <<>>
    PROVE  Tail(q) \in Seq(S) /\ Head(q) \in S
BY HeadTailProperties, EmptySeq

-----------------------------------------------------------------------------
(* Types.                                                                  *)

LEMMA FlushedType ==
    ASSUME NEW f \in Seq(Chunks), NEW m \in 0 .. Len(f)
    PROVE  /\ SubSeq(f, 1, m) \in Seq(Chunks)
           /\ SubSeq(f, m + 1, Len(f)) \in Seq(Chunks)
<1>1. Len(f) \in Nat /\ \A k \in 1 .. Len(f) : f[k] \in Chunks
  BY LenProperties, ElementOfSeq
<1>2. (\A k \in 1 .. m : f[k] \in Chunks) /\ (\A k \in m + 1 .. Len(f) : f[k] \in Chunks)
  BY <1>1
<1> QED BY <1>1, <1>2, SubSeqProperties

LEMMA OverwriteType ==
    ASSUME NEW f \in Seq(Chunks), NEW w \in [at : Nat, data : Seq(Chunks)]
    PROVE  Overwrite(f, w) \in Seq(Chunks)
<1> DEFINE end == w.at + Len(w.data)
           top == IF Len(f) > end THEN Len(f) ELSE end
<1>1. w.at \in Nat /\ w.data \in Seq(Chunks) /\ Len(w.data) \in Nat /\ Len(f) \in Nat
      /\ end \in Nat /\ top \in Nat
  BY LenProperties
<1>2. \A k \in 1 .. Len(f) : f[k] \in Chunks
  BY ElementOfSeq
<1>3. \A k \in 1 .. Len(w.data) : w.data[k] \in Chunks
  BY <1>1, ElementOfSeq
<1>4. ASSUME NEW n \in 1 .. top
      PROVE  (IF n > w.at /\ n <= end THEN w.data[n - w.at]
              ELSE IF n <= Len(f) THEN f[n] ELSE <<None, 0>>) \in Chunks
  <2>1. CASE n > w.at /\ n <= end
    <3>1. n - w.at \in 1 .. Len(w.data)
      BY <1>1, <2>1
    <3> QED BY <1>3, <2>1, <3>1
  <2>2. CASE ~ (n > w.at /\ n <= end) /\ n <= Len(f)
    BY <1>1, <1>2, <2>2
  <2>3. CASE ~ (n > w.at /\ n <= end) /\ ~ (n <= Len(f))
    BY <2>3 DEF Chunks
  <2> QED BY <2>1, <2>2, <2>3
<1>5. Overwrite(f, w) \in [1 .. top -> Chunks]
  BY <1>4 DEF Overwrite
<1> HIDE DEF top, end
<1> QED BY <1>1, <1>5, SeqDef

LEMMA TypeInit == Init => TypeOK
BY UftpAssumption DEF Init, TypeOK

LEMMA GoOnType ==
    ASSUME TypeOK, Running, NEW n \in Nat, GoOn(n)
    PROVE  /\ pc' \in {"idle", "data"} /\ i' \in Nat /\ sending' \in Contents \cup {None}
           /\ sending' = None <=> pc' = "idle"
           /\ toServer' \in Seq(ClientPackets) /\ faults' \in Nat /\ kept' \in Contents \cup {None}
<1>1. sending \in Contents /\ num \in Nat /\ faults \in Nat
  BY DEF TypeOK, Running
<1>2. CASE n < Packets[sending]
  BY <1>1, <1>2, PacketTypes, Sent, Constants DEF GoOn, TypeOK
<1>3. CASE ~ (n < Packets[sending])
  BY <1>1, <1>3 DEF GoOn, TypeOK
<1> QED BY <1>2, <1>3

\* No action breaks the types.  A leftover buffer is written over a file that exists.
LEMMA TypeStep ==
    ASSUME TypeOK, LeftoversHaveFile, [Next]_vars
    PROVE  TypeOK'
<1>0. /\ i \in Nat /\ num \in Nat /\ since \in Nat /\ si \in Nat /\ total \in Nat /\ sess \in Nat
      /\ faults \in Nat /\ quits \in Nat /\ stops \in Nat /\ torn \in Nat
      /\ toServer \in Seq(ClientPackets) /\ toClient \in Seq(Answers)
      /\ stream \in Seq(Chunks) /\ Len(stream) \in Nat
      /\ <<>> \in Seq(Answers)
  BY LenProperties, EmptySeq DEF TypeOK
<1>1. ASSUME NEW c \in Contents, StartPut(c) PROVE TypeOK'
  <2>1. toServer' \in Seq(ClientPackets) /\ faults' \in Nat
    BY <1>0, <1>1, PacketTypes, Sent DEF StartPut
  <2>2. toClient' \in Seq(Answers)
    BY <1>0, <1>1, Took DEF StartPut
  <2> QED BY <1>0, <1>1, <2>1, <2>2, Constants DEF StartPut, TypeOK, server
<1>2. CASE ProbeAnswered
  BY <1>0, <1>2, HeardFacts, GoOnType DEF ProbeAnswered, Running, TypeOK, server
<1>3. CASE RightAck
  <2>1. GoOn(i + 1) /\ Hears({"ack"}) /\ Running /\ i + 1 \in Nat
    BY <1>0, <1>3 DEF RightAck, Running
  <2> QED BY <1>0, <2>1, HeardFacts, GoOnType DEF TypeOK, server
<1>4. CASE WrongFlag
  <2>1. Current \in ClientPackets /\ sending # None
    BY <1>0, <1>4, PacketTypes DEF WrongFlag, Current, TypeOK
  <2>2. toServer' \in Seq(ClientPackets) /\ faults' \in Nat
    BY <1>0, <1>4, <2>1, Sent DEF WrongFlag
  <2>3. PICK kinds : Hears(kinds)
    BY <1>4 DEF WrongFlag
  <2> QED BY <1>0, <1>4, <2>2, <2>3, HeardFacts DEF WrongFlag, TypeOK, server
<1>5. CASE WrongAck
  <2>1. PICK kinds : Hears(kinds)
    BY <1>5 DEF WrongAck
  <2>2. pc # "idle"
    BY <1>5 DEF WrongAck
  <2> QED BY <1>0, <1>5, <2>1, <2>2, HeardFacts DEF WrongAck, TypeOK, server
<1>6. CASE Timeout
  <2>1. Current \in ClientPackets
    BY <1>0, <1>6, PacketTypes DEF Timeout, Current, TypeOK
  <2>2. toServer' \in Seq(ClientPackets) /\ faults' \in Nat
    BY <1>0, <1>6, <2>1, Sent DEF Timeout
  <2> QED BY <1>0, <1>6, <2>2 DEF Timeout, TypeOK, server
<1>7. CASE Quit
  BY <1>0, <1>7 DEF Quit, TypeOK, server
<1>8. CASE SendExit
  <2>1. toServer' \in Seq(ClientPackets) /\ faults' \in Nat
    <3>1. Exit(num) \in ClientPackets
      BY <1>0 DEF Exit, ClientPackets
    <3> QED BY <1>0, <1>8, <3>1, Sent DEF SendExit
  <2> QED BY <1>0, <1>8, <2>1 DEF SendExit, TypeOK, server
<1>9. CASE AcceptProbe
  <2>1. Gets({"probe"}) /\ Reply(Got, "probe", 0)
    BY <1>9 DEF AcceptProbe
  <2>2. toClient' \in Seq(Answers) /\ faults' \in Nat
    BY <1>0, <2>1, GotFacts, Replied
  <2>3. <<>> \in Seq(Chunks) /\ Got.no \in Nat /\ Got.t \in Nat
    BY <2>1, GotFacts, EmptySeq DEF ClientPackets
  <2>4. toServer' \in Seq(ClientPackets) /\ UNCHANGED <<client, kept, torn, quits, stops>>
    BY <2>1, GotFacts
  <2>5. CASE Got.no = 0
    BY <1>0, <1>9, <2>2, <2>4, <2>5 DEF AcceptProbe, TypeOK, client, server
  <2>6. CASE Got.no # 0
    <3>1. 0 < Got.no
      BY <2>3, <2>6
    <3> QED BY <1>9, <2>2, <2>3, <2>4, <2>6, <3>1 DEF AcceptProbe, TypeOK, client
  <2> QED BY <2>5, <2>6
<1>10. CASE StoreData
  <2>1. Gets({"data"}) /\ Reply(Got, "ack", si)
    BY <1>10 DEF StoreData
  <2>2. toClient' \in Seq(Answers) /\ faults' \in Nat
    BY <1>0, <2>1, GotFacts, Replied
  <2>3. <<Got.of, Got.no>> \in Chunks
    BY <2>1, GotFacts DEF ClientPackets, Chunks
  <2>4. stream' \in Seq(Chunks)
    BY <1>0, <1>10, <2>3, AppendProperties DEF StoreData
  <2>5. toServer' \in Seq(ClientPackets) /\ UNCHANGED <<client, kept, torn, quits, stops>>
    BY <2>1, GotFacts
  <2>6. si' \in Nat /\ (spc' = "recv" => si' < total') /\ spc' \in {"recv", "closing"}
    BY <1>0, <1>10 DEF StoreData, TypeOK
  <2> QED BY <1>10, <2>2, <2>4, <2>5, <2>6 DEF StoreData, TypeOK, client
<1>11. CASE AckAgain
  <2>1. Gets({"data"}) /\ Reply(Got, "ack", Got.no) /\ server' = server
    BY <1>11 DEF AckAgain
  <2>2. Got.no \in Nat
    BY <2>1, GotFacts DEF ClientPackets
  <2>3. toClient' \in Seq(Answers) /\ faults' \in Nat
    BY <1>0, <2>1, <2>2, GotFacts, Replied
  <2> QED BY <1>0, <2>1, <2>3, GotFacts DEF TypeOK, client, server
<1>12. CASE Close
  BY <1>12 DEF Close, TypeOK, client, network
<1>13. CASE AbortReceive
  <2>1. Gets({"probe", "exit"}) /\ toClient' = toClient /\ faults' = faults
    BY <1>13 DEF AbortReceive
  <2>2. PICK m \in 0 .. Len(stream) :
            /\ disk' = SubSeq(stream, 1, m)
            /\ leaked' = IF m = Len(stream) THEN leaked
                         ELSE <<[at |-> m, data |-> SubSeq(stream, m + 1, Len(stream))]>> \o leaked
    BY <1>13 DEF AbortReceive, Flushed
  <2> DEFINE w == [at |-> m, data |-> SubSeq(stream, m + 1, Len(stream))]
  <2>3. disk' \in Seq(Chunks) /\ w \in [at : Nat, data : Seq(Chunks)]
    BY <1>0, <2>2, FlushedType
  <2>4. leaked' \in Seq([at : Nat, data : Seq(Chunks)])
    <3> HIDE DEF w
    <3>1. <<w>> \in Seq([at : Nat, data : Seq(Chunks)])
      BY <2>3
    <3>2. leaked \in Seq([at : Nat, data : Seq(Chunks)])
      BY DEF TypeOK
    <3>3. <<w>> \o leaked \in Seq([at : Nat, data : Seq(Chunks)])
      BY <3>1, <3>2, ConcatProperties
    <3> QED BY <2>2, <3>2, <3>3 DEF w
  <2> HIDE DEF w
  <2> QED BY <1>0, <1>13, <2>1, <2>3, <2>4, GotFacts DEF AbortReceive, TypeOK, client
<1>14. CASE Ignore
  <2>1. PICK kinds : Gets(kinds)
    BY <1>14 DEF Ignore
  <2> QED BY <1>0, <1>14, <2>1, GotFacts DEF Ignore, TypeOK, client, server
<1>15. CASE ObeyExit
  BY <1>0, <1>15, GotFacts DEF ObeyExit, TypeOK, client
<1>16. CASE FlushAtExit
  <2>1. CASE leaked = <<>>
    BY <1>16, <2>1 DEF FlushAtExit, TypeOK, client, network
  <2>2. CASE leaked # <<>>
    <3>1. /\ Tail(leaked) \in Seq([at : Nat, data : Seq(Chunks)])
          /\ Head(leaked) \in [at : Nat, data : Seq(Chunks)]
      BY <2>2, Took DEF TypeOK
    <3>2. Overwrite(disk, Head(leaked)) \in Seq(Chunks)
      BY <2>2, <3>1, OverwriteType DEF LeftoversHaveFile
    <3> QED BY <1>16, <2>2, <3>1, <3>2 DEF FlushAtExit, TypeOK, client, network
  <2> QED BY <2>1, <2>2
<1>17. CASE Kill
  <2>1. disk' \in Seq(Chunks) \cup {None} /\ <<>> \in Seq([at : Nat, data : Seq(Chunks)])
    BY <1>0, <1>17, FlushedType, EmptySeq DEF Kill, Flushed, TypeOK
  <2>2. torn' \in Nat /\ kept' \in Contents \cup {None} /\ stops' \in Nat
    BY <1>0, <1>17 DEF Kill, TypeOK
  <2> QED BY <1>17, <2>1, <2>2 DEF Kill, TypeOK, client, network
<1>18. CASE StartServer
  BY <1>18 DEF StartServer, TypeOK, client, network
<1>19. CASE UNCHANGED vars
  BY <1>19 DEF vars, client, server, network, TypeOK
<1> QED
  BY <1>1, <1>2, <1>3, <1>4, <1>5, <1>6, <1>7, <1>8, <1>9, <1>10, <1>11, <1>12, <1>13, <1>14,
     <1>15, <1>16, <1>17, <1>18, <1>19 DEF Next, ClientHears, ServerStep, User

LEMMA LeftoverStep ==
    ASSUME TypeOK, LeftoversHaveFile, [Next]_vars
    PROVE  LeftoversHaveFile'
<1>0. stream \in Seq(Chunks) /\ Len(stream) \in Nat /\ <<>> \in Seq(Chunks)
  BY LenProperties, EmptySeq DEF TypeOK
<1>1. ASSUME UNCHANGED <<leaked, disk>> PROVE LeftoversHaveFile'
  BY <1>1 DEF LeftoversHaveFile
<1>2. CASE AcceptProbe
  BY <1>0, <1>2 DEF AcceptProbe, LeftoversHaveFile, server
<1>3. ASSUME NEW m \in Flushed, disk' = SubSeq(stream, 1, m) PROVE LeftoversHaveFile'
  BY <1>0, <1>3, FlushedType DEF Flushed, LeftoversHaveFile
<1>4. CASE Close
  BY <1>0, <1>4 DEF Close, LeftoversHaveFile
<1>5. CASE AbortReceive
  BY <1>3, <1>5 DEF AbortReceive
<1>6. CASE FlushAtExit
  <2>1. CASE leaked = <<>>
    BY <1>1, <1>6, <2>1 DEF FlushAtExit
  <2>2. CASE leaked # <<>>
    <3>1. Head(leaked) \in [at : Nat, data : Seq(Chunks)]
      BY <2>2, Took DEF TypeOK
    <3>2. Overwrite(disk, Head(leaked)) \in Seq(Chunks)
      BY <2>2, <3>1, OverwriteType DEF LeftoversHaveFile
    <3> QED BY <1>6, <2>2, <3>2 DEF FlushAtExit, LeftoversHaveFile
  <2> QED BY <2>1, <2>2
<1>7. CASE Kill
  BY <1>7 DEF Kill, LeftoversHaveFile
<1> QED
  BY <1>1, <1>2, <1>4, <1>5, <1>6, <1>7
  DEF Next, ClientHears, ServerStep, User, StartPut, ProbeAnswered, RightAck, WrongFlag, WrongAck,
      Timeout, Quit, SendExit, StoreData, AckAgain, Ignore, ObeyExit, StartServer, Hears, Gets,
      server, vars

\* The variables keep their shape, whatever the network, the user and the server do.
THEOREM TypeCorrect == Spec => []TypeOK
<1>1. Init => TypeOK /\ LeftoversHaveFile
  BY TypeInit DEF Init, LeftoversHaveFile
<1>2. TypeOK /\ LeftoversHaveFile /\ [Next]_vars => (TypeOK /\ LeftoversHaveFile)'
  BY TypeStep, LeftoverStep
<1> QED BY <1>1, <1>2, PTL DEF Spec

-----------------------------------------------------------------------------
(* The invariant, action by action.                                        *)

LEMMA Entries ==
    ASSUME TypeOK
    PROVE  /\ \A x \in Items(toServer) :
                 x \in ClientPackets /\ x.t \in Nat /\ x.no \in Nat /\ x.kind \in {"probe", "data", "exit", "bad"}
           /\ \A x \in Items(toClient) :
                 x \in Answers /\ x.t \in Nat /\ x.no \in Nat /\ x.kind \in {"probe", "ack", "bad"}
           /\ i \in Nat /\ num \in Nat /\ since \in Nat /\ si \in Nat /\ total \in Nat /\ sess \in Nat
           /\ torn \in Nat /\ quits \in Nat
           /\ Running <=> sending \in Contents
           /\ Running <=> pc = "probe" \/ Sending
           /\ pc = "probe" => ~ Sending
<1>1. Items(toServer) \subseteq ClientPackets /\ Items(toClient) \subseteq Answers
  BY ItemsOfSeq DEF TypeOK
<1>2. /\ Running <=> sending \in Contents
      /\ Running <=> pc = "probe" \/ Sending
  BY Constants DEF Running, Sending, TypeOK
<1> QED BY <1>1, <1>2 DEF ClientPackets, Answers, TypeOK, Sending

\* The packet that the client waits for an answer to.
LEMMA CurrentFacts ==
    ASSUME TypeOK, Running
    PROVE  /\ Current \in ClientPackets /\ Current.t = num
           /\ pc = "probe" => Current.kind = "probe" /\ Current.no = Packets[sending]
           /\ Sending => Current.kind = "data" /\ Current.no = i /\ Current.of = sending
BY Entries, PacketTypes DEF Current, Probe, Data, Sending, TypeOK

\* The client sends it again.
LEMMA Resending ==
    ASSUME Inv, Running, Send(Current),
           pc' = pc \/ (pc = "catchup" /\ pc' = "data"),
           Items(toClient') \subseteq Items(toClient),
           InOrder(toClient, NoProbeAfterAck) => InOrder(toClient', NoProbeAfterAck),
           InOrder(toClient, NoAckAfterProbe) => InOrder(toClient', NoAckAfterProbe),
           UNCHANGED <<i, sending, num, since, server, kept, torn, quits>>
    PROVE  Order' /\ Stamps' /\ Flight' /\ Session' /\ Hearing' /\ Kept' /\ LeftoversNeedQuit'
<1> DEFINE p == Current
<1>a. /\ Running' /\ (Sending <=> Sending') /\ (pc = "probe" <=> pc' = "probe")
      /\ UNCHANGED <<i, sending, num, since, kept, torn, quits>>
      /\ UNCHANGED <<spc, si, total, sess, stream, disk, leaked>>
  BY DEF Sending, Running, server
<1>b. /\ p.t = num /\ p \in ClientPackets
      /\ pc = "probe" => p.kind = "probe" /\ p.no = Packets[sending]
      /\ Sending => p.kind = "data" /\ p.no = i /\ p.of = sending
  BY CurrentFacts DEF Inv
<1>c. /\ Items(toServer') \subseteq Items(toServer) \cup {p, Garbled(p)}
      /\ InOrder(toServer, Following) /\
           (\A y \in Items(toServer) : y.t <= p.t /\ (y.t = p.t /\ p.kind = "probe" => y.kind # "data"))
              => InOrder(toServer', Following)
  BY <1>b, Sent DEF Inv, TypeOK
<1>d. Garbled(p).t = num /\ Garbled(p).kind = "bad"
  BY <1>b, GarbledPacket
<1> HIDE DEF p
<1>1. Order'
  <2>1. \A y \in Items(toServer) : y.t <= p.t /\ (y.t = p.t /\ p.kind = "probe" => y.kind # "data")
    BY <1>b, Entries DEF Inv, Stamps, Flight
  <2> QED BY <1>a, <1>c, <2>1 DEF Inv, Order
<1>2. Stamps'
  BY <1>a, <1>b, <1>c, <1>d, Entries DEF Inv, Stamps, Open
<1>3. Flight'
  BY <1>a, <1>b, <1>c, <1>d, Entries DEF Inv, Flight, Stamps
<1>4. Session'
  BY <1>a, <1>b, <1>c, <1>d, Entries DEF Inv, Session, Open, Whole
<1>5. Hearing'
  BY <1>a, <1>b, <1>c, <1>d, Entries DEF Inv, Hearing, Open, Reached, PastProbes, NoProbeHeld, Whole
<1>6. Kept'
  BY <1>a, <1>b, <1>c, <1>d, Entries DEF Inv, Kept, Hearing, file, Whole
<1>7. LeftoversNeedQuit'
  BY <1>a DEF Inv, LeftoversNeedQuit
<1> QED BY <1>1, <1>2, <1>3, <1>4, <1>5, <1>6, <1>7

\* The next packet goes out.
LEMMA NextPacket ==
    ASSUME Inv, Running, NEW n \in Nat, GoOn(n), n < Packets[sending]
    PROVE  /\ pc' = "data" /\ i' = n /\ UNCHANGED <<sending, kept>>
           /\ \A x \in Items(toServer') :
                 \/ x \in Items(toServer)
                 \/ x.t = num /\ x.kind = "data" /\ x.no = n /\ x.of = sending
                 \/ x.t = num /\ x.kind = "bad"
           /\ InOrder(toServer', Following)
<1> DEFINE p == Data(num, sending, n)
<1>1. /\ p \in ClientPackets /\ p.t = num /\ p.kind = "data" /\ p.no = n /\ p.of = sending
  BY Entries, PacketTypes DEF Inv, Data
<1>2. Garbled(p).t = num /\ Garbled(p).kind = "bad"
  BY <1>1, GarbledPacket
<1>3. pc' = "data" /\ i' = n /\ UNCHANGED <<sending, kept>> /\ Send(p)
  BY DEF GoOn
<1> HIDE DEF p
<1>4. \A y \in Items(toServer) : y.t <= p.t /\ (y.t = p.t /\ p.kind = "probe" => y.kind # "data")
  BY <1>1, Entries DEF Inv, Stamps
<1> QED BY <1>1, <1>2, <1>3, <1>4, Sent DEF Inv, TypeOK, Order

\* The probe is answered, for this put or, to the same effect, for an earlier one.
LEMMA StepProbeAnswered ==
    ASSUME Inv, ProbeAnswered
    PROVE  Order' /\ Stamps' /\ Flight' /\ Session' /\ Hearing' /\ Kept' /\ LeftoversNeedQuit'
<1>a. /\ pc = "probe" /\ Running /\ ~ Sending /\ GoOn(0)
      /\ UNCHANGED <<num, since, torn, quits>>
      /\ UNCHANGED <<spc, si, total, sess, stream, disk, leaked>>
  BY HeardFacts DEF Inv, ProbeAnswered, server, Running, Sending
<1>b. /\ Items(toClient') \subseteq Items(toClient)
      /\ Heard \in Items(toClient) /\ Heard.kind = "probe"
      /\ \A y \in Items(toClient') : y.kind # "ack"
      /\ InOrder(toClient', NoAckAfterProbe) /\ toClient' \in Seq(Answers)
  BY <1>a, HeardFacts DEF Inv, ProbeAnswered, Order
<1>c. Open => sess = num
  BY <1>a, <1>b DEF Inv, Hearing, NoProbeHeld
<1>d. InOrder(toClient', NoProbeAfterAck)
  <2>1. \A j, k \in 1 .. Len(toClient') : <<toClient'[j], toClient'[k]>> \in NoProbeAfterAck
    <3>1. \A k \in 1 .. Len(toClient') : toClient'[k] \in Items(toClient') /\ toClient'[k] \in Answers
      BY <1>b, ElementOfSeq DEF Items
    <3> QED BY <1>b, <3>1 DEF NoProbeAfterAck
  <2> QED BY <2>1 DEF InOrder
<1>0. LeftoversNeedQuit'
  BY <1>a DEF Inv, LeftoversNeedQuit
<1>1. CASE 0 < Packets[sending]
  <2>1. /\ pc' = "data" /\ i' = 0 /\ UNCHANGED <<sending, kept>>
        /\ \A x \in Items(toServer') :
              \/ x \in Items(toServer)
              \/ x.t = num /\ x.kind = "data" /\ x.no = 0 /\ x.of = sending
              \/ x.t = num /\ x.kind = "bad"
        /\ InOrder(toServer', Following)
    BY <1>a, <1>1, NextPacket
  <2>2. Running' /\ Sending'
    BY <2>1 DEF Running, Sending
  <2>3. Order'
    BY <1>d, <2>1, <2>2 DEF Order
  <2>4. Stamps'
    BY <1>a, <1>b, <2>1, <2>2, Entries DEF Inv, Stamps, Open
  <2>5. Flight'
    BY <1>a, <2>1, <2>2, Entries DEF Inv, Flight, Stamps
  <2>6. Session'
    BY <1>a, <2>1, <2>2, Entries DEF Inv, Session, Open, Whole
  <2>7. Hearing'
    BY <1>1, <1>a, <1>b, <1>c, <2>1, <2>2, Entries DEF Inv, Hearing, Open, NoProbeHeld
  <2>8. Kept'
    BY <1>1, <1>a, <2>1, <2>2, Entries DEF Inv, Kept
  <2> QED BY <1>0, <2>3, <2>4, <2>5, <2>6, <2>7, <2>8
<1>2. CASE ~ (0 < Packets[sending])
  <2>1. Packets[sending] = 0 /\ pc' = "idle" /\ kept' = kept /\ toServer' = toServer
    BY <1>2, <1>a, Entries, Constants DEF Inv, GoOn
  <2>2. ~ Running' /\ ~ Sending'
    BY <2>1 DEF Running, Sending
  <2>3. ~ Open
    BY <1>a, <1>c, <2>1, Entries DEF Inv, Session, TypeOK, Open
  <2>4. Order'
    BY <1>b, <2>1, <2>2 DEF Inv, Order
  <2>5. Stamps'
    BY <1>a, <1>b, <2>1, <2>2, Entries DEF Inv, Stamps, Open
  <2>6. Flight'
    BY <1>a, <2>1, <2>2, Entries DEF Inv, Flight, Stamps
  <2>7. Session'
    BY <1>a, <2>1, <2>2, <2>3 DEF Session, Open
  <2>8. Hearing'
    BY <1>a, <2>1, <2>2, <2>3 DEF Hearing, Open
  <2>9. Kept'
    BY <1>a, <2>1, <2>2 DEF Inv, Kept, file, Whole
  <2> QED BY <1>0, <2>4, <2>5, <2>6, <2>7, <2>8, <2>9
<1> QED BY <1>1, <1>2

\* The server has n packets of the current put, which are all of it.
LEMMA AllReached ==
    ASSUME Inv, Sending, NEW n \in Nat, n >= Packets[sending], Reached(n)
    PROVE  spc # "recv" /\ (torn # num => file = Whole(sending))
<1>1. sess = num /\ Running /\ sending \in Contents /\ Packets[sending] \in Nat
  BY Entries, Constants DEF Inv, Reached, Sending, Running
<1>2. spc # "recv"
  BY <1>1, Entries DEF Inv, Reached, Session, TypeOK, Open
<1>3. CASE spc = "closing"
  <2>1. stream = SubSeq(Whole(sending), 1, Packets[sending])
    BY <1>1, <1>3 DEF Inv, Session, Open
  <2>2. SubSeq(Whole(sending), 1, Packets[sending]) = Whole(sending)
    BY <1>1, SubSeqProperties DEF Whole
  <2> QED BY <1>3, <2>1, <2>2 DEF file
<1> QED BY <1>2, <1>3 DEF Reached, file

LEMMA StepRightAck ==
    ASSUME Inv, RightAck
    PROVE  Order' /\ Stamps' /\ Flight' /\ Session' /\ Hearing' /\ Kept' /\ LeftoversNeedQuit'
<1>a. /\ Sending /\ Running /\ GoOn(i + 1) /\ Hears({"ack"}) /\ Heard.no = i /\ pc # "probe"
      /\ UNCHANGED <<num, since, torn, quits>>
      /\ UNCHANGED <<spc, si, total, sess, stream, disk, leaked>>
  BY HeardFacts DEF Inv, RightAck, server, Running, Sending
<1>b. /\ Items(toClient') \subseteq Items(toClient)
      /\ Heard \in Items(toClient) /\ Heard.kind = "ack"
      /\ \A y \in Items(toClient') : y.kind # "probe"
      /\ InOrder(toClient', NoProbeAfterAck) /\ toClient' \in Seq(Answers)
  BY <1>a, HeardFacts DEF Inv, Order
<1>c. Heard.t = num /\ Reached(i + 1) /\ PastProbes
  BY <1>a, <1>b DEF Inv, Hearing
<1>d. InOrder(toClient', NoAckAfterProbe)
  <2>1. \A j, k \in 1 .. Len(toClient') : <<toClient'[j], toClient'[k]>> \in NoAckAfterProbe
    <3>1. \A k \in 1 .. Len(toClient') : toClient'[k] \in Items(toClient') /\ toClient'[k] \in Answers
      BY <1>b, ElementOfSeq DEF Items
    <3> QED BY <1>b, <3>1 DEF NoAckAfterProbe
  <2> QED BY <2>1 DEF InOrder
<1>0. LeftoversNeedQuit'
  BY <1>a DEF Inv, LeftoversNeedQuit
<1>1. CASE i + 1 < Packets[sending]
  <2>1. /\ pc' = "data" /\ i' = i + 1 /\ UNCHANGED <<sending, kept>>
        /\ \A x \in Items(toServer') :
              \/ x \in Items(toServer)
              \/ x.t = num /\ x.kind = "data" /\ x.no = i + 1 /\ x.of = sending
              \/ x.t = num /\ x.kind = "bad"
        /\ InOrder(toServer', Following)
    <3>1. i + 1 \in Nat
      BY Entries DEF Inv
    <3> QED BY <1>a, <1>1, <3>1, NextPacket
  <2>2. Running' /\ Sending'
    BY <2>1 DEF Running, Sending
  <2>3. Order'
    BY <1>b, <2>1, <2>2 DEF Order
  <2>4. Stamps'
    BY <1>a, <1>b, <2>1, <2>2, Entries DEF Inv, Stamps, Open
  <2>5. Flight'
    BY <1>a, <2>1, <2>2, Entries DEF Inv, Flight, Stamps
  <2>6. Session'
    BY <1>a, <2>1, <2>2, Entries DEF Inv, Session, Open, Whole
  <2>7. Hearing'
    <3>1. Reached(i)' /\ PastProbes'
      BY <1>a, <1>c, <2>1 DEF Reached, PastProbes, Whole
    <3>2. \A m \in Nat : Reached(m) => Reached(m)'
      BY <1>a, <2>1 DEF Reached, Whole
    <3> QED BY <1>1, <1>a, <1>b, <2>1, <2>2, <3>1, <3>2, Entries DEF Inv, Hearing, Open, NoProbeHeld
  <2>8. Kept'
    BY <1>1, <1>a, <2>1, <2>2, Entries DEF Inv, Kept
  <2> QED BY <1>0, <2>3, <2>4, <2>5, <2>6, <2>7, <2>8
<1>2. CASE ~ (i + 1 < Packets[sending])
  <2>1. /\ pc' = "idle" /\ toServer' = toServer /\ Packets[sending] # 0
        /\ kept' = IF torn = num THEN kept ELSE sending
    BY <1>2, <1>a, Entries DEF Inv, GoOn, Hearing
  <2>2. ~ Running' /\ ~ Sending'
    BY <2>1 DEF Running, Sending
  <2>3. spc # "recv" /\ (torn # num => file = Whole(sending))
    <3>1. i + 1 \in Nat /\ i + 1 >= Packets[sending]
      BY <1>2, <1>a, Entries, Constants DEF Inv
    <3> QED BY <1>a, <1>c, <3>1, AllReached
  <2>4. Order'
    BY <1>d, <2>1, <2>2 DEF Inv, Order
  <2>5. Stamps'
    BY <1>a, <1>b, <2>1, <2>2, Entries DEF Inv, Stamps, Open
  <2>6. Flight'
    BY <1>a, <1>c, <2>1, <2>2, <2>3, Entries DEF PastProbes, Flight
  <2>7. Session'
    BY <1>a, <2>1, <2>2, <2>3 DEF Inv, Session, Open
  <2>8. Hearing'
    BY <1>b, <2>2 DEF Hearing, NoProbeHeld
  <2>9. Kept'
    <3>1. kept' # None => torn # num /\ kept' = sending
      BY <1>a, <2>1 DEF Inv, Kept
    <3> QED BY <1>a, <1>c, <2>1, <2>2, <2>3, <3>1 DEF Kept, PastProbes, file, Whole
  <2> QED BY <1>0, <2>4, <2>5, <2>6, <2>7, <2>8, <2>9
<1> QED BY <1>1, <1>2

LEMMA StepWrongFlag ==
    ASSUME Inv, WrongFlag
    PROVE  Order' /\ Stamps' /\ Flight' /\ Session' /\ Hearing' /\ Kept' /\ LeftoversNeedQuit'
<1>1. PICK kinds : Hears(kinds)
  BY DEF WrongFlag
<1>2. Running /\ Send(Current) /\ UNCHANGED <<pc, i, sending, kept>>
  BY DEF WrongFlag, Running
<1> QED BY <1>1, <1>2, HeardFacts, Resending DEF Inv

LEMMA StepTimeout ==
    ASSUME Inv, Timeout
    PROVE  Order' /\ Stamps' /\ Flight' /\ Session' /\ Hearing' /\ Kept' /\ LeftoversNeedQuit'
<1>1. Running /\ Send(Current) /\ UNCHANGED <<i, sending, num, since, toClient, server, kept, torn, quits>>
  BY DEF Timeout, Running
<1>2. pc' = pc \/ (pc = "catchup" /\ pc' = "data")
  BY DEF Timeout
<1> QED BY <1>1, <1>2, Resending

LEMMA StepWrongAck ==
    ASSUME Inv, WrongAck
    PROVE  Order' /\ Stamps' /\ Flight' /\ Session' /\ Hearing' /\ Kept' /\ LeftoversNeedQuit'
<1>1. PICK kinds : Hears(kinds)
  BY DEF WrongAck
<1>a. /\ Sending /\ Running /\ Sending' /\ Running' /\ pc # "probe" /\ pc' # "probe"
      /\ UNCHANGED <<i, sending, toServer, kept, num, since, torn, quits>>
      /\ UNCHANGED <<spc, si, total, sess, stream, disk, leaked>>
  BY <1>1, HeardFacts DEF Inv, WrongAck, server, Running, Sending
<1>b. /\ Items(toClient') \subseteq Items(toClient) /\ Heard \in Items(toClient)
      /\ InOrder(toClient', NoProbeAfterAck)
  BY <1>1, <1>a, HeardFacts DEF Inv, Order
<1>c. PastProbes' <=> PastProbes
  BY <1>a DEF PastProbes
<1>2. Order'
  BY <1>a, <1>b DEF Inv, Order
<1>3. Stamps'
  BY <1>a, <1>b DEF Inv, Stamps, Open
<1>4. Flight'
  BY <1>a DEF Inv, Flight
<1>5. Session'
  BY <1>a DEF Inv, Session, Open, Whole
<1>6. Hearing'
  BY <1>a, <1>b, <1>c, Entries DEF Inv, Hearing, Open, NoProbeHeld, Reached, Whole
<1>7. Kept'
  BY <1>a DEF Inv, Kept, file, Whole
<1>8. LeftoversNeedQuit'
  BY <1>a DEF Inv, LeftoversNeedQuit
<1> QED BY <1>2, <1>3, <1>4, <1>5, <1>6, <1>7, <1>8

LEMMA StepStartPut ==
    ASSUME Inv, NEW c \in Contents, StartPut(c)
    PROVE  Order' /\ Stamps' /\ Flight' /\ Session' /\ Hearing' /\ Kept' /\ LeftoversNeedQuit'
<1> DEFINE p == Probe(num + 1, c)
<1>a. /\ ~ Running /\ ~ Sending /\ Running' /\ ~ Sending' /\ pc = "idle" /\ pc' = "probe"
      /\ num' = num + 1 /\ sending' = c /\ Send(p)
      /\ kept' = IF Packets[c] = 0 THEN kept ELSE None
      /\ UNCHANGED <<since, torn, quits>>
      /\ UNCHANGED <<spc, si, total, sess, stream, disk, leaked>>
  BY DEF StartPut, Running, Sending, server
<1>b. /\ Items(toClient') \subseteq Items(toClient) /\ InOrder(toClient', NoAckAfterProbe)
  <2>1. toClient \in Seq(Answers) /\ InOrder(toClient, NoAckAfterProbe)
    BY <1>a DEF Inv, TypeOK, Order
  <2>2. toClient' = toClient \/ (toClient # <<>> /\ toClient' = Tail(toClient))
    BY DEF StartPut
  <2> QED BY <2>1, <2>2, ItemsOfTail
<1>c. p \in ClientPackets /\ p.t = num + 1 /\ p.kind = "probe" /\ p.no = Packets[c]
  <2>1. num + 1 \in Nat
    BY Entries DEF Inv
  <2> QED BY <2>1, PacketTypes DEF Probe
<1>d. Garbled(p).t = num + 1 /\ Garbled(p).kind = "bad"
  BY <1>c, GarbledPacket
<1> HIDE DEF p
<1>e. /\ Items(toServer') \subseteq Items(toServer) \cup {p, Garbled(p)}
      /\ InOrder(toServer', Following)
  <2>1. \A y \in Items(toServer) : y.t <= p.t /\ (y.t = p.t /\ p.kind = "probe" => y.kind # "data")
    BY <1>c, Entries DEF Inv, Stamps
  <2> QED BY <1>a, <1>c, <2>1, Sent DEF Inv, TypeOK, Order
<1>1. Order'
  BY <1>a, <1>b, <1>e DEF Order
<1>2. Stamps'
  BY <1>a, <1>b, <1>c, <1>d, <1>e, Entries DEF Inv, Stamps, Open
<1>3. Flight'
  BY <1>a, <1>c, <1>d, <1>e, Entries DEF Inv, Flight, Stamps
<1>4. Session'
  BY <1>a, <1>c, <1>d, <1>e, Entries DEF Inv, Session, Stamps, Open
<1>5. Hearing'
  BY <1>a, <1>b, Entries DEF Inv, Hearing, Stamps, Open, NoProbeHeld
<1>6. Kept'
  BY <1>a, <1>c, <1>d, <1>e DEF Inv, Kept, file, Whole
<1>7. LeftoversNeedQuit'
  BY <1>a DEF Inv, LeftoversNeedQuit
<1> QED BY <1>1, <1>2, <1>3, <1>4, <1>5, <1>6, <1>7

\* A new client process hears nothing of the old one.
LEMMA StepQuit ==
    ASSUME Inv, Quit
    PROVE  Order' /\ Stamps' /\ Flight' /\ Session' /\ Hearing' /\ Kept' /\ LeftoversNeedQuit'
<1>a. /\ Running /\ ~ Running' /\ ~ Sending' /\ pc' = "idle" /\ quits' = quits + 1 /\ quits' > 0
      /\ since' = num + 1 /\ Items(toClient') = {} /\ InOrder(toClient', NoAckAfterProbe)
      /\ UNCHANGED <<num, toServer, kept, torn>>
      /\ UNCHANGED <<spc, si, total, sess, stream, disk, leaked>>
  BY EmptyOrder, Entries DEF Inv, Quit, Running, Sending, server
<1>1. Order'
  BY <1>a DEF Inv, Order
<1>2. Stamps'
  BY <1>a, Entries DEF Inv, Stamps, Open
<1>3. Flight'
  BY <1>a, Entries DEF Inv, Flight, Stamps
<1>4. Session'
  BY <1>a, Entries DEF Inv, Session, Open
<1>5. Hearing'
  BY <1>a DEF Hearing, NoProbeHeld
<1>6. Kept'
  BY <1>a DEF Inv, Kept, file, Whole
<1>7. LeftoversNeedQuit'
  BY <1>a DEF LeftoversNeedQuit
<1> QED BY <1>1, <1>2, <1>3, <1>4, <1>5, <1>6, <1>7

LEMMA StepSendExit ==
    ASSUME Inv, SendExit
    PROVE  Order' /\ Stamps' /\ Flight' /\ Session' /\ Hearing' /\ Kept' /\ LeftoversNeedQuit'
<1> DEFINE p == Exit(num)
<1>a. /\ ~ Running /\ ~ Running' /\ ~ Sending' /\ ~ Sending /\ pc' = "idle" /\ Send(p)
      /\ since' = num + 1 /\ Items(toClient') = {} /\ InOrder(toClient', NoAckAfterProbe)
      /\ UNCHANGED <<num, kept, torn, quits>>
      /\ UNCHANGED <<spc, si, total, sess, stream, disk, leaked>>
  BY EmptyOrder DEF SendExit, Running, Sending, server
<1>c. p \in ClientPackets /\ p.t = num /\ p.kind = "exit"
  BY Entries DEF Inv, Exit, ClientPackets
<1>d. Garbled(p).t = num /\ Garbled(p).kind = "bad"
  BY <1>c, GarbledPacket
<1> HIDE DEF p
<1>e. /\ Items(toServer') \subseteq Items(toServer) \cup {p, Garbled(p)}
      /\ InOrder(toServer', Following)
  <2>1. \A y \in Items(toServer) : y.t <= p.t /\ (y.t = p.t /\ p.kind = "probe" => y.kind # "data")
    BY <1>c, Entries DEF Inv, Stamps
  <2> QED BY <1>a, <1>c, <2>1, Sent DEF Inv, TypeOK, Order
<1>1. Order'
  BY <1>a, <1>e DEF Order
<1>2. Stamps'
  BY <1>a, <1>c, <1>d, <1>e, Entries DEF Inv, Stamps, Open
<1>3. Flight'
  BY <1>a, <1>c, <1>d, <1>e, Entries DEF Inv, Flight, Stamps
<1>4. Session'
  BY <1>a, <1>c, <1>d, <1>e, Entries DEF Inv, Session, Open
<1>5. Hearing'
  BY <1>a DEF Hearing, NoProbeHeld
<1>6. Kept'
  BY <1>a, <1>c, <1>d, <1>e DEF Inv, Kept, file, Whole
<1>7. LeftoversNeedQuit'
  BY <1>a DEF Inv, LeftoversNeedQuit
<1> QED BY <1>1, <1>2, <1>3, <1>4, <1>5, <1>6, <1>7

\* What the server's answer does to the client's queue.
LEMMA Answered ==
    ASSUME TypeOK, Got \in ClientPackets, NEW kind \in {"probe", "ack"}, NEW n \in Nat, Reply(Got, kind, n)
    PROVE  /\ \A x \in Items(toClient') :
                 \/ x \in Items(toClient)
                 \/ Got.t >= since /\ x.t = Got.t /\ x.kind = kind /\ x.no = n
                 \/ Got.t >= since /\ x.t = Got.t /\ x.kind = "bad"
           /\ InOrder(toClient, NoAckAfterProbe) /\
                (kind = "ack" /\ Got.t >= since => \A y \in Items(toClient) : y.kind # "probe")
                 => InOrder(toClient', NoAckAfterProbe)
           /\ InOrder(toClient, NoProbeAfterAck) /\
                (kind = "probe" /\ Got.t >= since => \A y \in Items(toClient) : y.kind # "ack")
                 => InOrder(toClient', NoProbeAfterAck)
<1>1. toClient \in Seq(Answers) /\ faults \in Nat /\ since \in Nat /\ Got.t \in Nat
  BY DEF TypeOK, ClientPackets
<1>2. Got.t < since => toClient' = toClient
  BY <1>1, Replied
<1>3. ~ (Got.t < since) =>
        /\ \A x \in Items(toClient') :
              \/ x \in Items(toClient)
              \/ x.t = Got.t /\ x.kind = kind /\ x.no = n
              \/ x.t = Got.t /\ x.kind = "bad"
        /\ InOrder(toClient, NoAckAfterProbe) /\ (kind = "ack" => \A y \in Items(toClient) : y.kind # "probe")
              => InOrder(toClient', NoAckAfterProbe)
        /\ InOrder(toClient, NoProbeAfterAck) /\ (kind = "probe" => \A y \in Items(toClient) : y.kind # "ack")
              => InOrder(toClient', NoProbeAfterAck)
  BY <1>1, Replied
<1>4. Got.t < since \/ Got.t >= since
  BY <1>1
<1> QED BY <1>1, <1>2, <1>3, <1>4

LEMMA StepAcceptProbe ==
    ASSUME Inv, AcceptProbe
    PROVE  Order' /\ Stamps' /\ Flight' /\ Session' /\ Hearing' /\ Kept' /\ LeftoversNeedQuit'
<1>a. /\ UNCHANGED <<pc, i, sending, num, since>> /\ UNCHANGED <<kept, torn, quits>>
      /\ (Running' <=> Running) /\ (Sending' <=> Sending)
      /\ spc = "main" /\ Gets({"probe"}) /\ Reply(Got, "probe", 0)
  BY GotFacts DEF Inv, AcceptProbe, client, Running, Sending
<1>b. /\ Items(toServer') \subseteq Items(toServer) /\ InOrder(toServer', Following)
      /\ Got \in Items(toServer) /\ Got \in ClientPackets /\ Got.kind = "probe"
      /\ Got.t \in Nat /\ Got.no \in Nat /\ Got.t <= num /\ sess <= Got.t
      /\ \A y \in Items(toServer') : Got.t <= y.t
  BY <1>a, GotFacts, Entries DEF Inv, Order, Stamps
\* A client that has heard of the current put has not left a probe that matters.
<1>c. Got.t >= since \/ Sending => Got.no = 0 \/ (Running /\ Got.t = num)
  BY <1>a, <1>b, Entries DEF Inv, Flight, Stamps
<1>d. Got.t >= since => \A y \in Items(toClient) : Sending => y.kind # "ack"
  BY <1>a, <1>b DEF Inv, Hearing, Running, Sending, PastProbes
<1>e. \A x \in Items(toClient') :
          \/ x \in Items(toClient)
          \/ Got.t >= since /\ x.t = Got.t /\ x.kind = "probe" /\ x.no = 0
          \/ Got.t >= since /\ x.t = Got.t /\ x.kind = "bad"
  BY <1>a, <1>b, Answered DEF Inv
<1>f. ~ (Sending /\ i > 0) /\ \A y \in Items(toClient) : Running /\ y.kind = "ack" => y.t # num
  BY <1>b DEF Inv, Hearing, PastProbes
<1>1. Order'
  <2>1. Sending => InOrder(toClient', NoProbeAfterAck)
    BY <1>a, <1>b, <1>d, Answered DEF Inv, Order
  <2>2. ~ Sending => InOrder(toClient', NoAckAfterProbe)
    BY <1>a, <1>b, Answered DEF Inv, Order
  <2> QED BY <1>a, <1>b, <2>1, <2>2 DEF Order
<1>2. ASSUME sess' \in {sess, Got.t}, Open' => sess' > 0 PROVE Stamps'
  BY <1>2, <1>a, <1>b, <1>e, Entries DEF Inv, Stamps
<1>3. ASSUME Got.no = 0 PROVE Order' /\ Stamps' /\ Flight' /\ Session' /\ Hearing' /\ Kept' /\ LeftoversNeedQuit'
  <2>1. UNCHANGED <<spc, si, total, sess, stream, disk, leaked>>
    BY <1>3 DEF AcceptProbe, server
  <2>2. ~ Open /\ ~ Open'
    BY <1>a, <2>1 DEF Open
  <2>3. Stamps'
    BY <1>2, <2>1, <2>2
  <2>4. Flight'
    BY <1>a, <1>b, <2>1 DEF Inv, Flight
  <2>5. Session'
    BY <2>2 DEF Session, Open
  <2>6. Hearing'
    BY <1>a, <1>b, <1>e, <1>f, <2>2, Entries DEF Inv, Hearing
  <2>7. Kept'
    BY <1>a, <1>b, <2>1 DEF Inv, Kept, file, Whole
  <2>8. LeftoversNeedQuit'
    BY <1>a, <2>1 DEF Inv, LeftoversNeedQuit
  <2> QED BY <1>1, <2>3, <2>4, <2>5, <2>6, <2>7, <2>8
<1>4. ASSUME Got.no # 0 PROVE Order' /\ Stamps' /\ Flight' /\ Session' /\ Hearing' /\ Kept' /\ LeftoversNeedQuit'
  <2>1. /\ spc' = "recv" /\ si' = 0 /\ total' = Got.no /\ sess' = Got.t
        /\ stream' = <<>> /\ disk' = <<>> /\ leaked' = leaked /\ Open'
    BY <1>4 DEF AcceptProbe, Open
  <2>2. (Got.t < since /\ ~ Sending) \/ (Running /\ Got.t = num)
    BY <1>4, <1>b, <1>c, Entries DEF Inv
  <2>3. quits > 0 \/ (Running /\ Got.t = num)
    BY <1>4, <1>a, <1>b, Entries DEF Inv, Flight
  <2>4. Stamps'
    <3>1. sess' > 0
      BY <2>1, <2>2, <1>a, <1>b, Entries DEF Inv, Stamps
    <3> QED BY <1>2, <2>1, <3>1
  <2>5. Flight'
    BY <1>a, <1>b, <2>1, <2>2, Entries DEF Inv, Flight, Stamps
  <2>6. Session'
    <3>1. Running /\ Got.t = num => total' = Packets[sending]
      BY <1>b, <2>1 DEF Inv, Flight
    <3>2. SubSeq(Whole(sending), 1, 0) = <<>>
      OBVIOUS
    <3> QED BY <1>4, <1>a, <1>b, <2>1, <2>3, <3>1, <3>2 DEF Session, Whole, Open
  <2>7. Hearing'
    BY <1>a, <1>b, <1>e, <1>f, <2>1, <2>2, Entries DEF Inv, Hearing, Stamps, NoProbeHeld
  <2>8. Kept'
    BY <1>4, <1>a, <1>b DEF Inv, Kept
  <2>9. LeftoversNeedQuit'
    BY <1>a, <2>1 DEF Inv, LeftoversNeedQuit
  <2> QED BY <1>1, <2>4, <2>5, <2>6, <2>7, <2>8, <2>9
<1> QED BY <1>3, <1>4

\* A data packet in recv_file whose sender still listens is of the current put.
LEMMA DataInRecv ==
    ASSUME Inv, spc = "recv", Got \in Items(toServer), Got.kind = "data"
    PROVE  /\ Got.t >= since => Sending /\ Running /\ Got.t = num /\ sess = num
           /\ Running /\ sess = num => Sending /\ Got.t = num
           /\ Sending => sess = num
           /\ Got.t = num /\ Running => Got.no <= i /\ Got.of = sending
<1>1. Got.t \in Nat /\ Got.t <= num /\ sess <= Got.t
  BY Entries DEF Inv, Stamps
<1>2. Got.t >= since => Running /\ Got.t = num
  BY <1>1, Entries DEF Inv, Flight
<1>3. Running /\ Got.t = num => Sending
  BY DEF Inv, Flight
<1>4. Sending => sess = num
  BY DEF Inv, Hearing, Open
<1>5. Running /\ sess = num => Got.t = num
  BY <1>1, Entries DEF Inv
<1> QED BY <1>2, <1>3, <1>4, <1>5 DEF Inv, Flight

\* Both answers to a data packet: what the client is about to hear is true.
LEMMA AckedData ==
    ASSUME Inv, spc = "recv", Gets({"data"}), NEW n \in Nat, Reply(Got, "ack", n),
           spc' \in {"recv", "closing"}, si' \in Nat, spc' = "recv" => n + 1 <= si' /\ si <= si',
           UNCHANGED <<total, sess, disk, leaked>>
    PROVE  Order' /\ Stamps' /\ Flight' /\ Hearing' /\ Kept' /\ LeftoversNeedQuit'
<1>a. /\ UNCHANGED <<pc, i, sending, num, since>> /\ UNCHANGED <<kept, torn, quits>>
      /\ (Running' <=> Running) /\ (Sending' <=> Sending) /\ Open /\ Open'
  BY GotFacts DEF Inv, client, Running, Sending, Open
<1>b. /\ Items(toServer') \subseteq Items(toServer) /\ InOrder(toServer', Following)
      /\ Got \in Items(toServer) /\ Got \in ClientPackets /\ Got.kind = "data"
      /\ \A y \in Items(toServer') : Got.t <= y.t /\ (Got.t = y.t => y.kind # "probe")
      /\ Got.t \in Nat
  BY GotFacts, Entries DEF Inv, Order
<1>c. /\ Got.t >= since => Sending /\ Running /\ Got.t = num /\ sess = num
      /\ Sending => sess = num
  BY <1>b, DataInRecv
<1>d. \A x \in Items(toClient') :
          \/ x \in Items(toClient)
          \/ Got.t >= since /\ x.t = Got.t /\ x.kind = "ack" /\ x.no = n
          \/ Got.t >= since /\ x.t = Got.t /\ x.kind = "bad"
  BY <1>b, Answered DEF Inv
<1>1. Order'
  <2>1. Sending => InOrder(toClient', NoProbeAfterAck)
    BY <1>b, Answered DEF Inv, Order
  <2>2. ~ Sending => InOrder(toClient', NoAckAfterProbe)
    BY <1>b, <1>c, Answered DEF Inv, Order
  <2> QED BY <1>a, <1>b, <2>1, <2>2 DEF Order
<1>2. Stamps'
  BY <1>a, <1>b, <1>c, <1>d, Entries DEF Inv, Stamps
<1>3. Flight'
  BY <1>a, <1>b DEF Inv, Flight
<1>4. Hearing'
  <2>1. \A m \in Nat : Reached(m) /\ m <= si => sess' = num' /\ ((spc' = "recv" /\ m <= si') \/ spc' = "closing")
    BY <1>a, Entries DEF Inv, Reached
  <2>2. \A m \in Nat : Reached(m) => m <= si
    BY DEF Reached
  <2>3. Got.t >= since => PastProbes'
    BY <1>a, <1>b, <1>c, Entries DEF Inv, PastProbes, Stamps
  <2>4. Got.t >= since => sess' = num' /\ ((spc' = "recv" /\ n + 1 <= si') \/ spc' = "closing")
    BY <1>a, <1>c
  <2>5. PastProbes => PastProbes'
    BY <1>a, <1>b DEF PastProbes
  <2>6. Sending' => /\ i' < Packets[sending']
                    /\ Open' => sess' = num'
                    /\ \A x \in Items(toClient') : x.kind = "ack" => x.t = num'
    BY <1>a, <1>c, <1>d DEF Inv, Hearing
  <2>7. Sending' /\ i' > 0 => Reached(i)' /\ PastProbes' /\ NoProbeHeld'
    <3>1. Sending /\ i > 0 => Reached(i) /\ PastProbes /\ NoProbeHeld
      BY DEF Inv, Hearing
    <3>2. NoProbeHeld => NoProbeHeld'
      BY <1>d DEF NoProbeHeld
    <3> QED BY <1>a, <2>1, <2>2, <2>5, <3>1, <3>2, Entries DEF Inv, Reached
  <2>8. ASSUME Running', NEW x \in Items(toClient'), x.kind = "ack", x.t = num'
        PROVE  Sending' /\ sess' = num' /\ ((spc' = "recv" /\ x.no + 1 <= si') \/ spc' = "closing") /\ PastProbes'
    <3>1. CASE x \in Items(toClient)
      <4>1. Sending /\ Reached(x.no + 1) /\ PastProbes /\ x.no + 1 \in Nat
        BY <1>a, <2>8, <3>1, Entries DEF Inv, Hearing
      <4> QED BY <1>a, <2>1, <2>2, <2>5, <4>1
    <3>2. CASE x \notin Items(toClient)
      BY <1>a, <1>c, <1>d, <2>3, <2>4, <2>8, <3>2
    <3> QED BY <3>1, <3>2
  <2>9. ~ NoProbeHeld' => IF Running' THEN Open' => sess' = num' ELSE ~ Open'
    BY <1>a, <1>d DEF Inv, Hearing, NoProbeHeld
  <2> QED BY <2>6, <2>7, <2>8, <2>9 DEF Hearing, Reached
<1>5. Kept'
  BY <1>a DEF Inv, Kept
<1>6. LeftoversNeedQuit'
  BY <1>a DEF Inv, LeftoversNeedQuit
<1> QED BY <1>1, <1>2, <1>3, <1>4, <1>5, <1>6

LEMMA StepAckAgain ==
    ASSUME Inv, AckAgain
    PROVE  Order' /\ Stamps' /\ Flight' /\ Session' /\ Hearing' /\ Kept' /\ LeftoversNeedQuit'
<1>1. /\ spc = "recv" /\ Gets({"data"}) /\ Got.no < si /\ Reply(Got, "ack", Got.no)
      /\ UNCHANGED <<spc, si, total, sess, stream, disk, leaked>>
  BY DEF AckAgain, server
<1>2. Got.no \in Nat /\ Got.no + 1 <= si
  BY <1>1, GotFacts, Entries DEF Inv
<1>3. Session'
  BY <1>1, GotFacts DEF Inv, Session, Open, Running, Whole, client
<1> QED BY <1>1, <1>2, <1>3, AckedData, Entries DEF Inv

LEMMA StepStoreData ==
    ASSUME Inv, StoreData
    PROVE  Order' /\ Stamps' /\ Flight' /\ Session' /\ Hearing' /\ Kept' /\ LeftoversNeedQuit'
<1>1. /\ spc = "recv" /\ Gets({"data"}) /\ Got.no >= si /\ Reply(Got, "ack", si)
      /\ stream' = Append(stream, <<Got.of, Got.no>>) /\ si' = si + 1
      /\ spc' = IF si + 1 = total THEN "closing" ELSE "recv"
      /\ UNCHANGED <<total, sess, disk, leaked>> /\ si \in Nat
  BY Entries DEF Inv, StoreData
<1>2. /\ UNCHANGED <<pc, i, sending, num, since>> /\ UNCHANGED <<kept, torn, quits>>
      /\ Items(toServer') \subseteq Items(toServer)
      /\ Got \in Items(toServer) /\ Got \in ClientPackets /\ Got.kind = "data" /\ Got.no \in Nat
      /\ \A y \in Items(toServer') : Got.t <= y.t /\ (Got.t = y.t => y.kind # "probe")
      /\ (Running' <=> Running)
  BY <1>1, GotFacts, Entries DEF Inv, Order, client, Running
<1>3. Running /\ sess = num =>
          /\ total = Packets[sending] /\ si < total
          /\ stream' = SubSeq(Whole(sending), 1, si + 1)
  <2> SUFFICES ASSUME Running, sess = num
               PROVE  /\ total = Packets[sending] /\ si < total
                      /\ stream' = SubSeq(Whole(sending), 1, si + 1)
    OBVIOUS
  <2>1. Sending /\ Got.t = num /\ Got.no <= i /\ Got.of = sending
    BY <1>1, <1>2, DataInRecv
  <2>2. i > 0 => i <= si
    BY <1>1, <2>1 DEF Inv, Hearing, Reached
  <2>3. Got.no = si
    BY <1>1, <1>2, <2>1, <2>2, Entries DEF Inv
  <2>4. total = Packets[sending] /\ si < total /\ stream = SubSeq(Whole(sending), 1, si)
    BY <1>1 DEF Inv, Session, Open, TypeOK
  <2>5. Append(SubSeq(Whole(sending), 1, si), <<sending, si>>) = SubSeq(Whole(sending), 1, si + 1)
    <3>1. total \in Nat /\ si \in Nat
      BY Entries DEF Inv
    <3> QED BY <2>4, <3>1 DEF Whole
  <2> QED BY <1>1, <2>1, <2>3, <2>4, <2>5
<1>4. Session'
  <2>1. pc = "probe" => ~ (sess = num)
    BY <1>1, <1>2, DataInRecv DEF Running, Sending
  <2>2. \A y \in Items(toServer') : y.t = sess => y.kind # "probe"
    BY <1>2, Entries DEF Inv, Stamps
  <2>3. total > 0 /\ (quits = 0 => Running /\ sess = num)
    BY <1>1 DEF Inv, Session, Open
  <2>4. Running' /\ Open' /\ sess' = num' =>
            total' = Packets[sending'] /\ stream' = SubSeq(Whole(sending'), 1, si')
    BY <1>1, <1>2, <1>3
  <2>5. spc' = "closing" => si' = total'
    BY <1>1
  <2>6. si' > 0 /\ si' # 0
    BY <1>1
  <2>7. Whole(sending)' = Whole(sending')
    BY DEF Whole
  <2> QED BY <1>1, <1>2, <2>1, <2>2, <2>3, <2>4, <2>5, <2>6, <2>7 DEF Session
<1>5. spc' \in {"recv", "closing"} /\ si' \in Nat /\ si + 1 <= si' /\ si <= si'
  BY <1>1
<1> QED BY <1>1, <1>4, <1>5, AckedData

\* A packet that the server takes and does not answer, its FILE being left as it is.
LEMMA StepIgnore ==
    ASSUME Inv, Ignore
    PROVE  Order' /\ Stamps' /\ Flight' /\ Session' /\ Hearing' /\ Kept' /\ LeftoversNeedQuit'
<1>1. PICK kinds : Gets(kinds)
  BY DEF Ignore
<1>a. /\ UNCHANGED <<pc, i, sending, num, since>> /\ UNCHANGED <<kept, torn, quits, toClient>>
      /\ UNCHANGED <<spc, si, total, sess, stream, disk, leaked>>
      /\ Items(toServer') \subseteq Items(toServer) /\ InOrder(toServer', Following)
  BY <1>1, GotFacts DEF Inv, Ignore, Order, client, server
<1>b. (Running' <=> Running) /\ (Sending' <=> Sending) /\ (Open' <=> Open) /\ (NoProbeHeld' <=> NoProbeHeld)
  BY <1>a DEF Running, Sending, Open, NoProbeHeld
<1>2. Order'
  BY <1>a, <1>b DEF Inv, Order
<1>3. Stamps'
  BY <1>a, <1>b DEF Inv, Stamps
<1>4. Flight'
  BY <1>a, <1>b DEF Inv, Flight
<1>5. Session'
  BY <1>a, <1>b DEF Inv, Session, Whole
<1>6. Hearing'
  BY <1>a, <1>b DEF Inv, Hearing, Reached, PastProbes, Whole
<1>7. Kept'
  BY <1>a, <1>b DEF Inv, Kept, file, Whole
<1>8. LeftoversNeedQuit'
  BY <1>a DEF Inv, LeftoversNeedQuit
<1> QED BY <1>2, <1>3, <1>4, <1>5, <1>6, <1>7, <1>8

\* An exit command is older than what the client has heard of.
LEMMA StepObeyExit ==
    ASSUME Inv, ObeyExit
    PROVE  Order' /\ Stamps' /\ Flight' /\ Session' /\ Hearing' /\ Kept' /\ LeftoversNeedQuit'
<1>a. /\ UNCHANGED <<pc, i, sending, num, since>> /\ UNCHANGED <<kept, torn, quits, toClient>>
      /\ UNCHANGED <<si, total, sess, stream, disk, leaked>> /\ spc = "main" /\ spc' = "exiting"
      /\ Items(toServer') \subseteq Items(toServer) /\ InOrder(toServer', Following)
      /\ Got \in Items(toServer) /\ Got.kind = "exit"
  BY GotFacts DEF Inv, ObeyExit, Order, client
<1>b. (Running' <=> Running) /\ (Sending' <=> Sending) /\ ~ Open' /\ (NoProbeHeld' <=> NoProbeHeld)
  BY <1>a DEF Running, Sending, Open, NoProbeHeld
<1>c. Running => ~ PastProbes
  BY <1>a, Entries DEF Inv, PastProbes, Stamps
<1>2. Order'
  BY <1>a, <1>b DEF Inv, Order
<1>3. Stamps'
  BY <1>a, <1>b DEF Inv, Stamps
<1>4. Flight'
  BY <1>a, <1>b DEF Inv, Flight
<1>5. Session'
  BY <1>a, <1>b DEF Session
<1>6. Hearing'
  BY <1>a, <1>b, <1>c DEF Inv, Hearing, Running, Sending
<1>7. Kept'
  BY <1>a, <1>b DEF Inv, Kept, file, Whole
<1>8. LeftoversNeedQuit'
  BY <1>a DEF Inv, LeftoversNeedQuit
<1> QED BY <1>2, <1>3, <1>4, <1>5, <1>6, <1>7, <1>8

\* A packet that aborts recv_file finds its buffer empty, unless a put was interrupted.
LEMMA StepAbortReceive ==
    ASSUME Inv, AbortReceive
    PROVE  Order' /\ Stamps' /\ Flight' /\ Session' /\ Hearing' /\ Kept' /\ LeftoversNeedQuit'
<1>a. /\ UNCHANGED <<pc, i, sending, num, since>> /\ UNCHANGED <<kept, torn, quits, toClient>>
      /\ UNCHANGED <<si, total, sess, stream>> /\ spc = "recv" /\ spc' = "main"
      /\ Items(toServer') \subseteq Items(toServer) /\ InOrder(toServer', Following)
      /\ Got \in Items(toServer) /\ Got.kind \in {"probe", "exit"}
  BY GotFacts DEF Inv, AbortReceive, Order, client
<1>b. (Running' <=> Running) /\ (Sending' <=> Sending) /\ ~ Open' /\ (NoProbeHeld' <=> NoProbeHeld) /\ Open
  BY <1>a DEF Running, Sending, Open, NoProbeHeld
<1>c. Running => ~ PastProbes
  BY <1>a, Entries DEF Inv, PastProbes, Stamps
<1>2. Order'
  BY <1>a, <1>b DEF Inv, Order
<1>3. Stamps'
  BY <1>a, <1>b DEF Inv, Stamps
<1>4. Flight'
  BY <1>a, <1>b DEF Inv, Flight
<1>5. Session'
  BY <1>a, <1>b DEF Session
<1>6. Hearing'
  BY <1>a, <1>b, <1>c DEF Inv, Hearing, Running, Sending
<1>7. Kept'
  BY <1>a, <1>b DEF Inv, Kept
<1>8. LeftoversNeedQuit'
  <2>1. CASE quits > 0
    BY <1>a, <2>1 DEF LeftoversNeedQuit
  <2>2. CASE quits = 0
    <3>1. Running /\ sess = num /\ Got.t = num /\ Got.kind = "probe"
      BY <1>a, <2>2, Entries DEF Inv, Session, Stamps
    <3>2. stream = <<>>
      BY <1>a, <3>1, Entries DEF Inv, Session
    <3>3. leaked = <<>>
      BY <2>2, Entries DEF Inv, LeftoversNeedQuit
    <3>4. leaked' = leaked
      <4>1. Len(stream) = 0 /\ 0 .. 0 = {0}
        BY <3>2
      <4>2. \A m \in Flushed : m = Len(stream)
        BY <4>1 DEF Flushed
      <4> QED BY <4>2 DEF AbortReceive
    <3> QED BY <3>3, <3>4 DEF LeftoversNeedQuit
  <2> QED BY <2>1, <2>2, Entries DEF Inv
<1> QED BY <1>2, <1>3, <1>4, <1>5, <1>6, <1>7, <1>8

\* What the server does on its own leaves the client and the queues alone.
LEMMA Alone ==
    ASSUME Inv, UNCHANGED <<pc, i, sending, num, since>>, UNCHANGED <<toServer, toClient, quits>>,
           sess' = sess, Open' => Open, torn <= torn' /\ torn' <= sess, torn' \in Nat,
           spc' = "recv" => spc = "recv",
           Running => \A m \in Nat : Reached(m) => Reached(m)'
    PROVE  Order' /\ Stamps' /\ Flight' /\ Hearing'
<1>b. (Running' <=> Running) /\ (Sending' <=> Sending) /\ (NoProbeHeld' <=> NoProbeHeld)
      /\ (PastProbes' <=> PastProbes)
  BY DEF Running, Sending, NoProbeHeld, PastProbes
<1>1. Order'
  BY <1>b DEF Inv, Order
<1>2. Stamps'
  BY <1>b, Entries DEF Inv, Stamps
<1>3. Flight'
  BY <1>b DEF Inv, Flight
<1>4. Hearing'
  <2>1. Sending' /\ i' > 0 => Reached(i)' /\ PastProbes' /\ NoProbeHeld'
    <3>1. Sending /\ i > 0 => Running /\ i \in Nat /\ Reached(i) /\ PastProbes /\ NoProbeHeld
      BY Entries DEF Inv, Hearing
    <3> QED BY <1>b, <3>1 DEF Reached
  <2>2. Running' => \A x \in Items(toClient') :
            x.kind = "ack" /\ x.t = num' => Sending' /\ Reached(x.no + 1)' /\ PastProbes'
    BY <1>b, Entries DEF Inv, Hearing
  <2> QED BY <1>b, <2>1, <2>2 DEF Inv, Hearing
<1> QED BY <1>1, <1>2, <1>3, <1>4

LEMMA StepClose ==
    ASSUME Inv, Close
    PROVE  Order' /\ Stamps' /\ Flight' /\ Session' /\ Hearing' /\ Kept' /\ LeftoversNeedQuit'
<1>a. /\ UNCHANGED <<pc, i, sending, num, since>> /\ UNCHANGED <<kept, torn, quits>>
      /\ UNCHANGED <<toServer, toClient>>
      /\ UNCHANGED <<si, total, sess, stream, leaked>> /\ spc = "closing" /\ spc' = "main" /\ disk' = stream
  BY DEF Close, client, network
<1>b. Open /\ ~ Open' /\ (Running' <=> Running)
  BY <1>a DEF Open, Running
<1>1. ASSUME Running, sess = num PROVE stream = Whole(sending)
  <2>1. stream = SubSeq(Whole(sending), 1, Packets[sending])
    BY <1>1, <1>a, <1>b DEF Inv, Session
  <2>2. Packets[sending] \in Nat
    BY <1>1, Entries, Constants DEF Inv
  <2>3. SubSeq(Whole(sending), 1, Packets[sending]) = Whole(sending)
    BY <2>2 DEF Whole
  <2> QED BY <2>1, <2>3
<1>2. Running => \A m \in Nat : Reached(m) => Reached(m)'
  BY <1>a, <1>1 DEF Reached, Whole
<1>3. Order' /\ Stamps' /\ Flight' /\ Hearing'
  BY <1>a, <1>b, <1>2, Alone, Entries DEF Inv, Stamps
<1>4. Session'
  BY <1>a, <1>b DEF Session
<1>5. Kept'
  BY <1>a, <1>b DEF Inv, Kept, file, Whole
<1>6. LeftoversNeedQuit'
  BY <1>a DEF Inv, LeftoversNeedQuit
<1> QED BY <1>3, <1>4, <1>5, <1>6

LEMMA StepFlushAtExit ==
    ASSUME Inv, FlushAtExit
    PROVE  Order' /\ Stamps' /\ Flight' /\ Session' /\ Hearing' /\ Kept' /\ LeftoversNeedQuit'
<1>a. /\ UNCHANGED <<pc, i, sending, num, since>> /\ UNCHANGED <<torn, quits>>
      /\ UNCHANGED <<toServer, toClient>>
      /\ UNCHANGED <<si, total, sess, stream>> /\ spc = "exiting" /\ spc' \in {"exiting", "down"}
  BY DEF FlushAtExit, client, network
<1>b. ~ Open' /\ (Running' <=> Running)
  BY <1>a DEF Open, Running
<1>c. \A m \in Nat : ~ Reached(m)
  BY <1>a DEF Reached
<1>3. Order' /\ Stamps' /\ Flight' /\ Hearing'
  BY <1>a, <1>b, <1>c, Alone, Entries DEF Inv, Stamps
<1>4. Session'
  BY <1>a, <1>b DEF Session
<1>5. Kept'
  <2>1. kept' # None => UNCHANGED <<kept, disk>>
    BY DEF FlushAtExit
  <2> QED BY <1>a, <1>b, <2>1 DEF Inv, Kept, file, Whole
<1>6. LeftoversNeedQuit'
  <2>1. leaked' # <<>> => leaked # <<>>
    BY DEF FlushAtExit
  <2> QED BY <1>a, <2>1 DEF Inv, LeftoversNeedQuit
<1> QED BY <1>3, <1>4, <1>5, <1>6

LEMMA StepKill ==
    ASSUME Inv, Kill
    PROVE  Order' /\ Stamps' /\ Flight' /\ Session' /\ Hearing' /\ Kept' /\ LeftoversNeedQuit'
<1>a. /\ UNCHANGED <<pc, i, sending, num, since>> /\ UNCHANGED <<toServer, toClient, quits>>
      /\ UNCHANGED <<si, total, sess, stream>> /\ spc # "down" /\ spc' = "down" /\ leaked' = <<>>
  BY DEF Kill, client, network
<1>b. ~ Open' /\ (Running' <=> Running)
  BY <1>a DEF Open, Running
<1>c. IF Open THEN torn' = sess /\ kept' = None ELSE UNCHANGED <<disk, torn, kept>>
  BY DEF Kill, Open
<1>2. Running => \A m \in Nat : Reached(m) => Reached(m)'
  BY <1>a, <1>c DEF Reached, Whole, Open
<1>3. Order' /\ Stamps' /\ Flight' /\ Hearing'
  <2>1. torn <= torn' /\ torn' <= sess /\ torn' \in Nat
    BY <1>c, Entries DEF Inv, Stamps
  <2> QED BY <1>a, <1>b, <1>2, <2>1, Alone
<1>4. Session'
  BY <1>a, <1>b DEF Session
<1>5. Kept'
  BY <1>a, <1>b, <1>c DEF Inv, Kept, file, Whole, Open
<1>6. LeftoversNeedQuit'
  BY <1>a DEF LeftoversNeedQuit
<1> QED BY <1>3, <1>4, <1>5, <1>6

LEMMA StepStartServer ==
    ASSUME Inv, StartServer
    PROVE  Order' /\ Stamps' /\ Flight' /\ Session' /\ Hearing' /\ Kept' /\ LeftoversNeedQuit'
<1>a. /\ UNCHANGED <<pc, i, sending, num, since>> /\ UNCHANGED <<kept, torn, quits>>
      /\ UNCHANGED <<toServer, toClient>>
      /\ UNCHANGED <<si, total, sess, stream, disk, leaked>> /\ spc = "down" /\ spc' = "main"
  BY DEF StartServer, client, network
<1>b. ~ Open' /\ (Running' <=> Running)
  BY <1>a DEF Open, Running
<1>2. Running => \A m \in Nat : Reached(m) => Reached(m)'
  BY <1>a DEF Reached, Whole
<1>3. Order' /\ Stamps' /\ Flight' /\ Hearing'
  BY <1>a, <1>b, <1>2, Alone, Entries DEF Inv, Stamps
<1>4. Session'
  BY <1>a, <1>b DEF Session
<1>5. Kept'
  BY <1>a, <1>b DEF Inv, Kept, file, Whole
<1>6. LeftoversNeedQuit'
  BY <1>a DEF Inv, LeftoversNeedQuit
<1> QED BY <1>3, <1>4, <1>5, <1>6

LEMMA StepStutter ==
    ASSUME Inv, UNCHANGED vars
    PROVE  Order' /\ Stamps' /\ Flight' /\ Session' /\ Hearing' /\ Kept' /\ LeftoversNeedQuit'
<1>a. /\ UNCHANGED <<pc, i, sending, num, since>> /\ UNCHANGED <<kept, torn, quits>>
      /\ UNCHANGED <<toServer, toClient>>
      /\ UNCHANGED <<spc, si, total, sess, stream, disk, leaked>>
  BY DEF vars, client, server, network
<1>b. (Open' <=> Open) /\ (Running' <=> Running)
  BY <1>a DEF Open, Running
<1>2. Running => \A m \in Nat : Reached(m) => Reached(m)'
  BY <1>a DEF Reached, Whole
<1>3. Order' /\ Stamps' /\ Flight' /\ Hearing'
  BY <1>a, <1>b, <1>2, Alone, Entries DEF Inv, Stamps
<1>4. Session'
  BY <1>a, <1>b DEF Inv, Session, Whole
<1>5. Kept'
  BY <1>a, <1>b DEF Inv, Kept, file, Whole
<1>6. LeftoversNeedQuit'
  BY <1>a DEF Inv, LeftoversNeedQuit
<1> QED BY <1>3, <1>4, <1>5, <1>6

LEMMA InvInit == Init => Inv
<1> SUFFICES ASSUME Init PROVE Inv
  OBVIOUS
<1>1. TypeOK /\ LeftoversHaveFile
  BY TypeInit DEF Init, LeftoversHaveFile
<1>2. Items(toServer) = {} /\ Items(toClient) = {} /\ Order
  BY EmptyOrder DEF Init, Order
<1>3. Stamps /\ Flight /\ Session /\ Hearing /\ Kept /\ LeftoversNeedQuit
  BY <1>2 DEF Init, Stamps, Flight, Session, Hearing, Kept, LeftoversNeedQuit, Running, Sending, Open,
              NoProbeHeld
<1> QED BY <1>1, <1>2, <1>3 DEF Inv

LEMMA InvStep == Inv /\ [Next]_vars => Inv'
<1> SUFFICES ASSUME Inv, [Next]_vars PROVE Inv'
  OBVIOUS
<1>1. TypeOK' /\ LeftoversHaveFile'
  BY TypeStep, LeftoverStep DEF Inv
<1>2. Order' /\ Stamps' /\ Flight' /\ Session' /\ Hearing' /\ Kept' /\ LeftoversNeedQuit'
  BY StepStartPut, StepProbeAnswered, StepRightAck, StepWrongFlag, StepWrongAck, StepTimeout, StepQuit,
     StepSendExit, StepAcceptProbe, StepStoreData, StepAckAgain, StepClose, StepAbortReceive,
     StepIgnore, StepObeyExit, StepFlushAtExit, StepKill, StepStartServer, StepStutter
     DEF Next, ClientHears, ServerStep, User
<1> QED BY <1>1, <1>2 DEF Inv

LEMMA InvHolds == Spec => []Inv
BY InvInit, InvStep, PTL DEF Spec

-----------------------------------------------------------------------------
(* What follows.                                                           *)

\* A put that has returned left exactly its file on the server, until the next put.
THEOREM ReturnedPutIsStored == Spec => []DoneMeansStored
<1>1. Inv => DoneMeansStored
  BY DEF Inv, Kept, DoneMeansStored
<1> QED BY <1>1, InvHolds, PTL

\* The client never counts a packet that its own session has not written at its place.
THEOREM ClientNeverAhead == Spec => []NeverAhead
<1>1. Inv => NeverAhead
  <2> SUFFICES ASSUME Inv, Sending, i > 0, torn # num
               PROVE  /\ sess = num
                      /\ \/ spc = "recv" /\ i <= si /\ stream = SubSeq(Whole(sending), 1, si)
                         \/ spc # "recv" /\ file = Whole(sending)
    BY DEF NeverAhead, Sending
  <2>1. Reached(i) /\ Running /\ sess = num
    BY DEF Inv, Hearing, Reached, Sending, Running
  <2>2. Open => stream = SubSeq(Whole(sending), 1, si) /\ total = Packets[sending]
    BY <2>1 DEF Inv, Session
  <2>3. CASE spc = "recv"
    BY <2>1, <2>2, <2>3 DEF Reached, Open
  <2>4. CASE spc = "closing"
    <3>1. SubSeq(Whole(sending), 1, Packets[sending]) = Whole(sending)
      <4>1. Packets[sending] \in Nat
        BY <2>1, Entries, Constants DEF Inv
      <4> QED BY <4>1 DEF Whole
    <3>2. stream = Whole(sending)
      BY <2>2, <2>4, <3>1 DEF Inv, Session, Open
    <3> QED BY <2>1, <2>4, <3>2 DEF file
  <2>5. CASE spc \notin {"recv", "closing"}
    BY <2>1, <2>5 DEF Reached, file
  <2> QED BY <2>3, <2>4, <2>5
<1> QED BY <1>1, InvHolds, PTL

\* Only a put that was interrupted can leave data in an open FILE.
THEOREM LeftoversOnlyOfQuitters == Spec => []LeftoversNeedQuit
<1>1. Inv => LeftoversNeedQuit
  BY DEF Inv
<1> QED BY <1>1, InvHolds, PTL

-----------------------------------------------------------------------------
(* UftpPut implements FileTransfer.                                        *)

Promised == <<sending, file, kept, quits > 0 \/ torn > 0>>

LEMMA PromiseInit == Init => Promise!Init
BY DEF Init, Promise!Init, file

\* The client's steps between two packets, and all that is not about the file.
LEMMA Unpromised ==
    ASSUME UNCHANGED <<sending, kept, quits, torn>>, UNCHANGED <<spc, stream, disk>>
    PROVE  UNCHANGED Promised
BY DEF Promised, file

LEMMA PromiseGoOn ==
    ASSUME Inv, Running, NEW n \in Nat, GoOn(n), UNCHANGED <<spc, stream, disk>>, UNCHANGED <<quits, torn>>,
           n < Packets[sending] \/ Packets[sending] = 0 \/ (Sending /\ Reached(n))
    PROVE  Promise!Next \/ UNCHANGED Promised
<1>1. CASE n < Packets[sending]
  BY <1>1, Unpromised DEF GoOn
<1>2. CASE ~ (n < Packets[sending])
  <2>1. /\ sending # None /\ sending' = None /\ file' = file
        /\ kept' = IF Packets[sending] = 0 \/ torn = num THEN kept ELSE sending
    BY <1>2, Entries, Constants DEF Inv, GoOn, file
  <2>2. CASE Packets[sending] = 0
    BY <2>1, <2>2 DEF Promise!Next, Promise!Return
  <2>3. CASE Packets[sending] # 0 /\ torn = num
    <3>1. kept' = None /\ torn > 0
      BY <2>1, <2>3, Entries DEF Inv, Kept, Stamps
    <3> QED BY <2>1, <3>1 DEF Promise!Next, Promise!Spoil
  <2>4. CASE Packets[sending] # 0 /\ torn # num
    <3>1. n >= Packets[sending]
      BY <1>2, Entries, Constants DEF Inv
    <3>2. file = Whole(sending) /\ kept' = sending
      BY <1>2, <2>1, <2>4, <3>1, AllReached
    <3> QED BY <2>1, <2>4, <3>2 DEF Promise!Next, Promise!Return, Promise!Whole, Whole
  <2> QED BY <2>2, <2>3, <2>4
<1> QED BY <1>1, <1>2

\* The server may write while nothing is kept.
LEMMA PromiseStore ==
    ASSUME kept = None, UNCHANGED <<sending, kept, quits, torn>>
    PROVE  Promise!Next
BY DEF Promise!Next, Promise!Store

LEMMA PromiseStep ==
    ASSUME Inv, Inv', [Next]_vars
    PROVE  Promise!Next \/ UNCHANGED Promised
<1>0. spc = "recv" => kept = None
  BY DEF Inv, Kept
<1>1. ASSUME NEW c \in Contents, StartPut(c) PROVE Promise!Next
  <2>1. /\ sending = None /\ sending' = c /\ kept' = (IF Packets[c] = 0 THEN kept ELSE None)
        /\ UNCHANGED <<file, quits, torn>>
    BY <1>1 DEF Inv, TypeOK, StartPut, server, file
  <2> QED BY <2>1 DEF Promise!Next, Promise!Begin
<1>2. CASE ProbeAnswered
  <2>1. Running /\ GoOn(0) /\ UNCHANGED <<spc, stream, disk>> /\ UNCHANGED <<quits, torn>> /\ sending \in Contents
    BY <1>2, HeardFacts, Entries DEF Inv, ProbeAnswered, Running, server
  <2>2. 0 < Packets[sending] \/ Packets[sending] = 0
    BY <2>1, Constants
  <2> QED BY <2>1, <2>2, PromiseGoOn
<1>3. CASE RightAck
  <2>1. /\ Sending /\ Running /\ GoOn(i + 1) /\ Heard.kind = "ack" /\ Heard.no = i /\ Heard \in Items(toClient)
        /\ UNCHANGED <<spc, stream, disk>> /\ UNCHANGED <<quits, torn>>
    BY <1>3, HeardFacts DEF Inv, RightAck, Running, Sending, server
  <2>2. Reached(i + 1) /\ i + 1 \in Nat
    BY <2>1, Entries DEF Inv, Hearing
  <2> QED BY <2>1, <2>2, PromiseGoOn
<1>4. CASE WrongFlag \/ WrongAck
  <2>1. PICK kinds : Hears(kinds)
    BY <1>4 DEF WrongFlag, WrongAck
  <2> QED BY <1>4, <2>1, HeardFacts, Unpromised DEF Inv, WrongFlag, WrongAck, server
<1>5. CASE Timeout
  BY <1>5, Unpromised DEF Timeout, server
<1>6. CASE Quit
  <2>1. (quits > 0)' /\ sending' = None /\ UNCHANGED <<kept, file>>
    BY <1>6, Entries DEF Inv, Quit, server, file
  <2> QED BY <2>1 DEF Promise!Next, Promise!Disturb
<1>7. CASE SendExit
  BY <1>7, Unpromised DEF SendExit, server
<1>8. CASE AcceptProbe
  <2>1. Gets({"probe"}) /\ UNCHANGED <<sending, kept, quits, torn>> /\ Got \in Items(toServer) /\ Got.kind = "probe"
    BY <1>8, GotFacts DEF Inv, AcceptProbe, client
  <2>2. CASE Got.no = 0
    BY <1>8, <2>1, <2>2, Unpromised DEF AcceptProbe, server
  <2>3. CASE Got.no # 0
    <3>1. kept = None
      BY <2>1, <2>3 DEF Inv, Kept
    <3> QED BY <2>1, <3>1, PromiseStore
  <2> QED BY <2>2, <2>3
<1>9. CASE StoreData \/ AckAgain \/ AbortReceive
  <2>1. PICK kinds : Gets(kinds) /\ spc = "recv"
    BY <1>9 DEF StoreData, AckAgain, AbortReceive
  <2>2. UNCHANGED <<sending, kept, quits, torn>>
    BY <2>1, GotFacts DEF Inv, client
  <2> QED BY <1>0, <2>1, <2>2, PromiseStore
<1>10. CASE Ignore \/ ObeyExit
  <2>1. PICK kinds : Gets(kinds)
    BY <1>10 DEF Ignore, ObeyExit
  <2>2. UNCHANGED <<sending, kept, quits, torn>>
    BY <2>1, GotFacts DEF Inv, client
  <2>3. UNCHANGED file
    BY <1>10 DEF Ignore, ObeyExit, server, file
  <2> QED BY <2>2, <2>3 DEF Promised
<1>11. CASE Close
  BY <1>11 DEF Close, client, Promised, file
<1>12. CASE FlushAtExit
  <2>1. UNCHANGED <<sending, quits, torn>>
    BY <1>12 DEF FlushAtExit, client
  <2>2. CASE leaked = <<>>
    BY <1>12, <2>1, <2>2 DEF FlushAtExit, Promised, file
  <2>3. CASE leaked # <<>>
    <3>1. quits > 0 /\ kept' = None
      BY <1>12, <2>3 DEF FlushAtExit, Inv, LeftoversNeedQuit
    <3> QED BY <2>1, <3>1 DEF Promise!Next, Promise!Spoil
  <2> QED BY <2>2, <2>3
<1>13. CASE Kill
  <2>1. UNCHANGED <<sending, quits>>
    BY <1>13 DEF Kill, client
  <2>2. CASE Open
    <3>1. kept' = None /\ torn' > 0
      BY <1>13, <2>2, Entries DEF Kill, Open, Inv, Stamps
    <3> QED BY <2>1, <3>1 DEF Promise!Next, Promise!Disturb
  <2>3. CASE ~ Open
    BY <1>13, <2>1, <2>3 DEF Kill, Open, Promised, file
  <2> QED BY <2>2, <2>3
<1>14. CASE StartServer
  BY <1>14 DEF StartServer, client, Promised, file
<1>15. CASE UNCHANGED vars
  BY <1>15, Unpromised DEF vars, client, server
<1> QED
  BY <1>1, <1>2, <1>3, <1>4, <1>5, <1>6, <1>7, <1>8, <1>9, <1>10, <1>11, <1>12, <1>13, <1>14, <1>15
  DEF Next, ClientHears, ServerStep, User

\* The put command does what FileTransfer promises, over every network, user and server.
THEOREM PutKeepsItsPromise == Spec => KeepsPromise
<1>1. Spec => []Inv
  BY InvHolds
<1>2. Inv /\ Inv' /\ [Next]_vars => [Promise!Next]_Promised
  BY PromiseStep
<1>3. Init => Promise!Init
  BY PromiseInit
<1>4. Spec => Promise!Init /\ [][Promise!Next]_Promised
  BY <1>1, <1>2, <1>3, PTL DEF Spec
<1> QED BY <1>4 DEF KeepsPromise, Promise!Spec, Promised

=============================================================================
