---------------------------- MODULE UftpGetProof ----------------------------
(***************************************************************************)
(* Proofs about UftpGet, for every set of files and names, and for any      *)
(* number of commands, faults, early time limits and stops.  As in          *)
(* UftpPutProof the argument is about order: the network is two queues, so  *)
(* what a queue still holds tells what the other side has seen.             *)
(***************************************************************************)
EXTENDS UftpGet, TLAPS, SequenceTheorems

\* What each side can have sent.
ToServer ==
    {p \in Wire :
        \/ p.kind = "request" /\ [flag |-> p.flag, what |-> p.of] \in Commands
        \/ p.kind = "confirm" /\ p.flag \in {"get", "cmd"} /\ p.of = None
        \/ p.kind = "ack" /\ p.flag = "ack"
        \/ p.kind = "bad" /\ p.flag = "bad"}

ToClient ==
    {p \in Wire :
        \/ p.kind = "here" /\ p.flag \in {"get", "cmd"} /\ p.no = 0 /\ p.of = None
        \/ p.kind = "probe" /\ p.flag \in {"get", "cmd"} /\ p.of \in Names \cup {None}
        \/ p.kind = "data" /\ p.flag = "data" /\ p.of \in Names
        \/ p.kind = "bad" /\ p.flag = "bad"}

ClientTyped ==
    /\ pc \in {"idle", "ask", "await", "recv"}
    /\ cmd \in Commands \cup {None}
    /\ ci \in Nat /\ total \in Nat /\ port \in Nat
    /\ pc = "recv" => ci < total
    /\ name \in Names \cup {None}
    /\ stream \in Seq(Names \X Nat)
    /\ ended \in {"no", "got", "nothing", "aborted"}
    /\ pc # "idle" => cmd \in Commands /\ ended = "no"

\* send_file is entered only for packets that there are.
ServerTyped ==
    /\ spc \in {"main", "open", "probe", "data", "catchup"}
    /\ si \in Nat /\ slen \in Nat /\ peer \in Nat
    /\ sname \in Names \cup {None} /\ filename \in Gets \cup {None}
    /\ sflag \in {"get", "cmd"}
    /\ disk \subseteq DOMAIN Packets
    /\ spc # "main" /\ slen > 0 => sname \in disk \cup {ResponseFile} /\ slen = Length(sname)
    /\ spc \in {"open", "probe"} => si = 0
    /\ spc \in {"data", "catchup"} => si < slen

QueuesTyped == toServer \in Seq(ToServer) /\ toClient \in Seq(ToClient)

CountsTyped ==
    /\ ran \in BOOLEAN /\ hurt \in BOOLEAN /\ stray \in BOOLEAN
    /\ early \in Nat /\ commands \in Nat /\ faults \in Nat /\ stops \in Nat

Typed == ClientTyped /\ ServerTyped /\ QueuesTyped /\ CountsTyped

-----------------------------------------------------------------------------
(* The two queues.                                                         *)

Items(q) == {q[k] : k \in 1 .. Len(q)}

\* Every two, and every three, packets of q, in their order, are in R.
InOrder(q, R) == \A j, k \in 1 .. Len(q) : j < k => <<q[j], q[k]>> \in R
InThrees(q, R) == \A j, k, l \in 1 .. Len(q) : j < k /\ k < l => <<q[j], q[k], q[l]>> \in R

LEMMA EmptyQueue ==
    Items(<<>>) = {} /\ \A R : InOrder(<<>>, R) /\ InThrees(<<>>, R)
BY DEF Items, InOrder, InThrees

LEMMA OfItems ==
    ASSUME NEW S, NEW q \in Seq(S)
    PROVE  /\ Items(q) \subseteq S /\ (q = <<>> <=> Items(q) = {})
           /\ \A R : (\A x, y \in Items(q) : <<x, y>> \in R) => InOrder(q, R)
           /\ \A R : (\A x, y, z \in Items(q) : <<x, y, z>> \in R) => InThrees(q, R)
<1>1. Len(q) \in Nat /\ (\A k \in 1 .. Len(q) : q[k] \in S)
  BY LenProperties, ElementOfSeq
<1>2. q = <<>> => Items(q) = {}
  BY DEF Items
<1>3. q # <<>> => q[1] \in Items(q)
  <2>1. q # <<>> => 1 \in 1 .. Len(q)
    BY <1>1, EmptySeq
  <2> QED BY <2>1 DEF Items
<1>4. \A k \in 1 .. Len(q) : q[k] \in Items(q)
  BY DEF Items
<1> QED BY <1>1, <1>2, <1>3, <1>4 DEF Items, InOrder, InThrees

LEMMA OfAppend ==
    ASSUME NEW S, NEW q \in Seq(S), NEW x \in S
    PROVE  /\ Append(q, x) \in Seq(S)
           /\ Items(Append(q, x)) = Items(q) \cup {x}
           /\ \A R : InOrder(q, R) /\ (\A y \in Items(q) : <<y, x>> \in R) => InOrder(Append(q, x), R)
           /\ \A R : InThrees(q, R) /\ (\A y, z \in Items(q) : <<y, z, x>> \in R) => InThrees(Append(q, x), R)
           /\ \A R, T : InThrees(q, R) /\ InOrder(q, T) /\ (\A y, z \in Items(q) : <<y, z>> \in T => <<y, z, x>> \in R)
                           => InThrees(Append(q, x), R)
<1> DEFINE r == Append(q, x)
<1>1. /\ r \in Seq(S) /\ Len(r) = Len(q) + 1 /\ Len(q) \in Nat
      /\ r[Len(q) + 1] = x
      /\ \A k \in 1 .. Len(q) : r[k] = q[k]
  BY AppendProperties, LenProperties
<1> HIDE DEF r
<1>2. \A k \in 1 .. Len(r) : k \in 1 .. Len(q) \/ k = Len(q) + 1
  BY <1>1
<1>3. \A k \in 1 .. Len(q) : q[k] \in Items(q)
  BY DEF Items
<1>4. Items(r) = Items(q) \cup {x}
  <2>1. Items(r) \subseteq Items(q) \cup {x}
    BY <1>1, <1>2 DEF Items
  <2>2. Items(q) \subseteq Items(r) /\ x \in Items(r)
    BY <1>1 DEF Items
  <2> QED BY <2>1, <2>2
<1>5. ASSUME NEW R, InOrder(q, R), \A y \in Items(q) : <<y, x>> \in R,
             NEW j \in 1 .. Len(r), NEW k \in 1 .. Len(r), j < k
      PROVE  <<r[j], r[k]>> \in R
  <2>1. j \in 1 .. Len(q) /\ r[j] = q[j] /\ q[j] \in Items(q)
    BY <1>1, <1>3, <1>5
  <2>2. CASE k \in 1 .. Len(q)
    BY <1>1, <1>5, <2>1, <2>2 DEF InOrder
  <2>3. CASE k = Len(q) + 1
    BY <1>1, <1>5, <2>1, <2>3
  <2> QED BY <1>2, <2>2, <2>3
<1>6. ASSUME NEW R, NEW T, InThrees(q, R), InOrder(q, T),
             \A y, z \in Items(q) : <<y, z>> \in T => <<y, z, x>> \in R,
             NEW j \in 1 .. Len(r), NEW k \in 1 .. Len(r), NEW l \in 1 .. Len(r), j < k, k < l
      PROVE  <<r[j], r[k], r[l]>> \in R
  <2>1. j \in 1 .. Len(q) /\ k \in 1 .. Len(q) /\ r[j] = q[j] /\ r[k] = q[k]
    BY <1>1, <1>6
  <2>2. q[j] \in Items(q) /\ q[k] \in Items(q) /\ <<q[j], q[k]>> \in T
    BY <1>3, <1>6, <2>1 DEF InOrder
  <2>3. CASE l \in 1 .. Len(q)
    <3>1. r[l] = q[l] /\ <<q[j], q[k], q[l]>> \in R
      BY <1>1, <1>6, <2>1, <2>3 DEF InThrees
    <3> QED BY <2>1, <3>1
  <2>4. CASE l = Len(q) + 1
    BY <1>1, <1>6, <2>1, <2>2, <2>4
  <2> QED BY <1>2, <2>3, <2>4
<1>7. ASSUME NEW R, NEW T, InThrees(q, R), InOrder(q, T),
             \A y, z \in Items(q) : <<y, z>> \in T => <<y, z, x>> \in R
      PROVE  InThrees(r, R)
  BY <1>6, <1>7 DEF InThrees
<1>8. ASSUME NEW R, InThrees(q, R), \A y, z \in Items(q) : <<y, z, x>> \in R
      PROVE  InThrees(r, R)
  <2>1. InOrder(q, S \X S)
    BY LenProperties, ElementOfSeq DEF InOrder
  <2> QED BY <1>7, <1>8, <2>1
<1> QED BY <1>1, <1>4, <1>5, <1>7, <1>8 DEF InOrder, r

LEMMA OfTail ==
    ASSUME NEW S, NEW q \in Seq(S), q # <<>>
    PROVE  /\ Tail(q) \in Seq(S) /\ Head(q) \in S /\ Head(q) \in Items(q)
           /\ Items(Tail(q)) \subseteq Items(q)
           /\ \A R : InOrder(q, R) =>
                 InOrder(Tail(q), R) /\ \A y \in Items(Tail(q)) : <<Head(q), y>> \in R
           /\ \A R : InThrees(q, R) => InThrees(Tail(q), R)
           /\ \A R, T : InThrees(q, R) /\ (\A y, z \in S : <<Head(q), y, z>> \in R => <<y, z>> \in T)
                  => InOrder(Tail(q), T)
<1> DEFINE r == Tail(q)
<1>1. /\ r \in Seq(S) /\ Len(r) = Len(q) - 1 /\ Len(q) \in Nat \ {0} /\ Head(q) = q[1]
      /\ \A k \in 1 .. Len(r) : r[k] = q[k + 1]
      /\ Head(q) \in S
  BY HeadTailProperties, EmptySeq, LenProperties
<1>0. \A k \in 1 .. Len(q) : q[k] \in S
  BY LenProperties, ElementOfSeq
<1> HIDE DEF r
<1>2. 1 \in 1 .. Len(q) /\ \A k \in 1 .. Len(r) : k + 1 \in 1 .. Len(q) /\ 1 < k + 1
  BY <1>1
<1>3. Items(r) \subseteq Items(q) /\ Head(q) \in Items(q)
  BY <1>1, <1>2 DEF Items
<1>4. ASSUME NEW R, InOrder(q, R)
      PROVE  InOrder(r, R) /\ \A y \in Items(r) : <<Head(q), y>> \in R
  <2>1. \A y \in Items(r) : <<Head(q), y>> \in R
    BY <1>1, <1>2, <1>4 DEF InOrder, Items
  <2>2. ASSUME NEW j \in 1 .. Len(r), NEW k \in 1 .. Len(r), j < k
        PROVE  <<r[j], r[k]>> \in R
    <3>1. j + 1 < k + 1
      BY <2>2
    <3> QED BY <1>1, <1>2, <1>4, <3>1 DEF InOrder
  <2> QED BY <2>1, <2>2 DEF InOrder
<1>5. ASSUME NEW R, InThrees(q, R)
      PROVE  InThrees(r, R)
  <2>2. ASSUME NEW j \in 1 .. Len(r), NEW k \in 1 .. Len(r), NEW l \in 1 .. Len(r), j < k, k < l
        PROVE  <<r[j], r[k], r[l]>> \in R
    <3>1. j + 1 < k + 1 /\ k + 1 < l + 1
      BY <2>2
    <3>2. <<q[j + 1], q[k + 1], q[l + 1]>> \in R
      BY <1>2, <1>5, <3>1 DEF InThrees
    <3> QED BY <1>1, <3>2
  <2> QED BY <2>2 DEF InThrees
<1>6. ASSUME NEW R, NEW T, InThrees(q, R), \A y, z \in S : <<Head(q), y, z>> \in R => <<y, z>> \in T,
             NEW j \in 1 .. Len(r), NEW k \in 1 .. Len(r), j < k
      PROVE  <<r[j], r[k]>> \in T
  <2>1. j + 1 < k + 1
    BY <1>6
  <2>2. <<q[1], q[j + 1], q[k + 1]>> \in R
    BY <1>2, <1>6, <2>1 DEF InThrees
  <2> QED BY <1>0, <1>1, <1>2, <1>6, <2>2
<1> QED BY <1>1, <1>3, <1>4, <1>5, <1>6 DEF InOrder, r

\* What sending p can make of queue q.
Grown(q, p) == {q, Append(q, p), Append(q, Garbled(p))}

LEMMA GrownFacts ==
    ASSUME NEW S, NEW q \in Seq(S), NEW p \in S, Garbled(p) \in S, NEW r \in Grown(q, p)
    PROVE  /\ r \in Seq(S) /\ Items(r) \subseteq Items(q) \cup {p, Garbled(p)}
           /\ \A R : InOrder(q, R) /\ (\A y \in Items(q) : <<y, p>> \in R /\ <<y, Garbled(p)>> \in R)
                        => InOrder(r, R)
           /\ \A R, T : InThrees(q, R) /\ InOrder(q, T)
                           /\ (\A y, z \in Items(q) : <<y, z>> \in T => <<y, z, p>> \in R /\ <<y, z, Garbled(p)>> \in R)
                        => InThrees(r, R)
<1>1. r = q \/ r = Append(q, p) \/ r = Append(q, Garbled(p))
  BY DEF Grown
<1>2. CASE r = q
  BY <1>2
<1>3. ASSUME NEW x \in {p, Garbled(p)}, r = Append(q, x)
      PROVE  /\ r \in Seq(S) /\ Items(r) \subseteq Items(q) \cup {p, Garbled(p)}
             /\ \A R : InOrder(q, R) /\ (\A y \in Items(q) : <<y, p>> \in R /\ <<y, Garbled(p)>> \in R)
                          => InOrder(r, R)
             /\ \A R, T : InThrees(q, R) /\ InOrder(q, T)
                             /\ (\A y, z \in Items(q) : <<y, z>> \in T => <<y, z, p>> \in R /\ <<y, z, Garbled(p)>> \in R)
                          => InThrees(r, R)
  <2>1. x \in S
    BY <1>3
  <2>2. /\ Append(q, x) \in Seq(S)
        /\ Items(Append(q, x)) = Items(q) \cup {x}
        /\ \A R : InOrder(q, R) /\ (\A y \in Items(q) : <<y, x>> \in R) => InOrder(Append(q, x), R)
        /\ \A R, T : InThrees(q, R) /\ InOrder(q, T) /\ (\A y, z \in Items(q) : <<y, z>> \in T => <<y, z, x>> \in R)
                        => InThrees(Append(q, x), R)
    BY <2>1, OfAppend
  <2>3. r \in Seq(S) /\ Items(r) \subseteq Items(q) \cup {p, Garbled(p)}
    BY <1>3, <2>2
  <2>4. ASSUME NEW R, InOrder(q, R), \A y \in Items(q) : <<y, p>> \in R /\ <<y, Garbled(p)>> \in R
        PROVE  InOrder(r, R)
    BY <1>3, <2>2, <2>4
  <2>5. ASSUME NEW R, NEW T, InThrees(q, R), InOrder(q, T),
               \A y, z \in Items(q) : <<y, z>> \in T => <<y, z, p>> \in R /\ <<y, z, Garbled(p)>> \in R
        PROVE  InThrees(r, R)
    BY <1>3, <2>2, <2>5
  <2> QED BY <2>3, <2>4, <2>5
<1> QED BY <1>1, <1>2, <1>3

LEMMA Constants ==
    /\ \A f \in DOMAIN Packets : f \in Gets \cup Deletes /\ Packets[f] \in Nat
    /\ ResponseFile \notin Gets \cup Deletes /\ Ls \notin Gets \cup Deletes /\ None \notin Gets \cup Deletes
    /\ ResponseFile # None /\ Ls # None
    /\ Listing \in Nat
BY GetAssumption

LEMMA GarbledPacket ==
    /\ \A p \in ToServer : Garbled(p) \in ToServer /\ Garbled(p).t = p.t /\ Garbled(p).kind = "bad" /\ Garbled(p).flag = "bad"
    /\ \A p \in ToClient : Garbled(p) \in ToClient /\ Garbled(p).t = p.t /\ Garbled(p).kind = "bad" /\ Garbled(p).flag = "bad"
BY DEF Garbled, ToServer, ToClient, Wire

LEMMA SentGrows ==
    ASSUME hurt \in BOOLEAN, faults \in Nat, NEW p, NEW q, NEW r, Sent(p, q, r)
    PROVE  /\ r \in Grown(q, p)
           /\ hurt' \in BOOLEAN /\ faults' \in Nat
           /\ hurt => hurt'
           /\ ~ hurt' /\ Vital(p) => r = Append(q, p)
<1>1. CASE r = Append(q, p) /\ UNCHANGED <<faults, hurt>>
  BY <1>1 DEF Grown
<1>2. CASE /\ faults' = faults + 1
           /\ hurt' = (hurt \/ Vital(p))
           /\ r \in {q, Append(q, Garbled(p))}
  <2>1. faults' \in Nat /\ r \in Grown(q, p)
    BY <1>2 DEF Grown
  <2>2. hurt' \in BOOLEAN /\ (hurt => hurt') /\ (Vital(p) => hurt')
    BY <1>2, Zenon DEF Vital
  <2> QED BY <2>1, <2>2
<1> QED BY <1>1, <1>2 DEF Sent

\* What the client puts on its way.
LEMMA AskedFor ==
    ASSUME Typed, NEW kind, NEW flag, NEW no, NEW of,
           Packet(port, kind, flag, no, of) \in ToServer, Ask(kind, flag, no, of)
    PROVE  /\ toServer' \in Grown(toServer, Packet(port, kind, flag, no, of))
           /\ toServer' \in Seq(ToServer)
           /\ hurt' \in BOOLEAN /\ faults' \in Nat /\ (hurt => hurt')
<1> DEFINE p == Packet(port, kind, flag, no, of)
<1>1. hurt \in BOOLEAN /\ faults \in Nat /\ toServer \in Seq(ToServer)
  BY DEF Typed, CountsTyped, QueuesTyped
<1>2. toServer' \in Grown(toServer, p) /\ hurt' \in BOOLEAN /\ faults' \in Nat /\ (hurt => hurt')
  BY <1>1, SentGrows DEF Ask
<1> HIDE DEF p
<1>3. p \in ToServer /\ Garbled(p) \in ToServer
  BY GarbledPacket DEF p
<1>4. toServer' \in Seq(ToServer)
  BY <1>1, <1>2, <1>3, GrownFacts
<1> QED BY <1>2, <1>4 DEF p

\* What the server puts on its way, or not when its client has ended.
LEMMA Answered ==
    ASSUME Typed, NEW kind, NEW flag, NEW no, NEW of,
           Packet(peer', kind, flag, no, of) \in ToClient, Answer(kind, flag, no, of)
    PROVE  /\ toClient' \in Grown(toClient, Packet(peer', kind, flag, no, of))
           /\ toClient' \in Seq(ToClient)
           /\ hurt' \in BOOLEAN /\ faults' \in Nat /\ (hurt => hurt')
<1> DEFINE p == Packet(peer', kind, flag, no, of)
<1>1. hurt \in BOOLEAN /\ faults \in Nat /\ toClient \in Seq(ToClient)
  BY DEF Typed, CountsTyped, QueuesTyped
<1>2. toClient' \in Grown(toClient, p) /\ hurt' \in BOOLEAN /\ faults' \in Nat /\ (hurt => hurt')
  <2>1. CASE peer' < port
    BY <1>1, <2>1 DEF Answer, Grown
  <2>2. CASE ~ (peer' < port)
    BY <1>1, <2>2, SentGrows DEF Answer
  <2> QED BY <2>1, <2>2
<1> HIDE DEF p
<1>3. p \in ToClient /\ Garbled(p) \in ToClient
  BY GarbledPacket DEF p
<1>4. toClient' \in Seq(ToClient)
  BY <1>1, <1>2, <1>3, GrownFacts
<1> QED BY <1>2, <1>4 DEF p

LEMMA ClientPackets ==
    ASSUME NEW t \in Nat, NEW c \in Commands, NEW n \in Nat
    PROVE  /\ Packet(t, "request", c.flag, 0, c.what) \in ToServer
           /\ Packet(t, "confirm", c.flag, 0, None) \in ToServer
           /\ Packet(t, "ack", "ack", n, None) \in ToServer
           /\ c.flag \in {"get", "cmd"}
BY DEF Packet, ToServer, Wire, Commands, Names

LEMMA ServerPackets ==
    ASSUME NEW t \in Nat, NEW flag \in {"get", "cmd"}, NEW n \in Nat, NEW f \in Names \cup {None}
    PROVE  /\ Packet(t, "here", flag, 0, None) \in ToClient
           /\ Packet(t, "probe", flag, n, f) \in ToClient
           /\ f # None => Packet(t, "data", "data", n, f) \in ToClient
BY DEF Packet, ToClient, Wire

LEMMA HeardFacts ==
    ASSUME Typed, toClient # <<>>
    PROVE  /\ Heard \in ToClient /\ Heard \in Items(toClient)
           /\ Heard.t \in Nat /\ Heard.no \in Nat
           /\ Heard.kind = "data" => Heard.of \in Names
           /\ Heard.flag \in {"get", "cmd"} => Heard.of \in Names \cup {None}
           /\ Tail(toClient) \in Seq(ToClient) /\ Items(Tail(toClient)) \subseteq Items(toClient)
           /\ \A R : InOrder(toClient, R) =>
                 InOrder(Tail(toClient), R) /\ \A y \in Items(Tail(toClient)) : <<Heard, y>> \in R
           /\ \A R : InThrees(toClient, R) => InThrees(Tail(toClient), R)
           /\ \A R, T : InThrees(toClient, R) /\ (\A y, z \in ToClient : <<Heard, y, z>> \in R => <<y, z>> \in T)
                  => InOrder(Tail(toClient), T)
<1>1. toClient \in Seq(ToClient)
  BY DEF Typed, QueuesTyped
<1>2. Heard \in ToClient
  BY <1>1, OfTail DEF Heard
<1>3. /\ Heard.t \in Nat /\ Heard.no \in Nat
      /\ Heard.kind = "data" => Heard.of \in Names
      /\ Heard.flag \in {"get", "cmd"} => Heard.of \in Names \cup {None}
  BY <1>2 DEF ToClient, Wire
<1>4. /\ Heard \in Items(toClient)
      /\ Tail(toClient) \in Seq(ToClient) /\ Items(Tail(toClient)) \subseteq Items(toClient)
      /\ \A R : InOrder(toClient, R) =>
            InOrder(Tail(toClient), R) /\ \A y \in Items(Tail(toClient)) : <<Heard, y>> \in R
      /\ \A R : InThrees(toClient, R) => InThrees(Tail(toClient), R)
      /\ \A R, T : InThrees(toClient, R) /\ (\A y, z \in ToClient : <<Heard, y, z>> \in R => <<y, z>> \in T)
            => InOrder(Tail(toClient), T)
  BY <1>1, OfTail DEF Heard
<1> QED BY <1>2, <1>3, <1>4

LEMMA GotFacts ==
    ASSUME Typed, Receives
    PROVE  /\ Got \in ToServer /\ Got \in Items(toServer)
           /\ Got.t \in Nat /\ Got.no \in Nat /\ peer' = Got.t
           /\ Got.flag = "get" => Got.of \in Gets \cup {None}
           /\ toServer' \in Seq(ToServer) /\ Items(toServer') \subseteq Items(toServer)
           /\ \A R : InOrder(toServer, R) =>
                 InOrder(toServer', R) /\ \A y \in Items(toServer') : <<Got, y>> \in R
<1>1. toServer \in Seq(ToServer) /\ toServer # <<>> /\ toServer' = Tail(toServer) /\ Got = Head(toServer)
  BY DEF Typed, QueuesTyped, Receives, Got
<1>2. /\ Got \in ToServer /\ Got \in Items(toServer)
      /\ toServer' \in Seq(ToServer) /\ Items(toServer') \subseteq Items(toServer)
      /\ \A R : InOrder(toServer, R) =>
            InOrder(toServer', R) /\ \A y \in Items(toServer') : <<Got, y>> \in R
  BY <1>1, OfTail
<1>3. Got.t \in Nat /\ Got.no \in Nat /\ (Got.flag = "get" => Got.of \in Gets \cup {None})
  BY <1>2, Constants DEF ToServer, Wire, Commands
<1> QED BY <1>2, <1>3 DEF Receives

-----------------------------------------------------------------------------
(* Types.                                                                  *)

LEMMA TypedTypes == Typed => TypeOK
<1> SUFFICES ASSUME Typed PROVE TypeOK
  OBVIOUS
<1>1. toServer \in Seq(Wire) /\ toClient \in Seq(Wire)
  <2>1. ToServer \subseteq Wire /\ ToClient \subseteq Wire
    BY DEF ToServer, ToClient
  <2> QED BY <2>1, SeqMonotonic DEF Typed, QueuesTyped
<1>2. {toServer, toClient} \subseteq Seq(Wire)
  BY <1>1
<1>3. Gets \subseteq Names
  BY DEF Names
<1>4. {ran, hurt, stray} \subseteq BOOLEAN
  BY Zenon DEF Typed, CountsTyped
<1>5. {ci, total, si, slen, port, peer} \subseteq Nat /\ {early, commands, faults, stops} \subseteq Nat
  BY DEF Typed, ClientTyped, ServerTyped, CountsTyped
<1>6. {name, sname, filename} \subseteq Names \cup {None}
  BY <1>3 DEF Typed, ClientTyped, ServerTyped
<1> QED BY <1>2, <1>4, <1>5, <1>6 DEF TypeOK, Typed, ClientTyped, ServerTyped

LEMMA InitTyped == Init => Typed
<1> SUFFICES ASSUME Init PROVE Typed
  OBVIOUS
<1>1. <<>> \in Seq(ToServer) /\ <<>> \in Seq(ToClient) /\ <<>> \in Seq(Names \X Nat)
  BY EmptySeq
<1>2. ClientTyped
  BY <1>1 DEF Init, ClientTyped
<1>3. ServerTyped
  BY DEF Init, ServerTyped
<1>4. QueuesTyped
  BY <1>1 DEF Init, QueuesTyped
<1>5. CountsTyped
  BY DEF Init, CountsTyped
<1> QED BY <1>2, <1>3, <1>4, <1>5 DEF Typed

\* What a step leaves alone keeps its type.
LEMMA Untouched ==
    ASSUME Typed
    PROVE  /\ UNCHANGED <<client, ended>> => ClientTyped'
           /\ UNCHANGED server => ServerTyped'
BY DEF Typed, ClientTyped, ServerTyped, client, receiving, server, sending, Length

LEMMA LimitTyped ==
    ASSUME Typed, LimitPasses
    PROVE  early' \in Nat /\ early <= early' /\ (~ Quiet => early < early')
BY DEF Typed, CountsTyped, LimitPasses

\* A file that send_file has packets of.
LEMMA SendsName ==
    ASSUME Typed, spc # "main", slen > 0
    PROVE  sname \in Names /\ sname # None /\ sname \in disk \cup {ResponseFile} /\ slen = Length(sname)
<1>1. sname \in disk \cup {ResponseFile} /\ disk \subseteq DOMAIN Packets /\ slen = Length(sname)
  BY DEF Typed, ServerTyped
<1> QED BY <1>1, Constants DEF Names

\* GoOn(n) puts packet n on its way, or ends send_file.
LEMMA GoesOn ==
    ASSUME Typed, spc # "main", NEW n \in Nat, GoOn(n), peer' \in Nat,
           UNCHANGED <<sname, slen, sflag, filename, disk>>
    PROVE  /\ ServerTyped'
           /\ toClient' \in Seq(ToClient) /\ hurt' \in BOOLEAN /\ faults' \in Nat /\ (hurt => hurt')
           /\ \/ /\ n < slen /\ spc' = "data" /\ si' = n
                 /\ toClient' \in Grown(toClient, Packet(peer', "data", "data", n, sname))
              \/ /\ n >= slen /\ spc' = "main" /\ si' = 0
                 /\ UNCHANGED <<toClient, hurt>>
<1>1. slen \in Nat /\ sflag \in {"get", "cmd"}
  BY DEF Typed, ServerTyped
<1>2. CASE n < slen /\ spc' = "data" /\ si' = n /\ Data(n)
  <2>1. sname \in Names /\ sname # None
    BY <1>1, <1>2, SendsName
  <2>2. Packet(peer', "data", "data", n, sname) \in ToClient
    BY <1>1, <2>1, ServerPackets
  <2>3. /\ toClient' \in Grown(toClient, Packet(peer', "data", "data", n, sname))
        /\ toClient' \in Seq(ToClient) /\ hurt' \in BOOLEAN /\ faults' \in Nat /\ (hurt => hurt')
    BY <1>2, <2>2, Answered DEF Data
  <2>4. ServerTyped'
    BY <1>1, <1>2 DEF Typed, ServerTyped, Length
  <2> QED BY <1>2, <2>3, <2>4
<1>3. CASE n >= slen /\ spc' = "main" /\ si' = 0 /\ UNCHANGED <<toClient, hurt, faults>>
  <2>1. ServerTyped'
    BY <1>1, <1>3 DEF Typed, ServerTyped
  <2>2. toClient' \in Seq(ToClient) /\ hurt' \in BOOLEAN /\ faults' \in Nat /\ (hurt => hurt')
    BY <1>3 DEF Typed, QueuesTyped, CountsTyped
  <2> QED BY <1>3, <2>1, <2>2
<1> QED BY <1>2, <1>3 DEF GoOn

\* send_file names the packet again.
LEMMA Repeats ==
    ASSUME Typed, spc \in {"probe", "data", "catchup"}, Again, peer' \in Nat
    PROVE  /\ toClient' \in Seq(ToClient) /\ hurt' \in BOOLEAN /\ faults' \in Nat /\ (hurt => hurt')
           /\ spc = "probe" =>
                 toClient' \in Grown(toClient, Packet(peer', "probe", sflag, slen,
                                  IF sname \in disk \cup {ResponseFile} THEN sname ELSE None))
           /\ spc # "probe" =>
                 toClient' \in Grown(toClient, Packet(peer', "data", "data", si, sname)) /\ si < slen
<1>1. slen \in Nat /\ si \in Nat /\ sflag \in {"get", "cmd"} /\ sname \in Names \cup {None}
  BY DEF Typed, ServerTyped
<1>2. CASE spc = "probe"
  <2> DEFINE f == IF sname \in disk \cup {ResponseFile} THEN sname ELSE None
  <2>1. f \in Names \cup {None}
    BY <1>1
  <2> HIDE DEF f
  <2>2. Packet(peer', "probe", sflag, slen, f) \in ToClient
    BY <1>1, <2>1, ServerPackets
  <2>3. Answer("probe", sflag, slen, f)
    BY <1>2 DEF Again, Probe, f
  <2>4. /\ toClient' \in Seq(ToClient) /\ hurt' \in BOOLEAN /\ faults' \in Nat /\ (hurt => hurt')
        /\ toClient' \in Grown(toClient, Packet(peer', "probe", sflag, slen, f))
    BY <2>2, <2>3, Answered
  <2> QED BY <1>2, <2>4 DEF f
<1>3. CASE spc # "probe"
  <2>1. si < slen /\ spc # "main"
    BY <1>3 DEF Typed, ServerTyped
  <2>2. sname \in Names /\ sname # None
    BY <1>1, <2>1, SendsName
  <2>3. Packet(peer', "data", "data", si, sname) \in ToClient
    BY <1>1, <2>2, ServerPackets
  <2>4. Answer("data", "data", si, sname)
    BY <1>3 DEF Again, Data
  <2>5. /\ toClient' \in Seq(ToClient) /\ hurt' \in BOOLEAN /\ faults' \in Nat /\ (hurt => hurt')
        /\ toClient' \in Grown(toClient, Packet(peer', "data", "data", si, sname))
    BY <2>3, <2>4, Answered
  <2> QED BY <1>3, <2>1, <2>5
<1> QED BY <1>2, <1>3

LEMMA ClientStepTyped ==
    ASSUME Typed
    PROVE  /\ \A c \in Commands : Start(c) => Typed'
           /\ Timeout => Typed'
           /\ ClientHears => Typed'
           /\ Quit => Typed'
<1>0. /\ port \in Nat /\ ci \in Nat /\ total \in Nat /\ (pc # "idle" => cmd \in Commands /\ ended = "no")
      /\ stream \in Seq(Names \X Nat)
      /\ toClient \in Seq(ToClient) /\ toServer \in Seq(ToServer)
      /\ ran \in BOOLEAN /\ hurt \in BOOLEAN /\ stray \in BOOLEAN
      /\ early \in Nat /\ commands \in Nat /\ faults \in Nat /\ stops \in Nat
  BY DEF Typed, ClientTyped, QueuesTyped, CountsTyped
<1>e. <<>> \in Seq(ToClient) /\ <<>> \in Seq(ToServer) /\ <<>> \in Seq(Names \X Nat)
  BY EmptySeq
<1>1. ASSUME NEW c \in Commands, Start(c) PROVE Typed'
  <2>1. toClient' \in Seq(ToClient) /\ early' \in Nat
    BY <1>0, <1>1, HeardFacts, LimitTyped DEF Start
  <2>2. toServer' \in Seq(ToServer) /\ hurt' \in BOOLEAN /\ faults' \in Nat
    <3>1. Packet(port, "request", c.flag, 0, c.what) \in ToServer
      BY <1>0, ClientPackets
    <3> QED BY <1>1, <3>1, AskedFor DEF Start, Request
  <2>3. ClientTyped'
    BY <1>0, <1>1 DEF Start, Typed, ClientTyped, receiving
  <2>4. ServerTyped'
    BY <1>1, Untouched DEF Start
  <2>5. commands' \in Nat /\ stops' \in Nat
    BY <1>0, <1>1 DEF Start
  <2>6. ran' \in BOOLEAN /\ stray' \in BOOLEAN
    BY <1>0, <1>1, Zenon DEF Start
  <2> QED BY <2>1, <2>2, <2>3, <2>4, <2>5, <2>6 DEF Typed, QueuesTyped, CountsTyped
<1>2. ASSUME Timeout PROVE Typed'
  <2>1. early' \in Nat
    BY <1>2, LimitTyped DEF Timeout
  <2>2. toServer' \in Seq(ToServer) /\ hurt' \in BOOLEAN /\ faults' \in Nat
    <3>1. cmd \in Commands
      BY <1>0, <1>2 DEF Timeout
    <3>2. Packet(port, "request", cmd.flag, 0, cmd.what) \in ToServer
      BY <1>0, <3>1, ClientPackets
    <3> QED BY <1>2, <3>2, AskedFor DEF Timeout, Request
  <2>3. ClientTyped'
    BY <1>0, <1>2 DEF Timeout, Typed, ClientTyped, receiving, results
  <2>4. ServerTyped'
    BY <1>2, Untouched DEF Timeout
  <2>5. ran' \in BOOLEAN /\ commands' \in Nat /\ stops' \in Nat /\ stray' \in BOOLEAN /\ toClient' \in Seq(ToClient)
    BY <1>0, <1>2 DEF Timeout, results
  <2> QED BY <2>1, <2>2, <2>3, <2>4, <2>5 DEF Typed, QueuesTyped, CountsTyped
<1>3. ASSUME Hears
      PROVE  /\ toClient # <<>> /\ toClient' \in Seq(ToClient) /\ ServerTyped'
             /\ early' \in Nat /\ commands' \in Nat /\ stops' \in Nat /\ stray' \in BOOLEAN
             /\ cmd' = cmd /\ port' = port
  BY <1>0, <1>3, HeardFacts, Untouched DEF Hears
<1>4. ASSUME NEW kind, NEW flag, NEW no, NEW of, Ask(kind, flag, no, of),
             Packet(port, kind, flag, no, of) \in ToServer
      PROVE  toServer' \in Seq(ToServer) /\ hurt' \in BOOLEAN /\ faults' \in Nat
  BY <1>4, AskedFor
<1>5. ASSUME UNCHANGED <<toServer, hurt, faults>>
      PROVE  toServer' \in Seq(ToServer) /\ hurt' \in BOOLEAN /\ faults' \in Nat
  BY <1>0, <1>5
<1>6. ASSUME Acknowledged PROVE Typed'
  <2>1. ClientTyped'
    BY <1>0, <1>6, <1>3 DEF Acknowledged, Typed, ClientTyped, receiving, results
  <2>2. ran' \in BOOLEAN
    BY <1>0, <1>6 DEF Acknowledged, results
  <2> QED BY <1>3, <1>5, <1>6, <2>1, <2>2 DEF Acknowledged, Typed, QueuesTyped, CountsTyped
<1>7. ASSUME AskAgain PROVE Typed'
  <2>1. cmd \in Commands
    BY <1>0, <1>7 DEF AskAgain
  <2>2. Packet(port, "request", cmd.flag, 0, cmd.what) \in ToServer
    BY <1>0, <2>1, ClientPackets
  <2>3. toServer' \in Seq(ToServer) /\ hurt' \in BOOLEAN /\ faults' \in Nat
    BY <1>4, <1>7, <2>2 DEF AskAgain, Request
  <2>4. ClientTyped'
    BY <1>0, <1>7, <1>3, <2>1 DEF AskAgain, Typed, ClientTyped, receiving, results
  <2>5. ran' \in BOOLEAN
    BY <1>0, <1>7 DEF AskAgain, results
  <2> QED BY <1>3, <1>7, <2>3, <2>4, <2>5 DEF AskAgain, Typed, QueuesTyped, CountsTyped
<1>8. ASSUME NEW begins \in BOOLEAN, ProbeIs(begins)
      PROVE  /\ toServer' \in Seq(ToServer) /\ hurt' \in BOOLEAN /\ faults' \in Nat
             /\ Hears /\ Heard.no \in Nat /\ Heard.of \in Names \cup {None}
             /\ cmd \in Commands
  <2>1. cmd \in Commands /\ Hears /\ toClient # <<>>
    BY <1>0, <1>8 DEF ProbeIs, Hears
  <2>2. Packet(port, "confirm", cmd.flag, 0, None) \in ToServer /\ cmd.flag \in {"get", "cmd"}
    BY <1>0, <2>1, ClientPackets
  <2>3. toServer' \in Seq(ToServer) /\ hurt' \in BOOLEAN /\ faults' \in Nat
    BY <1>4, <1>8, <2>2 DEF ProbeIs
  <2>4. Heard.flag \in {"get", "cmd"}
    BY <1>8, <2>2 DEF ProbeIs
  <2> QED BY <2>1, <2>3, <2>4, HeardFacts
<1>9. ASSUME Begin PROVE Typed'
  <2>1. /\ toServer' \in Seq(ToServer) /\ hurt' \in BOOLEAN /\ faults' \in Nat
        /\ Hears /\ Heard.no \in Nat /\ Heard.of \in Names \cup {None}
        /\ cmd \in Commands
    BY <1>8, <1>9 DEF Begin
  <2>2. ClientTyped'
    <3>1. Heard.no > 0 /\ pc # "idle"
      BY <1>9 DEF Begin, ProbeIs
    <3>2. ended' = "no"
      BY <1>0, <1>9, <3>1 DEF Begin, results
    <3> QED BY <1>e, <1>3, <1>9, <2>1, <3>1, <3>2 DEF Begin, Typed, ClientTyped
  <2>3. ran' \in BOOLEAN
    BY <1>0, <1>9 DEF Begin, results
  <2> QED BY <1>3, <2>1, <2>2, <2>3 DEF Typed, QueuesTyped, CountsTyped
<1>10. ASSUME NothingComes PROVE Typed'
  <2>1. /\ toServer' \in Seq(ToServer) /\ hurt' \in BOOLEAN /\ faults' \in Nat
        /\ Hears /\ cmd \in Commands
    BY <1>8, <1>10 DEF NothingComes
  <2>2. ClientTyped'
    BY <1>3, <1>10, <2>1 DEF NothingComes, Typed, ClientTyped
  <2>3. ran' \in BOOLEAN
    BY <1>0, <1>10 DEF NothingComes
  <2> QED BY <1>3, <2>1, <2>2, <2>3 DEF Typed, QueuesTyped, CountsTyped
<1>11. ASSUME Crash PROVE Typed'
  <2>1. cmd \in Commands /\ cmd.flag = "cmd"
    BY <1>0, <1>11 DEF Crash
  <2>2. Packet(port, "confirm", cmd.flag, 0, None) \in ToServer
    BY <1>0, <2>1, ClientPackets
  <2>3. toServer' \in Seq(ToServer) /\ hurt' \in BOOLEAN /\ faults' \in Nat
    BY <1>4, <1>11, <2>1, <2>2 DEF Crash
  <2>4. ClientTyped'
    BY <1>0, <1>11 DEF Crash, Typed, ClientTyped, receiving
  <2>5. ServerTyped'
    BY <1>11, Untouched DEF Crash
  <2>6. ran' \in BOOLEAN /\ early' \in Nat /\ commands' \in Nat /\ stops' \in Nat /\ stray' \in BOOLEAN /\ toClient' \in Seq(ToClient)
    BY <1>0, <1>e, <1>11 DEF Crash
  <2> QED BY <2>3, <2>4, <2>5, <2>6 DEF Typed, QueuesTyped, CountsTyped
<1>12. ASSUME Store PROVE Typed'
  <2>1. toClient # <<>> /\ Heard.kind = "data" /\ Heard.of \in Names /\ Heard.no \in Nat /\ Hears
    BY <1>3, <1>12, HeardFacts DEF Store
  <2>2. Packet(port, "ack", "ack", ci, None) \in ToServer
    BY <1>0, ClientPackets DEF Store, Commands, Packet, ToServer, Wire, Names
  <2>3. toServer' \in Seq(ToServer) /\ hurt' \in BOOLEAN /\ faults' \in Nat
    BY <1>4, <1>12, <2>2 DEF Store
  <2>4. stream' \in Seq(Names \X Nat)
    <3>1. <<Heard.of, Heard.no>> \in Names \X Nat
      BY <2>1
    <3> QED BY <1>0, <1>12, <3>1, AppendProperties DEF Store
  <2>5. ci < total /\ cmd \in Commands /\ ended = "no"
    BY <1>0, <1>12 DEF Store, Typed, ClientTyped
  <2>6. ClientTyped'
    BY <1>0, <1>3, <1>12, <2>1, <2>4, <2>5 DEF Store, Typed, ClientTyped
  <2>7. ran' \in BOOLEAN
    BY <1>0, <1>12 DEF Store
  <2> QED BY <1>3, <2>1, <2>3, <2>6, <2>7 DEF Typed, QueuesTyped, CountsTyped
<1>13. ASSUME AckAgain PROVE Typed'
  <2>1. toClient # <<>> /\ Heard.no \in Nat /\ Hears
    BY <1>3, <1>13, HeardFacts DEF AckAgain
  <2>2. Packet(port, "ack", "ack", Heard.no, None) \in ToServer
    BY <1>0, <2>1 DEF Packet, ToServer, Wire
  <2>3. toServer' \in Seq(ToServer) /\ hurt' \in BOOLEAN /\ faults' \in Nat
    BY <1>4, <1>13, <2>2 DEF AckAgain
  <2>4. ClientTyped'
    BY <1>3, <1>13, <2>1 DEF AckAgain, Typed, ClientTyped, receiving, results
  <2>5. ran' \in BOOLEAN
    BY <1>0, <1>13 DEF AckAgain, results
  <2> QED BY <1>3, <2>1, <2>3, <2>4, <2>5 DEF Typed, QueuesTyped, CountsTyped
<1>14. ASSUME Abort PROVE Typed'
  <2>1. Hears /\ UNCHANGED <<toServer, hurt, faults>>
    BY <1>14 DEF Abort
  <2>2. ClientTyped'
    BY <1>0, <1>3, <1>14, <2>1 DEF Abort, Typed, ClientTyped, receiving
  <2>3. ran' \in BOOLEAN
    BY <1>0, <1>14 DEF Abort
  <2> QED BY <1>3, <1>5, <2>1, <2>2, <2>3 DEF Typed, QueuesTyped, CountsTyped
<1>15. ASSUME Drop PROVE Typed'
  <2>1. Hears /\ UNCHANGED <<toServer, hurt, faults>>
    BY <1>15 DEF Drop
  <2>2. ClientTyped'
    BY <1>3, <1>15, <2>1 DEF Drop, Typed, ClientTyped, receiving, results
  <2>3. ran' \in BOOLEAN
    BY <1>0, <1>15 DEF Drop, results
  <2> QED BY <1>3, <1>5, <2>1, <2>2, <2>3 DEF Typed, QueuesTyped, CountsTyped
<1>16. ASSUME Quit PROVE Typed'
  <2>1. ClientTyped'
    BY <1>0, <1>16 DEF Quit, Typed, ClientTyped, receiving
  <2>2. ServerTyped'
    BY <1>16, Untouched DEF Quit
  <2>3. QueuesTyped' /\ CountsTyped'
    BY <1>0, <1>e, <1>16 DEF Quit, QueuesTyped, CountsTyped
  <2> QED BY <2>1, <2>2, <2>3 DEF Typed
<1> QED BY <1>1, <1>2, <1>6, <1>7, <1>9, <1>10, <1>11, <1>12, <1>13, <1>14, <1>15, <1>16 DEF ClientHears

LEMMA ServerStepTyped ==
    ASSUME Typed
    PROVE  /\ ServerStep => Typed'
           /\ ServerTimeout => Typed'
           /\ Restart => Typed'
<1>0. /\ peer \in Nat /\ slen \in Nat /\ si \in Nat
      /\ toClient \in Seq(ToClient) /\ toServer \in Seq(ToServer)
      /\ ran \in BOOLEAN /\ hurt \in BOOLEAN /\ stray \in BOOLEAN
      /\ early \in Nat /\ commands \in Nat /\ faults \in Nat /\ stops \in Nat
  BY DEF Typed, ServerTyped, QueuesTyped, CountsTyped
<1>e. <<>> \in Seq(ToServer)
  BY EmptySeq
<1>1. ASSUME Receives
      PROVE  /\ ClientTyped' /\ toServer' \in Seq(ToServer) /\ peer' \in Nat
             /\ early' \in Nat /\ commands' \in Nat /\ stops' \in Nat /\ stray' \in BOOLEAN
  <2>1. UNCHANGED <<client, ended, early, stray, commands, stops>>
    BY <1>1 DEF Receives
  <2>2. toServer' \in Seq(ToServer) /\ peer' \in Nat
    BY <1>1, GotFacts
  <2> QED BY <1>0, <2>1, <2>2, Untouched
<1>2. ASSUME AcceptGet PROVE Typed'
  <2>0. Receives /\ Got.of \in Gets \cup {None} /\ peer' \in Nat
    BY <1>1, <1>2, GotFacts DEF AcceptGet
  <2>1. filename' \in Gets \cup {None}
    BY <1>2, <2>0 DEF AcceptGet, Typed, ServerTyped
  <2>2. Packet(peer', "here", "get", 0, None) \in ToClient
    BY <2>0, ServerPackets
  <2>3. toClient' \in Seq(ToClient) /\ hurt' \in BOOLEAN /\ faults' \in Nat
    BY <1>2, <2>2, Answered DEF AcceptGet
  <2>4. ServerTyped'
    <3>1. slen' \in Nat /\ (slen' > 0 => filename' \in disk /\ slen' = Packets[filename'])
      BY <1>2, Constants DEF AcceptGet, Typed, ServerTyped
    <3>2. filename' # ResponseFile /\ filename' \in Names \cup {None}
      BY <2>1, Constants DEF Names
    <3>3. disk' = disk /\ disk \subseteq DOMAIN Packets /\ sname' = filename' /\ sflag' = "get" /\ si' = 0 /\ spc' = "open"
      BY <1>2 DEF AcceptGet, Typed, ServerTyped
    <3> QED BY <2>0, <2>1, <3>1, <3>2, <3>3 DEF ServerTyped, Length
  <2>5. ran' \in BOOLEAN
    BY <1>0, <1>2 DEF AcceptGet
  <2> QED BY <1>1, <2>0, <2>3, <2>4, <2>5 DEF Typed, QueuesTyped, CountsTyped
<1>3. ASSUME AcceptCmd PROVE Typed'
  <2>0. Receives /\ peer' \in Nat
    BY <1>1, <1>3 DEF AcceptCmd
  <2>2. Packet(peer', "here", "cmd", 0, None) \in ToClient
    BY <2>0, ServerPackets
  <2>3. toClient' \in Seq(ToClient) /\ hurt' \in BOOLEAN /\ faults' \in Nat
    BY <1>3, <2>2, Answered DEF AcceptCmd
  <2>4. ServerTyped'
    <3>1. slen' \in Nat /\ (slen' > 0 => slen' = Listing) /\ disk' \subseteq DOMAIN Packets
      BY <1>3, Constants DEF AcceptCmd, run_cmd, Typed, ServerTyped
    <3>2. sname' = ResponseFile /\ sflag' = "cmd" /\ si' = 0 /\ spc' = "open"
      BY <1>3 DEF AcceptCmd
    <3>3. filename' \in Gets \cup {None}
      BY <1>3 DEF AcceptCmd, Typed, ServerTyped
    <3> QED BY <2>0, <3>1, <3>2, <3>3 DEF ServerTyped, Length, Names
  <2>5. ran' \in BOOLEAN
    <3>1. ran' = (ran \/ Got.of = cmd.what)
      BY <1>3 DEF AcceptCmd
    <3> QED BY <1>0, <3>1
  <2> QED BY <1>1, <2>0, <2>3, <2>4, <2>5 DEF Typed, QueuesTyped, CountsTyped
<1>4. ASSUME Ignore PROVE Typed'
  <2>1. Receives
    BY <1>4 DEF Ignore
  <2>2. ServerTyped'
    BY <1>1, <1>4, <2>1 DEF Ignore, Typed, ServerTyped, sending, Length
  <2> QED BY <1>0, <1>1, <1>4, <2>1, <2>2 DEF Ignore, Typed, QueuesTyped, CountsTyped
<1>5. ASSUME Announce PROVE Typed'
  <2> DEFINE f == IF sname \in disk \cup {ResponseFile} THEN sname ELSE None
  <2>1. f \in Names \cup {None} /\ sflag \in {"get", "cmd"}
    BY DEF Typed, ServerTyped
  <2>2. Answer("probe", sflag, slen, f) /\ peer' = peer
    BY <1>5 DEF Announce, Probe
  <2> HIDE DEF f
  <2>3. Packet(peer', "probe", sflag, slen, f) \in ToClient
    BY <1>0, <2>1, <2>2, ServerPackets
  <2>4. toClient' \in Seq(ToClient) /\ hurt' \in BOOLEAN /\ faults' \in Nat
    BY <2>2, <2>3, Answered
  <2>5. ServerTyped'
    BY <1>5 DEF Announce, Typed, ServerTyped, sending, Length
  <2>6. ClientTyped'
    BY <1>5, Untouched DEF Announce, results
  <2> QED BY <1>0, <1>5, <2>4, <2>5, <2>6 DEF Announce, Typed, QueuesTyped, CountsTyped, results
<1>6. ASSUME Receives, spc # "main", NEW n \in Nat, GoOn(n), UNCHANGED <<sname, slen, sflag, filename, disk, ran>> PROVE Typed'
  <2>1. ServerTyped' /\ toClient' \in Seq(ToClient) /\ hurt' \in BOOLEAN /\ faults' \in Nat
    BY <1>1, <1>6, GoesOn
  <2> QED BY <1>0, <1>1, <1>6, <2>1 DEF Typed, QueuesTyped, CountsTyped
<1>7. ASSUME Confirmed PROVE Typed'
  BY <1>6, <1>7 DEF Confirmed
<1>8. ASSUME RightAck PROVE Typed'
  <2>1. si + 1 \in Nat
    BY <1>0
  <2> QED BY <1>6, <1>8, <2>1 DEF RightAck
<1>9. ASSUME WrongFlag PROVE Typed'
  <2>1. Receives /\ Again /\ spc \in {"probe", "data", "catchup"} /\ UNCHANGED <<spc, sending, disk, ran>>
    BY <1>9 DEF WrongFlag
  <2>2. toClient' \in Seq(ToClient) /\ hurt' \in BOOLEAN /\ faults' \in Nat
    BY <1>1, <2>1, Repeats
  <2>3. ServerTyped'
    BY <1>1, <2>1 DEF Typed, ServerTyped, sending, Length
  <2> QED BY <1>0, <1>1, <2>1, <2>2, <2>3 DEF Typed, QueuesTyped, CountsTyped
<1>10. ASSUME WrongAck PROVE Typed'
  <2>1. Receives /\ spc \in {"data", "catchup"} /\ spc' = "catchup" /\ UNCHANGED <<sending, disk, toClient, ran, hurt, faults>>
    BY <1>10 DEF WrongAck
  <2>3. ServerTyped'
    BY <1>1, <2>1 DEF Typed, ServerTyped, sending, Length
  <2> QED BY <1>0, <1>1, <2>1, <2>3 DEF Typed, QueuesTyped, CountsTyped
<1>11. ASSUME ServerTimeout PROVE Typed'
  <2>1. /\ Again /\ spc \in {"probe", "data", "catchup"} /\ peer' = peer
        /\ UNCHANGED <<sending, disk, client, toServer, results, stray, commands, stops>>
        /\ spc' = IF spc = "catchup" THEN "data" ELSE spc
    BY <1>11 DEF ServerTimeout
  <2>2. toClient' \in Seq(ToClient) /\ hurt' \in BOOLEAN /\ faults' \in Nat
    BY <1>0, <2>1, Repeats
  <2>3. ServerTyped'
    BY <1>0, <2>1 DEF Typed, ServerTyped, sending, Length
  <2>4. ClientTyped'
    BY <2>1, Untouched DEF results
  <2>5. early' \in Nat
    BY <1>11, LimitTyped DEF ServerTimeout
  <2> QED BY <1>0, <2>1, <2>2, <2>3, <2>4, <2>5 DEF Typed, QueuesTyped, CountsTyped, results
<1>12. ASSUME Restart PROVE Typed'
  <2>1. stray' \in BOOLEAN
    <3>1. stray' = (stray \/ toClient # <<>>)
      BY <1>12 DEF Restart
    <3> QED BY <1>0, <3>1
  <2>2. ServerTyped'
    BY <1>12 DEF Restart, Typed, ServerTyped, Length
  <2>3. ClientTyped'
    BY <1>12, Untouched DEF Restart, results
  <2> QED BY <1>0, <1>e, <1>12, <2>1, <2>2, <2>3 DEF Restart, Typed, QueuesTyped, CountsTyped, results
<1> QED BY <1>2, <1>3, <1>4, <1>5, <1>7, <1>8, <1>9, <1>10, <1>11, <1>12 DEF ServerStep

LEMMA NextTyped == Typed /\ [Next]_vars => Typed'
<1> SUFFICES ASSUME Typed, [Next]_vars PROVE Typed'
  OBVIOUS
<1>1. CASE Next
  BY <1>1, ClientStepTyped, ServerStepTyped DEF Next
<1>2. CASE UNCHANGED vars
  <2>1. ClientTyped' /\ ServerTyped'
    BY <1>2, Untouched DEF vars, results
  <2> QED BY <1>2, <2>1 DEF vars, results, Typed, QueuesTyped, CountsTyped
<1> QED BY <1>1, <1>2

LEMMA TypedHolds == Spec => []Typed
BY InitTyped, NextTyped, PTL DEF Spec

\* Every state is well formed; in particular recv_file runs only while a packet is
\* missing: the loop is never entered for a file of no packets and left with the last.
THEOREM GetTypeCorrect == Spec => []TypeOK
<1>1. Typed => TypeOK
  BY TypedTypes
<1> QED BY <1>1, TypedHolds, PTL

-----------------------------------------------------------------------------
(* One transfer at a time.                                                 *)

\* A packet that the client can take for the probe of a file.
Opens(p) == p.flag \in {"get", "cmd"} /\ p.no > 0

NoOpening == \A x \in Items(toClient) : ~ Opens(x)
NoAck == \A x \in Items(toServer) : x.kind # "ack"

\* What can follow what on the way to the client, and to the server.
AfterOpening ==
    {r \in ToClient \X ToClient :
        Opens(r[1]) /\ r[2].kind = "data" => r[2].no = 0 /\ r[2].of = r[1].of}
OpeningIsLast == {r \in ToClient \X ToClient : Opens(r[1]) => r[2].kind # "data"}
DataIsLast == {r \in ToClient \X ToClient : r[1].kind = "data" => ~ Opens(r[2])}
NoOpeningBetween ==
    {r \in ToClient \X ToClient \X ToClient : Opens(r[1]) /\ r[2].kind = "data" => ~ Opens(r[3])}
LastAckOf(n) ==
    {r \in ToServer \X ToServer : r[1].kind = "ack" /\ r[2].kind = "ack" => r[1].no + 1 # n}

\* As long as a probe is on its way the server is in the send_file that sent it, and
\* has had no answer to its data.
Opening ==
    /\ \A x \in Items(toClient) : Opens(x) =>
          spc \in {"probe", "data"} /\ si = 0 /\ x.no = slen /\ x.of = sname /\ NoAck
    /\ InOrder(toClient, AfterOpening)
    /\ InThrees(toClient, NoOpeningBetween)
    /\ spc = "probe" => InOrder(toClient, OpeningIsLast)

\* The server leaves send_file with the client's last ACK.
Acks ==
    /\ spc \in {"main", "open", "probe"} => NoAck
    /\ \A x \in Items(toServer) : x.kind = "ack" => x.no <= si /\ (pc = "recv" => x.no + 1 # slen)
    /\ InOrder(toServer, LastAckOf(slen))

\* The client in recv_file: both sides are in the same transfer, or the server was killed.
Linked ==
    /\ spc \in {"probe", "data", "catchup"} /\ name = sname /\ total = slen
    /\ ci = si \/ ci = si + 1
    /\ spc = "probe" => ci = 0
    /\ \A x \in Items(toClient) : x.kind = "data" => spc # "probe" /\ x.of = sname /\ x.no <= si
    /\ InOrder(toClient, DataIsLast)
    /\ \A x \in Items(toServer) : x.kind = "ack" => x.no < ci
Severed == spc = "main" /\ toServer = <<>> /\ toClient = <<>>
Session == pc = "recv" => Linked \/ Severed

Written ==
    /\ pc = "recv" => stream = SubSeq(Whole(name), 1, ci)
    /\ ended = "got" => stream = Whole(name)

InTurn == ~ stray => Opening /\ Acks /\ Session /\ Written

-----------------------------------------------------------------------------

LEMMA Kinds ==
    /\ \A p \in ToClient : p.kind \in {"data", "here", "bad"} => ~ Opens(p)
    /\ \A p \in ToClient : Opens(p) => p.kind = "probe"
    /\ \A p \in ToServer : p.kind = "ack" <=> p.flag = "ack"
    /\ \A p \in ToServer \cup ToClient : p.no \in Nat
BY DEF ToClient, ToServer, Wire, Opens, Commands

\* A queue that the client takes from, or that is lost.
Shrunk(q, r) ==
    /\ Items(r) \subseteq Items(q)
    /\ \A R : InOrder(q, R) => InOrder(r, R)
    /\ \A R : InThrees(q, R) => InThrees(r, R)

\* No ACK is added to the way to the server.
NoNewAck ==
    /\ \A x \in Items(toServer') : x.kind = "ack" => x \in Items(toServer)
    /\ \A n \in Nat : InOrder(toServer, LastAckOf(n)) => InOrder(toServer', LastAckOf(n))

LEMMA Shrinks ==
    ASSUME NEW S, NEW q \in Seq(S)
    PROVE  /\ Shrunk(q, q) /\ Shrunk(q, <<>>)
           /\ q # <<>> => Shrunk(q, Tail(q))
<1>1. Shrunk(q, q)
  BY DEF Shrunk
<1>2. Shrunk(q, <<>>)
  BY EmptyQueue DEF Shrunk
<1>3. ASSUME q # <<>> PROVE Shrunk(q, Tail(q))
  BY <1>3, OfTail DEF Shrunk
<1> QED BY <1>1, <1>2, <1>3

LEMMA OtherSent ==
    ASSUME toServer \in Seq(ToServer), NEW p \in ToServer, p.kind # "ack", toServer' \in Grown(toServer, p)
    PROVE  NoNewAck
<1>1. Garbled(p) \in ToServer /\ Garbled(p).kind = "bad"
  BY GarbledPacket
<1>2. Items(toServer) \subseteq ToServer
  BY OfItems
<1>3. Items(toServer') \subseteq Items(toServer) \cup {p, Garbled(p)}
  BY <1>1, GrownFacts
<1>4. ASSUME NEW n \in Nat, InOrder(toServer, LastAckOf(n)) PROVE InOrder(toServer', LastAckOf(n))
  <2>1. \A y \in Items(toServer) : <<y, p>> \in LastAckOf(n) /\ <<y, Garbled(p)>> \in LastAckOf(n)
    BY <1>1, <1>2 DEF LastAckOf
  <2> QED BY <1>1, <1>4, <2>1, GrownFacts
<1> QED BY <1>1, <1>3, <1>4 DEF NoNewAck

LEMMA TakenOrNone ==
    ASSUME Shrunk(toServer, toServer')
    PROVE  NoNewAck
BY DEF Shrunk, NoNewAck

LEMMA NoAckStays == ASSUME NoNewAck, NoAck PROVE NoAck'
BY DEF NoNewAck, NoAck

LEMMA NoAckOrder ==
    ASSUME toServer' \in Seq(ToServer), NoAck', NEW n
    PROVE  InOrder(toServer', LastAckOf(n))
<1>1. Items(toServer') \subseteq ToServer
  BY OfItems
<1>2. \A x, y \in Items(toServer') : <<x, y>> \in LastAckOf(n)
  BY <1>1 DEF NoAck, LastAckOf
<1> QED BY <1>2, OfItems

LEMMA AcksStay ==
    ASSUME Typed, Acks, NoNewAck, UNCHANGED <<spc, si, slen>>, pc' = "recv" => pc = "recv" \/ NoAck
    PROVE  Acks'
<1>1. slen \in Nat
  BY DEF Typed, ServerTyped
<1> QED BY <1>1, NoAckStays DEF Acks, NoNewAck, NoAck

LEMMA OpeningStays ==
    ASSUME Opening, UNCHANGED <<spc, si, slen, sname>>, Shrunk(toClient, toClient'), NoNewAck \/ NoOpening'
    PROVE  Opening'
<1>1. ASSUME NEW x \in Items(toClient'), Opens(x)
      PROVE  spc \in {"probe", "data"} /\ si = 0 /\ x.no = slen /\ x.of = sname /\ NoAck'
  BY <1>1, NoAckStays DEF Opening, Shrunk, NoOpening
<1> QED BY <1>1 DEF Opening, Shrunk

\* A step of the client outside recv_file, or out of it.
LEMMA ClientElsewhere ==
    ASSUME Typed, InTurn, ~ stray, UNCHANGED server, Shrunk(toClient, toClient'), NoNewAck,
           pc' # "recv", ended' # "got"
    PROVE  InTurn'
<1>1. Opening' /\ Acks'
  BY OpeningStays, AcksStay DEF InTurn, server, sending
<1> QED BY <1>1 DEF InTurn, Session, Written

LEMMA ServerName ==
    ASSUME Typed, spc # "main", slen > 0
    PROVE  /\ sname \in Names /\ slen = Length(sname) /\ slen \in Nat
           /\ Whole(sname) \in Seq(Names \X Nat) /\ Len(Whole(sname)) = slen
           /\ \A n \in 1 .. slen : Whole(sname)[n] = <<sname, n - 1>>
<1>1. sname \in Names /\ slen = Length(sname) /\ slen \in Nat
  BY SendsName DEF Typed, ServerTyped
<1>2. Whole(sname) = [n \in 1 .. slen |-> <<sname, n - 1>>]
  BY <1>1 DEF Whole
<1>3. Whole(sname) \in [1 .. slen -> Names \X Nat]
  BY <1>1, <1>2
<1>4. Whole(sname) \in Seq(Names \X Nat) /\ Len(Whole(sname)) = slen
  BY <1>1, <1>3
<1> QED BY <1>1, <1>2, <1>4

\* The next packet makes a longer start of the file, the last all of it.
LEMMA OneMore ==
    ASSUME NEW S, NEW w \in Seq(S), NEW n \in Nat, n < Len(w)
    PROVE  /\ Append(SubSeq(w, 1, n), w[n + 1]) = SubSeq(w, 1, n + 1)
           /\ n + 1 = Len(w) => SubSeq(w, 1, n + 1) = w
<1>1. Len(w) \in Nat /\ n + 1 \in 1 .. Len(w)
  BY LenProperties
<1>2. SubSeq(w, 1, n + 1) = SubSeq(w, 1, n) \o <<w[n + 1]>>
  <2>1. 1 \in 1 .. Len(w) /\ n + 1 \in 1 .. Len(w) /\ (n + 1) - 1 = n
    BY <1>1
  <2> QED BY <2>1, SubSeqRecursiveSecond
<1>3. SubSeq(w, 1, n) \in Seq(S) /\ w[n + 1] \in S
  <2>1. \A i \in 1 .. n : w[i] \in S
    BY <1>1, ElementOfSeq
  <2> QED BY <1>1, <2>1, SubSeqProperties, ElementOfSeq
<1>4. Append(SubSeq(w, 1, n), w[n + 1]) = SubSeq(w, 1, n) \o <<w[n + 1]>>
  BY <1>3, AppendIsConcat
<1> QED BY <1>2, <1>4, SubSeqFull

\* The request and the confirmation.
LEMMA OtherAsked ==
    ASSUME Typed, NEW c \in Commands, Request(c) \/ Ask("confirm", c.flag, 0, None)
    PROVE  NoNewAck
<1>1. toServer \in Seq(ToServer) /\ port \in Nat
  BY DEF Typed, QueuesTyped, ClientTyped
<1>2. CASE Request(c)
  <2> DEFINE p == Packet(port, "request", c.flag, 0, c.what)
  <2>1. p \in ToServer /\ p.kind # "ack"
    BY <1>1, ClientPackets DEF Packet
  <2>2. toServer' \in Grown(toServer, p)
    BY <1>2, <2>1, AskedFor DEF Request
  <2> HIDE DEF p
  <2> QED BY <1>1, <2>1, <2>2, OtherSent
<1>3. CASE Ask("confirm", c.flag, 0, None)
  <2> DEFINE p == Packet(port, "confirm", c.flag, 0, None)
  <2>1. p \in ToServer /\ p.kind # "ack"
    BY <1>1, ClientPackets DEF Packet
  <2>2. toServer' \in Grown(toServer, p)
    BY <1>3, <2>1, AskedFor
  <2> HIDE DEF p
  <2> QED BY <1>1, <2>1, <2>2, OtherSent
<1> QED BY <1>2, <1>3

LEMMA BeforeOrAfter ==
    ASSUME Typed, Typed', InTurn
    PROVE  /\ \A c \in Commands : Start(c) => InTurn'
           /\ Timeout \/ Acknowledged \/ AskAgain \/ NothingComes \/ Crash \/ Abort \/ Quit => InTurn'
<1>0. /\ toClient \in Seq(ToClient) /\ toServer \in Seq(ToServer)
      /\ pc # "idle" => cmd \in Commands
      /\ pc' # "idle" => ended' = "no"
  BY DEF Typed, ClientTyped, QueuesTyped
<1>1. /\ Shrunk(toClient, toClient) /\ Shrunk(toClient, <<>>)
      /\ toClient # <<>> => Shrunk(toClient, Tail(toClient))
      /\ toServer' = toServer => NoNewAck
  BY <1>0, Shrinks, TakenOrNone
<1>2. ASSUME Hears PROVE Shrunk(toClient, toClient') /\ UNCHANGED <<server, stray, cmd>>
  BY <1>1, <1>2 DEF Hears
<1>3. ASSUME UNCHANGED <<server, stray>>, Shrunk(toClient, toClient'), NoNewAck, pc' # "recv", ended' # "got"
      PROVE  InTurn'
  BY <1>3, ClientElsewhere DEF InTurn
<1>4. ASSUME NEW c \in Commands, Start(c) PROVE InTurn'
  <2>1. UNCHANGED <<server, stray>> /\ pc' # "recv" /\ ended' # "got" /\ NoNewAck
    BY <1>4, OtherAsked DEF Start
  <2>2. Shrunk(toClient, toClient')
    BY <1>1, <1>4 DEF Start
  <2> QED BY <1>3, <2>1, <2>2
<1>5. CASE Timeout
  <2>1. UNCHANGED <<server, stray>> /\ pc' = "ask" /\ NoNewAck /\ toClient' = toClient
    BY <1>0, <1>5, OtherAsked DEF Timeout
  <2> QED BY <1>0, <1>1, <1>3, <2>1
<1>6. CASE Acknowledged
  <2>1. Hears /\ pc' = "await" /\ NoNewAck
    BY <1>1, <1>6 DEF Acknowledged
  <2> QED BY <1>0, <1>2, <1>3, <2>1
<1>7. CASE AskAgain
  <2>1. Hears /\ pc' = "ask" /\ NoNewAck
    BY <1>0, <1>7, OtherAsked DEF AskAgain
  <2> QED BY <1>0, <1>2, <1>3, <2>1
<1>8. CASE NothingComes
  <2>1. Hears /\ pc' = "idle" /\ ended' = "nothing" /\ NoNewAck
    BY <1>0, <1>8, OtherAsked DEF NothingComes, ProbeIs
  <2> QED BY <1>2, <1>3, <2>1
<1>9. CASE Crash
  <2>1. /\ UNCHANGED <<server, stray>> /\ pc' = "idle" /\ ended' = "aborted"
        /\ toClient' = <<>>
    BY <1>9 DEF Crash
  <2>2. NoNewAck
    BY <1>0, <1>9, OtherAsked DEF Crash
  <2> QED BY <1>1, <1>3, <2>1, <2>2
<1>10. CASE Abort
  <2>1. Hears /\ pc' = "idle" /\ ended' = "aborted" /\ NoNewAck
    BY <1>1, <1>10 DEF Abort
  <2> QED BY <1>2, <1>3, <2>1
<1>11. CASE Quit
  <2>1. /\ UNCHANGED <<server, stray, toServer>> /\ pc' = "idle" /\ ended' = "aborted"
        /\ toClient' = <<>>
    BY <1>11 DEF Quit
  <2> QED BY <1>1, <1>3, <2>1
<1> QED BY <1>4, <1>5, <1>6, <1>7, <1>8, <1>9, <1>10, <1>11

\* The client confirms the probe of the file that the server is sending.
LEMMA BeginInTurn ==
    ASSUME Typed, Typed', InTurn, Begin
    PROVE  InTurn'
<1> SUFFICES ASSUME ~ stray PROVE Opening' /\ Acks' /\ Session' /\ Written'
  BY DEF InTurn, Begin, ProbeIs, Hears
<1>0. /\ Opening /\ Acks /\ Session /\ Written
      /\ toClient # <<>> /\ toClient' = Tail(toClient) /\ UNCHANGED server
      /\ pc = "await" /\ Heard.flag = cmd.flag /\ Heard.no > 0
      /\ pc' = "recv" /\ ci' = 0 /\ total' = Heard.no /\ name' = Heard.of /\ stream' = <<>>
  BY DEF InTurn, Begin, ProbeIs, Hears
<1>1. /\ toClient \in Seq(ToClient) /\ cmd \in Commands /\ ended' = "no"
      /\ Heard \in ToClient /\ Heard \in Items(toClient)
  BY <1>0, HeardFacts DEF Typed, ClientTyped, QueuesTyped
<1>2. Opens(Heard)
  BY <1>0, <1>1 DEF Opens, Commands
<1>3. spc \in {"probe", "data"} /\ si = 0 /\ Heard.no = slen /\ Heard.of = sname /\ NoAck
  BY <1>0, <1>1, <1>2 DEF Opening
<1>4. NoNewAck /\ NoAck'
  <2>1. NoNewAck
    BY <1>1, OtherAsked DEF Begin, ProbeIs
  <2> QED BY <1>3, <2>1, NoAckStays
<1>5. Shrunk(toClient, toClient')
  BY <1>0, <1>1, Shrinks
<1>6. Opening' /\ Acks'
  BY <1>0, <1>3, <1>4, <1>5, OpeningStays, AcksStay DEF server, sending
<1>7. Linked'
  <2>1. Items(toClient') \subseteq ToClient
    BY <1>0, <1>1, HeardFacts, OfItems
  <2>2. ASSUME NEW x \in Items(toClient'), x.kind = "data"
        PROVE  spc # "probe" /\ x.of = sname /\ x.no <= si
    <3>1. <<Heard, x>> \in AfterOpening /\ (spc = "probe" => <<Heard, x>> \in OpeningIsLast)
      BY <1>0, <2>2, HeardFacts DEF Opening
    <3> QED BY <1>2, <1>3, <2>2, <3>1 DEF AfterOpening, OpeningIsLast
  <2>3. InOrder(toClient', DataIsLast)
    <3>1. \A y, z \in ToClient : <<Heard, y, z>> \in NoOpeningBetween => <<y, z>> \in DataIsLast
      BY <1>2 DEF NoOpeningBetween, DataIsLast
    <3> QED BY <1>0, <3>1, HeardFacts DEF Opening
  <2>4. spc' = spc /\ si' = si /\ slen' = slen /\ sname' = sname
    BY <1>0 DEF server, sending
  <2> QED BY <1>0, <1>3, <1>4, <2>2, <2>3, <2>4 DEF Linked, NoAck
<1>8. Written'
  <2>1. SubSeq(Whole(name'), 1, 0) = <<>>
    BY SubSeqEmpty
  <2> QED BY <1>0, <1>1, <2>1 DEF Written
<1> QED BY <1>6, <1>7, <1>8 DEF Session

\* In recv_file: what is behind the data cannot open another transfer.
LEMMA Receiving ==
    ASSUME Typed, InTurn, ~ stray, pc = "recv", Hears, Heard.kind = "data"
    PROVE  /\ Linked /\ ci < total /\ spc \in {"data", "catchup"}
           /\ Heard.of = sname /\ Heard.no <= si
           /\ toClient' \in Seq(ToClient) /\ Shrunk(toClient, toClient') /\ NoOpening'
           /\ si \in Nat /\ ci \in Nat /\ slen \in Nat /\ Heard.no \in Nat
           /\ spc' = spc /\ si' = si /\ slen' = slen /\ sname' = sname
           /\ UNCHANGED <<server, stray>>
<1>0. /\ toClient # <<>> /\ toClient' = Tail(toClient) /\ UNCHANGED <<server, stray>>
      /\ toClient \in Seq(ToClient)
      /\ si \in Nat /\ ci \in Nat /\ slen \in Nat /\ ci < total
  BY DEF Hears, Typed, ClientTyped, ServerTyped, QueuesTyped
<1>1. Linked
  BY <1>0 DEF InTurn, Session, Severed
<1>2. Heard \in Items(toClient) /\ Heard \in ToClient /\ Heard.no \in Nat
  BY <1>0, HeardFacts
<1>3. spc \in {"data", "catchup"} /\ Heard.of = sname /\ Heard.no <= si
  BY <1>1, <1>2 DEF Linked
<1>4. NoOpening'
  <2>1. \A y \in Items(toClient') : <<Heard, y>> \in DataIsLast
    BY <1>0, <1>1, HeardFacts DEF Linked
  <2> QED BY <2>1 DEF NoOpening, DataIsLast
<1>5. toClient' \in Seq(ToClient) /\ Shrunk(toClient, toClient')
  BY <1>0, Shrinks, HeardFacts
<1> QED BY <1>0, <1>1, <1>2, <1>3, <1>4, <1>5 DEF server, sending

\* An ACK of the packet n, which has been written.
LEMMA AckSent ==
    ASSUME Typed, Acks, Linked, NEW n \in Nat, n <= si, n + 1 = slen => pc' # "recv" /\ n = ci,
           pc' = "recv" => pc = "recv", ci < total,
           spc \in {"data", "catchup"}, UNCHANGED <<spc, si, slen>>, Ask("ack", "ack", n, None)
    PROVE  /\ Acks'
           /\ \A x \in Items(toServer') : x.kind = "ack" => x \in Items(toServer) \/ x.no = n
<1> DEFINE p == Packet(port, "ack", "ack", n, None)
<1>0. port \in Nat /\ slen \in Nat /\ si \in Nat /\ toServer \in Seq(ToServer) /\ ci \in Nat
  BY DEF Typed, ClientTyped, ServerTyped, QueuesTyped
<1>1. p \in ToServer /\ p.kind = "ack" /\ p.no = n
  BY <1>0 DEF Packet, ToServer, Wire
<1>2. toServer' \in Grown(toServer, p)
  BY <1>1, AskedFor
<1> HIDE DEF p
<1>3. Garbled(p) \in ToServer /\ Garbled(p).kind = "bad"
  BY <1>1, GarbledPacket
<1>4. Items(toServer') \subseteq Items(toServer) \cup {p, Garbled(p)} /\ Items(toServer) \subseteq ToServer
  BY <1>0, <1>1, <1>2, <1>3, GrownFacts, OfItems
<1>5. \A x \in Items(toServer') : x.kind = "ack" => x \in Items(toServer) \/ x.no = n
  BY <1>1, <1>3, <1>4
<1>6. InOrder(toServer', LastAckOf(slen))
  <2>1. ASSUME NEW y \in Items(toServer)
        PROVE  <<y, p>> \in LastAckOf(slen) /\ <<y, Garbled(p)>> \in LastAckOf(slen)
    <3>1. y \in ToServer /\ y.no \in Nat
      BY <1>4, Kinds
    <3>2. y.kind = "ack" => y.no < ci
      BY DEF Linked
    <3>3. y.kind = "ack" => y.no + 1 # slen
      BY <1>0, <3>1, <3>2 DEF Linked
    <3> QED BY <1>1, <1>3, <3>1, <3>3 DEF LastAckOf
  <2> QED BY <1>0, <1>1, <1>2, <1>3, <2>1, GrownFacts DEF Acks
<1> QED BY <1>0, <1>5, <1>6 DEF Acks

LEMMA StoreInTurn ==
    ASSUME Typed, Typed', InTurn, Store
    PROVE  InTurn'
<1> SUFFICES ASSUME ~ stray PROVE Opening' /\ Acks' /\ Session' /\ Written'
  BY DEF InTurn, Store, Hears
<1>0. /\ pc = "recv" /\ Hears /\ Heard.kind = "data" /\ Heard.no >= ci
      /\ stream' = Append(stream, <<Heard.of, Heard.no>>)
      /\ ci' = ci + 1
      /\ Ask("ack", "ack", ci, None)
      /\ pc' = IF ci + 1 = total THEN "idle" ELSE "recv"
      /\ ended' = IF ci + 1 = total THEN "got" ELSE ended
      /\ UNCHANGED <<total, name, ran>>
  BY DEF Store
<1>1. /\ Linked /\ ci < total /\ spc \in {"data", "catchup"}
      /\ Heard.of = sname /\ Heard.no <= si
      /\ toClient' \in Seq(ToClient) /\ Shrunk(toClient, toClient') /\ NoOpening'
      /\ si \in Nat /\ ci \in Nat /\ slen \in Nat /\ Heard.no \in Nat
      /\ spc' = spc /\ si' = si /\ slen' = slen /\ sname' = sname
  BY <1>0, Receiving
<1>2. ci = si /\ Heard.no = ci /\ name = sname /\ total = slen
  BY <1>0, <1>1 DEF Linked
<1>3. Acks' /\ \A x \in Items(toServer') : x.kind = "ack" => x \in Items(toServer) \/ x.no = ci
  <2>1. ci \in Nat /\ ci <= si /\ (ci + 1 = slen => pc' # "recv" /\ ci = ci)
    BY <1>0, <1>1, <1>2
  <2> QED BY <1>0, <1>1, <2>1, AckSent DEF InTurn
<1>4. Opening'
  BY <1>1, OpeningStays DEF InTurn
<1>5. Session'
  <2>1. \A x \in Items(toServer') : x.kind = "ack" => x.no < ci'
    <3>1. ASSUME NEW x \in Items(toServer'), x.kind = "ack", x \in Items(toServer) PROVE x.no < ci + 1
      <4>1. x.no < ci
        BY <1>1, <3>1 DEF Linked
      <4>2. x \in ToServer
        BY <3>1, OfItems DEF Typed, QueuesTyped
      <4>3. x.no \in Nat
        BY <4>2, Kinds
      <4> QED BY <1>1, <4>1, <4>3
    <3> QED BY <1>0, <1>1, <1>3, <3>1
  <2>2. Linked'
    BY <1>0, <1>1, <1>2, <2>1 DEF Linked, Shrunk
  <2> QED BY <2>2 DEF Session
<1>6. Written'
  <2>1. /\ sname \in Names /\ Whole(sname) \in Seq(Names \X Nat) /\ Len(Whole(sname)) = slen
        /\ \A n \in 1 .. slen : Whole(sname)[n] = <<sname, n - 1>>
    BY <1>1, <1>2, ServerName
  <2> DEFINE w == Whole(sname)
  <2>2. w[ci + 1] = <<Heard.of, Heard.no>>
    BY <1>1, <1>2, <2>1
  <2>3. stream = SubSeq(w, 1, ci)
    BY <1>0, <1>2 DEF InTurn, Written
  <2>4. w \in Seq(Names \X Nat) /\ Len(w) = slen
    BY <2>1
  <2> HIDE DEF w
  <2>5. stream' = SubSeq(w, 1, ci + 1) /\ (ci + 1 = slen => stream' = w)
    BY <1>0, <1>1, <1>2, <2>2, <2>3, <2>4, OneMore
  <2>6. name' = sname /\ ended = "no"
    BY <1>0, <1>2 DEF Typed, ClientTyped
  <2> QED BY <1>0, <1>2, <2>5, <2>6 DEF Written, w
<1> QED BY <1>3, <1>4, <1>5, <1>6

LEMMA AckAgainInTurn ==
    ASSUME Typed, Typed', InTurn, AckAgain
    PROVE  InTurn'
<1> SUFFICES ASSUME ~ stray PROVE Opening' /\ Acks' /\ Session' /\ Written'
  BY DEF InTurn, AckAgain, Hears
<1>0. /\ pc = "recv" /\ Hears /\ Heard.kind = "data" /\ Heard.no < ci
      /\ Ask("ack", "ack", Heard.no, None)
      /\ UNCHANGED <<pc, receiving, results>>
  BY DEF AckAgain
<1>1. /\ Linked /\ ci < total /\ spc \in {"data", "catchup"}
      /\ Heard.of = sname /\ Heard.no <= si
      /\ toClient' \in Seq(ToClient) /\ Shrunk(toClient, toClient') /\ NoOpening'
      /\ si \in Nat /\ ci \in Nat /\ slen \in Nat /\ Heard.no \in Nat
      /\ spc' = spc /\ si' = si /\ slen' = slen /\ sname' = sname
  BY <1>0, Receiving
<1>3. Acks' /\ \A x \in Items(toServer') : x.kind = "ack" => x \in Items(toServer) \/ x.no = Heard.no
  <2>1. Heard.no + 1 # slen
    BY <1>0, <1>1 DEF Linked
  <2> QED BY <1>0, <1>1, <2>1, AckSent DEF InTurn
<1>4. Opening'
  BY <1>1, OpeningStays DEF InTurn
<1>5. Linked'
  BY <1>0, <1>1, <1>3 DEF Linked, Shrunk, receiving
<1>6. Written'
  BY <1>0 DEF InTurn, Written, receiving, results
<1> QED BY <1>3, <1>4, <1>5, <1>6 DEF Session

LEMMA DropInTurn ==
    ASSUME Typed, Typed', InTurn, Drop
    PROVE  InTurn'
<1> SUFFICES ASSUME ~ stray PROVE Opening' /\ Acks' /\ Session' /\ Written'
  BY DEF InTurn, Drop, Hears
<1>0. /\ pc = "recv" /\ toClient # <<>> /\ toClient' = Tail(toClient) /\ UNCHANGED <<server, toServer>>
      /\ UNCHANGED <<pc, receiving, results>>
      /\ toClient \in Seq(ToClient) /\ toServer \in Seq(ToServer)
  BY DEF Drop, Hears, Typed, QueuesTyped
<1>1. Linked
  BY <1>0 DEF InTurn, Session, Severed
<1>2. NoNewAck /\ Shrunk(toClient, toClient')
  BY <1>0, Shrinks, TakenOrNone
<1>3. Opening' /\ Acks'
  BY <1>0, <1>2, OpeningStays, AcksStay DEF InTurn, server, sending
<1>4. Linked'
  BY <1>0, <1>1, <1>2 DEF Linked, Shrunk, receiving, server, sending
<1>5. Written'
  BY <1>0 DEF InTurn, Written, receiving, results
<1> QED BY <1>3, <1>4, <1>5 DEF Session

-----------------------------------------------------------------------------

LEMMA ServerSends ==
    ASSUME toClient \in Seq(ToClient), NEW p \in ToClient, toClient' \in Grown(toClient, p),
           InOrder(toClient, AfterOpening), InThrees(toClient, NoOpeningBetween)
    PROVE  /\ \A x \in Items(toClient') : x \in Items(toClient) \/ x = p \/ (~ Opens(x) /\ x.kind = "bad")
           /\ (p.kind = "data" => \A y \in Items(toClient) : Opens(y) => p.no = 0 /\ p.of = y.of)
                 => InOrder(toClient', AfterOpening)
           /\ (Opens(p) => InOrder(toClient, OpeningIsLast)) => InThrees(toClient', NoOpeningBetween)
           /\ p.kind # "data" /\ InOrder(toClient, OpeningIsLast) => InOrder(toClient', OpeningIsLast)
           /\ InOrder(toClient, DataIsLast) /\ (Opens(p) => \A y \in Items(toClient) : y.kind # "data")
                 => InOrder(toClient', DataIsLast)
<1> DEFINE g == Garbled(p)
<1>1. g \in ToClient /\ g.kind = "bad" /\ ~ Opens(g)
  BY GarbledPacket, Kinds
<1>2. Items(toClient) \subseteq ToClient
  BY OfItems
<1>g. Garbled(p) \in ToClient
  BY <1>1
<1>3. /\ Items(toClient') \subseteq Items(toClient) \cup {p, g}
      /\ \A R : InOrder(toClient, R) /\ (\A y \in Items(toClient) : <<y, p>> \in R /\ <<y, g>> \in R)
                   => InOrder(toClient', R)
      /\ \A R, T : InThrees(toClient, R) /\ InOrder(toClient, T)
                      /\ (\A y, z \in Items(toClient) : <<y, z>> \in T => <<y, z, p>> \in R /\ <<y, z, g>> \in R)
                   => InThrees(toClient', R)
  BY <1>g, GrownFacts
<1> HIDE DEF g
<1>4. \A x \in Items(toClient') : x \in Items(toClient) \/ x = p \/ (~ Opens(x) /\ x.kind = "bad")
  BY <1>1, <1>3
<1>5. ASSUME p.kind = "data" => \A y \in Items(toClient) : Opens(y) => p.no = 0 /\ p.of = y.of
      PROVE  InOrder(toClient', AfterOpening)
  <2>1. \A y \in Items(toClient) : <<y, p>> \in AfterOpening /\ <<y, g>> \in AfterOpening
    BY <1>1, <1>2, <1>5 DEF AfterOpening
  <2> QED BY <1>3, <2>1
<1>6. ASSUME Opens(p) => InOrder(toClient, OpeningIsLast)
      PROVE  InThrees(toClient', NoOpeningBetween)
  <2>1. CASE Opens(p)
    <3>1. \A y, z \in Items(toClient) : <<y, z>> \in OpeningIsLast =>
              <<y, z, p>> \in NoOpeningBetween /\ <<y, z, g>> \in NoOpeningBetween
      BY <1>1, <1>2 DEF OpeningIsLast, NoOpeningBetween
    <3> QED BY <1>3, <1>6, <2>1, <3>1
  <2>2. CASE ~ Opens(p)
    <3>1. \A y, z \in Items(toClient) : <<y, z>> \in AfterOpening =>
              <<y, z, p>> \in NoOpeningBetween /\ <<y, z, g>> \in NoOpeningBetween
      BY <1>1, <1>2, <2>2 DEF NoOpeningBetween
    <3> QED BY <1>3, <3>1
  <2> QED BY <2>1, <2>2
<1>7. ASSUME p.kind # "data", InOrder(toClient, OpeningIsLast)
      PROVE  InOrder(toClient', OpeningIsLast)
  <2>1. \A y \in Items(toClient) : <<y, p>> \in OpeningIsLast /\ <<y, g>> \in OpeningIsLast
    BY <1>1, <1>2, <1>7 DEF OpeningIsLast
  <2> QED BY <1>3, <1>7, <2>1
<1>8. ASSUME InOrder(toClient, DataIsLast), Opens(p) => \A y \in Items(toClient) : y.kind # "data"
      PROVE  InOrder(toClient', DataIsLast)
  <2>1. \A y \in Items(toClient) : <<y, p>> \in DataIsLast /\ <<y, g>> \in DataIsLast
    BY <1>1, <1>2, <1>8 DEF DataIsLast
  <2> QED BY <1>3, <1>8, <2>1
<1> QED BY <1>4, <1>5, <1>6, <1>7, <1>8

\* With no probe on its way the order of probes says nothing.
LEMMA NoOpeningOrder ==
    ASSUME toClient \in Seq(ToClient), NoOpening
    PROVE  InOrder(toClient, OpeningIsLast)
<1>1. Items(toClient) \subseteq ToClient
  BY OfItems
<1>2. \A x, y \in Items(toClient) : <<x, y>> \in OpeningIsLast
  BY <1>1 DEF NoOpening, OpeningIsLast
<1> QED BY <1>2, OfItems

LEMMA ReceivedFacts ==
    ASSUME Typed, Receives
    PROVE  /\ NoNewAck /\ toServer # <<>> /\ UNCHANGED <<client, ended, stray>>
           /\ toServer' \in Seq(ToServer) /\ Items(toServer') \subseteq Items(toServer)
           /\ Got \in Items(toServer) /\ Got \in ToServer /\ Got.no \in Nat /\ peer' \in Nat
<1>1. toServer \in Seq(ToServer) /\ toServer # <<>> /\ toServer' = Tail(toServer)
      /\ UNCHANGED <<client, ended, stray>>
  BY DEF Receives, Typed, QueuesTyped
<1>2. NoNewAck
  BY <1>1, Shrinks, TakenOrNone
<1> QED BY <1>1, <1>2, GotFacts

LEMMA StillWritten ==
    ASSUME Written, UNCHANGED <<client, ended>>
    PROVE  Written' /\ pc' = pc /\ ci' = ci /\ total' = total /\ name' = name
BY DEF Written, client, receiving

\* A request for a file or a command, in the main loop.
LEMMA AcceptInTurn ==
    ASSUME Typed, Typed', InTurn, AcceptGet \/ AcceptCmd
    PROVE  InTurn'
<1>0. PICK flag \in {"get", "cmd"} :
          /\ Receives /\ spc = "main" /\ spc' = "open" /\ Answer("here", flag, 0, None)
  BY DEF AcceptGet, AcceptCmd
<1>1. /\ NoNewAck /\ toServer # <<>> /\ UNCHANGED <<client, ended, stray>>
      /\ toServer' \in Seq(ToServer) /\ peer' \in Nat /\ toClient \in Seq(ToClient)
  BY <1>0, ReceivedFacts DEF Typed, QueuesTyped
<1> SUFFICES ASSUME ~ stray PROVE Opening' /\ Acks' /\ Session' /\ Written'
  BY <1>1 DEF InTurn
<1>2. NoAck' /\ NoOpening
  BY <1>0, <1>1, NoAckStays DEF InTurn, Acks, Opening, NoOpening
<1>3. pc' # "recv" /\ Written'
  BY <1>0, <1>1, StillWritten DEF InTurn, Session, Linked, Severed
<1> DEFINE p == Packet(peer', "here", flag, 0, None)
<1>4. p \in ToClient /\ p.kind = "here" /\ ~ Opens(p)
  <2>1. Packet(peer', "here", flag, 0, None) \in ToClient
    BY <1>1, ServerPackets
  <2>2. p.kind = "here"
    BY DEF Packet
  <2> QED BY <2>1, <2>2, Kinds
<1>5. toClient' \in Grown(toClient, p)
  BY <1>0, <1>4, Answered
<1> HIDE DEF p
<1>6. InOrder(toClient, AfterOpening) /\ InThrees(toClient, NoOpeningBetween)
  BY DEF InTurn, Opening
<1>7. /\ \A x \in Items(toClient') : ~ Opens(x)
      /\ InOrder(toClient', AfterOpening) /\ InThrees(toClient', NoOpeningBetween)
  BY <1>1, <1>2, <1>4, <1>5, <1>6, ServerSends DEF NoOpening
<1>8. Opening'
  BY <1>0, <1>7 DEF Opening
<1>9. Acks'
  <2>1. InOrder(toServer', LastAckOf(slen'))
    BY <1>1, <1>2, NoAckOrder
  <2> QED BY <1>2, <2>1 DEF Acks, NoAck
<1> QED BY <1>3, <1>8, <1>9 DEF Session

LEMMA IgnoreInTurn ==
    ASSUME Typed, Typed', InTurn, Ignore
    PROVE  InTurn'
<1>1. /\ Receives /\ spc = "main" /\ UNCHANGED <<spc, sending, toClient>>
      /\ NoNewAck /\ toServer # <<>> /\ UNCHANGED <<client, ended, stray>>
      /\ toClient \in Seq(ToClient)
  BY ReceivedFacts DEF Ignore, Typed, QueuesTyped
<1> SUFFICES ASSUME ~ stray PROVE Opening' /\ Acks' /\ Session' /\ Written'
  BY <1>1 DEF InTurn
<1>2. pc' # "recv" /\ pc # "recv" /\ Written'
  BY <1>1, StillWritten DEF InTurn, Session, Linked, Severed
<1>3. Shrunk(toClient, toClient')
  BY <1>1, Shrinks
<1>4. Opening' /\ Acks'
  BY <1>1, <1>2, <1>3, OpeningStays, AcksStay DEF InTurn, sending
<1> QED BY <1>2, <1>4 DEF Session

\* The name on the probe of a file that has packets.
LEMMA ProbeSent ==
    ASSUME Typed, spc # "main", peer' \in Nat
    PROVE  LET p == Packet(peer', "probe", sflag, slen,
                           IF sname \in disk \cup {ResponseFile} THEN sname ELSE None)
           IN  /\ p \in ToClient /\ p.kind = "probe"
               /\ Opens(p) => p.no = slen /\ p.of = sname /\ slen > 0
<1> DEFINE f == IF sname \in disk \cup {ResponseFile} THEN sname ELSE None
<1>1. slen \in Nat /\ sflag \in {"get", "cmd"} /\ f \in Names \cup {None}
  BY DEF Typed, ServerTyped
<1>2. slen > 0 => f = sname
  BY SendsName
<1> HIDE DEF f
<1>3. Packet(peer', "probe", sflag, slen, f) \in ToClient
  BY <1>1, ServerPackets
<1> QED BY <1>1, <1>2, <1>3 DEF Packet, Opens, f

LEMMA AnnounceInTurn ==
    ASSUME Typed, Typed', InTurn, Announce
    PROVE  InTurn'
<1>1. /\ spc = "open" /\ spc' = "probe" /\ peer' \in Nat
      /\ UNCHANGED <<sending, client, toServer, results, stray>>
      /\ toClient \in Seq(ToClient) /\ toServer \in Seq(ToServer) /\ si = 0
  BY DEF Announce, Typed, ServerTyped, QueuesTyped
<1> SUFFICES ASSUME ~ stray PROVE Opening' /\ Acks' /\ Session' /\ Written'
  BY <1>1 DEF InTurn
<1>2. NoAck' /\ NoOpening
  BY <1>1 DEF InTurn, Acks, Opening, NoOpening, NoAck
<1>3. pc' # "recv" /\ Written'
  BY <1>1, StillWritten DEF InTurn, Session, Linked, Severed, results
<1> DEFINE f == IF sname \in disk \cup {ResponseFile} THEN sname ELSE None
           p == Packet(peer', "probe", sflag, slen, f)
<1>4. p \in ToClient /\ p.kind = "probe" /\ (Opens(p) => p.no = slen /\ p.of = sname /\ slen > 0)
  BY <1>1, ProbeSent
<1>5. toClient' \in Grown(toClient, p)
  BY <1>4, Answered DEF Announce, Probe
<1> HIDE DEF p
<1>6. InOrder(toClient, AfterOpening) /\ InThrees(toClient, NoOpeningBetween) /\ InOrder(toClient, OpeningIsLast)
  BY <1>1, <1>2, NoOpeningOrder DEF InTurn, Opening
<1>7. /\ \A x \in Items(toClient') : x \in Items(toClient) \/ x = p \/ ~ Opens(x)
      /\ InOrder(toClient', AfterOpening) /\ InThrees(toClient', NoOpeningBetween) /\ InOrder(toClient', OpeningIsLast)
  BY <1>1, <1>4, <1>5, <1>6, ServerSends
<1>8. Opening'
  <2>1. ASSUME NEW x \in Items(toClient'), Opens(x) PROVE x.no = slen /\ x.of = sname
    BY <1>2, <1>4, <1>7, <2>1 DEF NoOpening
  <2> QED BY <1>1, <1>2, <1>7, <2>1 DEF Opening, sending
<1>9. Acks'
  BY <1>1, <1>2, NoAckOrder DEF Acks, NoAck
<1> QED BY <1>3, <1>8, <1>9 DEF Session

\* Data of the current transfer is put on its way.
LEMMA DataSent ==
    ASSUME Typed, Opening, spc # "main", slen > 0, peer' \in Nat, NEW n \in Nat,
           n = 0 \/ NoOpening, toClient' \in Grown(toClient, Packet(peer', "data", "data", n, sname))
    PROVE  /\ \A x \in Items(toClient') : Opens(x) => x \in Items(toClient)
           /\ \A x \in Items(toClient') : x.kind = "data" => x \in Items(toClient) \/ (x.no = n /\ x.of = sname)
           /\ InOrder(toClient', AfterOpening) /\ InThrees(toClient', NoOpeningBetween)
           /\ InOrder(toClient, DataIsLast) => InOrder(toClient', DataIsLast)
<1> DEFINE p == Packet(peer', "data", "data", n, sname)
<1>1. toClient \in Seq(ToClient) /\ sname \in Names /\ sname # None
  BY SendsName DEF Typed, QueuesTyped
<1>2. p \in ToClient /\ p.kind = "data" /\ p.no = n /\ p.of = sname
  BY <1>1, ServerPackets DEF Packet
<1>3. toClient' \in Grown(toClient, p)
  OBVIOUS
<1> HIDE DEF p
<1>4. ~ Opens(p)
  BY <1>2, Kinds
<1>5. \A y \in Items(toClient) : Opens(y) => p.no = 0 /\ p.of = y.of
  BY <1>2 DEF Opening, NoOpening
<1> QED BY <1>1, <1>2, <1>3, <1>4, <1>5, ServerSends DEF Opening

LEMMA ConfirmedInTurn ==
    ASSUME Typed, Typed', InTurn, Confirmed
    PROVE  InTurn'
<1>1. /\ Receives /\ spc = "probe" /\ GoOn(0) /\ UNCHANGED <<sname, slen, sflag, filename, disk>>
      /\ NoNewAck /\ UNCHANGED <<client, ended, stray>> /\ peer' \in Nat
      /\ toServer' \in Seq(ToServer) /\ toClient \in Seq(ToClient) /\ slen \in Nat
  BY ReceivedFacts DEF Confirmed, Typed, QueuesTyped, ServerTyped
<1> SUFFICES ASSUME ~ stray PROVE Opening' /\ Acks' /\ Session' /\ Written'
  BY <1>1 DEF InTurn
<1>2. Opening /\ Acks /\ NoAck' /\ Written' /\ pc' = pc /\ ci' = ci /\ total' = total /\ name' = name
  BY <1>1, NoAckStays, StillWritten DEF InTurn, Acks
<1>3. pc = "recv" => Linked /\ ci < total
  BY <1>1 DEF InTurn, Session, Severed, Typed, ClientTyped
<1>4. Acks'
  BY <1>1, <1>2, NoAckOrder DEF Acks, NoAck
<1>5. CASE 0 < slen /\ spc' = "data" /\ si' = 0 /\ toClient' \in Grown(toClient, Packet(peer', "data", "data", 0, sname))
  <2>1. /\ \A x \in Items(toClient') : Opens(x) => x \in Items(toClient)
        /\ \A x \in Items(toClient') : x.kind = "data" => x \in Items(toClient) \/ (x.no = 0 /\ x.of = sname)
        /\ InOrder(toClient', AfterOpening) /\ InThrees(toClient', NoOpeningBetween)
        /\ InOrder(toClient, DataIsLast) => InOrder(toClient', DataIsLast)
    BY <1>1, <1>2, <1>5, DataSent
  <2>2. Opening'
    BY <1>1, <1>2, <1>5, <2>1 DEF Opening
  <2>3. Session'
    <3>1. ASSUME pc = "recv" PROVE Linked'
      <4>1. Linked /\ ci = 0
        BY <1>1, <1>3, <3>1 DEF Linked
      <4>2. \A x \in Items(toClient') : x.kind = "data" => x.of = sname /\ x.no <= 0
        BY <1>1, <2>1, <4>1 DEF Linked
      <4> QED BY <1>1, <1>2, <1>5, <2>1, <4>1, <4>2 DEF Linked, NoAck
    <3> QED BY <1>2, <3>1 DEF Session
  <2> QED BY <1>2, <1>4, <2>2, <2>3
<1>6. CASE 0 >= slen /\ spc' = "main" /\ si' = 0 /\ UNCHANGED <<toClient, hurt>>
  <2>1. pc' # "recv"
    BY <1>1, <1>2, <1>3, <1>6 DEF Linked, Typed, ClientTyped
  <2>2. NoOpening
    BY <1>1, <1>2, <1>6 DEF Opening, NoOpening, Opens
  <2>3. Opening'
    BY <1>2, <1>6, <2>2 DEF Opening, NoOpening
  <2> QED BY <1>2, <1>4, <2>1, <2>3 DEF Session
<1> QED BY <1>1, <1>5, <1>6, GoesOn

LEMMA RightAckInTurn ==
    ASSUME Typed, Typed', InTurn, RightAck
    PROVE  InTurn'
<1>1. /\ Receives /\ spc \in {"data", "catchup"} /\ GoOn(si + 1) /\ UNCHANGED <<sname, slen, sflag, filename, disk>>
      /\ Got.kind = "ack" /\ Got.no = si /\ Got \in Items(toServer)
      /\ NoNewAck /\ UNCHANGED <<client, ended, stray>> /\ peer' \in Nat
      /\ toServer' \in Seq(ToServer) /\ Items(toServer') \subseteq Items(toServer)
      /\ toServer \in Seq(ToServer) /\ toClient \in Seq(ToClient)
      /\ slen \in Nat /\ si \in Nat /\ si < slen
  BY ReceivedFacts DEF RightAck, Typed, QueuesTyped, ServerTyped
<1> SUFFICES ASSUME ~ stray PROVE Opening' /\ Acks' /\ Session' /\ Written'
  BY <1>1 DEF InTurn
<1>2. Opening /\ Acks /\ Written' /\ pc' = pc /\ ci' = ci /\ total' = total /\ name' = name
  BY <1>1, StillWritten DEF InTurn
<1>3. NoOpening
  BY <1>1, <1>2 DEF Opening, NoOpening, NoAck
<1>4. ASSUME pc = "recv" PROVE Linked /\ ci = si + 1
  <2>1. Linked
    BY <1>1, <1>4 DEF InTurn, Session, Severed
  <2>2. si < ci
    BY <1>1, <2>1 DEF Linked
  <2> QED BY <1>1, <2>1, <2>2 DEF Linked
<1>5. InOrder(toServer', LastAckOf(slen)) /\ \A y \in Items(toServer') : <<Got, y>> \in LastAckOf(slen)
  BY <1>1, <1>2, GotFacts DEF Acks
<1>6. CASE si + 1 < slen /\ spc' = "data" /\ si' = si + 1 /\ toClient' \in Grown(toClient, Packet(peer', "data", "data", si + 1, sname))
  <2>1. /\ \A x \in Items(toClient') : Opens(x) => x \in Items(toClient)
        /\ \A x \in Items(toClient') : x.kind = "data" => x \in Items(toClient) \/ (x.no = si + 1 /\ x.of = sname)
        /\ InOrder(toClient', AfterOpening) /\ InThrees(toClient', NoOpeningBetween)
        /\ InOrder(toClient, DataIsLast) => InOrder(toClient', DataIsLast)
    BY <1>1, <1>2, <1>3, <1>6, DataSent
  <2>2. Opening'
    BY <1>3, <1>6, <2>1 DEF Opening, NoOpening
  <2>3. Acks'
    <3>1. ASSUME NEW x \in Items(toServer'), x.kind = "ack" PROVE x.no <= si + 1 /\ (pc = "recv" => x.no + 1 # slen)
      <4>1. x \in ToServer /\ x.no \in Nat /\ x \in Items(toServer)
        BY <1>1, OfItems, Kinds
      <4> QED BY <1>1, <1>2, <3>1, <4>1 DEF Acks
    <3> QED BY <1>1, <1>2, <1>5, <1>6, <3>1 DEF Acks
  <2>4. ASSUME pc = "recv" PROVE Linked'
    <3>1. Linked /\ ci = si + 1
      BY <1>4, <2>4
    <3>2. \A x \in Items(toClient') : x.kind = "data" => x.of = sname /\ x.no <= si + 1
      <4>1. ASSUME NEW x \in Items(toClient), x.kind = "data" PROVE x.of = sname /\ x.no <= si + 1
        <5>1. x.of = sname /\ x.no <= si
          BY <3>1, <4>1 DEF Linked
        <5>2. x.no \in Nat
          BY <1>1, OfItems, Kinds
        <5> QED BY <1>1, <5>1, <5>2
      <4> QED BY <1>1, <2>1, <4>1
    <3>3. \A x \in Items(toServer') : x.kind = "ack" => x.no < ci
      BY <1>1, <3>1 DEF Linked
    <3>4. name = sname /\ total = slen /\ InOrder(toClient', DataIsLast)
      BY <2>1, <3>1 DEF Linked
    <3> QED BY <1>1, <1>2, <1>6, <3>1, <3>2, <3>3, <3>4 DEF Linked
  <2> QED BY <1>2, <2>2, <2>3, <2>4 DEF Session
<1>7. CASE si + 1 >= slen /\ spc' = "main" /\ si' = 0 /\ UNCHANGED <<toClient, hurt>>
  <2>1. si + 1 = slen
    BY <1>1, <1>7
  <2>2. pc # "recv"
    BY <1>1, <1>2, <2>1 DEF Acks
  <2>3. NoAck'
    BY <1>1, <1>5, <2>1 DEF NoAck, LastAckOf
  <2>4. Acks'
    BY <1>1, <2>3, NoAckOrder DEF Acks, NoAck
  <2>5. Opening'
    BY <1>2, <1>3, <1>7 DEF Opening, NoOpening
  <2> QED BY <1>2, <2>2, <2>4, <2>5 DEF Session
<1>8. si + 1 \in Nat /\ spc # "main"
  BY <1>1
<1> QED BY <1>1, <1>6, <1>7, <1>8, GoesOn

\* The server sends what it sent last once more.
LEMMA AgainInTurn ==
    ASSUME Typed, Typed', InTurn, ~ stray, spc \in {"probe", "data", "catchup"}, Again, NoNewAck, peer' \in Nat,
           spc' = spc \/ (spc = "catchup" /\ spc' = "data"), UNCHANGED <<client, ended, sending>>
    PROVE  InTurn'
<1>1. /\ toServer' \in Seq(ToServer) /\ toServer \in Seq(ToServer) /\ toClient \in Seq(ToClient)
      /\ slen \in Nat /\ si \in Nat
      /\ UNCHANGED <<si, sname, slen>>
  BY DEF Typed, QueuesTyped, ServerTyped, sending
<1>2. Opening /\ Acks /\ Written' /\ pc' = pc /\ ci' = ci /\ total' = total /\ name' = name
  BY StillWritten DEF InTurn
<1>3. pc = "recv" => Linked
  BY DEF InTurn, Session, Severed
<1>4. Acks'
  BY <1>1, <1>2, NoAckStays DEF Acks, NoNewAck, NoAck
<1>5. ASSUME pc = "recv" PROVE \A x \in Items(toServer') : x.kind = "ack" => x.no < ci
  BY <1>3, <1>5 DEF Linked, NoNewAck
<1>6. CASE spc = "probe"
  <2> DEFINE f == IF sname \in disk \cup {ResponseFile} THEN sname ELSE None
             p == Packet(peer', "probe", sflag, slen, f)
  <2>1. p \in ToClient /\ p.kind = "probe" /\ (Opens(p) => p.no = slen /\ p.of = sname /\ slen > 0)
    BY <1>6, ProbeSent
  <2>2. toClient' \in Grown(toClient, p)
    BY <1>6, Repeats
  <2> HIDE DEF p
  <2>3. NoAck' /\ si = 0
    BY <1>2, <1>6, NoAckStays DEF Acks, Typed, ServerTyped
  <2>4. InOrder(toClient, AfterOpening) /\ InThrees(toClient, NoOpeningBetween) /\ InOrder(toClient, OpeningIsLast)
    BY <1>2, <1>6 DEF Opening
  <2>5. /\ \A x \in Items(toClient') : x \in Items(toClient) \/ x = p \/ (~ Opens(x) /\ x.kind = "bad")
        /\ InOrder(toClient', AfterOpening) /\ InThrees(toClient', NoOpeningBetween) /\ InOrder(toClient', OpeningIsLast)
        /\ InOrder(toClient, DataIsLast) /\ (Opens(p) => \A y \in Items(toClient) : y.kind # "data")
              => InOrder(toClient', DataIsLast)
    BY <1>1, <2>1, <2>2, <2>4, ServerSends
  <2>6. Opening'
    <3>1. ASSUME NEW x \in Items(toClient'), Opens(x) PROVE x.no = slen /\ x.of = sname
      BY <1>2, <2>1, <2>5, <3>1 DEF Opening
    <3> QED BY <1>1, <1>6, <2>3, <2>5, <3>1 DEF Opening
  <2>7. ASSUME pc = "recv" PROVE Linked'
    <3>1. Linked /\ \A y \in Items(toClient) : y.kind # "data"
      BY <1>3, <1>6, <2>7 DEF Linked
    <3>2. InOrder(toClient', DataIsLast) /\ \A y \in Items(toClient') : y.kind # "data"
      BY <2>1, <2>5, <3>1 DEF Linked
    <3> QED BY <1>1, <1>2, <1>5, <1>6, <2>7, <3>1, <3>2 DEF Linked
  <2> QED BY <1>2, <1>4, <2>6, <2>7 DEF InTurn, Session
<1>7. CASE spc # "probe"
  <2>1. si < slen /\ toClient' \in Grown(toClient, Packet(peer', "data", "data", si, sname)) /\ slen > 0
    BY <1>1, <1>7, Repeats
  <2>2. si = 0 \/ NoOpening
    BY <1>2 DEF Opening, NoOpening
  <2>3. /\ \A x \in Items(toClient') : Opens(x) => x \in Items(toClient)
        /\ \A x \in Items(toClient') : x.kind = "data" => x \in Items(toClient) \/ (x.no = si /\ x.of = sname)
        /\ InOrder(toClient', AfterOpening) /\ InThrees(toClient', NoOpeningBetween)
        /\ InOrder(toClient, DataIsLast) => InOrder(toClient', DataIsLast)
    BY <1>1, <1>2, <2>1, <2>2, DataSent
  <2>4. Opening'
    <3>1. ASSUME NEW x \in Items(toClient'), Opens(x)
          PROVE  spc' \in {"probe", "data"} /\ si = 0 /\ x.no = slen /\ x.of = sname /\ NoAck'
      <4>1. spc \in {"probe", "data"} /\ si = 0 /\ x.no = slen /\ x.of = sname /\ NoAck
        BY <1>2, <2>3, <3>1 DEF Opening
      <4> QED BY <4>1, NoAckStays
    <3> QED BY <1>1, <1>7, <2>3, <3>1 DEF Opening
  <2>5. ASSUME pc = "recv" PROVE Linked'
    <3>1. Linked
      BY <1>3, <2>5
    <3>2. \A x \in Items(toClient') : x.kind = "data" => x.of = sname /\ x.no <= si
      BY <1>1, <2>3, <3>1 DEF Linked
    <3>3. name = sname /\ total = slen /\ InOrder(toClient', DataIsLast) /\ (ci = si \/ ci = si + 1)
      BY <2>3, <3>1 DEF Linked
    <3>4. spc' \in {"data", "catchup"}
      BY <1>7
    <3> QED BY <1>1, <1>2, <1>5, <2>5, <3>2, <3>3, <3>4 DEF Linked
  <2> QED BY <1>2, <1>4, <2>4, <2>5 DEF InTurn, Session
<1> QED BY <1>6, <1>7

LEMMA RepeatInTurn ==
    ASSUME Typed, Typed', InTurn, WrongFlag \/ ServerTimeout
    PROVE  InTurn'
<1>1. CASE WrongFlag
  <2>1. /\ Receives /\ Again /\ spc \in {"probe", "data", "catchup"} /\ UNCHANGED <<spc, sending>>
    BY <1>1 DEF WrongFlag
  <2>2. NoNewAck /\ UNCHANGED <<client, ended, stray>> /\ peer' \in Nat
    BY <2>1, ReceivedFacts
  <2> QED BY <2>1, <2>2, AgainInTurn DEF InTurn
<1>2. CASE ServerTimeout
  <2>1. /\ Again /\ spc \in {"probe", "data", "catchup"} /\ peer' = peer
        /\ UNCHANGED <<sending, client, toServer, results, stray>>
        /\ spc' = IF spc = "catchup" THEN "data" ELSE spc
    BY <1>2 DEF ServerTimeout
  <2>2. peer' \in Nat /\ toServer \in Seq(ToServer)
    BY <2>1 DEF Typed, ServerTyped, QueuesTyped
  <2>3. NoNewAck
    BY <2>1, <2>2, Shrinks, TakenOrNone
  <2>4. UNCHANGED <<client, ended, sending, stray>>
    BY <2>1 DEF results
  <2> QED BY <2>1, <2>2, <2>3, <2>4, AgainInTurn DEF InTurn
<1> QED BY <1>1, <1>2

LEMMA WrongAckInTurn ==
    ASSUME Typed, Typed', InTurn, WrongAck
    PROVE  InTurn'
<1>1. /\ Receives /\ spc \in {"data", "catchup"} /\ spc' = "catchup"
      /\ spc = "data" => Got.kind = "ack"
      /\ UNCHANGED <<sending, toClient>>
      /\ NoNewAck /\ UNCHANGED <<client, ended, stray>> /\ Got \in Items(toServer)
      /\ UNCHANGED <<si, sname, slen>> /\ slen \in Nat
  BY ReceivedFacts DEF WrongAck, sending, Typed, ServerTyped
<1> SUFFICES ASSUME ~ stray PROVE Opening' /\ Acks' /\ Session' /\ Written'
  BY <1>1 DEF InTurn
<1>2. Opening /\ Acks /\ Written' /\ pc' = pc /\ ci' = ci /\ total' = total /\ name' = name
  BY <1>1, StillWritten DEF InTurn
<1>3. NoOpening
  BY <1>1, <1>2 DEF Opening, NoOpening, NoAck
<1>4. Opening'
  BY <1>1, <1>2, <1>3 DEF Opening, NoOpening
<1>5. Acks'
  BY <1>1, <1>2 DEF Acks, NoNewAck
<1>6. ASSUME pc = "recv" PROVE Linked'
  <2>1. Linked
    BY <1>1, <1>6 DEF InTurn, Session, Severed
  <2> QED BY <1>1, <1>2, <2>1 DEF Linked, NoNewAck
<1> QED BY <1>2, <1>4, <1>5, <1>6 DEF Session

LEMMA RestartInTurn ==
    ASSUME Typed, Typed', InTurn, Restart
    PROVE  InTurn'
<1>1. /\ spc' = "main" /\ toServer' = <<>> /\ stray' = (stray \/ toClient # <<>>)
      /\ UNCHANGED <<client, toClient, ended>>
  BY DEF Restart, results
<1> SUFFICES ASSUME ~ stray, toClient = <<>> PROVE Opening' /\ Acks' /\ Session' /\ Written'
  BY <1>1 DEF InTurn
<1>2. Items(toServer') = {} /\ Items(toClient') = {} /\ toClient' = <<>>
  BY <1>1, EmptyQueue
<1>3. Opening'
  BY <1>1, <1>2, EmptyQueue DEF Opening
<1>4. Acks'
  BY <1>1, <1>2, EmptyQueue DEF Acks, NoAck
<1>5. Written'
  BY <1>1, StillWritten DEF InTurn
<1> QED BY <1>1, <1>2, <1>3, <1>4, <1>5 DEF Session, Severed

LEMMA InitInTurn == Init => InTurn
BY EmptyQueue DEF Init, InTurn, Opening, Acks, Session, Written, NoAck

LEMMA NextInTurn == Typed /\ InTurn /\ [Next]_vars => InTurn'
<1> SUFFICES ASSUME Typed, InTurn, [Next]_vars PROVE InTurn'
  OBVIOUS
<1>1. Typed'
  BY NextTyped
<1>2. CASE Next
  <2>1. ClientHears => InTurn'
    BY <1>1, BeforeOrAfter, BeginInTurn, StoreInTurn, AckAgainInTurn, DropInTurn DEF ClientHears
  <2>2. ServerStep => InTurn'
    BY <1>1, AcceptInTurn, IgnoreInTurn, AnnounceInTurn, ConfirmedInTurn, RightAckInTurn, RepeatInTurn, WrongAckInTurn
    DEF ServerStep
  <2> QED BY <1>1, <1>2, <2>1, <2>2, BeforeOrAfter, RepeatInTurn, RestartInTurn DEF Next
<1>3. CASE UNCHANGED vars
  BY <1>3 DEF vars, client, receiving, server, sending, results,
     InTurn, Opening, Acks, Session, Linked, Severed, Written, NoAck
<1> QED BY <1>2, <1>3

LEMMA OneFileHolds == Spec => [](Typed /\ InTurn)
<1>1. Init => Typed /\ InTurn
  BY InitTyped, InitInTurn
<1>2. Typed /\ InTurn /\ [Next]_vars => (Typed /\ InTurn)'
  BY NextTyped, NextInTurn
<1> QED BY <1>1, <1>2, PTL DEF Spec

-----------------------------------------------------------------------------
(* One packet at a time.                                                   *)

\* No limit has passed early, nothing vital was lost, and no program was stopped.
Calm == early = 0 /\ ~ hurt

Asking == Packet(port, "request", cmd.flag, 0, cmd.what)
Confirming == Packet(port, "confirm", cmd.flag, 0, None)
Acking == Packet(port, "ack", "ack", si, None)
Here == Packet(port, "here", sflag, 0, None)
Probing == Packet(port, "probe", sflag, slen, IF sname \in disk \cup {ResponseFile} THEN sname ELSE None)
Sending == Packet(port, "data", "data", si, sname)

\* The server runs the command that the client waits for.
Served ==
    /\ sflag = cmd.flag /\ peer = port
    /\ IF cmd.flag = "get" THEN sname = cmd.what /\ (slen > 0 <=> HasFile(cmd.what))
                           ELSE ran /\ sname = ResponseFile

Outcome ==
    IF cmd.flag = "get"
    THEN IF HasFile(cmd.what) THEN ended = "got" /\ name = cmd.what ELSE ended = "nothing"
    ELSE ran /\ ended \in {"got", "nothing"} /\ (ended = "got" => name = ResponseFile)

\* What is on its way, in each state of the client: what was sent last, unless it was
\* lost or garbled, and it may be only if it is sent again.
Resting ==
    /\ toClient = <<>> /\ (cmd # None => Outcome)
    /\ \/ toServer = <<>> /\ spc = "main"
       \/ toServer = <<Confirming>> /\ spc = "probe" /\ slen = 0 /\ sflag = cmd.flag
       \/ toServer = <<Acking>> /\ spc = "data" /\ si + 1 = slen

Requesting ==
    \/ toClient = <<>> /\ spc = "main" /\ toServer \in Grown(<<>>, Asking)
    \/ toServer = <<>> /\ Served /\ spc = "open" /\ toClient = <<Here>>
    \/ toServer = <<>> /\ Served /\ spc = "probe" /\ toClient = <<Here, Probing>>

Expecting ==
    \/ toServer = <<>> /\ Served /\ spc = "open" /\ toClient = <<>>
    \/ toServer = <<>> /\ Served /\ spc = "probe" /\ toClient = <<Probing>>

Taking ==
    /\ Served /\ name = sname /\ total = slen
    /\ \/ spc = "probe" /\ ci = 0 /\ toServer = <<Confirming>> /\ toClient = <<>>
       \/ spc = "data" /\ toServer = <<>> /\ toClient \in Grown(<<>>, Sending) /\ (ci = si \/ ci = si + 1)
       \/ spc = "data" /\ toClient = <<>> /\ toServer \in Grown(<<>>, Acking) /\ ci = si + 1

Lockstep ==
    Calm =>
        /\ pc = "idle" => Resting
        /\ pc = "ask" => Requesting
        /\ pc = "await" => Expecting
        /\ pc = "recv" => Taking

-----------------------------------------------------------------------------

LEMMA Short ==
    /\ \A x : Head(<<x>>) = x /\ Tail(<<x>>) = <<>> /\ <<x>> # <<>> /\ Append(<<>>, x) = <<x>>
    /\ \A x, y : Head(<<x, y>>) = x /\ Tail(<<x, y>>) = <<y>> /\ <<x, y>> # <<>> /\ Append(<<x>>, y) = <<x, y>>
<1>1. ASSUME NEW x, NEW y
      PROVE  /\ Head(<<x>>) = x /\ Tail(<<x>>) = <<>> /\ <<x>> # <<>> /\ Append(<<>>, x) = <<x>>
             /\ Head(<<x, y>>) = x /\ Tail(<<x, y>>) = <<y>> /\ <<x, y>> # <<>> /\ Append(<<x>>, y) = <<x, y>>
  <2> DEFINE S == {x, y}
  <2>1. <<>> \in Seq(S) /\ <<x>> \in Seq(S) /\ <<y>> \in Seq(S) /\ <<x, y>> \in Seq(S)
    OBVIOUS
  <2>2. Head(<<x>>) = x /\ <<x>> # <<>> /\ Head(<<x, y>>) = x /\ <<x, y>> # <<>>
    OBVIOUS
  <2>3. Tail(<<x>>) = <<>>
    OBVIOUS
  <2>4. Tail(<<x, y>>) = <<y>>
    OBVIOUS
  <2>5. Append(<<>>, x) = <<x>>
    OBVIOUS
  <2>6. Append(<<x>>, y) = <<x, y>>
    <3> DEFINE s == Append(<<x>>, y)
               t == <<x, y>>
    <3>1. /\ s \in Seq(S) /\ Len(s) = Len(<<x>>) + 1
          /\ (\A i \in 1 .. Len(<<x>>) : s[i] = <<x>>[i]) /\ s[Len(<<x>>) + 1] = y
      BY <2>1, AppendProperties
    <3>2. Len(<<x>>) = 1 /\ <<x>>[1] = x
      OBVIOUS
    <3>3. Len(t) = 2 /\ t[1] = x /\ t[2] = y /\ t \in Seq(S)
      BY <2>1
    <3> HIDE DEF s, t, S
    <3>4. Len(s) = 2 /\ s[1] = x /\ s[2] = y
      BY <3>1, <3>2
    <3>5. \A i \in 1 .. 2 : i = 1 \/ i = 2
      OBVIOUS
    <3>6. \A i \in 1 .. Len(s) : s[i] = t[i]
      BY <3>3, <3>4, <3>5
    <3>7. s = t
      BY <3>1, <3>3, <3>4, <3>6, SeqEqual
    <3> QED BY <3>7 DEF s, t
  <2> QED BY <2>2, <2>3, <2>4, <2>5, <2>6
<1> QED BY <1>1

LEMMA GrownEmpty ==
    ASSUME NEW p
    PROVE  Grown(<<>>, p) = {<<>>, <<p>>, <<Garbled(p)>>}
BY Short DEF Grown

LEMMA AskHurts ==
    ASSUME Typed, NEW kind, NEW flag, NEW no, NEW of, Ask(kind, flag, no, of)
    PROVE  /\ hurt => hurt'
           /\ toServer' \in Grown(toServer, Packet(port, kind, flag, no, of))
           /\ ~ hurt' /\ Vital(Packet(port, kind, flag, no, of)) =>
                 toServer' = Append(toServer, Packet(port, kind, flag, no, of))
BY SentGrows DEF Ask, Typed, CountsTyped

LEMMA AnswerHurts ==
    ASSUME Typed, NEW kind, NEW flag, NEW no, NEW of, Answer(kind, flag, no, of)
    PROVE  /\ hurt => hurt'
           /\ peer' = port =>
                /\ toClient' \in Grown(toClient, Packet(port, kind, flag, no, of))
                /\ ~ hurt' /\ Vital(Packet(port, kind, flag, no, of)) =>
                      toClient' = Append(toClient, Packet(port, kind, flag, no, of))
<1>0. port \in Nat /\ hurt \in BOOLEAN /\ faults \in Nat
  BY DEF Typed, ClientTyped, CountsTyped
<1>1. CASE peer' < port
  BY <1>0, <1>1 DEF Answer
<1>2. CASE ~ (peer' < port)
  <2>1. Sent(Packet(peer', kind, flag, no, of), toClient, toClient')
    BY <1>2 DEF Answer
  <2> QED BY <1>0, <2>1, SentGrows
<1> QED BY <1>1, <1>2

LEMMA VitalKinds ==
    \A t, flag, no, of :
        /\ Vital(Packet(t, "here", flag, no, of))
        /\ Vital(Packet(t, "probe", flag, no, of))
        /\ Vital(Packet(t, "confirm", flag, no, of))
        /\ no + 1 = total /\ no \in Nat /\ total \in Nat => Vital(Packet(t, "ack", flag, no, of))
BY DEF Vital, Packet

\* What was calm after a step was so before it.
LEMMA CalmBefore == Typed /\ [Next]_vars /\ Calm' => Calm
<1> SUFFICES ASSUME Typed, [Next]_vars PROVE (hurt => hurt') /\ early <= early'
  BY DEF Calm, Typed, CountsTyped
<1>0. early \in Nat /\ (UNCHANGED early \/ LimitPasses => early <= early')
  BY LimitTyped DEF Typed, CountsTyped
<1>1. ASSUME Hears \/ Receives PROVE early <= early'
  BY <1>0, <1>1 DEF Hears, Receives
<1>2. ASSUME NEW n, GoOn(n) PROVE hurt => hurt'
  BY <1>2, AnswerHurts DEF GoOn, Data
<1>3. ASSUME Again PROVE hurt => hurt'
  BY <1>3, AnswerHurts DEF Again, Data, Probe
<1>4. CASE ClientHears
  <2>1. ASSUME Crash PROVE (hurt => hurt') /\ early <= early'
    BY <1>0, <2>1, AskHurts DEF Crash
  <2>2. ASSUME Acknowledged \/ Abort \/ Drop PROVE (hurt => hurt') /\ Hears
    BY <2>2 DEF Acknowledged, Abort, Drop
  <2>3. ASSUME AskAgain \/ Begin \/ NothingComes PROVE (hurt => hurt') /\ Hears
    BY <2>3, AskHurts DEF AskAgain, Begin, NothingComes, ProbeIs, Request
  <2>4. ASSUME Store \/ AckAgain PROVE (hurt => hurt') /\ Hears
    BY <2>4, AskHurts DEF Store, AckAgain
  <2> QED BY <1>1, <1>4, <2>1, <2>2, <2>3, <2>4 DEF ClientHears
<1>5. CASE ServerStep
  <2>1. ASSUME Announce PROVE (hurt => hurt') /\ early <= early'
    BY <1>0, <2>1, AnswerHurts DEF Announce, Probe
  <2>2. ASSUME AcceptGet \/ AcceptCmd PROVE (hurt => hurt') /\ Receives
    BY <2>2, AnswerHurts DEF AcceptGet, AcceptCmd
  <2>3. ASSUME Ignore \/ WrongAck PROVE (hurt => hurt') /\ Receives
    BY <2>3 DEF Ignore, WrongAck
  <2>4. ASSUME Confirmed \/ RightAck PROVE (hurt => hurt') /\ Receives
    BY <1>2, <2>4 DEF Confirmed, RightAck
  <2>5. ASSUME WrongFlag PROVE (hurt => hurt') /\ Receives
    BY <1>3, <2>5 DEF WrongFlag
  <2> QED BY <1>1, <1>5, <2>1, <2>2, <2>3, <2>4, <2>5 DEF ServerStep
<1>6. CASE Timeout
  BY <1>0, <1>6, AskHurts DEF Timeout, Request
<1>7. CASE ServerTimeout
  BY <1>0, <1>3, <1>7 DEF ServerTimeout
<1>8. CASE \E c \in Commands : Start(c)
  BY <1>0, <1>8, AskHurts DEF Start, Request
<1>9. CASE Quit \/ Restart
  BY <1>0, <1>9 DEF Quit, Restart
<1>10. CASE UNCHANGED vars
  BY <1>0, <1>10 DEF vars
<1> QED BY <1>4, <1>5, <1>6, <1>7, <1>8, <1>9, <1>10 DEF Next

\* A limit that does not pass early passes when everything has arrived.
LEMMA OnlyQuiet ==
    ASSUME Typed, Calm, Calm', LimitPasses
    PROVE  toServer = <<>> /\ toClient = <<>> /\ spc # "open"
BY LimitTyped DEF Calm, Quiet

\* The facts about the calm state that every step starts from.
LEMMA InStep ==
    ASSUME Typed, Calm, Lockstep
    PROVE  /\ pc = "idle" => Resting
           /\ pc = "ask" => Requesting
           /\ pc = "await" => Expecting
           /\ pc = "recv" => Taking
           /\ pc \in {"idle", "ask", "await", "recv"}
           /\ pc # "idle" => cmd \in Commands /\ cmd.flag \in {"get", "cmd"}
BY DEF Lockstep, Typed, ClientTyped, Commands

LEMMA StartInStep ==
    ASSUME Typed, Calm, Calm', Lockstep, NEW c \in Commands, Start(c)
    PROVE  Lockstep'
<1>1. /\ pc = "idle" /\ pc' = "ask" /\ cmd' = c
      /\ Request(c) /\ UNCHANGED <<port, spc>>
      /\ \/ toClient # <<>> /\ toClient' = Tail(toClient)
         \/ toClient = <<>> /\ LimitPasses /\ UNCHANGED toClient
  BY DEF Start, server
<1>2. Resting
  BY <1>1, InStep
<1>3. toClient' = <<>> /\ toServer = <<>> /\ spc # "open"
  BY <1>1, <1>2, OnlyQuiet DEF Resting
<1>4. spc = "main"
  BY <1>2, <1>3, Short DEF Resting
<1>5. toServer' \in Grown(<<>>, Asking')
  BY <1>1, <1>3, AskHurts DEF Request, Asking
<1>6. Requesting'
  BY <1>1, <1>3, <1>4, <1>5 DEF Requesting
<1> QED BY <1>1, <1>6 DEF Lockstep

LEMMA TimeoutInStep ==
    ASSUME Typed, Calm, Calm', Lockstep, Timeout
    PROVE  Lockstep'
<1>1. /\ pc \in {"ask", "await"} /\ pc' = "ask" /\ LimitPasses /\ Request(cmd)
      /\ UNCHANGED <<cmd, port, spc, toClient>>
  BY DEF Timeout, server
<1>2. toServer = <<>> /\ toClient = <<>> /\ spc # "open"
  BY <1>1, OnlyQuiet
<1>3. spc = "main"
  BY <1>1, <1>2, InStep, Short DEF Requesting, Expecting
<1>4. toServer' \in Grown(<<>>, Asking')
  BY <1>1, <1>2, AskHurts DEF Request, Asking
<1>5. Requesting'
  BY <1>1, <1>2, <1>3, <1>4 DEF Requesting
<1> QED BY <1>1, <1>5 DEF Lockstep

LEMMA AskedInStep ==
    ASSUME Typed, Calm, Calm', Lockstep, pc = "ask", Hears
    PROVE  /\ Heard.flag = cmd.flag
           /\ toServer' = toServer /\ pc' = "await" /\ ran' = ran => Lockstep'
<1>1. /\ toClient # <<>> /\ toClient' = Tail(toClient) /\ Heard = Head(toClient)
      /\ UNCHANGED <<cmd, port, server>>
  BY DEF Hears, Heard
<1>2. Requesting
  BY InStep
<1>3. toServer = <<>> /\ Served /\ Heard = Here /\ Here.flag = cmd.flag
  BY <1>1, <1>2, Short DEF Requesting, Served, Here, Packet
<1>4. \/ spc = "open" /\ toClient' = <<>>
      \/ spc = "probe" /\ toClient' = <<Probing>>
  BY <1>1, <1>2, Short DEF Requesting
<1>5. ASSUME toServer' = toServer, pc' = "await", ran' = ran PROVE Lockstep'
  <2>1. Served' /\ Probing' = Probing /\ spc' = spc
    BY <1>1, <1>3, <1>5 DEF Served, Probing, server, sending, HasFile
  <2>2. Expecting'
    BY <1>3, <1>4, <1>5, <2>1 DEF Expecting
  <2> QED BY <1>5, <2>2 DEF Lockstep
<1> QED BY <1>3, <1>5


\* The client takes the probe for the probe.
LEMMA ExpectedInStep ==
    ASSUME Typed, Calm, Calm', Lockstep, pc = "await", toClient # <<>>
    PROVE  /\ Heard = Probing /\ Heard.flag = cmd.flag /\ Heard.no = slen /\ Tail(toClient) = <<>>
           /\ toServer = <<>> /\ Served /\ spc = "probe" /\ si = 0 /\ slen \in Nat
           /\ cmd.flag = "cmd" => Heard.of # None
           /\ slen > 0 => Heard.of = sname
           /\ cmd \in Commands /\ cmd.flag \in {"get", "cmd"}
<1>1. Expecting
  BY InStep
<1>2. toServer = <<>> /\ Served /\ spc = "probe" /\ Heard = Probing /\ Tail(toClient) = <<>>
  BY <1>1, Short DEF Expecting, Heard
<1>3. Heard.flag = sflag /\ Heard.no = slen
      /\ Heard.of = IF sname \in disk \cup {ResponseFile} THEN sname ELSE None
  BY <1>2 DEF Probing, Packet
<1>4. cmd.flag = "cmd" => Heard.of # None
  BY <1>2, <1>3, Constants DEF Served
<1>5. slen > 0 => Heard.of = sname
  BY <1>2, <1>3, SendsName
<1> QED BY <1>2, <1>3, <1>4, <1>5, InStep DEF Served, Typed, ServerTyped

\* The confirmation is not lost, or the state is not calm.
LEMMA ConfirmSent ==
    ASSUME Typed, Calm', toServer = <<>>, NEW flag, Ask("confirm", flag, 0, None)
    PROVE  toServer' = <<Packet(port, "confirm", flag, 0, None)>>
BY AskHurts, VitalKinds, Short DEF Calm

LEMMA BeginInStep ==
    ASSUME Typed, Calm, Calm', Lockstep, Begin
    PROVE  Lockstep'
<1>1. /\ pc = "await" /\ toClient # <<>> /\ toClient' = Tail(toClient) /\ Heard.no > 0
      /\ Ask("confirm", cmd.flag, 0, None)
      /\ UNCHANGED <<cmd, port, server, ran>>
      /\ pc' = "recv" /\ ci' = 0 /\ total' = Heard.no /\ name' = Heard.of
  BY DEF Begin, ProbeIs, Hears, results
<1>2. /\ Heard.no = slen /\ Tail(toClient) = <<>>
      /\ toServer = <<>> /\ Served /\ spc = "probe" /\ si = 0
      /\ Heard.of = sname
  BY <1>1, ExpectedInStep
<1>3. toServer' = <<Confirming'>>
  BY <1>1, <1>2, ConfirmSent DEF Confirming
<1>4. Taking'
  BY <1>1, <1>2, <1>3 DEF Taking, Served, server, sending, HasFile
<1> QED BY <1>1, <1>4 DEF Lockstep

LEMMA NothingInStep ==
    ASSUME Typed, Calm, Calm', Lockstep, NothingComes
    PROVE  Lockstep'
<1>1. /\ pc = "await" /\ toClient # <<>> /\ toClient' = Tail(toClient) /\ ~ (Heard.no > 0)
      /\ Ask("confirm", cmd.flag, 0, None)
      /\ UNCHANGED <<cmd, port, server, ran, name>>
      /\ pc' = "idle" /\ ended' = "nothing"
  BY DEF NothingComes, ProbeIs, Hears
<1>2. /\ Heard.no = slen /\ Tail(toClient) = <<>>
      /\ toServer = <<>> /\ Served /\ spc = "probe" /\ slen \in Nat /\ cmd \in Commands
  BY <1>1, ExpectedInStep
<1>3. toServer' = <<Confirming'>> /\ slen = 0
  BY <1>1, <1>2, ConfirmSent DEF Confirming
<1>5. Outcome'
  BY <1>1, <1>2, <1>3 DEF Outcome, Served, server, HasFile
<1>6. Resting'
  BY <1>1, <1>2, <1>3, <1>5 DEF Resting, Served, server, sending
<1> QED BY <1>1, <1>6 DEF Lockstep

LEMMA CrashInStep ==
    ASSUME Typed, Calm, Calm', Lockstep, Crash
    PROVE  FALSE
BY ExpectedInStep DEF Crash

\* In recv_file one packet is on its way, or none.
LEMMA TakenInStep ==
    ASSUME Typed, Calm, Lockstep, pc = "recv", Hears
    PROVE  /\ Taking /\ spc = "data" /\ toServer = <<>> /\ (ci = si \/ ci = si + 1)
           /\ Heard \in {Sending, Garbled(Sending)} /\ toClient' = <<>>
           /\ Heard.kind \in {"data", "bad"}
           /\ Heard.kind = "data" => Heard.no = si
           /\ UNCHANGED <<cmd, port, server>>
           /\ si \in Nat /\ ci \in Nat /\ total \in Nat /\ ci < total /\ slen \in Nat
<1>1. /\ toClient # <<>> /\ toClient' = Tail(toClient) /\ Heard = Head(toClient)
      /\ UNCHANGED <<cmd, port, server>>
  BY DEF Hears, Heard
<1>2. Taking
  BY InStep
<1>3. spc = "data" /\ toServer = <<>> /\ toClient \in Grown(<<>>, Sending) /\ (ci = si \/ ci = si + 1)
  BY <1>1, <1>2 DEF Taking
<1>4. Heard \in {Sending, Garbled(Sending)} /\ toClient' = <<>>
  BY <1>1, <1>3, GrownEmpty, Short
<1>5. Sending.kind = "data" /\ Sending.no = si /\ Garbled(Sending).kind = "bad"
  BY DEF Sending, Packet, Garbled
<1> QED BY <1>1, <1>2, <1>3, <1>4, <1>5 DEF Typed, ClientTyped, ServerTyped

LEMMA StoreInStep ==
    ASSUME Typed, Calm, Calm', Lockstep, Store
    PROVE  Lockstep'
<1>1. /\ pc = "recv" /\ Hears /\ Heard.kind = "data" /\ Heard.no >= ci
      /\ ci' = ci + 1
      /\ Ask("ack", "ack", ci, None)
      /\ pc' = IF ci + 1 = total THEN "idle" ELSE "recv"
      /\ ended' = IF ci + 1 = total THEN "got" ELSE ended
      /\ UNCHANGED <<total, name, ran>>
  BY DEF Store
<1>2. /\ Taking /\ spc = "data" /\ toServer = <<>> /\ toClient' = <<>> /\ ci = si
      /\ UNCHANGED <<cmd, port, server>>
      /\ si \in Nat /\ ci \in Nat /\ total \in Nat /\ ci < total /\ slen \in Nat
  BY <1>1, TakenInStep
<1>3. toServer' \in Grown(<<>>, Acking') /\ (ci + 1 = total => toServer' = <<Acking'>>)
  <2> DEFINE p == Packet(port, "ack", "ack", ci, None)
  <2>1. toServer' \in Grown(toServer, p) /\ (Vital(p) => toServer' = Append(toServer, p))
    BY <1>1, AskHurts DEF Calm
  <2>2. ci + 1 = total => Vital(p)
    BY <1>2, VitalKinds
  <2>3. Acking' = p
    BY <1>2 DEF Acking, server, sending
  <2> HIDE DEF p
  <2> QED BY <1>2, <2>1, <2>2, <2>3, Short
<1>4. /\ Served /\ name = sname /\ total = slen
      /\ spc' = spc /\ si' = si /\ slen' = slen /\ sname' = sname /\ disk' = disk
  BY <1>2 DEF Taking, server, sending
<1>5. CASE ci + 1 = total
  <2>1. Outcome'
    BY <1>1, <1>2, <1>4, <1>5 DEF Outcome, Served, HasFile
  <2>3. Resting'
    BY <1>1, <1>2, <1>3, <1>4, <1>5, <2>1 DEF Resting
  <2> QED BY <1>1, <1>5, <2>3 DEF Lockstep
<1>6. CASE ci + 1 # total
  <2>1. Taking'
    BY <1>1, <1>2, <1>3, <1>4, <1>6 DEF Taking, Served, server, sending, HasFile
  <2> QED BY <1>1, <1>6, <2>1 DEF Lockstep
<1> QED BY <1>5, <1>6

LEMMA AckAgainInStep ==
    ASSUME Typed, Calm, Calm', Lockstep, AckAgain
    PROVE  Lockstep'
<1>1. /\ pc = "recv" /\ Hears /\ Heard.kind = "data" /\ Heard.no < ci
      /\ Ask("ack", "ack", Heard.no, None)
      /\ UNCHANGED <<pc, ci, total, name, ran>>
  BY DEF AckAgain, receiving, results
<1>2. /\ Taking /\ spc = "data" /\ toServer = <<>> /\ toClient' = <<>> /\ ci = si + 1 /\ Heard.no = si
      /\ UNCHANGED <<cmd, port, server>>
  BY <1>1, TakenInStep
<1>3. toServer' \in Grown(<<>>, Acking')
  BY <1>1, <1>2, AskHurts DEF Acking, server, sending
<1>4. Taking'
  BY <1>1, <1>2, <1>3 DEF Taking, Served, server, sending, HasFile
<1> QED BY <1>1, <1>4 DEF Lockstep

LEMMA DropInStep ==
    ASSUME Typed, Calm, Calm', Lockstep, Drop
    PROVE  Lockstep'
<1>1. /\ pc = "recv" /\ Hears
      /\ UNCHANGED <<pc, ci, total, name, ran, toServer>>
  BY DEF Drop, receiving, results
<1>2. /\ Taking /\ spc = "data" /\ toServer = <<>> /\ toClient' = <<>> /\ (ci = si \/ ci = si + 1)
      /\ UNCHANGED <<cmd, port, server>>
  BY <1>1, TakenInStep
<1>3. toClient' \in Grown(<<>>, Sending')
  BY <1>2, GrownEmpty
<1>4. Taking'
  BY <1>1, <1>2, <1>3 DEF Taking, Served, server, sending, HasFile
<1> QED BY <1>1, <1>4 DEF Lockstep

LEMMA ClientInStep ==
    ASSUME Typed, Calm, Calm', Lockstep, ClientHears
    PROVE  Lockstep'
<1>1. ASSUME Acknowledged PROVE Lockstep'
  <2>1. pc = "ask" /\ Hears /\ toServer' = toServer /\ pc' = "await" /\ ran' = ran
    BY <1>1 DEF Acknowledged, results
  <2> QED BY <2>1, AskedInStep
<1>2. ASSUME AskAgain PROVE FALSE
  <2>1. pc \in {"ask", "await"} /\ Hears /\ Heard.flag # cmd.flag /\ toClient # <<>>
    BY <1>2 DEF AskAgain, Hears
  <2> QED BY <2>1, AskedInStep, ExpectedInStep
<1>3. ASSUME Abort PROVE FALSE
  <2>1. pc = "recv" /\ Hears /\ Heard.kind \in {"here", "probe"}
    BY <1>3 DEF Abort
  <2> QED BY <2>1, TakenInStep
<1> QED BY <1>1, <1>2, <1>3, BeginInStep, NothingInStep, CrashInStep, StoreInStep, AckAgainInStep, DropInStep
    DEF ClientHears

\* What the server receives: one packet, by where it is.
LEMMA GotInStep ==
    ASSUME Typed, Calm, Lockstep, Receives
    PROVE  /\ toClient = <<>> /\ toServer' = <<>> /\ peer' = Got.t /\ Got.t = port
           /\ UNCHANGED <<client, ended>>
           /\ \/ pc = "ask" /\ spc = "main" /\ Got \in {Asking, Garbled(Asking)}
              \/ pc = "idle" /\ spc = "probe" /\ Got = Confirming /\ slen = 0 /\ sflag = cmd.flag /\ Resting
              \/ pc = "idle" /\ spc = "data" /\ Got = Acking /\ si + 1 = slen /\ Resting
              \/ pc = "recv" /\ spc = "probe" /\ Got = Confirming /\ ci = 0 /\ Taking
              \/ pc = "recv" /\ spc = "data" /\ Got \in {Acking, Garbled(Acking)} /\ ci = si + 1 /\ Taking
<1>1. /\ toServer # <<>> /\ toServer' = Tail(toServer) /\ Got = Head(toServer) /\ peer' = Got.t
      /\ UNCHANGED <<client, ended>>
  BY DEF Receives, Got
<1>2. /\ Asking.t = port /\ Garbled(Asking).t = port /\ Confirming.t = port /\ Acking.t = port
      /\ Garbled(Acking).t = port
  BY DEF Asking, Confirming, Acking, Packet, Garbled
<1>3. CASE pc = "idle"
  <2>1. Resting
    BY <1>3, InStep
  <2>2. CASE toServer = <<Confirming>> /\ spc = "probe" /\ slen = 0 /\ sflag = cmd.flag
    BY <1>1, <1>2, <1>3, <2>1, <2>2, Short DEF Resting
  <2>3. CASE toServer = <<Acking>> /\ spc = "data" /\ si + 1 = slen
    BY <1>1, <1>2, <1>3, <2>1, <2>3, Short DEF Resting
  <2> QED BY <1>1, <2>1, <2>2, <2>3 DEF Resting
<1>4. CASE pc = "ask"
  <2>1. toClient = <<>> /\ spc = "main" /\ toServer \in {<<>>, <<Asking>>, <<Garbled(Asking)>>}
    BY <1>1, <1>4, InStep, GrownEmpty DEF Requesting
  <2> QED BY <1>1, <1>2, <1>4, <2>1, Short
<1>5. CASE pc = "await"
  BY <1>1, <1>5, InStep DEF Expecting
<1>6. CASE pc = "recv"
  <2>1. Taking
    BY <1>6, InStep
  <2>2. CASE spc = "probe" /\ ci = 0 /\ toServer = <<Confirming>> /\ toClient = <<>>
    BY <1>1, <1>2, <1>6, <2>1, <2>2, Short
  <2>3. CASE spc = "data" /\ toClient = <<>> /\ toServer \in Grown(<<>>, Acking) /\ ci = si + 1
    <3>1. toServer \in {<<>>, <<Acking>>, <<Garbled(Acking)>>}
      BY <2>3, GrownEmpty
    <3> QED BY <1>1, <1>2, <1>6, <2>1, <2>3, <3>1, Short
  <2> QED BY <1>1, <2>1, <2>2, <2>3 DEF Taking
<1> QED BY <1>3, <1>4, <1>5, <1>6, InStep

LEMMA GotFields ==
    /\ Asking.kind = "request" /\ Asking.flag = cmd.flag /\ Asking.of = cmd.what
    /\ Confirming.kind = "confirm" /\ Confirming.flag = cmd.flag
    /\ Acking.kind = "ack" /\ Acking.flag = "ack" /\ Acking.no = si
    /\ Garbled(Asking).kind = "bad" /\ Garbled(Asking).flag = "bad"
    /\ Garbled(Acking).kind = "bad" /\ Garbled(Acking).flag = "bad"
BY DEF Asking, Confirming, Acking, Packet, Garbled

\* What the server sends in the opening is not lost, or the state is not calm.
LEMMA VitalAnswer ==
    ASSUME Typed, Calm', peer' = port, NEW kind \in {"here", "probe"}, NEW flag, NEW no, NEW of, Answer(kind, flag, no, of)
    PROVE  toClient' = Append(toClient, Packet(port, kind, flag, no, of))
BY AnswerHurts, VitalKinds DEF Calm

LEMMA AcceptInStep ==
    ASSUME Typed, Calm, Calm', Lockstep, AcceptGet \/ AcceptCmd
    PROVE  Lockstep'
<1>0. Receives /\ spc = "main" /\ Got.flag \in {"get", "cmd"} /\ spc' = "open"
  BY DEF AcceptGet, AcceptCmd
<1>1. /\ toClient = <<>> /\ toServer' = <<>> /\ peer' = port /\ UNCHANGED <<client, ended>>
      /\ pc = "ask" /\ Got \in {Asking, Garbled(Asking)}
  BY <1>0, GotInStep
<1>2. Got = Asking /\ cmd.flag = Got.flag /\ Got.of = cmd.what /\ cmd \in Commands
  BY <1>0, <1>1, GotFields, InStep
<1>3. cmd' = cmd /\ port' = port /\ pc' = "ask"
  BY <1>1 DEF client
<1>4. CASE AcceptGet
  <2>1. /\ sflag' = "get" /\ Answer("here", "get", 0, None) /\ cmd.flag = "get"
        /\ filename' = IF Got.of = None THEN filename ELSE Got.of
        /\ sname' = filename' /\ disk' = disk
        /\ slen' = IF filename' \in disk THEN Packets[filename'] ELSE 0
    BY <1>2, <1>4 DEF AcceptGet
  <2>2. cmd.what # None
    BY <1>2, <2>1, Constants DEF Commands
  <2>3. sname' = cmd.what
    BY <1>2, <2>1, <2>2
  <2>4. slen' > 0 <=> HasFile(cmd.what)'
    BY <1>3, <2>1, <2>3, Constants DEF HasFile, Typed, ServerTyped
  <2>5. Served'
    BY <1>1, <1>3, <2>1, <2>3, <2>4 DEF Served
  <2>6. toClient' = <<Here'>>
    BY <1>1, <1>3, <2>1, VitalAnswer, Short DEF Here
  <2>7. Requesting'
    BY <1>0, <1>1, <2>5, <2>6 DEF Requesting
  <2> QED BY <1>3, <2>7 DEF Lockstep
<1>5. CASE AcceptCmd
  <2>1. /\ sflag' = "cmd" /\ Answer("here", "cmd", 0, None) /\ cmd.flag = "cmd"
        /\ sname' = ResponseFile
    BY <1>2, <1>5 DEF AcceptCmd
  <2>2. ran'
    <3>1. ran' = (ran \/ Got.of = cmd.what)
      BY <1>5 DEF AcceptCmd
    <3> QED BY <1>2, <3>1
  <2>5. Served'
    BY <1>1, <1>3, <2>1, <2>2 DEF Served
  <2>6. toClient' = <<Here'>>
    BY <1>1, <1>3, <2>1, VitalAnswer, Short DEF Here
  <2>7. Requesting'
    BY <1>0, <1>1, <2>5, <2>6 DEF Requesting
  <2> QED BY <1>3, <2>7 DEF Lockstep
<1> QED BY <1>4, <1>5

LEMMA IgnoreInStep ==
    ASSUME Typed, Calm, Calm', Lockstep, Ignore
    PROVE  Lockstep'
<1>1. Receives /\ spc = "main" /\ UNCHANGED <<spc, toClient>>
  BY DEF Ignore
<1>2. toClient = <<>> /\ toServer' = <<>> /\ UNCHANGED client /\ pc = "ask"
  BY <1>1, GotInStep
<1>3. Requesting'
  BY <1>1, <1>2, GrownEmpty DEF Requesting
<1> QED BY <1>2, <1>3 DEF Lockstep, client

LEMMA AnnounceInStep ==
    ASSUME Typed, Calm, Calm', Lockstep, Announce
    PROVE  Lockstep'
<1>1. /\ spc = "open" /\ spc' = "probe" /\ peer' = peer
      /\ Answer("probe", sflag, slen, IF sname \in disk \cup {ResponseFile} THEN sname ELSE None)
      /\ UNCHANGED <<sending, disk, client, toServer, ran>>
  BY DEF Announce, Probe, results
<1>2. /\ toServer = <<>> /\ Served
      /\ \/ pc = "ask" /\ toClient = <<Here>>
         \/ pc = "await" /\ toClient = <<>>
  BY <1>1, InStep DEF Resting, Requesting, Expecting, Taking
<1>3. toClient' = Append(toClient, Probing)
  BY <1>1, <1>2, VitalAnswer DEF Served, Probing
<1>4. /\ Probing' = Probing /\ Here' = Here /\ Served' /\ pc' = pc
  BY <1>1, <1>2 DEF Probing, Here, Served, sending, client, HasFile
<1>5. CASE pc = "ask" /\ toClient = <<Here>>
  <2>1. toClient' = <<Here', Probing'>>
    BY <1>3, <1>4, <1>5, Short
  <2>2. Requesting'
    BY <1>1, <1>2, <1>4, <2>1 DEF Requesting
  <2> QED BY <1>4, <1>5, <2>2 DEF Lockstep
<1>6. CASE pc = "await" /\ toClient = <<>>
  <2>1. toClient' = <<Probing'>>
    BY <1>3, <1>4, <1>6, Short
  <2>2. Expecting'
    BY <1>1, <1>2, <1>4, <2>1 DEF Expecting
  <2> QED BY <1>4, <1>6, <2>2 DEF Lockstep
<1> QED BY <1>2, <1>5, <1>6

\* The next packet for the client in recv_file, or the one it did not get or acknowledge.
LEMMA DataInStep ==
    ASSUME Typed, Calm', Taking, pc = "recv", toClient = <<>>, toServer' = <<>>, peer' = port,
           UNCHANGED client, UNCHANGED <<ran, disk, sname, slen, sflag>>,
           spc' = "data", Data(si'), ci = si' \/ ci = si' + 1
    PROVE  Lockstep'
<1>1. /\ pc' = "recv" /\ cmd' = cmd /\ ci' = ci /\ port' = port /\ total' = total /\ name' = name
  BY DEF client, receiving
<1>2. toClient' \in Grown(<<>>, Sending')
  BY <1>1, AnswerHurts DEF Data, Sending
<1>3. Served' /\ name' = sname' /\ total' = slen'
  BY <1>1 DEF Taking, Served, HasFile
<1>4. Taking'
  BY <1>1, <1>2, <1>3 DEF Taking
<1> QED BY <1>1, <1>4 DEF Lockstep

\* The end of send_file after the client's command.
LEMMA LastInStep ==
    ASSUME Typed, Calm', Resting, pc = "idle", toClient = <<>>, toServer' = <<>>,
           UNCHANGED <<client, ended>>, UNCHANGED <<ran, disk, toClient>>, spc' = "main"
    PROVE  Lockstep'
<1>1. /\ pc' = "idle" /\ cmd' = cmd /\ name' = name
  BY DEF client, receiving
<1>2. cmd # None => Outcome'
  BY <1>1 DEF Resting, Outcome, HasFile
<1>3. Resting'
  BY <1>1, <1>2 DEF Resting
<1> QED BY <1>1, <1>3 DEF Lockstep

LEMMA ConfirmedInStep ==
    ASSUME Typed, Calm, Calm', Lockstep, Confirmed
    PROVE  Lockstep'
<1>1. Receives /\ spc = "probe" /\ GoOn(0) /\ UNCHANGED <<sname, slen, sflag, filename, disk, ran>> /\ slen \in Nat
  BY DEF Confirmed, Typed, ServerTyped
<1>2. /\ toClient = <<>> /\ toServer' = <<>> /\ peer' = port /\ UNCHANGED <<client, ended>>
      /\ \/ pc = "idle" /\ slen = 0 /\ Resting
         \/ pc = "recv" /\ ci = 0 /\ Taking
  BY <1>1, GotInStep
<1>3. CASE pc = "idle" /\ slen = 0 /\ Resting
  BY <1>1, <1>2, <1>3, LastInStep DEF GoOn
<1>4. CASE pc = "recv" /\ ci = 0 /\ Taking
  <2>1. 0 < slen
    BY <1>1, <1>4 DEF Taking, Typed, ClientTyped
  <2>2. spc' = "data" /\ si' = 0 /\ Data(si')
    BY <1>1, <2>1 DEF GoOn
  <2> QED BY <1>1, <1>2, <1>4, <2>2, DataInStep
<1> QED BY <1>2, <1>3, <1>4

LEMMA RightAckInStep ==
    ASSUME Typed, Calm, Calm', Lockstep, RightAck
    PROVE  Lockstep'
<1>1. /\ Receives /\ spc \in {"data", "catchup"} /\ GoOn(si + 1)
      /\ UNCHANGED <<sname, slen, sflag, filename, disk, ran>> /\ slen \in Nat /\ si \in Nat
  BY DEF RightAck, Typed, ServerTyped
<1>2. /\ toClient = <<>> /\ toServer' = <<>> /\ peer' = port /\ UNCHANGED <<client, ended>>
      /\ \/ pc = "idle" /\ si + 1 = slen /\ Resting
         \/ pc = "recv" /\ ci = si + 1 /\ Taking
  BY <1>1, GotInStep
<1>3. CASE pc = "idle" /\ si + 1 = slen /\ Resting
  BY <1>1, <1>2, <1>3, LastInStep DEF GoOn
<1>4. CASE pc = "recv" /\ ci = si + 1 /\ Taking
  <2>1. si + 1 < slen
    BY <1>1, <1>4 DEF Taking, Typed, ClientTyped
  <2>2. spc' = "data" /\ si' = si + 1 /\ Data(si')
    BY <1>1, <2>1 DEF GoOn
  <2> QED BY <1>1, <1>2, <1>4, <2>2, DataInStep
<1> QED BY <1>2, <1>3, <1>4

LEMMA WrongFlagInStep ==
    ASSUME Typed, Calm, Calm', Lockstep, WrongFlag
    PROVE  Lockstep'
<1>1. /\ Receives /\ UNCHANGED <<spc, sending, disk, ran>> /\ Again
      /\ \/ spc = "probe" /\ Got.flag # sflag
         \/ spc = "data" /\ Got.kind # "ack"
  BY DEF WrongFlag
<1>2. /\ toClient = <<>> /\ toServer' = <<>> /\ peer' = port /\ UNCHANGED <<client, ended>>
      /\ pc = "recv" /\ spc = "data" /\ ci = si + 1 /\ Taking
  BY <1>1, GotInStep, GotFields DEF Taking, Served
<1>3. Data(si') /\ si' = si /\ spc' = "data" /\ UNCHANGED <<sname, slen, sflag>>
  BY <1>1, <1>2 DEF Again, sending
<1> QED BY <1>1, <1>2, <1>3, DataInStep

LEMMA WrongAckInStep ==
    ASSUME Typed, Calm, Calm', Lockstep, WrongAck
    PROVE  FALSE
<1>1. /\ Receives
      /\ \/ spc = "data" /\ Got.kind = "ack" /\ Got.no # si
         \/ spc = "catchup"
  BY DEF WrongAck
<1> QED BY <1>1, GotInStep, GotFields

LEMMA ServerTimeoutInStep ==
    ASSUME Typed, Calm, Calm', Lockstep, ServerTimeout
    PROVE  Lockstep'
<1>1. /\ spc \in {"probe", "data", "catchup"} /\ LimitPasses /\ Again /\ peer' = peer
      /\ spc' = IF spc = "catchup" THEN "data" ELSE spc
      /\ UNCHANGED <<sending, disk, client, toServer, ran>>
  BY DEF ServerTimeout, results
<1>2. toServer = <<>> /\ toClient = <<>>
  BY <1>1, OnlyQuiet
<1>3. /\ pc = "recv" /\ spc = "data" /\ (ci = si \/ ci = si + 1) /\ Taking
  BY <1>1, <1>2, InStep, Short DEF Resting, Requesting, Expecting, Taking
<1>4. Data(si') /\ si' = si /\ spc' = "data" /\ peer' = port /\ UNCHANGED <<sname, slen, sflag>>
  BY <1>1, <1>3 DEF Again, sending, Taking, Served
<1> QED BY <1>1, <1>2, <1>3, <1>4, DataInStep

LEMMA InitLockstep == Init => Lockstep
BY DEF Init, Lockstep, Resting

LEMMA NextLockstep == Typed /\ Lockstep /\ [Next]_vars => Lockstep'
<1> SUFFICES ASSUME Typed, Lockstep, [Next]_vars, Calm' PROVE Lockstep'
  BY DEF Lockstep
<1>1. Calm
  BY CalmBefore
<1>2. CASE Next
  <2>1. ServerStep => Lockstep'
    BY <1>1, AcceptInStep, IgnoreInStep, AnnounceInStep, ConfirmedInStep, RightAckInStep, WrongFlagInStep, WrongAckInStep
    DEF ServerStep
  <2>2. Quit \/ Restart => hurt'
    BY DEF Quit, Restart
  <2> QED BY <1>1, <1>2, <2>1, <2>2, ClientInStep, StartInStep, TimeoutInStep, ServerTimeoutInStep DEF Next, Calm
<1>3. CASE UNCHANGED vars
  BY <1>1, <1>3 DEF vars, client, receiving, server, sending, results, Lockstep, Calm,
     Resting, Requesting, Expecting, Taking, Served, Outcome, HasFile,
     Asking, Confirming, Acking, Here, Probing, Sending
<1> QED BY <1>2, <1>3

LEMMA LockstepHolds == Spec => [](Typed /\ Lockstep)
<1>1. Init => Typed /\ Lockstep
  BY InitTyped, InitLockstep
<1>2. Typed /\ Lockstep /\ [Next]_vars => (Typed /\ Lockstep)'
  BY NextTyped, NextLockstep
<1> QED BY <1>1, <1>2, PTL DEF Spec

\* What recv_file writes is the start of one file of the server, and all of it when it
\* returns, whatever is lost, garbled, early or sent twice, whoever quits, and as long
\* as the server is not killed with packets on their way; and it is the file that was
\* asked for, from a server that ran the command, as long as the opening is not disturbed.
THEOREM GetDeliversTheFile == Spec => []DeliversTheFile
<1>1. InTurn => OneFile
  BY DEF InTurn, Written, OneFile
<1>2. Lockstep => Asked
  BY DEF Lockstep, Calm, Resting, Outcome, Asked
<1>3. InTurn /\ Lockstep => DeliversTheFile
  BY <1>1, <1>2 DEF DeliversTheFile
<1> QED BY <1>3, OneFileHolds, LockstepHolds, PTL

=============================================================================
