------------------------------ MODULE DfsProof ------------------------------
(***************************************************************************)
(* What holds of Dfs for every number of servers, clients and versions:    *)
(* where the parts are sent, type correctness, and that what was listed is *)
(* still there.                                                            *)
(***************************************************************************)
EXTENDS Dfs, TLAPS, SequenceTheorems, WellFoundedInduction

-----------------------------------------------------------------------------
(* The two loops of run_put send every part of a file to exactly the two   *)
(* neighbouring servers that Homes names, for every number of servers and  *)
(* every rotation, and two neighbours outlive every outage that never      *)
(* takes two neighbours.                                                   *)

\* Reduction modulo N of a sum of two numbers below N.
LEMMA Wrap ==
    ASSUME NEW x \in Int, 0 <= x, x < 2 * N
    PROVE  x % N = IF x < N THEN x ELSE x - N
BY NAssumption

\* The flattened loop counter gives back the two loop variables.
LEMMA LoopVariables ==
    ASSUME NEW i \in Servers, NEW j \in {0, 1}
    PROVE  /\ 2 * i + j \in PutSteps
           /\ (2 * i + j) \div 2 = i
           /\ (2 * i + j) % 2 = j
BY NAssumption DEF Servers, PutSteps

LEMMA StepVariables ==
    ASSUME NEW m \in PutSteps
    PROVE  m \div 2 \in Servers /\ m % 2 \in {0, 1}
BY NAssumption DEF Servers, PutSteps

\* Every step of the loops addresses a real server and a real part.
LEMMA PlacementType ==
    ASSUME NEW off \in Servers, NEW m \in PutSteps
    PROVE  ServerAt(off, m) \in Servers /\ PartAt(m) \in Parts
BY StepVariables, NAssumption DEF Servers, Parts, ServerAt, PartAt

LEMMA HomesType ==
    ASSUME NEW off \in Servers, NEW p \in Parts
    PROVE  Homes(off, p) \subseteq Servers
BY NAssumption DEF Servers, Parts, Homes

\* run_put sends a part only to its homes.
THEOREM SentHome ==
    ASSUME NEW off \in Servers, NEW m \in PutSteps
    PROVE  ServerAt(off, m) \in Homes(off, PartAt(m))
<1> DEFINE i == m \div 2
           j == m % 2
<1>1. i \in 0 .. (N - 1) /\ j \in {0, 1} /\ off \in 0 .. (N - 1) /\ N \in Nat /\ N >= 2
  BY StepVariables, NAssumption DEF Servers
<1>2. ServerAt(off, m) = (i + off) % N /\ PartAt(m) = (i + j) % N
  BY DEF ServerAt, PartAt
<1> HIDE DEF i, j
<1>3. CASE j = 0
  <2>1. (i + j) % N = i
    BY <1>1, <1>3, Wrap
  <2> QED BY <2>1, <1>2 DEF Homes
<1>4. CASE j = 1
  <2>1. (i + j) % N = IF i + 1 < N THEN i + 1 ELSE 0
    BY <1>1, <1>4, Wrap
  <2>2. (i + off) % N = IF i + off < N THEN i + off ELSE i + off - N
    BY <1>1, Wrap
  <2>3. CASE i + 1 < N
    <3>1. (i + 1 + off) % N = IF i + 1 + off < N THEN i + 1 + off ELSE i + 1 + off - N
      BY <1>1, <2>3, Wrap
    <3> DEFINE s == (i + 1 + off) % N
    <3>2. s \in 0 .. (N - 1)
      BY <1>1, <2>3, <3>1
    <3>3. (s + N - 1) % N = IF s + N - 1 < N THEN s + N - 1 ELSE s - 1
      BY <1>1, <3>2, Wrap
    <3>4. (i + off) % N = (s + N - 1) % N
      BY <1>1, <2>2, <3>1, <3>2, <3>3
    <3> QED BY <1>2, <2>1, <2>3, <3>4 DEF Homes
  <2>4. CASE ~ (i + 1 < N)
    <3>1. i = N - 1 /\ (0 + off) % N = off
      BY <1>1, <2>4, Wrap
    <3>2. (off + N - 1) % N = (i + off) % N
      BY <1>1, <3>1
    <3> QED BY <1>2, <2>1, <2>4, <3>1, <3>2 DEF Homes
  <2> QED BY <2>3, <2>4
<1> QED BY <1>1, <1>3, <1>4

\* run_put sends a part to every one of its homes.
THEOREM EveryHomeSent ==
    ASSUME NEW off \in Servers, NEW p \in Parts, NEW s \in Homes(off, p)
    PROVE  \E m \in PutSteps : ServerAt(off, m) = s /\ PartAt(m) = p
<1>1. p \in 0 .. (N - 1) /\ off \in 0 .. (N - 1) /\ N \in Nat /\ N >= 2
  BY NAssumption DEF Servers, Parts
<1> DEFINE first == (p + off) % N
           i == IF p = 0 THEN N - 1 ELSE p - 1
<1>2. first = IF p + off < N THEN p + off ELSE p + off - N
  BY <1>1, Wrap
<1>3. CASE s = first
  <2>1. 2 * p + 0 \in PutSteps /\ (2 * p + 0) \div 2 = p /\ (2 * p + 0) % 2 = 0
    BY LoopVariables DEF Servers, Parts
  <2>2. (p + 0) % N = p
    BY <1>1, Wrap
  <2> QED BY <1>1, <1>3, <2>1, <2>2 DEF ServerAt, PartAt
<1>4. CASE s = (first + N - 1) % N
  <2>1. i \in Servers
    BY <1>1 DEF Servers
  <2>2. 2 * i + 1 \in PutSteps /\ (2 * i + 1) \div 2 = i /\ (2 * i + 1) % 2 = 1
    BY <2>1, LoopVariables
  <2>3. (i + 1) % N = p
    BY <1>1, Wrap
  <2>4. first \in 0 .. (N - 1)
    BY <1>1, <1>2
  <2>5. (first + N - 1) % N = IF first + N - 1 < N THEN first + N - 1 ELSE first - 1
    BY <1>1, <2>4, Wrap
  <2>6. (i + off) % N = IF i + off < N THEN i + off ELSE i + off - N
    BY <1>1, <2>1, Wrap DEF Servers
  <2>7. (i + off) % N = s
    BY <1>1, <1>2, <1>4, <2>4, <2>5, <2>6
  <2> HIDE DEF i
  <2> QED BY <2>2, <2>3, <2>7 DEF ServerAt, PartAt
<1> QED BY <1>3, <1>4 DEF Homes

\* While no two neighbours are down, every part has a home that is up.
THEOREM SomeHomeUp ==
    ASSUME NEW off \in Servers, NEW p \in Parts,
           NEW down \in SUBSET Servers, NoNeighbours(down)
    PROVE  \E s \in Homes(off, p) : s \in Servers \ down
<1>1. p \in 0 .. (N - 1) /\ off \in 0 .. (N - 1) /\ N \in Nat /\ N >= 2
  BY NAssumption DEF Servers, Parts
<1> DEFINE s == (p + off) % N
           t == (s + N - 1) % N
<1>2. s \in 0 .. (N - 1)
  BY <1>1
<1>3. t = IF s = 0 THEN N - 1 ELSE s - 1
  BY <1>1, <1>2, Wrap
<1>4. (t + 1) % N = s
  BY <1>1, <1>2, <1>3, Wrap
<1>5. t \in Servers /\ s \in Servers
  BY <1>1, <1>2, <1>3 DEF Servers
<1>6. ~ ({t, s} \subseteq down)
  BY <1>4, <1>5 DEF NoNeighbours
<1> QED BY <1>5, <1>6 DEF Homes

-----------------------------------------------------------------------------
(* Sequences of chunks.                                                    *)

LEMMA WholeType ==
    ASSUME NEW v \in Contents
    PROVE  Whole(v) \in Seq(Chunks) /\ Len(Whole(v)) = Size[v] /\ Size[v] \in Nat
<1>1. Size[v] \in Nat
  BY DfsAssumption
<1>2. Whole(v) \in [1 .. Size[v] -> Chunks]
  BY DEF Whole, Chunks
<1> QED BY <1>1, <1>2, SeqDef, LenProperties DEF Whole

LEMMA WriteAtType ==
    ASSUME NEW f \in Seq(Chunks), NEW i \in Nat \ {0}, NEW v \in Contents
    PROVE  /\ WriteAt(f, i, v) \in Seq(Chunks)
           /\ Len(WriteAt(f, i, v)) = IF Len(f) > i THEN Len(f) ELSE i
           /\ WriteAt(f, i, v)[i] = v
           /\ \A j \in 1 .. Len(f) : j # i => WriteAt(f, i, v)[j] = f[j]
<1> DEFINE n == IF Len(f) > i THEN Len(f) ELSE i
<1>1. n \in Nat /\ Len(f) \in Nat /\ i \in 1 .. n /\ 1 .. Len(f) \subseteq 1 .. n
  BY LenProperties
<1>2. \A j \in 1 .. Len(f) : f[j] \in Chunks
  BY ElementOfSeq
<1>3. WriteAt(f, i, v) = [j \in 1 .. n |-> IF j = i THEN v ELSE IF j <= Len(f) THEN f[j] ELSE Hole]
  BY DEF WriteAt
<1> HIDE DEF n
<1>4. WriteAt(f, i, v) \in [1 .. n -> Chunks]
  BY <1>1, <1>2, <1>3 DEF Chunks
<1>5. WriteAt(f, i, v) \in Seq(Chunks) /\ Len(WriteAt(f, i, v)) = n
  BY <1>1, <1>4, SeqDef, LenProperties
<1> QED BY <1>1, <1>3, <1>5 DEF n

LEMMA NoneIsNoFile == ASSUME NEW f \in Seq(Chunks) PROVE f # None
BY DfsAssumption DEF Chunks

LEMMA PrefixType ==
    ASSUME NEW f \in Seq(Chunks), NEW n \in 0 .. Len(f)
    PROVE  Prefix(f, n) \in Seq(Chunks)
<1>1. \A i \in 1 .. n : f[i] \in Chunks
  BY ElementOfSeq, LenProperties
<1> QED BY <1>1, SubSeqProperties, LenProperties DEF Prefix

LEMMA CutType ==
    ASSUME NEW f \in Seq(Chunks), NEW m \in Nat, NEW n \in Nat, n <= Len(f)
    PROVE  SubSeq(f, m + 1, n) \in Seq(Chunks)
<1>1. \A i \in m + 1 .. n : f[i] \in Chunks
  BY ElementOfSeq, LenProperties
<1> QED BY <1>1, SubSeqProperties, LenProperties

-----------------------------------------------------------------------------
(* Choosing a least element.                                               *)

LEMMA Least ==
    ASSUME NEW T, T \subseteq Nat, T # {}
    PROVE  \E x \in T : \A y \in T : x <= y
<1>1. PICK x \in T : \A y \in T : ~ (<<y, x>> \in OpToRel(<, Nat))
  BY WFMin, NatLessThanWellFounded
<1>2. \A y \in T : ~ (y < x)
  BY <1>1 DEF OpToRel
<1> QED BY <1>2

\* The next pair to fetch is one of those that were listed.
LEMMA NextIsFound ==
    ASSUME NEW c \in Clients, found[c] \subseteq Servers \X Parts, found[c] # {}
    PROVE  Next2Fetch(c) \in found[c]
<1> DEFINE rank(x) == x[1] * N + x[2]
           T == {rank(x) : x \in found[c]}
<1>1. \A x \in found[c] : x[1] \in Nat /\ x[2] \in Nat /\ N \in Nat
  BY NAssumption DEF Servers, Parts
<1>2. T \subseteq Nat /\ T # {}
  BY <1>1
<1> HIDE DEF T
<1>3. PICK m \in T : \A y \in T : m <= y
  BY <1>2, Least
<1>4. \E x \in found[c] : \A y \in found[c] : rank(x) <= rank(y)
  BY <1>3 DEF T
<1> QED BY <1>4 DEF Next2Fetch

\* compile_get takes a piece that some server gave.
LEMMA FirstPieceIsOne ==
    ASSUME NEW c \in Clients, NEW p \in Parts, HasPiece(c, p)
    PROVE  \E s \in Servers : tmp[c][s][p] # None /\ FirstPiece(c, p) = tmp[c][s][p]
<1> DEFINE T == {s \in Servers : tmp[c][s][p] # None}
<1>0. Servers \subseteq Nat
  BY NAssumption DEF Servers
<1>a. PICK s0 \in Servers : tmp[c][s0][p] # None
  BY DEF HasPiece
<1>1. T \subseteq Nat /\ T # {}
  BY <1>0, <1>a
<1>2. PICK m \in T : \A y \in T : m <= y
  BY <1>1, Least
<1> DEFINE Q(s) == tmp[c][s][p] # None /\ \A r \in Servers : tmp[c][r][p] # None => s <= r
           first == CHOOSE s \in Servers : Q(s)
<1>3. m \in Servers /\ Q(m)
  BY <1>2
<1>4. FirstPiece(c, p) = tmp[c][first][p]
  BY DEF FirstPiece
<1>5. \A s : Q(s) => tmp[c][s][p] # None
  OBVIOUS
<1> HIDE DEF Q
<1>6. first \in Servers /\ Q(first)
  BY <1>3
<1> QED BY <1>4, <1>5, <1>6

LEMMA FirstPieceType ==
    ASSUME NEW c \in Clients, NEW p \in Parts, HasPiece(c, p),
           tmp \in [Clients -> [Servers -> [Parts -> Files]]]
    PROVE  FirstPiece(c, p) \in Files
BY FirstPieceIsOne

-----------------------------------------------------------------------------
(* Type correctness.  The inductive invariant adds that a client that puts *)
(* knows which version, and that what a client was told exists, exists.    *)

PutKnows == \A c \in Clients : pc[c] = "put" => of[c] \in Contents

OpenExists == \A t \in threads : t.pos >= 0 => disk[t.srv][t.part] # None

TypeInv == TypeOK /\ PutKnows /\ ListedPartsExist /\ OpenExists

LEMMA TypeInit == Init => TypeInv
<1> SUFFICES ASSUME Init PROVE TypeInv
  OBVIOUS
<1>1. 0 \in 0 .. (2 * N - 1) /\ 0 \in Servers /\ 0 \in Parts
  BY NAssumption DEF Servers, Parts
<1>2. <<>> \in Seq(Chunks)
  BY EmptySeq
<1>3. TypeOK
  BY <1>1, <1>2 DEF Init, TypeOK, NoPiece, NoTmp, NoOut, Files
<1>4. PutKnows /\ ListedPartsExist /\ OpenExists
  BY DEF Init, PutKnows, ListedPartsExist, OpenExists
<1> QED BY <1>3, <1>4 DEF TypeInv

LEMMA UploadType ==
    ASSUME TypeInv, NEW c \in Clients, pc[c] = "put", NEW n \in Nat
    PROVE  Upload(c, n) \in Threads
<1>1. of[c] \in Contents /\ Offset[of[c]] \in Servers /\ k[c] \in PutSteps /\ num[c] \in Nat
  BY DfsAssumption DEF TypeInv, TypeOK, PutKnows, PutSteps
<1>2. ServerAt(Offset[of[c]], k[c]) \in Servers /\ PartAt(k[c]) \in Parts
  BY <1>1, PlacementType
<1> QED BY <1>1, <1>2 DEF Upload, Threads

LEMMA NoPieceType ==
    NoPiece \in [srv : Servers, part : Parts, file : Seq(Chunks), gone : BOOLEAN]
BY NAssumption, EmptySeq DEF NoPiece, Servers, Parts

LEMMA KeepType ==
    ASSUME TypeOK, NEW c \in Clients, NEW piece \in Files, Keep(c, piece)
    PROVE  tmp' \in [Clients -> [Servers -> [Parts -> Files]]]
BY DEF TypeOK, Keep

LEMMA AdvanceType ==
    ASSUME threads \subseteq Threads, NEW t \in threads, NEW i \in Nat
    PROVE  Advance(t, i) \subseteq Threads
<1>1. [t EXCEPT !.pos = i] \in Threads
  BY DEF Threads
<1> QED BY <1>1 DEF Advance

\* One step for each action.
LEMMA TypeStep == TypeInv /\ [Next]_vars => TypeInv'
<1> SUFFICES ASSUME TypeInv, [Next]_vars PROVE TypeInv'
  OBVIOUS
<1>t. TypeOK /\ PutKnows /\ ListedPartsExist /\ OpenExists
  BY DEF TypeInv
<1>n. N \in Nat /\ N >= 2 /\ 0 \in Servers /\ 0 \in Parts
  BY NAssumption DEF Servers, Parts
<1>e. <<>> \in Files /\ None \in Files
  BY EmptySeq DEF Files
<1>1. ASSUME NEW c \in Clients, NEW v \in Contents, StartPut(c, v) PROVE TypeInv'
  <2>1. TypeOK'
    BY <1>t, <1>n, <1>1 DEF TypeOK, StartPut, server
  <2>2. PutKnows' /\ ListedPartsExist' /\ OpenExists'
    BY <1>t, <1>1 DEF TypeOK, StartPut, server, PutKnows, ListedPartsExist, OpenExists
  <2> QED BY <2>1, <2>2 DEF TypeInv
<1>2. ASSUME NEW c \in Clients, SendPart(c) PROVE TypeInv'
  <2>1. threads' \subseteq Threads
    <3>1. pc[c] = "put" /\ Size[of[c]] \in Nat
      BY <1>t, <1>2, DfsAssumption DEF SendPart, PutKnows
    <3>2. Upload(c, Size[of[c]]) \in Threads
      BY <3>1, UploadType
    <3> QED BY <3>2, <1>t, <1>2 DEF SendPart, TypeOK
  <2>2. /\ k' \in [Clients -> 0 .. (2 * N - 1)]
        /\ pc' \in [Clients -> {"idle", "put", "list", "get", "recv", "spin"}]
    <3>1. CASE k[c] + 1 \in PutSteps
      <4>1. k' = [k EXCEPT ![c] = k[c] + 1] /\ pc' = pc
        BY <1>2, <3>1 DEF SendPart
      <4> QED BY <4>1, <3>1, <1>t DEF TypeOK, PutSteps
    <3>2. CASE k[c] + 1 \notin PutSteps
      <4>1. k' = [k EXCEPT ![c] = 0] /\ pc' = [pc EXCEPT ![c] = "idle"]
        BY <1>2, <3>2 DEF SendPart
      <4> QED BY <4>1, <1>n, <1>t DEF TypeOK
    <3> QED BY <3>1, <3>2
  <2>a. settled' \in Contents \cup {None}
    BY <1>t, <1>2 DEF TypeOK, SendPart
  <2>b. TypeOK'
    BY <1>t, <1>2, <2>1, <2>2, <2>a DEF TypeOK, SendPart
  <2>3. PutKnows' /\ ListedPartsExist'
    BY <1>t, <1>2 DEF TypeOK, SendPart, PutKnows, ListedPartsExist
  <2>4. OpenExists'
    BY <1>t, <1>2 DEF SendPart, OpenExists, Upload
  <2> QED BY <2>b, <2>3, <2>4 DEF TypeInv
<1>3. ASSUME NEW c \in Clients, NEW q \in {"list", "get"}, StartQuery(c, q) PROVE TypeInv'
  <2>1. TypeOK'
    BY <1>t, <1>n, <1>3 DEF TypeOK, StartQuery, server, NoOut
  <2>2. PutKnows' /\ ListedPartsExist' /\ OpenExists'
    BY <1>t, <1>3 DEF TypeOK, StartQuery, server, PutKnows, ListedPartsExist, OpenExists
  <2> QED BY <2>1, <2>2 DEF TypeInv
<1>4. ASSUME NEW c \in Clients, Ask(c) PROVE TypeInv'
  <2>1. k[c] \in Servers /\ k[c] + 1 \in 0 .. (2 * N - 1)
    BY <1>t, <1>n, <1>4 DEF TypeOK, Ask, Servers
  <2> DEFINE seen == {<<k[c], p>> : p \in {q \in Parts : disk[k[c]][q] # None}}
  <2>a. seen \subseteq Servers \X Parts /\ \A x \in seen : disk[x[1]][x[2]] # None
    BY <2>1
  <2>b. found' = found \/ found' = [found EXCEPT ![c] = @ \cup seen]
    BY <1>4 DEF Ask
  <2> HIDE DEF seen
  <2>c. found' \in [Clients -> SUBSET (Servers \X Parts)]
    <3>1. found \in [Clients -> SUBSET (Servers \X Parts)]
      BY <1>t DEF TypeOK
    <3>2. found[c] \cup seen \in SUBSET (Servers \X Parts)
      BY <3>1, <2>a
    <3> QED BY <3>1, <3>2, <2>b
  <2>d. missed' \in [Clients -> SUBSET Servers] /\ k' \in [Clients -> 0 .. (2 * N - 1)]
    <3>1. missed \in [Clients -> SUBSET Servers] /\ missed[c] \cup {k[c]} \in SUBSET Servers
      BY <1>t, <2>1 DEF TypeOK
    <3>2. missed' = missed \/ missed' = [missed EXCEPT ![c] = missed[c] \cup {k[c]}]
      BY <1>4 DEF Ask
    <3>3. missed' \in [Clients -> SUBSET Servers]
      BY <3>1, <3>2
    <3>4. k' = [k EXCEPT ![c] = k[c] + 1]
      BY <1>4 DEF Ask
    <3> QED BY <1>t, <2>1, <3>3, <3>4 DEF TypeOK
  <2>2. TypeOK'
    BY <1>t, <1>4, <2>c, <2>d DEF TypeOK, Ask, server
  <2>e. \A d \in Clients : \A x \in found'[d] : disk[x[1]][x[2]] # None
    <3> SUFFICES ASSUME NEW d \in Clients, NEW x \in found'[d] PROVE disk[x[1]][x[2]] # None
      OBVIOUS
    <3>1. x \in found[d] \/ x \in seen
      BY <1>t, <2>b, ZenonT(60) DEF TypeOK
    <3> QED BY <3>1, <1>t, <2>a DEF ListedPartsExist
  <2>3. PutKnows' /\ ListedPartsExist' /\ OpenExists'
    BY <1>t, <1>4, <2>e DEF TypeOK, Ask, server, PutKnows, ListedPartsExist, OpenExists
  <2> QED BY <2>2, <2>3 DEF TypeInv
<1>5. ASSUME NEW c \in Clients, PrintList(c) PROVE TypeInv'
  <2>1. TypeOK'
    BY <1>t, <1>n, <1>5 DEF TypeOK, PrintList, Return, server, history
  <2>2. PutKnows' /\ ListedPartsExist' /\ OpenExists'
    BY <1>t, <1>5 DEF TypeOK, PrintList, Return, server, PutKnows, ListedPartsExist, OpenExists
  <2> QED BY <2>1, <2>2 DEF TypeInv
<1>6. ASSUME NEW c \in Clients, FetchPiece(c) PROVE TypeInv'
  <2> DEFINE x == Next2Fetch(c)
  <2>1. x \in found[c] /\ x[1] \in Servers /\ x[2] \in Parts
    <3>1. found[c] \subseteq Servers \X Parts /\ found[c] # {}
      BY <1>t, <1>6 DEF TypeOK, FetchPiece
    <3>2. x \in found[c]
      BY <3>1, NextIsFound
    <3> QED BY <3>1, <3>2
  <2>2. disk[x[1]][x[2]] # None /\ disk[x[1]][x[2]] \in Seq(Chunks)
    BY <1>t, <2>1 DEF TypeOK, Files, ListedPartsExist
  <2> HIDE DEF x
  <2>a. found' = [found EXCEPT ![c] = @ \ {x}]
    BY <1>6 DEF FetchPiece, x
  <2>b. \/ from' = from
        \/ from' = [from EXCEPT ![c] = [srv |-> x[1], part |-> x[2],
                                        file |-> disk[x[1]][x[2]], gone |-> FALSE]]
    BY <1>6 DEF FetchPiece, x
  <2>c. from' \in [Clients -> [srv : Servers, part : Parts, file : Seq(Chunks), gone : BOOLEAN]]
    <3>1. from \in [Clients -> [srv : Servers, part : Parts, file : Seq(Chunks), gone : BOOLEAN]]
      BY <1>t DEF TypeOK
    <3>2. [srv |-> x[1], part |-> x[2], file |-> disk[x[1]][x[2]], gone |-> FALSE]
            \in [srv : Servers, part : Parts, file : Seq(Chunks), gone : BOOLEAN]
      BY <2>1, <2>2
    <3> QED BY <2>b, <3>1, <3>2
  <2>d. missed' \in [Clients -> SUBSET Servers] /\ found' \in [Clients -> SUBSET (Servers \X Parts)]
    <3>1. missed \in [Clients -> SUBSET Servers] /\ missed[c] \cup {x[1]} \in SUBSET Servers
      BY <1>t, <2>1 DEF TypeOK
    <3>2. missed' = missed \/ missed' = [missed EXCEPT ![c] = missed[c] \cup {x[1]}]
      BY <1>6 DEF FetchPiece, x
    <3>3. /\ found \in [Clients -> SUBSET (Servers \X Parts)]
          /\ found[c] \ {x} \in SUBSET (Servers \X Parts)
      BY <1>t DEF TypeOK
    <3> QED BY <2>a, <3>1, <3>2, <3>3
  <2>3. TypeOK'
    BY <1>t, <1>6, <2>c, <2>d DEF TypeOK, FetchPiece, server
  <2>4. PutKnows' /\ ListedPartsExist' /\ OpenExists'
    BY <1>t, <1>6, <2>2 DEF TypeOK, FetchPiece, server, PutKnows, ListedPartsExist, OpenExists, x
  <2> QED BY <2>3, <2>4 DEF TypeInv
<1>7. ASSUME NEW c \in Clients, RecvPiece(c) PROVE TypeInv'
  <2> DEFINE now == disk[from[c].srv][from[c].part]
             n == Len(from[c].file)
  <2>1. /\ now \in Seq(Chunks) /\ from[c].file \in Seq(Chunks)
        /\ n \in Nat /\ Len(now) \in Nat
    BY <1>t, <1>7, LenProperties DEF TypeOK, RecvPiece, ListedPartsExist, Files
  <2> HIDE DEF now, n
  <2>2. ASSUME NEW m \in 0 .. n
        PROVE  /\ Prefix(from[c].file, m) \o SubSeq(now, m + 1, Len(now)) \in Seq(Chunks)
               /\ (m = n \/ n <= Len(now))
                    => Prefix(from[c].file, m) \o SubSeq(now, m + 1, n) \in Seq(Chunks)
    <3>1. Prefix(from[c].file, m) \in Seq(Chunks)
      BY <2>1, PrefixType DEF n
    <3>2. SubSeq(now, m + 1, Len(now)) \in Seq(Chunks)
      BY <2>1, CutType
    <3>3. m = n \/ n <= Len(now) => SubSeq(now, m + 1, n) \in Seq(Chunks)
      <4>1. CASE m = n
        <5>1. SubSeq(now, m + 1, n) = <<>>
          BY <2>1, <4>1, SubSeqEmpty
        <5> QED BY <5>1, EmptySeq
      <4>2. CASE n <= Len(now)
        BY <2>1, <4>2, CutType
      <4> QED BY <4>1, <4>2
    <3> QED BY <3>1, <3>2, <3>3, ConcatProperties
  <2>3. PICK piece \in Seq(Chunks) : Keep(c, piece)
    BY <1>7, <2>2 DEF RecvPiece, now, n
  <2>4. tmp' \in [Clients -> [Servers -> [Parts -> Files]]]
    BY <1>t, <2>3, KeepType DEF Files
  <2>a. from' \in [Clients -> [srv : Servers, part : Parts, file : Seq(Chunks), gone : BOOLEAN]]
    BY <1>t, <1>7, NoPieceType DEF TypeOK, RecvPiece
  <2>5. TypeOK'
    BY <1>t, <1>7, <2>4, <2>a DEF TypeOK, RecvPiece, server, history
  <2>6. PutKnows' /\ ListedPartsExist' /\ OpenExists'
    BY <1>t, <1>7 DEF TypeOK, RecvPiece, server, PutKnows, ListedPartsExist, OpenExists
  <2> QED BY <2>5, <2>6 DEF TypeInv
<1>8. ASSUME NEW c \in Clients, LosePeer(c) PROVE TypeInv'
  <2>1. from[c].file \in Seq(Chunks) /\ Len(from[c].file) \in Nat
    BY <1>t, LenProperties DEF TypeOK
  <2>2. \A m \in 0 .. (Len(from[c].file) - 1) : Prefix(from[c].file, m) \in Files
    BY <2>1, PrefixType DEF Files
  <2>3. tmp' \in [Clients -> [Servers -> [Parts -> Files]]]
    <3>1. tmp' = tmp \/ \E piece \in Files : Keep(c, piece)
      BY <1>8, <2>2 DEF LosePeer
    <3> QED BY <1>t, <3>1, KeepType DEF TypeOK
  <2>a. from' \in [Clients -> [srv : Servers, part : Parts, file : Seq(Chunks), gone : BOOLEAN]]
    <3>1. from' = from \/ from' = [from EXCEPT ![c] = NoPiece]
      BY <1>8 DEF LosePeer
    <3> QED BY <1>t, <3>1, NoPieceType DEF TypeOK
  <2>b. missed' \in [Clients -> SUBSET Servers]
    <3>1. missed \in [Clients -> SUBSET Servers] /\ missed[c] \cup {from[c].srv} \in SUBSET Servers
      BY <1>t DEF TypeOK
    <3>2. missed' = missed \/ missed' = [missed EXCEPT ![c] = missed[c] \cup {from[c].srv}]
      BY <1>8 DEF LosePeer
    <3> QED BY <3>1, <3>2
  <2>4. TypeOK'
    BY <1>t, <1>8, <2>3, <2>a, <2>b DEF TypeOK, LosePeer, server
  <2>5. PutKnows' /\ ListedPartsExist' /\ OpenExists'
    BY <1>t, <1>8 DEF TypeOK, LosePeer, server, PutKnows, ListedPartsExist, OpenExists
  <2> QED BY <2>4, <2>5 DEF TypeInv
<1>9. ASSUME NEW c \in Clients, CompileGet(c) PROVE TypeInv'
  <2>1. (\A p \in Parts : HasPiece(c, p)) => [p \in Parts |-> FirstPiece(c, p)] \in [Parts -> Files]
    BY <1>t, FirstPieceType DEF TypeOK
  <2>2. TypeOK'
    BY <1>t, <1>n, <1>e, <1>9, <2>1 DEF TypeOK, CompileGet, Return, server, history, NoTmp
  <2>3. PutKnows' /\ ListedPartsExist' /\ OpenExists'
    BY <1>t, <1>9 DEF TypeOK, CompileGet, Return, server, PutKnows, ListedPartsExist, OpenExists
  <2> QED BY <2>2, <2>3 DEF TypeInv
<1>10. ASSUME NEW t \in threads, ThreadOpen(t) PROVE TypeInv'
  <2>1. t \in Threads /\ Advance(t, 0) \subseteq Threads
    BY <1>t, AdvanceType DEF TypeOK
  <2>2. TypeOK'
    BY <1>t, <1>e, <1>10, <2>1 DEF TypeOK, ThreadOpen, client, history, Threads
  <2>3. <<>> # None
    BY EmptySeq, NoneIsNoFile
  <2>4. PutKnows' /\ ListedPartsExist'
    BY <1>t, <1>10, <2>1, <2>3 DEF TypeOK, ThreadOpen, client, PutKnows, ListedPartsExist, Threads
  <2>5. OpenExists'
    BY <1>t, <1>10, <2>1, <2>3 DEF TypeOK, ThreadOpen, OpenExists, Threads, Advance
  <2> QED BY <2>2, <2>4, <2>5 DEF TypeInv
<1>11. ASSUME NEW t \in threads, ThreadWrite(t) PROVE TypeInv'
  <2> DEFINE f == disk[t.srv][t.part]
  <2>1. /\ t \in Threads /\ t.pos + 1 \in Nat \ {0} /\ t.pos + 1 \in Nat
        /\ t.srv \in Servers /\ t.part \in Parts /\ t.of \in Contents
    BY <1>t, <1>11 DEF TypeOK, ThreadWrite, Threads
  <2>2. Advance(t, t.pos + 1) \subseteq Threads
    BY <1>t, <2>1, AdvanceType DEF TypeOK
  <2>3. f \in Seq(Chunks)
    <3>1. f # None
      BY <1>t, <1>11 DEF OpenExists, ThreadWrite
    <3> QED BY <1>t, <2>1, <3>1 DEF TypeOK, Files
  <2>4. WriteAt(f, t.pos + 1, t.of) \in Files /\ WriteAt(f, t.pos + 1, t.of) # None
    BY <2>1, <2>3, WriteAtType, NoneIsNoFile DEF Files
  <2>5. disk' = [disk EXCEPT ![t.srv][t.part] = WriteAt(f, t.pos + 1, t.of)]
    BY <1>11 DEF ThreadWrite
  <2> HIDE DEF f
  <2>6. TypeOK'
    BY <1>t, <1>11, <2>1, <2>2, <2>4, <2>5 DEF TypeOK, ThreadWrite, client, history
  <2>7. PutKnows' /\ ListedPartsExist'
    BY <1>t, <1>11, <2>1, <2>4, <2>5 DEF TypeOK, ThreadWrite, client, PutKnows, ListedPartsExist
  <2>8. OpenExists'
    BY <1>t, <1>11, <2>1, <2>4, <2>5 DEF TypeOK, ThreadWrite, OpenExists, Threads, Advance
  <2> QED BY <2>6, <2>7, <2>8 DEF TypeInv
<1>12. ASSUME NEW s \in Servers, Crash(s) PROVE TypeInv'
  <2>1. from' \in [Clients -> [srv : Servers, part : Parts, file : Seq(Chunks), gone : BOOLEAN]]
    BY <1>t, <1>12, ZenonT(60) DEF TypeOK, Crash
  <2>2. TypeOK'
    BY <1>t, <1>12, <2>1 DEF TypeOK, Crash
  <2>3. \A c \in Clients : from'[c].srv = from[c].srv /\ from'[c].part = from[c].part
    BY <1>t, <1>12 DEF TypeOK, Crash
  <2>4. PutKnows' /\ ListedPartsExist' /\ OpenExists'
    BY <1>t, <1>12, <2>3 DEF TypeOK, Crash, PutKnows, ListedPartsExist, OpenExists
  <2> QED BY <2>2, <2>4 DEF TypeInv
<1>13. ASSUME NEW s \in Servers, Restart(s) PROVE TypeInv'
  BY <1>t, <1>13 DEF TypeInv, TypeOK, Restart, client, history, PutKnows, ListedPartsExist, OpenExists
<1>14. ASSUME NEW c \in Clients, Quit(c) PROVE TypeInv'
  <2>1. threads' \subseteq Threads
    <3>1. CASE pc[c] = "put"
      <4>1. Size[of[c]] \in Nat
        BY <1>t, <3>1, DfsAssumption DEF PutKnows
      <4>2. \A n \in 0 .. (Size[of[c]] - 1) : Upload(c, n) \in Threads
        BY <3>1, <4>1, UploadType
      <4> QED BY <1>t, <1>14, <4>2 DEF Quit, TypeOK
    <3> QED BY <1>t, <1>14, <3>1 DEF Quit, TypeOK
  <2>2. tmp' \in [Clients -> [Servers -> [Parts -> Files]]]
    <3>1. from[c].file \in Seq(Chunks) /\ Len(from[c].file) \in Nat
      BY <1>t, LenProperties DEF TypeOK
    <3>2. \A m \in 0 .. (Len(from[c].file) - 1) : Prefix(from[c].file, m) \in Files
      BY <3>1, PrefixType DEF Files
    <3>3. tmp' = tmp \/ \E piece \in Files : Keep(c, piece)
      BY <1>14, <3>2 DEF Quit
    <3> QED BY <1>t, <3>3, KeepType DEF TypeOK
  <2>a. from' \in [Clients -> [srv : Servers, part : Parts, file : Seq(Chunks), gone : BOOLEAN]]
    BY <1>t, <1>n, <1>14, EmptySeq DEF TypeOK, Quit, NoPiece
  <2>b. out' \in [Clients -> [kind : {"none", "complete", "incomplete", "file"},
                              data : {<<>>} \cup [Parts -> Files]]]
    BY <1>t, <1>14 DEF TypeOK, Quit, Return, NoOut
  <2>3. TypeOK'
    BY <1>t, <1>n, <1>14, <2>1, <2>2, <2>a, <2>b DEF TypeOK, Quit, Return
  <2>4. PutKnows' /\ ListedPartsExist'
    BY <1>t, <1>14 DEF TypeOK, Quit, Return, PutKnows, ListedPartsExist
  <2>5. OpenExists'
    BY <1>t, <1>14 DEF Quit, Upload, OpenExists
  <2> QED BY <2>3, <2>4, <2>5 DEF TypeInv
<1>15. CASE UNCHANGED vars
  BY <1>t, <1>15 DEF TypeInv, TypeOK, PutKnows, ListedPartsExist, OpenExists, vars, server, client, history
<1> QED BY <1>1, <1>2, <1>3, <1>4, <1>5, <1>6, <1>7, <1>8, <1>9, <1>10, <1>11, <1>12, <1>13,
           <1>14, <1>15 DEF Next, Command, ClientStep, ThreadStep, Failure

\* The variables keep their shape, for any number of servers, clients, versions.
THEOREM TypeCorrect == Spec => []TypeOK
<1>1. Spec => []TypeInv
  BY TypeInit, TypeStep, PTL DEF Spec
<1>2. TypeInv => TypeOK
  BY DEF TypeInv
<1> QED BY <1>1, <1>2, PTL

\* A part that a listing named is there when it is fetched: no step of any client,
\* thread or failing server ever removes a file.
THEOREM ListedIsThere == Spec => []ListedPartsExist
<1>1. Spec => []TypeInv
  BY TypeInit, TypeStep, PTL DEF Spec
<1>2. TypeInv => ListedPartsExist
  BY DEF TypeInv
<1> QED BY <1>1, <1>2, PTL

=============================================================================
