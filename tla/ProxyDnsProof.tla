---------------------------- MODULE ProxyDnsProof ----------------------------
(***************************************************************************)
(* Proofs about ProxyDns, for any number of threads, any names, addresses   *)
(* and lines of the blacklist, and whatever the name servers say.          *)
(***************************************************************************)
EXTENDS ProxyDns, TLAPS, WellFoundedInduction

-----------------------------------------------------------------------------
\* Every thread has a place, a name and an address, whatever they are.
Shape ==
    /\ DOMAIN pc = Threads
    /\ DOMAIN name = Threads
    /\ DOMAIN ip = Threads

\* Between check_blacklist and the end of the request, neither the name nor the
\* address changes: what was checked is what is connected to.
Checked ==
    \A t \in Threads : pc[t] \in {"request", "connected"} => ~Listed(name[t]) /\ ~Listed(ip[t])

Inv == Shape /\ Checked

LEMMA InitInv == Init => Inv
BY DEF Init, Inv, Shape, Checked

LEMMA IdleStep ==
    ASSUME Inv, NEW t \in Threads,
           Accept(t) \/ ReadPiece(t) \/ CleanExit(t) \/ \E r \in Requests : TakeRequest(t, r)
    PROVE  Inv'
<1>1. CASE Accept(t)
    BY <1>1 DEF Accept, Go, request, Inv, Shape, Checked
<1>2. CASE ReadPiece(t)
    BY <1>2 DEF ReadPiece, Inv, Shape, Checked
<1>3. CASE CleanExit(t)
    BY <1>3 DEF CleanExit, Go, Inv, Shape, Checked
<1>4. CASE \E r \in Requests : TakeRequest(t, r)
    BY <1>4 DEF TakeRequest, send_error, Go, Inv, Shape, Checked
<1> QED BY <1>1, <1>2, <1>3, <1>4

\* A thread that resolves its name has not been checked yet.
LEMMA ResolveStep ==
    ASSUME Inv, NEW t \in Threads,
           \/ LockToLookUp(t) \/ get_ip(t) \/ Answered(t) \/ Unanswered(t)
           \/ CopyFirst(t) \/ CopySecond(t) \/ LockToSave(t) \/ save_ip(t)
    PROVE  Inv'
<1>1. CASE LockToLookUp(t) \/ LockToSave(t)
    BY <1>1 DEF LockToLookUp, LockToSave, Go, request, Inv, Shape, Checked
<1>2. CASE get_ip(t)
    <2>1. /\ DOMAIN ip' = Threads
          /\ \A u \in Threads \ {t} : ip'[u] = ip[u]
          /\ \E where \in {"check", "resolve"} : Go(t, where)
        BY <1>2 DEF get_ip, Hit, Inv, Shape
    <2> QED BY <1>2, <2>1 DEF get_ip, Go, Inv, Shape, Checked
<1>3. CASE Answered(t)
    BY <1>3 DEF Answered, Overwrite, Go, request, Inv, Shape, Checked
<1>4. CASE Unanswered(t)
    BY <1>4 DEF Unanswered, Overwrite, send_error, Go, Inv, Shape, Checked
<1>5. CASE CopyFirst(t) \/ CopySecond(t)
    BY <1>5 DEF CopyFirst, CopySecond, Go, Inv, Shape, Checked
<1>6. CASE save_ip(t)
    BY <1>6 DEF save_ip, Go, request, Inv, Shape, Checked
<1> QED BY <1>1, <1>2, <1>3, <1>4, <1>5, <1>6

LEMMA CheckStep ==
    ASSUME Inv, NEW t \in Threads, Pass(t) \/ Refuse(t) \/ Connect(t) \/ Return(t)
    PROVE  Inv'
<1>1. CASE Pass(t)
    BY <1>1 DEF Pass, Go, request, Inv, Shape, Checked
<1>2. CASE Refuse(t)
    BY <1>2 DEF Refuse, send_error, Go, Inv, Shape, Checked
<1>3. CASE Connect(t)
    BY <1>3 DEF Connect, Go, request, Inv, Shape, Checked
<1>4. CASE Return(t)
    BY <1>4 DEF Return, Go, Inv, Shape, Checked
<1> QED BY <1>1, <1>2, <1>3, <1>4

LEMMA NextInv == Inv /\ [Next]_vars => Inv'
<1> SUFFICES ASSUME Inv, [Next]_vars
             PROVE  Inv'
    OBVIOUS
<1>1. ASSUME NEW t \in Threads,
             Accept(t) \/ ReadPiece(t) \/ CleanExit(t) \/ \E r \in Requests : TakeRequest(t, r)
      PROVE  Inv'
    BY <1>1, IdleStep
<1>2. ASSUME NEW t \in Threads, thread_main(t)
      PROVE  Inv'
    BY <1>2, ResolveStep, CheckStep DEF thread_main
<1>3. CASE \E n \in Names : DnsChanges(n)
    BY <1>3 DEF DnsChanges, request, Inv, Shape, Checked
<1>4. CASE Kill
    BY <1>4 DEF Kill, Inv, Shape, Checked
<1>5. CASE UNCHANGED vars
    BY <1>5 DEF vars, request, Inv, Shape, Checked
<1> QED BY <1>1, <1>2, <1>3, <1>4, <1>5 DEF Next

-----------------------------------------------------------------------------
\* No connection is made for a name or to an address on a whole line of the blacklist,
\* however many threads resolve, save and look up names meanwhile, and whatever
\* resolved.txt says: the address that is checked is the one that is used.
THEOREM NothingListedIsConnected == Spec => []BlacklistHolds
<1>1. Inv => BlacklistHolds
    BY DEF Inv, Checked, BlacklistHolds, Listed
<1>2. QED
    BY <1>1, InitInv, NextInv, PTL DEF Spec

-----------------------------------------------------------------------------
LEMMA Least ==
    ASSUME NEW T, T \subseteq Nat, T # {}
    PROVE  \E x \in T : \A y \in T : x <= y
<1>1. PICK x \in T : \A y \in T : ~(<<y, x>> \in OpToRel(<, Nat))
    BY WFMin, NatLessThanWellFounded
<1>2. \A y \in T : ~(y < x)
    BY <1>1 DEF OpToRel
<1> QED BY <1>2

\* A nonempty set of positions has a first and a last one.
LEMMA Extremes ==
    ASSUME NEW L \in Nat, NEW S, S \subseteq 1 .. L, S # {}
    PROVE  /\ Min(S) \in S /\ \A y \in S : Min(S) <= y
           /\ Max(S) \in S /\ \A y \in S : Max(S) >= y
<1>1. \E x \in S : \A y \in S : x <= y
    <2>1. S \subseteq Nat
        OBVIOUS
    <2> QED BY <2>1, Least
<1>2. \E x \in S : \A y \in S : x >= y
    <2> DEFINE T == {k \in Nat : L - k \in S}
    <2>1. \A y \in S : L - y \in Nat /\ L - (L - y) = y
        OBVIOUS
    <2>2. \A y \in S : L - y \in T
        BY <2>1
    <2>3. T \subseteq Nat /\ T # {}
        BY <2>2
    <2>4. PICK m \in T : \A k \in T : m <= k
        <3> HIDE DEF T
        <3> QED BY <2>3, Least
    <2>5. m \in Nat /\ L - m \in S
        OBVIOUS
    <2>6. \A y \in S : m <= L - y
        <3> HIDE DEF T
        <3> QED BY <2>2, <2>4
    <2>7. \A y \in S : L - m >= y
        BY <2>5, <2>6
    <2> QED BY <2>5, <2>7
<1> QED BY <1>1, <1>2 DEF Min, Max

-----------------------------------------------------------------------------
\* One round of the loop of get_ip from line i on; what comes after it is in g.
Whole(i) == {j \in i .. Len(resolved) : Bytes(i, j) <= Buffer}
Round(n, g, i) ==
    IF i > Len(resolved) \/ Whole(i) = {} THEN None
    ELSE LET hit == {j \in i .. Max(Whole(i)) : resolved[j].name = n}
         IN  IF hit # {} THEN resolved[Min(hit)].addr ELSE g[Max(Whole(i)) + 1]
Rounds(n, g) == g = [i \in 1 .. Len(resolved) + 1 |-> Round(n, g, i)]

LEMMA ScanIs == \A n : Scan(n) = (CHOOSE g : Rounds(n, g))[1]
BY DEF Scan, Rounds, Round, Whole

LEMMA RoundAhead ==
    ASSUME NEW T, resolved \in Seq(T), NEW n, NEW i \in 1 .. Len(resolved) + 1, NEW f, NEW g,
           \A k \in i + 1 .. Len(resolved) + 1 : f[k] = g[k]
    PROVE  Round(n, f, i) = Round(n, g, i)
<1>0. Len(resolved) \in Nat
    OBVIOUS
<1>1. CASE i > Len(resolved) \/ Whole(i) = {}
    BY <1>1 DEF Round
<1>2. CASE i <= Len(resolved) /\ Whole(i) # {}
    <2>1. Max(Whole(i)) \in i .. Len(resolved)
        <3>1. Whole(i) \in SUBSET (1 .. Len(resolved))
            BY <1>0 DEF Whole
        <3>2. Max(Whole(i)) \in Whole(i)
            BY <1>0, <1>2, <3>1, Extremes
        <3> QED BY <3>2 DEF Whole
    <2>2. Max(Whole(i)) + 1 \in i + 1 .. Len(resolved) + 1
        BY <1>0, <2>1
    <2>3. f[Max(Whole(i)) + 1] = g[Max(Whole(i)) + 1]
        BY <2>2
    <2> QED BY <1>2, <2>3 DEF Round
<1> QED BY <1>0, <1>1, <1>2

LEMMA RoundsExist ==
    ASSUME NEW T, resolved \in Seq(T), NEW n
    PROVE  \E g : Rounds(n, g)
<1> DEFINE L == Len(resolved)
           From(k) == \E g : g = [i \in k .. L + 1 |-> Round(n, g, i)]
           Bad == {k \in Nat : k <= L /\ ~From(L + 1 - k)}
<1>0. L \in Nat
    OBVIOUS
<1>1. SUFFICES ASSUME ~From(1)
               PROVE  FALSE
    BY <1>1 DEF Rounds
<1>2. L \in Bad
    <2>1. L + 1 - L = 1
        BY <1>0
    <2> QED BY <1>0, <1>1, <2>1
<1>3. PICK k \in Bad : \A m \in Bad : k <= m
    <2>1. Bad \in SUBSET Nat /\ Bad # {}
        BY <1>2
    <2> HIDE DEF Bad
    <2> QED BY <2>1, Least
<1> DEFINE a == L + 1 - k
<1>4. k \in Nat /\ k <= L /\ ~From(a) /\ a \in 1 .. L + 1
    BY <1>0, <1>3
<1> HIDE DEF Bad
<1>5. PICK f : \A i \in a + 1 .. L + 1 : f[i] = Round(n, f, i)
    <2>1. CASE k = 0
        BY <2>1, <1>0
    <2>2. CASE k # 0
        <3>1. k - 1 \in Nat /\ k - 1 <= L /\ L + 1 - (k - 1) = a + 1
            BY <2>2, <1>0, <1>4
        <3>2. k - 1 \notin Bad
            BY <3>1, <1>3, <1>4
        <3>3. From(L + 1 - (k - 1))
            BY <3>1, <3>2 DEF Bad
        <3>4. From(a + 1)
            BY <3>1, <3>3
        <3>5. PICK f : f = [i \in a + 1 .. L + 1 |-> Round(n, f, i)]
            BY <3>4
        <3> HIDE DEF L, a
        <3>6. \A i \in a + 1 .. L + 1 : f[i] = Round(n, f, i)
            BY <3>5
        <3> QED BY <3>6
    <2> QED BY <2>1, <2>2
<1> DEFINE h == [i \in a .. L + 1 |-> Round(n, f, i)]
<1>6. \A i \in a + 1 .. L + 1 : h[i] = f[i]
    <2>1. \A i \in a + 1 .. L + 1 : i \in a .. L + 1
        BY <1>0, <1>4
    <2> HIDE DEF L, a
    <2> QED BY <2>1, <1>5
<1>7. \A i \in a .. L + 1 : Round(n, h, i) = Round(n, f, i)
    <2> TAKE i \in a .. L + 1
    <2>1. i \in 1 .. Len(resolved) + 1
        BY <1>0, <1>4
    <2>2. \A j \in i + 1 .. Len(resolved) + 1 : h[j] = f[j]
        <3>1. \A j \in i + 1 .. Len(resolved) + 1 : j \in a + 1 .. L + 1
            BY <1>0, <1>4
        <3> HIDE DEF L, a, h
        <3> QED BY <3>1, <1>6 DEF L
    <2> HIDE DEF h
    <2> QED BY <2>1, <2>2, RoundAhead
<1>8. h = [i \in a .. L + 1 |-> Round(n, h, i)]
    <2>1. \A i \in a .. L + 1 : h[i] = Round(n, h, i)
        BY <1>7
    <2>2. h = [i \in a .. L + 1 |-> h[i]]
        OBVIOUS
    <2> HIDE DEF h, L, a
    <2> QED BY <2>1, <2>2
<1>9. From(a)
    <2> HIDE DEF h, L, a
    <2> QED BY <1>8
<1> QED BY <1>4, <1>9

\* get_ip finds the first line of a name or none
LEMMA FirstFound ==
    ASSUME NEW T, resolved \in Seq(T), NEW n, NEW g, Rounds(n, g), NEW i \in 1 .. Len(resolved) + 1
    PROVE  \/ g[i] = None
           \/ \E k \in i .. Len(resolved) :
                /\ resolved[k].name = n /\ resolved[k].addr = g[i]
                /\ \A j \in i .. k - 1 : resolved[j].name # n
<1> DEFINE L == Len(resolved)
           Found(x) == \/ g[x] = None
                       \/ \E k \in x .. L :
                            /\ resolved[k].name = n /\ resolved[k].addr = g[x]
                            /\ \A j \in x .. k - 1 : resolved[j].name # n
           Bad == {k \in Nat : k <= L /\ ~Found(L + 1 - k)}
<1>0. L \in Nat
    OBVIOUS
<1>1. SUFFICES ASSUME ~Found(i)
               PROVE  FALSE
    BY <1>1
<1>2. L + 1 - i \in Bad
    <2>1. L + 1 - (L + 1 - i) = i /\ L + 1 - i \in Nat /\ L + 1 - i <= L
        BY <1>0
    <2> HIDE DEF Found
    <2> QED BY <1>0, <1>1, <2>1
<1>3. PICK k \in Bad : \A m \in Bad : k <= m
    <2>1. Bad \in SUBSET Nat /\ Bad # {}
        BY <1>2
    <2> HIDE DEF Bad
    <2> QED BY <2>1, Least
<1> DEFINE a == L + 1 - k
<1> HIDE DEF Found
<1>4. k \in Nat /\ k <= L /\ ~Found(a) /\ a \in 1 .. L + 1
    BY <1>0, <1>3
<1>5. \A x \in a + 1 .. L + 1 : Found(x)
    <2> TAKE x \in a + 1 .. L + 1
    <2>1. L + 1 - x \in Nat /\ L + 1 - x < k /\ L + 1 - x <= L
        BY <1>0, <1>4
    <2>2. L + 1 - x \notin Bad
        <3> HIDE DEF Bad
        <3> QED BY <2>1, <1>3, <1>4, <1>0
    <2>3. L + 1 - (L + 1 - x) = x
        BY <1>0, <1>4
    <2> HIDE DEF L, a
    <2> QED BY <2>1, <2>2, <2>3
<1> HIDE DEF Bad
<1>6. g[a] = Round(n, g, a)
    BY <1>4 DEF Rounds
<1>7. a <= L /\ Whole(a) # {}
    BY <1>0, <1>4, <1>6 DEF Round, Found
<1> DEFINE m == Max(Whole(a))
           hit == {j \in a .. m : resolved[j].name = n}
<1>8. m \in a .. L
    <2>1. Whole(a) \in SUBSET (1 .. L)
        BY <1>0, <1>4 DEF Whole
    <2>2. m \in Whole(a)
        BY <1>0, <1>7, <2>1, Extremes
    <2> QED BY <2>2 DEF Whole
<1>9. ~(a > Len(resolved) \/ Whole(a) = {})
    BY <1>0, <1>4, <1>7
<1>10. g[a] = IF hit # {} THEN resolved[Min(hit)].addr ELSE g[m + 1]
    <2> HIDE DEF a
    <2> QED BY <1>6, <1>9 DEF Round
<1>11. CASE hit # {}
    <2>1. hit \in SUBSET (1 .. L)
        BY <1>0, <1>4, <1>8
    <2>2. Min(hit) \in hit /\ \A y \in hit : Min(hit) <= y
        <3> HIDE DEF hit
        <3> QED BY <1>0, <1>11, <2>1, Extremes
    <2> DEFINE f == Min(hit)
    <2>3. f \in a .. m /\ resolved[f].name = n
        BY <2>2
    <2>4. \A j \in a .. f - 1 : resolved[j].name # n
        <3> TAKE j \in a .. f - 1
        <3>1. j \in a .. m /\ ~(f <= j)
            <4> HIDE DEF f, m, hit
            <4> QED BY <2>3, <1>0, <1>4, <1>8
        <3>2. j \notin hit
            <4> HIDE DEF hit
            <4> QED BY <3>1, <2>2
        <3> QED BY <3>1, <3>2
    <2>5. f \in a .. L /\ resolved[f].addr = g[a]
        <3> HIDE DEF hit, m, a
        <3> QED BY <2>3, <1>0, <1>4, <1>8, <1>10, <1>11
    <2> HIDE DEF f, a
    <2> QED BY <2>3, <2>4, <2>5, <1>4 DEF Found
<1>12. CASE hit = {}
    <2>1. m + 1 \in a + 1 .. L + 1
        BY <1>0, <1>4, <1>8
    <2>2. Found(m + 1) /\ g[a] = g[m + 1]
        BY <1>5, <1>10, <1>12, <2>1
    <2>3. \A j \in a .. m : resolved[j].name # n
        BY <1>12
    <2>4. g[a] # None
        BY <1>4 DEF Found
    <2> HIDE DEF a, m, hit, L
    <2>5. PICK f \in m + 1 .. L :
            /\ resolved[f].name = n /\ resolved[f].addr = g[m + 1]
            /\ \A j \in m + 1 .. f - 1 : resolved[j].name # n
        BY <2>2, <2>4 DEF Found
    <2>6. f \in a .. L /\ \A j \in a .. f - 1 : resolved[j].name # n
        <3>1. m \in Nat /\ a \in Nat /\ f \in Nat
            BY <1>0, <1>4, <1>8, <2>1, <2>5
        <3>2. f \in a .. L
            BY <1>0, <1>8, <2>5, <3>1
        <3>3. ASSUME NEW j \in a .. f - 1
              PROVE  resolved[j].name # n
            BY <2>3, <2>5, <3>1
        <3> QED BY <3>2, <3>3
    <2> QED BY <2>2, <2>5, <2>6, <1>4 DEF Found
<1> QED BY <1>11, <1>12

LEMMA ScanFindsTheFirst ==
    ASSUME NEW T, resolved \in Seq(T), NEW n, Scan(n) # None
    PROVE  \E k \in DOMAIN resolved :
              /\ resolved[k].name = n /\ resolved[k].addr = Scan(n)
              /\ \A j \in 1 .. k - 1 : resolved[j].name # n
<1> DEFINE g == CHOOSE h : Rounds(n, h)
<1>1. Rounds(n, g)
    BY RoundsExist
<1>2. Scan(n) = g[1]
    BY ScanIs
<1> HIDE DEF g
<1>3. 1 \in 1 .. Len(resolved) + 1 /\ DOMAIN resolved = 1 .. Len(resolved)
    OBVIOUS
<1> QED BY <1>1, <1>2, <1>3, FirstFound

-----------------------------------------------------------------------------
\* A thread has a name from extract_req_fields on, an address from check_hostname
\* or get_ip on, and gethostbyname has answered when sprintf reads its memory.
Filled ==
    /\ \A t \in Threads : pc[t] \in Busy => name[t] \in Names
    /\ \A t \in Threads : pc[t] \in {"second", "save", "saving", "check", "request", "connected"} => ip[t] \in Addresses
    /\ \A t \in Threads : pc[t] \in {"first", "second"} => static \in Addresses

Typed == TypeOK /\ Filled

\* What a sequence holds.
LEMMA Holds ==
    ASSUME NEW T, NEW s \in Seq(T), NEW k \in DOMAIN s
    PROVE  s[k] \in T
OBVIOUS

LEMMA Halving ==
    ASSUME NEW p \in Addresses, NEW q \in Addresses
    PROVE  /\ <<p[1], p[2]>> = p
           /\ [p EXCEPT ![2] = q[2]] = <<p[1], q[2]>>
           /\ <<p[1], q[2]>> \in Addresses
BY DEF Addresses

LEMMA InitTyped == Init => Typed
<1> SUFFICES ASSUME Init
             PROVE  Typed
    OBVIOUS
<1>1. 0 \in 0 .. MaxHeader /\ Zone \in [Names -> Addresses \cup {None}]
    BY DnsAssumption
<1>2. resolved \in Seq([name : Names, addr : Addresses])
    BY DEF Init
<1>3. /\ pc \in [Threads -> Busy \cup {"gone", "idle"}]
      /\ pieces \in [Threads -> 0 .. MaxHeader]
      /\ name \in [Threads -> Names \cup {None}]
      /\ ip \in [Threads -> Addresses \cup {None}]
      /\ hits \in [Names -> SUBSET Addresses]
    BY <1>1 DEF Init
<1>4. dns \in [Names -> Addresses \cup {None}] /\ said \subseteq Names \X Addresses
    BY <1>1 DEF Init
<1>5. static \in Addresses \cup {None} /\ lock \in Threads \cup {None} /\ overlapped \in BOOLEAN
    BY DEF Init
<1>6. {requests, changes} \subseteq Nat
    BY DEF Init
<1>7. TypeOK
    BY <1>2, <1>3, <1>4, <1>5, <1>6 DEF TypeOK
<1>8. Filled
    BY DEF Init, Filled, Busy
<1> QED BY <1>7, <1>8 DEF Typed

LEMMA IdleTyped ==
    ASSUME Typed, NEW t \in Threads,
           Accept(t) \/ ReadPiece(t) \/ CleanExit(t) \/ \E r \in Requests : TakeRequest(t, r)
    PROVE  Typed'
<1>1. CASE Accept(t)
    BY <1>1 DEF Accept, Go, request, history, Typed, TypeOK, Filled, Busy
<1>2. CASE ReadPiece(t)
    <2>1. pieces[t] + 1 \in 0 .. MaxHeader
        BY <1>2, DnsAssumption DEF ReadPiece, Typed, TypeOK
    <2> QED BY <1>2, <2>1 DEF ReadPiece, history, Typed, TypeOK, Filled
<1>3. CASE CleanExit(t)
    <2>1. 0 \in 0 .. MaxHeader
        BY DnsAssumption
    <2> QED BY <1>3, <2>1 DEF CleanExit, Go, history, Typed, TypeOK, Filled, Busy
<1>4. ASSUME NEW r \in Requests, TakeRequest(t, r)
      PROVE  Typed'
    <2>1. 0 \in 0 .. MaxHeader /\ requests + 1 \in Nat
        BY DnsAssumption DEF Typed, TypeOK
    <2>2. extract_req_fields(r) \in Names
        BY DnsAssumption DEF extract_req_fields
    <2> HIDE DEF extract_req_fields
    <2>3. CASE r.meth = "BAD" /\ UNCHANGED <<pc, name, ip>>
        BY <1>4, <2>1, <2>3 DEF TakeRequest, history, Typed, TypeOK, Filled
    <2>4. CASE r.meth = "OTHER" /\ send_error(t)
        BY <1>4, <2>1, <2>4 DEF TakeRequest, send_error, Go, history, Typed, TypeOK, Filled, Busy
    <2>5. CASE /\ r.meth = "GET"
               /\ name' = [name EXCEPT ![t] = extract_req_fields(r)]
               /\ Go(t, "lookup")
               /\ UNCHANGED ip
        BY <1>4, <2>1, <2>2, <2>5 DEF TakeRequest, Go, history, Typed, TypeOK, Filled, Busy
    <2> QED BY <1>4, <2>3, <2>4, <2>5 DEF TakeRequest
<1> QED BY <1>1, <1>2, <1>3, <1>4

\* An answer of get_ip is one of the lines.
LEMMA ScanTyped ==
    ASSUME TypeOK, NEW n, Scan(n) # None
    PROVE  Scan(n) \in Addresses
<1>1. resolved \in Seq([name : Names, addr : Addresses])
    BY DEF TypeOK
<1>2. \E k \in DOMAIN resolved : resolved[k].addr = Scan(n)
    BY <1>1, ScanFindsTheFirst
<1>3. \A k \in DOMAIN resolved : resolved[k] \in [name : Names, addr : Addresses]
    BY <1>1, Holds
<1>4. \A k \in DOMAIN resolved : resolved[k].addr \in Addresses
    BY <1>3
<1> HIDE DEF Scan, Addresses
<1> QED BY <1>2, <1>4

LEMMA ResolveTyped ==
    ASSUME Typed, NEW t \in Threads,
           \/ LockToLookUp(t) \/ get_ip(t) \/ Answered(t) \/ Unanswered(t)
           \/ CopyFirst(t) \/ CopySecond(t) \/ LockToSave(t) \/ save_ip(t)
    PROVE  Typed'
<1>1. CASE LockToLookUp(t) \/ LockToSave(t)
    BY <1>1 DEF LockToLookUp, LockToSave, TakeLock, Go, request, history, Typed, TypeOK, Filled, Busy
<1>2. CASE get_ip(t)
    <2> HIDE DEF Scan
    <2>1. CASE Hit(t)
        <3>1. Scan(name[t]) \in Addresses /\ name[t] \in Names
            BY <1>2, <2>1, ScanTyped DEF get_ip, Hit, Typed, Filled, Busy
        <3>2. hits' \in [Names -> SUBSET Addresses]
            BY <2>1, <3>1 DEF Hit, Typed, TypeOK
        <3> QED BY <1>2, <2>1, <3>1, <3>2 DEF get_ip, Hit, Go, Typed, TypeOK, Filled, Busy
    <2>2. CASE Go(t, "resolve") /\ UNCHANGED <<ip, hits>>
        BY <1>2, <2>2 DEF get_ip, Go, Typed, TypeOK, Filled, Busy
    <2> QED BY <1>2, <2>1, <2>2 DEF get_ip
<1>3. CASE Answered(t)
    <2>1. name[t] \in Names /\ dns[name[t]] \in Addresses
        BY <1>3 DEF Answered, Typed, TypeOK, Filled, Busy
    <2>2. said' \subseteq Names \X Addresses /\ overlapped' \in BOOLEAN
        BY <1>3, <2>1 DEF Answered, Overwrite, Typed, TypeOK
    <2> QED BY <1>3, <2>1, <2>2 DEF Answered, Overwrite, Go, request, Typed, TypeOK, Filled, Busy
<1>4. CASE Unanswered(t)
    <2>1. /\ static' \in Addresses \cup {None} /\ overlapped' \in BOOLEAN
          /\ static \in Addresses => static' \in Addresses
        BY <1>4 DEF Unanswered, Overwrite, Typed, TypeOK
    <2> QED BY <1>4, <2>1 DEF Unanswered, send_error, Go, Typed, TypeOK, Filled, Busy
<1>5. CASE CopyFirst(t)
    <2>1. <<static[1], static[2]>> \in Addresses
        BY <1>5, Halving DEF CopyFirst, Typed, Filled
    <2> QED BY <1>5, <2>1 DEF CopyFirst, Go, history, Typed, TypeOK, Filled, Busy
<1>6. CASE CopySecond(t)
    <2>1. [ip[t] EXCEPT ![2] = static[2]] \in Addresses
        <3>1. ip[t] \in Addresses /\ static \in Addresses
            BY <1>6 DEF CopySecond, Typed, Filled
        <3>2. /\ [ip[t] EXCEPT ![2] = static[2]] = <<ip[t][1], static[2]>>
              /\ <<ip[t][1], static[2]>> \in Addresses
            <4> HIDE DEF Addresses
            <4> QED BY <3>1, Halving, Zenon
        <3> QED BY <3>2
    <2>2. ip' = [ip EXCEPT ![t] = [ip[t] EXCEPT ![2] = static[2]]]
        BY <1>6 DEF CopySecond
    <2> QED BY <1>6, <2>1, <2>2 DEF CopySecond, Go, history, Typed, TypeOK, Filled, Busy
<1>7. CASE save_ip(t)
    <2>1. [name |-> name[t], addr |-> ip[t]] \in [name : Names, addr : Addresses]
        BY <1>7 DEF save_ip, Typed, Filled, Busy
    <2>2. resolved \in Seq([name : Names, addr : Addresses])
        BY DEF Typed, TypeOK
    <2>3. Append(resolved, [name |-> name[t], addr |-> ip[t]]) \in Seq([name : Names, addr : Addresses])
        BY <2>1, <2>2
    <2>4. resolved' \in Seq([name : Names, addr : Addresses])
        BY <1>7, <2>2, <2>3 DEF save_ip
    <2> QED BY <1>7, <2>4 DEF save_ip, Go, request, history, Typed, TypeOK, Filled, Busy
<1> QED BY <1>1, <1>2, <1>3, <1>4, <1>5, <1>6, <1>7

LEMMA CheckTyped ==
    ASSUME Typed, NEW t \in Threads, Pass(t) \/ Refuse(t) \/ Connect(t) \/ Return(t)
    PROVE  Typed'
<1>1. CASE Pass(t) \/ Connect(t)
    BY <1>1 DEF Pass, Connect, Go, request, history, Typed, TypeOK, Filled, Busy
<1>2. CASE Refuse(t)
    BY <1>2 DEF Refuse, send_error, Go, history, Typed, TypeOK, Filled, Busy
<1>3. CASE Return(t)
    BY <1>3 DEF Return, Go, history, Typed, TypeOK, Filled, Busy
<1> QED BY <1>1, <1>2, <1>3

LEMMA NextTyped == Typed /\ [Next]_vars => Typed'
<1> SUFFICES ASSUME Typed, [Next]_vars
             PROVE  Typed'
    OBVIOUS
<1>1. ASSUME NEW t \in Threads,
             Accept(t) \/ ReadPiece(t) \/ CleanExit(t) \/ \E r \in Requests : TakeRequest(t, r)
      PROVE  Typed'
    BY <1>1, IdleTyped
<1>2. ASSUME NEW t \in Threads, thread_main(t)
      PROVE  Typed'
    BY <1>2, ResolveTyped, CheckTyped DEF thread_main
<1>3. ASSUME NEW n \in Names, DnsChanges(n)
      PROVE  Typed'
    <2>1. changes + 1 \in Nat
        BY DEF Typed, TypeOK
    <2>2. dns' \in [Names -> Addresses \cup {None}]
        BY <1>3, DnsAssumption DEF DnsChanges, Typed, TypeOK
    <2> QED BY <1>3, <2>1, <2>2 DEF DnsChanges, request, history, Typed, TypeOK, Filled
<1>4. CASE Kill
    <2>1. 0 \in 0 .. MaxHeader
        BY DnsAssumption
    <2> QED BY <1>4, <2>1 DEF Kill, history, Typed, TypeOK, Filled, Busy
<1>5. CASE UNCHANGED vars
    BY <1>5 DEF vars, request, history, Typed, TypeOK, Filled
<1> QED BY <1>1, <1>2, <1>3, <1>4, <1>5 DEF Next

\* Whatever the threads do, sprintf and save_ip have an address to read: no thread
\* copies from a hostent nobody filled in.
THEOREM ProxyDnsTypeCorrect == Spec => []TypeOK
<1>1. Typed => TypeOK
    BY DEF Typed
<1>2. QED
    BY <1>1, InitTyped, NextTyped, PTL DEF Spec

-----------------------------------------------------------------------------
\* get_ip takes the first line of a name, and save_ip only appends: the line that
\* was found stays the first.
FirstKept == Typed /\ FirstLineForEver

\* Lines stay where they are.
LEMMA LinesStay ==
    ASSUME Typed, [Next]_vars
    PROVE  \A i \in DOMAIN resolved : i \in DOMAIN resolved' /\ resolved'[i] = resolved[i]
<1>0. resolved \in Seq([name : Names, addr : Addresses])
    BY DEF Typed, TypeOK
<1>1. ASSUME NEW t \in Threads, save_ip(t)
      PROVE  \A i \in DOMAIN resolved : i \in DOMAIN resolved' /\ resolved'[i] = resolved[i]
    <2>1. resolved' = Append(resolved, [name |-> name[t], addr |-> ip[t]]) \/ resolved' = resolved
        BY <1>1 DEF save_ip
    <2> QED BY <1>0, <2>1
<1>2. CASE UNCHANGED resolved
    BY <1>2
<1> QED BY <1>1, <1>2 DEF Next, vars, thread_main, Accept, ReadPiece, CleanExit, TakeRequest,
        LockToLookUp, get_ip, Answered, Unanswered, CopyFirst, CopySecond, LockToSave,
        Pass, Refuse, Connect, Return, DnsChanges, Kill

\* What get_ip found was found before, or is in the first line of the name.
LEMMA HitsGrow ==
    ASSUME Typed, [Next]_vars, NEW n \in Names, NEW a \in hits'[n]
    PROVE  \/ a \in hits[n]
           \/ Scan(n) # None /\ a = Scan(n) /\ UNCHANGED resolved
<1> HIDE DEF Scan
<1>1. ASSUME NEW t \in Threads, get_ip(t)
      PROVE  \/ a \in hits[n]
             \/ Scan(n) # None /\ a = Scan(n) /\ UNCHANGED resolved
    <2>1. CASE UNCHANGED hits
        BY <2>1
    <2>2. CASE Hit(t)
        <3>1. CASE n = name[t]
            <4>1. hits'[n] = hits[n] \cup {Scan(n)}
                BY <2>2, <3>1 DEF Hit, Typed, TypeOK
            <4> QED BY <1>1, <2>2, <3>1, <4>1 DEF get_ip, Hit
        <3>2. CASE n # name[t]
            BY <2>2, <3>2 DEF Hit, Typed, TypeOK
        <3> QED BY <3>1, <3>2
    <2> QED BY <1>1, <2>1, <2>2 DEF get_ip
<1>2. CASE UNCHANGED hits
    BY <1>2
<1> QED BY <1>1, <1>2 DEF Next, vars, history, thread_main, Accept, ReadPiece, CleanExit, TakeRequest,
        LockToLookUp, Answered, Unanswered, CopyFirst, CopySecond, LockToSave, save_ip,
        Pass, Refuse, Connect, Return, DnsChanges, Kill

LEMMA NextFirstKept == FirstKept /\ [Next]_vars => FirstKept'
<1> SUFFICES ASSUME FirstKept, [Next]_vars
             PROVE  FirstKept'
    OBVIOUS
<1>0. Typed /\ Typed' /\ resolved \in Seq([name : Names, addr : Addresses])
    BY NextTyped DEF FirstKept, Typed, TypeOK
<1>1. ASSUME NEW n \in Names, NEW a \in hits'[n]
      PROVE  \E i \in DOMAIN resolved :
                /\ resolved[i] = [name |-> n, addr |-> a]
                /\ \A j \in 1 .. i - 1 : resolved[j].name # n
    <2>1. CASE a \in hits[n]
        BY <2>1 DEF FirstKept, FirstLineForEver
    <2>2. CASE Scan(n) # None /\ a = Scan(n)
        <3> HIDE DEF Scan
        <3>1. PICK k \in DOMAIN resolved :
                /\ resolved[k].name = n /\ resolved[k].addr = a
                /\ \A j \in 1 .. k - 1 : resolved[j].name # n
            BY <1>0, <2>2, ScanFindsTheFirst
        <3>2. resolved[k] \in [name : Names, addr : Addresses]
            BY <1>0, Holds
        <3>3. resolved[k] = [name |-> n, addr |-> a]
            BY <3>1, <3>2
        <3> QED BY <3>1, <3>3
    <2> HIDE DEF Scan
    <2> QED BY <1>0, <1>1, <2>1, <2>2, HitsGrow
<1>2. ASSUME NEW n \in Names, NEW a \in hits'[n]
      PROVE  \E i \in DOMAIN resolved' :
                /\ resolved'[i] = [name |-> n, addr |-> a]
                /\ \A j \in 1 .. i - 1 : resolved'[j].name # n
    <2>1. PICK i \in DOMAIN resolved :
                /\ resolved[i] = [name |-> n, addr |-> a]
                /\ \A j \in 1 .. i - 1 : resolved[j].name # n
        BY <1>1
    <2>2. \A j \in 1 .. i - 1 : j \in DOMAIN resolved
        BY <1>0
    <2> QED BY <1>0, <2>1, <2>2, LinesStay
<1>3. FirstLineForEver'
    BY <1>2 DEF FirstLineForEver
<1> QED BY <1>0, <1>3 DEF FirstKept

\* Every address that get_ip ever found for a name is still the one of its first line:
\* however many threads resolved the name at once and saved different answers, all later
\* requests for it go to one address, across restarts of the proxy.
THEOREM TheFirstLineStays == Spec => []FirstLineForEver
<1>1. Init => FirstKept
    BY InitTyped DEF Init, FirstKept, FirstLineForEver
<1>2. FirstKept => FirstLineForEver
    BY DEF FirstKept
<1>3. QED
    BY <1>1, <1>2, NextFirstKept, PTL DEF Spec

-----------------------------------------------------------------------------
\* As long as no answer was overwritten while it was copied, one thread copies at a
\* time and what it copies from is the answer to its name.
Copying ==
    \A t \in Threads : pc[t] \in {"first", "second"} =>
        /\ <<name[t], static>> \in said
        /\ pc[t] = "second" => ip[t] = static
        /\ \A u \in Threads : pc[u] \in {"first", "second"} => u = t

Copied ==
    \A t \in Threads :
        pc[t] \in {"save", "saving", "check", "request", "connected"} => <<name[t], ip[t]>> \in said

Saved == \A i \in DOMAIN resolved : <<resolved[i].name, resolved[i].addr>> \in said

Faithful == ~overlapped => Copying /\ Copied /\ Saved

LEMMA IdleFaithful ==
    ASSUME Typed, Faithful, NEW t \in Threads,
           Accept(t) \/ ReadPiece(t) \/ CleanExit(t) \/ \E r \in Requests : TakeRequest(t, r)
    PROVE  Faithful'
<1> USE DEF Faithful, Copying, Copied, Saved, Typed, TypeOK
<1>1. CASE Accept(t)
    BY <1>1 DEF Accept, Go, request, history
<1>2. CASE ReadPiece(t)
    BY <1>2 DEF ReadPiece, history
<1>3. CASE CleanExit(t)
    BY <1>3 DEF CleanExit, Go, history
<1>4. ASSUME NEW r \in Requests, TakeRequest(t, r)
      PROVE  Faithful'
    <2> HIDE DEF extract_req_fields
    <2>1. /\ \A u \in Threads \ {t} : pc'[u] = pc[u] /\ name'[u] = name[u] /\ ip'[u] = ip[u]
          /\ pc'[t] \in {"idle", "lookup"}
        BY <1>4 DEF TakeRequest, send_error, Go
    <2>2. UNCHANGED <<resolved, static, said, overlapped>>
        BY <1>4 DEF TakeRequest, history
    <2> QED BY <2>1, <2>2
<1> QED BY <1>1, <1>2, <1>3, <1>4

LEMMA ResolveFaithful ==
    ASSUME Typed, Faithful, NEW t \in Threads,
           \/ LockToLookUp(t) \/ get_ip(t) \/ Answered(t) \/ Unanswered(t)
           \/ CopyFirst(t) \/ CopySecond(t) \/ LockToSave(t) \/ save_ip(t)
    PROVE  Faithful'
<1>0. resolved \in Seq([name : Names, addr : Addresses])
    BY DEF Typed, TypeOK
<1>1. CASE LockToLookUp(t) \/ LockToSave(t)
    BY <1>1 DEF LockToLookUp, LockToSave, TakeLock, Go, request, history,
                Faithful, Copying, Copied, Saved, Typed, TypeOK
<1>2. CASE get_ip(t)
    <2> HIDE DEF Scan
    <2>1. ASSUME Hit(t), ~overlapped
          PROVE  <<name[t], Scan(name[t])>> \in said
        BY <1>0, <2>1, ScanFindsTheFirst DEF Hit, Faithful, Saved
    <2>2. CASE Hit(t)
        BY <1>2, <2>1, <2>2 DEF get_ip, Hit, Go, Faithful, Copying, Copied, Saved, Typed, TypeOK
    <2>3. CASE Go(t, "resolve") /\ UNCHANGED <<ip, hits>>
        BY <1>2, <2>3 DEF get_ip, Go, Faithful, Copying, Copied, Saved, Typed, TypeOK
    <2> QED BY <1>2, <2>2, <2>3 DEF get_ip
<1>3. CASE Answered(t)
    BY <1>3 DEF Answered, Overwrite, Go, request, Faithful, Copying, Copied, Saved, Typed, TypeOK
<1>4. CASE Unanswered(t)
    <2> HIDE DEF Addresses
    <2> QED BY <1>4 DEF Unanswered, Overwrite, send_error, Go, Faithful, Copying, Copied, Saved, Typed, TypeOK
<1>5. CASE CopyFirst(t)
    <2>1. <<static[1], static[2]>> = static
        BY <1>5, Halving, Zenon DEF CopyFirst, Typed, Filled
    <2>2. ip' = [ip EXCEPT ![t] = static]
        BY <1>5, <2>1 DEF CopyFirst
    <2> QED BY <1>5, <2>2 DEF CopyFirst, Go, history, Faithful, Copying, Copied, Saved, Typed, TypeOK
<1>6. CASE CopySecond(t)
    <2>1. ASSUME ip[t] = static
          PROVE  [ip[t] EXCEPT ![2] = static[2]] = static
        <3>1. static \in Addresses
            BY <1>6 DEF CopySecond, Typed, Filled
        <3>2. /\ <<static[1], static[2]>> = static
              /\ [static EXCEPT ![2] = static[2]] = <<static[1], static[2]>>
            <4> HIDE DEF Addresses
            <4> QED BY <3>1, Halving, Zenon
        <3> QED BY <2>1, <3>2
    <2>2. ip' = [ip EXCEPT ![t] = [ip[t] EXCEPT ![2] = static[2]]]
        BY <1>6 DEF CopySecond
    <2>3. /\ \A u \in Threads \ {t} : ip'[u] = ip[u]
          /\ ip[t] = static => ip'[t] = static
        BY <2>1, <2>2 DEF Typed, TypeOK
    <2> QED BY <1>6, <2>3 DEF CopySecond, Go, history, Faithful, Copying, Copied, Saved, Typed, TypeOK
<1>7. CASE save_ip(t)
    <2>1. ASSUME ~overlapped
          PROVE  Saved'
        <3>1. <<name[t], ip[t]>> \in said
            BY <1>7, <2>1 DEF save_ip, Faithful, Copied
        <3>2. CASE resolved' = Append(resolved, [name |-> name[t], addr |-> ip[t]])
            <4>1. \A i \in DOMAIN resolved' :
                    \/ i \in DOMAIN resolved /\ resolved'[i] = resolved[i]
                    \/ resolved'[i] = [name |-> name[t], addr |-> ip[t]]
                BY <1>0, <3>2
            <4> QED BY <1>7, <2>1, <3>1, <4>1 DEF save_ip, history, Faithful, Saved
        <3> QED BY <1>7, <2>1, <3>2 DEF save_ip, history, Faithful, Saved
    <2> QED BY <1>7, <2>1 DEF save_ip, Go, request, history, Faithful, Copying, Copied, Typed, TypeOK
<1> QED BY <1>1, <1>2, <1>3, <1>4, <1>5, <1>6, <1>7

LEMMA NextFaithful == Typed /\ Faithful /\ [Next]_vars => Faithful'
<1> SUFFICES ASSUME Typed, Faithful, [Next]_vars
             PROVE  Faithful'
    OBVIOUS
<1>1. ASSUME NEW t \in Threads,
             Accept(t) \/ ReadPiece(t) \/ CleanExit(t) \/ \E r \in Requests : TakeRequest(t, r)
      PROVE  Faithful'
    BY <1>1, IdleFaithful
<1>2. ASSUME NEW t \in Threads,
             \/ LockToLookUp(t) \/ get_ip(t) \/ Answered(t) \/ Unanswered(t)
             \/ CopyFirst(t) \/ CopySecond(t) \/ LockToSave(t) \/ save_ip(t)
      PROVE  Faithful'
    BY <1>2, ResolveFaithful
<1>3. ASSUME NEW t \in Threads, Pass(t) \/ Refuse(t) \/ Connect(t) \/ Return(t)
      PROVE  Faithful'
    BY <1>3 DEF Pass, Refuse, Connect, Return, send_error, Go, request, history,
                Faithful, Copying, Copied, Saved, Typed, TypeOK
<1>4. CASE \E n \in Names : DnsChanges(n)
    BY <1>4 DEF DnsChanges, request, history, Faithful, Copying, Copied, Saved
<1>5. CASE Kill
    BY <1>5 DEF Kill, history, Faithful, Copying, Copied, Saved
<1>6. CASE UNCHANGED vars
    BY <1>6 DEF vars, request, history, Faithful, Copying, Copied, Saved
<1> QED BY <1>1, <1>2, <1>3, <1>4, <1>5, <1>6 DEF Next, thread_main

\* Unless two threads were in gethostbyname and sprintf at once, no name is ever saved,
\* looked up or connected to with an address that the name servers did not give for it.
THEOREM SavedWhatWasResolved == Spec => []OnlyWhatWasResolved
<1>1. Init => Typed /\ Faithful
    BY InitTyped DEF Init, Faithful, Copying, Copied, Saved
<1>2. Faithful => OnlyWhatWasResolved
    BY DEF Faithful, Copied, Saved, OnlyWhatWasResolved
<1>3. QED
    BY <1>1, <1>2, NextTyped, NextFaithful, PTL DEF Spec

=============================================================================
