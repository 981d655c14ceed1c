------------------------- MODULE StreamSetupProofs --------------------------
(***************************************************************************)
(* For any number of streams, whatever fails, and whoever else opens          *)
(* descriptors or connects: the set-up closes nothing that is not its own,    *)
(* leaves no socket behind but the one it forgets, and when both sides have   *)
(* all their streams, each stream of the server is connected to another one   *)
(* of the client, in the same order unless a handshake was late.              *)
(*                                                                         *)
(* Ownership (OwnInv) is kept by every step (StreamWorkersProofs).  It needs  *)
(* that the numbers of a process, as many as StreamSetup says, never run out: *)
(* the host's descriptors, the streams and at most two more do not fill the   *)
(* table where the set-up opens something (RoomLeft).                         *)
(*                                                                         *)
(* Pairing (PairInv) follows every connection of the client from the moment   *)
(* it is dialled: it is under way, waits in the backlog, is in the server's   *)
(* hand or has become a stream, never two of these (Once).  Over UDP there is *)
(* one at a time (InTurn).  Both are relations between a few sequences and    *)
(* sets, and a step of either side is one of a few moves in them.            *)
(***************************************************************************)
EXTENDS StreamWorkersProofs, FiniteSetTheorems

\* Every non-empty set of natural numbers has a least element.
LEMMA LeastNumber ==
    ASSUME NEW T, T \subseteq Nat, T # {}
    PROVE  \E i \in T : \A j \in T : i <= j
<1>1. PICK i \in T : \A j \in T : ~(<<j, i>> \in OpToRel(<, Nat))
  BY WFMin, NatLessThanWellFounded, Zenon
<1>2. ASSUME NEW j \in T PROVE i <= j
  <2>1. i \in Nat /\ j \in Nat /\ ~(<<j, i>> \in OpToRel(<, Nat))
    BY <1>1, Zenon
  <2>2. j < i => <<j, i>> \in {ss \in Nat \X Nat : ss[1] < ss[2]}
    BY <2>1, Zenon
  <2>3. ~(j < i)
    BY <2>1, <2>2, Zenon DEF OpToRel
  <2>4. i \in Nat /\ j \in Nat
    BY <2>1, Zenon
  <2> QED BY <2>3, <2>4
<1> QED BY <1>2

\* open and socket give a free number, if there is one.
LEMMA LowestFound ==
    ASSUME NEW p, \E f \in Numbers : p.fd[f].kind = "free"
    PROVE  Lowest(p) \in Numbers /\ p.fd[Lowest(p)].kind = "free"
<1> DEFINE T == {f \in Numbers : p.fd[f].kind = "free"}
<1>1. T \subseteq Nat /\ T # {}
  BY WorkerConstants, SetUpConstants DEF Numbers
<1>2. PICK i \in T : \A j \in T : i <= j
  <2> HIDE DEF T
  <2> QED BY <1>1, LeastNumber, Zenon
<1>3. i \in Numbers /\ p.fd[i].kind = "free" /\ \A g \in Numbers : p.fd[g].kind = "free" => i <= g
  BY <1>2
<1> QED
  BY <1>3, Zenon DEF Lowest

\* The numbers of the streams are not more than the streams.
LEMMA HeldFew ==
    ASSUME NEW S, NEW ss \in Seq(S)
    PROVE  IsFiniteSet(Held(ss)) /\ Cardinality(Held(ss)) <= Len(ss) /\ Cardinality(Held(ss)) \in Nat
<1>1. Len(ss) \in Nat
  OBVIOUS
<1>2. ss \in [1..Len(ss) -> Held(ss)] /\ \A f \in Held(ss) : \E i \in 1..Len(ss) : ss[i] = f
  BY DEF Held
<1>3. ss \in Surjection(1..Len(ss), Held(ss))
  BY <1>2, Zenon DEF Surjection
<1>4. IsFiniteSet(1..Len(ss)) /\ Cardinality(1..Len(ss)) = Len(ss)
  BY <1>1, FS_Interval
<1>5. IsFiniteSet(Held(ss)) /\ Cardinality(Held(ss)) <= Cardinality(1..Len(ss))
  BY <1>3, <1>4, FS_Surjection
<1> QED
  BY <1>4, <1>5, FS_CardinalityType

\* The table of either side is never full where its code opens something: the
\* numbers in use are those of the host, of the streams, and two more.
LEMMA RoomLeft ==
    ASSUME NEW p, p.fd \in Tables, p.streams \in Seq(Numbers), Rows(p), NEW a, NEW b,
           \A f \in Numbers : \/ p.fd[f].kind \in {"free", "host"} \/ f \in Held(p.streams)
                              \/ f = a \/ f = b
    PROVE  Lowest(p) \in Numbers /\ p.fd[Lowest(p)].kind = "free"
<1> DEFINE H == HostsOf(p.fd)
           S == Held(p.streams)
<1>1. IsFiniteSet(Numbers) /\ Cardinality(Numbers) = N + SetUpOpens + 3
  <2>1. PICK top \in Nat : top = N + SetUpOpens + 3 /\ top >= 1
    BY WorkerConstants, SetUpConstants
  <2>2. IsFiniteSet(1..top) /\ Cardinality(1..top) = IF 1 > top THEN 0 ELSE top - 1 + 1
    BY FS_Interval
  <2>3. Cardinality(1..top) = top
    BY <2>1, <2>2
  <2> QED
    BY <2>1, <2>2, <2>3 DEF Numbers
<1>2. IsFiniteSet(H) /\ Cardinality(H) \in Nat /\ Cardinality(H) <= SetUpOpens
  <2>1. H \in SUBSET Numbers
    BY DEF HostsOf
  <2>2. IsFiniteSet(H)
    BY <1>1, <2>1, FS_Subset
  <2> QED
    BY <2>2, FS_CardinalityType DEF Rows
<1>3. IsFiniteSet(S) /\ Cardinality(S) \in Nat /\ Cardinality(S) <= N
  <2>1. IsFiniteSet(S) /\ Cardinality(S) <= Len(p.streams) /\ Cardinality(S) \in Nat
    BY HeldFew
  <2>2. Len(p.streams) \in Nat /\ Len(p.streams) <= N
    BY DEF Rows
  <2> HIDE DEF S
  <2> QED
    BY <2>1, <2>2, WorkerConstants
<1> DEFINE U == H \cup S
           V == U \cup {a}
           W == V \cup {b}
<1>4. IsFiniteSet(U) /\ Cardinality(U) <= N + SetUpOpens /\ Cardinality(U) \in Nat
  <2> HIDE DEF H, S
  <2>1. IsFiniteSet(U) /\ Cardinality(U) = Cardinality(H) + Cardinality(S) - Cardinality(H \cap S)
    BY <1>2, <1>3, FS_Union
  <2>2. IsFiniteSet(H \cap S)
    BY <1>2, FS_Intersection, Zenon
  <2>3. Cardinality(H \cap S) \in Nat /\ Cardinality(U) \in Nat
    BY <2>1, <2>2, FS_CardinalityType
  <2> HIDE DEF U
  <2> QED
    BY <1>2, <1>3, <2>1, <2>3, WorkerConstants, SetUpConstants
<1>5. IsFiniteSet(V) /\ Cardinality(V) <= N + SetUpOpens + 1 /\ Cardinality(V) \in Nat
  <2> HIDE DEF U
  <2>1. IsFiniteSet(V) /\ Cardinality(V) = IF a \in U THEN Cardinality(U) ELSE Cardinality(U) + 1
    BY <1>4, FS_AddElement
  <2> HIDE DEF V
  <2> QED
    BY <1>4, <2>1, WorkerConstants, SetUpConstants
<1>6. IsFiniteSet(W) /\ Cardinality(W) <= N + SetUpOpens + 2 /\ Cardinality(W) \in Nat
  <2> HIDE DEF V
  <2>1. IsFiniteSet(W) /\ Cardinality(W) = IF b \in V THEN Cardinality(V) ELSE Cardinality(V) + 1
    BY <1>5, FS_AddElement
  <2> HIDE DEF W
  <2> QED
    BY <1>5, <2>1, WorkerConstants, SetUpConstants
<1>7. ~(Numbers \subseteq W)
  <2> HIDE DEF W
  <2>1. SUFFICES ASSUME Numbers \in SUBSET W PROVE FALSE
    OBVIOUS
  <2>2. Cardinality(Numbers) <= Cardinality(W)
    BY <1>6, <2>1, FS_Subset
  <2> QED
    BY <1>1, <1>6, <2>2, WorkerConstants, SetUpConstants
<1>8. PICK f \in Numbers : f \notin W
  <2> HIDE DEF W
  <2> QED BY <1>7
<1>9. p.fd[f].kind = "free"
  BY <1>8 DEF HostsOf
<1> QED
  BY <1>9, LowestFound

\* How the number of the host's descriptors changes with one entry.
LEMMA HostsBounded ==
    ASSUME NEW fd \in Tables, NEW f \in Numbers, NEW e
    PROVE  LET n == Cardinality(HostsOf(fd))
               m == Cardinality(HostsOf([fd EXCEPT ![f] = e]))
           IN  /\ n \in Nat /\ m \in Nat
               /\ e.kind # "host" => m <= n
               /\ e.kind = "host" => m <= n + 1
<1> DEFINE gd == [fd EXCEPT ![f] = e]
           H == HostsOf(fd)
           G == HostsOf(gd)
<1>1. gd[f] = e /\ \A g \in Numbers : g # f => gd[g] = fd[g]
  BY DEF Tables
<1> HIDE DEF gd
<1>2. IsFiniteSet(H)
  <2>1. IsFiniteSet(Numbers)
    <3>1. PICK top \in Nat : top = N + SetUpOpens + 3
      BY WorkerConstants, SetUpConstants
    <3> QED
      BY <3>1, FS_Interval DEF Numbers
  <2>2. H \in SUBSET Numbers
    BY DEF HostsOf
  <2> QED
    BY <2>1, <2>2, FS_Subset
<1>3. Cardinality(H) \in Nat
  BY <1>2, FS_CardinalityType
<1>4. e.kind # "host" => G \in SUBSET H
  BY <1>1 DEF HostsOf
<1>5. e.kind = "host" => G = H \cup {f}
  BY <1>1 DEF HostsOf
<1> HIDE DEF G, H
<1>6. CASE e.kind # "host"
  <2>1. IsFiniteSet(G) /\ Cardinality(G) <= Cardinality(H)
    BY <1>2, <1>4, <1>6, FS_Subset
  <2>2. Cardinality(G) \in Nat
    BY <2>1, FS_CardinalityType
  <2> QED
    BY <1>3, <1>6, <2>1, <2>2 DEF G, H, gd
<1>7. CASE e.kind = "host"
  <2>1. IsFiniteSet(G) /\ Cardinality(G) = IF f \in H THEN Cardinality(H) ELSE Cardinality(H) + 1
    BY <1>2, <1>5, <1>7, FS_AddElement
  <2>2. Cardinality(G) \in Nat /\ Cardinality(G) <= Cardinality(H) + 1
    BY <1>3, <2>1
  <2> QED
    BY <1>3, <1>7, <2>2 DEF G, H, gd
<1> QED
  BY <1>6, <1>7

\* So what the steps take for granted holds.
LEMMA Counted == Counting
<1>1. ASSUME NEW p, \E f \in Numbers : p.fd[f].kind = "free" PROVE FreeLowest(p)
  BY <1>1, LowestFound DEF FreeLowest
<1>2. ASSUME NEW p, NEW a, NEW b, p.fd \in Tables, p.streams \in Seq(Numbers), Rows(p), InUse(p, a, b)
      PROVE  FreeLowest(p)
  BY <1>2, RoomLeft, Zenon DEF FreeLowest, InUse
<1>3. ASSUME NEW fd \in Tables, NEW f \in Numbers, NEW e PROVE HostsGrow(fd, f, e)
  BY <1>3, HostsBounded DEF HostsGrow
<1> QED
  BY <1>1, <1>2, <1>3 DEF Counting

Afresh == conf \in Setups /\ sv = NewServer /\ cl = NewClient /\ net = Quiet

\* What the two sides have when the set-up begins.
LEMMA InitOwns == Afresh => OwnInv
<1> SUFFICES ASSUME Afresh PROVE OwnInv
  OBVIOUS
<1> USE DEF Afresh
<1>1. /\ 1 \in Numbers /\ 0 \in 0..Stranger /\ <<>> \in Seq(Numbers) /\ <<>> \in Seq(Conns)
      /\ 0 \in 0..MaxFaults /\ Len(<<>>) = 0 /\ Held(<<>>) = {} /\ Distinct(<<>>)
  BY SetUpTypes, EmptyHeld DEF Numbers
<1>2. Unused \in [kind : Kinds, peer : 0..Stranger] /\ Unused.kind = "free"
  BY <1>1 DEF Unused, Entry, Kinds
<1>3. Entry("listener", 0) \in [kind : Kinds, peer : 0..Stranger] /\ Entry("listener", 0).kind = "listener"
  BY <1>1 DEF Entry, Kinds
<1>4. sv.fd \in Tables /\ cl.fd \in Tables
  BY <1>2, <1>3 DEF NewServer, NewClient, Tables
<1>5. /\ \A f \in Numbers : cl.fd[f].kind = "free"
      /\ sv.fd[1].kind = "listener" /\ \A f \in Numbers : f # 1 => sv.fd[f].kind = "free"
  BY <1>1, <1>2, <1>3 DEF NewServer, NewClient
<1>6. HostsOf(sv.fd) = {} /\ HostsOf(cl.fd) = {}
  BY <1>5 DEF HostsOf
<1>7. Rows(sv) /\ Rows(cl)
  <2>1. sv.streams = <<>> /\ cl.streams = <<>>
    BY DEF NewServer, NewClient
  <2>2. Cardinality({}) = 0
    BY FS_EmptySet
  <2> QED
    BY <1>1, <1>6, <2>1, <2>2, SetUpTypes DEF Rows
<1>8. sv \in ServerRecords /\ cl \in ClientRecords /\ net \in Links
  <2>1. sv \in ServerRecords
    BY <1>1, <1>4 DEF NewServer, ServerRecords, ServerPcs, Errors
  <2>2. cl \in ClientRecords
    BY <1>1, <1>4 DEF NewClient, ClientRecords, ClientPcs, Errors
  <2>3. net \in Links
    BY <1>1 DEF Quiet, Links
  <2> QED
    BY <2>1, <2>2, <2>3
<1>9. ServerOwns /\ ServerHolds
  <2>1. /\ sv.pc = "listen" /\ sv.listener = 1 /\ sv.prot = 0 /\ sv.streams = <<>>
        /\ sv.foreign = FALSE
    BY DEF NewServer
  <2>2. ServerOwns
    BY <1>1, <1>5, <1>7, <2>1, SetUpTypes DEF ServerOwns
  <2>3. ServerHolds
    BY <1>5, <2>1 DEF ServerHolds, Pending
  <2> QED
    BY <2>2, <2>3
<1>10. ClientOwns
  <2>1. cl.pc = "wait" /\ cl.s = 0 /\ cl.streams = <<>> /\ cl.foreign = FALSE
    BY DEF NewClient
  <2> QED
    BY <1>1, <1>5, <1>7, <2>1, SetUpTypes DEF ClientOwns
<1> QED
  BY <1>8, <1>9, <1>10 DEF OwnInv, ServerInv, ClientInv

\* Every step of the set-up keeps the invariant.
LEMMA OwnStays == /\ ServerInv /\ UNCHANGED <<conf, sv>> => ServerInv'
                  /\ ClientInv /\ UNCHANGED cl => ClientInv'
<1>1. ServerInv /\ UNCHANGED <<conf, sv>> => ServerInv'
  BY ZenonT(30) DEF ServerInv, ServerOwns, ServerHolds, Rows
<1>2. ClientInv /\ UNCHANGED cl => ClientInv'
  BY ZenonT(30) DEF ClientInv, ClientOwns, Rows
<1> QED
  BY <1>1, <1>2

\* Every step keeps the invariant.
LEMMA OwnStep == ASSUME OwnInv, [SetUpNext]_all PROVE OwnInv'
<1>1. CASE UNCHANGED <<conf, sv, cl, net>>
  <2>1. UNCHANGED <<conf, sv>> /\ UNCHANGED cl /\ net' = net
    BY <1>1
  <2> QED
    BY <2>1, OwnStays DEF OwnInv
<1>2. CASE SetUpNext
  <2>1. net' \in Links
    BY <1>2, LinksKept DEF OwnInv
  <2>2. CASE ServerStep \/ StopServer
    BY <2>1, <2>2, Counted, ServerStepOwns DEF OwnInv
  <2>3. CASE ClientStep
    BY <2>1, <2>3, Counted, ClientStepOwns DEF OwnInv
  <2>4. CASE HostOpensOne
    <3>1. conf' = conf /\ ServerInv /\ ClientInv
      BY <2>4 DEF HostOpensOne, OwnInv
    <3>2. CASE Opens(sv) /\ sv' = Opened(sv, "host", 0) /\ UNCHANGED cl
      <4>1. ServerInv'
        BY <3>1, <3>2, Counted, HostOpensOwns
      <4>2. ClientInv'
        BY <3>1, <3>2, OwnStays
      <4> QED
        BY <2>1, <4>1, <4>2 DEF OwnInv
    <3>3. CASE Opens(cl) /\ cl' = Opened(cl, "host", 0) /\ UNCHANGED sv
      <4>1. ClientInv'
        BY <3>1, <3>3, Counted, HostOpensClientOwns
      <4>2. ServerInv'
        BY <3>1, <3>3, OwnStays
      <4> QED
        BY <2>1, <4>1, <4>2 DEF OwnInv
    <3> QED
      BY <2>4, <3>2, <3>3 DEF HostOpensOne
  <2>5. CASE Arrive \/ Disturb
    <3>1. UNCHANGED <<conf, sv>> /\ UNCHANGED cl
      BY <2>5, Zenon DEF Arrive, Disturb
    <3> QED
      BY <2>1, <3>1, OwnStays DEF OwnInv
  <2>6. CASE HandOver
    <3>1. Afresh'
      BY <2>6 DEF HandOver, OwnInv, ServerInv, Afresh, NewServer, NewClient, Quiet
    <3> QED
      BY <3>1, InitOwns, PTL
  <2>7. CASE Work(Next)
    BY <1>1, <2>7 DEF Work, setUpVars
  <2> QED
    BY <1>2, <2>2, <2>3, <2>4, <2>5, <2>6, <2>7 DEF SetUpNext
<1> QED
  BY <1>1, <1>2 DEF all, setUpVars

\* The parts of the invariant that the runs check.
LEMMA OwnImplies == OwnInv => SetUpOwnsDescriptors
<1> SUFFICES ASSUME OwnInv PROVE SetUpOwnsDescriptors
  OBVIOUS
<1>1. SetUpTypeOK
  BY DEF OwnInv, ServerInv, ClientInv, ServerRecords, ClientRecords, Links, ServerOwns, ClientOwns,
     Rows,
         SetUpTypeOK
<1>2. \A i, j \in 1..Len(sv.streams) : i # j => sv.streams[i] # sv.streams[j]
  BY DEF OwnInv, ServerInv, ServerOwns, Rows, Distinct
<1>3. /\ sv.listener # 0 => sv.fd[sv.listener].kind = "listener"
      /\ sv.prot \notin {0, sv.listener} => sv.fd[sv.prot].kind = "udp"
      /\ sv.foreign => sv.reused
      /\ ~cl.foreign
  BY DEF OwnInv, ServerInv, ServerOwns, ClientInv, ClientOwns
<1>4. sv.pc = "out" =>
         \A f \in Numbers : sv.fd[f].kind \in {"free", "host"} \/ (f = sv.s /\ sv.err \in Forgets)
  BY EmptyHeld, NoZero DEF OwnInv, ServerInv, ServerHolds, Pending
<1>5. cl.pc = "closed" => \A f \in Numbers : cl.fd[f].kind \in {"free", "host"}
  BY EmptyHeld, NoZero DEF OwnInv, ClientInv, ClientOwns
<1> QED
  BY <1>1, <1>2, <1>3, <1>4, <1>5 DEF SetUpOwnsDescriptors

\* For any number of streams, whatever fails and whoever else opens descriptors or
\* connects, the numbers the set-up holds are its own, it closes none of the host's,
\* and what fails leaves nothing open but the socket the server forgets.
THEOREM SetUpIsSound == SetUpSpec => []SetUpOwnsDescriptors
<1>1. SetUpInit => OwnInv
  BY InitOwns DEF SetUpInit, Afresh
<1>2. OwnInv /\ [SetUpNext]_all => OwnInv'
  BY OwnStep
<1>3. OwnInv => SetUpOwnsDescriptors
  BY OwnImplies
<1> QED
  BY <1>1, <1>2, <1>3, PTL DEF SetUpSpec

\* Two sequences of one length with the same elements in the same places are one.
LEMMA SameSeq ==
    ASSUME NEW S, NEW s \in Seq(S), NEW t \in Seq(S), Len(s) = Len(t), \A i \in 1..Len(s) : s[i] = t[i]
    PROVE  s = t
OBVIOUS

-----------------------------------------------------------------------------
\* The pairing of the streams, as relations between P, the peers of the server's
\* streams, hand, what it has accepted since, C, those that wait in the backlog, D,
\* those on their way to it, and b, how many the client has begun.

\* Over TCP no connection of the client is in two places, and one that has been
\* denied is in none.
Apart(C) == \A i, j \in 1..Len(C) : i # j /\ C[i] # Stranger => C[i] # C[j]
Nowhere(k, P, hand, C, D) == k \notin Held(P) /\ k \notin hand /\ k \notin Held(C) /\ k \notin D
Once(P, hand, C, D, b, denied) ==
    /\ Distinct(P) /\ Apart(C)
    /\ \A k \in Held(P) : k \in 1..b /\ k \notin hand /\ k \notin Held(C) /\ k \notin D
    /\ \A k \in hand \ {Stranger} : k \in 1..b /\ k \notin Held(C) /\ k \notin D
    /\ \A k \in Held(C) \ {Stranger} : k \in 1..b /\ k \notin D
    /\ \A k \in D : k \in 1..b
    /\ denied => \E k \in 1..b : Nowhere(k, P, hand, C, D)

\* As long as none was late or denied they come in their order.
Rising(C) == \A i, j \in 1..Len(C) : i < j /\ C[i] # Stranger /\ C[j] # Stranger => C[i] < C[j]
Ordered(P, hand, C, D, b) ==
    /\ \A i \in 1..Len(P) : P[i] = i
    /\ \A k \in hand \ {Stranger} : k = Len(P) + 1
    /\ D = {} /\ Rising(C)
    /\ \A k \in 1..b : k \in Held(P) \/ k \in hand \/ k \in Held(C)

\* Over UDP the client begins the next stream when the last one has been accepted,
\* so they come in their order unless a stranger takes the place of one.
InTurn(P, hand, hello, reply, b, waiting) ==
    /\ \A k \in 1..b : k < b \/ ~waiting => k \in Held(P) \/ k \in hand
    /\ \A k \in reply : k \in Held(P) \/ k \in hand
    /\ \A k \in hello \ {Stranger} : k \notin Held(P) /\ k \notin hand /\ k = b /\ waiting
    /\ \A k \in (Held(P) \cup hand) \ {Stranger} : k \in 1..b
    /\ Stranger \notin Held(P) =>
         /\ \A i \in 1..Len(P) : P[i] = i
         /\ \A k \in hand \ {Stranger} : k = Len(P) + 1

Ids == 1..Stranger

\* The backlog grows at its end.
LEMMA QueueAppend ==
    ASSUME NEW C \in Seq(Ids), NEW x \in Ids
    PROVE  /\ Append(C, x) \in Seq(Ids) /\ Held(Append(C, x)) = Held(C) \cup {x}
           /\ Apart(C) /\ (x = Stranger \/ x \notin Held(C)) => Apart(Append(C, x))
           /\ Rising(C) /\ (x = Stranger \/ \A y \in Held(C) \ {Stranger} : y < x) =>
                Rising(Append(C, x))
<1> DEFINE E == Append(C, x)
<1>1. E \in Seq(Ids) /\ Held(E) = Held(C) \cup {x}
  BY AppendHeld
<1>2. /\ Len(E) = Len(C) + 1 /\ Len(C) \in Nat /\ E[Len(C) + 1] = x
      /\ \A i \in 1..Len(C) : E[i] = C[i]
  OBVIOUS
<1> HIDE DEF E
<1>3. \A i \in 1..Len(E) : i \in 1..Len(C) \/ i = Len(C) + 1
  BY <1>2
<1>4. \A i \in 1..Len(C) : C[i] \in Held(C)
  BY DEF Held
<1>5. Apart(C) /\ (x = Stranger \/ x \notin Held(C)) => Apart(E)
  BY <1>2, <1>3, <1>4 DEF Apart
<1>6. \A i, j \in 1..Len(E) : i < j => i \in 1..Len(C)
  BY <1>2, <1>3
<1>7. Rising(C) /\ (x = Stranger \/ \A y \in Held(C) \ {Stranger} : y < x) => Rising(E)
  BY <1>2, <1>3, <1>4, <1>6 DEF Rising
<1> QED
  BY <1>1, <1>5, <1>7 DEF E

\* It is served from its head.
LEMMA QueueTail ==
    ASSUME NEW C \in Seq(Ids), C # <<>>
    PROVE  /\ Tail(C) \in Seq(Ids) /\ Head(C) \in Ids /\ Held(C) = Held(Tail(C)) \cup {Head(C)}
           /\ Apart(C) => Apart(Tail(C)) /\ (Head(C) # Stranger => Head(C) \notin Held(Tail(C)))
           /\ Rising(C) => /\ Rising(Tail(C))
                           /\ Head(C) # Stranger =>
                                \A y \in Held(Tail(C)) \ {Stranger} : Head(C) < y
<1> DEFINE E == Tail(C)
<1>1. /\ E \in Seq(Ids) /\ Len(E) = Len(C) - 1 /\ Len(C) \in Nat /\ Len(C) >= 1
      /\ Head(C) = C[1] /\ C[1] \in Ids /\ \A i \in 1..Len(E) : E[i] = C[i + 1]
  OBVIOUS
<1> HIDE DEF E
<1>2. \A i \in 1..Len(C) : i = 1 \/ (i - 1 \in 1..Len(E) /\ E[i - 1] = C[i])
  BY <1>1
<1>3. \A i \in 1..Len(E) : i + 1 \in 1..Len(C) /\ i + 1 # 1 /\ 1 < i + 1
  BY <1>1
<1>4. 1 \in 1..Len(C)
  BY <1>1
<1>5. Held(C) = Held(E) \cup {C[1]}
  BY <1>1, <1>2, <1>3, <1>4 DEF Held
<1>6. Apart(C) => Apart(E)
  BY <1>1, <1>3 DEF Apart
<1>7. Apart(C) /\ C[1] # Stranger => C[1] \notin Held(E)
  BY <1>1, <1>3, <1>4 DEF Apart, Held
<1>8. Rising(C) => Rising(E)
  <2>1. \A i, j \in 1..Len(E) : i < j => i + 1 < j + 1
    BY <1>1
  <2> QED
    BY <1>1, <1>3, <2>1 DEF Rising
<1>9. Rising(C) /\ C[1] # Stranger => \A y \in Held(E) \ {Stranger} : C[1] < y
  BY <1>1, <1>3, <1>4 DEF Rising, Held
<1> QED
  BY <1>1, <1>5, <1>6, <1>7, <1>8, <1>9 DEF E

\* The client begins one more connection, which waits or is late.
LEMMA OnceDials ==
    ASSUME NEW P, NEW hand, NEW C \in Seq(Ids), NEW D, NEW b \in Nat, b < N, NEW denied,
           Once(P, hand, C, D, b, denied)
    PROVE  /\ Once(P, hand, Append(C, b + 1), D, b + 1, denied)
           /\ Once(P, hand, C, D \cup {b + 1}, b + 1, denied)
           /\ Ordered(P, hand, C, D, b) => Ordered(P, hand, Append(C, b + 1), D, b + 1)
<1> DEFINE c == b + 1
<1>1. /\ c \in Ids /\ c # Stranger /\ c \notin 1..b /\ c \in 1..c /\ \A k \in 1..b : k \in 1..c /\ k < c
      /\ \A k \in 1..c : k \in 1..b \/ k = c
  BY SetUpTypes DEF Ids, Stranger
<1> HIDE DEF c
<1>2. c \notin Held(P) /\ c \notin hand /\ c \notin Held(C) /\ c \notin D
  BY <1>1 DEF Once
<1>3. /\ Held(Append(C, c)) = Held(C) \cup {c}
      /\ Apart(C) => Apart(Append(C, c))
      /\ Rising(C) /\ (\A y \in Held(C) \ {Stranger} : y < c) => Rising(Append(C, c))
  BY <1>1, <1>2, QueueAppend
<1>4. Once(P, hand, Append(C, c), D, c, denied)
  BY <1>1, <1>2, <1>3 DEF Once, Nowhere
<1>5. Once(P, hand, C, D \cup {c}, c, denied)
  BY <1>1, <1>2 DEF Once, Nowhere
<1>6. ASSUME Ordered(P, hand, C, D, b) PROVE Ordered(P, hand, Append(C, c), D, c)
  <2>1. \A y \in Held(C) \ {Stranger} : y < c
    BY <1>1 DEF Once
  <2> QED
    BY <1>1, <1>3, <1>6, <2>1 DEF Ordered
<1> QED
  BY <1>4, <1>5, <1>6 DEF c

\* The server accepts the first that waits.
LEMMA OnceAccepts ==
    ASSUME NEW P, NEW C \in Seq(Ids), C # <<>>, NEW D, NEW b \in Nat, NEW denied,
           Once(P, {}, C, D, b, denied)
    PROVE  Once(P, {Head(C)}, Tail(C), D, b, denied)
<1>1. /\ Held(C) = Held(Tail(C)) \cup {Head(C)} /\ Apart(Tail(C))
      /\ Head(C) # Stranger => Head(C) \notin Held(Tail(C))
  BY QueueTail DEF Once
<1>2. Stranger \notin Held(P) \/ ~(Head(C) = Stranger)
  BY <1>1 DEF Once
<1>3. \A k \in 1..b : Nowhere(k, P, {}, C, D) => Nowhere(k, P, {Head(C)}, Tail(C), D)
  BY <1>1 DEF Nowhere
<1> QED
  BY <1>1, <1>2, <1>3, Zenon DEF Once

\* In their order the first that waits is the next one.
LEMMA OrderedAccepts ==
    ASSUME NEW P \in Seq(0..Stranger), NEW C \in Seq(Ids), C # <<>>, NEW D, NEW b \in Nat, NEW denied,
           Once(P, {}, C, D, b, denied), Ordered(P, {}, C, D, b)
    PROVE  Ordered(P, {Head(C)}, Tail(C), D, b)
<1>1. /\ Held(C) = Held(Tail(C)) \cup {Head(C)} /\ Rising(Tail(C)) /\ Head(C) \in Ids
      /\ Head(C) # Stranger => \A y \in Held(Tail(C)) \ {Stranger} : Head(C) < y
  BY QueueTail DEF Ordered
<1>2. PICK h \in Ids : h = Head(C)
  BY <1>1
<1>3. ASSUME h # Stranger PROVE h = Len(P) + 1
  <2>1. h \in 1..b /\ h \notin Held(P)
    BY <1>1, <1>2, <1>3 DEF Once
  <2>2. Len(P) \in Nat /\ \A i \in 1..Len(P) : i \in Held(P)
    BY DEF Ordered, Held
  <2>3. PICK n \in Nat : n = Len(P)
    BY <2>2
  <2>4. h > n
    BY <2>1, <2>2, <2>3
  <2>5. n + 1 \in 1..b
    BY <2>1, <2>3, <2>4
  <2>6. n + 1 \notin Held(P)
    <3>1. \A i \in 1..n : P[i] = i /\ i # n + 1
      BY <2>3 DEF Ordered
    <3> QED
      BY <2>3, <3>1 DEF Held
  <2>7. n + 1 \in Held(C)
    BY <2>5, <2>6 DEF Ordered
  <2>8. ~(n + 1 \in Held(Tail(C)) /\ n + 1 # Stranger)
    BY <1>1, <1>2, <1>3, <2>1, <2>3, <2>4
  <2>9. n + 1 # Stranger
    BY <1>3, <2>4, SetUpTypes DEF Ids
  <2> QED
    BY <1>1, <1>2, <2>3, <2>7, <2>8, <2>9
<1>4. \A k \in 1..b : k \in Held(P) \/ k \in {h} \/ k \in Held(Tail(C))
  BY <1>1, <1>2 DEF Ordered
<1> QED
  BY <1>1, <1>2, <1>3, <1>4 DEF Ordered

\* What is in hand is refused, or becomes a stream.
LEMMA OnceGoesOn ==
    ASSUME NEW P \in Seq(0..Stranger), NEW k \in 0..Stranger, NEW C \in Seq(Ids), NEW D, NEW b \in Nat,
           NEW denied \in BOOLEAN, Once(P, {k}, C, D, b, denied)
    PROVE  /\ Once(P, {}, C, D, b, denied)
           /\ k # Stranger => Once(P, {}, C, D, b, TRUE)
           /\ k # Stranger => Once(Append(P, k), {}, C, D, b, denied)
           /\ Ordered(P, {k}, C, D, b) =>
                /\ k = Stranger /\ Stranger \notin 1..b => Ordered(P, {}, C, D, b)
                /\ k # Stranger => Ordered(Append(P, k), {}, C, D, b)
<1>1. Once(P, {}, C, D, b, denied)
  BY DEF Once, Nowhere
<1>2. ASSUME k # Stranger PROVE k \in 1..b /\ Nowhere(k, P, {}, C, D)
  BY <1>2 DEF Once, Nowhere
<1>3. k # Stranger => Once(P, {}, C, D, b, TRUE)
  BY <1>1, <1>2 DEF Once
<1>4. /\ Len(Append(P, k)) = Len(P) + 1 /\ Held(Append(P, k)) = Held(P) \cup {k}
      /\ Distinct(P) /\ k \notin Held(P) => Distinct(Append(P, k))
  <2> DEFINE S == 0..Stranger
  <2>1. P \in Seq(S) /\ k \in S
    OBVIOUS
  <2> HIDE DEF S
  <2> QED
    BY <2>1, AppendHeld
<1>5. ASSUME k # Stranger PROVE Once(Append(P, k), {}, C, D, b, denied)
  <2>1. Distinct(Append(P, k))
    BY <1>2, <1>4, <1>5 DEF Once, Nowhere
  <2>2. denied => \E j \in 1..b : Nowhere(j, Append(P, k), {}, C, D)
    BY <1>4 DEF Once, Nowhere
  <2>3. k \in 1..b /\ k \notin Held(C) /\ k \notin D
    BY <1>2, <1>5 DEF Nowhere
  <2> QED
    BY <1>4, <2>1, <2>2, <2>3 DEF Once
<1>6. ASSUME Ordered(P, {k}, C, D, b), k = Stranger, Stranger \notin 1..b
      PROVE  Ordered(P, {}, C, D, b)
  BY <1>6 DEF Ordered
<1>7. ASSUME Ordered(P, {k}, C, D, b), k # Stranger PROVE Ordered(Append(P, k), {}, C, D, b)
  <2>1. k = Len(P) + 1 /\ \A i \in 1..Len(P) : P[i] = i
    BY <1>7 DEF Ordered
  <2>2. Append(P, k)[Len(P) + 1] = k /\ \A i \in 1..Len(P) : Append(P, k)[i] = P[i]
    OBVIOUS
  <2>3. \A i \in 1..Len(Append(P, k)) : i \in 1..Len(P) \/ i = Len(P) + 1
    BY <1>4
  <2>4. \A i \in 1..Len(Append(P, k)) : Append(P, k)[i] = i
    BY <2>1, <2>2, <2>3
  <2> QED
    BY <1>4, <1>7, <2>4 DEF Ordered
<1> QED
  BY <1>1, <1>3, <1>5, <1>6, <1>7, ZenonT(30)

\* A late one arrives, a stranger connects, or the listener is closed.
LEMMA OnceQueues ==
    ASSUME NEW P, NEW hand, NEW C \in Seq(Ids), NEW D \in SUBSET Streams, NEW b \in Nat, NEW denied,
           Once(P, hand, C, D, b, denied)
    PROVE  /\ \A k \in D : Once(P, hand, Append(C, k), D \ {k}, b, denied)
           /\ Stranger \notin 1..b => Once(P, hand, Append(C, Stranger), D, b, denied)
           /\ Once(P, hand, <<>>, {}, b, denied)
           /\ Ordered(P, hand, C, D, b) => Ordered(P, hand, Append(C, Stranger), D, b)
<1>1. ASSUME NEW k \in D PROVE Once(P, hand, Append(C, k), D \ {k}, b, denied)
  <2>1. k \in Ids /\ k # Stranger
    BY SetUpTypes DEF Streams, Ids, Stranger
  <2>2. k \in 1..b /\ k \notin Held(P) /\ k \notin hand /\ k \notin Held(C)
    BY <2>1 DEF Once
  <2>3. Held(Append(C, k)) = Held(C) \cup {k} /\ Apart(Append(C, k))
    BY <2>1, <2>2, QueueAppend DEF Once
  <2>4. \A j \in 1..b : Nowhere(j, P, hand, C, D) => Nowhere(j, P, hand, Append(C, k), D \ {k})
    BY <1>1, <2>3 DEF Nowhere
  <2> QED
    BY <2>2, <2>3, <2>4, Zenon DEF Once
<1>2. Stranger \in Ids
  BY SetUpTypes DEF Ids, Stranger
<1>3. /\ Held(Append(C, Stranger)) = Held(C) \cup {Stranger} /\ Apart(Append(C, Stranger))
      /\ Rising(C) => Rising(Append(C, Stranger))
  BY <1>2, QueueAppend DEF Once
<1>4. ASSUME Stranger \notin 1..b PROVE Once(P, hand, Append(C, Stranger), D, b, denied)
  <2>1. \A j \in 1..b : Nowhere(j, P, hand, C, D) => Nowhere(j, P, hand, Append(C, Stranger), D)
    BY <1>3, <1>4 DEF Nowhere
  <2> QED
    BY <1>3, <1>4, <2>1 DEF Once
<1>5. Once(P, hand, <<>>, {}, b, denied)
  <2>1. Held(<<>>) = {} /\ Apart(<<>>)
    BY EmptyHeld DEF Apart
  <2> QED
    BY <2>1 DEF Once, Nowhere
<1>6. Ordered(P, hand, C, D, b) => Ordered(P, hand, Append(C, Stranger), D, b)
  BY <1>3 DEF Ordered
<1> QED
  BY <1>1, <1>4, <1>5, <1>6

\* As many streams as the client has are all of them.
LEMMA OnceAll ==
    ASSUME NEW P \in Seq(0..Stranger), Len(P) = N, NEW hand, NEW C, NEW D, NEW b \in 0..N, NEW denied,
           Once(P, hand, C, D, b, denied)
    PROVE  Held(P) = Streams /\ ~denied
<1>1. Held(P) \in SUBSET Streams
  BY SetUpTypes DEF Once, Streams
<1>2. IsFiniteSet(Streams) /\ Cardinality(Streams) = N
  <2>1. N \in Int /\ 1 \in Int /\ ~(1 > N) /\ N - 1 + 1 = N
    BY SetUpTypes
  <2> QED
    BY <2>1, FS_Interval DEF Streams
<1>3. P \in [Streams -> Held(P)] /\ \A f \in Held(P) : \E i \in Streams : P[i] = f
  BY DEF Held, Streams
<1>4. \A i, j \in Streams : i # j => P[i] # P[j]
  BY DEF Once, Distinct, Streams
<1>5. ExistsBijection(Streams, Held(P))
  <2>1. P \in Surjection(Streams, Held(P))
    BY <1>3, Zenon DEF Surjection
  <2>2. P \in Injection(Streams, Held(P))
    <3>1. DOMAIN P = Streams
      BY <1>3
    <3> QED
      BY <1>3, <1>4, <3>1, Zenon DEF Injection, IsInjective
  <2> QED
    BY <2>1, <2>2, Zenon DEF ExistsBijection, Bijection
<1>6. Cardinality(Held(P)) = N
  BY <1>2, <1>5, FS_Bijection
<1>7. Streams = Held(P)
  BY <1>1, <1>2, <1>6, FS_Subset
<1>8. \A k \in 1..b : k \in Streams
  BY SetUpTypes DEF Streams
<1> QED
  BY <1>7, <1>8 DEF Once, Nowhere

\* Over UDP the client sends the first datagram of its next stream.
LEMMA TurnBegins ==
    ASSUME NEW P, NEW hand, NEW hello, NEW reply, NEW b \in Nat, b < N,
           InTurn(P, hand, hello, reply, b, FALSE)
    PROVE  InTurn(P, hand, hello \cup {b + 1}, reply, b + 1, TRUE)
<1>1. /\ b + 1 # Stranger /\ b + 1 \notin 1..b /\ \A k \in 1..b : k \in 1..(b + 1)
      /\ \A k \in 1..(b + 1) : k < b + 1 => k \in 1..b
  BY SetUpTypes DEF Stranger
<1>2. hello \subseteq {Stranger}
  BY DEF InTurn
<1>3. b + 1 \notin Held(P) /\ b + 1 \notin hand
  BY <1>1 DEF InTurn
<1>4. \A k \in (hello \cup {b + 1}) \ {Stranger} : k = b + 1
  BY <1>2
<1> QED
  BY <1>1, <1>3, <1>4 DEF InTurn

\* The reply has come.
LEMMA TurnEnds ==
    ASSUME NEW P, NEW hand, NEW hello, NEW reply, NEW b \in Nat, b \in reply, b # Stranger,
           InTurn(P, hand, hello, reply, b, TRUE)
    PROVE  InTurn(P, hand, hello, reply \ {b}, b, FALSE)
<1>1. b \in Held(P) \/ b \in hand
  BY DEF InTurn
<1>2. \A k \in 1..b : k < b \/ k = b
  OBVIOUS
<1>3. \A k \in hello \ {Stranger} : FALSE
  BY <1>1 DEF InTurn
<1> QED
  BY <1>1, <1>2, <1>3 DEF InTurn

\* The server takes a datagram as the peer of its socket.
LEMMA TurnAccepts ==
    ASSUME NEW P \in Seq(0..Stranger), NEW hello, NEW reply, NEW b \in Nat, NEW waiting, NEW k \in hello,
           InTurn(P, {}, hello, reply, b, waiting), hello \subseteq Ids, \A j \in reply : j \in Streams
    PROVE  InTurn(P, {k}, hello \ {k}, reply, b, waiting)
<1>1. \A j \in hello \ {Stranger} : j \notin Held(P) /\ j = b /\ waiting
  BY DEF InTurn
<1>2. \A j \in hello \ {k} : j # Stranger => j \notin Held(P) /\ j \notin {k} /\ j = b /\ waiting
  BY <1>1
<1>3. k # Stranger => k \in 1..b
  <2>1. k \in Nat \ {0}
    BY SetUpTypes DEF Ids, Stranger
  <2> QED
    BY <1>1, <2>1
<1>4. ASSUME k # Stranger, Stranger \notin Held(P) PROVE k = Len(P) + 1
  <2>1. k = b /\ waiting /\ k \notin Held(P) /\ k \in 1..b
    BY <1>1, <1>3, <1>4
  <2>2. /\ Len(P) \in Nat /\ \A i \in 1..Len(P) : P[i] = i /\ i \in Held(P)
    BY <1>4 DEF InTurn, Held
  <2>3. \A i \in Held(P) : i \in 1..Len(P)
    BY <2>2 DEF Held
  <2>4. PICK n \in Nat : n = Len(P)
    BY <2>2
  <2>5. \A i \in 1..b : i < b => i \in 1..n
    BY <2>3, <2>4 DEF InTurn
  <2>6. b \notin 1..n
    BY <2>1, <2>2, <2>4
  <2>7. b > n
    BY <2>1, <2>4, <2>6
  <2>8. ~(n + 1 < b)
    BY <2>4, <2>5
  <2> QED
    BY <2>1, <2>4, <2>7, <2>8
<1> QED
  BY <1>2, <1>3, <1>4 DEF InTurn

\* It answers, and makes a stream of it.
LEMMA TurnGoesOn ==
    ASSUME NEW P \in Seq(0..Stranger), NEW k \in 0..Stranger, NEW hello, NEW reply, NEW b \in Nat,
           NEW waiting, InTurn(P, {k}, hello, reply, b, waiting)
    PROVE  /\ InTurn(P, {k}, hello, reply \cup ({k} \ {Stranger}), b, waiting)
           /\ InTurn(Append(P, k), {}, hello, reply, b, waiting)
<1>1. Len(Append(P, k)) = Len(P) + 1 /\ Held(Append(P, k)) = Held(P) \cup {k}
  <2> DEFINE S == 0..Stranger
  <2>1. P \in Seq(S) /\ k \in S
    OBVIOUS
  <2> HIDE DEF S
  <2> QED
    BY <2>1, AppendHeld
<1>2. InTurn(P, {k}, hello, reply \cup ({k} \ {Stranger}), b, waiting)
  BY DEF InTurn
<1>3. ASSUME Stranger \notin Held(Append(P, k)) PROVE \A i \in 1..Len(Append(P, k)) : Append(P, k)[i] = i
  <2>1. k # Stranger /\ Stranger \notin Held(P)
    BY <1>1, <1>3
  <2>2. k = Len(P) + 1 /\ \A i \in 1..Len(P) : P[i] = i
    BY <2>1 DEF InTurn
  <2>3. Append(P, k)[Len(P) + 1] = k /\ \A i \in 1..Len(P) : Append(P, k)[i] = P[i]
    OBVIOUS
  <2>4. \A i \in 1..Len(Append(P, k)) : i \in 1..Len(P) \/ i = Len(P) + 1
    BY <1>1
  <2> QED
    BY <2>2, <2>3, <2>4
<1>4. InTurn(Append(P, k), {}, hello, reply, b, waiting)
  BY <1>1, <1>3 DEF InTurn
<1> QED
  BY <1>2, <1>4

\* A datagram is lost, or a stranger's comes.
LEMMA TurnDisturbed ==
    ASSUME NEW P, NEW hand, NEW hello, NEW reply, NEW b, NEW waiting,
           InTurn(P, hand, hello, reply, b, waiting)
    PROVE  /\ InTurn(P, hand, hello \cup {Stranger}, reply, b, waiting)
           /\ \A k : InTurn(P, hand, hello \ {k}, reply, b, waiting)
           /\ \A k : InTurn(P, hand, hello, reply \ {k}, b, waiting)
BY DEF InTurn

\* When both have as many as there are, they are the same ones, in the same order.
LEMMA TurnAll ==
    ASSUME NEW P \in Seq(0..Stranger), Len(P) = N, NEW hello, NEW reply,
           InTurn(P, {}, hello, reply, N, FALSE)
    PROVE  Held(P) = Streams /\ \A k \in Streams : P[k] = k
<1>1. \A k \in Streams : k \in Held(P)
  BY DEF InTurn, Streams
<1>2. IsFiniteSet(Held(P)) /\ Cardinality(Held(P)) <= N /\ Cardinality(Held(P)) \in Nat
  <2> DEFINE S == 0..Stranger
  <2>1. P \in Seq(S)
    OBVIOUS
  <2> HIDE DEF S
  <2> QED
    BY <2>1, HeldFew
<1>3. Cardinality(Streams) = N
  <2>1. N \in Int /\ 1 \in Int /\ ~(1 > N) /\ N - 1 + 1 = N
    BY SetUpTypes
  <2> QED
    BY <2>1, FS_Interval DEF Streams
<1>4. Streams \in SUBSET Held(P)
  BY <1>1
<1>5. /\ Cardinality(Streams) <= Cardinality(Held(P))
      /\ Cardinality(Streams) = Cardinality(Held(P)) => Streams = Held(P)
  BY <1>2, <1>4, FS_Subset
<1>6. Held(P) = Streams
  BY <1>2, <1>3, <1>5, SetUpTypes
<1>7. Stranger \notin Held(P)
  BY <1>6, SetUpTypes DEF Streams, Stranger
<1> QED
  BY <1>6, <1>7 DEF InTurn, Streams

-----------------------------------------------------------------------------
Places(P, hand, C, D, b, late, denied) ==
    /\ Once(P, hand, C, D, b, denied)
    /\ ~late /\ ~denied => Ordered(P, hand, C, D, b)

\* The connections of the client, as it begins them and as they come.
LEMMA PlacesGrow ==
    ASSUME NEW P, NEW hand, NEW C \in Seq(Ids), NEW D \in SUBSET Streams, NEW b \in 0..N,
           NEW late, NEW denied, Places(P, hand, C, D, b, late, denied)
    PROVE  /\ b < N => /\ Places(P, hand, Append(C, b + 1), D, b + 1, late, denied)
                       /\ Places(P, hand, C, D \cup {b + 1}, b + 1, TRUE, denied)
           /\ \A k \in D : Places(P, hand, Append(C, k), D \ {k}, b, late, denied)
           /\ Places(P, hand, Append(C, Stranger), D, b, late, denied)
<1>1. b \in Nat /\ Stranger \notin 1..b
  BY SetUpTypes DEF Stranger
<1>2. /\ Once(P, hand, C, D, b, denied)
      /\ ~late /\ ~denied => Ordered(P, hand, C, D, b)
  BY DEF Places
<1>3. ASSUME b < N
      PROVE  /\ Places(P, hand, Append(C, b + 1), D, b + 1, late, denied)
             /\ Places(P, hand, C, D \cup {b + 1}, b + 1, TRUE, denied)
  BY <1>1, <1>2, <1>3, OnceDials, Zenon DEF Places
<1>4. ASSUME NEW k \in D PROVE Places(P, hand, Append(C, k), D \ {k}, b, late, denied)
  <2>1. Once(P, hand, Append(C, k), D \ {k}, b, denied)
    BY <1>1, <1>2, OnceQueues
  <2>2. ~Ordered(P, hand, C, D, b)
    BY DEF Ordered
  <2> QED
    BY <1>2, <2>1, <2>2 DEF Places
<1>5. Places(P, hand, Append(C, Stranger), D, b, late, denied)
  BY <1>1, <1>2, OnceQueues DEF Places
<1> QED
  BY <1>3, <1>4, <1>5, Zenon

\* The listener is closed: before the client begins, or when all streams are there.
LEMMA PlacesReset ==
    ASSUME NEW P, NEW hand, NEW C \in Seq(Ids), NEW D \in SUBSET Streams, NEW b \in 0..N,
           NEW late, NEW denied, Places(P, hand, C, D, b, late, denied), b = 0 \/ Len(P) = N
    PROVE  Places(P, hand, <<>>, {}, b, late, denied)
<1>1. b \in Nat
  BY SetUpTypes
<1>2. /\ Once(P, hand, C, D, b, denied)
      /\ ~late /\ ~denied => Ordered(P, hand, C, D, b)
  BY DEF Places
<1>3. Once(P, hand, <<>>, {}, b, denied)
  BY <1>1, <1>2, OnceQueues
<1>4. ASSUME Ordered(P, hand, C, D, b) PROVE Ordered(P, hand, <<>>, {}, b)
  <2>1. Rising(<<>>)
    BY DEF Rising
  <2>2. ASSUME NEW k \in 1..b PROVE k \in Held(P)
    <3>1. k \in 1..Len(P) /\ P[k] = k
      BY <1>4, SetUpTypes DEF Ordered
    <3> QED
      BY <3>1 DEF Held
  <2> QED
    BY <1>4, <2>1, <2>2 DEF Ordered
<1> QED
  BY <1>2, <1>3, <1>4 DEF Places

\* The server takes them, refuses them, and makes streams of them.
LEMMA PlacesServe ==
    ASSUME NEW P \in Seq(0..Stranger), NEW C \in Seq(Ids), NEW D, NEW b \in 0..N, NEW late,
           NEW denied \in BOOLEAN
    PROVE  /\ C # <<>> /\ Places(P, {}, C, D, b, late, denied) =>
                Places(P, {Head(C)}, Tail(C), D, b, late, denied)
           /\ Places(P, {Stranger}, C, D, b, late, denied) => Places(P, {}, C, D, b, late, denied)
           /\ \A k \in 0..Stranger : k # Stranger /\ Places(P, {k}, C, D, b, late, denied) =>
                /\ Places(P, {}, C, D, b, late, TRUE)
                /\ Places(Append(P, k), {}, C, D, b, late, denied)
<1>1. b \in Nat /\ Stranger \notin 1..b /\ Stranger \in 0..Stranger
  BY SetUpTypes DEF Stranger
<1>2. ASSUME C # <<>>, Places(P, {}, C, D, b, late, denied)
      PROVE  Places(P, {Head(C)}, Tail(C), D, b, late, denied)
  BY <1>1, <1>2, OnceAccepts, OrderedAccepts DEF Places
<1>3. ASSUME Places(P, {Stranger}, C, D, b, late, denied) PROVE Places(P, {}, C, D, b, late, denied)
  BY <1>1, <1>3, OnceGoesOn, Zenon DEF Places
<1>4. ASSUME NEW k \in 0..Stranger, k # Stranger, Places(P, {k}, C, D, b, late, denied)
      PROVE  /\ Places(P, {}, C, D, b, late, TRUE)
             /\ Places(Append(P, k), {}, C, D, b, late, denied)
  BY <1>1, <1>4, OnceGoesOn, Zenon DEF Places
<1> QED
  BY <1>2, <1>3, <1>4, Zenon

\* The set-up is under way, on both sides, and no number of a refused connection
\* has come back as another one.
Trying == ~Ended /\ cl.pc \notin {"end", "closed"} /\ going /\ ~sv.reused

\* The client begins when it has been told to.
Untold ==
    /\ sv.pc \in {"listen", "announce"} => ~net.told
    /\ ~net.told => cl.pc \in {"wait", "end", "closed"}

\* Over TCP: where the connections are, that those of the client bring the cookie, and
\* that no stranger's becomes a stream.
Cookies(queue) == \A i \in 1..Len(queue) : queue[i].cookie
InPlaces ==
    /\ Places(Peers, Hand, Callers(net.backlog), net.delayed, Begun, net.late, net.denied)
    /\ Cookies(net.backlog)
    /\ sv.pc = "cookie" => sv.cookie
    /\ sv.pc \in {"options", "stream"} => Stranger \notin Hand
Turns == InTurn(Peers, Hand, net.hello, net.reply, Begun, cl.pc = "reply")

PairInv ==
    /\ Untold
    /\ Trying /\ conf.tcp => InPlaces
    /\ Trying /\ ~conf.tcp => Turns

\* The queue by its callers.
LEMMA CallersQueue ==
    ASSUME NEW q \in Seq(Conns)
    PROVE  /\ Callers(q) \in Seq(Ids) /\ Callers(<<>>) = <<>> /\ Cookies(<<>>)
           /\ \A x \in Ids, t \in BOOLEAN :
                /\ Callers(Append(q, [peer |-> x, cookie |-> t])) = Append(Callers(q), x)
                /\ Cookies(q) /\ t => Cookies(Append(q, [peer |-> x, cookie |-> t]))
           /\ q # <<>> =>
                /\ Callers(q) # <<>> /\ Callers(Tail(q)) = Tail(Callers(q))
                /\ Head(Callers(q)) = Head(q).peer
                /\ Cookies(q) => Head(q).cookie /\ Cookies(Tail(q))
<1>1. Len(q) \in Nat /\ \A i \in 1..Len(q) : q[i] \in Conns /\ q[i].peer \in Ids
  <2>1. \A i \in 1..Len(q) : q[i] \in Conns
    OBVIOUS
  <2>2. \A c \in Conns : c.peer \in Ids
    BY DEF Conns, Ids
  <2> QED
    BY <2>1, <2>2
<1>2. Callers(q) \in Seq(Ids) /\ Len(Callers(q)) = Len(q)
      /\ \A i \in 1..Len(q) : Callers(q)[i] = q[i].peer
  BY <1>1 DEF Callers
<1>3. Callers(<<>>) = <<>> /\ Cookies(<<>>)
  BY DEF Callers, Cookies
<1>4. ASSUME NEW x \in Ids, NEW t \in BOOLEAN
      PROVE  /\ Callers(Append(q, [peer |-> x, cookie |-> t])) = Append(Callers(q), x)
             /\ Cookies(q) /\ t => Cookies(Append(q, [peer |-> x, cookie |-> t]))
  <2> DEFINE c == [peer |-> x, cookie |-> t]
  <2>1. c \in Conns /\ c.peer = x /\ c.cookie = t
    BY DEF Conns, Ids
  <2> HIDE DEF c
  <2>2. /\ Append(q, c) \in Seq(Conns) /\ Len(Append(q, c)) = Len(q) + 1 /\ Append(q, c)[Len(q) + 1] = c
        /\ \A i \in 1..Len(q) : Append(q, c)[i] = q[i]
    BY <2>1
  <2>3. \A i \in 1..Len(q) + 1 : i \in 1..Len(q) \/ i = Len(q) + 1
    BY <1>1
  <2>4. Callers(Append(q, c)) = Append(Callers(q), x)
    <3> DEFINE A == Callers(Append(q, c))  B == Append(Callers(q), x)
    <3>1. A \in Seq(Ids) /\ Len(A) = Len(q) + 1 /\ \A i \in 1..Len(q) + 1 : A[i] = Append(q, c)[i].peer
      <4>1. \A i \in 1..Len(q) + 1 : Append(q, c)[i].peer \in Ids
        BY <1>1, <2>1, <2>2, <2>3
      <4> QED
        BY <1>1, <2>2, <4>1 DEF Callers
    <3>2. /\ B \in Seq(Ids) /\ Len(B) = Len(q) + 1 /\ B[Len(q) + 1] = x
          /\ \A i \in 1..Len(q) : B[i] = Callers(q)[i]
      BY <1>2
    <3>3. \A i \in 1..Len(q) + 1 : A[i] = B[i]
      BY <1>2, <2>1, <2>2, <2>3, <3>1, <3>2
    <3> HIDE DEF A, B
    <3> QED
      BY <3>1, <3>2, <3>3, SameSeq DEF A, B
  <2>5. Cookies(q) /\ t => Cookies(Append(q, c))
    BY <2>1, <2>2, <2>3, Zenon DEF Cookies
  <2> QED
    BY <2>4, <2>5 DEF c
<1>5. ASSUME q # <<>>
      PROVE  /\ Callers(q) # <<>> /\ Callers(Tail(q)) = Tail(Callers(q))
             /\ Head(Callers(q)) = Head(q).peer
             /\ Cookies(q) => Head(q).cookie /\ Cookies(Tail(q))
  <2>1. /\ Len(q) >= 1 /\ Tail(q) \in Seq(Conns) /\ Len(Tail(q)) = Len(q) - 1 /\ Head(q) = q[1]
        /\ \A i \in 1..(Len(q) - 1) : Tail(q)[i] = q[i + 1]
    BY <1>1, <1>5
  <2>2. Callers(q) # <<>> /\ Head(Callers(q)) = Head(q).peer
    BY <1>2, <2>1
  <2>3. \A i \in 1..(Len(q) - 1) : i + 1 \in 1..Len(q)
    BY <1>1
  <2>4. Callers(Tail(q)) = Tail(Callers(q))
    <3> DEFINE A == Callers(Tail(q))  B == Tail(Callers(q))
    <3>1. A \in Seq(Ids) /\ Len(A) = Len(q) - 1 /\ \A i \in 1..(Len(q) - 1) : A[i] = q[i + 1].peer
      BY <1>1, <2>1, <2>3 DEF Callers
    <3>2. B \in Seq(Ids) /\ Len(B) = Len(q) - 1 /\ \A i \in 1..(Len(q) - 1) : B[i] = Callers(q)[i + 1]
      BY <1>2, <2>1, <2>2
    <3>3. \A i \in 1..(Len(q) - 1) : A[i] = B[i]
      BY <1>2, <2>3, <3>1, <3>2
    <3> HIDE DEF A, B
    <3> QED
      BY <3>1, <3>2, <3>3, SameSeq DEF A, B
  <2>5. Cookies(q) => Head(q).cookie /\ Cookies(Tail(q))
    BY <2>1, <2>3 DEF Cookies
  <2> QED
    BY <2>2, <2>4, <2>5
<1> QED
  BY <1>2, <1>3, <1>4, <1>5

\* What the views are.
ViewTypes ==
    /\ Peers \in Seq(0..Stranger) /\ Len(Peers) = Len(sv.streams)
    /\ Callers(net.backlog) \in Seq(Ids) /\ net.backlog \in Seq(Conns)
    /\ net.delayed \in SUBSET Streams /\ net.hello \in SUBSET Ids /\ net.reply \in SUBSET Streams
    /\ net.denied \in BOOLEAN /\ net.late \in BOOLEAN /\ net.told \in BOOLEAN
    /\ Begun \in 0..N
    /\ cl.pc \in {"wait", "dial"} => Begun < N /\ This = Begun + 1
    /\ cl.pc \in {"reply", "stream"} => This = Begun /\ Begun # Stranger
    /\ cl.pc = "ready" => Begun = N
    /\ cl.pc = "wait" => Begun = 0
    /\ sv.pc \in {"complete", "restore", "ready"} => Len(Peers) = N
    /\ sv.pc \notin Pending => Hand = {}
    /\ sv.pc = "cookie" => Hand = {sv.fd[sv.s].peer} /\ sv.fd[sv.s].peer \in 0..Stranger

\* They are so when the two sides hold what they should.
LEMMA PairTypes == OwnInv => ViewTypes
<1> SUFFICES ASSUME OwnInv PROVE ViewTypes
  OBVIOUS
<1>1. sv \in ServerRecords /\ ServerOwns /\ ServerHolds /\ cl \in ClientRecords /\ ClientOwns /\ net \in Links
  BY DEF OwnInv, ServerInv, ClientInv
<1>2. /\ sv.streams \in Seq(Numbers) /\ sv.fd \in Tables /\ sv.s \in Numbers \cup {0}
      /\ cl.streams \in Seq(Numbers) /\ cl.pc \in ClientPcs
  BY <1>1 DEF ServerRecords, ClientRecords
<1>3. \A f \in Numbers : sv.fd[f].peer \in 0..Stranger
  BY <1>2 DEF Tables
<1>4. Peers \in Seq(0..Stranger) /\ Len(Peers) = Len(sv.streams)
  <2>1. \A i \in 1..Len(sv.streams) : sv.streams[i] \in Numbers
    BY <1>2
  <2> QED
    BY <1>2, <1>3, <2>1 DEF Peers
<1>5. /\ net.backlog \in Seq(Conns) /\ net.delayed \in SUBSET Streams /\ net.hello \in SUBSET Ids
      /\ net.reply \in SUBSET Streams
      /\ net.denied \in BOOLEAN /\ net.late \in BOOLEAN /\ net.told \in BOOLEAN
  BY <1>1 DEF Links, Ids
<1>6. Callers(net.backlog) \in Seq(Ids)
  BY <1>5, CallersQueue
<1>7. PICK n \in Nat : n = Len(cl.streams)
  BY <1>2
<1>8. /\ n <= N
      /\ cl.pc \in {"wait", "dial", "reply", "stream"} => n < N
      /\ cl.pc = "wait" => n = 0
      /\ cl.pc = "ready" => n = N
      /\ cl.pc \in {"reply", "stream"} <=> cl.s # 0
  BY <1>1, <1>7 DEF ClientOwns, Rows
<1>9. /\ Begun = n + (IF cl.s # 0 THEN 1 ELSE 0) /\ This = n + 1
  BY <1>7 DEF Begun, This
<1>10. /\ Begun \in 0..N
       /\ cl.pc \in {"wait", "dial"} => Begun < N /\ This = Begun + 1
       /\ cl.pc \in {"reply", "stream"} => This = Begun /\ Begun # Stranger
       /\ cl.pc = "ready" => Begun = N
       /\ cl.pc = "wait" => Begun = 0
  BY <1>8, <1>9, SetUpTypes DEF Stranger
<1>11. sv.pc \in {"complete", "restore", "ready"} => Len(Peers) = N
  BY <1>1, <1>4 DEF ServerOwns
<1>12. sv.pc = "cookie" => Hand = {sv.fd[sv.s].peer} /\ sv.fd[sv.s].peer \in 0..Stranger
  BY <1>1, <1>2, <1>3 DEF Hand, ServerHolds, Pending, Sockets
<1>13. sv.pc \notin Pending => Hand = {}
  BY DEF Hand
<1> QED
  BY <1>4, <1>5, <1>6, <1>10, <1>11, <1>12, <1>13 DEF ViewTypes

\* What a client step is to the server.
Stays == Begun' = Begun /\ (cl'.pc = "reply" <=> cl.pc = "reply") /\ net' = net /\ (net.told \/ cl'.pc = cl.pc)
Dials == Begun < N /\ Begun' = Begun + 1 /\ cl.pc = "dial"
ClientView ==
    \/ cl'.pc \in {"end", "closed"} /\ net'.told = net.told
    \/ Stays
    \/ /\ conf.tcp /\ Dials
       /\ \/ net' = Queued(net, Begun + 1, TRUE)
          \/ net' = [net EXCEPT !.faults = @ + 1, !.delayed = @ \cup {Begun + 1}, !.late = TRUE]
    \/ ~conf.tcp /\ Dials /\ cl'.pc = "reply" /\ net' = [net EXCEPT !.hello = @ \cup {Begun + 1}]
    \/ /\ Begun \in net.reply /\ cl.pc = "reply" /\ cl'.pc = "stream" /\ Begun' = Begun
       /\ net' = [net EXCEPT !.reply = @ \ {Begun}]

\* The client begins its streams one after the other.
LEMMA ClientViewed ==
    ASSUME OwnInv, Untold, ClientStep
    PROVE  ClientView /\ (cl.pc \in {"end", "closed"} => cl'.pc \in {"end", "closed"})
<1>1. /\ ClientInv /\ net \in Links /\ Len(cl.streams) \in Nat
      /\ cl.pc \in {"reply", "stream"} <=> cl.s # 0
  BY DEF OwnInv, ClientInv, ClientRecords, ClientOwns
<1>2. /\ cl.pc \in {"wait", "dial"} => Begun < N /\ This = Begun + 1
      /\ cl.pc \in {"reply", "stream"} => This = Begun
      /\ Begun \in 0..N
  BY PairTypes DEF ViewTypes
<1>3. ASSUME cl'.pc \in {"end", "closed"} PROVE net'.told = net.told
  BY <1>1, <1>3, Zenon DEF ClientStep, ReadCreateStreams, ConnectTcp, ConnectUdp, ReadReply, ReadData,
     ReplyTimesOut,
         NewClientStream, ClientSeesEnd, EndClient, Fault, Queued, Links
<1>4. CASE ConnectTcp \/ ConnectUdp
  <2>1. cl.pc = "dial"
    BY <1>4, Zenon DEF ConnectTcp, ConnectUdp
  <2>2. ASSUME cl'.pc \in {"reply", "stream"}, cl'.streams = cl.streams, ClientInv' PROVE Dials
    <3>1. cl'.s # 0 /\ cl.s = 0
      BY <1>1, <2>1, <2>2 DEF ClientInv, ClientOwns
    <3> QED
      BY <1>1, <1>2, <2>1, <2>2, <3>1 DEF Dials, Begun
  <2> QED
    BY <1>1, <1>2, <1>3, <1>4, <2>1, <2>2, Counted, ConnectOwns, Zenon DEF ClientView
<1>5. CASE ReadCreateStreams
  <2>1. cl.pc = "wait" /\ cl'.pc = "dial" /\ net' = net /\ net.told
    BY <1>1, <1>5 DEF ReadCreateStreams, Client, ClientInv, ClientRecords
  <2>2. Begun' = Begun
    BY <1>1, <1>5, <2>1, Counted, CreateOwns, Zenon DEF Begun
  <2> QED
    BY <2>1, <2>2 DEF ClientView, Stays
<1>6. CASE ReadReply
  <2>1. /\ cl.pc = "reply" /\ cl'.pc = "stream" /\ Begun \in net.reply
        /\ net' = [net EXCEPT !.reply = @ \ {Begun}]
    BY <1>1, <1>2, <1>6 DEF ReadReply, Client, ClientInv, ClientRecords
  <2>2. Begun' = Begun
    BY <1>1, <1>6, <2>1, Counted, CreateOwns, Zenon DEF Begun
  <2> QED
    BY <2>1, <2>2, Zenon DEF ClientView
<1>7. CASE ReadData
  <2>1. cl.pc = "reply" /\ net' = net
    BY <1>7 DEF ReadData
  <2>2. CASE cl'.pc = "end"
    BY <1>3, <2>1, <2>2 DEF ClientView
  <2>3. CASE cl'.pc # "end"
    <3>1. Client([cl EXCEPT !.waited = @ + 1])
      BY <1>1, <1>7, <2>3, Counted, GiveUpOwns DEF ReadData, Errors
    <3>2. cl'.pc = cl.pc /\ cl'.s = cl.s /\ cl'.streams = cl.streams
      BY <1>1, <3>1 DEF Client, ClientInv, ClientRecords
    <3> QED
      BY <2>1, <3>2 DEF ClientView, Stays, Begun
  <2> QED
    BY <2>2, <2>3
<1>8. CASE ReplyTimesOut \/ ClientSeesEnd
  <2>1. cl'.pc = "end" /\ cl.pc \notin {"end", "closed"}
    BY <1>1, <1>8, Counted, GiveUpOwns DEF ReplyTimesOut, ClientSeesEnd, Errors
  <2> QED
    BY <1>3, <2>1, Zenon DEF ClientView
<1>9. CASE NewClientStream
  <2>1. cl.pc = "stream" /\ cl.s # 0
    BY <1>1, <1>9 DEF NewClientStream
  <2>2. CASE cl'.pc = "end"
    BY <1>3, <2>1, <2>2, Zenon DEF ClientView
  <2>3. CASE cl'.pc # "end"
    <3>1. /\ cl'.pc \in {"ready", "dial"} /\ Len(cl'.streams) = Len(cl.streams) + 1 /\ net' = net
          /\ ClientInv'
      BY <1>1, <1>9, <2>3, Counted, NewClientStreamOwns
    <3>2. cl'.s = 0
      BY <3>1 DEF ClientInv, ClientOwns
    <3>3. Begun' = Begun
      BY <1>1, <2>1, <3>1, <3>2 DEF Begun
    <3>4. net.told
      BY <2>1, PairTypes DEF Untold, ViewTypes
    <3> QED
      BY <2>1, <3>1, <3>3, <3>4, Zenon DEF ClientView, Stays
  <2> QED
    BY <2>2, <2>3
<1>10. CASE EndClient
  BY <1>1, <1>3, <1>10, Counted, EndClientOwns, Zenon DEF ClientView
<1> QED
  BY <1>4, <1>5, <1>6, <1>7, <1>8, <1>9, <1>10 DEF ClientStep

\* A step of the client keeps the pairing.
LEMMA ClientPairs ==
    ASSUME OwnInv, PairInv, ClientView, sv' = sv, conf' = conf, going' = going,
           cl.pc \in {"end", "closed"} => cl'.pc \in {"end", "closed"}
    PROVE  PairInv'
<1>1. Peers' = Peers /\ Hand' = Hand
  BY DEF Peers, Hand
<1>2. Trying' => Trying
  BY DEF Trying, Ended
<1>3. ViewTypes /\ net \in Links
  BY PairTypes DEF OwnInv
<1>4. /\ Trying /\ conf.tcp => InPlaces
      /\ Trying /\ ~conf.tcp => Turns
      /\ Untold
  BY DEF PairInv
<1>5. CASE cl'.pc \in {"end", "closed"} /\ net'.told = net.told
  BY <1>4, <1>5 DEF PairInv, Trying, Untold
<1>6. CASE Stays
  <2>1. Untold'
    BY <1>4, <1>6 DEF Untold, Stays
  <2>2. InPlaces => InPlaces'
    BY <1>1, <1>6 DEF InPlaces, Stays
  <2>3. Turns => Turns'
    BY <1>1, <1>6 DEF Turns, Stays
  <2> QED
    BY <1>2, <1>4, <2>1, <2>2, <2>3 DEF PairInv
<1>7. CASE conf.tcp /\ Dials /\ net' = Queued(net, Begun + 1, TRUE)
  <2>1. /\ net'.told = net.told /\ net'.delayed = net.delayed /\ net'.late = net.late
        /\ net'.denied = net.denied
        /\ net'.backlog = Append(net.backlog, [peer |-> Begun + 1, cookie |-> TRUE])
    BY <1>3, <1>7 DEF Queued, Links
  <2>2. net.told
    BY <1>4, <1>7 DEF Untold, Dials
  <2>3. Untold'
    BY <1>4, <2>1, <2>2 DEF Untold
  <2>4. Begun + 1 \in Ids /\ Begun < N /\ Begun' = Begun + 1
    BY <1>3, <1>7, SetUpTypes DEF Dials, Ids, ViewTypes, Stranger
  <2>5. /\ Callers(net'.backlog) = Append(Callers(net.backlog), Begun + 1)
        /\ Cookies(net.backlog) => Cookies(net'.backlog)
    BY <1>3, <2>1, <2>4, CallersQueue, ZenonT(30) DEF ViewTypes
  <2>6. ASSUME InPlaces PROVE InPlaces'
    <3>1. Places(Peers, Hand, Append(Callers(net.backlog), Begun + 1), net.delayed, Begun + 1,
                 net.late, net.denied)
      BY <1>3, <2>4, <2>6, PlacesGrow, ZenonT(30) DEF ViewTypes, InPlaces
    <3> QED
      BY <1>1, <2>1, <2>4, <2>5, <2>6, <3>1, Zenon DEF InPlaces
  <2> QED
    BY <1>2, <1>4, <1>7, <2>3, <2>6 DEF PairInv
<1>8. CASE /\ conf.tcp /\ Dials
           /\ net' = [net EXCEPT !.faults = @ + 1, !.delayed = @ \cup {Begun + 1}, !.late = TRUE]
  <2>1. /\ net'.told = net.told /\ net'.delayed = net.delayed \cup {Begun + 1} /\ net'.late = TRUE
        /\ net'.denied = net.denied /\ net'.backlog = net.backlog
    BY <1>3, <1>8 DEF Links
  <2>2. net.told
    BY <1>4, <1>8 DEF Untold, Dials
  <2>3. Untold'
    BY <1>4, <2>1, <2>2 DEF Untold
  <2>4. Begun < N /\ Begun' = Begun + 1
    BY <1>8 DEF Dials
  <2>5. ASSUME InPlaces PROVE InPlaces'
    <3>1. Places(Peers, Hand, Callers(net.backlog), net.delayed \cup {Begun + 1}, Begun + 1,
                 TRUE, net.denied)
      BY <1>3, <2>4, <2>5, PlacesGrow, ZenonT(30) DEF ViewTypes, InPlaces
    <3> QED
      BY <1>1, <2>1, <2>4, <2>5, <3>1, Zenon DEF InPlaces
  <2> QED
    BY <1>2, <1>4, <1>8, <2>3, <2>5 DEF PairInv
<1>9. CASE ~conf.tcp /\ Dials /\ cl'.pc = "reply" /\ net' = [net EXCEPT !.hello = @ \cup {Begun + 1}]
  <2>1. net'.told = net.told /\ net'.hello = net.hello \cup {Begun + 1} /\ net'.reply = net.reply
    BY <1>3, <1>9 DEF Links
  <2>2. net.told
    BY <1>4, <1>9 DEF Untold, Dials
  <2>3. Untold'
    BY <1>4, <2>1, <2>2 DEF Untold
  <2>4. Begun \in Nat /\ Begun < N /\ Begun' = Begun + 1 /\ (cl.pc = "reply") = FALSE
    BY <1>3, <1>9, SetUpTypes DEF Dials, ViewTypes
  <2>5. ASSUME Turns PROVE Turns'
    <3>1. InTurn(Peers, Hand, net.hello \cup {Begun + 1}, net.reply, Begun + 1, TRUE)
      BY <2>4, <2>5, TurnBegins, Zenon DEF Turns
    <3> QED
      BY <1>1, <1>9, <2>1, <2>4, <3>1, Zenon DEF Turns
  <2> QED
    BY <1>2, <1>4, <1>9, <2>3, <2>5 DEF PairInv
<1>10. CASE /\ Begun \in net.reply /\ cl.pc = "reply" /\ cl'.pc = "stream" /\ Begun' = Begun
            /\ net' = [net EXCEPT !.reply = @ \ {Begun}]
  <2>1. /\ net'.told = net.told /\ net'.hello = net.hello /\ net'.reply = net.reply \ {Begun}
        /\ net'.delayed = net.delayed /\ net'.late = net.late /\ net'.denied = net.denied
        /\ net'.backlog = net.backlog
    BY <1>3, <1>10 DEF Links
  <2>2. net.told
    BY <1>4, <1>10 DEF Untold
  <2>3. Untold'
    BY <1>4, <2>1, <2>2 DEF Untold
  <2>4. Begun \in Nat /\ Begun # Stranger /\ (cl.pc = "reply") = TRUE /\ (cl'.pc = "reply") = FALSE
    BY <1>3, <1>10, SetUpTypes DEF ViewTypes
  <2>5. ASSUME Turns PROVE Turns'
    <3>1. InTurn(Peers, Hand, net.hello, net.reply \ {Begun}, Begun, FALSE)
      BY <1>10, <2>4, <2>5, TurnEnds, ZenonT(30) DEF Turns
    <3> QED
      BY <1>1, <1>10, <2>1, <2>4, <3>1, Zenon DEF Turns
  <2>6. InPlaces => InPlaces'
    BY <1>1, <1>10, <2>1 DEF InPlaces
  <2> QED
    BY <1>2, <1>4, <2>3, <2>5, <2>6 DEF PairInv
<1> QED
  BY <1>5, <1>6, <1>7, <1>8, <1>9, <1>10, Zenon DEF ClientView

\* A step of the server that changes neither what it has nor what waits.
LEMMA ServerWaits ==
    ASSUME OwnInv, PairInv, SameView, cl' = cl, conf' = conf, going' = going, Ended => Ended',
           net'.backlog = net.backlog, net'.delayed = net.delayed, net'.late = net.late,
           net'.denied = net.denied, net'.hello = net.hello, net'.reply = net.reply,
           net'.told = net.told \/ (sv'.pc \notin {"listen", "announce"} /\ net'.told),
           sv'.pc \in {"listen", "announce"} => sv.pc \in {"listen", "announce"},
           sv'.pc = "cookie" => sv.pc = "cookie" /\ sv'.cookie = sv.cookie,
           sv'.pc \in {"options", "stream"} => sv.pc \in {"options", "stream"} \/ ~conf.tcp
    PROVE  PairInv'
<1>1. Peers' = Peers /\ Hand' = Hand /\ Begun' = Begun /\ sv'.reused = sv.reused
  BY DEF SameView, Begun
<1>2. Trying' => Trying
  BY <1>1 DEF Trying
<1>3. Untold'
  BY DEF PairInv, Untold
<1>4. conf.tcp /\ InPlaces => InPlaces'
  BY <1>1 DEF InPlaces
<1>5. Turns => Turns'
  BY <1>1, ZenonT(30) DEF Turns
<1> QED
  BY <1>2, <1>3, <1>4, <1>5 DEF PairInv

\* The server has ended.
LEMMA ServerEnds ==
    ASSUME PairInv, Ended', cl' = cl, net'.told = net.told PROVE PairInv'
BY DEF PairInv, Trying, Untold, Ended

\* Its listener is closed, which resets what waits there.
LEMMA ServerResets ==
    ASSUME OwnInv, PairInv, SameView, cl' = cl, conf' = conf, going' = going, ~Ended, conf.tcp,
           net' = Reset(net), sv.pc = "listen" \/ sv.pc = "complete",
           sv'.pc \in {"announce", "restore"}, sv.pc = "complete" => sv'.pc = "restore"
    PROVE  PairInv'
<1>1. Peers' = Peers /\ Hand' = Hand /\ Begun' = Begun /\ sv'.reused = sv.reused
  BY DEF SameView, Begun
<1>2. Trying' => Trying
  BY <1>1 DEF Trying
<1>3. ViewTypes /\ net \in Links
  BY PairTypes DEF OwnInv
<1>4. /\ net'.backlog = <<>> /\ net'.delayed = {} /\ net'.late = net.late
      /\ net'.denied = net.denied /\ net'.told = net.told
  BY <1>3 DEF Reset, Links
<1>5. Untold'
  BY <1>4 DEF PairInv, Untold
<1>6. ASSUME InPlaces, Trying PROVE InPlaces'
  <2>1. Callers(net'.backlog) = <<>> /\ Cookies(net'.backlog)
    BY <1>3, <1>4, CallersQueue DEF ViewTypes
  <2>2. Begun = 0 \/ Len(Peers) = N
    <3>1. CASE sv.pc = "listen"
      BY <1>3, <1>6, <3>1 DEF PairInv, Untold, Trying, ViewTypes
    <3>2. CASE sv.pc = "complete"
      BY <1>3, <3>2 DEF ViewTypes
    <3> QED
      BY <3>1, <3>2
  <2>3. Places(Peers, Hand, <<>>, {}, Begun, net.late, net.denied)
    BY <1>3, <1>6, <2>2, PlacesReset, ZenonT(30) DEF ViewTypes, InPlaces
  <2> QED
    BY <1>1, <1>4, <2>1, <2>3 DEF InPlaces
<1> QED
  BY <1>2, <1>5, <1>6 DEF PairInv

\* It accepts a connection.
LEMMA AcceptTcpPairs == ASSUME OwnInv, PairInv, AcceptTcp PROVE PairInv'
<1>1. /\ cl' = cl /\ conf' = conf /\ going' = going /\ sv.pc = "accept" /\ conf.tcp /\ net.backlog # <<>>
      /\ net \in Links /\ ServerInv
  BY DEF AcceptTcp, ServerFails, Server, OwnInv
<1>2. CASE Ended'
  <2>1. net'.told = net.told
    BY <1>1 DEF AcceptTcp, Fault, Links
  <2> QED
    BY <1>1, <1>2, <2>1, ServerEnds
<1>3. CASE /\ Peers' = Peers /\ Hand' = {Head(net.backlog).peer} /\ sv'.pc = "cookie"
           /\ sv'.reused = sv.reused /\ sv'.cookie = Head(net.backlog).cookie
           /\ net' = [net EXCEPT !.backlog = Tail(@)]
  <2>1. /\ net'.backlog = Tail(net.backlog) /\ net'.delayed = net.delayed /\ net'.late = net.late
        /\ net'.denied = net.denied /\ net'.told = net.told
    BY <1>1, <1>3 DEF Links
  <2>2. Untold'
    BY <1>1, <1>3, <2>1 DEF PairInv, Untold
  <2>3. ViewTypes /\ Hand = {} /\ Begun' = Begun
    BY <1>1, PairTypes, Zenon DEF ViewTypes, Pending, Begun
  <2>4. Trying' => Trying
    BY <1>1, <1>3 DEF Trying, Ended
  <2>5. ASSUME InPlaces PROVE InPlaces'
    <3>1. /\ Callers(net.backlog) # <<>> /\ Callers(net'.backlog) = Tail(Callers(net.backlog))
          /\ Head(Callers(net.backlog)) = Head(net.backlog).peer
          /\ Head(net.backlog).cookie /\ Cookies(net'.backlog)
      BY <1>1, <2>1, <2>3, <2>5, CallersQueue, Zenon DEF ViewTypes, InPlaces
    <3>2. Places(Peers, {}, Callers(net.backlog), net.delayed, Begun, net.late, net.denied)
      BY <2>3, <2>5 DEF InPlaces
    <3>3. Places(Peers, {Head(Callers(net.backlog))}, Tail(Callers(net.backlog)), net.delayed, Begun,
                 net.late, net.denied)
      BY <2>3, <3>1, <3>2, PlacesServe, ZenonT(30) DEF ViewTypes
    <3> QED
      BY <1>3, <2>1, <2>3, <3>1, <3>3, ZenonT(30) DEF InPlaces
  <2> QED
    BY <1>1, <2>2, <2>4, <2>5 DEF PairInv
<1> QED
  BY <1>1, <1>2, <1>3, Counted, AcceptTcpOwns

\* It reads the cookie, and refuses the stranger's or one that is late.
LEMMA ReadCookiePairs == ASSUME OwnInv, PairInv, ReadCookie PROVE PairInv'
<1>1. /\ cl' = cl /\ conf' = conf /\ going' = going /\ sv.pc = "cookie" /\ net \in Links /\ ServerInv
      /\ conf.tcp
  BY DEF ReadCookie, ServerFails, Server, OwnInv, ServerInv, ServerHolds
<1>2. CASE Ended'
  <2>1. net'.told = net.told
    BY <1>1, Zenon DEF ReadCookie, Fault, Links
  <2> QED
    BY <1>1, <1>2, <2>1, ServerEnds
<1>3. ASSUME Peers' = Peers, sv'.pc = "options", sv'.reused = sv.reused,
             \/ OwnCookie /\ Hand' = Hand /\ UNCHANGED net
             \/ ~OwnCookie /\ Hand' = {} /\ UNCHANGED net
             \/ /\ OwnCookie /\ Hand' = {}
                /\ net' = [net EXCEPT !.faults = @ + 1, !.denied = TRUE]
      PROVE  PairInv'
  <2>1. /\ net'.backlog = net.backlog /\ net'.delayed = net.delayed /\ net'.late = net.late
        /\ net'.told = net.told
    BY <1>1, <1>3, Zenon DEF Links
  <2>2. Untold'
    BY <1>1, <1>3, <2>1 DEF PairInv, Untold
  <2>3. PICK k \in 0..Stranger : k = sv.fd[sv.s].peer /\ Hand = {k}
    BY <1>1, PairTypes DEF ViewTypes
  <2>4. ViewTypes /\ Begun' = Begun
    BY <1>1, PairTypes DEF Begun
  <2>5. Trying' => Trying
    BY <1>1, <1>3 DEF Trying, Ended
  <2>6. ASSUME InPlaces PROVE InPlaces'
    <3>1. sv.cookie /\ (OwnCookie <=> k # Stranger)
      BY <1>1, <2>3, <2>6, ZenonT(30) DEF InPlaces, OwnCookie
    <3>2. Places(Peers, {k}, Callers(net.backlog), net.delayed, Begun, net.late, net.denied)
      BY <2>3, <2>6 DEF InPlaces
    <3>3. CASE OwnCookie /\ Hand' = Hand /\ UNCHANGED net
      BY <1>3, <2>3, <2>4, <2>6, <3>1, <3>3 DEF InPlaces
    <3>4. CASE ~OwnCookie /\ Hand' = {} /\ UNCHANGED net
      <4>1. Places(Peers, {}, Callers(net.backlog), net.delayed, Begun, net.late, net.denied)
        BY <2>4, <3>1, <3>2, <3>4, PlacesServe, Zenon DEF ViewTypes
      <4> QED
        BY <1>3, <2>4, <2>6, <3>4, <4>1 DEF InPlaces
    <3>5. CASE /\ OwnCookie /\ Hand' = {}
               /\ net' = [net EXCEPT !.faults = @ + 1, !.denied = TRUE]
      <4>1. Places(Peers, {}, Callers(net.backlog), net.delayed, Begun, net.late, TRUE)
        BY <2>4, <3>1, <3>2, <3>5, PlacesServe, ZenonT(30) DEF ViewTypes
      <4>2. net'.denied = TRUE
        BY <1>1, <3>5 DEF Links
      <4> QED
        BY <1>3, <2>1, <2>4, <2>6, <3>5, <4>1, <4>2, ZenonT(30) DEF InPlaces
    <3> QED
      BY <1>3, <3>3, <3>4, <3>5
  <2> QED
    BY <1>1, <2>2, <2>5, <2>6 DEF PairInv
<1> QED
  BY <1>1, <1>2, <1>3, Counted, ReadCookieOwns

\* The steps between.
LEMMA ServerGoesOn ==
    ASSUME OwnInv, PairInv,
           ListenTcp \/ ListenAgain \/ ListenUdp \/ SetOptions \/ RestoreListener \/ Complete \/ CloseToListen
    PROVE  PairInv'
<1>1. /\ cl' = cl /\ conf' = conf /\ going' = going /\ net \in Links /\ ServerInv /\ ~Ended
      /\ sv \in ServerRecords
  BY DEF ListenTcp, ListenAgain, ListenUdp, SetOptions, RestoreListener, Complete, CloseToListen,
         ServerFails, Server, OwnInv, ServerInv, Ended
<1>2. Ended' \/ SameView
  BY <1>1, Counted, ListenTcpOwns, ListenAgainOwns, ListenUdpOwns, SetOptionsOwns, RestoreListenerOwns,
     CompleteOwns, CloseToListenOwns
<1>3. CASE Ended'
  <2>1. net'.told = net.told
    <3>1. CASE net' = net \/ Fault \/ net' = Reset(net)
      BY <1>1, <3>1, Zenon DEF Fault, Reset, Links
    <3>2. CASE /\ ~(net' = net \/ Fault \/ net' = Reset(net))
      <4>1. sv'.pc = "accept"
        BY <1>1, <3>2, Zenon DEF ListenTcp, ListenAgain, ListenUdp, SetOptions, RestoreListener,
           Complete,
           CloseToListen, Server, Opened, Announced, ServerRecords
      <4> QED
        BY <1>3, <4>1 DEF Ended
    <3> QED
      BY <3>1, <3>2
  <2> QED
    BY <1>1, <1>3, <2>1, ServerEnds
<1>4. CASE SameView /\ ~Ended'
  <2>1. ASSUME NEW p, NEW error, ServerFails(p, error), "pc" \in DOMAIN p PROVE FALSE
    BY <1>4, <2>1 DEF ServerFails, Server, Ended
  <2>2. CASE ListenTcp \/ ListenAgain \/ ListenUdp
    <3>1. sv'.pc = "accept" /\ net' = [net EXCEPT !.told = TRUE]
      <4>1. CASE ListenTcp
        <5>1. "pc" \in DOMAIN CloseListener(sv)
          BY <1>1 DEF CloseListener, Closed, ServerRecords
        <5> QED
          BY <1>1, <2>1, <4>1, <5>1, Zenon DEF ListenTcp, Server, ServerRecords
      <4>2. CASE ListenAgain \/ ListenUdp
        BY <1>1, <2>1, <4>2, ZenonT(30) DEF ListenAgain, ListenUdp, Server, Opened, Announced,
           ServerRecords
      <4> QED
        BY <2>2, <4>1, <4>2
    <3>2. /\ net'.backlog = net.backlog /\ net'.delayed = net.delayed /\ net'.late = net.late
          /\ net'.denied = net.denied /\ net'.hello = net.hello /\ net'.reply = net.reply /\ net'.told
      BY <1>1, <3>1 DEF Links
    <3> QED
      BY <1>1, <1>4, <3>1, <3>2, ServerWaits
  <2>3. CASE SetOptions \/ RestoreListener
    <3>1. net' = net /\ \/ sv.pc = "options" /\ sv'.pc = "stream"
                        \/ sv'.pc = "ready"
      BY <1>1, <2>1, <2>3, ZenonT(30) DEF SetOptions, RestoreListener, Server, Opened, Announced,
         ServerRecords
    <3> QED
      BY <1>1, <1>4, <3>1, ServerWaits
  <2>4. CASE Complete \/ CloseToListen
    <3>1. CASE net' = Reset(net) /\ CloseToListen
      <4>1. sv.pc = "listen" /\ conf.tcp /\ sv'.pc = "announce"
        BY <1>1, <3>1 DEF CloseToListen, Server, CloseListener, Closed, ServerRecords
      <4> QED
        BY <1>1, <1>4, <3>1, <4>1, ServerResets
    <3>2. CASE Complete /\ conf.tcp /\ conf.relisten
      <4>1. sv.pc = "complete" /\ sv'.pc = "restore" /\ net' = Reset(net)
        BY <1>1, <3>2, Zenon DEF Complete, Server, CloseListener, Closed, ServerRecords
      <4> QED
        BY <1>1, <1>4, <3>2, <4>1, ServerResets
    <3>3. CASE Complete /\ ~(conf.tcp /\ conf.relisten)
      <4>1. sv'.pc = "ready" /\ net' = net
        BY <1>1, <3>3, ZenonT(30) DEF Complete, Server, Closed, ServerRecords
      <4> QED
        BY <1>1, <1>4, <4>1, ServerWaits
    <3> QED
      BY <2>4, <3>1, <3>2, <3>3 DEF CloseToListen
  <2> QED
    BY <2>2, <2>3, <2>4
<1> QED
  BY <1>2, <1>3, <1>4

\* Over UDP it takes a datagram, answers, and makes a stream.
LEMMA AcceptUdpPairs == ASSUME OwnInv, PairInv, AcceptUdp PROVE PairInv'
<1>1. /\ cl' = cl /\ conf' = conf /\ going' = going /\ sv.pc = "accept" /\ ~conf.tcp
      /\ net \in Links /\ ServerInv
  BY DEF AcceptUdp, ServerFails, Server, OwnInv
<1>2. CASE Ended'
  <2>1. net'.told = net.told
    BY <1>1 DEF AcceptUdp, Fault, Links
  <2> QED
    BY <1>1, <1>2, <2>1, ServerEnds
<1>3. ASSUME NEW k \in net.hello, Peers' = Peers, Hand' = {k}, sv'.reused = sv.reused,
             net' = [net EXCEPT !.hello = @ \ {k}]
      PROVE  PairInv'
  <2>1. net'.hello = net.hello \ {k} /\ net'.reply = net.reply /\ net'.told = net.told
    BY <1>1, <1>3 DEF Links
  <2>2. ViewTypes /\ Hand = {} /\ Begun' = Begun /\ Begun \in Nat
    <3>1. Begun' = Begun
      BY <1>1 DEF Begun
    <3>2. ViewTypes
      BY PairTypes
    <3>3. Begun \in 0..N /\ (sv.pc \notin Pending => Hand = {})
      BY <3>2 DEF ViewTypes
    <3>4. Begun \in Nat
      BY <3>3, SetUpTypes
    <3>5. Hand = {}
      BY <1>1, <3>3 DEF Pending
    <3> QED
      BY <3>1, <3>2, <3>4, <3>5
  <2>3. sv'.pc \notin {"listen", "announce"}
    <3>1. sv'.pc \in Pending
      BY <1>3 DEF Hand
    <3> QED
      BY <3>1 DEF Pending
  <2>4. Untold'
    BY <1>1, <2>1, <2>3 DEF PairInv, Untold
  <2>5. Trying' => Trying
    BY <1>1, <1>3 DEF Trying, Ended
  <2>6. ASSUME Turns PROVE Turns'
    <3>1. InTurn(Peers, {}, net.hello, net.reply, Begun, cl.pc = "reply")
      BY <2>2, <2>6 DEF Turns
    <3>2. InTurn(Peers, {k}, net.hello \ {k}, net.reply, Begun, cl.pc = "reply")
      BY <2>2, <3>1, TurnAccepts, ZenonT(30) DEF ViewTypes
    <3> QED
      BY <1>1, <1>3, <2>1, <2>2, <3>2 DEF Turns
  <2> QED
    BY <1>1, <2>4, <2>5, <2>6 DEF PairInv
<1> QED
  BY <1>1, <1>2, <1>3, Counted, AcceptUdpOwns

\* iperf_udp_accept answers.
LEMMA ReplyUdpPairs == ASSUME OwnInv, PairInv, ReplyUdp PROVE PairInv'
<1>1. /\ cl' = cl /\ conf' = conf /\ going' = going /\ sv.pc = "reply" /\ ~conf.tcp
      /\ net \in Links /\ ServerInv /\ sv \in ServerRecords
  BY DEF ReplyUdp, ServerFails, Server, OwnInv, ServerInv, ServerHolds
<1>2. Ended' \/ SameView
  BY <1>1, Counted, ReplyUdpOwns
<1>3. CASE Ended'
  <2>1. Fault
    BY <1>1, <1>3, Zenon DEF ReplyUdp, Server, Opened, Announced, ServerRecords, Ended
  <2>2. net'.told = net.told
    BY <1>1, <2>1 DEF Fault, Links
  <2> QED
    BY <1>1, <1>3, <2>2, ServerEnds
<1>4. CASE SameView /\ ~Ended'
  <2> DEFINE k == sv.fd[sv.s].peer
  <2>1. sv'.pc = "options" /\ net' = [net EXCEPT !.reply = @ \cup ({k} \ {Stranger})]
    BY <1>1, <1>4, Zenon DEF ReplyUdp, ServerFails, Server, Opened, Announced, ServerRecords, Ended
  <2>2. k \in 0..Stranger /\ Hand = {k}
    BY <1>1 DEF ServerInv, ServerHolds, ServerRecords, Tables, Hand, Pending, Sockets
  <2> HIDE DEF k
  <2>3. /\ net'.hello = net.hello /\ net'.reply = net.reply \cup ({k} \ {Stranger})
        /\ net'.told = net.told
    BY <1>1, <2>1 DEF Links
  <2>4. Peers' = Peers /\ Hand' = Hand /\ Begun' = Begun /\ Begun \in Nat /\ ViewTypes
    <3>1. Begun' = Begun
      BY <1>1 DEF Begun
    <3> QED
      BY <1>4, <3>1, SetUpTypes, PairTypes DEF SameView, ViewTypes
  <2>5. Untold'
    BY <1>1, <2>1, <2>3 DEF PairInv, Untold
  <2>6. Trying' => Trying
    BY <1>1, <1>4 DEF Trying, Ended, SameView
  <2>7. ASSUME Turns PROVE Turns'
    <3>1. InTurn(Peers, {k}, net.hello, net.reply, Begun, cl.pc = "reply")
      BY <2>2, <2>7 DEF Turns
    <3>2. InTurn(Peers, {k}, net.hello, net.reply \cup ({k} \ {Stranger}), Begun, cl.pc = "reply")
      BY <2>2, <2>4, <3>1, TurnGoesOn, ZenonT(30) DEF ViewTypes
    <3> QED
      BY <1>1, <2>2, <2>3, <2>4, <3>2 DEF Turns
  <2> QED
    BY <1>1, <2>5, <2>6, <2>7 DEF PairInv
<1> QED
  BY <1>2, <1>3, <1>4

\* iperf_new_stream makes a stream of what is in hand.
LEMMA NewStreamPairs == ASSUME OwnInv, PairInv, NewStream PROVE PairInv'
<1>1. /\ cl' = cl /\ conf' = conf /\ going' = going /\ sv.pc = "stream" /\ net \in Links /\ ServerInv
      /\ sv \in ServerRecords /\ conf.tcp \in BOOLEAN
  BY SetUpTypes DEF NewStream, ServerFails, Server, OwnInv, ServerInv
<1>2. net'.told = net.told
  BY <1>1 DEF NewStream, Fault, Links
<1>3. CASE Ended'
  BY <1>1, <1>2, <1>3, ServerEnds
<1>4. ASSUME ~Ended' PROVE net' = net /\ sv'.pc \in {"accept", "complete"}
  <2> DEFINE p == [sv EXCEPT !.reused = @ \/ sv.fd[sv.s].kind = "host"]
  <2>1. ASSUME NEW q, "pc" \in DOMAIN q, NEW error, ServerFails(q, error) PROVE FALSE
    BY <1>4, <2>1 DEF ServerFails, Server, Ended
  <2>2. "pc" \in DOMAIN Closed(p, sv.s)
    BY <1>1 DEF Closed, ServerRecords
  <2>3. ~ServerFails(Closed(p, sv.s), "IECREATESTREAM")
    BY <2>1, <2>2
  <2>4. net' = net /\ \/ Server([sv EXCEPT !.pc = "accept"])
                      \/ Server(Streamed(p, sv.s, IF Len(sv.streams) + 1 = N THEN "complete" ELSE "accept"))
    BY <2>3 DEF NewStream
  <2> QED
    BY <1>1, <2>4, Zenon DEF Server, Streamed, ServerRecords
<1>5. CASE SameView /\ ~Ended'
  <2>1. ~Ended
    BY <1>1 DEF Ended
  <2> QED
    BY <1>1, <1>4, <1>5, <2>1, ServerWaits
<1>6. (Untold' /\ Begun' = Begun) \/ Ended'
  BY <1>1, <1>2, <1>4 DEF PairInv, Untold, Begun
<1>7. CASE sv'.reused /\ ~Ended'
  BY <1>6, <1>7 DEF PairInv, Trying
<1>8. ASSUME NEW k \in 0..Stranger, Hand = {k}, Hand' = {}, Peers' = Append(Peers, k),
             sv'.reused = sv.reused, ~Ended'
      PROVE  PairInv'
  <2>1. net' = net /\ sv'.pc \in {"accept", "complete"} /\ ViewTypes /\ Begun \in Nat
    <3>1. ViewTypes
      BY PairTypes
    <3>2. Begun \in Nat
      BY <3>1, SetUpTypes DEF ViewTypes
    <3> QED
      BY <1>4, <1>8, <3>1, <3>2
  <2>2. Trying' => Trying
    BY <1>1, <1>8 DEF Trying, Ended
  <2>3. ASSUME InPlaces PROVE InPlaces'
    <3>1. k # Stranger
      BY <1>1, <1>8, <2>3 DEF InPlaces
    <3>2. Places(Peers, {k}, Callers(net.backlog), net.delayed, Begun, net.late, net.denied)
      BY <1>8, <2>3 DEF InPlaces
    <3>3. Places(Append(Peers, k), {}, Callers(net.backlog), net.delayed, Begun, net.late, net.denied)
      BY <2>1, <3>1, <3>2, PlacesServe, ZenonT(30) DEF ViewTypes
    <3> QED
      BY <1>6, <1>8, <2>1, <2>3, <3>3 DEF InPlaces
  <2>4. ASSUME Turns PROVE Turns'
    <3>1. InTurn(Peers, {k}, net.hello, net.reply, Begun, cl.pc = "reply")
      BY <1>8, <2>4 DEF Turns
    <3>2. InTurn(Append(Peers, k), {}, net.hello, net.reply, Begun, cl.pc = "reply")
      BY <2>1, <3>1, TurnGoesOn, ZenonT(30) DEF ViewTypes
    <3> QED
      BY <1>1, <1>6, <1>8, <2>1, <3>2 DEF Turns
  <2> QED
    BY <1>1, <1>6, <1>8, <2>2, <2>3, <2>4 DEF PairInv
<1> QED
  BY <1>1, <1>3, <1>5, <1>7, <1>8, Counted, NewStreamOwns

\* Every step of the server.
LEMMA ServerPairs == ASSUME OwnInv, PairInv, ServerStep \/ StopServer PROVE PairInv'
<1>1. CASE ServerSeesEnd \/ ServerTimesOut \/ StopServer \/ Cleanup
  <2>1. ServerInv /\ net \in Links
    BY DEF OwnInv
  <2>2. Ended' /\ cl' = cl
    BY <1>1, <2>1, EndOwns, Counted, CleanupOwns
       DEF ServerSeesEnd, ServerTimesOut, StopServer, Cleanup, ServerFails, Server
  <2>3. net'.told = net.told
    BY <1>1, <2>1, ZenonT(30) DEF ServerSeesEnd, ServerTimesOut, StopServer, Cleanup, Reset, Links
  <2> QED
    BY <2>2, <2>3, ServerEnds
<1> QED
  BY <1>1, ServerGoesOn, AcceptTcpPairs, ReadCookiePairs, AcceptUdpPairs, ReplyUdpPairs, NewStreamPairs
     DEF ServerStep

\* The rest of a process opens something.
LEMMA HostOpensPairs == ASSUME OwnInv, PairInv, HostOpensOne PROVE PairInv'
<1>1. conf' = conf /\ net' = net /\ going' = going /\ ServerInv /\ ClientInv
  BY DEF HostOpensOne, OwnInv
<1>2. CASE Opens(sv) /\ sv' = Opened(sv, "host", 0) /\ cl' = cl
  <2>1. SameView /\ sv'.pc = sv.pc
    BY <1>1, <1>2, Counted, HostOpensOwns
  <2>2. sv'.cookie = sv.cookie
    BY <1>1, <1>2 DEF Opened, ServerInv, ServerRecords
  <2> QED
    BY <1>1, <1>2, <2>1, <2>2, ServerWaits DEF Ended
<1>3. CASE Opens(cl) /\ cl' = Opened(cl, "host", 0) /\ sv' = sv
  <2>1. cl'.pc = cl.pc /\ cl'.s = cl.s /\ cl'.streams = cl.streams
    BY <1>1, <1>3, Counted, HostOpensClientOwns
  <2>2. Stays
    BY <1>1, <2>1 DEF Stays, Begun
  <2> QED
    BY <1>1, <1>3, <2>1, <2>2, ClientPairs DEF ClientView
<1> QED
  BY <1>2, <1>3 DEF HostOpensOne

\* What happens between them.
LEMMA NetPairs == ASSUME OwnInv, PairInv, Arrive \/ Disturb PROVE PairInv'
<1>1. sv' = sv /\ cl' = cl /\ conf' = conf /\ going' = going /\ net \in Links /\ ViewTypes
  BY PairTypes, ZenonT(30) DEF Arrive, Disturb, OwnInv
<1>2. Peers' = Peers /\ Hand' = Hand /\ Begun' = Begun /\ (Trying' <=> Trying)
  BY <1>1 DEF Peers, Hand, Begun, Trying, Ended
<1>3. net'.told = net.told
  BY <1>1, Zenon DEF Arrive, Disturb, Queued, Links
<1>4. Untold'
  BY <1>1, <1>3 DEF PairInv, Untold
<1>5. ASSUME NEW x \in Ids, NEW D, NEW n \in Links, n.backlog = net.backlog,
             net'.backlog = Append(net.backlog, [peer |-> x, cookie |-> TRUE]), net'.delayed = D,
             net'.late = net.late, net'.denied = net.denied, InPlaces,
             Places(Peers, Hand, Append(Callers(net.backlog), x), D, Begun, net.late, net.denied)
      PROVE  InPlaces'
  <2>1. Callers(net'.backlog) = Append(Callers(net.backlog), x) /\ Cookies(net'.backlog)
    BY <1>1, <1>5, CallersQueue, ZenonT(30) DEF ViewTypes, InPlaces
  <2> QED
    BY <1>1, <1>2, <1>5, <2>1, ZenonT(30) DEF InPlaces
<1>6. Stranger \in Ids /\ \A k \in Streams : k \in Ids
  BY SetUpTypes DEF Ids, Streams, Stranger
<1>7. CASE Arrive
  <2>1. PICK k \in net.delayed : net' = [Queued(net, k, TRUE) EXCEPT !.delayed = @ \ {k}]
    BY <1>7, ZenonT(30) DEF Arrive
  <2>2. /\ net'.backlog = Append(net.backlog, [peer |-> k, cookie |-> TRUE])
        /\ net'.delayed = net.delayed \ {k} /\ net'.late = net.late /\ net'.denied = net.denied
        /\ net'.hello = net.hello /\ net'.reply = net.reply
    BY <1>1, <2>1 DEF Queued, Links
  <2>3. k \in Ids
    BY <1>1, <1>6, <2>1 DEF ViewTypes
  <2>4. ASSUME InPlaces PROVE InPlaces'
    <3>1. Places(Peers, Hand, Append(Callers(net.backlog), k), net.delayed \ {k}, Begun, net.late, net.denied)
      BY <1>1, <2>1, <2>4, PlacesGrow, ZenonT(30) DEF ViewTypes, InPlaces
    <3> QED
      BY <1>1, <1>5, <2>2, <2>3, <2>4, <3>1
  <2>5. Turns => Turns'
    BY <1>1, <1>2, <2>2 DEF Turns
  <2> QED
    BY <1>1, <1>2, <1>4, <2>4, <2>5 DEF PairInv
<1>8. CASE Disturb
  <2>1. CASE conf.tcp /\ net' = Queued([net EXCEPT !.faults = @ + 1], Stranger, TRUE)
    <3>1. /\ net'.backlog = Append(net.backlog, [peer |-> Stranger, cookie |-> TRUE])
          /\ net'.delayed = net.delayed /\ net'.late = net.late /\ net'.denied = net.denied
      BY <1>1, <2>1 DEF Queued, Links
    <3>2. ASSUME InPlaces PROVE InPlaces'
      <4>1. Places(Peers, Hand, Append(Callers(net.backlog), Stranger), net.delayed, Begun,
                   net.late, net.denied)
        BY <1>1, <3>2, PlacesGrow, ZenonT(30) DEF ViewTypes, InPlaces
      <4> QED
        BY <1>1, <1>5, <1>6, <3>1, <3>2, <4>1
    <3> QED
      BY <1>1, <1>2, <1>4, <2>1, <3>2 DEF PairInv
  <2>2. CASE \/ ~conf.tcp /\ net' = [net EXCEPT !.faults = @ + 1, !.hello = @ \cup {Stranger}]
             \/ \E k \in net.hello : net' = [net EXCEPT !.faults = @ + 1, !.hello = @ \ {k}]
             \/ \E k \in net.reply : net' = [net EXCEPT !.faults = @ + 1, !.reply = @ \ {k}]
    <3>1. /\ net'.backlog = net.backlog /\ net'.delayed = net.delayed /\ net'.late = net.late
          /\ net'.denied = net.denied
      BY <1>1, <2>2, ZenonT(30) DEF Links
    <3>2. PICK k : \/ net'.hello = net.hello \cup {Stranger} /\ net'.reply = net.reply
                   \/ net'.hello = net.hello \ {k} /\ net'.reply = net.reply
                   \/ net'.hello = net.hello /\ net'.reply = net.reply \ {k}
      BY <1>1, <2>2, ZenonT(30) DEF Links
    <3>3. InPlaces => InPlaces'
      BY <1>1, <1>2, <3>1 DEF InPlaces
    <3>4. ASSUME Turns PROVE Turns'
      <4> DEFINE waiting == cl.pc = "reply"
      <4>1. InTurn(Peers, Hand, net.hello, net.reply, Begun, waiting)
        BY <3>4 DEF Turns
      <4> HIDE DEF waiting
      <4>2. /\ InTurn(Peers, Hand, net.hello \cup {Stranger}, net.reply, Begun, waiting)
            /\ InTurn(Peers, Hand, net.hello \ {k}, net.reply, Begun, waiting)
            /\ InTurn(Peers, Hand, net.hello, net.reply \ {k}, Begun, waiting)
        BY <4>1, TurnDisturbed, Zenon
      <4>3. InTurn(Peers, Hand, net'.hello, net'.reply, Begun, waiting)
        BY <3>2, <4>2, Zenon
      <4> QED
        BY <1>1, <1>2, <4>3 DEF Turns, waiting
    <3> QED
      BY <1>1, <1>2, <1>4, <3>3, <3>4 DEF PairInv
  <2> QED
    BY <1>1, <1>8, <2>1, <2>2, ZenonT(30) DEF Disturb, Links
<1> QED
  BY <1>7, <1>8

\* When the set-up begins nothing is anywhere.
LEMMA InitPairs == Afresh => PairInv
<1> SUFFICES ASSUME Afresh PROVE PairInv
  OBVIOUS
<1>1. /\ sv.pc = "listen" /\ sv.streams = <<>> /\ cl.pc = "wait" /\ cl.s = 0 /\ cl.streams = <<>>
      /\ net.told = FALSE /\ net.backlog = <<>> /\ net.delayed = {} /\ net.hello = {} /\ net.reply = {}
      /\ net.late = FALSE /\ net.denied = FALSE
  BY DEF Afresh, NewServer, NewClient, Quiet
<1>2. Peers = <<>> /\ Hand = {} /\ Begun = 0 /\ Callers(<<>>) = <<>> /\ Len(<<>>) = 0
  BY <1>1 DEF Peers, Hand, Pending, Begun, Callers
<1>3. Untold
  BY <1>1 DEF Untold
<1>4. Held(<<>>) = {} /\ Distinct(<<>>) /\ Apart(<<>>) /\ Rising(<<>>) /\ Cookies(<<>>)
  BY EmptyHeld DEF Apart, Rising, Cookies
<1>5. Places(<<>>, {}, <<>>, {}, 0, FALSE, FALSE)
  BY <1>4 DEF Places, Once, Ordered
<1>6. InPlaces
  BY <1>1, <1>2, <1>4, <1>5, Zenon DEF InPlaces
<1>7. InTurn(<<>>, {}, {}, {}, 0, FALSE)
  BY <1>4 DEF InTurn
<1>8. Turns
  <2>1. (cl.pc = "reply") = FALSE
    BY <1>1
  <2> QED
    BY <1>1, <1>2, <1>7, <2>1, ZenonT(30) DEF Turns
<1> QED
  BY <1>3, <1>6, <1>8 DEF PairInv

\* Every step keeps the pairing.
LEMMA PairStep == ASSUME OwnInv, PairInv, [SetUpNext]_all PROVE PairInv'
<1>1. CASE UNCHANGED <<going, conf, sv, cl, net>>
  BY <1>1, Zenon DEF PairInv, Untold, InPlaces, Turns, Trying, Ended, Peers, Hand, Begun
<1>2. CASE SetUpNext
  <2>1. CASE ServerStep \/ StopServer
    BY <2>1, ServerPairs
  <2>2. CASE ClientStep
    <3>1. sv' = sv /\ conf' = conf /\ going' = going
      BY <2>2, Zenon DEF ClientStep, ReadCreateStreams, ConnectTcp, ConnectUdp, ReadReply, ReadData,
         ReplyTimesOut,
         NewClientStream, ClientSeesEnd, EndClient, ClientGivesUp, Client
    <3>2. Untold
      BY DEF PairInv
    <3> QED
      BY <2>2, <3>1, <3>2, ClientViewed, ClientPairs
  <2>3. CASE HostOpensOne
    BY <2>3, HostOpensPairs
  <2>4. CASE Arrive \/ Disturb
    BY <2>4, NetPairs
  <2>5. CASE HandOver
    <3>1. Afresh'
      BY <2>5, Zenon DEF HandOver, OwnInv, ServerInv, Afresh, NewServer, NewClient, Quiet
    <3> QED
      BY <3>1, InitPairs, PTL
  <2>6. CASE Work(Next)
    BY <1>1, <2>6 DEF Work, setUpVars
  <2> QED
    BY <1>2, <2>1, <2>2, <2>3, <2>4, <2>5, <2>6 DEF SetUpNext
<1> QED
  BY <1>1, <1>2 DEF all, setUpVars

\* When both are ready all of the client's streams are there.
LEMMA PairImplies == OwnInv /\ PairInv => StreamsPair
<1> SUFFICES ASSUME OwnInv, PairInv, BothReady, ~sv.reused
             PROVE  LET peer == [k \in Streams |-> sv.fd[sv.streams[k]].peer]
                    IN  /\ {peer[k] : k \in Streams} = Streams
                        /\ ~net.late => \A k \in Streams : peer[k] = k
  BY DEF StreamsPair
<1> DEFINE peer == [k \in Streams |-> sv.fd[sv.streams[k]].peer]
<1>1. Trying /\ sv.pc = "ready" /\ cl.pc = "ready" /\ (cl.pc = "reply") = FALSE
  BY DEF BothReady, Trying, Ended
<1>2. ViewTypes /\ conf.tcp \in BOOLEAN
  BY PairTypes, SetUpTypes DEF OwnInv, ServerInv
<1>3. /\ Peers \in Seq(0..Stranger) /\ Len(Peers) = N /\ Len(sv.streams) = N /\ Hand = {} /\ Begun = N
  BY <1>1, <1>2 DEF ViewTypes, Pending
<1>4. peer = Peers /\ {peer[k] : k \in Streams} = Held(Peers)
  BY <1>3 DEF Peers, Streams, Held
<1>5. Held(Peers) = Streams /\ (~net.late => \A k \in Streams : Peers[k] = k)
  <2>1. CASE conf.tcp
    <3>1. Places(Peers, Hand, Callers(net.backlog), net.delayed, Begun, net.late, net.denied)
      BY <1>1, <2>1 DEF PairInv, InPlaces
    <3>2. Begun \in 0..N
      BY <1>2 DEF ViewTypes
    <3>3. Held(Peers) = Streams /\ ~net.denied
      BY <1>3, <3>1, <3>2, OnceAll DEF Places
    <3>4. ~net.late => \A k \in Streams : Peers[k] = k
      BY <1>3, <3>1, <3>3 DEF Places, Ordered, Streams
    <3> QED
      BY <3>3, <3>4
  <2>2. CASE ~conf.tcp
    <3>1. InTurn(Peers, {}, net.hello, net.reply, N, FALSE)
      BY <1>1, <1>3, <2>2, ZenonT(30) DEF PairInv, Turns
    <3> QED
      BY <1>3, <3>1, TurnAll, Zenon
  <2> QED
    BY <1>2, <2>1, <2>2
<1> QED
  BY <1>4, <1>5

\* Over TCP and UDP, for any number of streams, whoever else connects to the port, and
\* whichever packets are lost or late: when both sides are ready each stream of the
\* server is connected to one of the client's, and to that of its own number unless a
\* handshake's last packet was late.
THEOREM StreamsPaired == SetUpSpec => []StreamsPair
<1>1. SetUpInit => OwnInv /\ PairInv
  BY InitOwns, InitPairs DEF SetUpInit, Afresh
<1>2. OwnInv /\ PairInv /\ [SetUpNext]_all => OwnInv' /\ PairInv'
  BY OwnStep, PairStep
<1>3. OwnInv /\ PairInv => StreamsPair
  BY PairImplies
<1> QED
  BY <1>1, <1>2, <1>3, PTL DEF SetUpSpec
=============================================================================
